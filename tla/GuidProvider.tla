---------------------------- MODULE GuidProvider ----------------------------
(***************************************************************************)
(* The guid iterator inside a game server:                                 *)
(* game-server/libsidecar/guids/guids.go.                                  *)
(*                                                                         *)
(* The game thread calls Next.  It walks the ranges of the current batch;  *)
(* when the iterator passes a trigger value it starts a goroutine that     *)
(* asks the guid server for the next batch and hands it over an unbuffered *)
(* channel.  When the batch is used up Next takes the new one from that    *)
(* channel, and blocks until it is there.                                  *)
(*                                                                         *)
(* given and returned are history variables: the guids of every batch this *)
(* process has accepted, and what Next has answered, in order.             *)
(***************************************************************************)
EXTENDS Integers, Sequences

LOCAL INSTANCE Functions

CONSTANTS
  Layouts,      \* shapes of a batch: ranges of offsets, [first, last]
  Pct,          \* pctToTriggerUpdate
  Retries,      \* retriesCount
  MaxGuid,      \* bound: the guid server has no more than this
  MaxFailures,  \* bound: failed or empty answers
  MaxRestarts   \* bound: restarts of the game server

\* Ranges with guids in them, each above the one before it.
IsLayout(l) ==
  /\ l \in Seq([first : Nat, last : Nat]) /\ l # <<>>
  /\ \A i \in 1 .. Len(l) : l[i].first <= l[i].last
  /\ \A i, j \in 1 .. Len(l) : i < j => l[i].last < l[j].first

ASSUME ProviderAssumption ==
  /\ Layouts # {} /\ \A l \in Layouts : IsLayout(l)
  /\ Pct \in 0 .. 99 /\ Retries \in Nat \ {0}
  /\ MaxGuid \in Nat /\ MaxFailures \in Nat /\ MaxRestarts \in Nat

VARIABLES
  iterator, iteratorMax,
  trigger,        \* iteratorValueToTriggerUpdate
  nextDiapasons,
  requesters,     \* goroutines of triggerDiapasonsRequest, oldest first
  thread,         \* the game thread: "new", "run", "blocked" or "dead"
  free,           \* first guid the guid server has not given to anyone
  given, returned,
  failures, restarts

itVars == <<iterator, iteratorMax, trigger, nextDiapasons>>
providerVars == <<itVars, requesters, thread, free, given, returned, failures, restarts>>

-----------------------------------------------------------------------------
Length(d) == d.end - d.start + 1
GuidsOf(ds) == UNION {ds[i].start .. ds[i].end : i \in 1 .. Len(ds)}
Total(ds) == FoldFunction(LAMBDA d, acc : Length(d) + acc, 0, ds)

\* GetGUIDPool, answered by the guid server: the ranges of layout l from n on.
Placed(l, n) == [i \in 1 .. Len(l) |-> [start |-> n + l[i].first, end |-> n + l[i].last]]

\* Fault: the request is made when the batch is used up.
TriggerLate(ds) == ds[Len(ds)].end + 1

(***************************************************************************)
(* calculateIteratorValueToTriggerUpdate.  The amount that triggers is     *)
(* compared with the first guid itself, not with an amount.                *)
(***************************************************************************)
Trigger(ds) ==
  LET pctValue  == (Total(ds) * Pct) \div 100
      left(i)   == pctValue - Total(SubSeq(ds, 1, i - 1))
      covering  == {i \in DOMAIN ds : Length(ds[i]) >= left(i)}
      first     == CHOOSE i \in covering : \A j \in covering : i <= j
  IN  IF pctValue <= ds[1].start
      THEN IF ds[1].start = ds[1].end THEN ds[1].end ELSE ds[1].start + 1
      ELSE ds[first].start + left(first)

\* Fault: the range that becomes current stays in the list.
AllRanges(ds) == ds

\* diapasons[1:], what is left when the first range becomes the current one.
OtherRanges(ds) == Tail(ds)

-----------------------------------------------------------------------------
Init ==
  /\ iterator = 0 /\ iteratorMax = 0 /\ trigger = 0 /\ nextDiapasons = <<>>
  /\ requesters = <<>> /\ thread = "new"
  /\ free = 1 /\ given = {} /\ returned = <<>>
  /\ failures = 0 /\ restarts = 0

Answers == {ds \in {Placed(l, free) : l \in Layouts} : ds[Len(ds)].end <= MaxGuid}

\* NewThreadUnsafeGuidProvider, which InitForRealm calls: the first batch.
NewProvider ==
  /\ thread = "new"
  /\ \E ds \in Answers :
       /\ trigger' = Trigger(ds)
       /\ iterator' = ds[1].start /\ iteratorMax' = ds[1].end
       /\ nextDiapasons' = OtherRanges(ds)
       /\ given' = given \cup GuidsOf(ds)
       /\ free' = ds[Len(ds)].end + 1
  /\ thread' = "run"
  /\ UNCHANGED <<requesters, returned, failures, restarts>>

\* An error or an empty answer at this point is fatal (InitForRealm).
NewProviderFails ==
  /\ thread = "new" /\ failures < MaxFailures
  /\ failures' = failures + 1 /\ thread' = "dead"
  /\ UNCHANGED <<itVars, requesters, free, given, returned, restarts>>

\* What Next has answered so far.
Answered == {returned[i] : i \in 1 .. Len(returned)}

Used == iteratorMax < iterator

\* Fault: the trigger is a threshold.
TriggersFrom(i, t) == i >= t

Triggers(i, t) == i = t

Asking == [pc |-> "ask", tries |-> 0, batch |-> <<>>]

\* The rest of Next once the iterator points at a guid to return.
Return(i, t) ==
  /\ returned' = Append(returned, i)
  /\ iterator' = i + 1
  /\ requesters' = IF Triggers(i, t) THEN Append(requesters, Asking) ELSE requesters

Next ==
  /\ thread = "run" /\ ~Used
  /\ Return(iterator, trigger)
  /\ UNCHANGED <<iteratorMax, trigger, nextDiapasons, thread, free, given, failures, restarts>>

\* reloadIterator with a range left in the batch.
NextReload ==
  /\ thread = "run" /\ Used /\ nextDiapasons # <<>>
  /\ Return(Head(nextDiapasons).start, trigger)
  /\ iteratorMax' = Head(nextDiapasons).end
  /\ nextDiapasons' = OtherRanges(nextDiapasons)
  /\ UNCHANGED <<trigger, thread, free, given, failures, restarts>>

NextBlocks ==
  /\ thread = "run" /\ Used /\ nextDiapasons = <<>>
  /\ thread' = "blocked"
  /\ UNCHANGED <<itVars, requesters, free, given, returned, failures, restarts>>

Without(s, i) == SubSeq(s, 1, i - 1) \o SubSeq(s, i + 1, Len(s))

\* reloadNextDiapasons: the rendezvous with a goroutine, and the rest of Next.
Receive(i) ==
  /\ thread = "blocked" /\ requesters[i].pc = "offer"
  /\ LET ds == requesters[i].batch
         t  == Trigger(ds)
     IN  /\ trigger' = t
         /\ iteratorMax' = ds[1].end /\ nextDiapasons' = OtherRanges(ds)
         /\ given' = given \cup GuidsOf(ds)
         /\ returned' = Append(returned, ds[1].start)
         /\ iterator' = ds[1].start + 1
         /\ requesters' = Without(requesters, i) \o IF Triggers(ds[1].start, t) THEN <<Asking>> ELSE <<>>
  /\ thread' = "run"
  /\ UNCHANGED <<free, failures, restarts>>

-----------------------------------------------------------------------------
(* The goroutine of triggerDiapasonsRequest                                *)

Ask(i) ==
  /\ thread # "dead" /\ requesters[i].pc = "ask"
  /\ \E ds \in Answers :
       /\ requesters' = [requesters EXCEPT ![i] = [pc |-> "offer", tries |-> @.tries, batch |-> ds]]
       /\ free' = ds[Len(ds)].end + 1
  /\ UNCHANGED <<itVars, thread, given, returned, failures, restarts>>

GivesUp(tries) == tries = Retries

\* An error or an empty answer: try again, at last give the process up.
AskFails(i) ==
  /\ thread # "dead" /\ requesters[i].pc = "ask" /\ failures < MaxFailures
  /\ failures' = failures + 1
  /\ requesters' = [requesters EXCEPT ![i].tries = @ + 1]
  /\ thread' = IF GivesUp(requesters[i].tries + 1) THEN "dead" ELSE thread
  /\ UNCHANGED <<itVars, free, given, returned, restarts>>

(* The rest of the cluster                                                 *)

\* Another game server takes a batch.
OthersTake ==
  /\ \E ds \in Answers : free' = ds[Len(ds)].end + 1
  /\ UNCHANGED <<itVars, requesters, thread, given, returned, failures, restarts>>

\* A batch accepted or on its way is lost with the process.
Restart ==
  /\ restarts < MaxRestarts /\ thread # "new"
  /\ restarts' = restarts + 1
  /\ thread' = "new" /\ requesters' = <<>> /\ nextDiapasons' = <<>>
  /\ iterator' = 0 /\ iteratorMax' = 0 /\ trigger' = 0
  /\ given' = Answered
  /\ UNCHANGED <<free, returned, failures>>

Step ==
  \/ NewProvider \/ NewProviderFails
  \/ Next \/ NextReload \/ NextBlocks
  \/ \E i \in DOMAIN requesters : Receive(i) \/ Ask(i) \/ AskFails(i)
  \/ OthersTake \/ Restart

Spec == Init /\ [][Step]_providerVars

(***************************************************************************)
(* The goroutine runs and the guid server answers as long as it has guids; *)
(* the game thread takes what it is offered.  Nothing obliges the game     *)
(* thread to call Next.                                                    *)
(***************************************************************************)
Oldest == requesters # <<>> /\ (Receive(1) \/ Ask(1) \/ AskFails(1))
Fairness == WF_providerVars(Oldest)
FairSpec == Spec /\ Fairness

-----------------------------------------------------------------------------
ProviderTypeOK ==
  /\ iterator \in Nat /\ iteratorMax \in Nat /\ trigger \in Nat
  /\ nextDiapasons \in Seq([start : Nat, end : Nat])
  /\ \A i \in DOMAIN requesters :
       /\ requesters[i].pc \in {"ask", "offer"} /\ requesters[i].tries \in 0 .. Retries
       /\ requesters[i].batch \in Seq([start : Nat, end : Nat])
  /\ thread \in {"new", "run", "blocked", "dead"}
  /\ free \in Nat /\ given \subseteq Nat /\ returned \in Seq(Nat)
  /\ failures \in 0 .. MaxFailures /\ restarts \in 0 .. MaxRestarts

Alive == thread \in {"run", "blocked"}

\* The guids Next has still to return of what it was given.
Left == (iterator .. iteratorMax) \cup GuidsOf(nextDiapasons)

\* Next hands out the guids of the batches it accepted, each one, once and in
\* ascending order, across range and batch ends and restarts (guids.go:57).
NothingSkippedOrRepeated ==
  /\ Alive => /\ Answered \cup Left = given
              /\ \A n \in Answered, m \in Left : n < m
  /\ \A i, j \in 1 .. Len(returned) : i < j => returned[i] < returned[j]

\* At most one goroutine holds or asks for a batch: a second one would block
\* on the unbuffered channel for ever with guids nobody will use.
OneRequestAtATime == Len(requesters) <= 1

\* A blocked Next goes on, unless the guid server has no guids left or fails
\* until the process gives up.
BlockedNextReturns ==
  (thread = "blocked") ~> (thread # "blocked" \/ Answers = {})
=============================================================================
