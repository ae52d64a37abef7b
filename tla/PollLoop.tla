------------------------------ MODULE PollLoop ------------------------------
(***************************************************************************)
(* The two polling loops of shared/healthandmetrics: the health checker    *)
(* (health-checker.go) and the metrics consumer (metrics-reader.go).  They *)
(* are the same loop; they differ in what a failed check does.             *)
(*                                                                         *)
(* Every iteration copies the list of objects, sends all of them to a      *)
(* queue, and only then starts to collect as many results.  Processor      *)
(* goroutines take an object from the queue, check it over HTTP and send   *)
(* the result.  Both channels are bounded.  Cancelling the context stops   *)
(* the loop, which closes the queue, and the processors.  The specification*)
(* that runs the loop is in RegistryGateways, with the objects it polls.   *)
(***************************************************************************)
EXTENDS Integers, Sequences, FiniteSets

CONSTANTS
  Objects,        \* addresses that may be polled
  Processors,
  QueueCap, ResultCap,
  Kinds,          \* the loops to consider: "health", "metrics"
  MaxChanges      \* bound: objects added, removed, going down or up

ASSUME PollAssumption ==
  /\ QueueCap \in Nat \ {0} /\ ResultCap \in Nat \ {0}
  /\ Kinds \subseteq {"health", "metrics"} /\ MaxChanges \in Nat
  /\ IsFiniteSet(Objects) /\ IsFiniteSet(Processors)

VARIABLES
  kind,       \* which of the two loops this is
  objects,    \* the list, one entry per address
  up,         \* objects that answer a check
  loop,       \* "wait", "send", "receive" or "stopped"
  todo,       \* of the copy: not sent yet
  awaited,    \* results the iteration has still to collect
  queue, results,
  proc,       \* what each processor does
  canceled,
  changes

pipeVars == <<todo, awaited, queue, results>>
vars == <<kind, objects, up, loop, pipeVars, proc, canceled, changes>>

Idle == [pc |-> "idle"]

\* Nothing is being polled.
AtRest ==
  /\ loop = "wait" /\ todo = {} /\ awaited = 0 /\ queue = <<>> /\ results = <<>>
  /\ proc = [p \in Processors |-> Idle]

-----------------------------------------------------------------------------
(* Other goroutines and the polled servers                                 *)

Change ==
  /\ changes < MaxChanges /\ changes' = changes + 1
  /\ UNCHANGED <<kind, loop, pipeVars, proc, canceled>>

\* AddHealthCheckObject, AddMetricsObservable.
Add(o) == Change /\ objects' = objects \cup {o} /\ UNCHANGED up

\* RemoveMetricsObservable, called by the observers of the health checker.
Remove(o) ==
  /\ kind = "metrics" /\ o \in objects
  /\ Change /\ objects' = objects \ {o} /\ UNCHANGED up

Down(o) == o \in up /\ Change /\ up' = up \ {o} /\ UNCHANGED objects
Up(o) == o \notin up /\ Change /\ up' = up \cup {o} /\ UNCHANGED objects

Cancel ==
  /\ ~canceled /\ canceled' = TRUE
  /\ UNCHANGED <<kind, objects, up, loop, pipeVars, proc, changes>>

-----------------------------------------------------------------------------
(* Start and makeIteration                                                 *)

\* Fault: the number of results is taken one too small.
ResultsOfAllButOne(objs) == Cardinality(objs) - 1

ResultsOf(objs) == Cardinality(objs)

\* An iteration over no objects changes nothing.
StartIteration ==
  /\ loop = "wait" /\ ~canceled /\ objects # {}
  /\ todo' = objects /\ awaited' = ResultsOf(objects)
  /\ loop' = "send"
  /\ UNCHANGED <<kind, objects, up, queue, results, proc, canceled, changes>>

Send(o) ==
  /\ loop = "send" /\ o \in todo /\ Len(queue) < QueueCap
  /\ queue' = Append(queue, o)
  /\ todo' = todo \ {o}
  /\ loop' = IF todo = {o} THEN "receive" ELSE "send"
  /\ UNCHANGED <<kind, objects, up, awaited, results, proc, canceled, changes>>

\* RemoveHealthCheckObject
RemoveObject(o) == objects \ {o}

\* handleResult of the health checker removes a failed object, then tells the
\* observers; that of the metrics consumer only tells or logs.
HandleResult ==
  /\ loop = "receive" /\ results # <<>>
  /\ results' = Tail(results)
  /\ awaited' = awaited - 1
  /\ loop' = IF awaited = 1 THEN "wait" ELSE "receive"
  /\ objects' = IF kind = "health" /\ ~Head(results).ok
                THEN RemoveObject(Head(results).obj) ELSE objects
  /\ UNCHANGED <<kind, up, todo, queue, proc, canceled, changes>>

\* Where the loop waits it also watches ctx.Done; it closes the queue.
Stop ==
  /\ canceled /\ loop # "stopped" /\ loop' = "stopped"
  /\ UNCHANGED <<kind, objects, up, pipeVars, proc, canceled, changes>>

-----------------------------------------------------------------------------
(* process: the processors                                                 *)

Take(p) ==
  /\ proc[p].pc = "idle" /\ queue # <<>>
  /\ proc' = [proc EXCEPT ![p] = [pc |-> "check", obj |-> Head(queue)]]
  /\ queue' = Tail(queue)
  /\ UNCHANGED <<kind, objects, up, loop, todo, awaited, results, canceled, changes>>

\* The HTTP request ends, at the latest with the client's timeout.
Check(p) ==
  /\ proc[p].pc = "check"
  /\ proc' = [proc EXCEPT ![p] = [pc |-> "report", obj |-> @.obj, ok |-> @.obj \in up]]
  /\ UNCHANGED <<kind, objects, up, loop, pipeVars, canceled, changes>>

Report(p) ==
  /\ proc[p].pc = "report" /\ Len(results) < ResultCap
  /\ results' = Append(results, [obj |-> proc[p].obj, ok |-> proc[p].ok])
  /\ proc' = [proc EXCEPT ![p] = Idle]
  /\ UNCHANGED <<kind, objects, up, loop, todo, awaited, queue, canceled, changes>>

\* Fault: the send of the result does not watch ctx.Done.
StopsIdle(p) == proc[p].pc = "idle" /\ loop = "stopped" /\ queue = <<>>

\* The queue is closed and drained, or ctx.Done wins over the send.
Stops(p) ==
  \/ proc[p].pc = "idle" /\ loop = "stopped" /\ queue = <<>>
  \/ proc[p].pc = "report" /\ canceled

Exit(p) ==
  /\ Stops(p)
  /\ proc' = [proc EXCEPT ![p] = [pc |-> "exited"]]
  /\ UNCHANGED <<kind, objects, up, loop, pipeVars, canceled, changes>>

-----------------------------------------------------------------------------
ProcStep(p) == Take(p) \/ Check(p) \/ Report(p) \/ Exit(p)

-----------------------------------------------------------------------------
Busy == {p \in Processors : proc[p].pc \in {"check", "report"}}

TypeOK ==
  /\ kind \in Kinds
  /\ objects \subseteq Objects /\ up \subseteq Objects /\ todo \subseteq Objects
  /\ loop \in {"wait", "send", "receive", "stopped"}
  /\ awaited \in Nat /\ canceled \in BOOLEAN /\ changes \in 0 .. MaxChanges
  /\ queue \in Seq(Objects) /\ Len(queue) <= QueueCap
  /\ results \in Seq([obj : Objects, ok : BOOLEAN]) /\ Len(results) <= ResultCap
  /\ proc \in [Processors -> {Idle} \cup [pc : {"check"}, obj : Objects]
                 \cup [pc : {"report"}, obj : Objects, ok : BOOLEAN] \cup {[pc |-> "exited"]}]

\* An iteration collects exactly the results of the objects it has sent: what
\* it waits for is on its way, and nothing is left over for the next one
\* (makeIteration, health-checker.go:155), until the context is cancelled.
InFlightIsAwaited ==
  ~canceled => /\ Cardinality(todo) + Len(queue) + Cardinality(Busy) + Len(results) = awaited
               /\ loop = "wait" => awaited = 0

\* After cancellation the loop and every processor end, also those blocked on
\* a full channel (health-checker.go:114 and 190, the B4 fix).
ShutsDown == canceled ~> (loop = "stopped" /\ \A p \in Processors : proc[p].pc = "exited")
=============================================================================
