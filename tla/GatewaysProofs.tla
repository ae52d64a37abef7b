--------------------------- MODULE GatewaysProofs ---------------------------
(***************************************************************************)
(* Proofs about the two components that MCGateways explores.  The polling  *)
(* loop, run by the gateways' registry: for any finite set of objects, any *)
(* number of processors and all capacities of the two channels.  The guid  *)
(* provider of a game server: for all shapes of batches.                   *)
(***************************************************************************)
EXTENDS RegistryGateways, GuidProvider, FiniteSetTheorems, TLAPS

CheckRecs  == [pc : {"check"}, obj : Objects]
ReportRecs == [pc : {"report"}, obj : Objects, ok : BOOLEAN]
ProcStates == {Idle} \cup CheckRecs \cup ReportRecs \cup {[pc |-> "exited"]}

LEMMA HeadType ==
  ASSUME NEW R, NEW s \in Seq(R), s # <<>>
  PROVE  Head(s) \in R
OBVIOUS

LEMMA EmptyType ==
  ASSUME NEW R
  PROVE  <<>> \in Seq(R)
OBVIOUS

LEMMA NewReport ==
  ASSUME NEW o \in Objects, NEW S
  PROVE  [pc |-> "report", obj |-> o, ok |-> o \in S] \in ReportRecs
<1>1. ASSUME NEW b \in BOOLEAN PROVE [pc |-> "report", obj |-> o, ok |-> b] \in ReportRecs
  BY DEF ReportRecs
<1> DEFINE b == o \in S
<1>2. b \in BOOLEAN
  OBVIOUS
<1> HIDE DEF b
<1>3. [pc |-> "report", obj |-> o, ok |-> b] \in ReportRecs
  BY <1>1, <1>2
<1> QED
  BY <1>3 DEF b

\* What the registry hands to the loop.
GatewaysType ==
  /\ gwKeys \subseteq Objects /\ gwIndex \subseteq Objects
  /\ removing \in Objects \cup {NoOne} /\ updating \in Objects \cup {NoOne}

\* What is on its way: not sent, in the queue, being checked, or reported.
InFlight == Cardinality(todo) + Len(queue) + Cardinality(Busy) + Len(results)

\* Once the context is cancelled a processor may drop its result: then less is
\* on its way than is awaited, never more.
Awaits ==
  /\ InFlight <= awaited
  /\ ~canceled => InFlight = awaited
  /\ loop = "wait" => awaited = 0

PollInv == TypeOK /\ GatewaysType /\ Awaits

-----------------------------------------------------------------------------
\* The sizes of finite sets.
LEMMA Sizes ==
  ASSUME TypeOK
  PROVE  /\ Cardinality(todo) \in Nat /\ Cardinality(Busy) \in Nat /\ IsFiniteSet(todo) /\ IsFiniteSet(Busy)
         /\ Len(queue) \in Nat /\ Len(results) \in Nat
<1>1. IsFiniteSet(todo) /\ IsFiniteSet(Busy)
  <2>1. todo \subseteq Objects /\ Busy \subseteq Processors
    BY DEF TypeOK, Busy
  <2> QED
    BY <2>1, PollAssumption, FS_Subset
<1>2. Len(queue) \in Nat /\ Len(results) \in Nat
  BY DEF TypeOK
<1> QED
  BY <1>1, <1>2, FS_CardinalityType

LEMMA PollInit == GatewaysInit => PollInv
<1> SUFFICES ASSUME GatewaysInit PROVE PollInv
  OBVIOUS
<1>1. GatewaysType
  BY DEF GatewaysInit, GatewaysType
<1>2. TypeOK
  <2>1. proc \in [Processors -> ProcStates]
    BY DEF GatewaysInit, AtRest, ProcStates
  <2>2. /\ kind \in Kinds /\ objects \subseteq Objects /\ up \subseteq Objects /\ todo \subseteq Objects
        /\ loop = "wait" /\ awaited = 0 /\ queue = <<>> /\ results = <<>> /\ canceled = FALSE /\ changes = 0
    BY DEF GatewaysInit, AtRest
  <2>3. changes \in 0 .. MaxChanges /\ Len(queue) <= QueueCap /\ Len(results) <= ResultCap
    BY <2>2, PollAssumption
  <2>4. /\ loop \in {"wait", "send", "receive", "stopped"} /\ awaited \in Nat /\ canceled \in BOOLEAN
        /\ queue \in Seq(Objects) /\ results \in Seq([obj : Objects, ok : BOOLEAN])
    BY <2>2, EmptyType
  <2> QED
    BY <2>1, <2>2, <2>3, <2>4, Zenon DEF TypeOK, ProcStates, CheckRecs, ReportRecs
<1>3. todo = {} /\ Busy = {} /\ queue = <<>> /\ results = <<>> /\ awaited = 0
  BY DEF GatewaysInit, AtRest, Busy, Idle
<1>4. InFlight = 0
  BY <1>3, FS_EmptySet DEF InFlight
<1> QED
  BY <1>1, <1>2, <1>3, <1>4 DEF PollInv, Awaits

\* A step that leaves what is on its way.
LEMMA SameFlight ==
  ASSUME PollInv, TypeOK', GatewaysType', UNCHANGED <<loop, pipeVars, Busy>>, canceled => canceled'
  PROVE  PollInv'
<1>1. InFlight' = InFlight
  BY DEF InFlight, pipeVars
<1> QED
  BY <1>1 DEF PollInv, Awaits, pipeVars

\* The processes around the loop: none of their steps touches what is on its way.
LEMMA PollGateways ==
  ASSUME PollInv, GatewaysNext
  PROVE  PollInv'
<1>0. TypeOK /\ GatewaysType /\ Awaits
  BY DEF PollInv
<1> DEFINE pipe == <<kind, loop, todo, awaited, queue, results, proc, canceled>>
<1>p. ASSUME UNCHANGED pipe, objects' \subseteq Objects, up' \subseteq Objects, changes' \in 0 .. MaxChanges
      PROVE  TypeOK'
  BY <1>0, <1>p DEF TypeOK
<1>s. ASSUME UNCHANGED pipe, TypeOK', GatewaysType' PROVE PollInv'
  BY <1>s, SameFlight DEF Busy, pipeVars
<1>t. objects \subseteq Objects /\ up \subseteq Objects /\ changes \in 0 .. MaxChanges
  BY <1>0 DEF TypeOK
<1> HIDE DEF pipe
<1> USE DEF redisVars, gwBounds, pipeVars
<1>1. ASSUME NEW g \in Objects, StartGateway(g) \/ RegisterStore(g) \/ MetricsGet(g) PROVE PollInv'
  <2>1. UNCHANGED vars
    BY <1>1 DEF StartGateway, RegisterStore, MetricsGet
  <2>2. UNCHANGED pipe /\ TypeOK'
    BY <1>p, <1>t, <2>1 DEF vars, pipe
  <2>3. GatewaysType'
    BY <1>0, <1>1 DEF StartGateway, RegisterStore, MetricsGet, GatewaysType
  <2> QED
    BY <1>s, <2>2, <2>3
<1>2. ASSUME NEW g \in Objects, Endpoint(g) PROVE PollInv'
  <2>1. UNCHANGED pipe /\ objects' \subseteq Objects /\ up' \subseteq Objects /\ changes' \in 0 .. MaxChanges
    BY <1>2, <1>t, PollAssumption DEF Endpoint, Up, Down, Change, pipe
  <2>2. GatewaysType'
    BY <1>0, <1>2 DEF Endpoint, gwVars, GatewaysType
  <2> QED
    BY <1>p, <1>s, <2>1, <2>2
<1>3. ASSUME NEW g \in Objects, StopGateway(g) \/ RegisterAdd(g) \/ RegisterFails(g) PROVE PollInv'
  <2>1. UNCHANGED pipe /\ objects' \subseteq Objects /\ up' \subseteq Objects /\ changes' \in 0 .. MaxChanges
    BY <1>3, <1>t DEF StopGateway, RegisterAdd, RegisterFails, pipe
  <2>2. GatewaysType'
    BY <1>0, <1>3 DEF StopGateway, RegisterAdd, RegisterFails, GatewaysType
  <2> QED
    BY <1>p, <1>s, <2>1, <2>2
<1>4. CASE OnServerUnhealthy \/ UnhealthyFails \/ MetricsSet
  <2>1. UNCHANGED vars
    BY <1>4 DEF OnServerUnhealthy, UnhealthyFails, MetricsSet
  <2>2. UNCHANGED pipe /\ TypeOK'
    BY <1>p, <1>t, <2>1 DEF vars, pipe
  <2>3. GatewaysType'
    BY <1>0, <1>4, GatewaysAssumption DEF OnServerUnhealthy, UnhealthyFails, MetricsSet, GatewaysType
  <2> QED
    BY <1>s, <2>2, <2>3
<1>5. CASE RestartRegistry
  <2>1. /\ todo' = {} /\ awaited' = 0 /\ queue' = <<>> /\ results' = <<>> /\ loop' = "wait"
        /\ proc' = [p \in Processors |-> Idle] /\ objects' = gwIndex \cap gwKeys
        /\ up' \subseteq up /\ UNCHANGED <<kind, canceled, changes, gwKeys, gwIndex>>
        /\ removing' = NoOne /\ updating' = NoOne
    BY <1>5 DEF RestartRegistry, ListedAtStart, ListedGateways
  <2>2. GatewaysType'
    BY <1>0, <2>1 DEF GatewaysType
  <2>3. proc' \in [Processors -> ProcStates]
    BY <2>1 DEF ProcStates
  <2>4. TypeOK'
    <3>1. objects' \subseteq Objects /\ up' \subseteq Objects
      BY <1>0, <1>t, <2>1 DEF GatewaysType
    <3>2. Len(queue') <= QueueCap /\ Len(results') <= ResultCap
      BY <2>1, PollAssumption
    <3>3. kind \in Kinds /\ canceled \in BOOLEAN
      BY <1>0 DEF TypeOK
    <3>4. /\ kind' \in Kinds /\ objects' \subseteq Objects /\ up' \subseteq Objects /\ todo' \subseteq Objects
          /\ loop' = "wait" /\ awaited' \in Nat /\ canceled' \in BOOLEAN /\ changes' \in 0 .. MaxChanges
          /\ queue' \in Seq(Objects) /\ results' \in Seq([obj : Objects, ok : BOOLEAN])
      BY <1>t, <2>1, <3>1, <3>3
    <3> QED
      BY <2>3, <3>2, <3>4 DEF TypeOK, ProcStates, CheckRecs, ReportRecs
  <2>5. Busy' = {}
    BY <2>1 DEF Busy, Idle
  <2>6. InFlight' = 0
    BY <2>1, <2>5, FS_EmptySet DEF InFlight
  <2> QED
    BY <2>1, <2>2, <2>4, <2>6 DEF PollInv, Awaits
<1> QED
  BY <1>1, <1>2, <1>3, <1>4, <1>5 DEF GatewaysNext, Registering

\* The loop.
LEMMA PollChecker ==
  ASSUME PollInv, CheckerStep
  PROVE  PollInv'
<1>0. TypeOK /\ GatewaysType /\ Awaits
  BY DEF PollInv
<1>n. /\ Cardinality(todo) \in Nat /\ Cardinality(Busy) \in Nat /\ IsFiniteSet(todo) /\ awaited \in Nat
      /\ Len(queue) \in Nat /\ Len(results) \in Nat
  BY <1>0, Sizes DEF TypeOK
<1>g. GatewaysType'
  <2>1. CASE HandleResult
    <3>1. results \in Seq([obj : Objects, ok : BOOLEAN]) /\ results # <<>>
      BY <1>0, <2>1 DEF HandleResult, TypeOK
    <3>2. Head(results) \in [obj : Objects, ok : BOOLEAN]
      BY <3>1, HeadType
    <3>3. Head(results).obj \in Objects
      BY <3>2
    <3> QED
      BY <1>0, <3>3 DEF CheckerStep, GatewaysType, redisVars
  <2>2. CASE UNCHANGED removing
    BY <1>0, <2>2 DEF CheckerStep, GatewaysType, redisVars
  <2> QED
    BY <2>1, <2>2 DEF CheckerStep
<1>1. CASE StartIteration
  <2>1. /\ loop = "wait" /\ todo' = objects /\ awaited' = Cardinality(objects) /\ loop' = "send"
        /\ UNCHANGED <<kind, objects, up, queue, results, proc, canceled, changes>>
    BY <1>1 DEF StartIteration, ResultsOf
  <2>2. objects \subseteq Objects
    BY <1>0 DEF TypeOK
  <2>3. Cardinality(objects) \in Nat
    BY <2>2, PollAssumption, FS_Subset, FS_CardinalityType
  <2>4. TypeOK'
    BY <1>0, <2>1, <2>2, <2>3 DEF TypeOK
  <2>5. Busy' = Busy
    BY <2>1 DEF Busy
  <2>6. Len(queue) = 0 /\ Cardinality(Busy) = 0 /\ Len(results) = 0
    BY <1>0, <1>n, <2>1 DEF Awaits, InFlight
  <2>7. InFlight' = awaited'
    BY <2>1, <2>3, <2>5, <2>6 DEF InFlight
  <2> QED
    BY <1>g, <2>1, <2>3, <2>4, <2>7 DEF PollInv, Awaits
<1>2. ASSUME NEW o \in Objects, Send(o) PROVE PollInv'
  <2>1. /\ loop = "send" /\ o \in todo /\ Len(queue) < QueueCap /\ queue' = Append(queue, o)
        /\ todo' = todo \ {o} /\ loop' \in {"receive", "send"}
        /\ UNCHANGED <<kind, objects, up, awaited, results, proc, canceled, changes>>
    BY <1>2 DEF Send
  <2>2. queue' \in Seq(Objects) /\ Len(queue') = Len(queue) + 1
    BY <1>0, <2>1 DEF TypeOK
  <2>3. TypeOK'
    <3>1. Len(queue') <= QueueCap
      BY <1>n, <2>1, <2>2, PollAssumption
    <3> QED
      BY <1>0, <2>1, <2>2, <3>1 DEF TypeOK
  <2>4. Cardinality(todo') = Cardinality(todo) - 1
    BY <1>n, <2>1, FS_RemoveElement
  <2>5. Busy' = Busy
    BY <2>1 DEF Busy
  <2>6. InFlight' = InFlight
    BY <1>n, <2>1, <2>2, <2>4, <2>5 DEF InFlight
  <2> QED
    BY <1>0, <1>g, <2>1, <2>3, <2>6 DEF PollInv, Awaits
<1>3. CASE Stop
  <2>1. /\ canceled /\ loop' = "stopped"
        /\ UNCHANGED <<kind, objects, up, todo, awaited, queue, results, proc, canceled, changes>>
    BY <1>3 DEF Stop, pipeVars
  <2>2. TypeOK'
    BY <1>0, <2>1 DEF TypeOK
  <2>3. InFlight' = InFlight
    BY <2>1 DEF InFlight, Busy
  <2> QED
    BY <1>0, <1>g, <2>1, <2>2, <2>3 DEF PollInv, Awaits
<1>4. CASE HandleResult
  <2>1. /\ results # <<>> /\ results' = Tail(results) /\ awaited' = awaited - 1
        /\ loop' = (IF awaited = 1 THEN "wait" ELSE "receive") /\ objects' \subseteq objects
        /\ UNCHANGED <<kind, up, todo, queue, proc, canceled, changes>>
    BY <1>4 DEF HandleResult, RemoveObject
  <2>2. results' \in Seq([obj : Objects, ok : BOOLEAN]) /\ Len(results') = Len(results) - 1
    BY <1>0, <2>1 DEF TypeOK
  <2>3. awaited >= 1
    BY <1>0, <1>n, <2>2, <2>1 DEF Awaits, InFlight, TypeOK
  <2>4. TypeOK'
    <3>1. Len(results') <= ResultCap /\ awaited' \in Nat
      BY <1>0, <1>n, <2>1, <2>2, <2>3, PollAssumption DEF TypeOK
    <3> QED
      BY <1>0, <2>1, <2>2, <3>1 DEF TypeOK
  <2>5. Busy' = Busy
    BY <2>1 DEF Busy
  <2>6. InFlight' = InFlight - 1
    BY <1>n, <2>1, <2>2, <2>5 DEF InFlight
  <2>7. InFlight \in Int
    BY <1>n DEF InFlight
  <2> QED
    BY <1>0, <1>g, <1>n, <2>1, <2>4, <2>6, <2>7 DEF PollInv, Awaits
<1> QED
  BY <1>1, <1>2, <1>3, <1>4 DEF CheckerStep

LEMMA PollProcessor ==
  ASSUME PollInv, NEW p \in Processors, ProcStep(p), UNCHANGED gwVars
  PROVE  PollInv'
<1>0. TypeOK /\ GatewaysType /\ Awaits
  BY DEF PollInv
<1>n. /\ Cardinality(todo) \in Nat /\ Cardinality(Busy) \in Nat /\ IsFiniteSet(Busy) /\ awaited \in Nat
      /\ Len(queue) \in Nat /\ Len(results) \in Nat
  BY <1>0, Sizes DEF TypeOK
<1>g. GatewaysType'
  BY <1>0 DEF GatewaysType, gwVars, redisVars
<1>p. proc \in [Processors -> ProcStates]
  BY <1>0 DEF TypeOK, ProcStates, CheckRecs, ReportRecs
<1>b. /\ p \in Busy <=> proc[p].pc \in {"check", "report"}
      /\ Cardinality(Busy \cup {p}) = IF p \in Busy THEN Cardinality(Busy) ELSE Cardinality(Busy) + 1
      /\ Cardinality(Busy \ {p}) = IF p \in Busy THEN Cardinality(Busy) - 1 ELSE Cardinality(Busy)
  BY <1>n, FS_AddElement, FS_RemoveElement DEF Busy
<1> USE DEF pipeVars
<1>1. CASE Take(p)
  <2>1. /\ proc[p].pc = "idle" /\ queue # <<>> /\ queue' = Tail(queue)
        /\ proc' = [proc EXCEPT ![p] = [pc |-> "check", obj |-> Head(queue)]]
        /\ UNCHANGED <<kind, objects, up, loop, todo, awaited, results, canceled, changes>>
    BY <1>1 DEF Take
  <2>2. queue' \in Seq(Objects) /\ Len(queue') = Len(queue) - 1 /\ Head(queue) \in Objects
    BY <1>0, <2>1 DEF TypeOK
  <2>3. proc' \in [Processors -> ProcStates]
    <3>1. [pc |-> "check", obj |-> Head(queue)] \in ProcStates
      BY <2>2 DEF ProcStates, CheckRecs
    <3> QED
      BY <1>p, <2>1, <3>1
  <2>4. Busy' = Busy \cup {p} /\ p \notin Busy
    BY <1>p, <2>1 DEF Busy
  <2>5. TypeOK'
    <3>1. Len(queue') <= QueueCap
      BY <1>0, <1>n, <2>2, PollAssumption DEF TypeOK
    <3> QED
      BY <1>0, <2>1, <2>2, <2>3, <3>1 DEF TypeOK, ProcStates, CheckRecs, ReportRecs
  <2>6. InFlight' = InFlight
    <3>1. Cardinality(Busy') = Cardinality(Busy) + 1 /\ Len(queue') = Len(queue) - 1
      BY <1>b, <2>2, <2>4
    <3>2. todo' = todo /\ results' = results
      BY <2>1
    <3> QED
      BY <1>n, <3>1, <3>2 DEF InFlight
  <2> QED
    BY <1>0, <1>g, <2>1, <2>5, <2>6 DEF PollInv, Awaits
<1>2. CASE Check(p)
  <2>1. /\ proc[p].pc = "check"
        /\ proc' = [proc EXCEPT ![p] = [pc |-> "report", obj |-> proc[p].obj, ok |-> proc[p].obj \in up]]
        /\ UNCHANGED <<kind, objects, up, loop, todo, awaited, queue, results, canceled, changes>>
    BY <1>2 DEF Check
  <2>2. proc[p] \in CheckRecs
    BY <1>p, <2>1 DEF ProcStates, ReportRecs, Idle
  <2>3. [pc |-> "report", obj |-> proc[p].obj, ok |-> proc[p].obj \in up] \in ReportRecs
    <3>1. proc[p].obj \in Objects
      BY <2>2 DEF CheckRecs
    <3> QED
      BY <3>1, NewReport
  <2>4. proc' \in [Processors -> ProcStates]
    BY <1>p, <2>1, <2>3 DEF ProcStates
  <2>5. Busy' = Busy
    BY <1>p, <2>1 DEF Busy
  <2>6. TypeOK'
    BY <1>0, <2>1, <2>4 DEF TypeOK, ProcStates, CheckRecs, ReportRecs
  <2> QED
    BY <1>g, <2>1, <2>5, <2>6, SameFlight
<1>3. CASE Report(p)
  <2>1. /\ proc[p].pc = "report" /\ Len(results) < ResultCap
        /\ results' = Append(results, [obj |-> proc[p].obj, ok |-> proc[p].ok])
        /\ proc' = [proc EXCEPT ![p] = Idle]
        /\ UNCHANGED <<kind, objects, up, loop, todo, awaited, queue, canceled, changes>>
    BY <1>3 DEF Report
  <2>2. proc[p] \in ReportRecs
    BY <1>p, <2>1 DEF ProcStates, CheckRecs, Idle
  <2>3. [obj |-> proc[p].obj, ok |-> proc[p].ok] \in [obj : Objects, ok : BOOLEAN]
    BY <2>2 DEF ReportRecs
  <2>4. results' \in Seq([obj : Objects, ok : BOOLEAN]) /\ Len(results') = Len(results) + 1
    <3> DEFINE r == [obj |-> proc[p].obj, ok |-> proc[p].ok]
               R == [obj : Objects, ok : BOOLEAN]
    <3>1. results \in Seq(R) /\ r \in R /\ results' = Append(results, r)
      BY <1>0, <2>1, <2>3 DEF TypeOK
    <3> HIDE DEF r, R
    <3>2. results' \in Seq(R) /\ Len(results') = Len(results) + 1
      BY <3>1
    <3> QED
      BY <3>2 DEF R
  <2>5. proc' \in [Processors -> ProcStates]
    BY <1>p, <2>1 DEF ProcStates
  <2>6. Busy' = Busy \ {p} /\ p \in Busy
    BY <1>p, <2>1 DEF Busy, Idle
  <2>7. TypeOK'
    <3>1. Len(results') <= ResultCap
      BY <1>n, <2>1, <2>4, PollAssumption
    <3> QED
      BY <1>0, <2>1, <2>4, <2>5, <3>1, Zenon DEF TypeOK, ProcStates, CheckRecs, ReportRecs
  <2>8. InFlight' = InFlight
    <3>1. Cardinality(Busy') = Cardinality(Busy) - 1 /\ Len(results') = Len(results) + 1
      BY <1>b, <2>4, <2>6
    <3>2. todo' = todo /\ queue' = queue
      BY <2>1
    <3> QED
      BY <1>n, <3>1, <3>2 DEF InFlight
  <2> QED
    BY <1>0, <1>g, <2>1, <2>7, <2>8 DEF PollInv, Awaits
<1>4. CASE Exit(p)
  <2>1. /\ proc[p].pc = "idle" \/ canceled
        /\ proc' = [proc EXCEPT ![p] = [pc |-> "exited"]]
        /\ UNCHANGED <<kind, objects, up, loop, todo, awaited, queue, results, canceled, changes>>
    BY <1>4 DEF Exit, Stops
  <2>2. proc' \in [Processors -> ProcStates]
    BY <1>p, <2>1 DEF ProcStates
  <2>3. Busy' = Busy \ {p}
    BY <1>p, <2>1 DEF Busy
  <2>4. TypeOK'
    BY <1>0, <2>1, <2>2 DEF TypeOK, ProcStates, CheckRecs, ReportRecs
  <2>5. InFlight' <= InFlight /\ InFlight \in Int /\ InFlight' \in Int /\ (~canceled => InFlight' = InFlight)
    BY <1>b, <1>n, <2>1, <2>3 DEF InFlight
  <2> QED
    BY <1>0, <1>g, <1>n, <2>1, <2>4, <2>5 DEF PollInv, Awaits
<1> QED
  BY <1>1, <1>2, <1>3, <1>4 DEF ProcStep

LEMMA PollStep ==
  ASSUME PollInv, [GatewaysNext \/ LoopNext]_allVars
  PROVE  PollInv'
<1>0. TypeOK /\ GatewaysType
  BY DEF PollInv
<1>1. ASSUME Cancel, UNCHANGED gwVars PROVE PollInv'
  <2>1. UNCHANGED <<kind, objects, up, loop, todo, awaited, queue, results, proc, changes>> /\ canceled' = TRUE
    BY <1>1 DEF Cancel, pipeVars
  <2>2. TypeOK' /\ GatewaysType'
    BY <1>0, <1>1, <2>1 DEF TypeOK, GatewaysType, gwVars, redisVars
  <2> QED
    BY <2>1, <2>2, SameFlight DEF Busy, pipeVars
<1>2. ASSUME NEW o \in Objects, Add(o) \/ Remove(o) \/ Down(o) \/ Up(o), UNCHANGED gwVars PROVE PollInv'
  <2>1. /\ UNCHANGED <<kind, loop, todo, awaited, queue, results, proc, canceled>>
        /\ changes < MaxChanges /\ changes' = changes + 1
    BY <1>2 DEF Add, Remove, Down, Up, Change, pipeVars
  <2>2. objects' \subseteq Objects /\ up' \subseteq Objects
    BY <1>0, <1>2 DEF Add, Remove, Down, Up, TypeOK
  <2>3. TypeOK'
    <3>1. changes' \in 0 .. MaxChanges
      BY <1>0, <2>1, PollAssumption DEF TypeOK
    <3> QED
      BY <1>0, <2>1, <2>2, <3>1 DEF TypeOK
  <2>4. GatewaysType'
    BY <1>0, <1>2 DEF GatewaysType, gwVars, redisVars
  <2> QED
    BY <2>1, <2>3, <2>4, SameFlight DEF Busy, pipeVars
<1>3. CASE UNCHANGED allVars
  <2>1. UNCHANGED <<vars, gwVars>>
    BY <1>3 DEF allVars
  <2>2. TypeOK' /\ GatewaysType'
    BY <1>0, <2>1 DEF TypeOK, GatewaysType, vars, gwVars, redisVars, pipeVars
  <2> QED
    BY <2>1, <2>2, SameFlight DEF vars, Busy, pipeVars
<1> QED
  BY <1>1, <1>2, <1>3, PollGateways, PollChecker, PollProcessor DEF LoopNext

\* makeIteration and process, while gateways register, die and are removed and
\* the registry restarts: for all numbers of objects and processors and all
\* capacities of the channels, an iteration collects exactly the results of
\* what it sent.
THEOREM IterationsAreExact == GatewaysSpec => [](TypeOK /\ InFlightIsAwaited)
<1>1. PollInv => TypeOK /\ InFlightIsAwaited
  BY DEF PollInv, Awaits, InFlight, InFlightIsAwaited
<1> QED
  BY <1>1, PollInit, PollStep, PTL DEF GatewaysSpec

-----------------------------------------------------------------------------
(* The guid provider                                                       *)

\* Ranges with guids in them, in ascending order, and the guids of a batch that
\* lie from lo on and below hi.
Ranges == [start : Nat, end : Nat]

Ascending(ds, lo, hi) ==
  /\ ds \in Seq(Ranges)
  /\ \A i \in 1 .. Len(ds) : lo <= ds[i].start /\ ds[i].start <= ds[i].end /\ ds[i].end < hi
  /\ \A i, j \in 1 .. Len(ds) : i < j => ds[i].end < ds[j].start

Requesters == [pc : {"ask", "offer"}, tries : Int, batch : Seq(Ranges)]

(***************************************************************************)
(* While the provider runs, what it was given lies between the guids it    *)
(* has returned and free; a batch on its way lies above all that; and a    *)
(* goroutine is only there once the trigger is passed, so that it cannot   *)
(* fire again before the batch has arrived.                                *)
(***************************************************************************)
HistoryOK ==
  /\ free \in Nat /\ returned \in Seq(Nat)
  /\ \A i \in 1 .. Len(returned) : returned[i] < free
  /\ \A i, j \in 1 .. Len(returned) : i < j => returned[i] < returned[j]

IteratorOK ==
  /\ iterator \in Nat /\ iteratorMax \in Nat
  /\ iterator <= iteratorMax + 1 /\ iteratorMax < free
  /\ Ascending(nextDiapasons, iteratorMax + 1, free)
  /\ \A i \in 1 .. Len(returned) : returned[i] < iterator
  /\ Answered \cup Left = given

RequestersOK ==
  /\ requesters \in Seq(Requesters) /\ Len(requesters) <= 1
  /\ Len(requesters) = 1 => trigger \notin Left
  /\ Len(requesters) = 1 /\ requesters[1].pc = "offer" =>
       /\ requesters[1].batch # <<>>
       /\ \E lo \in Nat : /\ Ascending(requesters[1].batch, lo, free)
                          /\ iteratorMax < lo
                          /\ Ascending(nextDiapasons, iteratorMax + 1, lo)

ProviderInv ==
  /\ HistoryOK
  /\ thread \in {"new", "run", "blocked", "dead"}
  /\ thread = "new" => requesters = <<>> /\ nextDiapasons = <<>> /\ given = Answered
  /\ thread = "blocked" => Used /\ nextDiapasons = <<>>
  /\ requesters \in Seq(Requesters) /\ Len(requesters) <= 1
  /\ Alive => IteratorOK /\ RequestersOK

-----------------------------------------------------------------------------
(* Batches                                                                 *)

LEMMA ElementOf ==
  ASSUME NEW R, NEW s \in Seq(R)
  PROVE  \A i \in 1 .. Len(s) : s[i] \in R
OBVIOUS

LEMMA RangesOf ==
  ASSUME NEW ds \in Seq(Ranges)
  PROVE  /\ Len(ds) \in Nat
         /\ \A i \in 1 .. Len(ds) : ds[i].start \in Nat /\ ds[i].end \in Nat
<1>1. \A i \in 1 .. Len(ds) : ds[i] \in Ranges
  OBVIOUS
<1>2. \A d \in Ranges : d.start \in Nat /\ d.end \in Nat
  BY DEF Ranges
<1> QED
  BY <1>1, <1>2

LEMMA AnswerIs ==
  ASSUME free \in Nat, NEW ds \in Answers
  PROVE  /\ ds # <<>> /\ ds[Len(ds)].end \in Nat /\ free <= ds[Len(ds)].end
         /\ Ascending(ds, free, ds[Len(ds)].end + 1)
<1>1. PICK l \in Layouts : ds = Placed(l, free)
  BY DEF Answers
<1>2. IsLayout(l)
  BY ProviderAssumption
<1>3. /\ l \in Seq([first : Nat, last : Nat]) /\ Len(l) \in Nat /\ Len(l) # 0
      /\ \A i \in 1 .. Len(l) : l[i].first \in Nat /\ l[i].last \in Nat /\ l[i].first <= l[i].last
      /\ \A i, j \in 1 .. Len(l) : i < j => l[i].last < l[j].first
  <2>1. l \in Seq([first : Nat, last : Nat]) /\ l # <<>>
    BY <1>2 DEF IsLayout
  <2>2. \A i \in 1 .. Len(l) : l[i] \in [first : Nat, last : Nat]
    BY <2>1, ElementOf
  <2>3. \A i \in 1 .. Len(l) : l[i].first \in Nat /\ l[i].last \in Nat
    BY <2>2
  <2>4. Len(l) \in Nat /\ Len(l) # 0
    BY <2>1
  <2> QED
    BY <1>2, <2>1, <2>3, <2>4 DEF IsLayout
<1>4. /\ Len(ds) = Len(l) /\ ds \in Seq(Ranges)
      /\ \A i \in 1 .. Len(l) : ds[i].start = free + l[i].first /\ ds[i].end = free + l[i].last
  BY <1>1, <1>3 DEF Placed, Ranges
<1>5. Len(l) \in 1 .. Len(l)
  BY <1>3
<1>6. ASSUME NEW i \in 1 .. Len(l) PROVE l[i].last <= l[Len(l)].last
  <2>1. i = Len(l) \/ i < Len(l)
    BY <1>3
  <2>2. CASE i < Len(l)
    BY <2>2, <1>3, <1>5
  <2> QED
    BY <2>1, <2>2, <1>3
<1>7. Ascending(ds, free, ds[Len(ds)].end + 1)
  <2>1. \A i \in 1 .. Len(ds) : free <= ds[i].start /\ ds[i].start <= ds[i].end /\ ds[i].end < ds[Len(ds)].end + 1
    <3> SUFFICES ASSUME NEW i \in 1 .. Len(l)
                 PROVE  free <= ds[i].start /\ ds[i].start <= ds[i].end /\ ds[i].end < ds[Len(l)].end + 1
      BY <1>4
    <3>1. /\ ds[i].start = free + l[i].first /\ ds[i].end = free + l[i].last
          /\ ds[Len(l)].end = free + l[Len(l)].last
      BY <1>4, <1>5
    <3>2. /\ l[i].first \in Nat /\ l[i].last \in Nat /\ l[Len(l)].last \in Nat
          /\ l[i].first <= l[i].last /\ l[i].last <= l[Len(l)].last
      BY <1>3, <1>5, <1>6
    <3> QED
      BY <3>1, <3>2
  <2>2. \A i, j \in 1 .. Len(ds) : i < j => ds[i].end < ds[j].start
    <3> SUFFICES ASSUME NEW i \in 1 .. Len(l), NEW j \in 1 .. Len(l), i < j
                 PROVE  ds[i].end < ds[j].start
      BY <1>4
    <3>1. ds[i].end = free + l[i].last /\ ds[j].start = free + l[j].first
      BY <1>4
    <3>2. l[i].last \in Nat /\ l[j].first \in Nat /\ l[i].last < l[j].first
      BY <1>3
    <3> QED
      BY <3>1, <3>2
  <2> QED
    BY <2>1, <2>2, <1>4 DEF Ascending
<1> QED
  BY <1>3, <1>4, <1>5, <1>7

LEMMA Widened ==
  ASSUME NEW ds, NEW lo \in Nat, NEW hi \in Nat, NEW low \in Nat, NEW high \in Nat,
         Ascending(ds, lo, hi), low <= lo, hi <= high
  PROVE  Ascending(ds, low, high)
<1>1. ds \in Seq(Ranges)
  BY DEF Ascending
<1>2. ASSUME NEW i \in 1 .. Len(ds) PROVE low <= ds[i].start /\ ds[i].end < high
  <2>1. ds[i].start \in Nat /\ ds[i].end \in Nat
    BY <1>1, RangesOf
  <2>2. lo <= ds[i].start /\ ds[i].end < hi
    BY DEF Ascending
  <2> QED
    BY <2>1, <2>2
<1> QED
  BY <1>1, <1>2 DEF Ascending

LEMMA EmptyAscends ==
  ASSUME NEW lo, NEW hi
  PROVE  Ascending(<<>>, lo, hi) /\ GuidsOf(<<>>) = {}
  BY DEF Ascending, GuidsOf

\* The first range of a batch, and the others.
LEMMA FirstAndOthers ==
  ASSUME NEW ds, NEW lo \in Nat, NEW hi \in Nat, Ascending(ds, lo, hi), ds # <<>>
  PROVE  /\ ds[1].start \in Nat /\ ds[1].end \in Nat /\ lo <= ds[1].start /\ ds[1].start <= ds[1].end /\ ds[1].end < hi
         /\ Head(ds) = ds[1]
         /\ Ascending(OtherRanges(ds), ds[1].end + 1, hi)
         /\ GuidsOf(ds) = (ds[1].start .. ds[1].end) \cup GuidsOf(OtherRanges(ds))
<1>1. /\ ds \in Seq(Ranges) /\ Len(ds) \in Nat /\ Len(ds) # 0
      /\ \A i \in 1 .. Len(ds) : ds[i].start \in Nat /\ ds[i].end \in Nat
  <2>1. ds \in Seq(Ranges)
    BY DEF Ascending
  <2> QED
    BY <2>1, RangesOf
<1>2. 1 \in 1 .. Len(ds)
  BY <1>1
<1>3. /\ Tail(ds) \in Seq(Ranges) /\ Len(Tail(ds)) = Len(ds) - 1
      /\ \A i \in 1 .. Len(ds) - 1 : Tail(ds)[i] = ds[i + 1]
  BY <1>1
<1>4. \A i \in 1 .. Len(ds) - 1 : i + 1 \in 1 .. Len(ds) /\ 1 < i + 1
  BY <1>1
<1>5. Ascending(OtherRanges(ds), ds[1].end + 1, hi)
  <2>1. \A i \in 1 .. Len(ds) - 1 : ds[1].end + 1 <= ds[i + 1].start /\ ds[i + 1].start <= ds[i + 1].end /\ ds[i + 1].end < hi
    BY <1>1, <1>2, <1>4 DEF Ascending
  <2>2. \A i, j \in 1 .. Len(ds) - 1 : i < j => ds[i + 1].end < ds[j + 1].start
    BY <1>1, <1>4 DEF Ascending
  <2> QED
    BY <1>3, <2>1, <2>2 DEF Ascending, OtherRanges
<1>6. GuidsOf(ds) = (ds[1].start .. ds[1].end) \cup GuidsOf(Tail(ds))
  <2>1. ASSUME NEW n PROVE n \in GuidsOf(ds) <=> \E i \in 1 .. Len(ds) : n \in ds[i].start .. ds[i].end
    BY DEF GuidsOf
  <2>2. ASSUME NEW n PROVE n \in GuidsOf(Tail(ds)) <=> \E i \in 1 .. Len(ds) - 1 : n \in ds[i + 1].start .. ds[i + 1].end
    BY <1>3 DEF GuidsOf
  <2>3. ASSUME NEW i \in 1 .. Len(ds) PROVE i = 1 \/ (i - 1 \in 1 .. Len(ds) - 1 /\ (i - 1) + 1 = i)
    BY <1>1
  <2>4. ASSUME NEW n, n \in GuidsOf(ds) PROVE n \in (ds[1].start .. ds[1].end) \cup GuidsOf(Tail(ds))
    <3>1. PICK i \in 1 .. Len(ds) : n \in ds[i].start .. ds[i].end
      BY <2>1, <2>4
    <3>2. CASE i = 1
      BY <3>1, <3>2
    <3>3. CASE i # 1
      <4>1. i - 1 \in 1 .. Len(ds) - 1 /\ n \in ds[(i - 1) + 1].start .. ds[(i - 1) + 1].end
        BY <3>1, <3>3, <2>3
      <4> QED
        BY <4>1, <2>2
    <3> QED
      BY <3>2, <3>3
  <2>5. ASSUME NEW n, n \in (ds[1].start .. ds[1].end) \cup GuidsOf(Tail(ds)) PROVE n \in GuidsOf(ds)
    <3>1. CASE n \in ds[1].start .. ds[1].end
      BY <3>1, <1>2, <2>1
    <3>2. CASE n \in GuidsOf(Tail(ds))
      <4>1. PICK i \in 1 .. Len(ds) - 1 : n \in ds[i + 1].start .. ds[i + 1].end
        BY <3>2, <2>2
      <4> QED
        BY <4>1, <1>4, <2>1
    <3> QED
      BY <3>1, <3>2, <2>5
  <2> QED
    BY <2>4, <2>5
<1> QED
  BY <1>1, <1>2, <1>5, <1>6 DEF Ascending, OtherRanges

\* The guids of a batch lie within its bounds.
LEMMA GuidsWithin ==
  ASSUME NEW ds, NEW lo \in Nat, NEW hi \in Nat, Ascending(ds, lo, hi), NEW n \in GuidsOf(ds)
  PROVE  n \in Nat /\ lo <= n /\ n < hi
<1>1. PICK i \in 1 .. Len(ds) : n \in ds[i].start .. ds[i].end
  BY DEF GuidsOf
<1> QED
  BY <1>1, RangesOf DEF Ascending
-----------------------------------------------------------------------------
(* The history                                                             *)

LEMMA OneMore ==
  ASSUME NEW n \in Nat, HistoryOK, returned' = Append(returned, n), free' = free, n < free,
         \A i \in 1 .. Len(returned) : returned[i] < n
  PROVE  /\ HistoryOK' /\ Answered' = Answered \cup {n}
         /\ \A i \in 1 .. Len(returned') : returned'[i] < n + 1
<1> DEFINE k == Len(returned)
<1>1. /\ returned \in Seq(Nat) /\ k \in Nat /\ \A i \in 1 .. k : returned[i] \in Nat
      /\ \A i \in 1 .. k : returned[i] < free
      /\ \A i, j \in 1 .. k : i < j => returned[i] < returned[j]
  BY ElementOf DEF HistoryOK
<1>2. /\ returned' \in Seq(Nat) /\ Len(returned') = k + 1 /\ returned'[k + 1] = n
      /\ \A i \in 1 .. k : returned'[i] = returned[i]
  BY <1>1
<1>3. \A i \in 1 .. k + 1 : i \in 1 .. k \/ i = k + 1
  BY <1>1
<1>4. k + 1 \in 1 .. k + 1 /\ \A i \in 1 .. k : i \in 1 .. k + 1
  BY <1>1
<1> HIDE DEF k
<1>5. \A i \in 1 .. k + 1 : returned'[i] < free /\ returned'[i] < n + 1
  BY <1>1, <1>2, <1>3 DEF HistoryOK, k
<1>6. ASSUME NEW i \in 1 .. k + 1, NEW j \in 1 .. k + 1, i < j PROVE returned'[i] < returned'[j]
  <2>1. i \in 1 .. k
    BY <1>1, <1>6
  <2>2. CASE j \in 1 .. k
    BY <2>1, <2>2, <1>6, <1>1, <1>2
  <2>3. CASE j = k + 1
    BY <2>1, <2>3, <1>2 DEF k
  <2> QED
    BY <2>2, <2>3, <1>3
<1>7. Answered' = Answered \cup {n}
  BY <1>2, <1>3, <1>4 DEF Answered, k
<1> QED
  BY <1>2, <1>5, <1>6, <1>7 DEF HistoryOK

\* A request that the trigger may have started.
LEMMA AskingType == Asking \in Requesters
<1>1. <<>> \in Seq(Ranges)
  OBVIOUS
<1> QED
  BY <1>1 DEF Asking, Requesters

(***************************************************************************)
(* Next, once it has a range: i is returned, the range goes on to its end  *)
(* and others follow.  All of it was left before, or has just arrived.     *)
(***************************************************************************)
LEMMA ReturnKeeps ==
  ASSUME NEW i \in Nat, HistoryOK, free' = free, thread' = "run",
         returned' = Append(returned, i), iterator' = i + 1,
         i <= iteratorMax', iteratorMax' \in Nat, iteratorMax' < free,
         \A k \in 1 .. Len(returned) : returned[k] < i,
         Ascending(nextDiapasons', iteratorMax' + 1, free),
         Answered \cup ((i .. iteratorMax') \cup GuidsOf(nextDiapasons')) = given',
         requesters' \in Seq(Requesters), Len(requesters') <= 1,
         Len(requesters') = 1 => trigger' \notin Left',
         Len(requesters') = 1 /\ requesters'[1].pc = "offer" =>
           /\ requesters'[1].batch # <<>>
           /\ \E lo \in Nat : /\ Ascending(requesters'[1].batch, lo, free)
                              /\ iteratorMax' < lo
                              /\ Ascending(nextDiapasons', iteratorMax' + 1, lo)
  PROVE  ProviderInv'
<1>1. i < free
  BY DEF HistoryOK
<1>2. /\ HistoryOK' /\ Answered' = Answered \cup {i}
      /\ \A k \in 1 .. Len(returned') : returned'[k] < i + 1
  BY <1>1, OneMore
<1>3. (i .. iteratorMax') = {i} \cup ((i + 1) .. iteratorMax')
  OBVIOUS
<1>4. Answered' \cup Left' = given'
  BY <1>2, <1>3 DEF Left
<1>5. IteratorOK'
  <2>1. iterator' \in Nat /\ iteratorMax' \in Nat /\ iterator' <= iteratorMax' + 1 /\ iteratorMax' < free'
    OBVIOUS
  <2>2. \A k \in 1 .. Len(returned') : returned'[k] < iterator'
    BY <1>2
  <2>3. Ascending(nextDiapasons', iteratorMax' + 1, free')
    OBVIOUS
  <2> QED
    BY <2>1, <2>2, <2>3, <1>4 DEF IteratorOK
<1>6. RequestersOK'
  BY DEF RequestersOK
<1> QED
  BY <1>2, <1>5, <1>6 DEF ProviderInv, Alive

\* What is above the guid that was returned.
LEMMA Passed ==
  ASSUME NEW i \in Nat, NEW m \in Nat, NEW hi \in Nat, NEW ds, i <= m, Ascending(ds, m + 1, hi)
  PROVE  i \notin ((i + 1) .. m) \cup GuidsOf(ds)
<1>1. ASSUME i \in GuidsOf(ds) PROVE FALSE
  BY <1>1, GuidsWithin
<1> QED
  BY <1>1

LEMMA NoneOrOne ==
  ASSUME NEW n \in Nat, n <= 1
  PROVE  n = 0 \/ n = 1
OBVIOUS

LEMMA OnlyOne ==
  ASSUME NEW n \in Nat, n <= 1, NEW k \in 1 .. n
  PROVE  n = 1 /\ k = 1
OBVIOUS

\* The goroutines after Return.
LEMMA ReturnRequests ==
  ASSUME NEW i \in Nat, NEW t, NEW reqs \in Seq(Requesters), NEW left, i \notin left,
         Len(reqs) <= 1, Len(reqs) = 1 => t # i /\ t \notin left,
         NEW new, new = IF Triggers(i, t) THEN Append(reqs, Asking) ELSE reqs
  PROVE  /\ new \in Seq(Requesters) /\ Len(new) <= 1
         /\ Len(new) = 1 => t \notin left
         /\ new = reqs \/ (Len(new) = 1 /\ new[1] = Asking)
<1>1. Len(reqs) \in Nat
  OBVIOUS
<1>2. CASE i = t
  <2>1. Len(reqs) # 1
    BY <1>2
  <2>2. Len(reqs) = 0
    BY <1>1, <2>1, NoneOrOne
  <2>3. new = Append(reqs, Asking)
    BY <1>2 DEF Triggers
  <2>4. new \in Seq(Requesters) /\ Len(new) = 1 /\ new[1] = Asking
    BY <2>2, <2>3, AskingType
  <2> QED
    BY <2>4, <1>2
<1>3. CASE i # t
  BY <1>3 DEF Triggers
<1> QED
  BY <1>2, <1>3

LEMMA KeepNext ==
  ASSUME ProviderInv, Next
  PROVE  ProviderInv'
<1>1. /\ HistoryOK /\ IteratorOK /\ RequestersOK /\ thread' = "run" /\ free' = free
      /\ returned' = Append(returned, iterator) /\ iterator' = iterator + 1
      /\ iteratorMax' = iteratorMax /\ nextDiapasons' = nextDiapasons /\ trigger' = trigger /\ given' = given
      /\ requesters' = IF Triggers(iterator, trigger) THEN Append(requesters, Asking) ELSE requesters
  BY DEF Next, Return, ProviderInv, Alive
<1>2. iterator \in Nat /\ iteratorMax \in Nat /\ iterator <= iteratorMax /\ free \in Nat
  BY DEF IteratorOK, Next, Used, ProviderInv, Alive, HistoryOK
<1> DEFINE left == ((iterator + 1) .. iteratorMax) \cup GuidsOf(nextDiapasons)
<1>3. iterator \notin left
  BY <1>1, <1>2, Passed DEF IteratorOK
<1>4. Left' = left /\ left \subseteq Left /\ iterator \in Left
  <2>1. GuidsOf(nextDiapasons') = GuidsOf(nextDiapasons)
    BY <1>1
  <2>2. (iterator' .. iteratorMax') = (iterator + 1) .. iteratorMax
    BY <1>1
  <2>3. (iterator + 1) .. iteratorMax \subseteq iterator .. iteratorMax /\ iterator \in iterator .. iteratorMax
    BY <1>2
  <2> QED
    BY <2>1, <2>2, <2>3 DEF Left
<1> HIDE DEF left
<1>5. /\ requesters' \in Seq(Requesters) /\ Len(requesters') <= 1
      /\ Len(requesters') = 1 => trigger \notin left
      /\ requesters' = requesters \/ (Len(requesters') = 1 /\ requesters'[1] = Asking)
  <2>1. requesters \in Seq(Requesters) /\ Len(requesters) <= 1 /\ (Len(requesters) = 1 => trigger # iterator /\ trigger \notin left)
    BY <1>1, <1>4 DEF RequestersOK
  <2> QED
    BY <1>1, <1>2, <1>3, <2>1, ReturnRequests
<1>6. Len(requesters') = 1 /\ requesters'[1].pc = "offer" =>
           /\ requesters'[1].batch # <<>>
           /\ \E lo \in Nat : /\ Ascending(requesters'[1].batch, lo, free)
                              /\ iteratorMax' < lo
                              /\ Ascending(nextDiapasons', iteratorMax' + 1, lo)
  <2>1. Asking.pc # "offer"
    BY DEF Asking
  <2> QED
    BY <1>1, <1>5, <2>1 DEF RequestersOK
<1>7. /\ \A k \in 1 .. Len(returned) : returned[k] < iterator
      /\ iteratorMax < free /\ Ascending(nextDiapasons', iteratorMax' + 1, free)
      /\ Answered \cup ((iterator .. iteratorMax') \cup GuidsOf(nextDiapasons')) = given'
  BY <1>1 DEF IteratorOK, Left
<1> QED
  BY <1>1, <1>2, <1>4, <1>5, <1>6, <1>7, ReturnKeeps
LEMMA KeepNextReload ==
  ASSUME ProviderInv, NextReload
  PROVE  ProviderInv'
<1> DEFINE i == nextDiapasons[1].start
           m == nextDiapasons[1].end
           others == OtherRanges(nextDiapasons)
<1>1. /\ HistoryOK /\ IteratorOK /\ RequestersOK /\ thread' = "run" /\ free' = free
      /\ nextDiapasons # <<>> /\ Used
      /\ iterator \in Nat /\ iteratorMax \in Nat /\ free \in Nat
      /\ nextDiapasons' = others /\ trigger' = trigger /\ given' = given
  BY DEF NextReload, ProviderInv, Alive, IteratorOK, HistoryOK
<1>2. /\ i \in Nat /\ m \in Nat /\ iteratorMax + 1 <= i /\ i <= m /\ m < free
      /\ Head(nextDiapasons) = nextDiapasons[1]
      /\ Ascending(others, m + 1, free)
      /\ GuidsOf(nextDiapasons) = (i .. m) \cup GuidsOf(others)
  BY <1>1, FirstAndOthers DEF IteratorOK
<1>3. /\ returned' = Append(returned, i) /\ iterator' = i + 1 /\ iteratorMax' = m
      /\ requesters' = IF Triggers(i, trigger) THEN Append(requesters, Asking) ELSE requesters
  BY <1>2 DEF NextReload, Return
<1> DEFINE left == ((i + 1) .. m) \cup GuidsOf(others)
<1>4. i \notin left
  BY <1>1, <1>2, Passed
<1>5. iterator .. iteratorMax = {} /\ iterator <= i
  BY <1>1, <1>2 DEF Used, IteratorOK
<1>6. Left = (i .. m) \cup GuidsOf(others) /\ Left' = left
  BY <1>1, <1>2, <1>3, <1>5 DEF Left
<1>7. left \subseteq Left /\ i \in Left
  <2>1. (i + 1) .. m \subseteq i .. m /\ i \in i .. m
    BY <1>2
  <2> QED
    BY <2>1, <1>6
<1> HIDE DEF left, i, m, others
<1>8. /\ requesters' \in Seq(Requesters) /\ Len(requesters') <= 1
      /\ Len(requesters') = 1 => trigger \notin left
      /\ requesters' = requesters \/ (Len(requesters') = 1 /\ requesters'[1] = Asking)
  <2>1. requesters \in Seq(Requesters) /\ Len(requesters) <= 1 /\ (Len(requesters) = 1 => trigger # i /\ trigger \notin left)
    BY <1>1, <1>7 DEF RequestersOK
  <2> QED
    BY <1>2, <1>3, <1>4, <2>1, ReturnRequests
<1>9. Len(requesters') = 1 /\ requesters'[1].pc = "offer" =>
           /\ requesters'[1].batch # <<>>
           /\ \E lo \in Nat : /\ Ascending(requesters'[1].batch, lo, free)
                              /\ m < lo
                              /\ Ascending(others, m + 1, lo)
  <2> SUFFICES ASSUME Len(requesters') = 1, requesters'[1].pc = "offer"
               PROVE  /\ requesters'[1].batch # <<>>
                      /\ \E lo \in Nat : /\ Ascending(requesters'[1].batch, lo, free)
                                         /\ m < lo
                                         /\ Ascending(others, m + 1, lo)
    OBVIOUS
  <2>1. requesters' = requesters
    BY <1>8 DEF Asking
  <2>2. requesters[1].batch # <<>>
    BY <1>1, <2>1 DEF RequestersOK
  <2>3. PICK lo \in Nat : /\ Ascending(requesters[1].batch, lo, free)
                          /\ iteratorMax < lo
                          /\ Ascending(nextDiapasons, iteratorMax + 1, lo)
    BY <1>1, <2>1 DEF RequestersOK
  <2>4. m < lo /\ Ascending(others, m + 1, lo)
    BY <1>1, <2>3, FirstAndOthers DEF m, others
  <2> QED
    BY <2>1, <2>2, <2>3, <2>4
<1>10. \A k \in 1 .. Len(returned) : returned[k] < i
  <2>1. \A k \in 1 .. Len(returned) : returned[k] \in Nat /\ returned[k] < iterator
    BY <1>1, ElementOf DEF IteratorOK, HistoryOK
  <2> QED
    BY <1>1, <1>2, <1>5, <2>1
<1>11. Answered \cup ((i .. m) \cup GuidsOf(others)) = given'
  BY <1>1, <1>6 DEF IteratorOK
<1>12. /\ i <= iteratorMax' /\ iteratorMax' \in Nat /\ iteratorMax' < free
       /\ Ascending(nextDiapasons', iteratorMax' + 1, free)
  BY <1>1, <1>2, <1>3
<1> QED
  BY <1>1, <1>2, <1>3, <1>6, <1>8, <1>9, <1>10, <1>11, <1>12, ReturnKeeps

LEMMA KeepNextBlocks ==
  ASSUME ProviderInv, NextBlocks
  PROVE  ProviderInv'
<1>1. /\ HistoryOK /\ IteratorOK /\ RequestersOK
      /\ UNCHANGED <<itVars, requesters, free, given, returned>> /\ thread' = "blocked"
  BY DEF NextBlocks, ProviderInv, Alive
<1>2. Used /\ nextDiapasons = <<>>
  BY DEF NextBlocks
<1>3. HistoryOK'
  BY <1>1 DEF HistoryOK
<1>4. IteratorOK' /\ RequestersOK'
  BY <1>1 DEF IteratorOK, RequestersOK, Left, Answered, itVars
<1> QED
  BY <1>1, <1>2, <1>3, <1>4 DEF ProviderInv, itVars, Used, RequestersOK

LEMMA NothingOfOne ==
  ASSUME NEW s \in Seq(Requesters)
  PROVE  SubSeq(s, 1, 0) \o SubSeq(s, 2, 1) = <<>>
<1>1. SubSeq(s, 1, 0) = <<>> /\ SubSeq(s, 2, 1) = <<>>
  OBVIOUS
<1> QED
  BY <1>1

LEMMA KeepReceive ==
  ASSUME ProviderInv, NEW r \in DOMAIN requesters, Receive(r)
  PROVE  ProviderInv'
<1> DEFINE ds == requesters[1].batch
           i == ds[1].start
           m == ds[1].end
           others == OtherRanges(ds)
           t == Trigger(ds)
<1>1. /\ HistoryOK /\ IteratorOK /\ RequestersOK /\ Used /\ nextDiapasons = <<>>
      /\ iterator \in Nat /\ iteratorMax \in Nat /\ free \in Nat
      /\ requesters[r].pc = "offer"
  BY DEF Receive, ProviderInv, Alive, IteratorOK, HistoryOK
<1>2. r = 1 /\ Len(requesters) = 1 /\ Without(requesters, 1) = <<>>
  <2>1. Len(requesters) \in Nat /\ r \in 1 .. Len(requesters)
    BY <1>1 DEF RequestersOK
  <2>2. Len(requesters) = 1 /\ r = 1
    <3>1. Len(requesters) <= 1
      BY <1>1 DEF RequestersOK
    <3> QED
      BY <2>1, <3>1, OnlyOne
  <2>3. Without(requesters, 1) = SubSeq(requesters, 1, 0) \o SubSeq(requesters, 2, 1)
    BY <2>2 DEF Without
  <2>4. requesters \in Seq(Requesters)
    BY <1>1 DEF RequestersOK
  <2> QED
    BY <2>2, <2>3, <2>4, NothingOfOne
<1>3. PICK lo \in Nat : Ascending(ds, lo, free) /\ iteratorMax < lo
  BY <1>1, <1>2 DEF RequestersOK
<1>4. /\ i \in Nat /\ m \in Nat /\ lo <= i /\ i <= m /\ m < free
      /\ Ascending(others, m + 1, free)
      /\ GuidsOf(ds) = (i .. m) \cup GuidsOf(others)
  BY <1>1, <1>2, <1>3, FirstAndOthers DEF RequestersOK
<1>5. /\ returned' = Append(returned, i) /\ iterator' = i + 1 /\ iteratorMax' = m /\ nextDiapasons' = others
      /\ trigger' = t /\ given' = given \cup GuidsOf(ds) /\ free' = free /\ thread' = "run"
      /\ requesters' = <<>> \o (IF Triggers(i, t) THEN <<Asking>> ELSE <<>>)
  BY <1>2 DEF Receive
<1>6. requesters' = IF Triggers(i, t) THEN <<Asking>> ELSE <<>>
  BY <1>5
<1>7. iterator .. iteratorMax = {} /\ iterator <= i
  BY <1>1, <1>3, <1>4 DEF Used, IteratorOK
<1>8. Left = {} /\ Left' = ((i + 1) .. m) \cup GuidsOf(others)
  BY <1>1, <1>5, <1>7, EmptyAscends DEF Left
<1> DEFINE left == ((i + 1) .. m) \cup GuidsOf(others)
<1>9. i \notin left
  BY <1>1, <1>4, Passed
<1> HIDE DEF left, i, m, others, t, ds
<1>10. /\ requesters' \in Seq(Requesters) /\ Len(requesters') <= 1
       /\ Len(requesters') = 1 => t \notin left
       /\ requesters' = <<>> \/ (Len(requesters') = 1 /\ requesters'[1] = Asking)
  <2>1. CASE i = t
    <3>1. requesters' = <<Asking>>
      BY <1>6, <2>1 DEF Triggers
    <3> QED
      BY <3>1, <2>1, <1>9, AskingType
  <2>2. CASE i # t
    <3>1. requesters' = <<>>
      BY <1>6, <2>2 DEF Triggers
    <3> QED
      BY <3>1
  <2> QED
    BY <2>1, <2>2
<1>11. ~(Len(requesters') = 1 /\ requesters'[1].pc = "offer")
  BY <1>10 DEF Asking
<1>12. \A k \in 1 .. Len(returned) : returned[k] < i
  <2>1. \A k \in 1 .. Len(returned) : returned[k] \in Nat /\ returned[k] < iterator
    BY <1>1, ElementOf DEF IteratorOK, HistoryOK
  <2> QED
    BY <1>1, <1>4, <1>7, <2>1
<1>13. Answered \cup ((i .. m) \cup GuidsOf(others)) = given'
  BY <1>1, <1>4, <1>5, <1>8 DEF IteratorOK
<1>14. /\ i <= iteratorMax' /\ iteratorMax' \in Nat /\ iteratorMax' < free
       /\ Ascending(nextDiapasons', iteratorMax' + 1, free)
  BY <1>4, <1>5
<1>15. Left' = left
  BY <1>8 DEF left
<1> QED
  BY <1>1, <1>4, <1>5, <1>10, <1>11, <1>12, <1>13, <1>14, <1>15, ReturnKeeps
\* free moves up when anybody takes a batch.
LEMMA FreeGrows ==
  ASSUME ProviderInv, free' \in Nat, free <= free', UNCHANGED <<itVars, thread, given, returned>>,
         requesters' \in Seq(Requesters), Len(requesters') <= 1,
         thread = "new" => requesters' = <<>>,
         Alive => (Len(requesters') = 1 => trigger \notin Left),
         Alive => (Len(requesters') = 1 /\ requesters'[1].pc = "offer" =>
                     /\ requesters'[1].batch # <<>>
                     /\ \E lo \in Nat : /\ Ascending(requesters'[1].batch, lo, free')
                                        /\ iteratorMax < lo
                                        /\ Ascending(nextDiapasons, iteratorMax + 1, lo))
  PROVE  ProviderInv'
<1>1. /\ iterator' = iterator /\ iteratorMax' = iteratorMax /\ trigger' = trigger /\ nextDiapasons' = nextDiapasons
      /\ thread' = thread /\ given' = given /\ returned' = returned
  BY DEF itVars
<1>2. free \in Nat /\ returned \in Seq(Nat) /\ \A i \in 1 .. Len(returned) : returned[i] \in Nat /\ returned[i] < free
  BY ElementOf DEF ProviderInv, HistoryOK
<1>3. HistoryOK'
  <2>1. \A i \in 1 .. Len(returned) : returned[i] < free'
    BY <1>2
  <2> QED
    BY <1>1, <2>1 DEF ProviderInv, HistoryOK
<1>4. Left' = Left /\ Answered' = Answered
  BY <1>1 DEF Left, Answered
<1>5. Alive => IteratorOK'
  <2> SUFFICES ASSUME Alive PROVE IteratorOK'
    OBVIOUS
  <2>1. IteratorOK
    BY DEF ProviderInv
  <2>2. iteratorMax \in Nat /\ iteratorMax < free'
    BY <1>2, <2>1 DEF IteratorOK
  <2>3. Ascending(nextDiapasons, iteratorMax + 1, free')
    BY <1>2, <2>1, <2>2, Widened DEF IteratorOK
  <2> QED
    BY <1>1, <1>4, <2>1, <2>2, <2>3 DEF IteratorOK
<1>6. Alive => RequestersOK'
  BY <1>1, <1>4 DEF RequestersOK
<1>7. Alive' <=> Alive
  BY <1>1 DEF Alive
<1>8. thread = "new" => given' = Answered'
  BY <1>1, <1>4 DEF ProviderInv
<1> QED
  BY <1>1, <1>3, <1>5, <1>6, <1>7, <1>8 DEF ProviderInv, Used

LEMMA KeepOthersTake ==
  ASSUME ProviderInv, OthersTake
  PROVE  ProviderInv'
<1>1. PICK ds \in Answers : free' = ds[Len(ds)].end + 1
  BY DEF OthersTake
<1>2. free \in Nat
  BY DEF ProviderInv, HistoryOK
<1>3. free' \in Nat /\ free <= free'
  BY <1>1, <1>2, AnswerIs
<1>4. UNCHANGED <<itVars, requesters, thread, given, returned>>
  BY DEF OthersTake
<1>5. requesters \in Seq(Requesters) /\ Len(requesters) <= 1 /\ (thread = "new" => requesters = <<>>)
  BY DEF ProviderInv
<1>6. ASSUME Alive, Len(requesters) = 1, requesters[1].pc = "offer"
      PROVE  /\ requesters[1].batch # <<>>
             /\ \E lo \in Nat : /\ Ascending(requesters[1].batch, lo, free')
                                /\ iteratorMax < lo
                                /\ Ascending(nextDiapasons, iteratorMax + 1, lo)
  <2>1. RequestersOK
    BY <1>6 DEF ProviderInv
  <2>2. requesters[1].batch # <<>>
    BY <1>6, <2>1 DEF RequestersOK
  <2>3. PICK lo \in Nat : /\ Ascending(requesters[1].batch, lo, free)
                          /\ iteratorMax < lo
                          /\ Ascending(nextDiapasons, iteratorMax + 1, lo)
    BY <1>6, <2>1 DEF RequestersOK
  <2>4. Ascending(requesters[1].batch, lo, free')
    BY <1>2, <1>3, <2>3, Widened
  <2> QED
    BY <2>2, <2>3, <2>4
<1>7. Alive /\ Len(requesters) = 1 => trigger \notin Left
  BY DEF ProviderInv, RequestersOK
<1> QED
  BY <1>3, <1>4, <1>5, <1>6, <1>7, FreeGrows

\* A goroutine's change leaves the others alone.
LEMMA OneChanged ==
  ASSUME NEW s \in Seq(Requesters), NEW k \in 1 .. Len(s), NEW q \in Requesters, Len(s) <= 1
  PROVE  /\ [s EXCEPT ![k] = q] \in Seq(Requesters) /\ Len([s EXCEPT ![k] = q]) = 1
         /\ Len(s) = 1 /\ k = 1 /\ [s EXCEPT ![k] = q][1] = q
<1>1. Len(s) = 1 /\ k = 1
  <2>1. Len(s) \in Nat
    OBVIOUS
  <2> QED
    BY <2>1, OnlyOne
<1> QED
  BY <1>1

LEMMA KeepAsk ==
  ASSUME ProviderInv, NEW r \in DOMAIN requesters, Ask(r)
  PROVE  ProviderInv'
<1>1. PICK ds \in Answers :
        /\ requesters' = [requesters EXCEPT ![r] = [pc |-> "offer", tries |-> @.tries, batch |-> ds]]
        /\ free' = ds[Len(ds)].end + 1
  BY DEF Ask
<1>2. free \in Nat /\ requesters \in Seq(Requesters) /\ Len(requesters) <= 1 /\ r \in 1 .. Len(requesters)
  BY DEF ProviderInv, HistoryOK
<1>3. /\ ds # <<>> /\ free' \in Nat /\ free <= free' /\ Ascending(ds, free, free')
  BY <1>1, <1>2, AnswerIs
<1> DEFINE q == [pc |-> "offer", tries |-> requesters[r].tries, batch |-> ds]
<1>4. q \in Requesters /\ q.pc = "offer" /\ q.batch = ds
  <2>1. requesters[r].tries \in Int
    <3>1. requesters[r] \in Requesters
      BY <1>2, ElementOf
    <3> QED
      BY <3>1 DEF Requesters
  <2>2. ds \in Seq(Ranges)
    BY <1>3 DEF Ascending
  <2> QED
    BY <2>1, <2>2 DEF Requesters
<1>5. requesters' = [requesters EXCEPT ![r] = q]
  BY <1>1
<1> HIDE DEF q
<1>6. /\ requesters' \in Seq(Requesters) /\ Len(requesters') = 1
      /\ Len(requesters) = 1 /\ requesters'[1] = q
  BY <1>2, <1>4, <1>5, OneChanged
<1>7. UNCHANGED <<itVars, thread, given, returned>> /\ thread # "dead"
  BY DEF Ask
<1>8. thread # "new" /\ Alive
  <2>1. requesters # <<>>
    BY <1>6
  <2> QED
    BY <1>7, <2>1 DEF ProviderInv, Alive
<1>9. trigger \notin Left
  BY <1>6, <1>8 DEF ProviderInv, RequestersOK
<1>10. iteratorMax < free /\ Ascending(nextDiapasons, iteratorMax + 1, free)
  BY <1>8 DEF ProviderInv, IteratorOK
<1> QED
  BY <1>2, <1>3, <1>4, <1>6, <1>7, <1>8, <1>9, <1>10, FreeGrows

LEMMA KeepAskFails ==
  ASSUME ProviderInv, NEW r \in DOMAIN requesters, AskFails(r)
  PROVE  ProviderInv'
<1>1. /\ UNCHANGED <<itVars, free, given, returned>> /\ thread # "dead" /\ requesters[r].pc = "ask"
      /\ requesters' = [requesters EXCEPT ![r].tries = @ + 1]
      /\ thread' = "dead" \/ thread' = thread
  BY DEF AskFails
<1>2. free \in Nat /\ requesters \in Seq(Requesters) /\ Len(requesters) <= 1 /\ r \in 1 .. Len(requesters)
  BY DEF ProviderInv, HistoryOK
<1> DEFINE q == [requesters[r] EXCEPT !.tries = @ + 1]
<1>3. requesters[r] \in Requesters
  BY <1>2, ElementOf
<1>4. q \in Requesters /\ q.pc = "ask"
  BY <1>1, <1>3 DEF Requesters
<1>5. requesters' = [requesters EXCEPT ![r] = q]
  BY <1>1
<1> HIDE DEF q
<1>6. /\ requesters' \in Seq(Requesters) /\ Len(requesters') = 1
      /\ Len(requesters) = 1 /\ requesters'[1] = q
  BY <1>2, <1>4, <1>5, OneChanged
<1>7. thread # "new" /\ Alive
  <2>1. requesters # <<>>
    BY <1>6
  <2> QED
    BY <1>1, <2>1 DEF ProviderInv, Alive
<1>8. CASE thread' = thread
  <2>1. trigger \notin Left
    BY <1>6, <1>7 DEF ProviderInv, RequestersOK
  <2>2. requesters'[1].pc # "offer"
    BY <1>4, <1>6
  <2>3. UNCHANGED <<itVars, thread, given, returned>> /\ free' \in Nat /\ free <= free'
    BY <1>1, <1>2, <1>8
  <2> QED
    BY <1>6, <1>7, <2>1, <2>2, <2>3, FreeGrows
<1>9. CASE thread' = "dead"
  <2>1. HistoryOK'
    BY <1>1 DEF ProviderInv, HistoryOK
  <2>2. Len(requesters') <= 1
    BY <1>6
  <2> QED
    BY <1>6, <1>9, <2>1, <2>2 DEF ProviderInv, Alive
<1> QED
  BY <1>1, <1>8, <1>9

LEMMA KeepNewProvider ==
  ASSUME ProviderInv, NewProvider
  PROVE  ProviderInv'
<1>1. PICK ds \in Answers :
        /\ iterator' = ds[1].start /\ iteratorMax' = ds[1].end
        /\ nextDiapasons' = OtherRanges(ds)
        /\ given' = given \cup GuidsOf(ds)
        /\ free' = ds[Len(ds)].end + 1
  BY DEF NewProvider
<1>2. free \in Nat /\ returned \in Seq(Nat) /\ \A i \in 1 .. Len(returned) : returned[i] \in Nat /\ returned[i] < free
  BY ElementOf DEF ProviderInv, HistoryOK
<1>3. /\ ds # <<>> /\ free' \in Nat /\ free <= free' /\ Ascending(ds, free, free')
  BY <1>1, <1>2, AnswerIs
<1>4. /\ requesters' = <<>> /\ returned' = returned /\ thread' = "run" /\ given = Answered
  BY DEF NewProvider, ProviderInv
<1>5. /\ iterator' \in Nat /\ iteratorMax' \in Nat /\ free <= iterator' /\ iterator' <= iteratorMax' /\ iteratorMax' < free'
      /\ Ascending(nextDiapasons', iteratorMax' + 1, free')
      /\ GuidsOf(ds) = (iterator' .. iteratorMax') \cup GuidsOf(nextDiapasons')
  BY <1>1, <1>2, <1>3, FirstAndOthers
<1>6. \A i \in 1 .. Len(returned) : returned[i] < free' /\ returned[i] < iterator'
  BY <1>2, <1>3, <1>5
<1>7. HistoryOK'
  BY <1>3, <1>4, <1>6 DEF ProviderInv, HistoryOK
<1>8. Answered' \cup Left' = given'
  BY <1>1, <1>4, <1>5 DEF Answered, Left
<1>9. IteratorOK'
  <2>1. \A x, y \in Nat : x <= y => x <= y + 1
    OBVIOUS
  <2> QED
    BY <1>4, <1>5, <1>6, <1>8, <2>1 DEF IteratorOK
<1>10. RequestersOK'
  BY <1>4 DEF RequestersOK
<1> QED
  BY <1>4, <1>7, <1>9, <1>10 DEF ProviderInv, RequestersOK

LEMMA KeepRestart ==
  ASSUME ProviderInv, Restart
  PROVE  ProviderInv'
<1>1. /\ thread' = "new" /\ requesters' = <<>> /\ nextDiapasons' = <<>> /\ given' = Answered
      /\ free' = free /\ returned' = returned
  BY DEF Restart
<1>2. HistoryOK' /\ Answered' = Answered
  BY <1>1 DEF ProviderInv, HistoryOK, Answered
<1>3. <<>> \in Seq(Requesters) /\ Len(<<>>) <= 1
  OBVIOUS
<1> QED
  BY <1>1, <1>2, <1>3 DEF ProviderInv, Alive

LEMMA KeepNewProviderFails ==
  ASSUME ProviderInv, NewProviderFails
  PROVE  ProviderInv'
<1>1. thread' = "dead" /\ UNCHANGED <<requesters, free, returned>>
  BY DEF NewProviderFails
<1>2. HistoryOK'
  BY <1>1 DEF ProviderInv, HistoryOK
<1> QED
  BY <1>1, <1>2 DEF ProviderInv, Alive

LEMMA ProviderIsInductive == Spec => []ProviderInv
<1>1. Init => ProviderInv
  <2> SUFFICES ASSUME Init PROVE ProviderInv
    OBVIOUS
  <2>1. HistoryOK
    <3>1. free \in Nat /\ returned = <<>>
      BY DEF Init
    <3>2. <<>> \in Seq(Nat) /\ Len(<<>>) = 0
      OBVIOUS
    <3> QED
      BY <3>1, <3>2 DEF HistoryOK
  <2>2. given = Answered
    BY DEF Init, Answered
  <2>3. <<>> \in Seq(Requesters) /\ Len(<<>>) <= 1
    OBVIOUS
  <2> QED
    BY <2>1, <2>2, <2>3 DEF Init, ProviderInv, Alive
<1>2. ProviderInv /\ [Step]_providerVars => ProviderInv'
  <2> SUFFICES ASSUME ProviderInv, [Step]_providerVars PROVE ProviderInv'
    OBVIOUS
  <2>1. CASE UNCHANGED providerVars
    BY <2>1 DEF providerVars, itVars, ProviderInv, HistoryOK, IteratorOK, RequestersOK, Alive, Used, Left, Answered
  <2>2. CASE \E r \in DOMAIN requesters : Receive(r) \/ Ask(r) \/ AskFails(r)
    BY <2>2, KeepReceive, KeepAsk, KeepAskFails
  <2> QED
    BY <2>1, <2>2, KeepNewProvider, KeepNewProviderFails, KeepNext, KeepNextReload, KeepNextBlocks,
       KeepOthersTake, KeepRestart DEF Step
<1> QED
  BY <1>1, <1>2, PTL DEF Spec

(***************************************************************************)
(* Next never skips, repeats or reorders a guid of the batches it accepted *)
(* (guids.go:57), for all shapes of batches and any number of restarts,    *)
(* failures and batches that other game servers take in between.           *)
(***************************************************************************)
THEOREM GuidsAreHandedOn == Spec => []NothingSkippedOrRepeated
<1>1. ProviderInv => NothingSkippedOrRepeated
  <2> SUFFICES ASSUME ProviderInv PROVE NothingSkippedOrRepeated
    OBVIOUS
  <2>1. \A i, j \in 1 .. Len(returned) : i < j => returned[i] < returned[j]
    BY DEF ProviderInv, HistoryOK
  <2>2. ASSUME Alive, NEW n \in Answered, NEW m \in Left PROVE n < m
    <3>1. /\ IteratorOK /\ free \in Nat /\ returned \in Seq(Nat)
      BY <2>2 DEF ProviderInv, HistoryOK
    <3>2. iterator \in Nat /\ iteratorMax \in Nat /\ iterator <= iteratorMax + 1
      BY <3>1 DEF IteratorOK
    <3>3. n \in Nat /\ n < iterator
      BY <3>1, ElementOf DEF IteratorOK, Answered
    <3>4. CASE m \in iterator .. iteratorMax
      BY <3>2, <3>3, <3>4
    <3>5. CASE m \in GuidsOf(nextDiapasons)
      <4>1. m \in Nat /\ iteratorMax + 1 <= m
        BY <3>1, <3>2, <3>5, GuidsWithin DEF IteratorOK
      <4> QED
        BY <4>1, <3>2, <3>3
    <3> QED
      BY <3>4, <3>5 DEF Left
  <2>3. Alive => Answered \cup Left = given
    BY DEF ProviderInv, IteratorOK
  <2> QED
    BY <2>1, <2>2, <2>3 DEF NothingSkippedOrRepeated
<1> QED
  BY <1>1, ProviderIsInductive, PTL

(***************************************************************************)
(* There is never more than one goroutine that asks for a batch or offers  *)
(* one on the unbuffered channel (guids.go:122), wherever the trigger lies *)
(* and however long the guid server takes.                                 *)
(***************************************************************************)
THEOREM RequestsDoNotOverlap == Spec => []OneRequestAtATime
<1>1. ProviderInv => OneRequestAtATime
  BY DEF ProviderInv, OneRequestAtATime
<1> QED
  BY <1>1, ProviderIsInductive, PTL
=============================================================================
