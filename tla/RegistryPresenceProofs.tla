----------------------- MODULE RegistryPresenceProofs -----------------------
(***************************************************************************)
(* Proofs about the servers registry, what its map balancer computes and   *)
(* the presence of players: for every finite set of servers and of maps    *)
(* and all weights, and for any number of gateways, characters, replicas,  *)
(* fields, logins, updates, failed sends and crashes.                      *)
(***************************************************************************)
EXTENDS ServersRegistry, MapBalancing, Presence, FiniteSums

Distributing == {"register", "unhealthy"}
WritingBack  == {"loaded", "metrics"}

\* What is written back is a record, with the fields the steps use.
Shaped(o) ==
  /\ "kind" \in DOMAIN o
  /\ o.kind \in {"idle"} \cup Distributing \cup WritingBack
  /\ o.kind \in Distributing =>
       /\ {"kind", "server", "pc"} \subseteq DOMAIN o
       /\ o.server \in Servers
       /\ o.pc = "write" => {"before", "todo"} \subseteq DOMAIN o /\ o.todo \subseteq Servers
  /\ o.kind \in WritingBack => o.server \in Servers

ShapeInv ==
  /\ DOMAIN store = Servers /\ DOMAIN op = Procs
  /\ \A p \in Procs : Shaped(op[p])
  /\ index \subseteq Servers
  /\ \A c \in confirms : c.server \in Servers

-----------------------------------------------------------------------------
(* Shapes.                                                                 *)

\* Moving a distributing operation on keeps its fields.
LEMMA GotoKeeps ==
  ASSUME ShapeInv, NEW p \in Procs, op[p].kind \in Distributing, NEW pc, Goto(p, pc), pc # "write"
  PROVE  /\ DOMAIN op' = Procs /\ Shaped(op'[p])
         /\ \A q \in Procs \ {p} : op'[q] = op[q]
         /\ op'[p].kind = op[p].kind /\ op'[p].server = op[p].server /\ op'[p].pc = pc
BY DEF ShapeInv, Shaped, Goto, Distributing

LEMMA IdleShaped == Shaped(Idle) /\ Idle.kind = "idle"
BY DEF Shaped, Idle, Distributing, WritingBack

LEMMA ShapeInit == Init => ShapeInv
BY IdleShaped DEF Init, ShapeInv

LEMMA ShapeProceed ==
  ASSUME ShapeInv, NEW p \in Procs, Proceed(p)
  PROVE  ShapeInv'
<1> USE DEF ShapeInv, redisVars, listVars, gsVars, boundVars
<1>1. CASE RegisterAdd(p)
  BY <1>1, GotoKeeps DEF RegisterAdd, At, Distributing
<1>2. CASE RegisterUpsert(p)
  BY <1>2, GotoKeeps DEF RegisterUpsert, At, Upsert, Distributing, Shaped
<1>3. CASE UnhealthyRemove(p)
  BY <1>3, GotoKeeps DEF UnhealthyRemove, At, Delete, Distributing
<1>4. CASE List(p)
  <2>1. PICK d : op' = [op EXCEPT ![p] = [kind |-> @.kind, server |-> @.server, pc |-> "write",
                                before |-> [s \in Listed |-> store[s]], new |-> d, todo |-> Listed]]
    BY <1>4 DEF List
  <2>2. Shaped(op'[p])
    BY <1>4, <2>1 DEF List, Shaped, Distributing, WritingBack, Listed
  <2> QED
    BY <1>4, <2>1, <2>2 DEF List
<1>5. ASSUME NEW s \in Servers, Write(p, s) PROVE ShapeInv'
  <2>1. Shaped(op'[p]) /\ DOMAIN op' = Procs
    BY <1>5 DEF Write, Shaped, Distributing, WritingBack
  <2>2. \A q \in Procs : Shaped(op'[q])
    BY <1>5, <2>1 DEF Write
  <2> QED
    BY <1>5, <2>1, <2>2 DEF Write, Upsert
<1>6. CASE Announce(p)
  BY <1>6, IdleShaped DEF Announce
<1>7. CASE MapsLoadedWrite(p)
  BY <1>7, IdleShaped DEF MapsLoadedWrite, At, Upsert, Shaped, WritingBack
<1>8. CASE MetricsWrite(p)
  BY <1>8, IdleShaped DEF MetricsWrite
<1> QED
  BY <1>1, <1>2, <1>3, <1>4, <1>5, <1>6, <1>7, <1>8 DEF Proceed

\* The operation that ReadBack starts.
LEMMA ReadBackShaped ==
  ASSUME ShapeInv, NEW kind \in WritingBack, NEW p \in Procs, NEW s \in Servers, NEW maps,
         ReadBack(kind, p, s, maps)
  PROVE  DOMAIN op' = Procs /\ \A q \in Procs : Shaped(op'[q])
BY DEF ShapeInv, ReadBack, Shaped, WritingBack, Distributing

LEMMA ShapeStep ==
  ASSUME ShapeInv, [Next]_vars
  PROVE  ShapeInv'
<1> USE DEF ShapeInv, redisVars, listVars, gsVars, boundVars
<1>1. ASSUME NEW p \in Procs, NEW s \in Servers, HandleFailed(s, p) PROVE ShapeInv'
  <2>1. Shaped([kind |-> "unhealthy", server |-> s, pc |-> "remove"])
    BY DEF Shaped, Distributing, WritingBack
  <2> QED
    BY <1>1, <2>1 DEF HandleFailed
<1>2. ASSUME NEW p \in Procs, NEW c \in confirms, MapsLoaded(c, p) PROVE ShapeInv'
  BY <1>2, ReadBackShaped DEF MapsLoaded, WritingBack
<1>3. ASSUME NEW p \in Procs, WriteFails(p) PROVE ShapeInv'
  BY <1>3, IdleShaped DEF WriteFails
<1>4. ASSUME NEW p \in Procs, NEW s \in Servers, StartServer(s, p) PROVE ShapeInv'
  <2>1. Shaped([kind |-> "register", server |-> s, pc |-> "add"])
    BY DEF Shaped, Distributing, WritingBack
  <2> QED
    BY <1>4, <2>1 DEF StartServer
<1>5. ASSUME NEW p \in Procs, NEW s \in Servers, MetricsRead(s, p) PROVE ShapeInv'
  BY <1>5, ReadBackShaped DEF MetricsRead, WritingBack
<1>6. ASSUME NEW s \in Servers, CheckFails(s) PROVE ShapeInv'
  BY <1>6 DEF CheckFails
<1>7. ASSUME NEW s \in Servers, HandleEvent(s) PROVE ShapeInv'
  BY <1>7 DEF HandleEvent
<1>8. ASSUME NEW s \in Servers, StopServer(s) PROVE ShapeInv'
  BY <1>8 DEF StopServer
<1>9. CASE RestartRegistry
  BY <1>9, IdleShaped DEF RestartRegistry
<1>10. CASE UNCHANGED vars
  BY <1>10 DEF vars
<1> QED
  BY <1>1, <1>2, <1>3, <1>4, <1>5, <1>6, <1>7, <1>8, <1>9, <1>10, ShapeProceed DEF Next, Begin

-----------------------------------------------------------------------------
(* A pending map is an assigned map.                                       *)

\* Not only in Redis: also in what an operation has read and will write back.
Consistent(v) == v.pending \subseteq v.assigned

OpConsistent(o) ==
  /\ o.kind \in Distributing /\ o.pc = "write" => \A s \in o.todo : Consistent(o.before[s])
  /\ o.kind \in WritingBack => Consistent(o.value)

PendingInv ==
  /\ \A s \in Servers : Consistent(store[s])
  /\ \A p \in Procs : OpConsistent(op[p])

LEMMA StoredConsistent ==
  ASSUME NEW a, NEW b, b \subseteq a
  PROVE  Consistent(Stored(a, b))
BY DEF Consistent, Stored

\* PendingAfter: the maps a server gains, or nothing for one without maps.
LEMMA PendingAfterConsistent ==
  ASSUME NEW before, Consistent(before), NEW new
  PROVE  Consistent(Stored(new, PendingAfter(before, new)))
BY StoredConsistent DEF Consistent, PendingAfter

LEMMA UpsertConsistent ==
  ASSUME ShapeInv, PendingInv, NEW s \in Servers, NEW v, Consistent(v), store' = [store EXCEPT ![s] = v]
  PROVE  \A t \in Servers : Consistent(store'[t])
BY DEF ShapeInv, PendingInv

LEMMA IdleConsistent == OpConsistent(Idle)
BY IdleShaped DEF OpConsistent, Distributing, WritingBack

LEMMA PendingInit == Init => PendingInv
BY IdleConsistent DEF Init, PendingInv, Consistent, Absent

LEMMA PendingProceed ==
  ASSUME ShapeInv, PendingInv, NEW p \in Procs, Proceed(p)
  PROVE  PendingInv'
<1> USE DEF ShapeInv, PendingInv, redisVars, listVars, gsVars, boundVars
<1>g. ASSUME op[p].kind \in Distributing, NEW pc, pc # "write", Goto(p, pc)
      PROVE  \A q \in Procs : OpConsistent(op'[q])
  BY <1>g, GotoKeeps DEF OpConsistent, Distributing, WritingBack
<1>1. CASE RegisterAdd(p)
  BY <1>1, <1>g DEF RegisterAdd, At, Distributing
<1>2. CASE RegisterUpsert(p)
  <2>1. op[p].kind \in Distributing /\ op[p].server \in Servers
    BY <1>2 DEF RegisterUpsert, At, Distributing, Shaped
  <2>2. \A t \in Servers : Consistent(store'[t])
    BY <1>2, <2>1, StoredConsistent, UpsertConsistent DEF RegisterUpsert, Upsert
  <2> QED
    BY <1>2, <1>g, <2>1, <2>2 DEF RegisterUpsert
<1>3. CASE UnhealthyRemove(p)
  <2>1. op[p].kind \in Distributing /\ op[p].server \in Servers
    BY <1>3 DEF UnhealthyRemove, At, Distributing, Shaped
  <2>2. Consistent(Absent)
    BY DEF Consistent, Absent
  <2>3. \A t \in Servers : Consistent(store'[t])
    BY <1>3, <2>1, <2>2, UpsertConsistent DEF UnhealthyRemove, Delete
  <2> QED
    BY <1>3, <1>g, <2>1, <2>3 DEF UnhealthyRemove
<1>4. CASE List(p)
  <2>1. PICK d : op' = [op EXCEPT ![p] = [kind |-> @.kind, server |-> @.server, pc |-> "write",
                                before |-> [s \in Listed |-> store[s]], new |-> d, todo |-> Listed]]
    BY <1>4 DEF List
  <2>2. OpConsistent(op'[p])
    BY <1>4, <2>1 DEF List, OpConsistent, Distributing, WritingBack, Listed
  <2> QED
    BY <1>4, <2>1, <2>2 DEF List
<1>5. ASSUME NEW s \in Servers, Write(p, s) PROVE PendingInv'
  <2>1. s \in op[p].todo /\ Consistent(op[p].before[s])
    BY <1>5 DEF Write, WriteNext, OpConsistent, Distributing
  <2>2. \A t \in Servers : Consistent(store'[t])
    BY <1>5, <2>1, PendingAfterConsistent, UpsertConsistent DEF Write, Upsert
  <2>3. OpConsistent(op'[p])
    BY <1>5 DEF Write, OpConsistent, Shaped, Distributing, WritingBack
  <2> QED
    BY <1>5, <2>2, <2>3 DEF Write
<1>6. CASE Announce(p)
  BY <1>6, IdleConsistent DEF Announce
<1>7. CASE MapsLoadedWrite(p)
  <2>1. op[p].server \in Servers /\ Consistent(op[p].value)
    BY <1>7 DEF MapsLoadedWrite, At, Shaped, OpConsistent, WritingBack
  <2>2. Consistent(Stored(op[p].value.assigned, NotLoaded(op[p].value.pending, op[p].maps)))
    BY <2>1, StoredConsistent DEF Consistent, NotLoaded
  <2> QED
    BY <1>7, <2>1, <2>2, UpsertConsistent, IdleConsistent DEF MapsLoadedWrite, Upsert
<1>8. CASE MetricsWrite(p)
  <2>1. op[p].server \in Servers /\ Consistent(op[p].value)
    BY <1>8 DEF MetricsWrite, At, Shaped, OpConsistent, WritingBack
  <2> QED
    BY <1>8, <2>1, UpsertConsistent, IdleConsistent DEF MetricsWrite
<1> QED
  BY <1>1, <1>2, <1>3, <1>4, <1>5, <1>6, <1>7, <1>8 DEF Proceed

LEMMA ReadBackConsistent ==
  ASSUME ShapeInv, PendingInv, NEW kind \in WritingBack, NEW p \in Procs, NEW s \in Servers, NEW maps,
         ReadBack(kind, p, s, maps)
  PROVE  \A q \in Procs : OpConsistent(op'[q])
BY DEF ShapeInv, PendingInv, ReadBack, OpConsistent, WritingBack, Distributing

LEMMA PendingStep ==
  ASSUME ShapeInv, PendingInv, [Next]_vars
  PROVE  PendingInv'
<1> USE DEF ShapeInv, PendingInv, redisVars, listVars, gsVars, boundVars
<1>1. ASSUME NEW p \in Procs, NEW s \in Servers, HandleFailed(s, p) PROVE PendingInv'
  BY <1>1 DEF HandleFailed, OpConsistent, Distributing, WritingBack
<1>2. ASSUME NEW p \in Procs, NEW c \in confirms, MapsLoaded(c, p) PROVE PendingInv'
  BY <1>2, ReadBackConsistent DEF MapsLoaded, WritingBack
<1>3. ASSUME NEW p \in Procs, WriteFails(p) PROVE PendingInv'
  BY <1>3, IdleConsistent DEF WriteFails
<1>4. ASSUME NEW p \in Procs, NEW s \in Servers, StartServer(s, p) PROVE PendingInv'
  BY <1>4 DEF StartServer, OpConsistent, Distributing, WritingBack
<1>5. ASSUME NEW p \in Procs, NEW s \in Servers, MetricsRead(s, p) PROVE PendingInv'
  BY <1>5, ReadBackConsistent DEF MetricsRead, WritingBack
<1>6. ASSUME NEW s \in Servers, CheckFails(s) \/ HandleEvent(s) \/ StopServer(s) PROVE PendingInv'
  BY <1>6 DEF CheckFails, HandleEvent, StopServer
<1>7. CASE RestartRegistry
  BY <1>7, IdleConsistent DEF RestartRegistry
<1>8. CASE UNCHANGED vars
  BY <1>8 DEF vars
<1> QED
  BY <1>1, <1>2, <1>3, <1>4, <1>5, <1>6, <1>7, <1>8, PendingProceed DEF Next, Begin

\* distributeMapsToServers, MapsLoadedForServer and onMetricsUpdate: with any
\* number of goroutines that read and write Redis between each other's steps,
\* and whatever the balancer computes, no server waits for the confirmation
\* of a map that is not its own.
THEOREM PendingMapsAreAssigned == Spec => []PendingIsAssigned
<1>1. PendingInv => PendingIsAssigned
  BY DEF PendingInv, PendingIsAssigned, Consistent
<1>2. ShapeInv /\ PendingInv /\ [Next]_vars => ShapeInv' /\ PendingInv'
  BY ShapeStep, PendingStep
<1> QED
  BY <1>1, <1>2, ShapeInit, PendingInit, PTL DEF Spec

-----------------------------------------------------------------------------
(* A listed server is checked, when operations do not overlap.             *)

\* What the one operation in progress may have made of the lists.  Its
\* server is on the list while it registers, off it while it is removed; what
\* it still has to write is in the index.
ListsAgree(p) == LET o == op[p] IN
  /\ index = {s \in Servers : store[s].present}
  /\ index \subseteq named
  /\ IF o.kind = "unhealthy" /\ o.pc = "remove" THEN index \subseteq checker \cup {o.server}
                                               ELSE index \subseteq checker
  /\ o.kind = "register" /\ o.pc = "upsert" => o.server \in checker
  /\ o.kind \in Distributing /\ o.pc = "write" => o.todo \subseteq index
  /\ o.kind \in WritingBack => o.server \in index /\ o.value.present

LEMMA UpsertLists ==
  ASSUME ShapeInv, NEW s \in Servers, NEW v, v.present, Upsert(s, v),
         index = {t \in Servers : store[t].present}
  PROVE  index' = {t \in Servers : store'[t].present} /\ index' = index \cup {s}
BY DEF ShapeInv, Upsert

LEMMA StoredPresent == \A a, b : Stored(a, b).present
BY DEF Stored

LEMMA ListsProceed ==
  ASSUME NEW p, Procs = {p}, ShapeInv, ListsAgree(p), Proceed(p)
  PROVE  ListsAgree(p)'
<1> USE DEF ShapeInv, ListsAgree, redisVars, listVars, gsVars, boundVars, Distributing, WritingBack
<1>1. CASE RegisterAdd(p)
  <2>1. op'[p].kind = "register" /\ op'[p].server = op[p].server /\ op'[p].pc = "upsert"
    BY <1>1, GotoKeeps DEF RegisterAdd, At
  <2> QED
    BY <1>1, <2>1 DEF RegisterAdd, At, Added
<1>2. CASE RegisterUpsert(p)
  <2>1. op'[p].kind = "register" /\ op'[p].server = op[p].server /\ op'[p].pc = "list"
    BY <1>2, GotoKeeps DEF RegisterUpsert, At
  <2>2. op[p].server \in Servers /\ op[p].server \in checker
    BY <1>2 DEF RegisterUpsert, At, Shaped
  <2>3. index' = {t \in Servers : store'[t].present} /\ index' = index \cup {op[p].server}
    BY <1>2, <2>2, StoredPresent, UpsertLists DEF RegisterUpsert
  <2> QED
    BY <1>2, <2>1, <2>2, <2>3 DEF RegisterUpsert, At
<1>3. CASE UnhealthyRemove(p)
  <2>1. op'[p].kind = "unhealthy" /\ op'[p].server = op[p].server /\ op'[p].pc = "list"
    BY <1>3, GotoKeeps DEF UnhealthyRemove, At
  <2>2. op[p].server \in Servers /\ index \subseteq checker \cup {op[p].server}
    BY <1>3 DEF UnhealthyRemove, At, Shaped
  <2>3. CASE op[p].server \in named
    <3>1. index' = index \ {op[p].server} /\ store' = [store EXCEPT ![op[p].server] = Absent]
      BY <1>3, <2>3 DEF UnhealthyRemove, Delete
    <3>2. index' = {t \in Servers : store'[t].present}
      BY <2>2, <3>1 DEF Absent
    <3> QED
      BY <1>3, <2>1, <2>2, <3>1, <3>2 DEF UnhealthyRemove
  <2>4. CASE op[p].server \notin named
    BY <1>3, <2>1, <2>2, <2>4 DEF UnhealthyRemove
  <2> QED
    BY <2>3, <2>4
<1>4. CASE List(p)
  <2>1. PICK d : op' = [op EXCEPT ![p] = [kind |-> @.kind, server |-> @.server, pc |-> "write",
                                before |-> [s \in Listed |-> store[s]], new |-> d, todo |-> Listed]]
    BY <1>4 DEF List
  <2>2. op'[p].kind = op[p].kind /\ op'[p].pc = "write" /\ op'[p].todo \subseteq index
    BY <2>1 DEF Listed
  <2> QED
    BY <1>4, <2>2 DEF List
<1>5. ASSUME NEW s \in Servers, Write(p, s) PROVE ListsAgree(p)'
  <2>1. s \in op[p].todo /\ op[p].todo \subseteq index
    BY <1>5 DEF Write, WriteNext
  <2>2. index' = {t \in Servers : store'[t].present} /\ index' = index
    BY <1>5, <2>1, StoredPresent, UpsertLists DEF Write
  <2>3. op'[p].kind = op[p].kind /\ op'[p].pc = "write" /\ op'[p].todo = op[p].todo \ {s}
    BY <1>5 DEF Write, Shaped
  <2> QED
    BY <1>5, <2>1, <2>2, <2>3 DEF Write
<1>6. CASE Announce(p)
  BY <1>6, IdleShaped DEF Announce
<1>7. CASE MapsLoadedWrite(p)
  <2>1. op[p].server \in index /\ op[p].server \in Servers /\ op[p].kind = "loaded"
    BY <1>7 DEF MapsLoadedWrite, At, Shaped
  <2>2. index' = {t \in Servers : store'[t].present} /\ index' = index
    BY <1>7, <2>1, StoredPresent, UpsertLists DEF MapsLoadedWrite
  <2> QED
    BY <1>7, <2>1, <2>2, IdleShaped DEF MapsLoadedWrite
<1>8. CASE MetricsWrite(p)
  <2>1. op[p].server \in index /\ op[p].server \in Servers /\ op[p].value.present /\ op[p].kind = "metrics"
    BY <1>8 DEF MetricsWrite, At, Shaped
  <2>2. index = {t \in Servers : store'[t].present}
    BY <1>8, <2>1 DEF MetricsWrite
  <2> QED
    BY <1>8, <2>1, <2>2, IdleShaped DEF MetricsWrite
<1> QED
  BY <1>1, <1>2, <1>3, <1>4, <1>5, <1>6, <1>7, <1>8 DEF Proceed

LEMMA ReadBackLists ==
  ASSUME NEW p, Procs = {p}, ShapeInv, ListsAgree(p),
         NEW kind \in WritingBack, NEW s \in Servers, NEW maps, ReadBack(kind, p, s, maps),
         UNCHANGED <<redisVars, checker, named>>
  PROVE  ListsAgree(p)'
<1> USE DEF ShapeInv, ListsAgree, redisVars, Distributing, WritingBack
<1>1. CASE store[s].present
  <2>1. op'[p] = [kind |-> kind, server |-> s, pc |-> "write", maps |-> maps, value |-> store[s]]
    BY <1>1 DEF ReadBack
  <2>2. op'[p].kind = kind /\ op'[p].server = s /\ op'[p].value = store[s]
    BY <2>1
  <2> QED
    BY <1>1, <2>2, IdleShaped DEF ReadBack
<1>2. CASE ~store[s].present
  BY <1>2 DEF ReadBack
<1> QED
  BY <1>1, <1>2

LEMMA ListsStep ==
  ASSUME NEW p, Procs = {p}, ShapeInv, ListsAgree(p), [Next]_vars
  PROVE  ListsAgree(p)'
<1> USE DEF ShapeInv, ListsAgree, redisVars, listVars, gsVars, boundVars, Distributing, WritingBack
<1>1. ASSUME NEW s \in Servers, HandleFailed(s, p) PROVE ListsAgree(p)'
  <2>1. op'[p].kind = "unhealthy" /\ op'[p].server = s /\ op'[p].pc = "remove"
    BY <1>1 DEF HandleFailed
  <2> QED
    BY <1>1, <2>1, IdleShaped DEF HandleFailed
<1>2. ASSUME NEW c \in confirms, MapsLoaded(c, p) PROVE ListsAgree(p)'
  BY <1>2, ReadBackLists DEF MapsLoaded
<1>3. CASE WriteFails(p)
  BY <1>3, IdleShaped DEF WriteFails
<1>4. ASSUME NEW s \in Servers, StartServer(s, p) PROVE ListsAgree(p)'
  <2>1. op'[p].kind = "register" /\ op'[p].server = s /\ op'[p].pc = "add"
    BY <1>4 DEF StartServer
  <2> QED
    BY <1>4, <2>1, IdleShaped DEF StartServer
<1>5. ASSUME NEW s \in Servers, MetricsRead(s, p) PROVE ListsAgree(p)'
  BY <1>5, ReadBackLists DEF MetricsRead
<1>6. ASSUME NEW s \in Servers, CheckFails(s) \/ HandleEvent(s) \/ StopServer(s) PROVE ListsAgree(p)'
  BY <1>6 DEF CheckFails, HandleEvent, StopServer
<1>7. CASE RestartRegistry
  <2>1. Listed = index /\ op'[p] = Idle
    BY <1>7 DEF RestartRegistry, Listed
  <2> QED
    BY <1>7, <2>1, IdleShaped DEF RestartRegistry
<1>8. CASE UNCHANGED vars
  BY <1>8 DEF vars
<1> QED
  BY <1>1, <1>2, <1>3, <1>4, <1>5, <1>6, <1>7, <1>8, ListsProceed DEF Next, Begin

LEMMA ListsStart ==
  ASSUME NEW p, Procs = {p}
  PROVE  Init => ListsAgree(p)
<1> SUFFICES ASSUME Init PROVE ListsAgree(p)
  OBVIOUS
<1>1. op[p] = Idle /\ index = {} /\ store = [s \in Servers |-> Absent]
  BY DEF Init
<1>2. index = {s \in Servers : store[s].present}
  BY <1>1 DEF Absent
<1> QED
  BY <1>1, <1>2, IdleShaped DEF ListsAgree, Distributing, WritingBack

\* Register, onServerUnhealthy and NewGameServer: while operations follow one
\* another (one goroutine), a server in the realm's index is on the health
\* checker's list and its object carries its ID, through failing writes, late
\* check results, restarts of the registry and servers that register again.
THEOREM ListedServersAreChecked ==
  ASSUME NEW p, Procs = {p}
  PROVE  Spec => []ListedIsChecked
<1>1. Init => ListsAgree(p)
  BY ListsStart
<1>2. ShapeInv /\ ListsAgree(p) /\ [Next]_vars => ShapeInv' /\ ListsAgree(p)'
  BY ShapeStep, ListsStep DEF ListsAgree
<1>3. ListsAgree(p) => ListedIsChecked
  BY IdleShaped DEF ListsAgree, ListedIsChecked, Quiet
<1> QED
  BY <1>1, <1>2, <1>3, ShapeInit, PTL DEF Spec

-----------------------------------------------------------------------------
(* Sequences without repetition.                                           *)

OneEach(q) == \A i, j \in 1 .. Len(q) : q[i] = q[j] => i = j

LEMMA ElementsOf ==
  ASSUME NEW M, NEW q \in Seq(M)
  PROVE  /\ ToSet(q) = {q[i] : i \in 1 .. Len(q)} /\ ToSet(q) \subseteq M
         /\ Len(q) \in Nat /\ DOMAIN q = 1 .. Len(q)
         /\ \A i \in 1 .. Len(q) : q[i] \in ToSet(q)
         /\ \A x \in ToSet(q) : \E i \in 1 .. Len(q) : q[i] = x
BY DEF ToSet

LEMMA ElementsAppended ==
  ASSUME NEW M, NEW q \in Seq(M), NEW m \in M, m \notin ToSet(q), OneEach(q)
  PROVE  /\ Append(q, m) \in Seq(M) /\ OneEach(Append(q, m))
         /\ ToSet(Append(q, m)) = ToSet(q) \cup {m}
<1> DEFINE r == Append(q, m)
<1>1. /\ r \in Seq(M) /\ Len(r) = Len(q) + 1 /\ r[Len(q) + 1] = m
      /\ \A i \in 1 .. Len(q) : r[i] = q[i]
  OBVIOUS
<1>2. /\ Len(q) \in Nat /\ \A i \in 1 .. Len(q) : q[i] \in ToSet(q)
      /\ \A x \in ToSet(q) : \E i \in 1 .. Len(q) : q[i] = x
  BY ElementsOf
<1>3. /\ \A i \in 1 .. Len(r) : r[i] \in ToSet(r)
      /\ \A x \in ToSet(r) : \E i \in 1 .. Len(r) : r[i] = x
  <2>1. r \in Seq(M)
    BY <1>1
  <2> HIDE DEF r
  <2> QED
    BY <2>1, ElementsOf
<1> HIDE DEF r
<1>4. \A i \in 1 .. Len(r) : i \in 1 .. Len(q) \/ i = Len(q) + 1
  BY <1>1, <1>2
<1>5. OneEach(r)
  BY <1>1, <1>2, <1>4 DEF OneEach
<1>6. ToSet(r) \subseteq ToSet(q) \cup {m}
  BY <1>1, <1>2, <1>3, <1>4
<1>7. \A i \in 1 .. Len(q) : i \in 1 .. Len(r)
  BY <1>1, <1>2
<1>8. Len(q) + 1 \in 1 .. Len(r)
  BY <1>1, <1>2
<1>9. ToSet(q) \cup {m} \subseteq ToSet(r)
  <2>1. m \in ToSet(r)
    BY <1>1, <1>3, <1>8
  <2>2. ASSUME NEW x \in ToSet(q) PROVE x \in ToSet(r)
    <3>1. PICK i \in 1 .. Len(q) : q[i] = x
      BY <1>2
    <3>2. i \in 1 .. Len(r) /\ r[i] = x
      BY <1>1, <1>7, <3>1
    <3> QED
      BY <1>3, <3>2
  <2> QED
    BY <2>1, <2>2
<1> QED
  BY <1>1, <1>5, <1>6, <1>9 DEF r

LEMMA ElementsJoined ==
  ASSUME NEW M, NEW p \in Seq(M), NEW q \in Seq(M), OneEach(p), OneEach(q),
         ToSet(p) \cap ToSet(q) = {}
  PROVE  p \o q \in Seq(M) /\ OneEach(p \o q) /\ ToSet(p \o q) = ToSet(p) \cup ToSet(q)
<1> DEFINE r == p \o q
<1>1. /\ r \in Seq(M) /\ Len(r) = Len(p) + Len(q)
      /\ \A i \in 1 .. Len(p) + Len(q) : r[i] = IF i <= Len(p) THEN p[i] ELSE q[i - Len(p)]
  OBVIOUS
<1>2. /\ Len(p) \in Nat /\ \A i \in 1 .. Len(p) : p[i] \in ToSet(p)
      /\ \A x \in ToSet(p) : \E i \in 1 .. Len(p) : p[i] = x
  BY ElementsOf
<1>3. /\ Len(q) \in Nat /\ \A i \in 1 .. Len(q) : q[i] \in ToSet(q)
      /\ \A x \in ToSet(q) : \E i \in 1 .. Len(q) : q[i] = x
  BY ElementsOf
<1>4. /\ \A i \in 1 .. Len(r) : r[i] \in ToSet(r)
      /\ \A x \in ToSet(r) : \E i \in 1 .. Len(r) : r[i] = x
  BY <1>1, ElementsOf
<1> HIDE DEF r
<1>5. \A i \in 1 .. Len(r) : \/ i \in 1 .. Len(p) /\ r[i] = p[i]
                             \/ i - Len(p) \in 1 .. Len(q) /\ r[i] = q[i - Len(p)]
  BY <1>1, <1>2, <1>3
<1>6. OneEach(r)
  <2> SUFFICES ASSUME NEW i \in 1 .. Len(r), NEW j \in 1 .. Len(r), r[i] = r[j] PROVE i = j
    BY DEF OneEach
  <2>1. CASE i \in 1 .. Len(p) /\ r[i] = p[i] /\ j \in 1 .. Len(p) /\ r[j] = p[j]
    BY <2>1 DEF OneEach
  <2>2. CASE /\ i - Len(p) \in 1 .. Len(q) /\ r[i] = q[i - Len(p)]
             /\ j - Len(p) \in 1 .. Len(q) /\ r[j] = q[j - Len(p)]
    <3>1. i - Len(p) = j - Len(p)
      BY <2>2 DEF OneEach
    <3> QED
      BY <1>1, <1>2, <1>3, <3>1
  <2>3. ~(r[i] \in ToSet(p) /\ r[j] \in ToSet(q)) /\ ~(r[i] \in ToSet(q) /\ r[j] \in ToSet(p))
    OBVIOUS
  <2> QED
    BY <1>2, <1>3, <1>5, <2>1, <2>2, <2>3
<1>7. ToSet(r) \subseteq ToSet(p) \cup ToSet(q)
  BY <1>2, <1>3, <1>4, <1>5
<1>8. ToSet(p) \subseteq ToSet(r)
  <2>1. \A i \in 1 .. Len(p) : i \in 1 .. Len(r) /\ r[i] = p[i]
    BY <1>1, <1>2, <1>3
  <2> QED
    BY <1>2, <1>4, <2>1
<1>9. ToSet(q) \subseteq ToSet(r)
  <2>1. ASSUME NEW i \in 1 .. Len(q) PROVE i + Len(p) \in 1 .. Len(r) /\ r[i + Len(p)] = q[i]
    <3>1. i + Len(p) \in 1 .. Len(r) /\ ~(i + Len(p) <= Len(p)) /\ (i + Len(p)) - Len(p) = i
      BY <1>1, <1>2, <1>3
    <3> QED
      BY <1>1, <3>1
  <2>2. ASSUME NEW x \in ToSet(q) PROVE x \in ToSet(r)
    <3>1. PICK i \in 1 .. Len(q) : q[i] = x
      BY <1>3
    <3>2. i + Len(p) \in 1 .. Len(r) /\ r[i + Len(p)] = x
      BY <2>1, <3>1
    <3> QED
      BY <1>4, <3>2
  <2> QED
    BY <2>2
<1> QED
  BY <1>1, <1>6, <1>7, <1>8, <1>9 DEF r

\* As many places as elements.
LEMMA ElementsCounted ==
  ASSUME NEW M, NEW q \in Seq(M), OneEach(q)
  PROVE  IsFiniteSet(ToSet(q)) /\ Cardinality(ToSet(q)) = Len(q)
<1>1. /\ ToSet(q) = {q[i] : i \in 1 .. Len(q)} /\ Len(q) \in Nat /\ DOMAIN q = 1 .. Len(q)
      /\ \A x \in ToSet(q) : \E i \in 1 .. Len(q) : q[i] = x
      /\ \A i \in 1 .. Len(q) : q[i] \in ToSet(q)
  BY ElementsOf
<1>2. q \in [1 .. Len(q) -> ToSet(q)]
  BY <1>1
<1>3. q \in Bijection(1 .. Len(q), ToSet(q))
  BY <1>1, <1>2, Zenon DEF OneEach, Bijection, Injection, Surjection, IsInjective
<1>4. ExistsBijection(1 .. Len(q), ToSet(q))
  BY <1>3 DEF ExistsBijection
<1>5. IsFiniteSet(ToSet(q))
  BY <1>1, <1>4, FS_NatBijection
<1> QED
  BY <1>1, <1>4, <1>5, FS_CountingElements

\* An order of a finite set has each of its elements once.
LEMMA OrderOfSet ==
  ASSUME NEW S, IsFiniteSet(S), NEW o \in SetToSeqs(S)
  PROVE  o \in Seq(S) /\ Len(o) = Cardinality(S) /\ OneEach(o) /\ ToSet(o) = S
<1> DEFINE n == Cardinality(S)
<1>1. n \in Nat
  BY FS_CardinalityType
<1>2. o \in [1 .. n -> S] /\ \A i, j \in 1 .. n : i # j => o[i] # o[j]
  BY DEF SetToSeqs
<1> HIDE DEF n
<1>3. o \in Seq(S) /\ Len(o) = n
  BY <1>1, <1>2
<1>4. OneEach(o)
  BY <1>2, <1>3 DEF OneEach
<1>5. ToSet(o) \in SUBSET S
  BY <1>3, ElementsOf
<1>6. Cardinality(ToSet(o)) = n
  BY <1>3, <1>4, ElementsCounted
<1>7. ToSet(o) = S
  BY <1>5, <1>6, FS_Subset DEF n
<1> QED
  BY <1>3, <1>4, <1>7 DEF n

-----------------------------------------------------------------------------
(* Bins.                                                                   *)

BinsOf(M) == Seq([space : Int, maps : Seq(M)])

\* PutInto adds m to bin i: the first with room for it, or a new one.
PutAt(i, bins, new, m, weight, share) ==
  /\ i \in 1 .. Len(bins) + 1
  /\ Len(new) = IF i = Len(bins) + 1 THEN i ELSE Len(bins)
  /\ \A j \in 1 .. Len(bins) : j # i => new[j] = bins[j]
  /\ i = Len(bins) + 1 => new[i] = [space |-> share - weight, maps |-> <<m>>]
  /\ i <= Len(bins) => /\ bins[i].space >= weight
                       /\ new[i] = [space |-> bins[i].space - weight, maps |-> Append(bins[i].maps, m)]
  /\ \A j \in 1 .. Len(bins) : j < i => bins[j].space < weight

LEMMA BinsParts ==
  ASSUME NEW M, NEW bins \in BinsOf(M)
  PROVE  /\ Len(bins) \in Nat /\ DOMAIN bins = 1 .. Len(bins)
         /\ \A i \in 1 .. Len(bins) : bins[i].space \in Int /\ bins[i].maps \in Seq(M)
<1> DEFINE R == [space : Int, maps : Seq(M)]
<1>1. \A b \in R : b.space \in Int /\ b.maps \in Seq(M)
  OBVIOUS
<1>2. bins \in Seq(R)
  BY DEF BinsOf
<1> HIDE DEF R
<1>3. Len(bins) \in Nat /\ DOMAIN bins = 1 .. Len(bins) /\ \A i \in 1 .. Len(bins) : bins[i] \in R
  BY <1>2
<1> QED
  BY <1>1, <1>3

LEMMA PutIntoEffect ==
  ASSUME NEW M, NEW m \in M, NEW bins \in BinsOf(M), NEW w, w[m] \in Int, NEW share \in Int
  PROVE  /\ PutInto(bins, m, w, share) \in BinsOf(M)
         /\ \E i : PutAt(i, bins, PutInto(bins, m, w, share), m, w[m], share)
<1> DEFINE Fit == {i \in 1 .. Len(bins) : bins[i].space >= w[m]}
           f == FirstAvailableBin(bins, w[m])
           new == PutInto(bins, m, w, share)
<1>1. /\ Len(bins) \in Nat /\ DOMAIN bins = 1 .. Len(bins)
      /\ \A i \in 1 .. Len(bins) : bins[i].space \in Int /\ bins[i].maps \in Seq(M)
  BY BinsParts
<1>2. f = IF Fit # {} THEN Min(Fit) ELSE 0
  BY DEF FirstAvailableBin, SelectInSeq
<1>3. CASE Fit # {}
  <2>1. f \in Fit /\ \A i \in Fit : f <= i
    <3>1. Fit \subseteq Nat
      BY <1>1
    <3> HIDE DEF Fit
    <3>2. \E i \in Fit : \A j \in Fit : i <= j
      BY <1>3, <3>1, LeastOf
    <3> QED
      BY <1>2, <1>3, <3>2 DEF Min
  <2>2. f \in 1 .. Len(bins) /\ bins[f].space >= w[m] /\ f > 0
    BY <1>1, <2>1
  <2>3. \A j \in 1 .. Len(bins) : j < f => bins[j].space < w[m]
    BY <1>1, <2>1, <2>2
  <2>4. new = [bins EXCEPT ![f] = [space |-> @.space - w[m], maps |-> Append(@.maps, m)]]
    BY <2>2 DEF PutInto
  <2> HIDE DEF f, new, Fit
  <2>5. [space |-> bins[f].space - w[m], maps |-> Append(bins[f].maps, m)] \in [space : Int, maps : Seq(M)]
    BY <1>1, <2>2
  <2>6. new \in BinsOf(M) /\ Len(new) = Len(bins)
    BY <2>2, <2>4, <2>5 DEF BinsOf
  <2>7. /\ new[f] = [space |-> bins[f].space - w[m], maps |-> Append(bins[f].maps, m)]
        /\ \A j \in 1 .. Len(bins) : j # f => new[j] = bins[j]
    BY <1>1, <2>2, <2>4
  <2>8. f \in 1 .. Len(bins) + 1 /\ f # Len(bins) + 1
    BY <1>1, <2>2
  <2>9. PutAt(f, bins, new, m, w[m], share)
    BY <2>2, <2>3, <2>6, <2>7, <2>8 DEF PutAt
  <2> QED
    BY <2>6, <2>9 DEF new
<1>4. CASE Fit = {}
  <2> DEFINE b == [space |-> share - w[m], maps |-> <<m>>]
  <2>1. new = Append(bins, b)
    <3>1. f = 0
      BY <1>2, <1>4
    <3>2. ~(f > 0)
      <4> HIDE DEF f
      <4> QED
        BY <3>1
    <3>3. new = IF f > 0
                THEN [bins EXCEPT ![f] = [space |-> @.space - w[m], maps |-> Append(@.maps, m)]]
                ELSE Append(bins, b)
      BY Zenon DEF PutInto
    <3> HIDE DEF f, new, b
    <3> QED
      BY <3>2, <3>3
  <2>2. b \in [space : Int, maps : Seq(M)]
    OBVIOUS
  <2>3. \A j \in 1 .. Len(bins) : bins[j].space < w[m]
    BY <1>1, <1>4
  <2> HIDE DEF f, new, Fit, b
  <2>4. /\ new \in BinsOf(M) /\ Len(new) = Len(bins) + 1 /\ new[Len(bins) + 1] = b
        /\ \A j \in 1 .. Len(bins) : new[j] = bins[j]
    BY <2>1, <2>2 DEF BinsOf
  <2>5. Len(bins) + 1 \in 1 .. Len(bins) + 1 /\ ~(Len(bins) + 1 <= Len(bins))
    BY <1>1
  <2>6. PutAt(Len(bins) + 1, bins, new, m, w[m], share)
    BY <2>3, <2>4, <2>5 DEF PutAt, b
  <2> QED
    BY <2>4, <2>6 DEF new
<1> QED
  BY <1>3, <1>4

\* The fold: bins after k maps of the order.
IsFill(h, o, w, share) ==
  h = [s \in SUBSET DOMAIN o |->
         IF s = {} THEN <<>> ELSE PutInto(h[s \ {Max(s)}], o[Max(s)], w, share)]

LEMMA MaxIn ==
  ASSUME NEW n \in Nat, NEW s \in SUBSET (1 .. n), s # {}
  PROVE  Max(s) \in s /\ \A x \in s : x <= Max(s)
<1> DEFINE T == {k \in Nat : \E x \in s : k = n - x}
<1>1. T # {} /\ T \subseteq Nat
  <2>1. PICK x \in s : TRUE
    OBVIOUS
  <2>2. n - x \in T
    BY <2>1
  <2> QED
    BY <2>2
<1>2. PICK k \in T : \A j \in T : k <= j
  <2> HIDE DEF T
  <2> QED
    BY <1>1, LeastOf
<1>3. PICK x \in s : k = n - x
  BY <1>2
<1>4. \A y \in s : n - y \in T
  OBVIOUS
<1>5. \A y \in s : n - x <= n - y
  BY <1>2, <1>3, <1>4
<1>6. \A y \in s : y <= x
  BY <1>3, <1>5
<1> QED
  BY <1>3, <1>6 DEF Max

LEMMA FillExists ==
  ASSUME NEW n \in Nat, NEW o, DOMAIN o = 1 .. n, NEW w, NEW share
  PROVE  \E h : IsFill(h, o, w, share)
<1> DEFINE Small(k) == {s \in SUBSET (1 .. n) : Cardinality(s) <= k}
           Put(h, s) == PutInto(h[s \ {Max(s)}], o[Max(s)], w, share)
           UpTo(h, k) == h = [s \in Small(k) |-> IF s = {} THEN <<>> ELSE Put(h, s)]
           T == {k \in Nat : \E h : UpTo(h, k)}
<1>0. IsFiniteSet(1 .. n) /\ Cardinality(1 .. n) = n
  BY FS_Interval
<1>1. \A s \in SUBSET (1 .. n) : IsFiniteSet(s) /\ Cardinality(s) \in Nat /\ (Cardinality(s) = 0 <=> s = {})
  BY <1>0, FS_Subset, FS_CardinalityType, FS_EmptySet
<1>2. \A s \in SUBSET (1 .. n) : s # {} => Cardinality(s \ {Max(s)}) = Cardinality(s) - 1
  BY <1>1, MaxIn, FS_RemoveElement
<1>3. 0 \in T
  <2> DEFINE h == [s \in Small(0) |-> <<>>]
  <2>1. \A s \in Small(0) : s = {}
    BY <1>1
  <2> HIDE DEF Put
  <2>2. UpTo(h, 0)
    BY <2>1
  <2> QED
    BY <2>2
<1>4. ASSUME NEW k \in Nat, k \in T PROVE k + 1 \in T
  <2>1. PICK h : UpTo(h, k)
    BY <1>4
  <2> DEFINE j == [s \in Small(k + 1) |-> IF s = {} THEN <<>> ELSE Put(h, s)]
  <2>2. ASSUME NEW s \in Small(k + 1), s # {} PROVE j[s \ {Max(s)}] = h[s \ {Max(s)}]
    <3> DEFINE t == s \ {Max(s)}
    <3>0. s \in SUBSET (1 .. n) /\ Cardinality(s) <= k + 1 /\ s # {} /\ t \in SUBSET (1 .. n)
      BY <2>2
    <3>1. t \in Small(k) /\ t \in Small(k + 1)
      <4>1. Cardinality(t) = Cardinality(s) - 1 /\ Cardinality(s) \in Nat
        BY <1>1, <1>2, <3>0
      <4>2. Cardinality(t) <= k /\ Cardinality(t) <= k + 1
        BY <3>0, <4>1
      <4> HIDE DEF t
      <4> QED
        BY <3>0, <4>2
    <3> HIDE DEF Put, t
    <3>2. h[t] = IF t = {} THEN <<>> ELSE Put(h, t)
      BY <2>1, <3>1
    <3>3. j[t] = IF t = {} THEN <<>> ELSE Put(h, t)
      BY <3>1
    <3> QED
      BY <3>2, <3>3 DEF t
  <2> HIDE DEF Small
  <2>3. \A s \in Small(k + 1) : s # {} => Put(h, s) = Put(j, s)
    <3> HIDE DEF j
    <3> QED
      BY <2>2
  <2>4. UpTo(j, k + 1)
    <3> HIDE DEF Put
    <3>1. j = [s \in Small(k + 1) |-> IF s = {} THEN <<>> ELSE Put(h, s)]
      OBVIOUS
    <3> HIDE DEF j
    <3> QED
      BY <2>3, <3>1
  <2> HIDE DEF UpTo
  <2> QED
    BY <2>4
<1>5. \E h : UpTo(h, n)
  <2>1. Nat \subseteq T
    <3> HIDE DEF T
    <3> QED
      BY <1>3, <1>4, InductionOnNat
  <2> HIDE DEF UpTo
  <2> QED
    BY <2>1
<1>6. Small(n) = SUBSET DOMAIN o
  BY <1>0, <1>1, FS_Subset
<1> HIDE DEF Small
<1> QED
  BY <1>5, <1>6 DEF IsFill

\* The bins after each of the n maps of an order.
Fills(h, n, o, w, share) ==
  /\ h[{}] = <<>>
  /\ \A k \in 0 .. n - 1 : h[1 .. k + 1] = PutInto(h[1 .. k], o[k + 1], w, share)
  /\ Bins(o, w, share) = h[1 .. n]

LEMMA BinsAreFilled ==
  ASSUME NEW n \in Nat, NEW o, DOMAIN o = 1 .. n, NEW w, NEW share
  PROVE  \E h : Fills(h, n, o, w, share)
<1>1. PICK h : IsFill(h, o, w, share) /\ Bins(o, w, share) = h[1 .. n]
  <2>1. \E h : IsFill(h, o, w, share)
    BY FillExists
  <2> QED
    BY <2>1 DEF Bins, FoldLeft, MapThenFoldSet, IsFill
<1>2. h[{}] = <<>>
  BY <1>1 DEF IsFill
<1>3. ASSUME NEW k \in 0 .. n - 1 PROVE h[1 .. k + 1] = PutInto(h[1 .. k], o[k + 1], w, share)
  <2> DEFINE s == 1 .. k + 1
  <2>1. s \in SUBSET (1 .. n) /\ s # {} /\ k + 1 \in s /\ \A x \in s : x <= k + 1
    OBVIOUS
  <2>2. Max(s) = k + 1
    <3> HIDE DEF s
    <3>1. Max(s) \in s /\ \A x \in s : x <= Max(s)
      BY <2>1, MaxIn
    <3>2. Max(s) <= k + 1 /\ k + 1 <= Max(s)
      BY <2>1, <3>1
    <3>3. Max(s) \in 1 .. n
      BY <2>1, <3>1, Zenon
    <3>4. k \in Nat
      OBVIOUS
    <3> QED
      BY <3>2, <3>3, <3>4
  <2>3. s \ {k + 1} = 1 .. k
    OBVIOUS
  <2> HIDE DEF s
  <2>4. h[s] = PutInto(h[s \ {Max(s)}], o[Max(s)], w, share)
    BY <1>1, <2>1 DEF IsFill
  <2> QED
    BY <2>2, <2>3, <2>4 DEF s
<1> QED
  BY <1>1, <1>2, <1>3 DEF Fills

BinMaps(bins, i) == ToSet(bins[i].maps)

\* The maps S are in bins, each in one place.
Packed(bins, S) ==
  /\ \A i \in 1 .. Len(bins) : OneEach(bins[i].maps) /\ BinMaps(bins, i) \subseteq S
  /\ \A i, j \in 1 .. Len(bins) : i # j => BinMaps(bins, i) \cap BinMaps(bins, j) = {}
  /\ \A m \in S : \E i \in 1 .. Len(bins) : m \in BinMaps(bins, i)

\* No bin holds more than the share; a map is in a bin only if no earlier one
\* has room for it.
Tight(bins, w, share) ==
  /\ \A i \in 1 .. Len(bins) :
       /\ bins[i].space >= 0 /\ SumOf(w, BinMaps(bins, i)) \in Int
       /\ bins[i].space = share - SumOf(w, BinMaps(bins, i))
  /\ \A i, j \in 1 .. Len(bins) : \A m \in BinMaps(bins, i) : j < i => bins[j].space < w[m]

LEMMA PutMaps ==
  ASSUME NEW M, NEW m \in M, NEW bins \in BinsOf(M), NEW new \in BinsOf(M),
         NEW i, NEW weight \in Int, NEW share \in Int, PutAt(i, bins, new, m, weight, share),
         NEW S, Packed(bins, S), m \notin S
  PROVE  /\ i \in 1 .. Len(new) /\ OneEach(new[i].maps)
         /\ i \in 1 .. Len(bins) => BinMaps(new, i) = BinMaps(bins, i) \cup {m}
         /\ i \notin 1 .. Len(bins) => BinMaps(new, i) = {m}
         /\ \A j \in 1 .. Len(new) \ {i} : j \in 1 .. Len(bins) /\ new[j] = bins[j]
         /\ 1 .. Len(bins) \subseteq 1 .. Len(new)
<1>1. Len(bins) \in Nat /\ \A j \in 1 .. Len(bins) : bins[j].maps \in Seq(M)
  BY BinsParts
<1>2. /\ i \in 1 .. Len(bins) + 1
      /\ Len(new) = IF i = Len(bins) + 1 THEN i ELSE Len(bins)
  BY DEF PutAt
<1>3. i \in 1 .. Len(new) /\ 1 .. Len(bins) \subseteq 1 .. Len(new)
  BY <1>1, <1>2
<1>4. \A j \in 1 .. Len(new) \ {i} : j \in 1 .. Len(bins)
  BY <1>1, <1>2
<1>5. CASE i \in 1 .. Len(bins)
  <2>1. i <= Len(bins)
    BY <1>1, <1>5
  <2>2. new[i] = [space |-> bins[i].space - weight, maps |-> Append(bins[i].maps, m)]
    BY <2>1 DEF PutAt
  <2>3. new[i].maps = Append(bins[i].maps, m)
    BY <2>2
  <2>4. OneEach(bins[i].maps) /\ m \notin ToSet(bins[i].maps)
    BY <1>5 DEF Packed, BinMaps
  <2>5. OneEach(new[i].maps) /\ BinMaps(new, i) = BinMaps(bins, i) \cup {m}
    BY <1>1, <1>5, <2>3, <2>4, ElementsAppended DEF BinMaps
  <2> QED
    BY <1>3, <1>4, <1>5, <2>5 DEF PutAt
<1>6. CASE i \notin 1 .. Len(bins)
  <2>1. i = Len(bins) + 1
    BY <1>1, <1>2, <1>6
  <2>2. new[i] = [space |-> share - weight, maps |-> <<m>>]
    BY <2>1 DEF PutAt
  <2>3. new[i].maps = <<m>>
    BY <2>2
  <2>4. OneEach(new[i].maps) /\ BinMaps(new, i) = {m}
    BY <2>3 DEF BinMaps, ToSet, OneEach
  <2> QED
    BY <1>3, <1>4, <1>6, <2>4 DEF PutAt
<1> QED
  BY <1>5, <1>6

LEMMA PutKeepsPacked ==
  ASSUME NEW M, NEW m \in M, NEW bins \in BinsOf(M), NEW new \in BinsOf(M),
         NEW i, NEW weight \in Int, NEW share \in Int, PutAt(i, bins, new, m, weight, share),
         NEW S, Packed(bins, S), m \notin S
  PROVE  Packed(new, S \cup {m})
<1>1. /\ i \in 1 .. Len(new) /\ OneEach(new[i].maps)
      /\ i \in 1 .. Len(bins) => BinMaps(new, i) = BinMaps(bins, i) \cup {m}
      /\ i \notin 1 .. Len(bins) => BinMaps(new, i) = {m}
      /\ \A j \in 1 .. Len(new) \ {i} : j \in 1 .. Len(bins) /\ new[j] = bins[j]
      /\ 1 .. Len(bins) \subseteq 1 .. Len(new)
  BY PutMaps
<1>2. \A j \in 1 .. Len(new) \ {i} : BinMaps(new, j) = BinMaps(bins, j) /\ new[j].maps = bins[j].maps
  BY <1>1 DEF BinMaps
<1>3. /\ \A j \in 1 .. Len(bins) : OneEach(bins[j].maps) /\ BinMaps(bins, j) \subseteq S
      /\ \A j, k \in 1 .. Len(bins) : j # k => BinMaps(bins, j) \cap BinMaps(bins, k) = {}
      /\ \A x \in S : \E j \in 1 .. Len(bins) : x \in BinMaps(bins, j)
  BY DEF Packed
<1> DEFINE B == 1 .. Len(bins)
           N == 1 .. Len(new)
<1>4. i \in N /\ B \subseteq N /\ \A j \in N \ {i} : j \in B
  BY <1>1
<1> HIDE DEF B, N
<1>5. ASSUME NEW j \in N PROVE OneEach(new[j].maps) /\ BinMaps(new, j) \subseteq S \cup {m}
  BY <1>1, <1>2, <1>3, <1>4, <1>5 DEF B, N
<1>6. ASSUME NEW j \in N \ {i} PROVE BinMaps(new, i) \cap BinMaps(new, j) = {}
  <2>1. j \in B /\ BinMaps(new, j) = BinMaps(bins, j) /\ BinMaps(bins, j) \subseteq S
    BY <1>2, <1>3, <1>4, <1>6 DEF B, N
  <2>2. CASE i \in B
    <3>1. BinMaps(new, i) = BinMaps(bins, i) \cup {m} /\ BinMaps(bins, i) \cap BinMaps(bins, j) = {}
      BY <1>1, <1>3, <1>6, <2>1, <2>2 DEF B
    <3> QED
      BY <2>1, <3>1
  <2>3. CASE i \notin B
    BY <1>1, <2>1, <2>3 DEF B
  <2> QED
    BY <2>2, <2>3
<1>7. ASSUME NEW j \in N, NEW k \in N, j # k PROVE BinMaps(new, j) \cap BinMaps(new, k) = {}
  <2>1. CASE j # i /\ k # i
    <3>1. j \in B /\ k \in B /\ BinMaps(new, j) = BinMaps(bins, j) /\ BinMaps(new, k) = BinMaps(bins, k)
      BY <1>2, <1>4, <2>1 DEF N
    <3> QED
      BY <1>3, <1>7, <3>1 DEF B
  <2> QED
    BY <1>6, <1>7, <2>1
<1>8. ASSUME NEW x \in S \cup {m} PROVE \E j \in N : x \in BinMaps(new, j)
  <2>1. CASE x = m
    BY <1>1, <1>4, <2>1
  <2>2. CASE x \in S
    <3>1. PICK j \in B : x \in BinMaps(bins, j)
      BY <1>3, <2>2 DEF B
    <3>2. x \in BinMaps(new, j) /\ j \in N
      BY <1>1, <1>2, <1>4, <3>1 DEF B, N
    <3> QED
      BY <3>2
  <2> QED
    BY <2>1, <2>2
<1> QED
  BY <1>5, <1>7, <1>8 DEF Packed, N

LEMMA PutKeepsTight ==
  ASSUME NEW M, IsFiniteSet(M), NEW m \in M, NEW bins \in BinsOf(M), NEW new \in BinsOf(M),
         NEW w \in [M -> Nat], NEW share \in Nat, w[m] <= share,
         NEW i, PutAt(i, bins, new, m, w[m], share),
         NEW S \in SUBSET M, Packed(bins, S), m \notin S, Tight(bins, w, share)
  PROVE  Tight(new, w, share)
<1>0. w[m] \in Nat /\ Len(bins) \in Nat /\ \A j \in 1 .. Len(bins) : bins[j].space \in Int
  BY BinsParts
<1>1. /\ i \in 1 .. Len(new)
      /\ i \in 1 .. Len(bins) => BinMaps(new, i) = BinMaps(bins, i) \cup {m}
      /\ i \notin 1 .. Len(bins) => BinMaps(new, i) = {m}
      /\ \A j \in 1 .. Len(new) \ {i} : j \in 1 .. Len(bins) /\ new[j] = bins[j]
  BY <1>0, PutMaps
<1>2. \A j \in 1 .. Len(new) \ {i} : BinMaps(new, j) = BinMaps(bins, j) /\ new[j].space = bins[j].space
  BY <1>1 DEF BinMaps
<1> DEFINE B == 1 .. Len(bins)
           N == 1 .. Len(new)
<1>3. /\ \A j \in B : /\ bins[j].space >= 0 /\ SumOf(w, BinMaps(bins, j)) \in Int
                      /\ bins[j].space = share - SumOf(w, BinMaps(bins, j))
      /\ \A j, k \in B : \A x \in BinMaps(bins, j) : k < j => bins[k].space < w[x]
  BY DEF Tight
<1>4. \A j \in B : BinMaps(bins, j) \subseteq S
  BY DEF Packed
<1>5. \A j \in B : j < i => bins[j].space < w[m]
  BY DEF PutAt
<1>6. \A j \in N : j \in Nat
  OBVIOUS
<1> HIDE DEF B, N
<1>7. /\ new[i].space >= 0 /\ SumOf(w, BinMaps(new, i)) \in Int /\ new[i].space \in Int
      /\ new[i].space = share - SumOf(w, BinMaps(new, i))
      /\ i \in B => new[i].space <= bins[i].space
  <2>1. CASE i \in B
    <3> DEFINE E == BinMaps(bins, i)
    <3>1. i <= Len(bins)
      BY <1>0, <2>1 DEF B
    <3>2. /\ bins[i].space >= w[m]
          /\ new[i] = [space |-> bins[i].space - w[m], maps |-> Append(bins[i].maps, m)]
      BY <3>1 DEF PutAt
    <3>3. new[i].space = bins[i].space - w[m]
      BY <3>2
    <3>4. IsFiniteSet(E) /\ m \notin E /\ BinMaps(new, i) = E \cup {m} /\ \A x \in E \cup {m} : w[x] \in Int
      BY <1>1, <1>4, <2>1, FS_Subset DEF B
    <3> HIDE DEF E
    <3>5. SumOf(w, E \cup {m}) = SumOf(w, E) + w[m] /\ SumOf(w, E) \in Int
      BY <3>4, SumOfAdded
    <3>6. bins[i].space = share - SumOf(w, E) /\ bins[i].space \in Int
      BY <1>0, <1>3, <2>1 DEF E, B
    <3> QED
      BY <1>0, <3>2, <3>3, <3>4, <3>5, <3>6
  <2>2. CASE i \notin B
    <3>1. i = Len(bins) + 1
      BY <1>0, <2>2 DEF PutAt, B
    <3>2. new[i] = [space |-> share - w[m], maps |-> <<m>>]
      BY <3>1 DEF PutAt
    <3>3. new[i].space = share - w[m]
      BY <3>2
    <3>4. IsFiniteSet({}) /\ m \notin {} /\ {} \cup {m} = {m} /\ \A x \in {} \cup {m} : w[x] \in Int
      BY FS_EmptySet
    <3>5. SumOf(w, {m}) = SumOf(w, {}) + w[m]
      BY <3>4, SumOfAdded
    <3>6. SumOf(w, {}) = 0
      BY <3>4, SumIs, SumParts
    <3>7. BinMaps(new, i) = {m}
      BY <1>1, <2>2 DEF B
    <3> QED
      BY <1>0, <2>2, <3>3, <3>5, <3>6, <3>7
  <2> QED
    BY <2>1, <2>2
<1>8. ASSUME NEW j \in N
      PROVE  /\ new[j].space >= 0 /\ SumOf(w, BinMaps(new, j)) \in Int
             /\ new[j].space = share - SumOf(w, BinMaps(new, j))
  <2>1. CASE j = i
    BY <1>7, <2>1
  <2>2. CASE j # i
    <3>1. j \in B /\ BinMaps(new, j) = BinMaps(bins, j) /\ new[j].space = bins[j].space
      BY <1>1, <1>2, <2>2 DEF B, N
    <3> QED
      BY <1>3, <3>1
  <2> QED
    BY <2>1, <2>2
<1>9. ASSUME NEW j \in N, NEW k \in N, NEW x \in BinMaps(new, j), k < j PROVE new[k].space < w[x]
  <2>1. j # k /\ w[x] \in Nat
    <3>1. x \in M
      BY <1>1, <1>2, <1>4, <1>9 DEF B, N
    <3> QED
      BY <1>6, <1>9, <3>1
  <2>2. CASE j = i /\ x = m
    <3>1. k \in B /\ new[k].space = bins[k].space
      BY <1>1, <1>2, <2>1, <2>2 DEF B, N
    <3> QED
      BY <1>5, <1>9, <2>2, <3>1
  <2>3. CASE ~(j = i /\ x = m)
    <3>1. j \in B /\ x \in BinMaps(bins, j)
      BY <1>1, <1>2, <1>9, <2>3 DEF B, N
    <3>2. k \in B
      BY <1>0, <1>9, <3>1 DEF B, N
    <3>3. bins[k].space < w[x] /\ bins[k].space \in Int
      BY <1>0, <1>3, <1>9, <3>1, <3>2 DEF B
    <3>4. CASE k = i
      BY <1>7, <2>1, <3>2, <3>3, <3>4
    <3>5. CASE k # i
      BY <1>2, <3>3, <3>5 DEF N
    <3> QED
      BY <3>4, <3>5
  <2> QED
    BY <2>2, <2>3
<1> QED
  BY <1>8, <1>9 DEF Tight, N

\* Bins packs every map of the order once.
LEMMA BinsArePacked ==
  ASSUME NEW M, IsFiniteSet(M), NEW o \in SetToSeqs(M), NEW w \in [M -> Nat], NEW share \in Nat,
         \A m \in M : w[m] <= share
  PROVE  /\ Bins(o, w, share) \in BinsOf(M)
         /\ Packed(Bins(o, w, share), M) /\ Tight(Bins(o, w, share), w, share)
<1>1. o \in Seq(M) /\ OneEach(o) /\ ToSet(o) = M
  BY OrderOfSet
<1> DEFINE n == Len(o)
<1>2. n \in Nat /\ DOMAIN o = 1 .. n /\ \A i \in 1 .. n : o[i] \in M
  BY <1>1
<1> HIDE DEF n
<1>p. PICK h : Fills(h, n, o, w, share)
  BY <1>2, BinsAreFilled
<1>3. /\ h[{}] = <<>>
      /\ \A k \in 0 .. n - 1 : h[1 .. k + 1] = PutInto(h[1 .. k], o[k + 1], w, share)
      /\ Bins(o, w, share) = h[1 .. n]
  BY <1>p DEF Fills
<1> DEFINE Put(k) == {o[i] : i \in 1 .. k}
           Good(k) == h[1 .. k] \in BinsOf(M) /\ Packed(h[1 .. k], Put(k)) /\ Tight(h[1 .. k], w, share)
           T == {k \in Nat : k <= n => Good(k)}
<1>4. 0 \in T
  <2>1. 1 .. 0 = {} /\ h[1 .. 0] = <<>> /\ Put(0) = {}
    BY <1>3
  <2>2. <<>> \in BinsOf(M)
    BY DEF BinsOf
  <2>3. Packed(<<>>, {}) /\ Tight(<<>>, w, share)
    BY DEF Packed, Tight
  <2>4. Good(0)
    BY <2>1, <2>2, <2>3
  <2> QED
    BY <2>4
<1>5. ASSUME NEW k \in Nat, k \in T PROVE k + 1 \in T
  <2> SUFFICES ASSUME k + 1 <= n PROVE Good(k + 1)
    OBVIOUS
  <2>1. k <= n /\ k \in 0 .. n - 1 /\ k + 1 \in 1 .. n
    BY <1>2
  <2>2. Good(k)
    BY <1>5, <2>1
  <2> DEFINE m == o[k + 1]
             bins == h[1 .. k]
             new == h[1 .. k + 1]
  <2>3. new = PutInto(bins, m, w, share)
    BY <1>3, <2>1
  <2>4. m \in M /\ m \notin Put(k) /\ Put(k) \in SUBSET M /\ Put(k + 1) = Put(k) \cup {m}
    <3>1. \A i \in 1 .. k : i \in 1 .. n /\ i # k + 1
      BY <1>2, <2>1
    <3>2. 1 .. k + 1 = (1 .. k) \cup {k + 1}
      OBVIOUS
    <3> QED
      BY <1>1, <1>2, <2>1, <3>1, <3>2 DEF OneEach, n
  <2>5. w[m] \in Int /\ w[m] <= share /\ share \in Int
    BY <2>4
  <2>6. bins \in BinsOf(M) /\ Packed(bins, Put(k)) /\ Tight(bins, w, share)
    BY <2>2
  <2> HIDE DEF m, bins, new, Put
  <2>7. /\ new \in BinsOf(M) /\ \E i : PutAt(i, bins, new, m, w[m], share)
    BY <2>3, <2>4, <2>5, <2>6, PutIntoEffect
  <2>8. PICK i : PutAt(i, bins, new, m, w[m], share)
    BY <2>7
  <2>9. Packed(new, Put(k + 1))
    BY <2>4, <2>5, <2>6, <2>7, <2>8, PutKeepsPacked
  <2>10. Tight(new, w, share)
    BY <2>4, <2>5, <2>6, <2>7, <2>8, PutKeepsTight
  <2> QED
    BY <2>7, <2>9, <2>10 DEF new
<1>6. Nat \subseteq T
  <2> HIDE DEF T
  <2> QED
    BY <1>4, <1>5, InductionOnNat
<1>7. Good(n)
  <2> HIDE DEF Good
  <2> QED
    BY <1>2, <1>6
<1>8. Put(n) = M
  BY <1>1, ElementsOf DEF n
<1> QED
  BY <1>3, <1>7, <1>8

-----------------------------------------------------------------------------
(* Surplus bins.                                                           *)

Together(q, n) == UNION {ToSet(q[i]) : i \in 1 .. n}

\* Sequences without a common element, one after the other.
LEMMA Flattened ==
  ASSUME NEW M, NEW n \in Nat, NEW q \in [1 .. n -> Seq(M)],
         \A i \in 1 .. n : OneEach(q[i]),
         \A i, j \in 1 .. n : i # j => ToSet(q[i]) \cap ToSet(q[j]) = {}
  PROVE  /\ FlattenSeq(q) \in Seq(M) /\ OneEach(FlattenSeq(q))
         /\ ToSet(FlattenSeq(q)) = Together(q, n)
<1>1. Len(q) = n
  OBVIOUS
<1>2. CASE n = 0
  <2>1. FlattenSeq(q) = q /\ q = <<>>
    BY <1>1, <1>2 DEF FlattenSeq
  <2>2. ToSet(<<>>) = {} /\ <<>> \in Seq(M) /\ OneEach(<<>>)
    BY DEF ToSet, OneEach
  <2>3. Together(q, n) = {}
    BY <1>2 DEF Together
  <2> QED
    BY <2>1, <2>2, <2>3
<1>3. CASE n # 0
  <2>1. PICK f : IsFlat(f, q, n) /\ FlattenSeq(q) = f[n]
    <3>1. \E f : IsFlat(f, q, n)
      BY FlatExists
    <3> QED
      BY <1>1, <1>3, <3>1 DEF FlattenSeq, IsFlat
  <2> DEFINE U(k) == UNION {ToSet(q[i]) : i \in 1 .. k}
             Good(k) == f[k] \in Seq(M) /\ OneEach(f[k]) /\ ToSet(f[k]) = U(k)
             T == {k \in Nat : k + 1 <= n => Good(k + 1)}
  <2>2. 0 \in T
    <3>1. f[1] = q[1] /\ 1 \in 1 .. n
      BY <1>3, <2>1 DEF IsFlat
    <3>2. U(1) = ToSet(q[1])
      <4>1. 1 .. 1 = {1}
        OBVIOUS
      <4> QED
        BY <4>1
    <3>3. Good(1) /\ 0 + 1 = 1
      BY <3>1, <3>2
    <3> QED
      BY <3>3
  <2>3. ASSUME NEW k \in Nat, k \in T PROVE k + 1 \in T
    <3> SUFFICES ASSUME (k + 1) + 1 <= n PROVE Good((k + 1) + 1)
      OBVIOUS
    <3> DEFINE a == k + 1
               b == (k + 1) + 1
    <3>1. a \in 1 .. n /\ b \in 1 .. n /\ a = b - 1 /\ b # 1 /\ a <= n /\ b \notin 1 .. a /\ 1 .. b = (1 .. a) \cup {b}
      OBVIOUS
    <3>2. Good(a)
      BY <2>3, <3>1
    <3> HIDE DEF a, b
    <3>3. f[b] = f[a] \o q[b]
      BY <2>1, <3>1 DEF IsFlat
    <3>4. U(b) = U(a) \cup ToSet(q[b])
      BY <3>1
    <3>5. U(a) \cap ToSet(q[b]) = {}
      <4>1. \A i \in 1 .. a : i \in 1 .. n /\ i # b
        BY <3>1
      <4> QED
        BY <3>1, <4>1
    <3>6. /\ f[a] \in Seq(M) /\ OneEach(f[a]) /\ ToSet(f[a]) = U(a)
          /\ q[b] \in Seq(M) /\ OneEach(q[b])
      BY <3>1, <3>2
    <3> HIDE DEF U
    <3>7. Good(b)
      BY <3>3, <3>4, <3>5, <3>6, ElementsJoined
    <3> QED
      BY <3>7 DEF b
  <2>4. Nat \subseteq T
    <3> HIDE DEF T
    <3> QED
      BY <2>2, <2>3, InductionOnNat
  <2>5. Good(n)
    <3>1. n - 1 \in Nat /\ (n - 1) + 1 = n /\ n <= n
      BY <1>3
    <3>2. n - 1 \in T
      BY <2>4, <3>1, Zenon
    <3>3. (n - 1) + 1 <= n => Good((n - 1) + 1)
      BY <3>2
    <3> HIDE DEF Good
    <3> QED
      BY <3>1, <3>3
  <2> QED
    BY <2>1, <2>5 DEF Together
<1> QED
  BY <1>2, <1>3

\* The surplus has the maps of the bins beyond the n-th.
LEMMA SurplusMaps ==
  ASSUME NEW M, NEW bins \in BinsOf(M), NEW S, Packed(bins, S), NEW n \in Nat
  PROVE  /\ Surplus(bins, n) \in Seq(M) /\ OneEach(Surplus(bins, n))
         /\ \A m : m \in ToSet(Surplus(bins, n)) <=> \E i \in 1 .. Len(bins) : i > n /\ m \in BinMaps(bins, i)
<1> DEFINE k == IF Len(bins) > n THEN Len(bins) - n ELSE 0
           q == [i \in 1 .. (Len(bins) - n) |-> bins[n + i].maps]
<1>1. Len(bins) \in Nat /\ \A i \in 1 .. Len(bins) : bins[i].maps \in Seq(M)
  BY BinsParts
<1>2. k \in Nat /\ 1 .. k = 1 .. (Len(bins) - n)
  BY <1>1
<1>3. \A i \in 1 .. k : n + i \in 1 .. Len(bins) /\ n + i > n
  BY <1>1
<1>4. \A j \in 1 .. Len(bins) : j > n => j - n \in 1 .. k /\ n + (j - n) = j
  BY <1>1
<1>5. Surplus(bins, n) = FlattenSeq(q)
  BY DEF Surplus
<1> HIDE DEF k
<1>6. \A i \in 1 .. k : q[i] = bins[n + i].maps /\ ToSet(q[i]) = BinMaps(bins, n + i)
  BY <1>2 DEF BinMaps
<1>7. q \in [1 .. k -> Seq(M)]
  BY <1>1, <1>2, <1>3
<1> HIDE DEF q
<1>8. \A i \in 1 .. k : OneEach(q[i])
  BY <1>3, <1>6 DEF Packed
<1>9. \A i, j \in 1 .. k : i # j => ToSet(q[i]) \cap ToSet(q[j]) = {}
  <2>1. \A i, j \in 1 .. k : i # j => n + i # n + j
    BY <1>2
  <2> QED
    BY <1>3, <1>6, <2>1 DEF Packed
<1>10. /\ FlattenSeq(q) \in Seq(M) /\ OneEach(FlattenSeq(q))
       /\ ToSet(FlattenSeq(q)) = Together(q, k)
  BY <1>2, <1>7, <1>8, <1>9, Flattened
<1>11. ASSUME NEW m
       PROVE  m \in Together(q, k) <=> \E i \in 1 .. Len(bins) : i > n /\ m \in BinMaps(bins, i)
  <2>1. m \in Together(q, k) <=> \E i \in 1 .. k : m \in ToSet(q[i])
    BY Zenon DEF Together
  <2>2. (\E i \in 1 .. k : m \in ToSet(q[i])) => \E i \in 1 .. Len(bins) : i > n /\ m \in BinMaps(bins, i)
    BY <1>3, <1>6
  <2>3. (\E i \in 1 .. Len(bins) : i > n /\ m \in BinMaps(bins, i)) => \E i \in 1 .. k : m \in ToSet(q[i])
    <3> SUFFICES ASSUME NEW j \in 1 .. Len(bins), j > n, m \in BinMaps(bins, j)
                 PROVE  \E i \in 1 .. k : m \in ToSet(q[i])
      OBVIOUS
    <3>1. j - n \in 1 .. k /\ n + (j - n) = j
      BY <1>4
    <3>2. m \in ToSet(q[j - n])
      BY <1>6, <3>1
    <3> QED
      BY <3>1, <3>2
  <2> QED
    BY <2>1, <2>2, <2>3
<1> QED
  BY <1>5, <1>10, <1>11

\* Round robin gives a place to one server.
LEMMA RoundRobin ==
  ASSUME NEW n \in Nat \ {0}, NEW k \in Nat
  PROVE  \E i \in 1 .. n : k % n = i - 1
<1>1. k % n \in 0 .. n - 1
  OBVIOUS
<1>2. (k % n) + 1 \in 1 .. n /\ k % n = ((k % n) + 1) - 1
  BY <1>1
<1> QED
  BY <1>2

\* The maps of the i-th server: of its bin and of its turns.
LEMMA PerServerHas ==
  ASSUME NEW bins, NEW n \in Nat, NEW i \in 1 .. n, NEW m
  PROVE  m \in PerServer(bins, n)[i] <=>
           \/ i <= Len(bins) /\ m \in BinMaps(bins, i)
           \/ \E j \in DOMAIN Surplus(bins, n) : (j - 1) % n = i - 1 /\ m = Surplus(bins, n)[j]
<1> DEFINE su == Surplus(bins, n)
           Own == IF i <= Len(bins) THEN ToSet(bins[i].maps) ELSE {}
           Turns == {su[j] : j \in {k \in DOMAIN su : (k - 1) % n = i - 1}}
<1>1. PerServer(bins, n)[i] = Own \cup Turns
  BY DEF PerServer
<1>2. m \in Own <=> i <= Len(bins) /\ m \in BinMaps(bins, i)
  BY DEF BinMaps
<1>3. m \in Turns <=> \E j \in DOMAIN su : (j - 1) % n = i - 1 /\ m = su[j]
  OBVIOUS
<1> HIDE DEF Own, Turns
<1> QED
  BY <1>1, <1>2, <1>3

SpreadOver(R, n, M) ==
  /\ \A i \in 1 .. n : R[i] \subseteq M
  /\ \A m \in M : \E i \in 1 .. n : m \in R[i]
  /\ \A i, j \in 1 .. n : i # j => R[i] \cap R[j] = {}

LEMMA MapsAreSpread ==
  ASSUME NEW M, NEW bins \in BinsOf(M), Packed(bins, M), NEW n \in Nat \ {0}
  PROVE  SpreadOver(PerServer(bins, n), n, M)
<1> DEFINE su == Surplus(bins, n)
           R == PerServer(bins, n)
           N == 1 .. n
           B == 1 .. Len(bins)
           L == DOMAIN su
           Own(i, m) == i <= Len(bins) /\ m \in BinMaps(bins, i)
           Turn(i, j) == (j - 1) % n = i - 1
<1>1. /\ su \in Seq(M) /\ OneEach(su)
      /\ \A m : m \in ToSet(su) <=> \E i \in B : i > n /\ m \in BinMaps(bins, i)
  BY SurplusMaps
<1>2. /\ L = 1 .. Len(su) /\ Len(su) \in Nat
      /\ \A j \in L : su[j] \in ToSet(su) /\ su[j] \in M
      /\ \A m \in ToSet(su) : \E j \in L : su[j] = m
  BY <1>1, ElementsOf
<1>3. Len(bins) \in Nat
  BY BinsParts
<1>4. \A i \in N, m \in M : m \in R[i] <=> Own(i, m) \/ \E j \in L : Turn(i, j) /\ m = su[j]
  BY PerServerHas
<1>5. \A i \in N : R[i] \subseteq M
  <2> SUFFICES ASSUME NEW i \in N, NEW m \in R[i] PROVE m \in M
    OBVIOUS
  <2>1. Own(i, m) \/ \E j \in L : Turn(i, j) /\ m = su[j]
    BY PerServerHas
  <2>2. CASE Own(i, m)
    BY <1>3, <2>2 DEF Packed
  <2> HIDE DEF Own, Turn, L, su
  <2> QED
    BY <1>2, <2>1, <2>2
<1>6. \A j \in L : \E i \in N : Turn(i, j)
  <2> SUFFICES ASSUME NEW j \in L PROVE \E i \in N : Turn(i, j)
    OBVIOUS
  <2>1. j - 1 \in Nat
    BY <1>2
  <2> QED
    BY <2>1, RoundRobin
<1>7. \A j \in L, i, k \in N : Turn(i, j) /\ Turn(k, j) => i = k
  <2> SUFFICES ASSUME NEW j \in L, NEW i \in N, NEW k \in N, Turn(i, j), Turn(k, j) PROVE i = k
    OBVIOUS
  <2>1. i - 1 = k - 1
    OBVIOUS
  <2> HIDE DEF Turn
  <2> QED
    BY <2>1
<1>8. \A j, k \in L : su[j] = su[k] => j = k
  BY <1>1, <1>2 DEF OneEach
<1>9. /\ \A i \in N, m \in M : Own(i, m) => m \notin ToSet(su)
      /\ \A i, k \in N, m \in M : Own(i, m) /\ Own(k, m) => i = k
      /\ \A m \in M : m \in ToSet(su) \/ \E i \in N : Own(i, m)
  <2>1. \A i \in N : i <= Len(bins) => i \in B
    BY <1>3
  <2>2. \A i \in B : i > n \/ (i \in N /\ i <= Len(bins))
    BY <1>3
  <2>3. \A i \in N, k \in B : k > n => i # k
    OBVIOUS
  <2>4. /\ \A i, j \in B : i # j => BinMaps(bins, i) \cap BinMaps(bins, j) = {}
        /\ \A m \in M : \E i \in B : m \in BinMaps(bins, i)
    BY DEF Packed
  <2> HIDE DEF N, B, su
  <2>5. \A i \in N, m \in M : Own(i, m) => m \notin ToSet(su)
    <3> SUFFICES ASSUME NEW i \in N, NEW m \in M, Own(i, m), m \in ToSet(su) PROVE FALSE
      OBVIOUS
    <3>1. i \in B /\ m \in BinMaps(bins, i)
      BY <2>1
    <3>2. PICK k \in B : k > n /\ m \in BinMaps(bins, k)
      BY <1>1
    <3>3. i # k
      BY <2>3, <3>2
    <3> QED
      BY <2>4, <3>1, <3>2, <3>3
  <2>6. \A i, k \in N, m \in M : Own(i, m) /\ Own(k, m) => i = k
    BY <2>1, <2>4
  <2>7. \A m \in M : m \in ToSet(su) \/ \E i \in N : Own(i, m)
    BY <1>1, <2>2, <2>4
  <2> QED
    BY <2>5, <2>6, <2>7
<1> HIDE DEF su, R, N, B, L, Own, Turn
<1>10. ASSUME NEW m \in M PROVE \E i \in N : m \in R[i]
  <2>1. CASE m \in ToSet(su)
    <3>1. PICK j \in L : su[j] = m
      BY <1>2, <2>1
    <3>2. PICK i \in N : Turn(i, j)
      BY <1>6
    <3> QED
      BY <1>4, <3>1, <3>2
  <2> QED
    BY <1>4, <1>9, <2>1
<1>11. ASSUME NEW i \in N, NEW k \in N, i # k, NEW m \in M, m \in R[i], m \in R[k] PROVE FALSE
  <2>1. Own(i, m) \/ \E j \in L : Turn(i, j) /\ m = su[j]
    BY <1>4, <1>11
  <2>2. Own(k, m) \/ \E j \in L : Turn(k, j) /\ m = su[j]
    BY <1>4, <1>11
  <2>3. \A j \in L : m = su[j] => m \in ToSet(su)
    BY <1>2
  <2> QED
    BY <1>7, <1>8, <1>9, <1>11, <2>1, <2>2, <2>3
<1>12. \A i, k \in N : i # k => R[i] \cap R[k] = {}
  BY <1>5, <1>11
<1> QED
  BY <1>5, <1>10, <1>12 DEF SpreadOver, R, N

FirstBins(bins, k) == UNION {BinMaps(bins, i) : i \in 1 .. k}

\* Bins with less room than v are filled well.
LEMMA FirstBinsAreFull ==
  ASSUME NEW M, IsFiniteSet(M), NEW bins \in BinsOf(M), Packed(bins, M),
         NEW w \in [M -> Nat], NEW share \in Nat, Tight(bins, w, share),
         NEW n \in Nat, n <= Len(bins), NEW v \in Nat, \A i \in 1 .. n : bins[i].space < v
  PROVE  /\ FirstBins(bins, n) \in SUBSET M /\ SumOf(w, FirstBins(bins, n)) \in Int
         /\ SumOf(w, FirstBins(bins, n)) >= n * (share - v + 1)
<1> DEFINE U(k) == FirstBins(bins, k)
           Good(k) == U(k) \in SUBSET M /\ SumOf(w, U(k)) \in Int /\ SumOf(w, U(k)) >= k * (share - v + 1)
           T == {k \in Nat : k <= n => Good(k)}
<1>0. Len(bins) \in Nat /\ \A i \in 1 .. Len(bins) : bins[i].space \in Int
  BY BinsParts
<1>1. 0 \in T
  <2>1. U(0) = {}
    BY DEF FirstBins
  <2>2. SumOf(w, {}) = 0
    BY FS_EmptySet, SumIs, SumParts
  <2>3. U(0) \in SUBSET M /\ SumOf(w, U(0)) = 0
    BY <2>1, <2>2
  <2> HIDE DEF U
  <2>4. SumOf(w, U(0)) \in Int /\ SumOf(w, U(0)) >= 0 * (share - v + 1)
    BY <2>3
  <2>5. Good(0)
    BY <2>3, <2>4
  <2> QED
    BY <2>5
<1>2. ASSUME NEW k \in Nat, k \in T PROVE k + 1 \in T
  <2> SUFFICES ASSUME k + 1 <= n PROVE Good(k + 1)
    OBVIOUS
  <2> DEFINE c == k + 1
  <2>1. /\ c \in 1 .. Len(bins) /\ c \in 1 .. n /\ k <= n /\ 1 .. c = (1 .. k) \cup {c}
        /\ \A i \in 1 .. k : i \in 1 .. Len(bins) /\ i # c
    BY <1>0
  <2>2. Good(k)
    BY <1>2, <2>1
  <2> DEFINE A == U(k)
             E == BinMaps(bins, c)
  <2> HIDE DEF c
  <2>3. U(c) = A \cup E
    BY <2>1 DEF FirstBins
  <2>4. A \cap E = {}
    BY <2>1 DEF FirstBins, Packed
  <2>5. A \in SUBSET M /\ E \in SUBSET M
    BY <2>1, <2>2 DEF Packed
  <2>6. /\ SumOf(w, E) \in Int /\ bins[c].space = share - SumOf(w, E)
        /\ bins[c].space < v /\ bins[c].space \in Int
    BY <1>0, <2>1 DEF Tight
  <2>7. SumOf(w, A) \in Int /\ SumOf(w, A) >= k * (share - v + 1)
    BY <2>2
  <2> HIDE DEF A, E
  <2>8. SumOf(w, A \cup E) = SumOf(w, A) + SumOf(w, E)
    <3>1. IsFiniteSet(A) /\ IsFiniteSet(E) /\ \A x \in A \cup E : w[x] \in Int
      BY <2>5, FS_Subset
    <3> QED
      BY <2>4, <3>1, SumOfUnion
  <2>9. SumOf(w, E) >= share - v + 1
    BY <2>6
  <2>10. c * (share - v + 1) = k * (share - v + 1) + (share - v + 1)
    BY DEF c
  <2>11. k * (share - v + 1) \in Int
    OBVIOUS
  <2>12. SumOf(w, A \cup E) \in Int /\ SumOf(w, A \cup E) >= c * (share - v + 1)
    BY <2>6, <2>7, <2>8, <2>9, <2>10, <2>11
  <2> QED
    BY <2>3, <2>5, <2>12 DEF c
<1>3. Nat \subseteq T
  <2> HIDE DEF T
  <2> QED
    BY <1>1, <1>2, InductionOnNat
<1>4. Good(n)
  <2> HIDE DEF Good
  <2> QED
    BY <1>3
<1> QED
  BY <1>4

LEMMA LightestOf ==
  ASSUME NEW M, NEW w \in [M -> Nat], NEW S \in SUBSET M, S # {}
  PROVE  \E m \in S : \A x \in S : w[m] <= w[x]
<1> DEFINE T == {w[x] : x \in S}
<1>1. T \subseteq Nat /\ T # {}
  OBVIOUS
<1>2. PICK v \in T : \A u \in T : v <= u
  <2> HIDE DEF T
  <2> QED
    BY <1>1, LeastOf
<1> QED
  BY <1>2

\* Fewer surplus maps than servers: all of them are heavier than the room any
\* server has left, and in all there is room.
LEMMA SurplusIsSmall ==
  ASSUME NEW M, IsFiniteSet(M), NEW bins \in BinsOf(M), Packed(bins, M),
         NEW w \in [M -> Nat], NEW share \in Nat, Tight(bins, w, share),
         NEW n \in Nat \ {0}, SumOf(w, M) <= n * share
  PROVE  Len(Surplus(bins, n)) < n
<1> DEFINE su == Surplus(bins, n)
           S == ToSet(su)
           F == FirstBins(bins, n)
<1>1. /\ su \in Seq(M) /\ OneEach(su)
      /\ \A m : m \in S <=> \E i \in 1 .. Len(bins) : i > n /\ m \in BinMaps(bins, i)
  BY SurplusMaps
<1>2. Len(su) \in Nat /\ S \in SUBSET M /\ IsFiniteSet(S) /\ Cardinality(S) = Len(su)
  BY <1>1, ElementsOf, ElementsCounted
<1>3. Len(bins) \in Nat /\ \A i \in 1 .. Len(bins) : bins[i].space \in Int
  BY BinsParts
<1> SUFFICES ASSUME Len(su) >= n PROVE FALSE
  BY <1>2
<1>4. S # {}
  <2>1. 1 \in 1 .. Len(su)
    BY <1>2
  <2> QED
    BY <1>1, <2>1, ElementsOf
<1> HIDE DEF S
<1>5. PICK m \in S : \A x \in S : w[m] <= w[x]
  BY <1>2, <1>4, LightestOf
<1> DEFINE v == w[m]
<1>6. v \in Nat /\ \A x \in S : w[x] \in Int /\ w[x] >= v
  BY <1>2, <1>5
<1>7. PICK b \in 1 .. Len(bins) : b > n /\ m \in BinMaps(bins, b)
  BY <1>1, <1>5
<1>8. n <= Len(bins) /\ \A i \in 1 .. n : i \in 1 .. Len(bins) /\ i < b
  BY <1>3, <1>7
<1>9. \A i \in 1 .. n : bins[i].space < v
  BY <1>7, <1>8 DEF Tight
<1> HIDE DEF v
<1>10. F \in SUBSET M /\ SumOf(w, F) \in Int /\ SumOf(w, F) >= n * (share - v + 1)
  BY <1>6, <1>8, <1>9, FirstBinsAreFull
<1>11. SumOf(w, S) \in Int /\ SumOf(w, S) >= v * Len(su)
  <2>1. IsFiniteSet(S) /\ v \in Int
    BY <1>2, <1>6
  <2>2. SumOf(w, S) \in Int /\ SumOf(w, S) >= v * Cardinality(S)
    BY <1>6, <2>1, SumIsAtLeast
  <2> QED
    BY <1>2, <2>2
<1>12. F \cap S = {} /\ F \cup S = M
  <2>1. \A i \in 1 .. n, j \in 1 .. Len(bins) : j > n => i # j
    OBVIOUS
  <2>2. \A i \in 1 .. Len(bins) : i > n \/ i \in 1 .. n
    BY <1>3
  <2>3. F \cap S = {}
    <3> SUFFICES ASSUME NEW x \in F, x \in S PROVE FALSE
      OBVIOUS
    <3>1. PICK i \in 1 .. n : x \in BinMaps(bins, i)
      BY DEF FirstBins
    <3>2. PICK j \in 1 .. Len(bins) : j > n /\ x \in BinMaps(bins, j)
      BY <1>1
    <3>3. i \in 1 .. Len(bins) /\ i # j
      BY <1>8, <2>1, <3>2
    <3> QED
      BY <3>1, <3>2, <3>3 DEF Packed
  <2>4. M \subseteq F \cup S
    <3> SUFFICES ASSUME NEW x \in M PROVE x \in F \cup S
      OBVIOUS
    <3>1. PICK i \in 1 .. Len(bins) : x \in BinMaps(bins, i)
      BY DEF Packed
    <3> QED
      BY <1>1, <2>2, <3>1 DEF FirstBins
  <2> QED
    BY <1>2, <1>10, <2>3, <2>4
<1> HIDE DEF F
<1>13. SumOf(w, M) = SumOf(w, F) + SumOf(w, S)
  <2>1. IsFiniteSet(F) /\ \A x \in F \cup S : w[x] \in Int
    BY <1>2, <1>10, FS_Subset
  <2> QED
    BY <1>2, <1>12, <2>1, SumOfUnion
<1> HIDE DEF su
<1>14. v * Len(su) >= v * n
  BY <1>2, <1>6
<1>15. n * (share - v + 1) = n * share - v * n + n
  BY <1>6
<1>16. n * share \in Int /\ v * n \in Int /\ v * Len(su) \in Int
  BY <1>2, <1>6
<1> QED
  BY <1>10, <1>11, <1>13, <1>14, <1>15, <1>16

\* A server has its bin and at most one more map.
LEMMA LoadIsBounded ==
  ASSUME NEW M, IsFiniteSet(M), NEW bins \in BinsOf(M), Packed(bins, M),
         NEW w \in [M -> Nat], NEW share \in Nat, Tight(bins, w, share), \A m \in M : w[m] <= share,
         NEW n \in Nat \ {0}, SumOf(w, M) <= n * share, NEW i \in 1 .. n
  PROVE  SumOf(w, PerServer(bins, n)[i]) <= 2 * share
<1> DEFINE su == Surplus(bins, n)
           R == PerServer(bins, n)[i]
           E == IF i <= Len(bins) THEN BinMaps(bins, i) ELSE {}
<1>1. /\ su \in Seq(M)
      /\ \A m : m \in ToSet(su) <=> \E j \in 1 .. Len(bins) : j > n /\ m \in BinMaps(bins, j)
  BY SurplusMaps
<1>2. /\ DOMAIN su = 1 .. Len(su) /\ Len(su) \in Nat /\ Len(su) < n
      /\ \A j \in 1 .. Len(su) : su[j] \in ToSet(su) /\ su[j] \in M
  BY <1>1, ElementsOf, SurplusIsSmall
<1>3. Len(bins) \in Nat /\ \A j \in 1 .. Len(bins) : bins[j].space \in Int
  BY BinsParts
<1>4. E \in SUBSET M /\ SumOf(w, E) \in Int /\ SumOf(w, E) <= share
  <2>1. CASE i <= Len(bins)
    <3>1. i \in 1 .. Len(bins) /\ E = BinMaps(bins, i)
      BY <1>3, <2>1
    <3>2. /\ bins[i].space >= 0 /\ SumOf(w, BinMaps(bins, i)) \in Int
          /\ bins[i].space = share - SumOf(w, BinMaps(bins, i))
          /\ BinMaps(bins, i) \subseteq M
      BY <3>1 DEF Tight, Packed
    <3>3. E \in SUBSET M
      BY <3>1, <3>2
    <3>4. SumOf(w, BinMaps(bins, i)) <= share
      BY <3>2
    <3> HIDE DEF E
    <3> QED
      BY <3>1, <3>2, <3>3, <3>4
  <2>2. CASE ~(i <= Len(bins))
    <3>1. E = {}
      BY <2>2
    <3>2. SumOf(w, {}) = 0
      BY FS_EmptySet, SumIs, SumParts
    <3> HIDE DEF E
    <3> QED
      BY <3>1, <3>2
  <2> QED
    BY <2>1, <2>2
<1>5. \A j \in DOMAIN su : (j - 1) % n = i - 1 <=> j = i
  <2> SUFFICES ASSUME NEW j \in 1 .. Len(su) PROVE (j - 1) % n = i - 1 <=> j = i
    BY <1>2
  <2>1. j - 1 \in 0 .. n - 1
    BY <1>2
  <2>2. \A k \in 0 .. n - 1 : k % n = k
    OBVIOUS
  <2>3. (j - 1) % n = j - 1
    BY <2>1, <2>2
  <2>4. j \in Int /\ i \in Int
    OBVIOUS
  <2> QED
    BY <2>3, <2>4
<1>6. \A m : m \in R <=> m \in E \/ \E j \in DOMAIN su : j = i /\ m = su[j]
  <2> TAKE m
  <2>1. m \in R <=> \/ i <= Len(bins) /\ m \in BinMaps(bins, i)
                    \/ \E j \in DOMAIN su : (j - 1) % n = i - 1 /\ m = su[j]
    BY PerServerHas
  <2>2. m \in E <=> i <= Len(bins) /\ m \in BinMaps(bins, i)
    OBVIOUS
  <2> HIDE DEF E, R, su
  <2> QED
    BY <1>5, <2>1, <2>2
<1>7. CASE i \notin DOMAIN su
  <2>1. R = E
    <3> HIDE DEF E, R, su
    <3> QED
      BY <1>6, <1>7
  <2>2. share <= 2 * share
    OBVIOUS
  <2> HIDE DEF E, R
  <2> QED
    BY <1>4, <2>1, <2>2 DEF R
<1>8. CASE i \in DOMAIN su
  <2> DEFINE x == su[i]
  <2>1. R = E \cup {x}
    <3> HIDE DEF E, R, su
    <3> QED
      BY <1>6, <1>8
  <2>2. x \in ToSet(su) /\ x \in M /\ w[x] \in Nat /\ w[x] <= share
    BY <1>2, <1>8
  <2>3. x \notin E
    <3>1. PICK j \in 1 .. Len(bins) : j > n /\ x \in BinMaps(bins, j)
      BY <1>1, <2>2
    <3>2. i # j /\ (i <= Len(bins) => i \in 1 .. Len(bins))
      BY <1>3, <3>1
    <3> QED
      BY <3>1, <3>2 DEF Packed
  <2> HIDE DEF E, x
  <2>4. SumOf(w, E \cup {x}) = SumOf(w, E) + w[x]
    <3>1. IsFiniteSet(E) /\ \A y \in E \cup {x} : w[y] \in Int
      BY <1>4, <2>2, FS_Subset
    <3> QED
      BY <2>3, <3>1, SumOfAdded
  <2>5. SumOf(w, E) + w[x] <= 2 * share
    BY <1>4, <2>2
  <2> HIDE DEF R
  <2> QED
    BY <2>1, <2>4, <2>5 DEF R
<1> QED
  BY <1>7, <1>8

-----------------------------------------------------------------------------
(* Distributions.                                                          *)

LEMMA ShareIsEnough ==
  ASSUME NEW a \in Nat, NEW n \in Nat \ {0}
  PROVE  (a + n - 1) \div n \in Nat /\ a <= n * ((a + n - 1) \div n)
<1> DEFINE b == a + n - 1
<1>1. b \in Nat
  OBVIOUS
<1>2. b \div n \in Nat /\ b % n \in 0 .. n - 1 /\ b = n * (b \div n) + (b % n)
  BY <1>1
<1>3. n * (b \div n) \in Int
  BY <1>2
<1> QED
  BY <1>2, <1>3

LEMMA PackingsAreFair ==
  ASSUME NEW M, IsFiniteSet(M), NEW w \in [M -> Nat], NEW n \in Nat \ {0}, NEW R \in Packings(w, n)
  PROVE  /\ SpreadOver(R, n, M)
         /\ \A i \in 1 .. n : Load(R[i], Clamped(w, n)) <= 2 * WeightPerServer(w, n)
<1> DEFINE share == WeightPerServer(w, n)
           c == Clamped(w, n)
<1>1. SumOf(w, M) \in Nat
  <2>1. SumOf(w, M) \in Int /\ SumOf(w, M) >= 0 * Cardinality(M)
    BY SumIsAtLeast
  <2>2. Cardinality(M) \in Nat
    BY FS_CardinalityType
  <2>3. 0 * Cardinality(M) = 0
    BY <2>2
  <2> QED
    BY <2>1, <2>3
<1>2. share = (SumOf(w, M) + n - 1) \div n
  BY DEF WeightPerServer, Load, SumOf
<1>3. share \in Nat /\ SumOf(w, M) <= n * share
  BY <1>1, <1>2, ShareIsEnough
<1>4. c = [m \in M |-> IF w[m] > share THEN share ELSE w[m]]
  BY DEF Clamped
<1> HIDE DEF share, c
<1>5. c \in [M -> Nat] /\ \A m \in M : c[m] <= share /\ c[m] <= w[m]
  <2>1. ASSUME NEW m \in M PROVE c[m] \in Nat /\ c[m] <= share /\ c[m] <= w[m]
    BY <1>3, <1>4
  <2> QED
    BY <1>4, <2>1
<1>6. SumOf(c, M) \in Int /\ SumOf(c, M) <= SumOf(w, M)
  BY <1>5, SumIsMonotonic
<1>7. SumOf(c, M) <= n * share
  <2>1. n * share \in Int
    BY <1>3
  <2> QED
    BY <1>1, <1>3, <1>6, <2>1
<1>8. PICK o \in SetToSeqs(DOMAIN c) : R = PerServer(Bins(o, c, share), n)
  BY DEF Packings, Orders, share, c
<1> DEFINE bins == Bins(o, c, share)
<1>9. o \in SetToSeqs(M)
  BY <1>5, <1>8
<1>10. bins \in BinsOf(M) /\ Packed(bins, M) /\ Tight(bins, c, share)
  BY <1>3, <1>5, <1>9, BinsArePacked
<1> HIDE DEF bins
<1>11. SpreadOver(PerServer(bins, n), n, M)
  BY <1>10, MapsAreSpread
<1>12. \A i \in 1 .. n : SumOf(c, PerServer(bins, n)[i]) <= 2 * share
  BY <1>3, <1>5, <1>7, <1>10, LoadIsBounded
<1>13. \A r : Load(r, c) = SumOf(c, r)
  BY DEF Load, SumOf
<1> QED
  BY <1>8, <1>11, <1>12, <1>13 DEF bins, share, c

AnyMap(servers, own) == {s \in servers : own[s] = {}}
Unclaimed(servers, own, w) ==
  DOMAIN w \ UNION {own[s] : s \in servers \ AnyMap(servers, own)}

\* Each unclaimed map is on one of the servers that can take any; the others
\* have their own.
FairlyDistributed(d, servers, own, w) ==
  LET free == AnyMap(servers, own)
      rest == Unclaimed(servers, own, w)
      wr   == [m \in rest |-> w[m]]
      n    == Cardinality(free)
  IN  /\ DOMAIN d = servers
      /\ \A s \in servers \ free : d[s] = own[s]
      /\ \A s \in free : d[s] \subseteq rest
      /\ free # {} => /\ \A m \in rest : \E s \in free : m \in d[s]
                      /\ \A s, t \in free : s # t => d[s] \cap d[t] = {}
                      /\ \A s \in free : Load(d[s], Clamped(wr, n)) <= 2 * WeightPerServer(wr, n)

LEMMA DistributionIsFair ==
  ASSUME NEW servers, IsFiniteSet(servers), NEW own, NEW M, IsFiniteSet(M),
         NEW w \in [M -> Nat], NEW d \in Distributions(servers, own, w)
  PROVE  FairlyDistributed(d, servers, own, w)
<1> DEFINE fixed == {s \in servers : own[s] # {}}
           rest == DOMAIN w \ UNION {own[s] : s \in fixed}
           free == servers \ fixed
           wr   == [m \in rest |-> w[m]]
           n    == Cardinality(free)
           packings == IF n = 0 THEN {<<>>} ELSE Packings(wr, n)
<1>1. fixed = servers \ free /\ free = AnyMap(servers, own)
  BY DEF AnyMap
<1>2. rest = Unclaimed(servers, own, w)
  BY <1>1 DEF Unclaimed
<1> DEFINE Given(packing, list) ==
             [s \in servers |-> IF s \in fixed THEN own[s]
                                ELSE packing[CHOOSE i \in 1 .. n : list[i] = s]]
<1>3. PICK R \in packings, list \in SetToSeqs(free) : d = Given(R, list)
  <2>1. Distributions(servers, own, w) =
          {Given(packing, list) : packing \in packings, list \in SetToSeqs(free)}
    BY DEF Distributions
  <2> HIDE DEF fixed, free, n, packings, Given
  <2> QED
    BY <2>1
<1>4. DOMAIN d = servers /\ \A s \in servers \ free : d[s] = own[s]
  BY <1>1, <1>3
<1>5. IsFiniteSet(free) /\ n \in Nat /\ (n = 0 <=> free = {})
  BY FS_Subset, FS_CardinalityType, FS_EmptySet
<1>6. rest \in SUBSET M /\ IsFiniteSet(rest) /\ wr \in [rest -> Nat]
  BY FS_Subset
<1>7. /\ Len(list) = n /\ OneEach(list)
      /\ \A s \in free : \E i \in 1 .. n : list[i] = s
      /\ \A i \in 1 .. n : list[i] \in free
  <2>1. list \in Seq(free) /\ Len(list) = n /\ OneEach(list) /\ ToSet(list) = free
    BY <1>5, OrderOfSet
  <2> HIDE DEF free, n
  <2> QED
    BY <2>1, ElementsOf
<1> DEFINE Place(s) == CHOOSE i \in 1 .. n : list[i] = s
<1>8. \A s \in free : Place(s) \in 1 .. n /\ list[Place(s)] = s
  BY <1>7
<1>9. \A i \in 1 .. n : Place(list[i]) = i
  BY <1>7, <1>8 DEF OneEach
<1>10. \A s \in free : d[s] = R[Place(s)]
  BY <1>1, <1>3
<1>11. CASE free = {}
  BY <1>1, <1>4, <1>11 DEF FairlyDistributed
<1>12. CASE free # {}
  <2>1. R \in Packings(wr, n) /\ n \in Nat \ {0}
    BY <1>3, <1>5, <1>12
  <2> HIDE DEF fixed, free, rest, wr, n, packings
  <2>2. /\ SpreadOver(R, n, rest)
        /\ \A i \in 1 .. n : Load(R[i], Clamped(wr, n)) <= 2 * WeightPerServer(wr, n)
    BY <1>6, <2>1, PackingsAreFair
  <2> HIDE DEF Place
  <2>3. \A s \in free : d[s] \subseteq rest /\ Load(d[s], Clamped(wr, n)) <= 2 * WeightPerServer(wr, n)
    BY <1>8, <1>10, <2>2 DEF SpreadOver
  <2>4. \A m \in rest : \E s \in free : m \in d[s]
    <3> SUFFICES ASSUME NEW m \in rest PROVE \E s \in free : m \in d[s]
      OBVIOUS
    <3>1. PICK i \in 1 .. n : m \in R[i]
      BY <2>2 DEF SpreadOver
    <3> QED
      BY <1>7, <1>9, <1>10, <3>1
  <2>5. \A s, t \in free : s # t => d[s] \cap d[t] = {}
    BY <1>8, <1>10, <2>2 DEF SpreadOver
  <2> QED
    BY <1>1, <1>2, <1>4, <2>3, <2>4, <2>5 DEF FairlyDistributed, wr, n
<1> QED
  BY <1>11, <1>12

\* What a distribution of the balancer's run has to be.
BalanceInv ==
  /\ weights \in [BalancedMaps -> Nat]
  /\ IsFiniteSet(DOMAIN available)
  /\ Done => FairlyDistributed(result, DOMAIN available, available, weights)

LEMMA BalanceStart == BalanceInit => BalanceInv
<1> SUFFICES ASSUME BalanceInit PROVE BalanceInv
  OBVIOUS
<1>1. weights \in [BalancedMaps -> Nat] /\ ~Done
  BY BalancingAssumption DEF BalanceInit, Done
<1>2. PICK S \in SUBSET BalancedServers : available \in [S -> SUBSET BalancedMaps]
  BY DEF BalanceInit
<1>3. IsFiniteSet(S) /\ DOMAIN available = S
  BY <1>2, BalancingAssumption, FS_Subset
<1> QED
  BY <1>1, <1>3 DEF BalanceInv

LEMMA BalanceStep == BalanceInv /\ [Distribute]_inputVars => BalanceInv'
<1> SUFFICES ASSUME BalanceInv, [Distribute]_inputVars PROVE BalanceInv'
  OBVIOUS
<1>1. CASE Distribute
  <2>1. /\ result' \in Distributions(DOMAIN available, available, weights)
        /\ weights' = weights /\ available' = available
    BY <1>1 DEF Distribute
  <2>2. FairlyDistributed(result', DOMAIN available, available, weights)
    BY <2>1, BalancingAssumption, DistributionIsFair DEF BalanceInv
  <2> QED
    BY <2>1, <2>2 DEF BalanceInv
<1>2. CASE UNCHANGED inputVars
  BY <1>2 DEF inputVars, BalanceInv, Done
<1> QED
  BY <1>1, <1>2

LEMMA FreeAndClaimed ==
  ASSUME BalanceInv
  PROVE  /\ Free = AnyMap(DOMAIN available, available)
         /\ BalancedMaps \ Claimed = Unclaimed(DOMAIN available, available, weights)
<1>1. Free = AnyMap(DOMAIN available, available)
  BY DEF Free, AnyMap
<1>2. Claimed = UNION {available[s] : s \in DOMAIN available \ AnyMap(DOMAIN available, available)}
  BY DEF Claimed, AnyMap
<1>3. DOMAIN weights = BalancedMaps
  BY DEF BalanceInv
<1> QED
  BY <1>1, <1>2, <1>3 DEF Unclaimed

\* Distribute (distributor.go): for any number of maps and servers, any weights
\* and any maps the servers claim, in whatever order maps of equal weight and
\* servers come, each unclaimed map is on exactly one server that can take any.
THEOREM EachMapIsPlacedOnce == BalanceSpec => []EveryMapOnce
<1>1. BalanceInv => EveryMapOnce
  <2> SUFFICES ASSUME BalanceInv, Done, Free # {}
               PROVE  /\ \A m \in BalancedMaps \ Claimed : Cardinality({s \in Free : m \in result[s]}) = 1
                      /\ \A s \in Free : result[s] \subseteq BalancedMaps \ Claimed
    BY DEF EveryMapOnce
  <2>1. /\ \A s \in Free : result[s] \subseteq BalancedMaps \ Claimed
        /\ \A m \in BalancedMaps \ Claimed : \E s \in Free : m \in result[s]
        /\ \A s, t \in Free : s # t => result[s] \cap result[t] = {}
    BY FreeAndClaimed DEF BalanceInv, FairlyDistributed
  <2>2. ASSUME NEW m \in BalancedMaps \ Claimed PROVE Cardinality({s \in Free : m \in result[s]}) = 1
    <3>1. PICK s \in Free : m \in result[s]
      BY <2>1
    <3>2. {t \in Free : m \in result[t]} = {s}
      BY <2>1, <3>1
    <3> QED
      BY <3>2, FS_Singleton
  <2> QED
    BY <2>1, <2>2
<1> QED
  BY <1>1, BalanceStart, BalanceStep, PTL DEF BalanceSpec

\* greedyBinPackBalancer: no server gets more than twice its share, for any
\* weights: the bins beyond the last server hold fewer maps than there are
\* servers, so spreading them round robin costs a server one map at most.
THEOREM NobodyIsOverloaded == BalanceSpec => []NobodyGetsTwiceTheShare
<1>1. BalanceInv => NobodyGetsTwiceTheShare
  <2> SUFFICES ASSUME BalanceInv, Done, Free # {}
               PROVE  LET w == [m \in BalancedMaps \ Claimed |-> weights[m]]
                          n == Cardinality(Free)
                      IN  \A s \in Free : Load(result[s], Clamped(w, n)) <= 2 * WeightPerServer(w, n)
    BY DEF NobodyGetsTwiceTheShare
  <2> QED
    BY FreeAndClaimed DEF BalanceInv, FairlyDistributed
<1> QED
  BY <1>1, BalanceStart, BalanceStep, PTL DEF BalanceSpec

-----------------------------------------------------------------------------
(* Every map is assigned, when operations do not overlap, fail or are lost. *)

Covered(st, S) ==
  (\E s \in S : Available[s] = {}) =>
    \A m \in Maps :
      LET holders == {s \in S : m \in st[s].assigned}
      IN  /\ holders # {}
          /\ (\A s \in S : m \notin Available[s]) => Cardinality(holders) = 1

Unbroken == failures = 0 /\ restarts = 0

\* The maps are covered until the one operation in progress changes a server's
\* record; then it spreads them anew, and what it has written is what it is
\* going to announce.
CoverInv(p) == LET o == op[p] IN
  /\ failures \in Nat /\ restarts \in Nat
  /\ Unbroken =>
       /\ ~(o.kind \in Distributing /\ o.pc \in {"list", "write"}) => Covered(store, index)
       /\ o.kind \in WritingBack => o.value.assigned = store[o.server].assigned
       /\ o.kind \in Distributing /\ o.pc = "write" =>
            /\ FairlyDistributed(o.new, index, Available, Weights)
            /\ \A s \in index \ o.todo : store[s].assigned = o.new[s]

LEMMA FairIsCovered ==
  ASSUME NEW S \in SUBSET Servers, NEW d, FairlyDistributed(d, S, Available, Weights),
         NEW st, \A s \in S : st[s].assigned = d[s]
  PROVE  Covered(st, S)
<1> DEFINE free == AnyMap(S, Available)
           rest == Unclaimed(S, Available, Weights)
<1> SUFFICES ASSUME \E s \in S : Available[s] = {}, NEW m \in Maps
             PROVE  LET holders == {s \in S : m \in st[s].assigned}
                    IN  /\ holders # {}
                        /\ (\A s \in S : m \notin Available[s]) => Cardinality(holders) = 1
  BY DEF Covered
<1>1. free # {} /\ free \subseteq S /\ (\A s \in free : Available[s] = {})
  BY DEF AnyMap
<1>2. /\ \A s \in S \ free : d[s] = Available[s]
      /\ \A x \in rest : \E s \in free : x \in d[s]
      /\ \A s, t \in free : s # t => d[s] \cap d[t] = {}
  BY <1>1 DEF FairlyDistributed
<1>3. m \in rest \/ \E s \in S \ free : m \in Available[s]
  BY RegistryAssumption DEF Unclaimed
<1> DEFINE holders == {s \in S : m \in st[s].assigned}
<1>4. holders = {s \in S : m \in d[s]}
  OBVIOUS
<1> HIDE DEF free, rest
<1>5. holders # {}
  BY <1>1, <1>2, <1>3
<1>6. ASSUME \A s \in S : m \notin Available[s] PROVE Cardinality(holders) = 1
  <2>1. PICK s \in free : m \in d[s]
    BY <1>2, <1>3, <1>6
  <2>2. holders = {s}
    BY <1>1, <1>2, <1>4, <1>6, <2>1
  <2> QED
    BY <2>2, FS_Singleton
<1> QED
  BY <1>5, <1>6

\* Records whose assigned maps stay as they are.
LEMMA SameIsCovered ==
  ASSUME NEW S, NEW st, NEW su, Covered(st, S), \A s \in S : su[s].assigned = st[s].assigned
  PROVE  Covered(su, S)
<1>1. \A m : {s \in S : m \in su[s].assigned} = {s \in S : m \in st[s].assigned}
  OBVIOUS
<1> QED
  BY <1>1 DEF Covered

LEMMA CoverProceed ==
  ASSUME NEW p, Procs = {p}, ShapeInv, ListsAgree(p), ListsAgree(p)', CoverInv(p), Proceed(p)
  PROVE  CoverInv(p)'
<1> USE DEF ShapeInv, redisVars, listVars, gsVars, boundVars, Distributing, WritingBack
<1>0. failures' = failures /\ restarts' = restarts
  BY DEF Proceed, RegisterAdd, RegisterUpsert, UnhealthyRemove, List, Write, Announce, MapsLoadedWrite, MetricsWrite
<1> SUFFICES ASSUME Unbroken PROVE CoverInv(p)'
  BY <1>0 DEF CoverInv, Unbroken
<1>n. failures' \in Nat /\ restarts' \in Nat
  BY <1>0 DEF CoverInv
<1>c. ~(op[p].kind \in Distributing /\ op[p].pc \in {"list", "write"}) => Covered(store, index)
  BY DEF CoverInv
<1>1. CASE RegisterAdd(p)
  <2>1. op[p].kind = "register" /\ op[p].pc = "add"
    BY <1>1 DEF RegisterAdd, At
  <2>2. op'[p].kind = "register" /\ op'[p].pc = "upsert"
    BY <1>1, <2>1, GotoKeeps DEF RegisterAdd
  <2>3. store' = store /\ index' = index
    BY <1>1 DEF RegisterAdd
  <2> QED
    BY <1>n, <1>c, <2>1, <2>2, <2>3 DEF CoverInv
<1>2. CASE RegisterUpsert(p)
  <2>1. op'[p].kind = "register" /\ op'[p].pc = "list"
    BY <1>2, GotoKeeps DEF RegisterUpsert, At
  <2> QED
    BY <1>n, <2>1 DEF CoverInv
<1>3. CASE UnhealthyRemove(p)
  <2>1. op'[p].kind = "unhealthy" /\ op'[p].pc = "list"
    BY <1>3, GotoKeeps DEF UnhealthyRemove, At
  <2> QED
    BY <1>n, <2>1 DEF CoverInv
<1>4. CASE List(p)
  <2>1. Listed = index /\ index \in SUBSET Servers
    BY DEF ListsAgree, Listed
  <2>2. PICK d \in Distributions(index, Available, Weights) :
          op' = [op EXCEPT ![p] = [kind |-> @.kind, server |-> @.server, pc |-> "write",
                                before |-> [s \in Listed |-> store[s]], new |-> d, todo |-> Listed]]
    BY <1>4, <2>1 DEF List
  <2>3. op'[p].kind = op[p].kind /\ op'[p].pc = "write" /\ op'[p].new = d /\ op'[p].todo = index
    BY <2>1, <2>2
  <2>4. op[p].kind \in Distributing /\ store' = store /\ index' = index
    BY <1>4 DEF List
  <2>5. IsFiniteSet(index)
    BY <2>1, RegistryAssumption, FS_Subset
  <2>6. FairlyDistributed(d, index, Available, Weights)
    BY <2>5, RegistryAssumption, DistributionIsFair
  <2> QED
    BY <1>n, <2>3, <2>4, <2>6 DEF CoverInv
<1>5. ASSUME NEW s \in Servers, Write(p, s) PROVE CoverInv(p)'
  <2>1. /\ op[p].kind \in Distributing /\ op[p].pc = "write" /\ s \in op[p].todo
        /\ store' = [store EXCEPT ![s] = Stored(op[p].new[s], PendingAfter(op[p].before[s], op[p].new[s]))]
        /\ index' = index \cup {s}
    BY <1>5 DEF Write, WriteNext, Upsert
  <2>2. op'[p].kind = op[p].kind /\ op'[p].pc = "write" /\ op'[p].todo = op[p].todo \ {s} /\ op'[p].new = op[p].new
    BY <1>5, <2>1 DEF Write, Shaped
  <2>3. index' = index
    BY <2>1 DEF ListsAgree
  <2>4. store'[s].assigned = op[p].new[s] /\ \A t \in Servers \ {s} : store'[t] = store[t]
    BY <2>1 DEF Stored
  <2>5. /\ FairlyDistributed(op[p].new, index, Available, Weights)
        /\ \A t \in index \ op[p].todo : store[t].assigned = op[p].new[t]
    BY <2>1 DEF CoverInv
  <2>6. \A t \in index \ (op[p].todo \ {s}) : store'[t].assigned = op[p].new[t]
    BY <2>4, <2>5
  <2> QED
    BY <1>n, <2>1, <2>2, <2>3, <2>5, <2>6 DEF CoverInv
<1>6. CASE Announce(p)
  <2>1. /\ op[p].kind \in Distributing /\ op[p].pc = "write" /\ op[p].todo = {}
        /\ store' = store /\ index' = index /\ op'[p] = Idle
    BY <1>6 DEF Announce
  <2>2. /\ FairlyDistributed(op[p].new, index, Available, Weights)
        /\ \A t \in index : store[t].assigned = op[p].new[t]
    BY <2>1 DEF CoverInv
  <2>3. Covered(store, index)
    BY <2>2, FairIsCovered
  <2> QED
    BY <1>n, <2>1, <2>3, IdleShaped DEF CoverInv
<1>7. CASE MapsLoadedWrite(p)
  <2>1. op[p].kind = "loaded" /\ op[p].server \in Servers /\ op[p].server \in index
    BY <1>7 DEF MapsLoadedWrite, At, Shaped, ListsAgree
  <2>2. /\ store' = [store EXCEPT ![op[p].server] =
               Stored(op[p].value.assigned, NotLoaded(op[p].value.pending, op[p].maps))]
        /\ index' = index /\ op'[p] = Idle
    BY <1>7, <2>1 DEF MapsLoadedWrite, Upsert
  <2>3. op[p].value.assigned = store[op[p].server].assigned
    BY <2>1 DEF CoverInv
  <2>4. \A t \in index : store'[t].assigned = store[t].assigned
    BY <2>2, <2>3 DEF Stored
  <2>5. Covered(store', index)
    BY <1>c, <2>1, <2>4, SameIsCovered
  <2> QED
    BY <1>n, <2>2, <2>5, IdleShaped DEF CoverInv
<1>8. CASE MetricsWrite(p)
  <2>1. op[p].kind = "metrics" /\ op[p].server \in Servers
    BY <1>8 DEF MetricsWrite, At, Shaped
  <2>2. store' = [store EXCEPT ![op[p].server] = op[p].value] /\ index' = index /\ op'[p] = Idle
    BY <1>8, <2>1 DEF MetricsWrite
  <2>3. op[p].value.assigned = store[op[p].server].assigned
    BY <2>1 DEF CoverInv
  <2>4. \A t \in index : store'[t].assigned = store[t].assigned
    BY <2>2, <2>3
  <2>5. Covered(store', index)
    BY <1>c, <2>1, <2>4, SameIsCovered
  <2> QED
    BY <1>n, <2>2, <2>5, IdleShaped DEF CoverInv
<1> QED
  BY <1>1, <1>2, <1>3, <1>4, <1>5, <1>6, <1>7, <1>8 DEF Proceed

LEMMA CoverReadBack ==
  ASSUME NEW p, Procs = {p}, ShapeInv, CoverInv(p),
         NEW kind \in WritingBack, NEW s \in Servers, NEW maps, ReadBack(kind, p, s, maps),
         UNCHANGED <<redisVars, failures, restarts>>
  PROVE  CoverInv(p)'
<1> USE DEF ShapeInv, redisVars, Distributing, WritingBack
<1>1. CASE store[s].present
  <2>1. op'[p] = [kind |-> kind, server |-> s, pc |-> "write", maps |-> maps, value |-> store[s]]
    BY <1>1 DEF ReadBack
  <2>2. op'[p].kind = kind /\ op'[p].server = s /\ op'[p].value = store[s] /\ op[p] = Idle
    BY <2>1 DEF ReadBack
  <2> QED
    BY <2>2, IdleShaped DEF CoverInv, Unbroken
<1>2. CASE ~store[s].present
  BY <1>2 DEF ReadBack, CoverInv, Unbroken
<1> QED
  BY <1>1, <1>2

LEMMA CoverStep ==
  ASSUME NEW p, Procs = {p}, ShapeInv, ListsAgree(p), ListsAgree(p)', CoverInv(p), [Next]_vars
  PROVE  CoverInv(p)'
<1> USE DEF ShapeInv, redisVars, listVars, gsVars, boundVars, Distributing, WritingBack
<1>1. ASSUME NEW s \in Servers, HandleFailed(s, p) PROVE CoverInv(p)'
  <2>1. op'[p].kind = "unhealthy" /\ op'[p].pc = "remove" /\ op[p] = Idle
    BY <1>1 DEF HandleFailed
  <2> QED
    BY <1>1, <2>1, IdleShaped DEF HandleFailed, CoverInv, Unbroken
<1>2. ASSUME NEW c \in confirms, MapsLoaded(c, p) PROVE CoverInv(p)'
  BY <1>2, CoverReadBack DEF MapsLoaded
<1>3. CASE WriteFails(p)
  BY <1>3 DEF WriteFails, CoverInv, Unbroken
<1>4. ASSUME NEW s \in Servers, StartServer(s, p) PROVE CoverInv(p)'
  <2>1. op'[p].kind = "register" /\ op'[p].pc = "add" /\ op[p] = Idle
    BY <1>4 DEF StartServer
  <2> QED
    BY <1>4, <2>1, IdleShaped DEF StartServer, CoverInv, Unbroken
<1>5. ASSUME NEW s \in Servers, MetricsRead(s, p) PROVE CoverInv(p)'
  BY <1>5, CoverReadBack DEF MetricsRead
<1>6. ASSUME NEW s \in Servers, CheckFails(s) \/ HandleEvent(s) \/ StopServer(s) PROVE CoverInv(p)'
  BY <1>6 DEF CheckFails, HandleEvent, StopServer, CoverInv, Unbroken
<1>7. CASE RestartRegistry
  BY <1>7 DEF RestartRegistry, CoverInv, Unbroken
<1>8. CASE UNCHANGED vars
  BY <1>8 DEF vars, CoverInv, Unbroken
<1> QED
  BY <1>1, <1>2, <1>3, <1>4, <1>5, <1>6, <1>7, <1>8, CoverProceed DEF Next, Begin

\* distributeMapsToServers: while operations follow one another (one
\* goroutine), every map is assigned to a server whenever some server can take
\* any, to exactly one if no server claims it; up to the first failing write
\* or restart, either of which can leave a distribution half written.
THEOREM EveryMapIsAssigned ==
  ASSUME NEW p, Procs = {p}
  PROVE  Spec => [](failures = 0 /\ restarts = 0 => MapsAreCovered)
<1>1. Init => CoverInv(p)
  <2> SUFFICES ASSUME Init PROVE CoverInv(p)
    OBVIOUS
  <2>1. op[p] = Idle /\ index = {} /\ failures = 0 /\ restarts = 0
    BY DEF Init
  <2>2. Covered(store, {})
    BY DEF Covered
  <2> QED
    BY <2>1, <2>2, IdleShaped DEF CoverInv, Distributing, WritingBack
<1>2. Init => ListsAgree(p)
  BY ListsStart
<1>3. ShapeInv /\ ListsAgree(p) /\ CoverInv(p) /\ [Next]_vars => ShapeInv' /\ ListsAgree(p)' /\ CoverInv(p)'
  BY ShapeStep, ListsStep, CoverStep
<1>4. ListsAgree(p) /\ CoverInv(p) => (failures = 0 /\ restarts = 0 => MapsAreCovered)
  <2> SUFFICES ASSUME ListsAgree(p), CoverInv(p), failures = 0, restarts = 0, Quiet PROVE MapsAreCovered
    BY DEF MapsAreCovered
  <2>1. op[p] = Idle
    BY DEF Quiet
  <2>2. Covered(store, index)
    BY <2>1, IdleShaped DEF CoverInv, Unbroken, Distributing
  <2>3. Listed = index
    BY DEF ListsAgree, Listed
  <2> QED
    BY <2>2, <2>3 DEF MapsAreCovered, Covered
<1> QED
  BY <1>1, <1>2, <1>3, <1>4, ShapeInit, PTL DEF Spec

-----------------------------------------------------------------------------
(* Presence.                                                               *)

SettingRecs == [patient : BOOLEAN, logins : Nat, updates : Nat, errors : Nat, crashes : Nat]
SessionRecs == [gw : Gateways \cup {None}, id : Nat, val : Values, open : BOOLEAN]
ChanRecs    == [char : Chars, upd : Updates]

\* The parts of PresenceTypeOK.
FaultType == /\ up \subseteq Gateways
             /\ unnoticed \subseteq Gateways \ up
             /\ removed \in Seq(Gateways)
             /\ setting \in SettingRecs
GwType == /\ session \in [Chars -> SessionRecs]
          /\ updsChan \in [Gateways -> Seq(ChanRecs)]
          /\ buffer \in [Gateways -> Collected]
          /\ told \in [Chars -> Values]
BoxOK(box) == /\ box = [r \in Replicas |-> [s \in Subjects |-> box[r][s]]]
              /\ \A r \in Replicas, s \in Subjects : box[r][s] \in Seq(EventsOf(s))
RunOK(run) == /\ run = [r \in Replicas |-> [s \in Subjects |-> run[r][s]]]
              /\ \A r \in Replicas, s \in Subjects : run[r][s] \in HandledOf(s) \cup {None}
StoreType == /\ guidStorage \in [Replicas -> [Chars -> Entries \cup {None}]]
             /\ nameStorage \in [Replicas -> [NameKeys -> Nat \cup {None}]]
             /\ onlineInfo \in [Replicas -> [Chars -> Values \cup {None}]]

LEMMA TypeParts == PresenceTypeOK <=> FaultType /\ GwType /\ BoxOK(inboxes) /\ RunOK(running) /\ StoreType
BY Zenon DEF PresenceTypeOK, FaultType, GwType, BoxOK, RunOK, StoreType, SettingRecs, SessionRecs, ChanRecs

LEMMA TypePartsNext ==
  FaultType' /\ GwType' /\ BoxOK(inboxes)' /\ RunOK(running)' /\ StoreType' => PresenceTypeOK'
BY Zenon DEF PresenceTypeOK, FaultType, GwType, BoxOK, RunOK, StoreType, SettingRecs, SessionRecs, ChanRecs

-----------------------------------------------------------------------------
\* Merging partial functions, and sequences.
LEMMA MergeIs ==
  ASSUME NEW a, NEW b
  PROVE  /\ DOMAIN Over(a, b) = DOMAIN a \cup DOMAIN b
         /\ \A x \in DOMAIN a : Over(a, b)[x] = a[x]
         /\ \A x \in DOMAIN b \ DOMAIN a : Over(a, b)[x] = b[x]
BY DEF Over

LEMMA SingleIs ==
  ASSUME NEW x, NEW y
  PROVE  DOMAIN Single(x, y) = {x} /\ Single(x, y)[x] = y
BY DEF Single

LEMMA UpdateIs ==
  ASSUME NEW u \in Updates
  PROVE  DOMAIN u \subseteq Fields /\ \A f \in DOMAIN u : u[f] \in Nat
<1>1. PICK D \in SUBSET Fields : u \in [D -> Nat]
  BY DEF Updates
<1> QED
  BY <1>1

LEMMA UpdateMerge ==
  ASSUME NEW a \in Updates, NEW b \in Updates
  PROVE  Over(a, b) \in Updates
<1>1. PICK D \in SUBSET Fields : a \in [D -> Nat]
  BY DEF Updates
<1>2. PICK E \in SUBSET Fields : b \in [E -> Nat]
  BY DEF Updates
<1>3. Over(a, b) \in [D \cup E -> Nat]
  BY <1>1, <1>2 DEF Over
<1> QED
  BY <1>3 DEF Updates

LEMMA ValuesMerge ==
  ASSUME NEW a \in Updates, NEW b \in Values
  PROVE  Over(a, b) \in Values
<1>1. PICK D \in SUBSET Fields : a \in [D -> Nat]
  BY DEF Updates
<1>2. DOMAIN a \cup DOMAIN b = Fields
  BY <1>1 DEF Values
<1> QED
  BY <1>1, <1>2 DEF Over, Values

LEMMA CollectedIs ==
  ASSUME NEW b \in Collected
  PROVE  DOMAIN b \subseteq Chars /\ \A c \in DOMAIN b : b[c] \in Updates
<1>1. PICK D \in SUBSET Chars : b \in [D -> Updates]
  BY DEF Collected
<1> QED
  BY <1>1

LEMMA CollectedAdd ==
  ASSUME NEW b \in Collected, NEW c \in Chars, NEW u \in Updates
  PROVE  Over(Single(c, u), b) \in Collected
<1>1. PICK D \in SUBSET Chars : b \in [D -> Updates]
  BY DEF Collected
<1>2. Over(Single(c, u), b) \in [{c} \cup D -> Updates]
  BY <1>1 DEF Over, Single
<1> QED
  BY <1>2 DEF Collected

LEMMA CollectedRestrict ==
  ASSUME NEW b \in Collected, NEW S \in SUBSET DOMAIN b
  PROVE  Restrict(b, S) \in Collected
<1>1. S \subseteq Chars /\ Restrict(b, S) \in [S -> Updates]
  BY CollectedIs DEF Restrict
<1> QED
  BY <1>1 DEF Collected

LEMMA NothingCollected == NoUpdate \in Collected /\ DOMAIN NoUpdate = {}
<1>1. NoUpdate \in [{} -> Updates]
  BY DEF NoUpdate
<1> QED
  BY <1>1 DEF Collected

LEMMA HeadType ==
  ASSUME NEW R, NEW s \in Seq(R), s # <<>>
  PROVE  Head(s) \in R /\ Tail(s) \in Seq(R)
OBVIOUS

LEMMA EmptyType ==
  ASSUME NEW R
  PROVE  <<>> \in Seq(R)
OBVIOUS

LEMMA AppendType ==
  ASSUME NEW R, NEW s \in Seq(R), NEW e \in R
  PROVE  Append(s, e) \in Seq(R)
OBVIOUS

\* A field of a replica's table.
LEMMA TableType ==
  ASSUME NEW A, NEW B, NEW t \in [Replicas -> [A -> B]], NEW r \in Replicas, NEW a \in A, NEW b \in B
  PROVE  /\ [t EXCEPT ![r][a] = b] \in [Replicas -> [A -> B]]
         /\ \A q \in Replicas, x \in A :
              [t EXCEPT ![r][a] = b][q][x] = IF q = r /\ x = a THEN b ELSE t[q][x]
OBVIOUS

\* Publishing to a subject, taking from one, and a handler's progress.
LEMMA PublishType ==
  ASSUME NEW box, BoxOK(box), NEW s \in Subjects, NEW e \in EventsOf(s)
  PROVE  /\ BoxOK(Publish(box, s, e))
         /\ \A r \in Replicas, x \in Subjects :
              Publish(box, s, e)[r][x] = IF x = s THEN Append(box[r][x], e) ELSE box[r][x]
<1>1. ASSUME NEW r \in Replicas
      PROVE  /\ Publish(box, s, e)[r] = [x \in Subjects |-> Publish(box, s, e)[r][x]]
             /\ \A x \in Subjects : Publish(box, s, e)[r][x] =
                                      IF x = s THEN Append(box[r][x], e) ELSE box[r][x]
  <2>1. Publish(box, s, e)[r] = [box[r] EXCEPT ![s] = Append(@, e)]
    BY DEF Publish
  <2>2. box[r] = [x \in Subjects |-> box[r][x]]
    BY DEF BoxOK
  <2> QED
    BY <2>1, <2>2
<1>2. ASSUME NEW r \in Replicas, NEW x \in Subjects
      PROVE  Publish(box, s, e)[r][x] \in Seq(EventsOf(x))
  <2>1. box[r][x] \in Seq(EventsOf(x))
    BY DEF BoxOK
  <2>2. CASE x = s
    <3>1. Append(box[r][x], e) \in Seq(EventsOf(x))
      BY <2>1, <2>2, AppendType
    <3> QED
      BY <1>1, <2>2, <3>1
  <2>3. CASE x # s
    BY <1>1, <2>1, <2>3
  <2> QED
    BY <2>2, <2>3
<1>3. Publish(box, s, e) = [r \in Replicas |-> [x \in Subjects |-> Publish(box, s, e)[r][x]]]
  <2>1. Publish(box, s, e) = [r \in Replicas |-> Publish(box, s, e)[r]]
    BY DEF Publish
  <2> QED
    BY <1>1, <2>1
<1> QED
  BY <1>1, <1>2, <1>3 DEF BoxOK

LEMMA TakeType ==
  ASSUME BoxOK(inboxes), NEW r \in Replicas, NEW s \in Subjects, inboxes[r][s] # <<>>,
         inboxes' = [inboxes EXCEPT ![r][s] = Tail(@)]
  PROVE  /\ BoxOK(inboxes)'
         /\ Head(inboxes[r][s]) \in EventsOf(s)
         /\ \A q \in Replicas, x \in Subjects :
              inboxes'[q][x] = IF q = r /\ x = s THEN Tail(inboxes[q][x]) ELSE inboxes[q][x]
<1>1. \A q \in Replicas, x \in Subjects :
        inboxes'[q][x] = IF q = r /\ x = s THEN Tail(inboxes[q][x]) ELSE inboxes[q][x]
  BY DEF BoxOK
<1>2. inboxes[r][s] \in Seq(EventsOf(s))
  BY DEF BoxOK
<1>3. Head(inboxes[r][s]) \in EventsOf(s) /\ Tail(inboxes[r][s]) \in Seq(EventsOf(s))
  BY <1>2, HeadType
<1>4. \A q \in Replicas, x \in Subjects : inboxes'[q][x] \in Seq(EventsOf(x))
  BY <1>1, <1>3 DEF BoxOK
<1>5. inboxes' = [q \in Replicas |-> [x \in Subjects |-> inboxes'[q][x]]]
  BY DEF BoxOK
<1> QED
  BY <1>1, <1>3, <1>4, <1>5 DEF BoxOK

LEMMA RunType ==
  ASSUME RunOK(running), NEW r \in Replicas, NEW s \in Subjects, NEW h \in HandledOf(s) \cup {None},
         running' = [running EXCEPT ![r][s] = h]
  PROVE  /\ RunOK(running)'
         /\ \A q \in Replicas, x \in Subjects :
              running'[q][x] = IF q = r /\ x = s THEN h ELSE running[q][x]
<1>1. \A q \in Replicas, x \in Subjects :
        running'[q][x] = IF q = r /\ x = s THEN h ELSE running[q][x]
  BY DEF RunOK
<1>2. \A q \in Replicas, x \in Subjects : running'[q][x] \in HandledOf(x) \cup {None}
  BY <1>1 DEF RunOK
<1>3. running' = [q \in Replicas |-> [x \in Subjects |-> running'[q][x]]]
  BY DEF RunOK
<1> QED
  BY <1>1, <1>2, <1>3 DEF RunOK

-----------------------------------------------------------------------------
(* Type correctness.                                                       *)

LEMMA TypeInit ==
  ASSUME PresenceAssumption, PresenceInit
  PROVE  PresenceTypeOK
<1>1. FaultType
  <2>1. up \subseteq Gateways /\ unnoticed \subseteq Gateways \ up /\ removed \in Seq(Gateways)
    BY EmptyType DEF PresenceInit
  <2>2. setting \in SettingRecs
    BY DEF PresenceInit, PresenceAssumption, SettingRecs
  <2> QED
    BY <2>1, <2>2 DEF FaultType
<1>2. GwType
  <2>1. session \in [Chars -> SessionRecs]
    BY DEF PresenceInit, SessionRecs, Values
  <2>2. updsChan \in [Gateways -> Seq(ChanRecs)]
    <3>1. <<>> \in Seq(ChanRecs)
      BY EmptyType
    <3> QED
      BY <3>1 DEF PresenceInit
  <2>3. buffer \in [Gateways -> Collected]
    BY NothingCollected DEF PresenceInit
  <2>4. told \in [Chars -> Values]
    BY DEF PresenceInit, Values
  <2> QED
    BY <2>1, <2>2, <2>3, <2>4 DEF GwType
<1>3. BoxOK(inboxes)
  <2>1. \A r \in Replicas, s \in Subjects : inboxes[r][s] = <<>>
    BY DEF PresenceInit
  <2>2. ASSUME NEW s PROVE <<>> \in Seq(EventsOf(s))
    BY EmptyType
  <2>3. inboxes = [r \in Replicas |-> [s \in Subjects |-> inboxes[r][s]]]
    BY DEF PresenceInit
  <2> QED
    BY <2>1, <2>2, <2>3 DEF BoxOK
<1>4. RunOK(running)
  BY DEF PresenceInit, RunOK
<1>5. StoreType
  BY DEF PresenceInit, StoreType
<1> QED
  BY <1>1, <1>2, <1>3, <1>4, <1>5, TypeParts

LEMMA NewSession ==
  ASSUME NEW x \in SessionRecs, NEW g \in Gateways
  PROVE  LET s == [x EXCEPT !.gw = g, !.id = @ + 1, !.open = TRUE]
         IN  /\ s \in SessionRecs /\ s.val \in Values /\ s.id \in Nat
             /\ s.gw = g /\ s.id = x.id + 1 /\ s.val = x.val /\ s.open
<1> DEFINE a == [x EXCEPT !.gw = g]
           b == [a EXCEPT !.id = x.id + 1]
           d == [b EXCEPT !.open = TRUE]
<1>1. a \in SessionRecs /\ a.gw = g /\ a.id = x.id /\ a.val = x.val
  BY DEF SessionRecs
<1> HIDE DEF a
<1>2. x.id + 1 \in Nat
  BY DEF SessionRecs
<1>3. b \in SessionRecs /\ b.gw = g /\ b.id = x.id + 1 /\ b.val = x.val
  BY <1>1, <1>2 DEF SessionRecs
<1> HIDE DEF b
<1>4. d \in SessionRecs /\ d.gw = g /\ d.id = x.id + 1 /\ d.val = x.val /\ d.open
  BY <1>3 DEF SessionRecs
<1>5. d.val \in Values /\ d.id \in Nat
  BY <1>4 DEF SessionRecs
<1>6. d = [x EXCEPT !.gw = g, !.id = @ + 1, !.open = TRUE]
  BY DEF a, b, d
<1> QED
  BY <1>4, <1>5, <1>6, Zenon

\* The steps of the gateways change nothing of the storages.
LEMMA TypeLogin ==
  ASSUME PresenceTypeOK, NEW c \in Chars, NEW g \in Gateways, Login(c, g)
  PROVE  PresenceTypeOK'
<1> USE TypeParts, TypePartsNext
<1> DEFINE s == [session[c] EXCEPT !.gw = g, !.id = @ + 1, !.open = TRUE]
<1>1. s \in SessionRecs /\ s.val \in Values /\ s.id \in Nat
  <2>1. session[c] \in SessionRecs
    BY DEF GwType
  <2> QED
    BY <2>1, NewSession
<1>2. /\ session' = [session EXCEPT ![c] = s]
      /\ told' = [told EXCEPT ![c] = s.val]
      /\ inboxes' = Publish(inboxes, "in", [char |-> c, gw |-> g, id |-> s.id, val |-> s.val])
  BY DEF Login
<1> HIDE DEF s
<1>3. GwType'
  <2>1. session' \in [Chars -> SessionRecs] /\ told' \in [Chars -> Values]
    BY <1>1, <1>2 DEF GwType
  <2>2. UNCHANGED <<updsChan, buffer>>
    BY DEF Login
  <2> QED
    BY <2>1, <2>2 DEF GwType
<1>4. BoxOK(inboxes)'
  <2>1. [char |-> c, gw |-> g, id |-> s.id, val |-> s.val] \in EventsOf("in")
    BY <1>1 DEF EventsOf
  <2> QED
    BY <1>2, <2>1, PublishType DEF Subjects
<1>5. FaultType'
  BY DEF Login, FaultType, SettingRecs, faultVars
<1>6. RunOK(running)' /\ StoreType'
  BY DEF Login, RunOK, StoreType, storageVars
<1> QED
  BY <1>3, <1>4, <1>5, <1>6

LEMMA TypeLogout ==
  ASSUME PresenceTypeOK, NEW c \in Chars, Logout(c)
  PROVE  PresenceTypeOK'
<1> USE TypeParts, TypePartsNext
<1>1. session[c] \in SessionRecs
  BY DEF GwType
<1>2. GwType'
  <2>1. [session[c] EXCEPT !.open = FALSE] \in SessionRecs
    BY <1>1 DEF SessionRecs
  <2>2. session' \in [Chars -> SessionRecs]
    BY <2>1 DEF GwType, Logout
  <2>3. UNCHANGED <<updsChan, buffer, told>>
    BY DEF Logout, gwVars
  <2> QED
    BY <2>2, <2>3 DEF GwType
<1>3. BoxOK(inboxes)'
  <2>1. [char |-> c, gw |-> session[c].gw] \in EventsOf("out")
    BY <1>1 DEF EventsOf, SessionRecs
  <2> QED
    BY <2>1, PublishType DEF Logout, Subjects
<1>4. FaultType'
  BY DEF Logout, FaultType, faultVars
<1>5. RunOK(running)' /\ StoreType'
  BY DEF Logout, RunOK, StoreType, storageVars
<1> QED
  BY <1>2, <1>3, <1>4, <1>5

LEMMA TypeUpdate ==
  ASSUME PresenceTypeOK, NEW c \in Chars, NEW f \in Fields, Update(c, f)
  PROVE  PresenceTypeOK'
<1> USE TypeParts, TypePartsNext
<1> DEFINE v == session[c].val[f] + 1
           u == [char |-> c, upd |-> Single(f, v)]
<1>1. session[c] \in SessionRecs
  BY DEF GwType
<1>2. session[c].val \in Values /\ v \in Nat
  BY <1>1 DEF SessionRecs, Values
<1>3. /\ session' = [session EXCEPT ![c].val[f] = v]
      /\ updsChan' = [updsChan EXCEPT ![session[c].gw] = Append(@, u)]
  BY DEF Update
<1>4. u \in ChanRecs
  <2>1. Single(f, v) \in [{f} -> Nat]
    BY <1>2 DEF Single
  <2>2. Single(f, v) \in Updates
    BY <2>1 DEF Updates
  <2> QED
    BY <2>2 DEF ChanRecs
<1> HIDE DEF u
<1>5. GwType'
  <2>1. [session[c].val EXCEPT ![f] = v] \in Values
    BY <1>2 DEF Values
  <2>2. [session[c] EXCEPT !.val[f] = v] \in SessionRecs
    BY <1>1, <2>1 DEF SessionRecs
  <2> HIDE DEF v
  <2>3. session' \in [Chars -> SessionRecs]
    BY <1>3, <2>2 DEF GwType
  <2>4. updsChan' \in [Gateways -> Seq(ChanRecs)]
    <3>1. updsChan \in [Gateways -> Seq(ChanRecs)]
      BY DEF GwType
    <3>2. CASE session[c].gw \in Gateways
      <4>1. Append(updsChan[session[c].gw], u) \in Seq(ChanRecs)
        BY <3>1, <3>2, <1>4, AppendType
      <4> QED
        BY <1>3, <3>1, <4>1
    <3>3. CASE session[c].gw \notin Gateways
      BY <1>3, <3>1, <3>3
    <3> QED
      BY <3>2, <3>3
  <2>5. UNCHANGED <<buffer, told>>
    BY DEF Update
  <2> QED
    BY <2>3, <2>4, <2>5 DEF GwType
<1>6. FaultType'
  BY DEF Update, FaultType, SettingRecs, faultVars
<1>7. BoxOK(inboxes)' /\ RunOK(running)' /\ StoreType'
  BY DEF Update, BoxOK, RunOK, StoreType, storageVars
<1> QED
  BY <1>5, <1>6, <1>7

LEMMA TypeCollect ==
  ASSUME PresenceTypeOK, NEW g \in Gateways, Collect(g)
  PROVE  PresenceTypeOK'
<1> USE TypeParts, TypePartsNext
<1> DEFINE u   == Head(updsChan[g])
           upd == IF u.char \in DOMAIN buffer[g]
                  THEN MergeCharUpdates(buffer[g][u.char], u.upd) ELSE u.upd
<1>1. /\ buffer' = [buffer EXCEPT ![g] = Over(Single(u.char, upd), @)]
      /\ updsChan' = [updsChan EXCEPT ![g] = Tail(@)]
  BY DEF Collect
<1>2. u \in ChanRecs /\ Tail(updsChan[g]) \in Seq(ChanRecs)
  BY HeadType DEF Collect, GwType
<1> HIDE DEF u
<1>3. u.char \in Chars /\ u.upd \in Updates
  BY <1>2 DEF ChanRecs
<1>4. buffer[g] \in Collected
  BY DEF GwType
<1>5. upd \in Updates
  BY <1>3, <1>4, CollectedIs, UpdateMerge DEF MergeCharUpdates
<1> HIDE DEF upd
<1>6. Over(Single(u.char, upd), buffer[g]) \in Collected
  BY <1>3, <1>4, <1>5, CollectedAdd
<1>7. GwType'
  <2>1. updsChan' \in [Gateways -> Seq(ChanRecs)] /\ buffer' \in [Gateways -> Collected]
    BY <1>1, <1>2, <1>6 DEF GwType
  <2>2. UNCHANGED <<session, told>>
    BY DEF Collect
  <2> QED
    BY <2>1, <2>2 DEF GwType
<1>8. FaultType' /\ BoxOK(inboxes)' /\ RunOK(running)' /\ StoreType'
  BY DEF Collect, FaultType, BoxOK, RunOK, StoreType, storageVars, faultVars
<1> QED
  BY <1>7, <1>8

LEMMA SentType ==
  ASSUME PresenceTypeOK, NEW g \in Gateways, NEW cs \in SUBSET DOMAIN buffer[g], Sent(g, cs)
  PROVE  told' \in [Chars -> Values] /\ BoxOK(inboxes)'
<1> USE TypeParts
<1>1. buffer[g] \in Collected /\ told \in [Chars -> Values]
  BY DEF GwType
<1>2. told' \in [Chars -> Values]
  <2>1. ASSUME NEW c \in Chars, c \in cs PROVE Over(buffer[g][c], told[c]) \in Values
    BY <1>1, <2>1, CollectedIs, ValuesMerge
  <2> QED
    BY <1>1, <2>1 DEF Sent
<1>3. BoxOK(inboxes)'
  <2>1. CASE cs = {}
    BY <2>1 DEF Sent, BoxOK
  <2>2. CASE cs # {}
    <3>1. [upd |-> Restrict(buffer[g], cs)] \in EventsOf("upd")
      BY <1>1, CollectedRestrict DEF EventsOf
    <3> QED
      BY <2>2, <3>1, PublishType DEF Sent, Subjects
  <2> QED
    BY <2>1, <2>2
<1> QED
  BY <1>2, <1>3

LEMMA TypeOpenBarrier ==
  ASSUME PresenceTypeOK, NEW g \in Gateways, OpenBarrier(g)
  PROVE  PresenceTypeOK'
<1> USE TypeParts, TypePartsNext
<1>1. PICK cs \in SUBSET DOMAIN buffer[g] : Sent(g, cs)
  BY DEF OpenBarrier
<1>2. told' \in [Chars -> Values] /\ BoxOK(inboxes)'
  BY <1>1, SentType
<1>3. GwType'
  <2>1. buffer' \in [Gateways -> Collected]
    BY NothingCollected DEF OpenBarrier, GwType
  <2>2. UNCHANGED <<session, updsChan>>
    BY DEF OpenBarrier
  <2> QED
    BY <1>2, <2>1, <2>2 DEF GwType
<1>4. FaultType'
  <2>1. CASE UNCHANGED setting
    BY <2>1 DEF OpenBarrier, FaultType, faultVars
  <2>2. CASE setting.errors > 0 /\ setting' = [setting EXCEPT !.errors = @ - 1]
    BY <2>2 DEF OpenBarrier, FaultType, faultVars, SettingRecs
  <2> QED
    BY <2>1, <2>2 DEF OpenBarrier
<1>5. RunOK(running)' /\ StoreType'
  BY DEF OpenBarrier, RunOK, StoreType, storageVars
<1> QED
  BY <1>2, <1>3, <1>4, <1>5

LEMMA TypeCrash ==
  ASSUME PresenceTypeOK, NEW g \in Gateways, Crash(g)
  PROVE  PresenceTypeOK'
<1> USE TypeParts, TypePartsNext
<1>1. GwType'
  <2>1. session' \in [Chars -> SessionRecs]
    <3>1. ASSUME NEW c \in Chars PROVE [session[c] EXCEPT !.open = FALSE] \in SessionRecs
      <4>1. session[c] \in SessionRecs
        BY DEF GwType
      <4> QED
        BY <4>1 DEF SessionRecs
    <3> QED
      BY <3>1 DEF Crash, GwType
  <2>2. updsChan' \in [Gateways -> Seq(ChanRecs)]
    <3>1. <<>> \in Seq(ChanRecs)
      BY EmptyType
    <3> QED
      BY <3>1 DEF Crash, GwType
  <2>3. buffer' \in [Gateways -> Collected] /\ told' = told
    BY NothingCollected DEF Crash, GwType
  <2> QED
    BY <2>1, <2>2, <2>3 DEF GwType
<1>2. FaultType'
  BY DEF Crash, FaultType, SettingRecs
<1>3. BoxOK(inboxes)' /\ RunOK(running)' /\ StoreType'
  BY DEF Crash, BoxOK, RunOK, StoreType, storageVars
<1> QED
  BY <1>1, <1>2, <1>3

LEMMA TypeRegistryDrops ==
  ASSUME PresenceTypeOK, NEW g \in Gateways, RegistryDrops(g)
  PROVE  PresenceTypeOK'
<1> USE TypeParts, TypePartsNext
<1>1. FaultType'
  BY DEF RegistryDrops, FaultType
<1>2. GwType' /\ BoxOK(inboxes)' /\ RunOK(running)' /\ StoreType'
  BY DEF RegistryDrops, GwType, BoxOK, RunOK, StoreType, storageVars, gwVars
<1> QED
  BY <1>1, <1>2

-----------------------------------------------------------------------------
\* The handlers of a replica leave the gateways alone.
LEMMA GatewaysKept ==
  ASSUME PresenceTypeOK, UNCHANGED <<session, gwVars, setting, up, unnoticed>>,
         removed' = removed \/ (removed # <<>> /\ removed' = Tail(removed))
  PROVE  FaultType' /\ GwType'
<1> USE TypeParts
<1>1. removed' \in Seq(Gateways)
  BY HeadType DEF FaultType
<1> QED
  BY <1>1 DEF FaultType, GwType, gwVars

\* What an event looks like.
LEMMA InEvent ==
  ASSUME NEW e \in EventsOf("in")
  PROVE  /\ e.char \in Chars /\ e.gw \in Gateways /\ e.id \in Nat /\ e.val \in Values
         /\ Entry(e) \in Entries /\ Entry(e).id = e.id /\ Entry(e).gw = e.gw /\ Entry(e).val = e.val
         /\ e \in HandledOf("in")
BY DEF EventsOf, HandledOf, Entry, Entries

LEMMA OutEvent ==
  ASSUME NEW e \in EventsOf("out")
  PROVE  e.char \in Chars
BY DEF EventsOf

LEMMA UpdEvent ==
  ASSUME NEW e \in EventsOf("upd")
  PROVE  /\ e.upd \in Collected /\ DOMAIN e.upd \subseteq Chars
         /\ \A c \in DOMAIN e.upd : e.upd[c] \in Updates
         /\ e \in HandledOf("upd")
<1>1. e.upd \in Collected /\ e \in HandledOf("upd")
  BY DEF EventsOf, HandledOf
<1> QED
  BY <1>1, CollectedIs

LEMMA KeyOf ==
  ASSUME NEW c \in Chars
  PROVE  /\ ToUpper(CharName(c)) \in NameKeys
         /\ \A d \in Chars : ToUpper(CharName(c)) = ToUpper(CharName(d)) => c = d
<1>1. \A d \in Chars : ToUpper(CharName(d)) = [name |-> d, case |-> "upper"]
  BY DEF ToUpper, CharName
<1> QED
  BY <1>1 DEF NameKeys

\* An entry whose values are updated.
LEMMA EntryUpdated ==
  ASSUME NEW x \in Entries, NEW v \in Values
  PROVE  /\ [x EXCEPT !.val = v] \in Entries
         /\ [x EXCEPT !.val = v].id = x.id
         /\ [x EXCEPT !.val = v].gw = x.gw
         /\ [x EXCEPT !.val = v].val = v
BY DEF Entries

-----------------------------------------------------------------------------
(* The handlers: types, and the two indexes of the storage.                *)

StoreInv == PresenceTypeOK /\ IndexesAgree

\* Nothing about the storages changes.
LEMMA IndexesKept ==
  ASSUME IndexesAgree, UNCHANGED storageVars
  PROVE  IndexesAgree'
BY DEF IndexesAgree, storageVars

LEMMA StoreHandleLoggedIn ==
  ASSUME PresenceAssumption, StoreInv, NEW r \in Replicas, HandleLoggedIn(r)
  PROVE  StoreInv'
<1> USE TypeParts, TypePartsNext DEF StoreInv
<1> DEFINE e == Head(inboxes[r]["in"])
<1>1. /\ guidStorage' = [guidStorage EXCEPT ![r][e.char] = Entry(e)]
      /\ nameStorage' = [nameStorage EXCEPT ![r][ToUpper(CharName(e.char))] = e.id]
      /\ running' = [running EXCEPT ![r]["in"] = e]
      /\ inboxes[r]["in"] # <<>>
      /\ inboxes' = [inboxes EXCEPT ![r]["in"] = Tail(@)]
  BY DEF HandleLoggedIn
<1>2. "in" \in Subjects
  BY DEF Subjects
<1>3. BoxOK(inboxes)' /\ e \in EventsOf("in")
  BY <1>1, <1>2, TakeType
<1> HIDE DEF e
<1>4. /\ e.char \in Chars /\ e.id \in Nat /\ Entry(e) \in Entries /\ Entry(e).id = e.id
      /\ e \in HandledOf("in")
  BY <1>3, InEvent
<1>5. RunOK(running)'
  BY <1>1, <1>2, <1>4, RunType
<1>6. ToUpper(CharName(e.char)) \in NameKeys
  BY <1>4, KeyOf
<1>7. StoreType'
  <2>1. guidStorage' \in [Replicas -> [Chars -> Entries \cup {None}]]
    BY <1>1, <1>4, TableType DEF StoreType
  <2>2. nameStorage' \in [Replicas -> [NameKeys -> Nat \cup {None}]]
    BY <1>1, <1>4, <1>6, TableType DEF StoreType
  <2> QED
    BY <2>1, <2>2 DEF StoreType, HandleLoggedIn
<1>8. FaultType' /\ GwType'
  BY GatewaysKept DEF HandleLoggedIn, faultVars
<1>9. IndexesAgree'
  <2> SUFFICES ASSUME NEW q \in Replicas, NEW c \in Chars
               PROVE  nameStorage'[q][ToUpper(CharName(c))] =
                        IF guidStorage'[q][c] = None THEN None ELSE guidStorage'[q][c].id
    BY DEF IndexesAgree
  <2>1. nameStorage[q][ToUpper(CharName(c))] =
          IF guidStorage[q][c] = None THEN None ELSE guidStorage[q][c].id
    BY DEF IndexesAgree
  <2>2. ToUpper(CharName(c)) \in NameKeys
    BY KeyOf
  <2>3. CASE q = r /\ c = e.char
    <3>1. nameStorage'[q][ToUpper(CharName(c))] = e.id /\ guidStorage'[q][c] = Entry(e)
      BY <1>1, <1>4, <1>6, <2>3 DEF StoreType
    <3> QED
      BY <1>4, <3>1 DEF PresenceAssumption
  <2>4. CASE ~(q = r /\ c = e.char)
    <3>1. guidStorage'[q][c] = guidStorage[q][c]
      BY <1>1, <1>4, <2>4 DEF StoreType
    <3>2. q = r => ToUpper(CharName(c)) # ToUpper(CharName(e.char))
      BY <1>4, <2>4, KeyOf
    <3>3. nameStorage'[q][ToUpper(CharName(c))] = nameStorage[q][ToUpper(CharName(c))]
      BY <1>1, <1>6, <2>2, <3>2 DEF StoreType
    <3> QED
      BY <2>1, <3>1, <3>3
  <2> QED
    BY <2>3, <2>4
<1> QED
  BY <1>3, <1>5, <1>7, <1>8, <1>9

LEMMA StoreHandleLoggedOut ==
  ASSUME StoreInv, NEW r \in Replicas, HandleLoggedOut(r)
  PROVE  StoreInv'
<1> USE TypeParts, TypePartsNext DEF StoreInv
<1> DEFINE e == Head(inboxes[r]["out"])
           h == [char |-> e.char, found |-> guidStorage[r][e.char] # None]
<1>1. /\ running' = [running EXCEPT ![r]["out"] = h]
      /\ inboxes[r]["out"] # <<>>
      /\ inboxes' = [inboxes EXCEPT ![r]["out"] = Tail(@)]
  BY DEF HandleLoggedOut
<1>2. "out" \in Subjects
  BY DEF Subjects
<1>3. BoxOK(inboxes)' /\ e \in EventsOf("out")
  BY <1>1, <1>2, TakeType
<1> HIDE DEF e
<1>4. h \in HandledOf("out")
  <2>1. ASSUME NEW b \in BOOLEAN, NEW x \in Chars
        PROVE  [char |-> x, found |-> b] \in HandledOf("out")
    BY DEF HandledOf
  <2>2. e.char \in Chars
    BY <1>3, OutEvent
  <2> DEFINE b == guidStorage[r][e.char] # None
  <2>3. b \in BOOLEAN
    OBVIOUS
  <2> HIDE DEF b
  <2>4. [char |-> e.char, found |-> b] \in HandledOf("out")
    BY <2>1, <2>2, <2>3
  <2> QED
    BY <2>4 DEF b
<1> HIDE DEF h
<1>5. RunOK(running)'
  BY <1>1, <1>2, <1>4, RunType
<1>6. StoreType' /\ IndexesAgree'
  BY IndexesKept DEF StoreType, HandleLoggedOut, storageVars
<1>7. FaultType' /\ GwType'
  BY GatewaysKept DEF HandleLoggedOut, faultVars
<1> QED
  BY <1>3, <1>5, <1>6, <1>7

\* A removal in progress.
LEMMA OutRun ==
  ASSUME RunOK(running), NEW r \in Replicas, running[r]["out"] # None
  PROVE  /\ running[r]["out"] \in [char : Chars, found : BOOLEAN]
         /\ running[r]["out"].char \in Chars
         /\ [running[r]["out"] EXCEPT !.found = FALSE].char = running[r]["out"].char
         /\ ~[running[r]["out"] EXCEPT !.found = FALSE].found
         /\ [running[r]["out"] EXCEPT !.found = FALSE] \in HandledOf("out")
<1>1. "out" \in Subjects
  BY DEF Subjects
<1>2. running[r]["out"] \in HandledOf("out")
  BY <1>1 DEF RunOK
<1>3. ASSUME NEW h \in [char : Chars, found : BOOLEAN]
      PROVE  /\ h.char \in Chars
             /\ [h EXCEPT !.found = FALSE] \in [char : Chars, found : BOOLEAN]
             /\ [h EXCEPT !.found = FALSE].char = h.char
             /\ ~[h EXCEPT !.found = FALSE].found
  OBVIOUS
<1>4. running[r]["out"] \in [char : Chars, found : BOOLEAN]
  BY <1>2 DEF HandledOf
<1> QED
  BY <1>3, <1>4 DEF HandledOf

LEMMA StoreRemoveFound ==
  ASSUME PresenceAssumption, StoreInv, NEW r \in Replicas, RemoveFound(r)
  PROVE  StoreInv'
<1> USE TypeParts, TypePartsNext DEF StoreInv
<1> DEFINE x == running[r]["out"].char
<1>1. /\ guidStorage' = [guidStorage EXCEPT ![r][x] = None]
      /\ nameStorage' = [nameStorage EXCEPT ![r][ToUpper(CharName(x))] = None]
      /\ running' = [running EXCEPT ![r]["out"].found = FALSE]
      /\ running[r]["out"] # None
  BY DEF RemoveFound
<1>2. "out" \in Subjects
  BY DEF Subjects
<1>3. x \in Chars /\ [running[r]["out"] EXCEPT !.found = FALSE] \in HandledOf("out")
  BY <1>1, OutRun
<1>4. running' = [running EXCEPT ![r]["out"] = [running[r]["out"] EXCEPT !.found = FALSE]]
  BY <1>1, <1>2 DEF RunOK
<1>5. RunOK(running)'
  BY <1>2, <1>3, <1>4, RunType
<1> HIDE DEF x
<1>6. ToUpper(CharName(x)) \in NameKeys
  BY <1>3, KeyOf
<1>7. StoreType'
  <2>1. guidStorage' \in [Replicas -> [Chars -> Entries \cup {None}]]
    BY <1>1, <1>3, TableType DEF StoreType
  <2>2. nameStorage' \in [Replicas -> [NameKeys -> Nat \cup {None}]]
    BY <1>1, <1>6, TableType DEF StoreType
  <2> QED
    BY <2>1, <2>2 DEF StoreType, RemoveFound
<1>8. FaultType' /\ GwType' /\ BoxOK(inboxes)'
  BY GatewaysKept DEF RemoveFound, faultVars, BoxOK
<1>9. IndexesAgree'
  <2> SUFFICES ASSUME NEW q \in Replicas, NEW c \in Chars
               PROVE  nameStorage'[q][ToUpper(CharName(c))] =
                        IF guidStorage'[q][c] = None THEN None ELSE guidStorage'[q][c].id
    BY DEF IndexesAgree
  <2>1. nameStorage[q][ToUpper(CharName(c))] =
          IF guidStorage[q][c] = None THEN None ELSE guidStorage[q][c].id
    BY DEF IndexesAgree
  <2>2. ToUpper(CharName(c)) \in NameKeys
    BY KeyOf
  <2>3. CASE q = r /\ c = x
    BY <1>1, <1>3, <1>6, <2>3 DEF StoreType
  <2>4. CASE ~(q = r /\ c = x)
    <3>1. guidStorage'[q][c] = guidStorage[q][c]
      BY <1>1, <1>3, <2>4 DEF StoreType
    <3>2. q = r => ToUpper(CharName(c)) # ToUpper(CharName(x))
      BY <1>3, <2>4, KeyOf
    <3>3. nameStorage'[q][ToUpper(CharName(c))] = nameStorage[q][ToUpper(CharName(c))]
      BY <1>1, <1>6, <2>2, <3>2 DEF StoreType
    <3> QED
      BY <2>1, <3>1, <3>3
  <2> QED
    BY <2>3, <2>4
<1> QED
  BY <1>5, <1>7, <1>8, <1>9

LEMMA StoreHandleUpdates ==
  ASSUME PresenceAssumption, StoreInv, NEW r \in Replicas, HandleUpdates(r)
  PROVE  StoreInv'
<1> USE TypeParts, TypePartsNext DEF StoreInv
<1> DEFINE e == Head(inboxes[r]["upd"])
           new(c) == IF c \in DOMAIN e.upd /\ guidStorage[r][c] # None
                     THEN [guidStorage[r][c] EXCEPT !.val = Over(e.upd[c], guidStorage[r][c].val)]
                     ELSE guidStorage[r][c]
<1>1. /\ guidStorage' = [guidStorage EXCEPT ![r] = [c \in Chars |-> new(c)]]
      /\ running' = [running EXCEPT ![r]["upd"] = e]
      /\ inboxes[r]["upd"] # <<>>
      /\ inboxes' = [inboxes EXCEPT ![r]["upd"] = Tail(@)]
  BY DEF HandleUpdates
<1>2. "upd" \in Subjects
  BY DEF Subjects
<1>3. BoxOK(inboxes)' /\ e \in EventsOf("upd")
  BY <1>1, <1>2, TakeType
<1> HIDE DEF e
<1>4. e \in HandledOf("upd") /\ \A c \in DOMAIN e.upd : e.upd[c] \in Updates
  BY <1>3, UpdEvent
<1>5. RunOK(running)'
  BY <1>1, <1>2, <1>4, RunType
<1>6. ASSUME NEW c \in Chars
      PROVE  /\ new(c) \in Entries \cup {None}
             /\ new(c) = None <=> guidStorage[r][c] = None
             /\ guidStorage[r][c] # None => new(c).id = guidStorage[r][c].id
  <2>1. guidStorage[r][c] \in Entries \cup {None}
    BY DEF StoreType
  <2>2. CASE c \in DOMAIN e.upd /\ guidStorage[r][c] # None
    <3>1. guidStorage[r][c] \in Entries /\ guidStorage[r][c].val \in Values
      BY <2>1, <2>2 DEF Entries
    <3>2. Over(e.upd[c], guidStorage[r][c].val) \in Values
      BY <1>4, <2>2, <3>1, ValuesMerge
    <3>3. new(c) \in Entries /\ new(c).id = guidStorage[r][c].id
      BY <2>2, <3>1, <3>2, EntryUpdated
    <3> HIDE DEF new
    <3> QED
      BY <2>2, <3>3 DEF PresenceAssumption
  <2>3. CASE ~(c \in DOMAIN e.upd /\ guidStorage[r][c] # None)
    BY <2>1, <2>3
  <2> QED
    BY <2>2, <2>3
<1> HIDE DEF new
<1>7. StoreType'
  <2>1. guidStorage' \in [Replicas -> [Chars -> Entries \cup {None}]]
    BY <1>1, <1>6 DEF StoreType
  <2> QED
    BY <2>1 DEF StoreType, HandleUpdates
<1>8. FaultType' /\ GwType'
  BY GatewaysKept DEF HandleUpdates, faultVars
<1>9. IndexesAgree'
  <2>1. nameStorage' = nameStorage
    BY DEF HandleUpdates
  <2>2. ASSUME NEW q \in Replicas, NEW c \in Chars
        PROVE  /\ guidStorage'[q][c] = None <=> guidStorage[q][c] = None
               /\ guidStorage[q][c] # None => guidStorage'[q][c].id = guidStorage[q][c].id
    BY <1>1, <1>6 DEF StoreType
  <2> QED
    BY <2>1, <2>2 DEF IndexesAgree
<1> QED
  BY <1>3, <1>5, <1>7, <1>8, <1>9

LEMMA StoreHandleFriends ==
  ASSUME PresenceAssumption, StoreInv, NEW r \in Replicas, HandleFriends(r)
  PROVE  StoreInv'
<1> USE TypeParts, TypePartsNext DEF StoreInv
<1>1. {"in", "out", "upd"} \subseteq Subjects
  BY DEF Subjects
<1>2. \A s \in Subjects : running[r][s] # None => running[r][s] \in HandledOf(s)
  BY DEF RunOK
<1>3. RunOK(running)'
  <2>1. PICK s \in {"in", "out", "upd"} : running' = [running EXCEPT ![r][s] = None]
    BY DEF HandleFriends
  <2> QED
    BY <1>1, <2>1, RunType
<1>4. onlineInfo' \in [Replicas -> [Chars -> Values \cup {None}]]
  <2>1. onlineInfo \in [Replicas -> [Chars -> Values \cup {None}]]
    BY DEF StoreType
  <2>2. CASE running[r]["in"] # None /\ onlineInfo' = [onlineInfo EXCEPT ![r][running[r]["in"].char] = running[r]["in"].val]
    <3>1. running[r]["in"] \in EventsOf("in")
      BY <1>1, <1>2, <2>2 DEF HandledOf
    <3>2. running[r]["in"].char \in Chars /\ running[r]["in"].val \in Values
      BY <3>1, InEvent
    <3> QED
      BY <2>1, <2>2, <3>2, TableType
  <2>3. CASE running[r]["out"] # None /\ onlineInfo' = [onlineInfo EXCEPT ![r][running[r]["out"].char] = None]
    <3>1. running[r]["out"].char \in Chars
      BY <2>3, OutRun
    <3> QED
      BY <2>1, <2>3, <3>1, TableType
  <2>4. CASE /\ running[r]["upd"] # None
             /\ onlineInfo' = [onlineInfo EXCEPT ![r] = [c \in Chars |->
                    IF c \in DOMAIN running[r]["upd"].upd /\ @[c] # None
                    THEN Over(running[r]["upd"].upd[c], @[c]) ELSE @[c]]]
    <3>1. running[r]["upd"] \in EventsOf("upd")
      BY <1>1, <1>2, <2>4 DEF HandledOf
    <3>2. \A c \in DOMAIN running[r]["upd"].upd : running[r]["upd"].upd[c] \in Updates
      BY <3>1, UpdEvent
    <3>3. ASSUME NEW c \in Chars, c \in DOMAIN running[r]["upd"].upd, onlineInfo[r][c] # None
          PROVE  Over(running[r]["upd"].upd[c], onlineInfo[r][c]) \in Values
      <4>1. onlineInfo[r][c] \in Values
        BY <2>1, <3>3
      <4> QED
        BY <3>2, <3>3, <4>1, ValuesMerge
    <3> QED
      BY <2>1, <2>4, <3>3
  <2> QED
    BY <2>2, <2>3, <2>4 DEF HandleFriends
<1>5. StoreType' /\ IndexesAgree'
  BY <1>4, IndexesKept DEF StoreType, HandleFriends, storageVars
<1>6. FaultType' /\ GwType' /\ BoxOK(inboxes)'
  BY GatewaysKept DEF HandleFriends, faultVars, BoxOK
<1> QED
  BY <1>3, <1>5, <1>6

\* RemoveAllWithGatewayID takes the same characters from both indexes.
LEMMA RemoveAll ==
  ASSUME PresenceAssumption, StoreInv, NEW r \in Replicas, NEW g,
         RemoveAllWithGatewayID(r, g), onlineInfo' = onlineInfo
  PROVE  /\ StoreType' /\ IndexesAgree'
         /\ \A q \in Replicas, c \in Chars :
              guidStorage'[q][c] = IF q = r /\ guidStorage[r][c] # None /\ guidStorage[r][c].gw = g
                                   THEN None ELSE guidStorage[q][c]
<1> USE TypeParts DEF StoreInv
<1> DEFINE gone == OfGateway(r, g)
<1>1. /\ guidStorage' = [guidStorage EXCEPT ![r] = [c \in Chars |-> IF c \in gone THEN None ELSE @[c]]]
      /\ nameStorage' = [nameStorage EXCEPT ![r] = [k \in NameKeys |->
              IF \E c \in gone : k = ToUpper(CharName(c)) THEN None ELSE @[k]]]
  BY DEF RemoveAllWithGatewayID
<1>2. gone = {c \in Chars : guidStorage[r][c] # None /\ guidStorage[r][c].gw = g}
  BY DEF OfGateway
<1> HIDE DEF gone
<1>3. \A q \in Replicas, c \in Chars :
        guidStorage'[q][c] = IF q = r /\ c \in gone THEN None ELSE guidStorage[q][c]
  BY <1>1 DEF StoreType
<1>4. \A q \in Replicas, k \in NameKeys :
        nameStorage'[q][k] = IF q = r /\ (\E c \in gone : k = ToUpper(CharName(c)))
                             THEN None ELSE nameStorage[q][k]
  BY <1>1 DEF StoreType
<1>5. StoreType'
  BY <1>1 DEF StoreType
<1>6. IndexesAgree'
  <2> SUFFICES ASSUME NEW q \in Replicas, NEW c \in Chars
               PROVE  nameStorage'[q][ToUpper(CharName(c))] =
                        IF guidStorage'[q][c] = None THEN None ELSE guidStorage'[q][c].id
    BY DEF IndexesAgree
  <2>1. nameStorage[q][ToUpper(CharName(c))] =
          IF guidStorage[q][c] = None THEN None ELSE guidStorage[q][c].id
    BY DEF IndexesAgree
  <2>2. ToUpper(CharName(c)) \in NameKeys
    BY KeyOf
  <2>3. (\E d \in gone : ToUpper(CharName(c)) = ToUpper(CharName(d))) <=> c \in gone
    BY <1>2, KeyOf
  <2> QED
    BY <1>3, <1>4, <2>1, <2>2, <2>3
<1> QED
  BY <1>2, <1>3, <1>5, <1>6

LEMMA StoreHandleGWRemoved ==
  ASSUME PresenceAssumption, StoreInv, NEW r \in Replicas, HandleGWRemoved(r)
  PROVE  StoreInv'
<1> USE TypeParts, TypePartsNext DEF StoreInv
<1>1. RemoveAllWithGatewayID(r, Head(removed)) /\ onlineInfo' = onlineInfo
  BY DEF HandleGWRemoved
<1>2. StoreType' /\ IndexesAgree'
  BY <1>1, RemoveAll
<1>3. FaultType' /\ GwType' /\ RunOK(running)'
  BY GatewaysKept DEF HandleGWRemoved, RunOK
<1>4. BoxOK(inboxes)'
  <2>1. CASE inboxes' = inboxes
    BY <2>1 DEF BoxOK
  <2>2. CASE inboxes' = Publish(inboxes, "gone", [gw |-> Head(removed)])
    <3>1. Head(removed) \in Gateways
      BY HeadType DEF HandleGWRemoved, FaultType
    <3>2. [gw |-> Head(removed)] \in EventsOf("gone")
      BY <3>1 DEF EventsOf
    <3> QED
      BY <2>2, <3>2, PublishType DEF Subjects
  <2> QED
    BY <2>1, <2>2 DEF HandleGWRemoved
<1> QED
  BY <1>2, <1>3, <1>4

LEMMA StoreHandleCharsDisconnected ==
  ASSUME PresenceAssumption, StoreInv, NEW r \in Replicas, HandleCharsDisconnected(r)
  PROVE  StoreInv'
<1> USE TypeParts, TypePartsNext DEF StoreInv
<1>1. RemoveAllWithGatewayID(r, Head(inboxes[r]["gone"]).gw) /\ onlineInfo' = onlineInfo
  BY DEF HandleCharsDisconnected
<1>2. StoreType' /\ IndexesAgree'
  BY <1>1, RemoveAll
<1>3. FaultType' /\ GwType' /\ RunOK(running)'
  BY GatewaysKept DEF HandleCharsDisconnected, RunOK, faultVars
<1>4. BoxOK(inboxes)'
  <2>1. "gone" \in Subjects
    BY DEF Subjects
  <2> QED
    BY <2>1, TakeType DEF HandleCharsDisconnected
<1> QED
  BY <1>2, <1>3, <1>4

\* The two indexes of a replica's online storage agree, for every number of
\* gateways, characters and replicas, in every order of the events, with
\* removals interrupted between the lookup and the deletions, failing sends,
\* crashed gateways and players of any speed (charactersOnlineInMem).
THEOREM IndexesAreConsistent == PresenceSpec => [](PresenceTypeOK /\ IndexesAgree)
<1> USE PresenceConstants
<1>1. PresenceInit => StoreInv
  <2>1. ASSUME PresenceInit PROVE IndexesAgree
    <3>1. \A c \in Chars : ToUpper(CharName(c)) \in NameKeys
      BY KeyOf
    <3> QED
      BY <2>1, <3>1 DEF PresenceInit, IndexesAgree
  <2> QED
    BY <2>1, TypeInit DEF StoreInv
<1>2. StoreInv /\ [PresenceNext]_presenceVars => StoreInv'
  <2> SUFFICES ASSUME StoreInv, [PresenceNext]_presenceVars PROVE StoreInv'
    OBVIOUS
  <2>1. ASSUME PresenceTypeOK', UNCHANGED storageVars PROVE StoreInv'
    BY <2>1, IndexesKept DEF StoreInv
  <2>2. ASSUME NEW c \in Chars, NEW g \in Gateways, Login(c, g) PROVE StoreInv'
    BY <2>1, <2>2, TypeLogin DEF StoreInv, Login
  <2>3. ASSUME NEW c \in Chars, Logout(c) PROVE StoreInv'
    BY <2>1, <2>3, TypeLogout DEF StoreInv, Logout
  <2>4. ASSUME NEW c \in Chars, NEW f \in Fields, Update(c, f) PROVE StoreInv'
    BY <2>1, <2>4, TypeUpdate DEF StoreInv, Update
  <2>5. ASSUME NEW g \in Gateways, Collect(g) PROVE StoreInv'
    BY <2>1, <2>5, TypeCollect DEF StoreInv, Collect
  <2>6. ASSUME NEW g \in Gateways, OpenBarrier(g) PROVE StoreInv'
    BY <2>1, <2>6, TypeOpenBarrier DEF StoreInv, OpenBarrier
  <2>7. ASSUME NEW g \in Gateways, Crash(g) PROVE StoreInv'
    BY <2>1, <2>7, TypeCrash DEF StoreInv, Crash
  <2>8. ASSUME NEW g \in Gateways, RegistryDrops(g) PROVE StoreInv'
    BY <2>1, <2>8, TypeRegistryDrops DEF StoreInv, RegistryDrops
  <2>9. CASE UNCHANGED presenceVars
    <3>1. PresenceTypeOK'
      BY <2>9 DEF presenceVars, PresenceTypeOK, StoreInv
    <3> QED
      BY <2>1, <2>9, <3>1 DEF presenceVars, storageVars
  <2> QED
    BY <2>2, <2>3, <2>4, <2>5, <2>6, <2>7, <2>8, <2>9, StoreHandleLoggedIn, StoreHandleLoggedOut,
       StoreRemoveFound, StoreHandleUpdates, StoreHandleFriends, StoreHandleGWRemoved,
       StoreHandleCharsDisconnected, Zenon DEF PresenceNext
<1> QED
  BY <1>1, <1>2, PTL DEF PresenceSpec, StoreInv

-----------------------------------------------------------------------------
(* The barrier of one gateway: s is its channel, b its buffer, t what was  *)
(* published last of character c.  Where the updates of a field are in the *)
(* channel, and what is known of it: the youngest of them, else what the   *)
(* buffer has, else what was published.                                    *)

Carried(s, c, f) == {i \in 1..Len(s) : s[i].char = c /\ f \in DOMAIN s[i].upd}
Waiting(s, b, c) == c \in DOMAIN b \/ \E i \in 1..Len(s) : s[i].char = c
Behind(b, t, c, f) == IF c \in DOMAIN b /\ f \in DOMAIN b[c] THEN b[c][f] ELSE t[f]
Known(s, b, t, c, f, v) ==
  \/ \E i \in Carried(s, c, f) : (\A j \in Carried(s, c, f) : j <= i) /\ s[i].upd[f] = v
  \/ Carried(s, c, f) = {} /\ Behind(b, t, c, f) = v

\* A character that plays is waited for in no barrier but its own gateway's,
\* and that one knows its newest values.
FreshOf(c) ==
  session[c].open =>
    /\ session[c].gw \in up
    /\ setting.patient =>
         /\ \A g \in up : Waiting(updsChan[g], buffer[g], c) => g = session[c].gw
         /\ \A f \in Fields : Known(updsChan[session[c].gw], buffer[session[c].gw], told[c],
                                    c, f, session[c].val[f])
BarrierInv == PresenceTypeOK /\ \A c \in Chars : FreshOf(c)

LEMMA KnownIsLatest ==
  ASSUME NEW g \in Gateways, NEW c, NEW f, NEW v, Known(updsChan[g], buffer[g], told[c], c, f, v)
  PROVE  Latest(g, c, f) = v
<1> DEFINE at == Carried(updsChan[g], c, f)
<1>1. Latest(g, c, f) = IF at # {} THEN updsChan[g][CHOOSE i \in at : \A j \in at : j <= i].upd[f]
                        ELSE Behind(buffer[g], told[c], c, f)
  BY DEF Latest, Behind, Carried
<1>2. CASE at = {}
  BY <1>1, <1>2 DEF Known
<1>3. CASE at # {}
  <2>1. PICK i \in at : (\A j \in at : j <= i) /\ updsChan[g][i].upd[f] = v
    BY <1>3 DEF Known
  <2>2. \A x \in at : x \in Nat
    BY DEF Carried
  <2>3. ASSUME NEW k \in at, \A j \in at : j <= k PROVE k = i
    <3>1. k <= i /\ i <= k /\ k \in Nat /\ i \in Nat
      BY <2>1, <2>2, <2>3
    <3> HIDE DEF at
    <3> QED
      BY <3>1
  <2> HIDE DEF at
  <2>4. (CHOOSE k \in at : \A j \in at : j <= k) = i
    BY <2>1, <2>3
  <2> QED
    BY <1>1, <1>3, <2>1, <2>4
<1> QED
  BY <1>2, <1>3

\* A character of which neither its session nor any barrier is touched.
LEMMA FreshKept ==
  ASSUME NEW c \in Chars, FreshOf(c), session'[c] = session[c], told'[c] = told[c],
         up' \subseteq up, session[c].open => session[c].gw \in up',
         setting'.patient = setting.patient,
         \A g \in up' : updsChan'[g] = updsChan[g] /\ buffer'[g] = buffer[g]
  PROVE  FreshOf(c)'
BY DEF FreshOf

\* An update is appended to the channel.
LEMMA Appended ==
  ASSUME NEW s \in Seq(ChanRecs), NEW u \in ChanRecs, NEW b, NEW t, NEW c
  PROVE  /\ u.char # c => (Waiting(Append(s, u), b, c) <=> Waiting(s, b, c))
         /\ \A f, v : /\ ~(u.char = c /\ f \in DOMAIN u.upd) /\ Known(s, b, t, c, f, v)
                           => Known(Append(s, u), b, t, c, f, v)
                      /\ u.char = c /\ f \in DOMAIN u.upd /\ u.upd[f] = v
                           => Known(Append(s, u), b, t, c, f, v)
<1> DEFINE a == Append(s, u)
           n == Len(s) + 1
<1>1. Len(a) = n /\ Len(s) \in Nat /\ n \in Nat /\ a[n] = u /\ \A i \in 1..Len(s) : a[i] = s[i]
  OBVIOUS
<1>2. 1..Len(a) = 1..Len(s) \cup {n}
  BY <1>1
<1>3. \A i \in 1..Len(s) : i <= n
  BY <1>1
<1> HIDE DEF a, n
<1>4. u.char # c => (Waiting(a, b, c) <=> Waiting(s, b, c))
  <2>1. ASSUME u.char # c
        PROVE  (\E i \in 1..Len(a) : a[i].char = c) <=> \E i \in 1..Len(s) : s[i].char = c
    BY <1>1, <1>2, <2>1
  <2> QED
    BY <2>1 DEF Waiting
<1>5. ASSUME NEW f, NEW v, ~(u.char = c /\ f \in DOMAIN u.upd), Known(s, b, t, c, f, v)
      PROVE  Known(a, b, t, c, f, v)
  <2>1. Carried(a, c, f) = Carried(s, c, f)
    BY <1>1, <1>2, <1>5 DEF Carried
  <2>2. \A i \in Carried(s, c, f) : a[i] = s[i]
    BY <1>1 DEF Carried
  <2> QED
    BY <1>5, <2>1, <2>2 DEF Known
<1>6. ASSUME NEW f, NEW v, u.char = c, f \in DOMAIN u.upd, u.upd[f] = v
      PROVE  Known(a, b, t, c, f, v)
  <2>1. n \in Carried(a, c, f)
    BY <1>1, <1>2, <1>6 DEF Carried
  <2>2. \A j \in Carried(a, c, f) : j <= n
    BY <1>1, <1>2, <1>3 DEF Carried
  <2> QED
    BY <1>1, <1>6, <2>1, <2>2 DEF Known
<1> QED
  BY <1>4, <1>5, <1>6 DEF a

\* The oldest update goes from the channel to the buffer.
Merged(b, u) ==
  Over(Single(u.char, IF u.char \in DOMAIN b THEN MergeCharUpdates(b[u.char], u.upd) ELSE u.upd), b)

LEMMA Taken ==
  ASSUME NEW s \in Seq(ChanRecs), s # <<>>, NEW b, NEW t, NEW c
  PROVE  /\ Waiting(Tail(s), Merged(b, Head(s)), c) => Waiting(s, b, c)
         /\ \A f, v : Known(s, b, t, c, f, v) => Known(Tail(s), Merged(b, Head(s)), t, c, f, v)
<1> DEFINE a == Tail(s)
           u == Head(s)
           m == Merged(b, u)
<1>1. Len(s) \in Nat /\ Len(s) >= 1 /\ Len(a) = Len(s) - 1 /\ u = s[1] /\ \A i \in 1..Len(a) : a[i] = s[i + 1]
  OBVIOUS
<1>2. 1 \in 1..Len(s) /\ (\A i \in 1..Len(a) : i + 1 \in 1..Len(s) /\ i \in Nat)
      /\ (\A i \in 1..Len(s) : i # 1 => i - 1 \in 1..Len(a) /\ (i - 1) + 1 = i /\ i \in Nat)
  BY <1>1
<1> HIDE DEF a, u
<1> DEFINE x == IF u.char \in DOMAIN b THEN MergeCharUpdates(b[u.char], u.upd) ELSE u.upd
<1>3. m = Over(Single(u.char, x), b)
  BY DEF Merged
<1>4. /\ DOMAIN m = {u.char} \cup DOMAIN b /\ m[u.char] = x
      /\ \A d \in DOMAIN b : d # u.char => m[d] = b[d]
  <2> HIDE DEF x, m
  <2> QED
    BY <1>3 DEF Over, Single
<1>5. /\ \A f \in DOMAIN u.upd : f \in DOMAIN x /\ x[f] = u.upd[f]
      /\ u.char \in DOMAIN b => \A f : f \notin DOMAIN u.upd =>
             (f \in DOMAIN x <=> f \in DOMAIN b[u.char]) /\ (f \in DOMAIN x => x[f] = b[u.char][f])
      /\ u.char \notin DOMAIN b => DOMAIN x = DOMAIN u.upd
  <2>1. CASE u.char \in DOMAIN b
    <3>1. x = Over(u.upd, b[u.char])
      BY <2>1 DEF MergeCharUpdates
    <3> HIDE DEF x
    <3> QED
      BY <2>1, <3>1 DEF Over
  <2>2. CASE u.char \notin DOMAIN b
    BY <2>2
  <2> QED
    BY <2>1, <2>2
<1> HIDE DEF x, m
<1>6. Waiting(a, m, c) => Waiting(s, b, c)
  BY <1>1, <1>2, <1>4 DEF Waiting
<1>7. ASSUME NEW f, NEW v, Known(s, b, t, c, f, v) PROVE Known(a, m, t, c, f, v)
  <2>1. \A i \in 1..Len(a) : i \in Carried(a, c, f) <=> i + 1 \in Carried(s, c, f)
    BY <1>1, <1>2 DEF Carried
  <2>2. Carried(a, c, f) \subseteq 1..Len(a) /\ Carried(s, c, f) \subseteq 1..Len(s)
    BY DEF Carried
  <2>3. CASE \E i \in Carried(s, c, f) : i # 1 /\ (\A j \in Carried(s, c, f) : j <= i) /\ s[i].upd[f] = v
    <3>1. PICK i \in Carried(s, c, f) : i # 1 /\ (\A j \in Carried(s, c, f) : j <= i) /\ s[i].upd[f] = v
      BY <2>3
    <3>2. i \in 1..Len(s) /\ i - 1 \in 1..Len(a) /\ (i - 1) + 1 = i /\ i \in Nat
      BY <1>2, <2>2, <3>1
    <3>3. i - 1 \in Carried(a, c, f) /\ a[i - 1] = s[i]
      BY <1>1, <2>1, <3>2
    <3>4. ASSUME NEW j \in Carried(a, c, f) PROVE j <= i - 1
      <4>1. j \in Nat /\ j + 1 <= i
        BY <1>2, <2>1, <2>2, <3>1
      <4> QED
        BY <3>2, <4>1
    <3> QED
      BY <3>1, <3>3, <3>4 DEF Known
  <2>4. CASE 1 \in Carried(s, c, f) /\ (\A j \in Carried(s, c, f) : j <= 1) /\ s[1].upd[f] = v
    <3>1. Carried(a, c, f) = {}
      <4>1. \A j \in Nat : j >= 1 => ~(j + 1 <= 1)
        OBVIOUS
      <4>2. \A j \in 1..Len(a) : j \in Nat /\ j >= 1
        BY <1>1
      <4> QED
        BY <2>1, <2>2, <2>4, <4>1, <4>2
    <3>2. u.char = c /\ f \in DOMAIN u.upd /\ u.upd[f] = v
      BY <1>1, <2>4 DEF Carried
    <3>3. Behind(m, t, c, f) = v
      BY <1>4, <1>5, <3>2 DEF Behind
    <3> QED
      BY <3>1, <3>3 DEF Known
  <2>5. CASE Carried(s, c, f) = {} /\ Behind(b, t, c, f) = v
    <3>1. Carried(a, c, f) = {}
      BY <2>1, <2>2, <2>5
    <3>2. ~(u.char = c /\ f \in DOMAIN u.upd)
      BY <1>1, <1>2, <2>5 DEF Carried
    <3>3. Behind(m, t, c, f) = Behind(b, t, c, f)
      <4>1. CASE u.char # c
        BY <1>4, <4>1 DEF Behind
      <4>2. CASE u.char = c
        BY <1>4, <1>5, <3>2, <4>2 DEF Behind
      <4> QED
        BY <4>1, <4>2
    <3> QED
      BY <2>5, <3>1, <3>3 DEF Known
  <2> QED
    BY <1>7, <2>3, <2>4, <2>5 DEF Known
<1> QED
  BY <1>6, <1>7 DEF a, u, m

\* The values of some characters are published; the buffer is kept, or emptied
\* when these were all.
LEMMA Published ==
  ASSUME NEW s, NEW b, NEW t \in Values, NEW c, NEW f \in Fields, NEW v, Known(s, b, t, c, f, v),
         NEW cs \in SUBSET DOMAIN b, NEW n, n = IF c \in cs THEN Over(b[c], t) ELSE t
  PROVE  /\ Known(s, b, n, c, f, v)
         /\ cs = DOMAIN b => Known(s, NoUpdate, n, c, f, v)
<1>1. f \in DOMAIN t
  BY DEF Values
<1>2. Behind(b, n, c, f) = Behind(b, t, c, f)
  BY <1>1 DEF Behind, Over
<1>3. cs = DOMAIN b => Behind(NoUpdate, n, c, f) = Behind(b, t, c, f)
  BY <1>1, NothingCollected DEF Behind, Over
<1> QED
  BY <1>2, <1>3 DEF Known

LEMMA BarrierLogin ==
  ASSUME BarrierInv, NEW c \in Chars, NEW g \in Gateways, Login(c, g)
  PROVE  BarrierInv'
<1> USE TypeParts DEF BarrierInv
<1> DEFINE s == [session[c] EXCEPT !.gw = g, !.id = @ + 1, !.open = TRUE]
<1>1. PresenceTypeOK'
  BY TypeLogin
<1>2. /\ session' = [session EXCEPT ![c] = s] /\ told' = [told EXCEPT ![c] = s.val]
      /\ UNCHANGED <<updsChan, buffer, up>> /\ setting'.patient = setting.patient
  BY DEF Login, faultVars, FaultType, SettingRecs
<1>3. s.gw = g /\ s.val = session[c].val /\ s \in SessionRecs
  BY NewSession DEF GwType
<1> HIDE DEF s
<1>4. session'[c] = s /\ told'[c] = s.val
  BY <1>2 DEF GwType
<1>5. ASSUME NEW d \in Chars, d # c PROVE FreshOf(d)'
  <2>1. session'[d] = session[d] /\ told'[d] = told[d]
    BY <1>2, <1>5 DEF GwType
  <2>2. session[d].open => session[d].gw \in up'
    BY <1>2 DEF FreshOf
  <2> QED
    BY <1>2, <2>1, <2>2, FreshKept
<1>6. FreshOf(c)'
  <2>1. g \in up
    BY DEF Login
  <2>2. ASSUME setting.patient, NEW h \in up PROVE ~Waiting(updsChan[h], buffer[h], c)
    BY <2>2 DEF Login, InBarrier, Waiting
  <2>3. ASSUME setting.patient, NEW f \in Fields
        PROVE  Known(updsChan[g], buffer[g], s.val, c, f, s.val[f])
    <3>1. ~Waiting(updsChan[g], buffer[g], c)
      BY <2>1, <2>2, <2>3
    <3> QED
      BY <3>1 DEF Known, Carried, Behind, Waiting
  <2> QED
    BY <1>2, <1>3, <1>4, <2>1, <2>2, <2>3 DEF FreshOf
<1> QED
  BY <1>1, <1>5, <1>6

LEMMA BarrierLogout ==
  ASSUME BarrierInv, NEW c \in Chars, Logout(c)
  PROVE  BarrierInv'
<1> USE TypeParts DEF BarrierInv
<1>1. PresenceTypeOK'
  BY TypeLogout
<1>2. session' = [session EXCEPT ![c].open = FALSE] /\ UNCHANGED <<gwVars, up, setting>>
  BY DEF Logout, faultVars
<1>3. ASSUME NEW d \in Chars, d # c PROVE FreshOf(d)'
  <2>1. session'[d] = session[d]
    BY <1>2, <1>3 DEF GwType
  <2>2. session[d].open => session[d].gw \in up'
    BY <1>2 DEF FreshOf
  <2> QED
    BY <1>2, <2>1, <2>2, FreshKept DEF gwVars
<1>4. FreshOf(c)'
  <2>1. session[c] \in SessionRecs
    BY DEF GwType
  <2>2. ~session'[c].open
    BY <1>2, <2>1 DEF GwType, SessionRecs
  <2> QED
    BY <2>2 DEF FreshOf
<1> QED
  BY <1>1, <1>3, <1>4

LEMMA BarrierUpdate ==
  ASSUME BarrierInv, NEW c \in Chars, NEW f \in Fields, Update(c, f)
  PROVE  BarrierInv'
<1> USE TypeParts DEF BarrierInv
<1> DEFINE v == session[c].val[f] + 1
           u == [char |-> c, upd |-> Single(f, v)]
           g == session[c].gw
<1>1. PresenceTypeOK'
  BY TypeUpdate
<1>2. /\ session' = [session EXCEPT ![c].val[f] = v]
      /\ updsChan' = [updsChan EXCEPT ![g] = Append(@, u)]
      /\ UNCHANGED <<buffer, told, up>> /\ setting'.patient = setting.patient
      /\ session[c].open
  BY DEF Update, faultVars, FaultType, SettingRecs
<1>3. session[c] \in SessionRecs
  BY DEF GwType
<1>4. v \in Nat /\ session[c].val \in Values
  BY <1>3 DEF SessionRecs, Values
<1>5. u \in ChanRecs /\ u.char = c /\ DOMAIN u.upd = {f} /\ u.upd[f] = v
  <2>1. Single(f, v) \in [{f} -> Nat]
    BY <1>4 DEF Single
  <2>2. Single(f, v) \in Updates
    BY <2>1 DEF Updates
  <2> QED
    BY <2>2, SingleIs DEF ChanRecs
<1>6. /\ session'[c].open = session[c].open /\ session'[c].gw = g /\ session'[c].val[f] = v
      /\ \A x \in Fields : x # f => session'[c].val[x] = session[c].val[x]
  <2>1. session'[c] = [session[c] EXCEPT !.val[f] = v]
    BY <1>2 DEF GwType
  <2>2. /\ session'[c].open = session[c].open /\ session'[c].gw = g
        /\ session'[c].val = [session[c].val EXCEPT ![f] = v]
    BY <1>3, <2>1 DEF SessionRecs
  <2> HIDE DEF v
  <2> QED
    BY <1>4, <2>2 DEF Values
<1>7. g \in up /\ up \subseteq Gateways
  BY <1>2 DEF FreshOf, FaultType
<1>8. updsChan[g] \in Seq(ChanRecs)
  BY <1>7 DEF GwType
<1>9. updsChan'[g] = Append(updsChan[g], u) /\ \A h \in up : h # g => updsChan'[h] = updsChan[h]
  BY <1>2, <1>7 DEF GwType
<1> HIDE DEF u, v, g
<1>10. ASSUME NEW d \in Chars, d # c, setting.patient, session[d].open
       PROVE  /\ \A h \in up : Waiting(updsChan'[h], buffer[h], d) => h = session[d].gw
              /\ \A x \in Fields : Known(updsChan'[session[d].gw], buffer[session[d].gw], told[d],
                                         d, x, session[d].val[x])
  <2>1. /\ session[d].gw \in up
        /\ \A h \in up : Waiting(updsChan[h], buffer[h], d) => h = session[d].gw
        /\ \A x \in Fields : Known(updsChan[session[d].gw], buffer[session[d].gw], told[d],
                                   d, x, session[d].val[x])
    BY <1>10 DEF FreshOf
  <2>2. ASSUME NEW h \in up
        PROVE  Waiting(updsChan'[h], buffer[h], d) <=> Waiting(updsChan[h], buffer[h], d)
    <3>1. CASE h # g
      BY <1>9, <3>1
    <3>2. CASE h = g
      <4>1. Waiting(Append(updsChan[g], u), buffer[g], d) <=> Waiting(updsChan[g], buffer[g], d)
        BY <1>5, <1>8, <1>10, Appended
      <4> QED
        BY <1>9, <3>2, <4>1
    <3> QED
      BY <3>1, <3>2
  <2>3. ASSUME NEW x \in Fields
        PROVE  Known(updsChan'[session[d].gw], buffer[session[d].gw], told[d], d, x, session[d].val[x])
    <3>1. CASE session[d].gw # g
      BY <1>9, <2>1, <3>1
    <3>2. CASE session[d].gw = g
      <4>1. Known(updsChan[g], buffer[g], told[d], d, x, session[d].val[x])
        BY <2>1, <3>2
      <4>2. Known(Append(updsChan[g], u), buffer[g], told[d], d, x, session[d].val[x])
        BY <1>5, <1>8, <1>10, <4>1, Appended
      <4> QED
        BY <1>9, <3>2, <4>2
    <3> QED
      BY <3>1, <3>2
  <2> QED
    BY <2>1, <2>2, <2>3
<1>11. ASSUME NEW d \in Chars, d # c PROVE FreshOf(d)'
  <2>1. session'[d] = session[d]
    BY <1>2, <1>11 DEF GwType
  <2>2. session[d].open => session[d].gw \in up
    BY DEF FreshOf
  <2> QED
    BY <1>2, <1>10, <1>11, <2>1, <2>2 DEF FreshOf
<1>12. FreshOf(c)'
  <2>1. setting.patient =>
          /\ \A h \in up : Waiting(updsChan[h], buffer[h], c) => h = g
          /\ \A x \in Fields : Known(updsChan[g], buffer[g], told[c], c, x, session[c].val[x])
    BY <1>2 DEF FreshOf, g
  <2>2. ASSUME setting.patient, NEW h \in up, h # g PROVE ~Waiting(updsChan'[h], buffer[h], c)
    BY <1>9, <2>1, <2>2
  <2>3. ASSUME setting.patient, NEW x \in Fields
        PROVE  Known(updsChan'[g], buffer[g], told[c], c, x, session'[c].val[x])
    <3>1. CASE x = f
      BY <1>5, <1>6, <1>8, <1>9, <3>1, Appended
    <3>2. CASE x # f
      BY <1>5, <1>6, <1>8, <1>9, <2>1, <2>3, <3>2, Appended
    <3> QED
      BY <3>1, <3>2
  <2> QED
    BY <1>2, <1>6, <1>7, <2>2, <2>3 DEF FreshOf
<1> QED
  BY <1>1, <1>11, <1>12

LEMMA BarrierCollect ==
  ASSUME BarrierInv, NEW g \in Gateways, Collect(g)
  PROVE  BarrierInv'
<1> USE TypeParts DEF BarrierInv
<1>1. PresenceTypeOK'
  BY TypeCollect
<1>2. /\ updsChan'[g] = Tail(updsChan[g]) /\ buffer'[g] = Merged(buffer[g], Head(updsChan[g]))
      /\ \A h \in Gateways : h # g => updsChan'[h] = updsChan[h] /\ buffer'[h] = buffer[h]
      /\ UNCHANGED <<session, told, up, setting>> /\ g \in up
  BY DEF Collect, GwType, Merged, faultVars
<1>3. updsChan[g] \in Seq(ChanRecs) /\ updsChan[g] # <<>> /\ up \subseteq Gateways
  BY DEF Collect, GwType, FaultType
<1>4. ASSUME NEW c \in Chars PROVE FreshOf(c)'
  <2>1. session[c].open => session[c].gw \in up
    BY DEF FreshOf
  <2>2. ASSUME setting.patient, session[c].open
        PROVE  /\ \A h \in up : Waiting(updsChan'[h], buffer'[h], c) => h = session[c].gw
               /\ \A f \in Fields : Known(updsChan'[session[c].gw], buffer'[session[c].gw], told[c],
                                          c, f, session[c].val[f])
    <3>1. /\ \A h \in up : Waiting(updsChan[h], buffer[h], c) => h = session[c].gw
          /\ \A f \in Fields : Known(updsChan[session[c].gw], buffer[session[c].gw], told[c],
                                     c, f, session[c].val[f])
      BY <2>2 DEF FreshOf
    <3>2. ASSUME NEW h \in up
          PROVE  Waiting(updsChan'[h], buffer'[h], c) => Waiting(updsChan[h], buffer[h], c)
      <4>1. CASE h # g
        BY <1>2, <1>3, <4>1
      <4>2. CASE h = g
        BY <1>2, <1>3, <4>2, Taken
      <4> QED
        BY <4>1, <4>2
    <3>3. ASSUME NEW f \in Fields
          PROVE  Known(updsChan'[session[c].gw], buffer'[session[c].gw], told[c], c, f, session[c].val[f])
      <4>1. CASE session[c].gw # g
        BY <1>2, <1>3, <2>1, <2>2, <3>1, <4>1
      <4>2. CASE session[c].gw = g
        BY <1>2, <1>3, <3>1, <4>2, Taken
      <4> QED
        BY <4>1, <4>2
    <3> QED
      BY <3>1, <3>2, <3>3
  <2> QED
    BY <1>2, <2>1, <2>2 DEF FreshOf
<1> QED
  BY <1>1, <1>4

LEMMA BarrierOpenBarrier ==
  ASSUME BarrierInv, NEW g \in Gateways, OpenBarrier(g)
  PROVE  BarrierInv'
<1> USE TypeParts DEF BarrierInv
<1>1. PresenceTypeOK'
  BY TypeOpenBarrier
<1>2. PICK cs \in SUBSET DOMAIN buffer[g] :
        /\ Sent(g, cs)
        /\ \/ cs = DOMAIN buffer[g] /\ buffer' = [buffer EXCEPT ![g] = NoUpdate]
           \/ buffer' = buffer
  BY DEF OpenBarrier
<1>3. UNCHANGED <<session, updsChan, up>> /\ setting'.patient = setting.patient /\ g \in up
  BY DEF OpenBarrier, faultVars, FaultType, SettingRecs
<1>4. /\ \A h \in Gateways : h # g => buffer'[h] = buffer[h]
      /\ buffer'[g] = buffer[g] \/ (cs = DOMAIN buffer[g] /\ buffer'[g] = NoUpdate)
      /\ DOMAIN buffer'[g] \subseteq DOMAIN buffer[g]
      /\ up \subseteq Gateways
  BY <1>2, NothingCollected DEF GwType, FaultType
<1>5. ASSUME NEW c \in Chars PROVE FreshOf(c)'
  <2>1. session[c].open => session[c].gw \in up
    BY DEF FreshOf
  <2>2. told'[c] = (IF c \in cs THEN Over(buffer[g][c], told[c]) ELSE told[c]) /\ told[c] \in Values
    BY <1>2 DEF Sent, GwType
  <2>3. ASSUME setting.patient, session[c].open
        PROVE  /\ \A h \in up : Waiting(updsChan[h], buffer'[h], c) => h = session[c].gw
               /\ \A f \in Fields : Known(updsChan[session[c].gw], buffer'[session[c].gw], told'[c],
                                          c, f, session[c].val[f])
    <3>1. /\ \A h \in up : Waiting(updsChan[h], buffer[h], c) => h = session[c].gw
          /\ \A f \in Fields : Known(updsChan[session[c].gw], buffer[session[c].gw], told[c],
                                     c, f, session[c].val[f])
      BY <2>3 DEF FreshOf
    <3>2. ASSUME NEW h \in up
          PROVE  Waiting(updsChan[h], buffer'[h], c) => Waiting(updsChan[h], buffer[h], c)
      <4>1. DOMAIN buffer'[h] \subseteq DOMAIN buffer[h]
        BY <1>4
      <4> QED
        BY <4>1 DEF Waiting
    <3>3. ASSUME NEW f \in Fields
          PROVE  Known(updsChan[session[c].gw], buffer'[session[c].gw], told'[c], c, f, session[c].val[f])
      <4>1. CASE session[c].gw # g
        <5>1. c \notin cs
          BY <1>2, <1>3, <3>1, <4>1 DEF Waiting
        <5> QED
          BY <1>4, <2>1, <2>2, <2>3, <3>1, <4>1, <5>1
      <4>2. CASE session[c].gw = g
        <5>1. Known(updsChan[g], buffer[g], told[c], c, f, session[c].val[f])
          BY <3>1, <4>2
        <5>2. /\ Known(updsChan[g], buffer[g], told'[c], c, f, session[c].val[f])
              /\ cs = DOMAIN buffer[g] => Known(updsChan[g], NoUpdate, told'[c], c, f, session[c].val[f])
          BY <2>2, <5>1, Published
        <5> QED
          BY <1>4, <4>2, <5>2
      <4> QED
        BY <4>1, <4>2
    <3> QED
      BY <3>1, <3>2, <3>3
  <2> QED
    BY <1>3, <2>1, <2>3 DEF FreshOf
<1> QED
  BY <1>1, <1>5

LEMMA BarrierCrash ==
  ASSUME BarrierInv, NEW g \in Gateways, Crash(g)
  PROVE  BarrierInv'
<1> USE TypeParts DEF BarrierInv
<1>1. PresenceTypeOK'
  BY TypeCrash
<1>2. /\ up' = up \ {g} /\ told' = told /\ setting'.patient = setting.patient
      /\ \A h \in up' : updsChan'[h] = updsChan[h] /\ buffer'[h] = buffer[h]
  BY DEF Crash, FaultType, SettingRecs, GwType
<1>3. ASSUME NEW c \in Chars PROVE FreshOf(c)'
  <2>1. session[c] \in SessionRecs
    BY DEF GwType
  <2>2. CASE session[c].gw = g
    <3>1. session'[c] = [session[c] EXCEPT !.open = FALSE]
      BY <2>2 DEF Crash
    <3>2. ~session'[c].open
      BY <2>1, <3>1 DEF SessionRecs
    <3> QED
      BY <3>2 DEF FreshOf
  <2>3. CASE session[c].gw # g
    <3>1. session'[c] = session[c]
      BY <2>3 DEF Crash
    <3>2. session[c].open => session[c].gw \in up'
      BY <1>2, <2>3 DEF FreshOf
    <3> QED
      BY <1>2, <3>1, <3>2, FreshKept
  <2> QED
    BY <2>2, <2>3
<1> QED
  BY <1>1, <1>3

LEMMA BarrierHolds == PresenceSpec => []BarrierInv
<1> USE PresenceConstants
<1>1. PresenceInit => BarrierInv
  BY TypeInit DEF PresenceInit, BarrierInv, FreshOf
<1>2. PresenceTypeOK /\ PresenceTypeOK' /\ BarrierInv /\ [PresenceNext]_presenceVars => BarrierInv'
  <2> SUFFICES ASSUME PresenceTypeOK', BarrierInv, [PresenceNext]_presenceVars PROVE BarrierInv'
    OBVIOUS
  <2>1. ASSUME UNCHANGED <<session, updsChan, buffer, told, up, setting>> PROVE BarrierInv'
    <3>1. ASSUME NEW c \in Chars PROVE FreshOf(c)'
      BY <2>1, FreshKept DEF BarrierInv, FreshOf
    <3> QED
      BY <3>1 DEF BarrierInv
  <2>2. ASSUME NEW g \in Gateways, RegistryDrops(g) PROVE BarrierInv'
    BY <2>1, <2>2 DEF RegistryDrops, gwVars
  <2>3. ASSUME NEW r \in Replicas,
               \/ HandleLoggedIn(r) \/ HandleLoggedOut(r) \/ RemoveFound(r) \/ HandleUpdates(r)
               \/ HandleFriends(r) \/ HandleGWRemoved(r) \/ HandleCharsDisconnected(r)
        PROVE  BarrierInv'
    <3>1. UNCHANGED <<session, gwVars, up, setting>>
      BY <2>3 DEF HandleLoggedIn, HandleLoggedOut, RemoveFound, HandleUpdates, HandleFriends,
                  HandleGWRemoved, HandleCharsDisconnected, faultVars
    <3> QED
      BY <2>1, <3>1 DEF gwVars
  <2>4. CASE UNCHANGED presenceVars
    BY <2>1, <2>4 DEF presenceVars
  <2> QED
    BY <2>2, <2>3, <2>4, BarrierLogin, BarrierLogout, BarrierUpdate, BarrierCollect,
       BarrierOpenBarrier, BarrierCrash, Zenon DEF PresenceNext
<1>3. PresenceSpec => []PresenceTypeOK
  BY IndexesAreConsistent, PTL
<1> QED
  BY <1>1, <1>2, <1>3, PTL DEF PresenceSpec

\* No update is forgotten in the barrier while the players are patient: for any
\* number of gateways, fields and updates, through merging, partly failed sends,
\* their retries and crashes, the newest value of every field of a character
\* that plays waits in the channel of its gateway, else in the buffer, else it
\* is the last one published (CharactersUpdatesBarrier.Run and send).
THEOREM UpdatesAreKept == PresenceSpec => [](setting.patient => NothingForgotten)
<1>1. BarrierInv => (setting.patient => NothingForgotten)
  <2> SUFFICES ASSUME BarrierInv, setting.patient, NEW c \in Chars, session[c].open, NEW f \in Fields
               PROVE  Latest(session[c].gw, c, f) = session[c].val[f]
    BY DEF NothingForgotten
  <2>1. session[c].gw \in Gateways
    BY TypeParts DEF BarrierInv, FreshOf, FaultType
  <2>2. Known(updsChan[session[c].gw], buffer[session[c].gw], told[c], c, f, session[c].val[f])
    BY DEF BarrierInv, FreshOf
  <2> QED
    BY <2>1, <2>2, KnownIsLatest
<1> QED
  BY <1>1, BarrierHolds, PTL

-----------------------------------------------------------------------------
(* What the replicas answer.  A character, in one replica, is about to be  *)
(* listed with the values told last, about to be unlisted, or left over    *)
(* from a gateway that is gone.                                            *)

\* An event about c waits in the inbox q; the handler h works on one.
Waits(q, c) == \E i \in 1..Len(q) : About(q[i], c)
Runs(h, c) == h # None /\ About(h, c)

\* Once the updates of the queue q are applied to v, c has the values w: of
\* every field the youngest update that carries it, else v itself.
Carries(e, c, f) == c \in DOMAIN e.upd /\ f \in DOMAIN e.upd[c]

BringsField(q, v, w, c, f) ==
  \/ \E i \in 1..Len(q) : /\ Carries(q[i], c, f) /\ q[i].upd[c][f] = w[f]
                          /\ \A j \in 1..Len(q) : Carries(q[j], c, f) => j <= i
  \/ (\A i \in 1..Len(q) : ~Carries(q[i], c, f)) /\ v[f] = w[f]

Brings(q, v, w, c) == \A f \in Fields : BringsField(q, v, w, c, f)

\* What the friends' cache will show once the update at work is through.
Shown(h, y, c) == IF Runs(h, c) THEN Over(h.upd[c], y) ELSE y

\* One replica, with inboxes bx, handlers rn, entry x and friends' info y of c.
\* It lists c at gateway g with the values t, or will: the login waits, or
\* entry and info need only the updates that wait.
IsListed(bx, rn, x, y, g, t, c) ==
  /\ ~Waits(bx["out"], c) /\ ~Runs(rn["out"], c)
  /\ \A i \in 1..Len(bx["in"]) : About(bx["in"][i], c) => bx["in"][i].gw = g /\ bx["in"][i].val = t
  /\ Runs(rn["in"], c) => rn["in"].val = t
  /\ Waits(bx["in"], c) \/ Runs(rn["in"], c) => ~Waits(bx["upd"], c) /\ ~Runs(rn["upd"], c)
  /\ \/ Waits(bx["in"], c)
     \/ /\ x # None /\ x.gw = g /\ Brings(bx["upd"], x.val, t, c)
        /\ Runs(rn["in"], c) \/ (y # None /\ Brings(bx["upd"], Shown(rn["upd"], y, c), t, c))

\* It does not list c, or will not when the logout that waits or is at work is
\* handled.
Unlisted(bx, rn, x, y, c) ==
  /\ ~Waits(bx["in"], c) /\ ~Runs(rn["in"], c)
  /\ \/ Waits(bx["out"], c)
     \/ Runs(rn["out"], c) /\ (rn["out"].found \/ x = None)
     \/ x = None /\ y = None

\* It has no entry of c, or will be told that its gateway g is gone.
Dropped(bx, rn, x, g, c) ==
  /\ ~Waits(bx["in"], c) /\ ~Runs(rn["in"], c) /\ ~Waits(bx["out"], c) /\ ~Runs(rn["out"], c)
  /\ x = None \/ (x.gw = g /\ \E i \in 1..Len(bx["gone"]) : bx["gone"][i].gw = g)

ListedAt(r, c)   == IsListed(inboxes[r], running[r], guidStorage[r][c], onlineInfo[r][c], session[c].gw, told[c], c)
UnlistedAt(r, c) == Unlisted(inboxes[r], running[r], guidStorage[r][c], onlineInfo[r][c], c)
DroppedAt(r, c)  == Dropped(inboxes[r], running[r], guidStorage[r][c], session[c].gw, c)

\* A character is out everywhere; or it is left over from a dead gateway, which
\* nothing but its next login changes in the friends' caches; or it is in
\* everywhere, while it plays and, after a crash, until its gateway is removed.
Gone(c)    == ~session[c].open /\ \A r \in Replicas : UnlistedAt(r, c)
Cleared(c) == /\ ~session[c].open /\ session[c].gw \notin up
              /\ \A r \in Replicas : DroppedAt(r, c)
Playing(c) ==
  /\ \A r \in Replicas : ListedAt(r, c)
  /\ \/ session[c].open
     \/ session[c].gw \in unnoticed
     \/ /\ \E i \in 1..Len(removed) : removed[i] = session[c].gw
        /\ \A r \in Replicas : ~Waits(inboxes[r]["in"], c) /\ ~Runs(running[r]["in"], c)

\* A gateway is dropped once, after it crashed: so a removal that is late never
\* hits a gateway whose players are online.
DropsOnce ==
  /\ \A i \in 1..Len(removed) : removed[i] \notin up \cup unnoticed
  /\ \A i, j \in 1..Len(removed) : removed[i] = removed[j] => i = j
  /\ \A r \in Replicas : \A i \in 1..Len(inboxes[r]["gone"]) :
       /\ inboxes[r]["gone"][i].gw \notin up \cup unnoticed
       /\ \A j \in 1..Len(removed) : removed[j] # inboxes[r]["gone"][i].gw

SettleInv ==
  /\ DropsOnce
  /\ setting.patient => \A c \in Chars : Gone(c) \/ Playing(c) \/ Cleared(c)

-----------------------------------------------------------------------------
(* Events, queues of events, and what a queue of updates brings.           *)

LEMMA AboutIs ==
  ASSUME NEW c
  PROVE  /\ \A e \in EventsOf("in") : About(e, c) <=> e.char = c
         /\ \A e \in EventsOf("out") : About(e, c) <=> e.char = c
         /\ \A e \in HandledOf("out") : About(e, c) <=> e.char = c
         /\ \A e \in EventsOf("upd") : About(e, c) <=> c \in DOMAIN e.upd
<1>1. \A e \in EventsOf("in") : About(e, c) <=> e.char = c
  BY DEF EventsOf, About
<1>2. \A e \in EventsOf("out") : About(e, c) <=> e.char = c
  BY DEF EventsOf, About
<1>3. \A e \in HandledOf("out") : About(e, c) <=> e.char = c
  BY DEF HandledOf, About
<1>4. \A e \in EventsOf("upd") : About(e, c) <=> c \in DOMAIN e.upd
  BY DEF EventsOf, About
<1> QED
  BY <1>1, <1>2, <1>3, <1>4

LEMMA TailIs ==
  ASSUME NEW R, NEW q \in Seq(R), q # <<>>
  PROVE  /\ Len(q) \in Nat /\ Head(q) = q[1] /\ Head(q) \in R /\ 1 \in 1..Len(q) /\ Len(Tail(q)) \in Nat
         /\ \A i \in 1..Len(Tail(q)) : Tail(q)[i] = q[i + 1] /\ i + 1 \in 1..Len(q)
         /\ \A i \in 1..Len(q) : i # 1 => i - 1 \in 1..Len(Tail(q)) /\ Tail(q)[i - 1] = q[i] /\ (i - 1) + 1 = i
OBVIOUS

LEMMA AppendIs ==
  ASSUME NEW R, NEW q \in Seq(R), NEW e
  PROVE  /\ Len(q) \in Nat /\ Len(Append(q, e)) = Len(q) + 1 /\ Append(q, e)[Len(q) + 1] = e
         /\ \A i \in 1..Len(q) : Append(q, e)[i] = q[i] /\ i \in 1..Len(q) + 1 /\ i <= Len(q) + 1
         /\ \A i \in 1..Len(q) + 1 : i \in 1..Len(q) \/ i = Len(q) + 1
         /\ Len(q) + 1 \in 1..Len(q) + 1
OBVIOUS

LEMMA OverAt ==
  ASSUME NEW u, NEW v, NEW f \in DOMAIN v
  PROVE  Over(u, v)[f] = IF f \in DOMAIN u THEN u[f] ELSE v[f]
BY DEF Over

LEMMA WaitsAppend ==
  ASSUME NEW R, NEW q \in Seq(R), NEW e, NEW c
  PROVE  Waits(Append(q, e), c) <=> Waits(q, c) \/ About(e, c)
<1> DEFINE a == Append(q, e)
           n == Len(q) + 1
<1>1. /\ Len(a) = n /\ a[n] = e /\ n \in 1..n
      /\ \A i \in 1..Len(q) : a[i] = q[i] /\ i \in 1..n
      /\ \A i \in 1..n : i \in 1..Len(q) \/ i = n
  BY AppendIs
<1> HIDE DEF a, n
<1>2. Waits(a, c) <=> Waits(q, c) \/ About(e, c)
  BY <1>1 DEF Waits
<1> QED
  BY <1>2 DEF a

LEMMA WaitsTail ==
  ASSUME NEW R, NEW q \in Seq(R), q # <<>>, NEW c
  PROVE  Waits(q, c) <=> About(Head(q), c) \/ Waits(Tail(q), c)
<1>1. /\ Head(q) = q[1] /\ 1 \in 1..Len(q)
      /\ \A i \in 1..Len(Tail(q)) : Tail(q)[i] = q[i + 1] /\ i + 1 \in 1..Len(q)
      /\ \A i \in 1..Len(q) : i # 1 => i - 1 \in 1..Len(Tail(q)) /\ Tail(q)[i - 1] = q[i]
  BY TailIs
<1> QED
  BY <1>1 DEF Waits

\* An update that is published becomes part of what is brought.
LEMMA BringsAppend ==
  ASSUME NEW q \in Seq(EventsOf("upd")), NEW e \in EventsOf("upd"), NEW c, NEW v, NEW w \in Values,
         NEW w2, w2 = IF c \in DOMAIN e.upd THEN Over(e.upd[c], w) ELSE w,
         Brings(q, v, w, c)
  PROVE  Brings(Append(q, e), v, w2, c)
<1> SUFFICES ASSUME NEW f \in Fields PROVE BringsField(Append(q, e), v, w2, c, f)
  BY DEF Brings
<1> DEFINE a == Append(q, e)
           n == Len(q) + 1
<1>1. /\ Len(a) = n /\ a[n] = e /\ n \in 1..n
      /\ \A i \in 1..Len(q) : a[i] = q[i] /\ i \in 1..n /\ i <= n
      /\ \A i \in 1..n : i \in 1..Len(q) \/ i = n
  BY AppendIs
<1>2. n <= n
  BY AppendIs
<1>3. BringsField(q, v, w, c, f)
  BY DEF Brings
<1>4. DOMAIN w = Fields
  BY DEF Values
<1> HIDE DEF a, n
<1>5. CASE Carries(e, c, f)
  <2>1. w2[f] = e.upd[c][f]
    BY <1>5, MergeIs DEF Carries
  <2>2. \A j \in 1..Len(a) : Carries(a[j], c, f) => j <= n
    BY <1>1, <1>2
  <2> QED
    BY <1>1, <1>5, <2>1, <2>2 DEF BringsField, a
<1>6. CASE ~Carries(e, c, f)
  <2>1. w2[f] = w[f]
    BY <1>4, <1>6, OverAt DEF Carries
  <2>2. \A j \in 1..Len(a) : Carries(a[j], c, f) => j \in 1..Len(q)
    BY <1>1, <1>6
  <2>3. CASE \E i \in 1..Len(q) : /\ Carries(q[i], c, f) /\ q[i].upd[c][f] = w[f]
                                  /\ \A j \in 1..Len(q) : Carries(q[j], c, f) => j <= i
    <3>1. PICK i \in 1..Len(q) : /\ Carries(q[i], c, f) /\ q[i].upd[c][f] = w[f]
                                 /\ \A j \in 1..Len(q) : Carries(q[j], c, f) => j <= i
      BY <2>3
    <3>2. i \in 1..Len(a) /\ Carries(a[i], c, f) /\ a[i].upd[c][f] = w2[f]
      BY <1>1, <2>1, <3>1
    <3>3. \A j \in 1..Len(a) : Carries(a[j], c, f) => j <= i
      BY <1>1, <2>2, <3>1
    <3> QED
      BY <3>2, <3>3 DEF BringsField, a
  <2>4. CASE (\A i \in 1..Len(q) : ~Carries(q[i], c, f)) /\ v[f] = w[f]
    <3>1. \A i \in 1..Len(a) : ~Carries(a[i], c, f)
      BY <1>1, <2>2, <2>4
    <3> QED
      BY <2>1, <2>4, <3>1 DEF BringsField, a
  <2> QED
    BY <1>3, <2>3, <2>4 DEF BringsField
<1> QED
  BY <1>5, <1>6

\* The oldest update is applied.
LEMMA BringsTail ==
  ASSUME NEW q \in Seq(EventsOf("upd")), q # <<>>, NEW c, NEW v \in Values, NEW w,
         NEW v2, v2 = IF c \in DOMAIN Head(q).upd THEN Over(Head(q).upd[c], v) ELSE v,
         Brings(q, v, w, c)
  PROVE  Brings(Tail(q), v2, w, c)
<1> SUFFICES ASSUME NEW f \in Fields PROVE BringsField(Tail(q), v2, w, c, f)
  BY DEF Brings
<1> DEFINE a == Tail(q)
           e == Head(q)
<1>1. /\ Len(q) \in Nat /\ Len(a) \in Nat /\ e = q[1] /\ 1 \in 1..Len(q)
      /\ \A i \in 1..Len(a) : a[i] = q[i + 1] /\ i + 1 \in 1..Len(q)
      /\ \A i \in 1..Len(q) : i # 1 => i - 1 \in 1..Len(a) /\ a[i - 1] = q[i] /\ (i - 1) + 1 = i
  BY TailIs
<1>3. BringsField(q, v, w, c, f)
  BY DEF Brings
<1>4. DOMAIN v = Fields
  BY DEF Values
<1> HIDE DEF a, e
<1>5. Carries(e, c, f) => v2[f] = e.upd[c][f]
  BY MergeIs DEF Carries, e
<1>6. ~Carries(e, c, f) => v2[f] = v[f]
  BY <1>4, OverAt DEF Carries, e
<1>7. CASE \E i \in 1..Len(q) : /\ Carries(q[i], c, f) /\ q[i].upd[c][f] = w[f]
                                /\ \A j \in 1..Len(q) : Carries(q[j], c, f) => j <= i
  <2>1. PICK i \in 1..Len(q) : /\ Carries(q[i], c, f) /\ q[i].upd[c][f] = w[f]
                               /\ \A j \in 1..Len(q) : Carries(q[j], c, f) => j <= i
    BY <1>7
  <2>2. CASE i = 1
    <3>1. v2[f] = w[f]
      BY <1>1, <1>5, <2>1, <2>2
    <3>2. ASSUME NEW j \in 1..Len(a), Carries(a[j], c, f) PROVE FALSE
      <4>1. j + 1 <= 1
        BY <1>1, <2>1, <2>2, <3>2
      <4>2. j \in Nat /\ j >= 1
        BY <1>1
      <4> QED
        BY <4>1, <4>2
    <3> QED
      BY <3>1, <3>2 DEF BringsField, a
  <2>3. CASE i # 1
    <3>1. i - 1 \in 1..Len(a) /\ a[i - 1] = q[i]
      BY <1>1, <2>3
    <3>2. ASSUME NEW j \in 1..Len(a), Carries(a[j], c, f) PROVE j <= i - 1
      <4>1. j + 1 <= i
        BY <1>1, <2>1, <3>2
      <4>2. j \in Nat /\ i \in Nat
        BY <1>1
      <4> QED
        BY <4>1, <4>2
    <3> QED
      BY <2>1, <3>1, <3>2 DEF BringsField, a
  <2> QED
    BY <2>2, <2>3
<1>8. CASE (\A i \in 1..Len(q) : ~Carries(q[i], c, f)) /\ v[f] = w[f]
  <2>1. \A i \in 1..Len(a) : ~Carries(a[i], c, f)
    BY <1>1, <1>8
  <2> QED
    BY <1>1, <1>6, <1>8, <2>1 DEF BringsField, a
<1> QED
  BY <1>3, <1>7, <1>8 DEF BringsField

LEMMA BringsNothing ==
  ASSUME NEW q \in Seq(EventsOf("upd")), NEW c, ~Waits(q, c)
  PROVE  /\ \A w : Brings(q, w, w, c)
         /\ \A v, w \in Values : Brings(q, v, w, c) => v = w
<1>1. \A i \in 1..Len(q), f \in Fields : ~Carries(q[i], c, f)
  <2> SUFFICES ASSUME NEW i \in 1..Len(q) PROVE c \notin DOMAIN q[i].upd
    BY DEF Carries
  <2>1. q[i] \in EventsOf("upd")
    OBVIOUS
  <2> QED
    BY <2>1, AboutIs DEF Waits
<1>2. \A v, w : Brings(q, v, w, c) <=> \A f \in Fields : v[f] = w[f]
  BY <1>1 DEF Brings, BringsField
<1>3. \A v, w \in Values : (\A f \in Fields : v[f] = w[f]) => v = w
  BY DEF Values
<1> QED
  BY <1>2, <1>3
-----------------------------------------------------------------------------
(* One replica and one character: what a step of the replica does.         *)

LEMMA NotNone ==
  ASSUME PresenceAssumption
  PROVE  /\ \A e \in EventsOf("in") : e # None
         /\ \A e \in HandledOf("out") : e # None
         /\ \A e \in EventsOf("upd") : e # None
         /\ \A x \in Entries : x # None
         /\ \A v \in Values : v # None
BY DEF PresenceAssumption, HandledOf, Subjects

\* HandleLoggedIn
LEMMA TakesIn ==
  ASSUME PresenceAssumption,
         NEW c, NEW bx, NEW rn, NEW bx2, NEW rn2, NEW x, NEW x2, NEW y, NEW g, NEW t,
         bx["in"] \in Seq(EventsOf("in")), bx["in"] # <<>>, bx["upd"] \in Seq(EventsOf("upd")),
         rn["in"] = None, bx2["in"] = Tail(bx["in"]), rn2["in"] = Head(bx["in"]),
         bx2["out"] = bx["out"], bx2["upd"] = bx["upd"], bx2["gone"] = bx["gone"],
         rn2["out"] = rn["out"], rn2["upd"] = rn["upd"],
         Head(bx["in"]).char = c => x2 = Entry(Head(bx["in"])), Head(bx["in"]).char # c => x2 = x
  PROVE  /\ IsListed(bx, rn, x, y, g, t, c) => IsListed(bx2, rn2, x2, y, g, t, c)
         /\ Unlisted(bx, rn, x, y, c) => Unlisted(bx2, rn2, x2, y, c)
         /\ Dropped(bx, rn, x, g, c) => Dropped(bx2, rn2, x2, g, c)
<1> DEFINE e == Head(bx["in"])
<1>1. e \in EventsOf("in") /\ e # None /\ (About(e, c) <=> e.char = c)
  BY TailIs, AboutIs, NotNone
<1>2. Entry(e) # None /\ Entry(e).gw = e.gw /\ Entry(e).val = e.val
  BY <1>1, InEvent, NotNone
<1>3. Waits(bx["in"], c) <=> e.char = c \/ Waits(bx2["in"], c)
  BY <1>1, WaitsTail
<1>4. /\ e = bx["in"][1] /\ 1 \in 1..Len(bx["in"])
      /\ \A i \in 1..Len(bx2["in"]) : bx2["in"][i] = bx["in"][i + 1] /\ i + 1 \in 1..Len(bx["in"])
  BY TailIs
<1>5. (Runs(rn2["in"], c) <=> e.char = c) /\ ~Runs(rn["in"], c)
  BY <1>1 DEF Runs
<1> HIDE DEF e
<1>6. ASSUME IsListed(bx, rn, x, y, g, t, c) PROVE IsListed(bx2, rn2, x2, y, g, t, c)
  <2>1. /\ ~Waits(bx["out"], c) /\ ~Runs(rn["out"], c)
        /\ \A i \in 1..Len(bx["in"]) : About(bx["in"][i], c) => bx["in"][i].gw = g /\ bx["in"][i].val = t
        /\ Waits(bx["in"], c) => ~Waits(bx["upd"], c) /\ ~Runs(rn["upd"], c)
    BY <1>6 DEF IsListed
  <2>2. \A i \in 1..Len(bx2["in"]) : About(bx2["in"][i], c) => bx2["in"][i].gw = g /\ bx2["in"][i].val = t
    BY <1>4, <2>1
  <2>3. e.char = c => e.gw = g /\ e.val = t
    BY <1>1, <1>4, <2>1
  <2>4. Runs(rn2["in"], c) => rn2["in"].val = t
    BY <1>5, <2>3 DEF e
  <2>5. Waits(bx2["in"], c) \/ Runs(rn2["in"], c) => ~Waits(bx2["upd"], c) /\ ~Runs(rn2["upd"], c)
    BY <1>3, <1>5, <2>1
  <2>6. \/ Waits(bx2["in"], c)
        \/ /\ x2 # None /\ x2.gw = g /\ Brings(bx2["upd"], x2.val, t, c)
           /\ Runs(rn2["in"], c) \/ (y # None /\ Brings(bx2["upd"], Shown(rn2["upd"], y, c), t, c))
    <3>1. CASE e.char = c
      <4>1. x2 = Entry(e)
        BY <3>1 DEF e
      <4>2. Brings(bx["upd"], t, t, c)
        BY <1>3, <2>1, <3>1, BringsNothing
      <4> QED
        BY <1>2, <1>5, <2>3, <3>1, <4>1, <4>2
    <3>2. CASE e.char # c
      <4>1. x2 = x /\ (Waits(bx["in"], c) <=> Waits(bx2["in"], c))
        BY <1>3, <3>2 DEF e
      <4>2. Shown(rn2["upd"], y, c) = Shown(rn["upd"], y, c)
        OBVIOUS
      <4> QED
        BY <1>5, <1>6, <3>2, <4>1, <4>2 DEF IsListed
    <3> QED
      BY <3>1, <3>2
  <2> QED
    BY <2>1, <2>2, <2>4, <2>5, <2>6 DEF IsListed
<1>7. ASSUME ~Waits(bx["in"], c) PROVE x2 = x /\ ~Waits(bx2["in"], c) /\ ~Runs(rn2["in"], c)
  BY <1>3, <1>5, <1>7 DEF e
<1>8. Unlisted(bx, rn, x, y, c) => Unlisted(bx2, rn2, x2, y, c)
  BY <1>7 DEF Unlisted
<1>9. Dropped(bx, rn, x, g, c) => Dropped(bx2, rn2, x2, g, c)
  BY <1>7 DEF Dropped
<1> QED
  BY <1>6, <1>8, <1>9

\* HandleLoggedOut
LEMMA TakesOut ==
  ASSUME PresenceAssumption,
         NEW c, NEW bx, NEW rn, NEW bx2, NEW rn2, NEW x, NEW y, NEW g, NEW t, NEW h \in HandledOf("out"),
         bx["out"] \in Seq(EventsOf("out")), bx["out"] # <<>>,
         rn["out"] = None, bx2["out"] = Tail(bx["out"]), rn2["out"] = h,
         h.char = Head(bx["out"]).char, h.char = c => (h.found <=> x # None),
         bx2["in"] = bx["in"], bx2["upd"] = bx["upd"], bx2["gone"] = bx["gone"],
         rn2["in"] = rn["in"], rn2["upd"] = rn["upd"]
  PROVE  /\ IsListed(bx, rn, x, y, g, t, c) => IsListed(bx2, rn2, x, y, g, t, c)
         /\ Unlisted(bx, rn, x, y, c) => Unlisted(bx2, rn2, x, y, c)
         /\ Dropped(bx, rn, x, g, c) => Dropped(bx2, rn2, x, g, c)
<1>1. Waits(bx["out"], c) <=> h.char = c \/ Waits(bx2["out"], c)
  <2>1. Head(bx["out"]) \in EventsOf("out")
    BY TailIs
  <2>2. About(Head(bx["out"]), c) <=> h.char = c
    BY <2>1, AboutIs
  <2> QED
    BY <2>2, WaitsTail
<1>2. (Runs(rn2["out"], c) <=> h.char = c) /\ ~Runs(rn["out"], c)
  BY NotNone, AboutIs DEF Runs
<1>3. ASSUME ~Waits(bx["out"], c) PROVE ~Waits(bx2["out"], c) /\ ~Runs(rn2["out"], c)
  BY <1>1, <1>2, <1>3
<1>4. IsListed(bx, rn, x, y, g, t, c) => IsListed(bx2, rn2, x, y, g, t, c)
  BY <1>3 DEF IsListed
<1>5. Unlisted(bx, rn, x, y, c) => Unlisted(bx2, rn2, x, y, c)
  BY <1>1, <1>2 DEF Unlisted
<1>6. Dropped(bx, rn, x, g, c) => Dropped(bx2, rn2, x, g, c)
  BY <1>3 DEF Dropped
<1> QED
  BY <1>4, <1>5, <1>6

\* RemoveFound
LEMMA RemovesFound ==
  ASSUME NEW c, NEW bx, NEW rn, NEW bx2, NEW rn2, NEW x, NEW x2, NEW y, NEW g, NEW t,
         rn["out"] \in HandledOf("out"), rn2["out"] \in HandledOf("out"), rn["out"] # None, rn2["out"] # None,
         rn2["out"].char = rn["out"].char,
         x2 = IF rn["out"].char = c THEN None ELSE x,
         bx2["in"] = bx["in"], bx2["out"] = bx["out"], bx2["upd"] = bx["upd"], bx2["gone"] = bx["gone"],
         rn2["in"] = rn["in"], rn2["upd"] = rn["upd"]
  PROVE  /\ IsListed(bx, rn, x, y, g, t, c) => IsListed(bx2, rn2, x2, y, g, t, c)
         /\ Unlisted(bx, rn, x, y, c) => Unlisted(bx2, rn2, x2, y, c)
         /\ Dropped(bx, rn, x, g, c) => Dropped(bx2, rn2, x2, g, c)
<1>1. (Runs(rn["out"], c) <=> rn["out"].char = c) /\ (Runs(rn2["out"], c) <=> rn["out"].char = c)
  BY AboutIs DEF Runs
<1>2. ~Runs(rn["out"], c) => x2 = x
  BY <1>1
<1>3. IsListed(bx, rn, x, y, g, t, c) => IsListed(bx2, rn2, x2, y, g, t, c)
  BY <1>1, <1>2 DEF IsListed
<1>4. Unlisted(bx, rn, x, y, c) => Unlisted(bx2, rn2, x2, y, c)
  BY <1>1 DEF Unlisted
<1>5. Dropped(bx, rn, x, g, c) => Dropped(bx2, rn2, x2, g, c)
  BY <1>1, <1>2 DEF Dropped
<1> QED
  BY <1>3, <1>4, <1>5

\* The entry of a character under an update.
LEMMA EntryTakesUpdate ==
  ASSUME PresenceAssumption, NEW c, NEW e \in EventsOf("upd"), NEW x \in Entries \cup {None}, NEW x2,
         x2 = IF c \in DOMAIN e.upd /\ x # None THEN [x EXCEPT !.val = Over(e.upd[c], x.val)] ELSE x
  PROVE  /\ x2 = None <=> x = None
         /\ x # None => x.val \in Values /\ x2.gw = x.gw
                        /\ x2.val = IF c \in DOMAIN e.upd THEN Over(e.upd[c], x.val) ELSE x.val
<1>4. c \in DOMAIN e.upd => e.upd[c] \in Updates
  BY UpdEvent
<1>1. CASE c \in DOMAIN e.upd /\ x # None
  <2>1. x \in Entries /\ x.val \in Values
    BY <1>1 DEF Entries
  <2> DEFINE v == Over(e.upd[c], x.val)
  <2>2. v \in Values
    BY <1>4, <1>1, <2>1, ValuesMerge
  <2>3. x2 = [x EXCEPT !.val = v]
    BY <1>1
  <2> HIDE DEF v
  <2>4. x2 \in Entries /\ x2.gw = x.gw /\ x2.val = v
    <3>1. /\ [x EXCEPT !.val = v] \in Entries /\ [x EXCEPT !.val = v].gw = x.gw
          /\ [x EXCEPT !.val = v].val = v
      BY <2>1, <2>2, EntryUpdated
    <3> QED
      BY <2>3, <3>1, Zenon
  <2>5. x2 # None
    BY <2>4, NotNone
  <2> QED
    BY <1>1, <2>1, <2>4, <2>5 DEF v
<1>2. CASE ~(c \in DOMAIN e.upd /\ x # None)
  <2>1. x2 = x
    BY <1>2
  <2>2. x \in Entries => x.val \in Values
    BY DEF Entries
  <2>3. x # None => x \in Entries
    OBVIOUS
  <2> QED
    BY <1>2, <2>1, <2>2, <2>3
<1> QED
  BY <1>1, <1>2

\* HandleUpdates
LEMMA TakesUpdate ==
  ASSUME PresenceAssumption,
         NEW c, NEW bx, NEW rn, NEW bx2, NEW rn2, NEW x, NEW x2,
         NEW y \in Values \cup {None}, NEW g, NEW t,
         bx["upd"] \in Seq(EventsOf("upd")), bx["upd"] # <<>>,
         rn["upd"] = None, bx2["upd"] = Tail(bx["upd"]), rn2["upd"] = Head(bx["upd"]),
         x2 = None <=> x = None,
         x # None => x.val \in Values /\ x2.gw = x.gw
                     /\ x2.val = IF c \in DOMAIN Head(bx["upd"]).upd THEN Over(Head(bx["upd"]).upd[c], x.val)
                                ELSE x.val,
         bx2["in"] = bx["in"], bx2["out"] = bx["out"], bx2["gone"] = bx["gone"],
         rn2["in"] = rn["in"], rn2["out"] = rn["out"]
  PROVE  /\ IsListed(bx, rn, x, y, g, t, c) => IsListed(bx2, rn2, x2, y, g, t, c)
         /\ Unlisted(bx, rn, x, y, c) => Unlisted(bx2, rn2, x2, y, c)
         /\ Dropped(bx, rn, x, g, c) => Dropped(bx2, rn2, x2, g, c)
<1> DEFINE e == Head(bx["upd"])
<1>1. e \in EventsOf("upd") /\ e # None /\ (About(e, c) <=> c \in DOMAIN e.upd)
  BY TailIs, AboutIs, NotNone
<1>2. Waits(bx["upd"], c) <=> c \in DOMAIN e.upd \/ Waits(bx2["upd"], c)
  BY <1>1, WaitsTail
<1>3. (Runs(rn2["upd"], c) <=> c \in DOMAIN e.upd) /\ ~Runs(rn["upd"], c)
  BY <1>1 DEF Runs
<1> HIDE DEF e
<1>6. ASSUME IsListed(bx, rn, x, y, g, t, c) PROVE IsListed(bx2, rn2, x2, y, g, t, c)
  <2>1. /\ ~Waits(bx["out"], c) /\ ~Runs(rn["out"], c)
        /\ \A i \in 1..Len(bx["in"]) : About(bx["in"][i], c) => bx["in"][i].gw = g /\ bx["in"][i].val = t
        /\ Runs(rn["in"], c) => rn["in"].val = t
        /\ Waits(bx["in"], c) \/ Runs(rn["in"], c) => ~Waits(bx["upd"], c) /\ ~Runs(rn["upd"], c)
    BY <1>6 DEF IsListed
  <2>2. Waits(bx2["in"], c) \/ Runs(rn2["in"], c) => ~Waits(bx2["upd"], c) /\ ~Runs(rn2["upd"], c)
    BY <1>2, <1>3, <2>1
  <2>3. \/ Waits(bx2["in"], c)
        \/ /\ x2 # None /\ x2.gw = g /\ Brings(bx2["upd"], x2.val, t, c)
           /\ Runs(rn2["in"], c) \/ (y # None /\ Brings(bx2["upd"], Shown(rn2["upd"], y, c), t, c))
    <3> SUFFICES ASSUME ~Waits(bx["in"], c)
                 PROVE  /\ x2 # None /\ x2.gw = g /\ Brings(bx2["upd"], x2.val, t, c)
                        /\ Runs(rn["in"], c) \/ (y # None /\ Brings(bx2["upd"], Shown(rn2["upd"], y, c), t, c))
      OBVIOUS
    <3>1. /\ x # None /\ x.gw = g /\ Brings(bx["upd"], x.val, t, c)
          /\ Runs(rn["in"], c) \/ (y # None /\ Brings(bx["upd"], Shown(rn["upd"], y, c), t, c))
      BY <1>6 DEF IsListed
    <3>2. Brings(bx2["upd"], x2.val, t, c)
      BY <3>1, BringsTail
    <3>3. ASSUME y # None, Brings(bx["upd"], Shown(rn["upd"], y, c), t, c)
          PROVE  Brings(bx2["upd"], Shown(rn2["upd"], y, c), t, c)
      <4>1. y \in Values /\ Brings(bx["upd"], y, t, c)
        BY <1>3, <3>3 DEF Shown
      <4>2. Shown(rn2["upd"], y, c) = IF c \in DOMAIN e.upd THEN Over(e.upd[c], y) ELSE y
        BY <1>3 DEF Shown, e
      <4> QED
        BY <4>1, <4>2, BringsTail DEF e
    <3> QED
      BY <3>1, <3>2, <3>3
  <2> QED
    BY <2>1, <2>2, <2>3 DEF IsListed
<1>7. Unlisted(bx, rn, x, y, c) => Unlisted(bx2, rn2, x2, y, c)
  BY DEF Unlisted
<1>8. Dropped(bx, rn, x, g, c) => Dropped(bx2, rn2, x2, g, c)
  BY DEF Dropped
<1> QED
  BY <1>6, <1>7, <1>8
\* HandleFriends, after a login
LEMMA ShowsIn ==
  ASSUME PresenceAssumption,
         NEW c, NEW bx, NEW rn, NEW bx2, NEW rn2, NEW x, NEW y, NEW y2, NEW g, NEW t,
         rn["in"] \in EventsOf("in"), bx["upd"] \in Seq(EventsOf("upd")), rn2["in"] = None,
         rn["in"].char = c => y2 = rn["in"].val, rn["in"].char # c => y2 = y,
         bx2["in"] = bx["in"], bx2["out"] = bx["out"], bx2["upd"] = bx["upd"], bx2["gone"] = bx["gone"],
         rn2["out"] = rn["out"], rn2["upd"] = rn["upd"]
  PROVE  /\ IsListed(bx, rn, x, y, g, t, c) => IsListed(bx2, rn2, x, y2, g, t, c)
         /\ Unlisted(bx, rn, x, y, c) => Unlisted(bx2, rn2, x, y2, c)
         /\ Dropped(bx, rn, x, g, c) => Dropped(bx2, rn2, x, g, c)
<1>1. (Runs(rn["in"], c) <=> rn["in"].char = c) /\ ~Runs(rn2["in"], c)
  BY NotNone, AboutIs DEF Runs
<1>2. ASSUME IsListed(bx, rn, x, y, g, t, c) PROVE IsListed(bx2, rn2, x, y2, g, t, c)
  <2>1. CASE Runs(rn["in"], c)
    <3>1. y2 = t /\ ~Waits(bx["upd"], c) /\ ~Runs(rn["upd"], c)
      BY <1>1, <1>2, <2>1 DEF IsListed
    <3>2. y2 # None
      BY <1>1, <2>1, InEvent, NotNone
    <3>3. Brings(bx["upd"], t, t, c)
      BY <3>1, BringsNothing
    <3>4. Shown(rn2["upd"], y2, c) = t
      BY <3>1 DEF Shown
    <3> QED
      BY <1>1, <1>2, <2>1, <3>1, <3>2, <3>3, <3>4 DEF IsListed
  <2>2. CASE ~Runs(rn["in"], c)
    <3>1. y2 = y
      BY <1>1, <2>2
    <3> QED
      BY <1>1, <1>2, <2>2, <3>1 DEF IsListed
  <2> QED
    BY <2>1, <2>2
<1>3. Unlisted(bx, rn, x, y, c) => Unlisted(bx2, rn2, x, y2, c)
  BY <1>1 DEF Unlisted
<1>4. Dropped(bx, rn, x, g, c) => Dropped(bx2, rn2, x, g, c)
  BY <1>1 DEF Dropped
<1> QED
  BY <1>2, <1>3, <1>4

\* HandleFriends, after a logout
LEMMA ShowsOut ==
  ASSUME NEW c, NEW bx, NEW rn, NEW bx2, NEW rn2, NEW x, NEW y, NEW y2, NEW g, NEW t,
         rn["out"] \in HandledOf("out"), rn["out"] # None, ~rn["out"].found, rn2["out"] = None,
         y2 = IF rn["out"].char = c THEN None ELSE y,
         bx2["in"] = bx["in"], bx2["out"] = bx["out"], bx2["upd"] = bx["upd"], bx2["gone"] = bx["gone"],
         rn2["in"] = rn["in"], rn2["upd"] = rn["upd"]
  PROVE  /\ IsListed(bx, rn, x, y, g, t, c) => IsListed(bx2, rn2, x, y2, g, t, c)
         /\ Unlisted(bx, rn, x, y, c) => Unlisted(bx2, rn2, x, y2, c)
         /\ Dropped(bx, rn, x, g, c) => Dropped(bx2, rn2, x, g, c)
<1>1. (Runs(rn["out"], c) <=> rn["out"].char = c) /\ ~Runs(rn2["out"], c)
  BY AboutIs DEF Runs
<1>2. ~Runs(rn["out"], c) => y2 = y
  BY <1>1
<1>3. IsListed(bx, rn, x, y, g, t, c) => IsListed(bx2, rn2, x, y2, g, t, c)
  BY <1>1, <1>2 DEF IsListed
<1>4. Unlisted(bx, rn, x, y, c) => Unlisted(bx2, rn2, x, y2, c)
  BY <1>1 DEF Unlisted
<1>5. Dropped(bx, rn, x, g, c) => Dropped(bx2, rn2, x, g, c)
  BY <1>1, <1>2 DEF Dropped
<1> QED
  BY <1>3, <1>4, <1>5

\* HandleFriends, after an update
LEMMA ShowsUpdate ==
  ASSUME PresenceAssumption,
         NEW c, NEW bx, NEW rn, NEW bx2, NEW rn2, NEW x, NEW y \in Values \cup {None}, NEW y2, NEW g, NEW t,
         rn["upd"] \in EventsOf("upd"), rn2["upd"] = None,
         c \in DOMAIN rn["upd"].upd /\ y # None => y2 = Over(rn["upd"].upd[c], y),
         ~(c \in DOMAIN rn["upd"].upd /\ y # None) => y2 = y,
         bx2["in"] = bx["in"], bx2["out"] = bx["out"], bx2["upd"] = bx["upd"], bx2["gone"] = bx["gone"],
         rn2["in"] = rn["in"], rn2["out"] = rn["out"]
  PROVE  /\ IsListed(bx, rn, x, y, g, t, c) => IsListed(bx2, rn2, x, y2, g, t, c)
         /\ Unlisted(bx, rn, x, y, c) => Unlisted(bx2, rn2, x, y2, c)
         /\ Dropped(bx, rn, x, g, c) => Dropped(bx2, rn2, x, g, c)
<1>1. (Runs(rn["upd"], c) <=> c \in DOMAIN rn["upd"].upd) /\ ~Runs(rn2["upd"], c)
  BY NotNone, AboutIs DEF Runs
<1>2. y = None => y2 = None
  OBVIOUS
<1>3. ASSUME y # None PROVE y2 # None /\ Shown(rn2["upd"], y2, c) = Shown(rn["upd"], y, c)
  <2>1. y \in Values
    BY <1>3
  <2>2. y2 = Shown(rn["upd"], y, c)
    BY <1>1, <1>3 DEF Shown
  <2>3. c \in DOMAIN rn["upd"].upd => Over(rn["upd"].upd[c], y) \in Values
    BY <2>1, UpdEvent, ValuesMerge
  <2>4. y2 # None
    BY <1>3, <2>1, <2>3, NotNone
  <2> QED
    BY <1>1, <2>2, <2>4 DEF Shown
<1>4. IsListed(bx, rn, x, y, g, t, c) => IsListed(bx2, rn2, x, y2, g, t, c)
  BY <1>1, <1>3 DEF IsListed
<1>5. Unlisted(bx, rn, x, y, c) => Unlisted(bx2, rn2, x, y2, c)
  BY <1>2 DEF Unlisted
<1>6. Dropped(bx, rn, x, g, c) => Dropped(bx2, rn2, x, g, c)
  BY DEF Dropped
<1> QED
  BY <1>4, <1>5, <1>6

\* Nothing happens to the events or the replies, except that those of gateway h
\* may be removed, whose events are told to the replica (or it handles them).
LEMMA RemovesGateway ==
  ASSUME NEW c, NEW bx, NEW rn, NEW bx2, NEW rn2, NEW x, NEW x2, NEW y, NEW g, NEW t, NEW h,
         x2 = x \/ (x # None /\ x.gw = h /\ x2 = None),
         bx2["in"] = bx["in"], bx2["out"] = bx["out"], bx2["upd"] = bx["upd"],
         rn2["in"] = rn["in"], rn2["out"] = rn["out"], rn2["upd"] = rn["upd"],
         \/ \A i \in 1..Len(bx["gone"]) : \E j \in 1..Len(bx2["gone"]) : bx2["gone"][j] = bx["gone"][i]
         \/ /\ \A i \in 1..Len(bx["gone"]) : \/ bx["gone"][i].gw = h
                                             \/ \E j \in 1..Len(bx2["gone"]) : bx2["gone"][j] = bx["gone"][i]
            /\ x # None /\ x.gw = h => x2 = None
  PROVE  /\ g # h => (IsListed(bx, rn, x, y, g, t, c) => IsListed(bx2, rn2, x2, y, g, t, c))
         /\ Unlisted(bx, rn, x, y, c) => Unlisted(bx2, rn2, x2, y, c)
         /\ Dropped(bx, rn, x, g, c) => Dropped(bx2, rn2, x2, g, c)
<1>1. ASSUME g # h, IsListed(bx, rn, x, y, g, t, c) PROVE IsListed(bx2, rn2, x2, y, g, t, c)
  <2>1. Waits(bx["in"], c) \/ x2 = x
    BY <1>1 DEF IsListed
  <2> QED
    BY <1>1, <2>1 DEF IsListed
<1>2. Unlisted(bx, rn, x, y, c) => Unlisted(bx2, rn2, x2, y, c)
  BY DEF Unlisted
<1>3. ASSUME Dropped(bx, rn, x, g, c) PROVE Dropped(bx2, rn2, x2, g, c)
  <2>1. CASE x2 = None
    BY <1>3, <2>1 DEF Dropped
  <2>2. CASE x2 # None
    <3>1. x2 = x /\ x.gw = g
      BY <1>3, <2>2 DEF Dropped
    <3>2. PICK i \in 1..Len(bx["gone"]) : bx["gone"][i].gw = g
      BY <1>3, <2>2, <3>1 DEF Dropped
    <3>3. \E j \in 1..Len(bx2["gone"]) : bx2["gone"][j].gw = g
      BY <2>2, <3>1, <3>2
    <3> QED
      BY <1>3, <3>1, <3>3 DEF Dropped
  <2> QED
    BY <2>1, <2>2
<1> QED
  BY <1>1, <1>2, <1>3
\* The replica does nothing
LEMMA NothingMoves ==
  ASSUME NEW c, NEW bx, NEW rn, NEW bx2, NEW rn2, NEW x, NEW y, NEW g, NEW t,
         \A s \in Subjects : bx2[s] = bx[s] /\ rn2[s] = rn[s]
  PROVE  /\ IsListed(bx, rn, x, y, g, t, c) => IsListed(bx2, rn2, x, y, g, t, c)
         /\ Unlisted(bx, rn, x, y, c) => Unlisted(bx2, rn2, x, y, c)
         /\ Dropped(bx, rn, x, g, c) => Dropped(bx2, rn2, x, g, c)
<1>1. /\ bx2["in"] = bx["in"] /\ bx2["out"] = bx["out"] /\ bx2["upd"] = bx["upd"] /\ bx2["gone"] = bx["gone"]
      /\ rn2["in"] = rn["in"] /\ rn2["out"] = rn["out"] /\ rn2["upd"] = rn["upd"]
  BY DEF Subjects
<1> QED
  BY <1>1 DEF IsListed, Unlisted, Dropped

\* OpenBarrier
LEMMA GetsUpdate ==
  ASSUME NEW c, NEW bx, NEW rn, NEW bx2, NEW x, NEW y, NEW g, NEW t \in Values, NEW t2,
         NEW e \in EventsOf("upd"), bx["upd"] \in Seq(EventsOf("upd")),
         bx2["upd"] = Append(bx["upd"], e),
         bx2["in"] = bx["in"], bx2["out"] = bx["out"], bx2["gone"] = bx["gone"],
         c \in DOMAIN e.upd => t2 = Over(e.upd[c], t), c \notin DOMAIN e.upd => t2 = t,
         c \in DOMAIN e.upd => ~Waits(bx["in"], c) /\ ~Runs(rn["in"], c)
  PROVE  /\ IsListed(bx, rn, x, y, g, t, c) => IsListed(bx2, rn, x, y, g, t2, c)
         /\ Unlisted(bx, rn, x, y, c) => Unlisted(bx2, rn, x, y, c)
         /\ Dropped(bx, rn, x, g, c) => Dropped(bx2, rn, x, g, c)
<1>1. Waits(bx2["upd"], c) <=> Waits(bx["upd"], c) \/ c \in DOMAIN e.upd
  BY AboutIs, WaitsAppend
<1>2. \A v : Brings(bx["upd"], v, t, c) => Brings(bx2["upd"], v, t2, c)
  BY BringsAppend
<1>3. ASSUME IsListed(bx, rn, x, y, g, t, c) PROVE IsListed(bx2, rn, x, y, g, t2, c)
  <2>1. Waits(bx["in"], c) \/ Runs(rn["in"], c) => t2 = t /\ c \notin DOMAIN e.upd
    OBVIOUS
  <2>2. \A i \in 1..Len(bx["in"]) : About(bx["in"][i], c) => bx["in"][i].gw = g /\ bx["in"][i].val = t2
    BY <1>3, <2>1 DEF IsListed, Waits
  <2>3. /\ ~Waits(bx["out"], c) /\ ~Runs(rn["out"], c)
        /\ Runs(rn["in"], c) => rn["in"].val = t2
        /\ Waits(bx["in"], c) \/ Runs(rn["in"], c) => ~Waits(bx2["upd"], c) /\ ~Runs(rn["upd"], c)
    BY <1>1, <1>3, <2>1 DEF IsListed
  <2>4. \/ Waits(bx["in"], c)
        \/ /\ x # None /\ x.gw = g /\ Brings(bx2["upd"], x.val, t2, c)
           /\ Runs(rn["in"], c) \/ (y # None /\ Brings(bx2["upd"], Shown(rn["upd"], y, c), t2, c))
    BY <1>2, <1>3 DEF IsListed
  <2> QED
    BY <2>2, <2>3, <2>4 DEF IsListed
<1>4. Unlisted(bx, rn, x, y, c) => Unlisted(bx2, rn, x, y, c)
  BY DEF Unlisted
<1>5. Dropped(bx, rn, x, g, c) => Dropped(bx2, rn, x, g, c)
  BY DEF Dropped
<1> QED
  BY <1>3, <1>4, <1>5

\* Login, of the character and of another one
LEMMA GetsIn ==
  ASSUME PresenceAssumption,
         NEW c, NEW bx, NEW rn, NEW bx2, NEW x, NEW y, NEW g, NEW t,
         NEW e \in EventsOf("in"), bx["in"] \in Seq(EventsOf("in")),
         bx2["in"] = Append(bx["in"], e),
         bx2["out"] = bx["out"], bx2["upd"] = bx["upd"], bx2["gone"] = bx["gone"]
  PROVE  /\ e.char # c =>
              /\ IsListed(bx, rn, x, y, g, t, c) => IsListed(bx2, rn, x, y, g, t, c)
              /\ Unlisted(bx, rn, x, y, c) => Unlisted(bx2, rn, x, y, c)
              /\ Dropped(bx, rn, x, g, c) => Dropped(bx2, rn, x, g, c)
         /\ e.char = c /\ (\A s \in {"in", "out", "upd"} : ~Waits(bx[s], c) /\ ~Runs(rn[s], c))
              => IsListed(bx2, rn, x, y, e.gw, e.val, c)
<1>1. Waits(bx2["in"], c) <=> Waits(bx["in"], c) \/ e.char = c
  BY AboutIs, WaitsAppend
<1> DEFINE n == Len(bx["in"]) + 1
<1>2. /\ Len(bx2["in"]) = n /\ bx2["in"][n] = e
      /\ \A i \in 1..Len(bx["in"]) : bx2["in"][i] = bx["in"][i]
      /\ \A i \in 1..n : i \in 1..Len(bx["in"]) \/ i = n
  BY AppendIs
<1>3. About(e, c) <=> e.char = c
  BY AboutIs
<1> HIDE DEF n
<1>4. ASSUME e.char # c, IsListed(bx, rn, x, y, g, t, c) PROVE IsListed(bx2, rn, x, y, g, t, c)
  <2>1. \A i \in 1..Len(bx2["in"]) : About(bx2["in"][i], c) => bx2["in"][i].gw = g /\ bx2["in"][i].val = t
    BY <1>2, <1>3, <1>4 DEF IsListed
  <2> QED
    BY <1>1, <1>4, <2>1 DEF IsListed
<1>5. e.char # c => (Unlisted(bx, rn, x, y, c) => Unlisted(bx2, rn, x, y, c))
  BY <1>1 DEF Unlisted
<1>6. e.char # c => (Dropped(bx, rn, x, g, c) => Dropped(bx2, rn, x, g, c))
  BY <1>1 DEF Dropped
<1>7. ASSUME e.char = c, \A s \in {"in", "out", "upd"} : ~Waits(bx[s], c) /\ ~Runs(rn[s], c)
      PROVE  IsListed(bx2, rn, x, y, e.gw, e.val, c)
  <2>1. /\ ~Waits(bx["in"], c) /\ ~Waits(bx["out"], c) /\ ~Waits(bx["upd"], c)
        /\ ~Runs(rn["in"], c) /\ ~Runs(rn["out"], c) /\ ~Runs(rn["upd"], c)
    BY <1>7
  <2>2. \A i \in 1..Len(bx2["in"]) : About(bx2["in"][i], c) => bx2["in"][i] = e
    BY <1>2, <2>1 DEF Waits
  <2> QED
    BY <1>1, <1>7, <2>1, <2>2 DEF IsListed
<1> QED
  BY <1>4, <1>5, <1>6, <1>7

\* Logout, of the character and of another one
LEMMA GetsOut ==
  ASSUME NEW c, NEW bx, NEW rn, NEW bx2, NEW x, NEW y, NEW g, NEW t,
         NEW e \in EventsOf("out"), bx["out"] \in Seq(EventsOf("out")),
         bx2["out"] = Append(bx["out"], e),
         bx2["in"] = bx["in"], bx2["upd"] = bx["upd"], bx2["gone"] = bx["gone"]
  PROVE  /\ e.char # c =>
              /\ IsListed(bx, rn, x, y, g, t, c) => IsListed(bx2, rn, x, y, g, t, c)
              /\ Unlisted(bx, rn, x, y, c) => Unlisted(bx2, rn, x, y, c)
              /\ Dropped(bx, rn, x, g, c) => Dropped(bx2, rn, x, g, c)
         /\ e.char = c /\ ~Waits(bx["in"], c) /\ ~Runs(rn["in"], c) => Unlisted(bx2, rn, x, y, c)
<1>1. Waits(bx2["out"], c) <=> Waits(bx["out"], c) \/ e.char = c
  BY AboutIs, WaitsAppend
<1>2. e.char # c => (IsListed(bx, rn, x, y, g, t, c) => IsListed(bx2, rn, x, y, g, t, c))
  BY <1>1 DEF IsListed
<1>3. Unlisted(bx, rn, x, y, c) => Unlisted(bx2, rn, x, y, c)
  BY <1>1 DEF Unlisted
<1>4. e.char # c => (Dropped(bx, rn, x, g, c) => Dropped(bx2, rn, x, g, c))
  BY <1>1 DEF Dropped
<1>5. e.char = c /\ ~Waits(bx["in"], c) /\ ~Runs(rn["in"], c) => Unlisted(bx2, rn, x, y, c)
  BY <1>1 DEF Unlisted
<1> QED
  BY <1>2, <1>3, <1>4, <1>5-----------------------------------------------------------------------------
(* The steps of the replicas.                                              *)

LEMMA ReplicaTypes ==
  ASSUME PresenceTypeOK, NEW r \in Replicas
  PROVE  /\ BoxOK(inboxes) /\ RunOK(running)
         /\ \A s \in Subjects : inboxes[r][s] \in Seq(EventsOf(s))
         /\ inboxes[r]["in"] \in Seq(EventsOf("in")) /\ inboxes[r]["out"] \in Seq(EventsOf("out"))
         /\ inboxes[r]["upd"] \in Seq(EventsOf("upd")) /\ inboxes[r]["gone"] \in Seq(EventsOf("gone"))
         /\ running[r]["in"] # None => running[r]["in"] \in EventsOf("in")
         /\ running[r]["out"] # None => running[r]["out"] \in HandledOf("out")
         /\ running[r]["upd"] # None => running[r]["upd"] \in EventsOf("upd")
         /\ \A c \in Chars : guidStorage[r][c] \in Entries \cup {None} /\ onlineInfo[r][c] \in Values \cup {None}
<1>1. BoxOK(inboxes) /\ RunOK(running) /\ StoreType
  BY TypeParts
<1>2. \A s \in Subjects : running[r][s] \in HandledOf(s) \cup {None} /\ inboxes[r][s] \in Seq(EventsOf(s))
  BY <1>1 DEF BoxOK, RunOK
<1>3. {"in", "out", "upd", "gone"} \subseteq Subjects
  BY DEF Subjects
<1>4. HandledOf("in") = EventsOf("in") /\ HandledOf("upd") = EventsOf("upd")
  BY DEF HandledOf
<1>5. \A c \in Chars : guidStorage[r][c] \in Entries \cup {None} /\ onlineInfo[r][c] \in Values \cup {None}
  BY <1>1 DEF StoreType
<1>6. /\ inboxes[r]["in"] \in Seq(EventsOf("in")) /\ inboxes[r]["out"] \in Seq(EventsOf("out"))
      /\ inboxes[r]["upd"] \in Seq(EventsOf("upd")) /\ inboxes[r]["gone"] \in Seq(EventsOf("gone"))
  BY <1>2, <1>3
<1>7. /\ running[r]["in"] # None => running[r]["in"] \in EventsOf("in")
      /\ running[r]["out"] # None => running[r]["out"] \in HandledOf("out")
      /\ running[r]["upd"] # None => running[r]["upd"] \in EventsOf("upd")
  BY <1>2, <1>3, <1>4
<1> QED
  BY <1>1, <1>2, <1>5, <1>6, <1>7, Zenon

LEMMA HandledIs ==
  ASSUME NEW c, Handled(c), NEW r \in Replicas
  PROVE  \A s \in {"in", "out", "upd"} : ~Waits(inboxes[r][s], c) /\ ~Runs(running[r][s], c)
BY DEF Handled, Pending, Waits, Runs

\* What a step keeps of one character in one replica.
NoLogin(r, c) == ~Waits(inboxes[r]["in"], c) /\ ~Runs(running[r]["in"], c)

Kept(r, c) ==
  /\ ListedAt(r, c) => ListedAt(r, c)'
  /\ UnlistedAt(r, c) => UnlistedAt(r, c)'
  /\ DroppedAt(r, c) => DroppedAt(r, c)'
  /\ NoLogin(r, c) => NoLogin(r, c)'

LEMMA AllKept ==
  ASSUME SettleInv, UNCHANGED <<session, up, unnoticed, removed, setting>>,
         \A r \in Replicas : inboxes'[r]["gone"] = inboxes[r]["gone"],
         setting.patient => \A r \in Replicas, c \in Chars : Kept(r, c)
  PROVE  SettleInv'
<1>1. DropsOnce'
  BY DEF SettleInv, DropsOnce
<1>2. ASSUME NEW c \in Chars, setting.patient PROVE Gone(c)' \/ Playing(c)' \/ Cleared(c)'
  <2>1. Gone(c) => Gone(c)'
    BY <1>2 DEF Gone, Kept
  <2>2. Cleared(c) => Cleared(c)'
    BY <1>2 DEF Cleared, Kept
  <2>3. Playing(c) => Playing(c)'
    BY <1>2 DEF Playing, Kept, NoLogin
  <2> QED
    BY <1>2, <2>1, <2>2, <2>3 DEF SettleInv
<1> QED
  BY <1>1, <1>2 DEF SettleInv

\* The other replicas.
LEMMA OthersIdle ==
  ASSUME NEW q \in Replicas, NEW c \in Chars, UNCHANGED <<session, told>>,
         \A s \in Subjects : inboxes'[q][s] = inboxes[q][s] /\ running'[q][s] = running[q][s],
         guidStorage'[q][c] = guidStorage[q][c], onlineInfo'[q][c] = onlineInfo[q][c]
  PROVE  Kept(q, c)
<1>1. inboxes'[q]["in"] = inboxes[q]["in"] /\ running'[q]["in"] = running[q]["in"]
  BY DEF Subjects
<1>2. NoLogin(q, c) => NoLogin(q, c)'
  BY <1>1 DEF NoLogin
<1> DEFINE bx == inboxes[q]
           rn == running[q]
           bx2 == inboxes'[q]
           rn2 == running'[q]
           x == guidStorage[q][c]
           y == onlineInfo[q][c]
           g == session[c].gw
           t == told[c]
<1>3. \A s \in Subjects : bx2[s] = bx[s] /\ rn2[s] = rn[s]
  OBVIOUS
<1>4. /\ ListedAt(q, c) <=> IsListed(bx, rn, x, y, g, t, c)
      /\ ListedAt(q, c)' <=> IsListed(bx2, rn2, x, y, g, t, c)
      /\ UnlistedAt(q, c) <=> Unlisted(bx, rn, x, y, c)
      /\ UnlistedAt(q, c)' <=> Unlisted(bx2, rn2, x, y, c)
      /\ DroppedAt(q, c) <=> Dropped(bx, rn, x, g, c)
      /\ DroppedAt(q, c)' <=> Dropped(bx2, rn2, x, g, c)
  BY DEF ListedAt, UnlistedAt, DroppedAt
<1> HIDE DEF bx, rn, bx2, rn2, x, y, g, t
<1>5. /\ IsListed(bx, rn, x, y, g, t, c) => IsListed(bx2, rn2, x, y, g, t, c)
      /\ Unlisted(bx, rn, x, y, c) => Unlisted(bx2, rn2, x, y, c)
      /\ Dropped(bx, rn, x, g, c) => Dropped(bx2, rn2, x, g, c)
  BY <1>3, NothingMoves
<1> QED
  BY <1>2, <1>4, <1>5 DEF Kept

LEMMA SettleHandleLoggedIn ==
  ASSUME PresenceAssumption, PresenceTypeOK, SettleInv, NEW r \in Replicas, HandleLoggedIn(r)
  PROVE  SettleInv'
<1> DEFINE e == Head(inboxes[r]["in"])
<1>1. /\ guidStorage' = [guidStorage EXCEPT ![r][e.char] = Entry(e)]
      /\ running' = [running EXCEPT ![r]["in"] = e]
      /\ running[r]["in"] = None /\ inboxes[r]["in"] # <<>>
      /\ inboxes' = [inboxes EXCEPT ![r]["in"] = Tail(@)]
      /\ UNCHANGED <<session, told, up, unnoticed, removed, setting, onlineInfo>>
  BY DEF HandleLoggedIn, gwVars, faultVars
<1>2. {"in", "out", "upd", "gone"} = Subjects
  BY DEF Subjects
<1>0. /\ "in" \in Subjects /\ "out" \in Subjects /\ "upd" \in Subjects
      /\ BoxOK(inboxes) /\ RunOK(running)
  BY TypeParts DEF Subjects
<1>3. /\ e \in EventsOf("in")
      /\ \A q \in Replicas, s \in Subjects :
           inboxes'[q][s] = IF q = r /\ s = "in" THEN Tail(inboxes[q][s]) ELSE inboxes[q][s]
  BY <1>0, <1>1, TakeType
<1> HIDE DEF e
<1>4. e.char \in Chars /\ Entry(e) \in Entries /\ e \in HandledOf("in")
  BY <1>3, InEvent
<1>5. \A q \in Replicas, s \in Subjects : running'[q][s] = IF q = r /\ s = "in" THEN e ELSE running[q][s]
  BY <1>0, <1>1 DEF RunOK
<1>6. \A q \in Replicas, c \in Chars :
        guidStorage'[q][c] = IF q = r /\ c = e.char THEN Entry(e) ELSE guidStorage[q][c]
  BY <1>1, <1>4, TypeParts DEF StoreType
<1>7. ASSUME NEW c \in Chars PROVE Kept(r, c)
  <2> DEFINE bx == inboxes[r]
             rn == running[r]
             bx2 == inboxes'[r]
             rn2 == running'[r]
             x == guidStorage[r][c]
             x2 == guidStorage'[r][c]
             y == onlineInfo[r][c]
             g == session[c].gw
             t == told[c]
  <2>1. /\ bx["in"] \in Seq(EventsOf("in")) /\ bx["in"] # <<>> /\ bx["upd"] \in Seq(EventsOf("upd"))
        /\ rn["in"] = None
    BY <1>1, ReplicaTypes
  <2>2. /\ bx2["in"] = Tail(bx["in"]) /\ bx2["out"] = bx["out"] /\ bx2["upd"] = bx["upd"]
        /\ bx2["gone"] = bx["gone"]
    BY <1>2, <1>3
  <2>3. rn2["in"] = Head(bx["in"]) /\ rn2["out"] = rn["out"] /\ rn2["upd"] = rn["upd"]
    BY <1>2, <1>5 DEF e
  <2>4. /\ Head(bx["in"]).char = c => x2 = Entry(Head(bx["in"]))
        /\ Head(bx["in"]).char # c => x2 = x
    BY <1>6 DEF e
  <2>5. /\ ListedAt(r, c) <=> IsListed(bx, rn, x, y, g, t, c)
        /\ ListedAt(r, c)' <=> IsListed(bx2, rn2, x2, y, g, t, c)
        /\ UnlistedAt(r, c) <=> Unlisted(bx, rn, x, y, c)
        /\ UnlistedAt(r, c)' <=> Unlisted(bx2, rn2, x2, y, c)
        /\ DroppedAt(r, c) <=> Dropped(bx, rn, x, g, c)
        /\ DroppedAt(r, c)' <=> Dropped(bx2, rn2, x2, g, c)
        /\ NoLogin(r, c) <=> ~Waits(bx["in"], c) /\ ~Runs(rn["in"], c)
        /\ NoLogin(r, c)' <=> ~Waits(bx2["in"], c) /\ ~Runs(rn2["in"], c)
    BY <1>1 DEF ListedAt, UnlistedAt, DroppedAt, NoLogin
  <2> HIDE DEF bx, rn, bx2, rn2, x, x2, y, g, t
  <2>6. /\ IsListed(bx, rn, x, y, g, t, c) => IsListed(bx2, rn2, x2, y, g, t, c)
        /\ Unlisted(bx, rn, x, y, c) => Unlisted(bx2, rn2, x2, y, c)
        /\ Dropped(bx, rn, x, g, c) => Dropped(bx2, rn2, x2, g, c)
    BY <2>1, <2>2, <2>3, <2>4, TakesIn
  <2>7. ~Waits(bx["in"], c) => ~Waits(bx2["in"], c) /\ ~Runs(rn2["in"], c)
    BY <2>1, <2>2, <2>3, WaitsTail DEF Runs
  <2> QED
    BY <2>5, <2>6, <2>7 DEF Kept
<1>8. ASSUME NEW q \in Replicas, NEW c \in Chars, q # r PROVE Kept(q, c)
  BY <1>1, <1>3, <1>5, <1>6, <1>8, OthersIdle
<1>9. \A q \in Replicas : inboxes'[q]["gone"] = inboxes[q]["gone"]
  BY <1>2, <1>3
<1> QED
  BY <1>1, <1>7, <1>8, <1>9, AllKept
LEMMA SettleHandleLoggedOut ==
  ASSUME PresenceAssumption, PresenceTypeOK, SettleInv, NEW r \in Replicas, HandleLoggedOut(r)
  PROVE  SettleInv'
<1> DEFINE e == Head(inboxes[r]["out"])
           b == guidStorage[r][e.char] # None
           h == [char |-> e.char, found |-> b]
<1>1. /\ running' = [running EXCEPT ![r]["out"] = h]
      /\ running[r]["out"] = None /\ inboxes[r]["out"] # <<>>
      /\ inboxes' = [inboxes EXCEPT ![r]["out"] = Tail(@)]
      /\ UNCHANGED <<session, told, up, unnoticed, removed, setting, onlineInfo, guidStorage>>
  BY DEF HandleLoggedOut, gwVars, faultVars, storageVars
<1>2. {"in", "out", "upd", "gone"} = Subjects
  BY DEF Subjects
<1>0. /\ "in" \in Subjects /\ "out" \in Subjects /\ "upd" \in Subjects
      /\ BoxOK(inboxes) /\ RunOK(running)
  BY TypeParts DEF Subjects
<1>3. /\ e \in EventsOf("out")
      /\ \A q \in Replicas, s \in Subjects :
           inboxes'[q][s] = IF q = r /\ s = "out" THEN Tail(inboxes[q][s]) ELSE inboxes[q][s]
  BY <1>0, <1>1, TakeType
<1> HIDE DEF e
<1>4. h \in HandledOf("out") /\ h.char = e.char /\ h.found = b
  <2>1. \A d \in BOOLEAN, z \in Chars : [char |-> z, found |-> d] \in HandledOf("out")
    BY DEF HandledOf
  <2>2. e.char \in Chars /\ b \in BOOLEAN
    BY <1>3, OutEvent
  <2> HIDE DEF b
  <2> QED
    BY <2>1, <2>2
<1> HIDE DEF h
<1>5. \A q \in Replicas, s \in Subjects : running'[q][s] = IF q = r /\ s = "out" THEN h ELSE running[q][s]
  BY <1>0, <1>1 DEF RunOK
<1>7. ASSUME NEW c \in Chars PROVE Kept(r, c)
  <2> DEFINE bx == inboxes[r]
             rn == running[r]
             bx2 == inboxes'[r]
             rn2 == running'[r]
             x == guidStorage[r][c]
             y == onlineInfo[r][c]
             g == session[c].gw
             t == told[c]
  <2>1. bx["out"] \in Seq(EventsOf("out")) /\ bx["out"] # <<>> /\ rn["out"] = None
    BY <1>1, ReplicaTypes
  <2>2. /\ bx2["out"] = Tail(bx["out"]) /\ bx2["in"] = bx["in"] /\ bx2["upd"] = bx["upd"]
        /\ bx2["gone"] = bx["gone"]
    BY <1>2, <1>3
  <2>3. rn2["out"] = h /\ rn2["in"] = rn["in"] /\ rn2["upd"] = rn["upd"]
    BY <1>2, <1>5
  <2>4. h.char = Head(bx["out"]).char /\ (h.char = c => (h.found <=> x # None))
    BY <1>4 DEF e
  <2>5. /\ ListedAt(r, c) <=> IsListed(bx, rn, x, y, g, t, c)
        /\ ListedAt(r, c)' <=> IsListed(bx2, rn2, x, y, g, t, c)
        /\ UnlistedAt(r, c) <=> Unlisted(bx, rn, x, y, c)
        /\ UnlistedAt(r, c)' <=> Unlisted(bx2, rn2, x, y, c)
        /\ DroppedAt(r, c) <=> Dropped(bx, rn, x, g, c)
        /\ DroppedAt(r, c)' <=> Dropped(bx2, rn2, x, g, c)
        /\ NoLogin(r, c) <=> ~Waits(bx["in"], c) /\ ~Runs(rn["in"], c)
        /\ NoLogin(r, c)' <=> ~Waits(bx2["in"], c) /\ ~Runs(rn2["in"], c)
    BY <1>1 DEF ListedAt, UnlistedAt, DroppedAt, NoLogin
  <2> HIDE DEF bx, rn, bx2, rn2, x, y, g, t, b
  <2>6. /\ IsListed(bx, rn, x, y, g, t, c) => IsListed(bx2, rn2, x, y, g, t, c)
        /\ Unlisted(bx, rn, x, y, c) => Unlisted(bx2, rn2, x, y, c)
        /\ Dropped(bx, rn, x, g, c) => Dropped(bx2, rn2, x, g, c)
    BY <1>4, <2>1, <2>2, <2>3, <2>4, TakesOut
  <2> QED
    BY <2>2, <2>3, <2>5, <2>6 DEF Kept
<1>8. ASSUME NEW q \in Replicas, NEW c \in Chars, q # r PROVE Kept(q, c)
  BY <1>1, <1>3, <1>5, <1>8, OthersIdle
<1>9. \A q \in Replicas : inboxes'[q]["gone"] = inboxes[q]["gone"]
  BY <1>2, <1>3
<1> QED
  BY <1>1, <1>7, <1>8, <1>9, AllKept

LEMMA SettleRemoveFound ==
  ASSUME PresenceAssumption, PresenceTypeOK, SettleInv, NEW r \in Replicas, RemoveFound(r)
  PROVE  SettleInv'
<1> DEFINE h == running[r]["out"]
           h2 == [h EXCEPT !.found = FALSE]
<1>1. /\ guidStorage' = [guidStorage EXCEPT ![r][h.char] = None]
      /\ running' = [running EXCEPT ![r]["out"].found = FALSE]
      /\ h # None /\ inboxes' = inboxes
      /\ UNCHANGED <<session, told, up, unnoticed, removed, setting, onlineInfo>>
  BY DEF RemoveFound, gwVars, faultVars
<1>2. {"in", "out", "upd", "gone"} = Subjects
  BY DEF Subjects
<1>0. /\ "in" \in Subjects /\ "out" \in Subjects /\ "upd" \in Subjects
      /\ BoxOK(inboxes) /\ RunOK(running)
  BY TypeParts DEF Subjects
<1>3. /\ h.char \in Chars /\ h \in HandledOf("out") /\ h2 \in HandledOf("out") /\ h2.char = h.char
  BY <1>1, ReplicaTypes, OutRun
<1>4. running' = [running EXCEPT ![r]["out"] = h2]
  BY <1>1, <1>2, ReplicaTypes DEF RunOK
<1>5. h2 # None
  BY <1>3, NotNone
<1> HIDE DEF h, h2
<1>6. \A q \in Replicas, s \in Subjects : running'[q][s] = IF q = r /\ s = "out" THEN h2 ELSE running[q][s]
  BY <1>0, <1>4 DEF RunOK
<1>10. \A q \in Replicas, c \in Chars :
        guidStorage'[q][c] = IF q = r /\ c = h.char THEN None ELSE guidStorage[q][c]
  BY <1>1, <1>3, TypeParts DEF StoreType
<1>7. ASSUME NEW c \in Chars PROVE Kept(r, c)
  <2> DEFINE bx == inboxes[r]
             rn == running[r]
             bx2 == inboxes'[r]
             rn2 == running'[r]
             x == guidStorage[r][c]
             x2 == guidStorage'[r][c]
             y == onlineInfo[r][c]
             g == session[c].gw
             t == told[c]
  <2>2. /\ bx2["out"] = bx["out"] /\ bx2["in"] = bx["in"] /\ bx2["upd"] = bx["upd"]
        /\ bx2["gone"] = bx["gone"]
    BY <1>1
  <2>3. rn["out"] = h /\ rn2["out"] = h2 /\ rn2["in"] = rn["in"] /\ rn2["upd"] = rn["upd"]
    BY <1>2, <1>6 DEF h
  <2>4. x2 = IF h.char = c THEN None ELSE x
    BY <1>10
  <2>5. /\ ListedAt(r, c) <=> IsListed(bx, rn, x, y, g, t, c)
        /\ ListedAt(r, c)' <=> IsListed(bx2, rn2, x2, y, g, t, c)
        /\ UnlistedAt(r, c) <=> Unlisted(bx, rn, x, y, c)
        /\ UnlistedAt(r, c)' <=> Unlisted(bx2, rn2, x2, y, c)
        /\ DroppedAt(r, c) <=> Dropped(bx, rn, x, g, c)
        /\ DroppedAt(r, c)' <=> Dropped(bx2, rn2, x2, g, c)
        /\ NoLogin(r, c) <=> ~Waits(bx["in"], c) /\ ~Runs(rn["in"], c)
        /\ NoLogin(r, c)' <=> ~Waits(bx2["in"], c) /\ ~Runs(rn2["in"], c)
    BY <1>1 DEF ListedAt, UnlistedAt, DroppedAt, NoLogin
  <2> HIDE DEF bx, rn, bx2, rn2, x, x2, y, g, t
  <2>6. /\ IsListed(bx, rn, x, y, g, t, c) => IsListed(bx2, rn2, x2, y, g, t, c)
        /\ Unlisted(bx, rn, x, y, c) => Unlisted(bx2, rn2, x2, y, c)
        /\ Dropped(bx, rn, x, g, c) => Dropped(bx2, rn2, x2, g, c)
    BY <1>1, <1>3, <1>5, <2>2, <2>3, <2>4, RemovesFound
  <2> QED
    BY <2>2, <2>3, <2>5, <2>6 DEF Kept
<1>8. ASSUME NEW q \in Replicas, NEW c \in Chars, q # r PROVE Kept(q, c)
  BY <1>1, <1>6, <1>10, <1>8, OthersIdle
<1> QED
  BY <1>1, <1>7, <1>8, AllKept

LEMMA SettleHandleUpdates ==
  ASSUME PresenceAssumption, PresenceTypeOK, SettleInv, NEW r \in Replicas, HandleUpdates(r)
  PROVE  SettleInv'
<1> DEFINE e == Head(inboxes[r]["upd"])
           new(c) == IF c \in DOMAIN e.upd /\ guidStorage[r][c] # None
                     THEN [guidStorage[r][c] EXCEPT !.val = Over(e.upd[c], guidStorage[r][c].val)]
                     ELSE guidStorage[r][c]
<1>1. /\ guidStorage' = [guidStorage EXCEPT ![r] = [c \in Chars |-> new(c)]]
      /\ running' = [running EXCEPT ![r]["upd"] = e]
      /\ running[r]["upd"] = None /\ inboxes[r]["upd"] # <<>>
      /\ inboxes' = [inboxes EXCEPT ![r]["upd"] = Tail(@)]
      /\ UNCHANGED <<session, told, up, unnoticed, removed, setting, onlineInfo>>
  BY DEF HandleUpdates, gwVars, faultVars
<1>2. {"in", "out", "upd", "gone"} = Subjects
  BY DEF Subjects
<1>0. /\ "in" \in Subjects /\ "out" \in Subjects /\ "upd" \in Subjects
      /\ BoxOK(inboxes) /\ RunOK(running)
  BY TypeParts DEF Subjects
<1>3. /\ e \in EventsOf("upd")
      /\ \A q \in Replicas, s \in Subjects :
           inboxes'[q][s] = IF q = r /\ s = "upd" THEN Tail(inboxes[q][s]) ELSE inboxes[q][s]
  BY <1>0, <1>1, TakeType
<1> HIDE DEF e
<1>4. e \in HandledOf("upd")
  BY <1>3, UpdEvent
<1>5. \A q \in Replicas, s \in Subjects : running'[q][s] = IF q = r /\ s = "upd" THEN e ELSE running[q][s]
  <2> HIDE DEF new
  <2> QED
    BY <1>0, <1>1 DEF RunOK
<1>6. \A q \in Replicas, c \in Chars :
        guidStorage'[q][c] = IF q = r THEN new(c) ELSE guidStorage[q][c]
  <2> HIDE DEF new
  <2> QED
    BY <1>1, TypeParts DEF StoreType
<1>7. ASSUME NEW c \in Chars PROVE Kept(r, c)
  <2> DEFINE bx == inboxes[r]
             rn == running[r]
             bx2 == inboxes'[r]
             rn2 == running'[r]
             x == guidStorage[r][c]
             x2 == guidStorage'[r][c]
             y == onlineInfo[r][c]
             g == session[c].gw
             t == told[c]
  <2>1. /\ bx["upd"] \in Seq(EventsOf("upd")) /\ bx["upd"] # <<>> /\ rn["upd"] = None
        /\ x \in Entries \cup {None} /\ y \in Values \cup {None}
    BY <1>1, ReplicaTypes
  <2>2. /\ bx2["upd"] = Tail(bx["upd"]) /\ bx2["out"] = bx["out"] /\ bx2["in"] = bx["in"]
        /\ bx2["gone"] = bx["gone"]
    BY <1>2, <1>3
  <2>3. rn2["upd"] = Head(bx["upd"]) /\ rn2["out"] = rn["out"] /\ rn2["in"] = rn["in"]
    BY <1>2, <1>5 DEF e
  <2>4. /\ x2 = None <=> x = None
        /\ x # None => x.val \in Values /\ x2.gw = x.gw
                       /\ x2.val = IF c \in DOMAIN e.upd THEN Over(e.upd[c], x.val) ELSE x.val
    <3>1. x2 = new(c)
      BY <1>6
    <3> HIDE DEF x2
    <3>2. x2 = IF c \in DOMAIN e.upd /\ x # None THEN [x EXCEPT !.val = Over(e.upd[c], x.val)] ELSE x
      BY <3>1
    <3> HIDE DEF x, new
    <3> QED
      BY <1>3, <2>1, <3>2, EntryTakesUpdate
  <2>7. e = Head(bx["upd"])
    BY DEF e
  <2>5. /\ ListedAt(r, c) <=> IsListed(bx, rn, x, y, g, t, c)
        /\ ListedAt(r, c)' <=> IsListed(bx2, rn2, x2, y, g, t, c)
        /\ UnlistedAt(r, c) <=> Unlisted(bx, rn, x, y, c)
        /\ UnlistedAt(r, c)' <=> Unlisted(bx2, rn2, x2, y, c)
        /\ DroppedAt(r, c) <=> Dropped(bx, rn, x, g, c)
        /\ DroppedAt(r, c)' <=> Dropped(bx2, rn2, x2, g, c)
        /\ NoLogin(r, c) <=> ~Waits(bx["in"], c) /\ ~Runs(rn["in"], c)
        /\ NoLogin(r, c)' <=> ~Waits(bx2["in"], c) /\ ~Runs(rn2["in"], c)
    BY <1>1 DEF ListedAt, UnlistedAt, DroppedAt, NoLogin
  <2> HIDE DEF bx, rn, bx2, rn2, x, x2, y, g, t
  <2>6. /\ IsListed(bx, rn, x, y, g, t, c) => IsListed(bx2, rn2, x2, y, g, t, c)
        /\ Unlisted(bx, rn, x, y, c) => Unlisted(bx2, rn2, x2, y, c)
        /\ Dropped(bx, rn, x, g, c) => Dropped(bx2, rn2, x2, g, c)
    BY <2>1, <2>2, <2>3, <2>4, <2>7, TakesUpdate
  <2> QED
    BY <2>2, <2>3, <2>5, <2>6 DEF Kept
<1>8. ASSUME NEW q \in Replicas, NEW c \in Chars, q # r PROVE Kept(q, c)
  <2> HIDE DEF new
  <2> QED
    BY <1>1, <1>3, <1>5, <1>6, <1>8, OthersIdle
<1>9. \A q \in Replicas : inboxes'[q]["gone"] = inboxes[q]["gone"]
  BY <1>2, <1>3
<1> QED
  BY <1>1, <1>7, <1>8, <1>9, AllKept
LEMMA SettleHandleFriends ==
  ASSUME PresenceAssumption, PresenceTypeOK, SettleInv, NEW r \in Replicas, HandleFriends(r)
  PROVE  SettleInv'
<1>1. UNCHANGED <<session, told, up, unnoticed, removed, setting, guidStorage, inboxes>>
  BY DEF HandleFriends, gwVars, faultVars, storageVars
<1>2. {"in", "out", "upd", "gone"} = Subjects
  BY DEF Subjects
<1>0. RunOK(running) /\ StoreType
  BY TypeParts
<1>3. ASSUME running[r]["in"] # None,
             onlineInfo' = [onlineInfo EXCEPT ![r][running[r]["in"].char] = running[r]["in"].val],
             running' = [running EXCEPT ![r]["in"] = None]
      PROVE  SettleInv'
  <2>1. running[r]["in"] \in EventsOf("in")
    BY <1>3, ReplicaTypes
  <2>2. \A q \in Replicas, s \in Subjects :
          running'[q][s] = IF q = r /\ s = "in" THEN None ELSE running[q][s]
    BY <1>0, <1>3 DEF RunOK
  <2>3. \A q \in Replicas, c \in Chars :
          onlineInfo'[q][c] = IF q = r /\ running[r]["in"].char = c THEN running[r]["in"].val
                              ELSE onlineInfo[q][c]
    BY <1>0, <1>3 DEF StoreType
  <2>4. ASSUME NEW c \in Chars PROVE Kept(r, c)
    <3> DEFINE bx == inboxes[r]
               rn == running[r]
               bx2 == inboxes'[r]
               rn2 == running'[r]
               x == guidStorage[r][c]
               y == onlineInfo[r][c]
               y2 == onlineInfo'[r][c]
               g == session[c].gw
               t == told[c]
    <3>1. /\ bx["upd"] \in Seq(EventsOf("upd")) /\ y \in Values \cup {None}
      BY ReplicaTypes
    <3>2. /\ bx2["in"] = bx["in"] /\ bx2["out"] = bx["out"] /\ bx2["upd"] = bx["upd"]
          /\ bx2["gone"] = bx["gone"]
      BY <1>1
    <3>3. rn2["in"] = None /\ rn2["out"] = rn["out"] /\ rn2["upd"] = rn["upd"]
      BY <1>2, <2>2
    <3>4. (rn["in"].char = c => y2 = rn["in"].val) /\ (rn["in"].char # c => y2 = y)
      BY <2>3
    <3>5. /\ ListedAt(r, c) <=> IsListed(bx, rn, x, y, g, t, c)
          /\ ListedAt(r, c)' <=> IsListed(bx2, rn2, x, y2, g, t, c)
          /\ UnlistedAt(r, c) <=> Unlisted(bx, rn, x, y, c)
          /\ UnlistedAt(r, c)' <=> Unlisted(bx2, rn2, x, y2, c)
          /\ DroppedAt(r, c) <=> Dropped(bx, rn, x, g, c)
          /\ DroppedAt(r, c)' <=> Dropped(bx2, rn2, x, g, c)
          /\ NoLogin(r, c) <=> ~Waits(bx["in"], c) /\ ~Runs(rn["in"], c)
          /\ NoLogin(r, c)' <=> ~Waits(bx2["in"], c) /\ ~Runs(rn2["in"], c)
      BY <1>1 DEF ListedAt, UnlistedAt, DroppedAt, NoLogin
    <3>6. rn["in"] \in EventsOf("in")
      BY <1>3, <2>1
    <3> HIDE DEF bx, rn, bx2, rn2, x, y, y2, g, t
    <3>7. /\ IsListed(bx, rn, x, y, g, t, c) => IsListed(bx2, rn2, x, y2, g, t, c)
          /\ Unlisted(bx, rn, x, y, c) => Unlisted(bx2, rn2, x, y2, c)
          /\ Dropped(bx, rn, x, g, c) => Dropped(bx2, rn2, x, g, c)
      BY <3>1, <3>2, <3>3, <3>4, <3>6, ShowsIn
    <3> QED
      BY <3>2, <3>3, <3>5, <3>7 DEF Kept, Runs
  <2>5. ASSUME NEW q \in Replicas, NEW c \in Chars, q # r PROVE Kept(q, c)
    BY <1>1, <2>2, <2>3, <2>5, OthersIdle
  <2> QED
    BY <1>1, <2>4, <2>5, AllKept
<1>4. ASSUME running[r]["out"] # None, ~running[r]["out"].found,
             onlineInfo' = [onlineInfo EXCEPT ![r][running[r]["out"].char] = None],
             running' = [running EXCEPT ![r]["out"] = None]
      PROVE  SettleInv'
  <2>1. running[r]["out"] \in HandledOf("out")
    BY <1>4, ReplicaTypes
  <2>2. \A q \in Replicas, s \in Subjects :
          running'[q][s] = IF q = r /\ s = "out" THEN None ELSE running[q][s]
    BY <1>0, <1>4 DEF RunOK
  <2>3. \A q \in Replicas, c \in Chars :
          onlineInfo'[q][c] = IF q = r /\ running[r]["out"].char = c THEN None
                              ELSE onlineInfo[q][c]
    BY <1>0, <1>4 DEF StoreType
  <2>4. ASSUME NEW c \in Chars PROVE Kept(r, c)
    <3> DEFINE bx == inboxes[r]
               rn == running[r]
               bx2 == inboxes'[r]
               rn2 == running'[r]
               x == guidStorage[r][c]
               y == onlineInfo[r][c]
               y2 == onlineInfo'[r][c]
               g == session[c].gw
               t == told[c]
    <3>1. /\ bx["upd"] \in Seq(EventsOf("upd")) /\ y \in Values \cup {None}
      BY ReplicaTypes
    <3>2. /\ bx2["in"] = bx["in"] /\ bx2["out"] = bx["out"] /\ bx2["upd"] = bx["upd"]
          /\ bx2["gone"] = bx["gone"]
      BY <1>1
    <3>3. rn2["out"] = None /\ rn2["in"] = rn["in"] /\ rn2["upd"] = rn["upd"]
      BY <1>2, <2>2
    <3>4. y2 = IF rn["out"].char = c THEN None ELSE y
      BY <2>3
    <3>5. /\ ListedAt(r, c) <=> IsListed(bx, rn, x, y, g, t, c)
          /\ ListedAt(r, c)' <=> IsListed(bx2, rn2, x, y2, g, t, c)
          /\ UnlistedAt(r, c) <=> Unlisted(bx, rn, x, y, c)
          /\ UnlistedAt(r, c)' <=> Unlisted(bx2, rn2, x, y2, c)
          /\ DroppedAt(r, c) <=> Dropped(bx, rn, x, g, c)
          /\ DroppedAt(r, c)' <=> Dropped(bx2, rn2, x, g, c)
          /\ NoLogin(r, c) <=> ~Waits(bx["in"], c) /\ ~Runs(rn["in"], c)
          /\ NoLogin(r, c)' <=> ~Waits(bx2["in"], c) /\ ~Runs(rn2["in"], c)
      BY <1>1 DEF ListedAt, UnlistedAt, DroppedAt, NoLogin
    <3>6. rn["out"] \in HandledOf("out") /\ rn["out"] # None /\ ~rn["out"].found
      BY <1>4, <2>1
    <3> HIDE DEF bx, rn, bx2, rn2, x, y, y2, g, t
    <3>7. /\ IsListed(bx, rn, x, y, g, t, c) => IsListed(bx2, rn2, x, y2, g, t, c)
          /\ Unlisted(bx, rn, x, y, c) => Unlisted(bx2, rn2, x, y2, c)
          /\ Dropped(bx, rn, x, g, c) => Dropped(bx2, rn2, x, g, c)
      BY <3>1, <3>2, <3>3, <3>4, <3>6, ShowsOut
    <3> QED
      BY <3>2, <3>3, <3>5, <3>7 DEF Kept, Runs
  <2>5. ASSUME NEW q \in Replicas, NEW c \in Chars, q # r PROVE Kept(q, c)
    BY <1>1, <2>2, <2>3, <2>5, OthersIdle
  <2> QED
    BY <1>1, <2>4, <2>5, AllKept
<1>5. ASSUME running[r]["upd"] # None,
             onlineInfo' = [onlineInfo EXCEPT ![r] = [c \in Chars |->
                    IF c \in DOMAIN running[r]["upd"].upd /\ @[c] # None
                    THEN Over(running[r]["upd"].upd[c], @[c]) ELSE @[c]]],
             running' = [running EXCEPT ![r]["upd"] = None]
      PROVE  SettleInv'
  <2>1. running[r]["upd"] \in EventsOf("upd")
    BY <1>5, ReplicaTypes
  <2>2. \A q \in Replicas, s \in Subjects :
          running'[q][s] = IF q = r /\ s = "upd" THEN None ELSE running[q][s]
    BY <1>0, <1>5 DEF RunOK
  <2>3. \A q \in Replicas, c \in Chars :
          onlineInfo'[q][c] = IF q = r /\ c \in DOMAIN running[r]["upd"].upd /\ onlineInfo[r][c] # None
                              THEN Over(running[r]["upd"].upd[c], onlineInfo[r][c])
                              ELSE onlineInfo[q][c]
    BY <1>0, <1>5 DEF StoreType
  <2>4. ASSUME NEW c \in Chars PROVE Kept(r, c)
    <3> DEFINE bx == inboxes[r]
               rn == running[r]
               bx2 == inboxes'[r]
               rn2 == running'[r]
               x == guidStorage[r][c]
               y == onlineInfo[r][c]
               y2 == onlineInfo'[r][c]
               g == session[c].gw
               t == told[c]
    <3>1. /\ bx["upd"] \in Seq(EventsOf("upd")) /\ y \in Values \cup {None}
      BY ReplicaTypes
    <3>2. /\ bx2["in"] = bx["in"] /\ bx2["out"] = bx["out"] /\ bx2["upd"] = bx["upd"]
          /\ bx2["gone"] = bx["gone"]
      BY <1>1
    <3>3. rn2["upd"] = None /\ rn2["in"] = rn["in"] /\ rn2["out"] = rn["out"]
      BY <1>2, <2>2
    <3>4. /\ c \in DOMAIN rn["upd"].upd /\ y # None => y2 = Over(rn["upd"].upd[c], y)
          /\ ~(c \in DOMAIN rn["upd"].upd /\ y # None) => y2 = y
      BY <2>3
    <3>5. /\ ListedAt(r, c) <=> IsListed(bx, rn, x, y, g, t, c)
          /\ ListedAt(r, c)' <=> IsListed(bx2, rn2, x, y2, g, t, c)
          /\ UnlistedAt(r, c) <=> Unlisted(bx, rn, x, y, c)
          /\ UnlistedAt(r, c)' <=> Unlisted(bx2, rn2, x, y2, c)
          /\ DroppedAt(r, c) <=> Dropped(bx, rn, x, g, c)
          /\ DroppedAt(r, c)' <=> Dropped(bx2, rn2, x, g, c)
          /\ NoLogin(r, c) <=> ~Waits(bx["in"], c) /\ ~Runs(rn["in"], c)
          /\ NoLogin(r, c)' <=> ~Waits(bx2["in"], c) /\ ~Runs(rn2["in"], c)
      BY <1>1 DEF ListedAt, UnlistedAt, DroppedAt, NoLogin
    <3>6. rn["upd"] \in EventsOf("upd")
      BY <1>5, <2>1
    <3> HIDE DEF bx, rn, bx2, rn2, x, y, y2, g, t
    <3>7. /\ IsListed(bx, rn, x, y, g, t, c) => IsListed(bx2, rn2, x, y2, g, t, c)
          /\ Unlisted(bx, rn, x, y, c) => Unlisted(bx2, rn2, x, y2, c)
          /\ Dropped(bx, rn, x, g, c) => Dropped(bx2, rn2, x, g, c)
      BY <3>1, <3>2, <3>3, <3>4, <3>6, ShowsUpdate
    <3> QED
      BY <3>2, <3>3, <3>5, <3>7 DEF Kept, Runs
  <2>5. ASSUME NEW q \in Replicas, NEW c \in Chars, q # r PROVE Kept(q, c)
    BY <1>1, <2>2, <2>3, <2>5, OthersIdle
  <2> QED
    BY <1>1, <2>4, <2>5, AllKept
<1> QED
  BY <1>3, <1>4, <1>5 DEF HandleFriends
\* The removal of a gateway's entries.
KeptBut(r, c, h) ==
  /\ session[c].gw # h => (ListedAt(r, c) => ListedAt(r, c)')
  /\ UnlistedAt(r, c) => UnlistedAt(r, c)'
  /\ DroppedAt(r, c) => DroppedAt(r, c)'
  /\ NoLogin(r, c) => NoLogin(r, c)'

LEMMA RemovalAt ==
  ASSUME NEW r \in Replicas, NEW c \in Chars, NEW h, UNCHANGED <<session, told, running, onlineInfo>>,
         \A s \in {"in", "out", "upd"} : inboxes'[r][s] = inboxes[r][s],
         \/ guidStorage'[r][c] = guidStorage[r][c]
         \/ guidStorage[r][c] # None /\ guidStorage[r][c].gw = h /\ guidStorage'[r][c] = None,
         \/ \A i \in 1..Len(inboxes[r]["gone"]) :
              \E j \in 1..Len(inboxes'[r]["gone"]) : inboxes'[r]["gone"][j] = inboxes[r]["gone"][i]
         \/ /\ \A i \in 1..Len(inboxes[r]["gone"]) :
                 \/ inboxes[r]["gone"][i].gw = h
                 \/ \E j \in 1..Len(inboxes'[r]["gone"]) : inboxes'[r]["gone"][j] = inboxes[r]["gone"][i]
            /\ guidStorage[r][c] # None /\ guidStorage[r][c].gw = h => guidStorage'[r][c] = None
  PROVE  KeptBut(r, c, h)
<1> DEFINE bx == inboxes[r]
           rn == running[r]
           bx2 == inboxes'[r]
           rn2 == running'[r]
           x == guidStorage[r][c]
           x2 == guidStorage'[r][c]
           y == onlineInfo[r][c]
           g == session[c].gw
           t == told[c]
<1>1. /\ bx2["in"] = bx["in"] /\ bx2["out"] = bx["out"] /\ bx2["upd"] = bx["upd"]
      /\ rn2["in"] = rn["in"] /\ rn2["out"] = rn["out"] /\ rn2["upd"] = rn["upd"]
  OBVIOUS
<1>2. x2 = x \/ (x # None /\ x.gw = h /\ x2 = None)
  OBVIOUS
<1>3. \/ \A i \in 1..Len(bx["gone"]) : \E j \in 1..Len(bx2["gone"]) : bx2["gone"][j] = bx["gone"][i]
      \/ /\ \A i \in 1..Len(bx["gone"]) : \/ bx["gone"][i].gw = h
                                          \/ \E j \in 1..Len(bx2["gone"]) : bx2["gone"][j] = bx["gone"][i]
         /\ x # None /\ x.gw = h => x2 = None
  BY Zenon
<1>4. /\ ListedAt(r, c) <=> IsListed(bx, rn, x, y, g, t, c)
      /\ ListedAt(r, c)' <=> IsListed(bx2, rn2, x2, y, g, t, c)
      /\ UnlistedAt(r, c) <=> Unlisted(bx, rn, x, y, c)
      /\ UnlistedAt(r, c)' <=> Unlisted(bx2, rn2, x2, y, c)
      /\ DroppedAt(r, c) <=> Dropped(bx, rn, x, g, c)
      /\ DroppedAt(r, c)' <=> Dropped(bx2, rn2, x2, g, c)
      /\ NoLogin(r, c) <=> ~Waits(bx["in"], c) /\ ~Runs(rn["in"], c)
      /\ NoLogin(r, c)' <=> ~Waits(bx2["in"], c) /\ ~Runs(rn2["in"], c)
  BY DEF ListedAt, UnlistedAt, DroppedAt, NoLogin
<1>5. g = session[c].gw
  OBVIOUS
<1> HIDE DEF bx, rn, bx2, rn2, x, x2, y, g, t
<1>6. /\ g # h => (IsListed(bx, rn, x, y, g, t, c) => IsListed(bx2, rn2, x2, y, g, t, c))
      /\ Unlisted(bx, rn, x, y, c) => Unlisted(bx2, rn2, x2, y, c)
      /\ Dropped(bx, rn, x, g, c) => Dropped(bx2, rn2, x2, g, c)
  BY <1>1, <1>2, <1>3, RemovesGateway
<1> QED
  BY <1>1, <1>4, <1>5, <1>6 DEF KeptBut

\* The gateway of a character that plays runs or is still to be removed.
LEMMA GatewayOf ==
  ASSUME BarrierInv, NEW c \in Chars, Playing(c)
  PROVE  \/ session[c].open /\ session[c].gw \in up
         \/ session[c].gw \in unnoticed
         \/ /\ \E i \in 1..Len(removed) : removed[i] = session[c].gw
            /\ \A r \in Replicas : NoLogin(r, c)
BY DEF BarrierInv, FreshOf, Playing, NoLogin

LEMMA SettleHandleCharsDisconnected ==
  ASSUME PresenceAssumption, StoreInv, BarrierInv, SettleInv, NEW r \in Replicas, HandleCharsDisconnected(r)
  PROVE  SettleInv'
<1> DEFINE h == Head(inboxes[r]["gone"]).gw
           q == inboxes[r]["gone"]
           q2 == inboxes'[r]["gone"]
<1>1. /\ RemoveAllWithGatewayID(r, h) /\ inboxes[r]["gone"] # <<>>
      /\ inboxes' = [inboxes EXCEPT ![r]["gone"] = Tail(@)]
      /\ UNCHANGED <<session, told, up, unnoticed, removed, setting, onlineInfo, running>>
  BY DEF HandleCharsDisconnected, gwVars, faultVars
<1>2. {"in", "out", "upd", "gone"} = Subjects
  BY DEF Subjects
<1>3. PresenceTypeOK /\ BoxOK(inboxes) /\ "gone" \in Subjects
  BY <1>2, TypeParts DEF StoreInv
<1>4. \A p \in Replicas, s \in Subjects :
           inboxes'[p][s] = IF p = r /\ s = "gone" THEN Tail(inboxes[p][s]) ELSE inboxes[p][s]
  BY <1>1, <1>3, TakeType
<1>5. \A p \in Replicas, c \in Chars :
        guidStorage'[p][c] = IF p = r /\ guidStorage[r][c] # None /\ guidStorage[r][c].gw = h
                             THEN None ELSE guidStorage[p][c]
  BY <1>1, RemoveAll
<1>6. q \in Seq(EventsOf("gone")) /\ q # <<>> /\ q2 = Tail(q)
  BY <1>1, <1>3, <1>4, ReplicaTypes
<1>7. h = q[1].gw
  BY <1>6, TailIs
<1> HIDE DEF h, q, q2
<1>8. /\ 1 \in 1..Len(q) /\ \A i \in 1..Len(q2) : q2[i] = q[i + 1] /\ i + 1 \in 1..Len(q)
      /\ \A i \in 1..Len(q) : i # 1 => i - 1 \in 1..Len(q2) /\ q2[i - 1] = q[i]
  BY <1>6, TailIs
<1>9. DropsOnce
  BY DEF SettleInv
<1>10. \A i \in 1..Len(q) : /\ q[i].gw \notin up \cup unnoticed
                            /\ \A j \in 1..Len(removed) : removed[j] # q[i].gw
  BY <1>9 DEF DropsOnce, q
<1>11. DropsOnce'
  <2>1. \A i \in 1..Len(q2) : /\ q2[i].gw \notin up \cup unnoticed
                              /\ \A j \in 1..Len(removed) : removed[j] # q2[i].gw
    BY <1>8, <1>10
  <2>2. ASSUME NEW p \in Replicas, NEW i \in 1..Len(inboxes'[p]["gone"])
        PROVE  /\ inboxes'[p]["gone"][i].gw \notin up \cup unnoticed
               /\ \A j \in 1..Len(removed) : removed[j] # inboxes'[p]["gone"][i].gw
    <3>1. CASE p = r
      BY <2>1, <3>1 DEF q2
    <3>2. CASE p # r
      <4>1. inboxes'[p]["gone"] = inboxes[p]["gone"]
        BY <1>3, <1>4, <3>2
      <4> QED
        BY <1>9, <4>1 DEF DropsOnce
    <3> QED
      BY <3>1, <3>2
  <2> QED
    BY <1>1, <1>9, <2>2 DEF DropsOnce
<1>12. ASSUME NEW p \in Replicas, NEW c \in Chars PROVE KeptBut(p, c, h)
  <2>1. \A s \in {"in", "out", "upd"} : inboxes'[p][s] = inboxes[p][s]
    BY <1>2, <1>4
  <2>2. CASE p = r
    <3>1. \A i \in 1..Len(q) : q[i].gw = h \/ \E j \in 1..Len(q2) : q2[j] = q[i]
      BY <1>7, <1>8
    <3>2. \A i \in 1..Len(inboxes[p]["gone"]) :
            \/ inboxes[p]["gone"][i].gw = h
            \/ \E j \in 1..Len(inboxes'[p]["gone"]) : inboxes'[p]["gone"][j] = inboxes[p]["gone"][i]
      BY <2>2, <3>1 DEF q, q2
    <3>3. /\ guidStorage[p][c] # None /\ guidStorage[p][c].gw = h => guidStorage'[p][c] = None
          /\ \/ guidStorage'[p][c] = guidStorage[p][c]
             \/ guidStorage[p][c] # None /\ guidStorage[p][c].gw = h /\ guidStorage'[p][c] = None
      BY <1>5, <2>2
    <3> QED
      BY <1>1, <2>1, <3>2, <3>3, RemovalAt
  <2>3. CASE p # r
    <3>1. inboxes'[p]["gone"] = inboxes[p]["gone"] /\ guidStorage'[p][c] = guidStorage[p][c]
      BY <1>3, <1>4, <1>5, <2>3
    <3>2. \A i \in 1..Len(inboxes[p]["gone"]) :
            \E j \in 1..Len(inboxes'[p]["gone"]) : inboxes'[p]["gone"][j] = inboxes[p]["gone"][i]
      BY <3>1
    <3> QED
      BY <1>1, <2>1, <3>1, <3>2, RemovalAt
  <2> QED
    BY <2>2, <2>3
<1>13. h \notin up \cup unnoticed /\ \A j \in 1..Len(removed) : removed[j] # h
  BY <1>7, <1>8, <1>10
<1>14. ASSUME NEW c \in Chars, setting.patient PROVE Gone(c)' \/ Playing(c)' \/ Cleared(c)'
  <2>1. Gone(c) => Gone(c)'
    BY <1>1, <1>12 DEF Gone, KeptBut
  <2>2. Cleared(c) => Cleared(c)'
    BY <1>1, <1>12 DEF Cleared, KeptBut
  <2>3. ASSUME Playing(c) PROVE Playing(c)'
    <3>1. session[c].gw # h
      BY <1>13, <2>3, GatewayOf
    <3>2. \A p \in Replicas : ListedAt(p, c)'
      BY <1>12, <2>3, <3>1 DEF KeptBut, Playing
    <3>3. \A p \in Replicas : NoLogin(p, c) => NoLogin(p, c)'
      BY <1>12 DEF KeptBut
    <3> QED
      BY <1>1, <2>3, <3>2, <3>3 DEF Playing, NoLogin
  <2> QED
    BY <1>14, <2>1, <2>2, <2>3 DEF SettleInv
<1> QED
  BY <1>1, <1>11, <1>14 DEF SettleInv
LEMMA SettleHandleGWRemoved ==
  ASSUME PresenceAssumption, StoreInv, BarrierInv, SettleInv, NEW r \in Replicas, HandleGWRemoved(r)
  PROVE  SettleInv'
<1> DEFINE h == Head(removed)
           e == [gw |-> h]
           rm2 == removed'
<1>1. /\ RemoveAllWithGatewayID(r, h) /\ removed # <<>> /\ rm2 = Tail(removed)
      /\ inboxes' = IF OfGateway(r, h) = {} THEN inboxes ELSE Publish(inboxes, "gone", e)
      /\ UNCHANGED <<session, told, up, unnoticed, setting, onlineInfo, running>>
  BY DEF HandleGWRemoved, gwVars, faultVars
<1>2. {"in", "out", "upd", "gone"} = Subjects
  BY DEF Subjects
<1>3. PresenceTypeOK /\ BoxOK(inboxes) /\ "gone" \in Subjects /\ removed \in Seq(Gateways)
  BY <1>2, TypeParts DEF StoreInv, FaultType
<1>4. h \in Gateways /\ h = removed[1]
  BY <1>1, <1>3, TailIs
<1> HIDE DEF h, rm2
<1>5. e \in EventsOf("gone") /\ e.gw = h
  BY <1>4 DEF EventsOf
<1> HIDE DEF e
<1>6. \A p \in Replicas, c \in Chars :
        guidStorage'[p][c] = IF p = r /\ guidStorage[r][c] # None /\ guidStorage[r][c].gw = h
                             THEN None ELSE guidStorage[p][c]
  BY <1>1, RemoveAll
<1>7. \A p \in Replicas, s \in Subjects :
        Publish(inboxes, "gone", e)[p][s] = IF s = "gone" THEN Append(inboxes[p][s], e) ELSE inboxes[p][s]
  BY <1>3, <1>5, PublishType
<1>8. ASSUME NEW p \in Replicas
      PROVE  /\ \A s \in {"in", "out", "upd"} : inboxes'[p][s] = inboxes[p][s]
             /\ inboxes'[p]["gone"] = IF OfGateway(r, h) = {} THEN inboxes[p]["gone"]
                                      ELSE Append(inboxes[p]["gone"], e)
  BY <1>1, <1>2, <1>7
<1>9. ASSUME NEW p \in Replicas
      PROVE  /\ \A i \in 1..Len(inboxes[p]["gone"]) :
                  \E j \in 1..Len(inboxes'[p]["gone"]) : inboxes'[p]["gone"][j] = inboxes[p]["gone"][i]
             /\ OfGateway(r, h) # {} => \E j \in 1..Len(inboxes'[p]["gone"]) : inboxes'[p]["gone"][j] = e
             /\ \A j \in 1..Len(inboxes'[p]["gone"]) :
                  \/ \E i \in 1..Len(inboxes[p]["gone"]) : inboxes'[p]["gone"][j] = inboxes[p]["gone"][i]
                  \/ inboxes'[p]["gone"][j] = e
  <2> DEFINE q == inboxes[p]["gone"]
             q2 == inboxes'[p]["gone"]
  <2>1. q2 = q \/ q2 = Append(q, e)
    BY <1>8
  <2>2. OfGateway(r, h) # {} => q2 = Append(q, e)
    BY <1>8
  <2>3. q \in Seq(EventsOf("gone"))
    BY <1>3, ReplicaTypes
  <2> HIDE DEF q, q2
  <2> DEFINE n == Len(q) + 1
  <2>4. q2 = Append(q, e) => /\ Len(q2) = n /\ q2[n] = e /\ n \in 1..n
                             /\ \A i \in 1..Len(q) : q2[i] = q[i] /\ i \in 1..n
                             /\ \A i \in 1..n : i \in 1..Len(q) \/ i = n
    BY <2>3, AppendIs
  <2> HIDE DEF n
  <2>5. /\ \A i \in 1..Len(q) : \E j \in 1..Len(q2) : q2[j] = q[i]
        /\ OfGateway(r, h) # {} => \E j \in 1..Len(q2) : q2[j] = e
        /\ \A j \in 1..Len(q2) : (\E i \in 1..Len(q) : q2[j] = q[i]) \/ q2[j] = e
    BY <2>1, <2>2, <2>4
  <2> QED
    BY <2>5 DEF q, q2
<1>10. DropsOnce /\ h \notin up \cup unnoticed
  <2>1. 1 \in 1..Len(removed)
    BY <1>1, <1>3, TailIs
  <2> QED
    BY <1>4, <2>1 DEF SettleInv, DropsOnce
<1>11. /\ \A i \in 1..Len(rm2) : rm2[i] = removed[i + 1] /\ i + 1 \in 1..Len(removed) /\ rm2[i] # h
       /\ \A i, j \in 1..Len(rm2) : rm2[i] = rm2[j] => i = j
       /\ \A i \in 1..Len(removed) : removed[i] # h => \E j \in 1..Len(rm2) : rm2[j] = removed[i]
  <2>1. /\ 1 \in 1..Len(removed) /\ Len(rm2) \in Nat
        /\ \A i \in 1..Len(rm2) : rm2[i] = removed[i + 1] /\ i + 1 \in 1..Len(removed)
        /\ \A i \in 1..Len(removed) : i # 1 => i - 1 \in 1..Len(rm2) /\ rm2[i - 1] = removed[i]
    BY <1>1, <1>3, TailIs
  <2>2. \A i, j \in 1..Len(removed) : removed[i] = removed[j] => i = j
    BY <1>10 DEF DropsOnce
  <2>3. ASSUME NEW i \in 1..Len(rm2) PROVE rm2[i] # h
    <3>1. removed[i + 1] = removed[1] => i + 1 = 1
      BY <2>1, <2>2
    <3>2. i \in Nat /\ i >= 1
      BY <2>1
    <3>3. i + 1 # 1
      BY <3>2
    <3> QED
      BY <1>4, <2>1, <3>1, <3>3
  <2>4. ASSUME NEW i \in 1..Len(rm2), NEW j \in 1..Len(rm2), rm2[i] = rm2[j] PROVE i = j
    <3>1. i + 1 = j + 1
      BY <2>1, <2>2, <2>4
    <3>2. i \in Nat /\ j \in Nat
      BY <2>1
    <3> QED
      BY <3>1, <3>2
  <2> QED
    BY <1>4, <2>1, <2>3, <2>4
<1>12. DropsOnce'
  <2>1. \A i \in 1..Len(rm2) : rm2[i] \notin up \cup unnoticed
    BY <1>10, <1>11 DEF DropsOnce
  <2>2. ASSUME NEW p \in Replicas, NEW i \in 1..Len(inboxes'[p]["gone"])
        PROVE  /\ inboxes'[p]["gone"][i].gw \notin up \cup unnoticed
               /\ \A j \in 1..Len(rm2) : rm2[j] # inboxes'[p]["gone"][i].gw
    <3>1. CASE inboxes'[p]["gone"][i] = e
      BY <1>5, <1>10, <1>11, <3>1
    <3>2. CASE \E j \in 1..Len(inboxes[p]["gone"]) : inboxes'[p]["gone"][i] = inboxes[p]["gone"][j]
      <4>1. PICK j \in 1..Len(inboxes[p]["gone"]) : inboxes'[p]["gone"][i] = inboxes[p]["gone"][j]
        BY <3>2
      <4>2. /\ inboxes[p]["gone"][j].gw \notin up \cup unnoticed
            /\ \A k \in 1..Len(removed) : removed[k] # inboxes[p]["gone"][j].gw
        BY <1>10 DEF DropsOnce
      <4>3. ASSUME NEW k \in 1..Len(rm2) PROVE rm2[k] # inboxes[p]["gone"][j].gw
        <5>1. rm2[k] = removed[k + 1] /\ k + 1 \in 1..Len(removed)
          BY <1>11
        <5> QED
          BY <4>2, <5>1
      <4> QED
        BY <4>1, <4>2, <4>3
    <3> QED
      BY <1>9, <3>1, <3>2
  <2> QED
    BY <1>1, <1>11, <2>1, <2>2 DEF DropsOnce, rm2
<1>13. ASSUME NEW p \in Replicas, NEW c \in Chars PROVE KeptBut(p, c, h)
  <2>1. \/ guidStorage'[p][c] = guidStorage[p][c]
        \/ guidStorage[p][c] # None /\ guidStorage[p][c].gw = h /\ guidStorage'[p][c] = None
    BY <1>6
  <2> QED
    BY <1>1, <1>8, <1>9, <2>1, RemovalAt
<1>14. ASSUME NEW c \in Chars, setting.patient PROVE Gone(c)' \/ Playing(c)' \/ Cleared(c)'
  <2>1. Gone(c) => Gone(c)'
    BY <1>1, <1>13 DEF Gone, KeptBut
  <2>2. Cleared(c) => Cleared(c)'
    BY <1>1, <1>13 DEF Cleared, KeptBut
  <2>3. ASSUME Playing(c), session[c].gw # h PROVE Playing(c)'
    <3>1. \A p \in Replicas : ListedAt(p, c)'
      BY <1>13, <2>3 DEF KeptBut, Playing
    <3>2. \A p \in Replicas : NoLogin(p, c) => NoLogin(p, c)'
      BY <1>13 DEF KeptBut
    <3>3. (\E i \in 1..Len(removed) : removed[i] = session[c].gw)
            => \E i \in 1..Len(rm2) : rm2[i] = session[c].gw
      BY <1>11, <2>3
    <3> QED
      BY <1>1, <2>3, <3>1, <3>2, <3>3 DEF Playing, NoLogin, rm2
  <2>4. ASSUME Playing(c), session[c].gw = h PROVE Cleared(c)'
    <3>1. \A p \in Replicas : NoLogin(p, c)
      BY <1>10, <2>4, GatewayOf
    <3>2. ~session[c].open
      BY <1>10, <2>4 DEF BarrierInv, FreshOf
    <3>3. ASSUME NEW p \in Replicas
          PROVE  /\ ~Waits(inboxes[p]["in"], c) /\ ~Runs(running[p]["in"], c)
                 /\ ~Waits(inboxes[p]["out"], c) /\ ~Runs(running[p]["out"], c)
                 /\ guidStorage[p][c] # None /\ guidStorage[p][c].gw = h
      BY <2>4, <3>1 DEF Playing, ListedAt, IsListed, NoLogin
    <3>4. OfGateway(r, h) # {}
      BY <3>3 DEF OfGateway
    <3>5. ASSUME NEW p \in Replicas PROVE DroppedAt(p, c)'
      <4>1. inboxes'[p]["in"] = inboxes[p]["in"] /\ inboxes'[p]["out"] = inboxes[p]["out"]
        BY <1>8
      <4>2. \E j \in 1..Len(inboxes'[p]["gone"]) : inboxes'[p]["gone"][j].gw = h
        BY <1>5, <1>9, <3>4
      <4>3. guidStorage'[p][c] = None \/ guidStorage'[p][c].gw = h
        BY <1>6, <3>3
      <4> QED
        BY <1>1, <2>4, <3>3, <4>1, <4>2, <4>3 DEF DroppedAt, Dropped
    <3> QED
      BY <1>1, <1>10, <2>4, <3>2, <3>5 DEF Cleared
  <2> QED
    BY <1>14, <2>1, <2>2, <2>3, <2>4 DEF SettleInv
<1> QED
  BY <1>1, <1>12, <1>14 DEF SettleInv-----------------------------------------------------------------------------
(* The steps of the gateways and of the registry.                          *)

Mode(c) == Gone(c) \/ Playing(c) \/ Cleared(c)

LEMMA ModeKept ==
  ASSUME NEW c \in Chars, Mode(c), \A r \in Replicas : Kept(r, c),
         session'[c].gw = session[c].gw, session'[c].open = session[c].open,
         UNCHANGED <<up, unnoticed, removed>>
  PROVE  Mode(c)'
<1>1. Gone(c) => Gone(c)'
  BY DEF Gone, Kept
<1>2. Cleared(c) => Cleared(c)'
  BY DEF Cleared, Kept
<1>3. Playing(c) => Playing(c)'
  BY DEF Playing, Kept, NoLogin
<1> QED
  BY <1>1, <1>2, <1>3 DEF Mode

LEMMA DropsOnceKept ==
  ASSUME DropsOnce, UNCHANGED <<up, unnoticed, removed>>,
         \A r \in Replicas : inboxes'[r]["gone"] = inboxes[r]["gone"]
  PROVE  DropsOnce'
BY DEF DropsOnce

\* The gateway's own business.
LEMMA StillKept ==
  ASSUME NEW c \in Chars, NEW r \in Replicas, session'[c].gw = session[c].gw,
         UNCHANGED <<inboxes, running, guidStorage, onlineInfo, told>>
  PROVE  Kept(r, c)
BY DEF Kept, ListedAt, UnlistedAt, DroppedAt, NoLogin

LEMMA SettleUpdate ==
  ASSUME PresenceTypeOK, SettleInv, NEW c \in Chars, NEW f \in Fields, Update(c, f)
  PROVE  SettleInv'
<1>1. /\ UNCHANGED <<inboxes, running, guidStorage, onlineInfo, told, up, unnoticed, removed>>
      /\ setting'.patient = setting.patient
  BY TypeParts DEF Update, storageVars, faultVars, FaultType, SettingRecs
<1>2. ASSUME NEW d \in Chars PROVE session'[d].gw = session[d].gw /\ session'[d].open = session[d].open
  <2>1. session \in [Chars -> SessionRecs]
    BY TypeParts DEF GwType
  <2>2. \A s \in SessionRecs : \A w : [s EXCEPT !.val = w].gw = s.gw /\ [s EXCEPT !.val = w].open = s.open
    BY DEF SessionRecs
  <2> DEFINE v == [session[c].val EXCEPT ![f] = session[c].val[f] + 1]
  <2>3. session' = [session EXCEPT ![c] = [session[c] EXCEPT !.val = v]]
    BY <2>1 DEF Update, SessionRecs, Values
  <2> HIDE DEF v
  <2>4. session'[d] = IF d = c THEN [session[c] EXCEPT !.val = v] ELSE session[d]
    BY <2>1, <2>3
  <2> QED
    BY <2>1, <2>2, <2>4
<1>3. DropsOnce'
  BY <1>1, DropsOnceKept DEF SettleInv
<1>4. ASSUME NEW d \in Chars, setting.patient PROVE Mode(d)'
  <2>1. \A r \in Replicas : Kept(r, d)
    BY <1>1, <1>2, StillKept
  <2> QED
    BY <1>1, <1>2, <1>4, <2>1, ModeKept DEF SettleInv, Mode
<1> QED
  BY <1>1, <1>3, <1>4 DEF SettleInv, Mode

LEMMA SettleCollect ==
  ASSUME SettleInv, UNCHANGED <<inboxes, running, guidStorage, onlineInfo, told, up, unnoticed, removed, session, setting>>
  PROVE  SettleInv'
<1>1. DropsOnce'
  BY DropsOnceKept DEF SettleInv
<1>2. ASSUME NEW d \in Chars, setting.patient PROVE Mode(d)'
  <2>1. \A r \in Replicas : Kept(r, d)
    BY StillKept
  <2> QED
    BY <1>2, <2>1, ModeKept DEF SettleInv, Mode
<1> QED
  BY <1>1, <1>2 DEF SettleInv, Mode

LEMMA SettleLogin ==
  ASSUME PresenceAssumption, PresenceTypeOK, SettleInv, NEW c \in Chars, NEW g \in Gateways, Login(c, g)
  PROVE  SettleInv'
<1> DEFINE s == [session[c] EXCEPT !.gw = g, !.id = @ + 1, !.open = TRUE]
           e == [char |-> c, gw |-> g, id |-> s.id, val |-> s.val]
<1>1. /\ session' = [session EXCEPT ![c] = s] /\ told' = [told EXCEPT ![c] = s.val]
      /\ inboxes' = Publish(inboxes, "in", e)
      /\ UNCHANGED <<running, guidStorage, onlineInfo, up, unnoticed, removed>>
      /\ setting.patient => Handled(c)
  BY DEF Login, storageVars, faultVars
<1>2. setting'.patient = setting.patient
  BY TypeParts DEF Login, FaultType, SettingRecs
<1>3. s.gw = g /\ s.val \in Values /\ s.id \in Nat /\ s.open /\ session[c] \in SessionRecs
  BY TypeParts, NewSession DEF GwType
<1> HIDE DEF s
<1>4. e \in EventsOf("in") /\ e.char = c /\ e.gw = g /\ e.val = s.val
  BY <1>3 DEF EventsOf
<1> HIDE DEF e
<1>5. /\ session'[c] = s /\ told'[c] = s.val
      /\ \A d \in Chars : d # c => session'[d] = session[d] /\ told'[d] = told[d]
  BY <1>1, TypeParts DEF GwType
<1>6. {"in", "out", "upd", "gone"} = Subjects
  BY DEF Subjects
<1>7. \A r \in Replicas, x \in Subjects :
        inboxes'[r][x] = IF x = "in" THEN Append(inboxes[r][x], e) ELSE inboxes[r][x]
  <2>1. BoxOK(inboxes) /\ "in" \in Subjects
    BY <1>6, TypeParts
  <2> QED
    BY <1>1, <1>4, <2>1, PublishType
<1>8. ASSUME NEW r \in Replicas
      PROVE  /\ inboxes[r]["in"] \in Seq(EventsOf("in")) /\ inboxes'[r]["in"] = Append(inboxes[r]["in"], e)
             /\ inboxes'[r]["out"] = inboxes[r]["out"] /\ inboxes'[r]["upd"] = inboxes[r]["upd"]
             /\ inboxes'[r]["gone"] = inboxes[r]["gone"]
  BY <1>6, <1>7, ReplicaTypes
<1>9. DropsOnce'
  BY <1>1, <1>8, DropsOnceKept DEF SettleInv
<1>10. ASSUME NEW d \in Chars, d # c, setting.patient PROVE Mode(d)'
  <2>1. ASSUME NEW r \in Replicas PROVE Kept(r, d)
    <3> DEFINE bx == inboxes[r]
               bx2 == inboxes'[r]
               rn == running[r]
               x == guidStorage[r][d]
               y == onlineInfo[r][d]
               h == session[d].gw
               t == told[d]
    <3>1. /\ bx["in"] \in Seq(EventsOf("in")) /\ bx2["in"] = Append(bx["in"], e)
          /\ bx2["out"] = bx["out"] /\ bx2["upd"] = bx["upd"] /\ bx2["gone"] = bx["gone"]
      BY <1>8
    <3>2. /\ ListedAt(r, d) <=> IsListed(bx, rn, x, y, h, t, d)
          /\ ListedAt(r, d)' <=> IsListed(bx2, rn, x, y, h, t, d)
          /\ UnlistedAt(r, d) <=> Unlisted(bx, rn, x, y, d)
          /\ UnlistedAt(r, d)' <=> Unlisted(bx2, rn, x, y, d)
          /\ DroppedAt(r, d) <=> Dropped(bx, rn, x, h, d)
          /\ DroppedAt(r, d)' <=> Dropped(bx2, rn, x, h, d)
          /\ NoLogin(r, d) <=> ~Waits(bx["in"], d) /\ ~Runs(rn["in"], d)
          /\ NoLogin(r, d)' <=> ~Waits(bx2["in"], d) /\ ~Runs(rn["in"], d)
      BY <1>1, <1>5, <1>10 DEF ListedAt, UnlistedAt, DroppedAt, NoLogin
    <3> HIDE DEF bx, bx2, rn, x, y, h, t
    <3>3. e.char # d
      BY <1>4, <1>10
    <3>4. /\ IsListed(bx, rn, x, y, h, t, d) => IsListed(bx2, rn, x, y, h, t, d)
          /\ Unlisted(bx, rn, x, y, d) => Unlisted(bx2, rn, x, y, d)
          /\ Dropped(bx, rn, x, h, d) => Dropped(bx2, rn, x, h, d)
      BY <1>4, <3>1, <3>3, GetsIn
    <3>5. Waits(bx2["in"], d) <=> Waits(bx["in"], d)
      BY <1>4, <3>1, <3>3, WaitsAppend, AboutIs
    <3> QED
      BY <3>2, <3>4, <3>5 DEF Kept
  <2> QED
    BY <1>1, <1>5, <1>10, <2>1, ModeKept DEF SettleInv, Mode
<1>11. ASSUME setting.patient PROVE Mode(c)'
  <2>1. ASSUME NEW r \in Replicas PROVE ListedAt(r, c)'
    <3> DEFINE bx == inboxes[r]
               bx2 == inboxes'[r]
               rn == running[r]
               x == guidStorage[r][c]
               y == onlineInfo[r][c]
    <3>1. /\ bx["in"] \in Seq(EventsOf("in")) /\ bx2["in"] = Append(bx["in"], e)
          /\ bx2["out"] = bx["out"] /\ bx2["upd"] = bx["upd"] /\ bx2["gone"] = bx["gone"]
      BY <1>8
    <3>2. \A z \in {"in", "out", "upd"} : ~Waits(bx[z], c) /\ ~Runs(rn[z], c)
      BY <1>1, <1>11, HandledIs
    <3>3. ListedAt(r, c)' <=> IsListed(bx2, rn, x, y, e.gw, e.val, c)
      BY <1>1, <1>3, <1>4, <1>5 DEF ListedAt
    <3> HIDE DEF bx, bx2, rn, x, y
    <3>4. IsListed(bx2, rn, x, y, e.gw, e.val, c)
      BY <1>4, <3>1, <3>2, GetsIn
    <3> QED
      BY <3>3, <3>4
  <2> QED
    BY <1>3, <1>5, <2>1 DEF Mode, Playing
<1> QED
  BY <1>2, <1>9, <1>10, <1>11 DEF SettleInv, Mode
LEMMA SettleLogout ==
  ASSUME PresenceAssumption, PresenceTypeOK, SettleInv, NEW c \in Chars, Logout(c)
  PROVE  SettleInv'
<1> DEFINE s == [session[c] EXCEPT !.open = FALSE]
           e == [char |-> c, gw |-> session[c].gw]
<1>1. /\ session' = [session EXCEPT ![c] = s] /\ inboxes' = Publish(inboxes, "out", e)
      /\ UNCHANGED <<running, guidStorage, onlineInfo, told, up, unnoticed, removed, setting>>
      /\ setting.patient => Handled(c)
  BY TypeParts DEF Logout, storageVars, faultVars, gwVars, GwType, SessionRecs
<1>2. session[c] \in SessionRecs
  BY TypeParts DEF GwType
<1>3. ~s.open /\ s.gw = session[c].gw
  BY <1>2 DEF SessionRecs
<1> HIDE DEF s
<1>4. e \in EventsOf("out") /\ e.char = c
  BY <1>2 DEF EventsOf, SessionRecs
<1> HIDE DEF e
<1>5. /\ session'[c] = s
      /\ \A d \in Chars : d # c => session'[d] = session[d]
  BY <1>1, TypeParts DEF GwType
<1>6. {"in", "out", "upd", "gone"} = Subjects
  BY DEF Subjects
<1>7. \A r \in Replicas, x \in Subjects :
        inboxes'[r][x] = IF x = "out" THEN Append(inboxes[r][x], e) ELSE inboxes[r][x]
  <2>1. BoxOK(inboxes) /\ "out" \in Subjects
    BY <1>6, TypeParts
  <2> QED
    BY <1>1, <1>4, <2>1, PublishType
<1>8. ASSUME NEW r \in Replicas
      PROVE  /\ inboxes[r]["out"] \in Seq(EventsOf("out")) /\ inboxes'[r]["out"] = Append(inboxes[r]["out"], e)
             /\ inboxes'[r]["in"] = inboxes[r]["in"] /\ inboxes'[r]["upd"] = inboxes[r]["upd"]
             /\ inboxes'[r]["gone"] = inboxes[r]["gone"]
  BY <1>6, <1>7, ReplicaTypes
<1>9. DropsOnce'
  BY <1>1, <1>8, DropsOnceKept DEF SettleInv
<1>10. ASSUME NEW d \in Chars, d # c, setting.patient PROVE Mode(d)'
  <2>1. ASSUME NEW r \in Replicas PROVE Kept(r, d)
    <3> DEFINE bx == inboxes[r]
               bx2 == inboxes'[r]
               rn == running[r]
               x == guidStorage[r][d]
               y == onlineInfo[r][d]
               h == session[d].gw
               t == told[d]
    <3>1. /\ bx["out"] \in Seq(EventsOf("out")) /\ bx2["out"] = Append(bx["out"], e)
          /\ bx2["in"] = bx["in"] /\ bx2["upd"] = bx["upd"] /\ bx2["gone"] = bx["gone"]
      BY <1>8
    <3>2. /\ ListedAt(r, d) <=> IsListed(bx, rn, x, y, h, t, d)
          /\ ListedAt(r, d)' <=> IsListed(bx2, rn, x, y, h, t, d)
          /\ UnlistedAt(r, d) <=> Unlisted(bx, rn, x, y, d)
          /\ UnlistedAt(r, d)' <=> Unlisted(bx2, rn, x, y, d)
          /\ DroppedAt(r, d) <=> Dropped(bx, rn, x, h, d)
          /\ DroppedAt(r, d)' <=> Dropped(bx2, rn, x, h, d)
          /\ NoLogin(r, d) <=> ~Waits(bx["in"], d) /\ ~Runs(rn["in"], d)
          /\ NoLogin(r, d)' <=> ~Waits(bx2["in"], d) /\ ~Runs(rn["in"], d)
      BY <1>1, <1>5, <1>10 DEF ListedAt, UnlistedAt, DroppedAt, NoLogin
    <3> HIDE DEF bx, bx2, rn, x, y, h, t
    <3>3. e.char # d
      BY <1>4, <1>10
    <3>4. /\ IsListed(bx, rn, x, y, h, t, d) => IsListed(bx2, rn, x, y, h, t, d)
          /\ Unlisted(bx, rn, x, y, d) => Unlisted(bx2, rn, x, y, d)
          /\ Dropped(bx, rn, x, h, d) => Dropped(bx2, rn, x, h, d)
      BY <1>4, <3>1, <3>3, GetsOut
    <3> QED
      BY <3>1, <3>2, <3>4 DEF Kept
  <2> QED
    BY <1>1, <1>5, <1>10, <2>1, ModeKept DEF SettleInv, Mode
<1>11. ASSUME setting.patient PROVE Mode(c)'
  <2>1. ASSUME NEW r \in Replicas PROVE UnlistedAt(r, c)'
    <3> DEFINE bx == inboxes[r]
               bx2 == inboxes'[r]
               rn == running[r]
               x == guidStorage[r][c]
               y == onlineInfo[r][c]
    <3>1. /\ bx["out"] \in Seq(EventsOf("out")) /\ bx2["out"] = Append(bx["out"], e)
          /\ bx2["in"] = bx["in"] /\ bx2["upd"] = bx["upd"] /\ bx2["gone"] = bx["gone"]
      BY <1>8
    <3>2. ~Waits(bx["in"], c) /\ ~Runs(rn["in"], c)
      BY <1>1, <1>11, HandledIs
    <3>3. UnlistedAt(r, c)' <=> Unlisted(bx2, rn, x, y, c)
      BY <1>1 DEF UnlistedAt
    <3> HIDE DEF bx, bx2, rn, x, y
    <3>4. Unlisted(bx2, rn, x, y, c)
      BY <1>4, <3>1, <3>2, GetsOut
    <3> QED
      BY <3>3, <3>4
  <2> QED
    BY <1>3, <1>5, <2>1 DEF Mode, Gone
<1> QED
  BY <1>1, <1>9, <1>10, <1>11 DEF SettleInv, Mode

LEMMA SettleOpenBarrier ==
  ASSUME PresenceAssumption, PresenceTypeOK, SettleInv, NEW g \in Gateways, OpenBarrier(g)
  PROVE  SettleInv'
<1>1. PICK cs \in SUBSET DOMAIN buffer[g] : Sent(g, cs)
  BY DEF OpenBarrier
<1> DEFINE e == [upd |-> Restrict(buffer[g], cs)]
<1>2. /\ UNCHANGED <<session, running, guidStorage, onlineInfo, up, unnoticed, removed>>
      /\ setting.patient => \A c \in DOMAIN buffer[g] : ~Pending("in", c)
  BY DEF OpenBarrier, storageVars, faultVars
<1>3. setting'.patient = setting.patient
  BY TypeParts DEF OpenBarrier, FaultType, SettingRecs
<1>4. buffer[g] \in Collected /\ told \in [Chars -> Values] /\ BoxOK(inboxes)
  BY TypeParts DEF GwType
<1>5. e \in EventsOf("upd") /\ DOMAIN e.upd = cs /\ \A c \in cs : e.upd[c] = buffer[g][c]
  <2>1. Restrict(buffer[g], cs) \in Collected
    BY <1>1, <1>4, CollectedRestrict
  <2>2. DOMAIN Restrict(buffer[g], cs) = cs /\ \A c \in cs : Restrict(buffer[g], cs)[c] = buffer[g][c]
    BY DEF Restrict
  <2> QED
    BY <2>1, <2>2 DEF EventsOf
<1>6. /\ \A c \in Chars : told'[c] = IF c \in cs THEN Over(buffer[g][c], told[c]) ELSE told[c]
      /\ inboxes' = IF cs = {} THEN inboxes ELSE Publish(inboxes, "upd", e)
  BY <1>1 DEF Sent
<1> HIDE DEF e
<1>7. {"in", "out", "upd", "gone"} = Subjects
  BY DEF Subjects
<1>8. CASE cs = {}
  <2>1. inboxes' = inboxes /\ \A c \in Chars : told'[c] = told[c]
    BY <1>6, <1>8
  <2>2. DropsOnce'
    BY <1>2, <2>1, DropsOnceKept DEF SettleInv
  <2>3. \A c \in Chars, r \in Replicas : Kept(r, c)
    BY <1>2, <2>1 DEF Kept, ListedAt, UnlistedAt, DroppedAt, NoLogin
  <2>4. ASSUME NEW d \in Chars, setting.patient PROVE Mode(d)'
    BY <1>2, <2>3, <2>4, ModeKept DEF SettleInv, Mode
  <2> QED
    BY <1>3, <2>2, <2>4 DEF SettleInv, Mode
<1>9. CASE cs # {}
  <2>1. \A r \in Replicas, x \in Subjects :
          inboxes'[r][x] = IF x = "upd" THEN Append(inboxes[r][x], e) ELSE inboxes[r][x]
    <3>1. "upd" \in Subjects /\ inboxes' = Publish(inboxes, "upd", e)
      BY <1>6, <1>7, <1>9
    <3> QED
      BY <1>4, <1>5, <3>1, PublishType
  <2>2. ASSUME NEW r \in Replicas
        PROVE  /\ inboxes[r]["upd"] \in Seq(EventsOf("upd")) /\ inboxes'[r]["upd"] = Append(inboxes[r]["upd"], e)
               /\ inboxes'[r]["in"] = inboxes[r]["in"] /\ inboxes'[r]["out"] = inboxes[r]["out"]
               /\ inboxes'[r]["gone"] = inboxes[r]["gone"]
    BY <1>7, <2>1, ReplicaTypes
  <2>3. DropsOnce'
    BY <1>2, <2>2, DropsOnceKept DEF SettleInv
  <2>4. ASSUME NEW d \in Chars, setting.patient, NEW r \in Replicas PROVE Kept(r, d)
    <3> DEFINE bx == inboxes[r]
               bx2 == inboxes'[r]
               rn == running[r]
               x == guidStorage[r][d]
               y == onlineInfo[r][d]
               h == session[d].gw
               t == told[d]
               t2 == told'[d]
    <3>1. /\ bx["upd"] \in Seq(EventsOf("upd")) /\ bx2["upd"] = Append(bx["upd"], e)
          /\ bx2["in"] = bx["in"] /\ bx2["out"] = bx["out"] /\ bx2["gone"] = bx["gone"]
      BY <2>2
    <3>2. /\ ListedAt(r, d) <=> IsListed(bx, rn, x, y, h, t, d)
          /\ ListedAt(r, d)' <=> IsListed(bx2, rn, x, y, h, t2, d)
          /\ UnlistedAt(r, d) <=> Unlisted(bx, rn, x, y, d)
          /\ UnlistedAt(r, d)' <=> Unlisted(bx2, rn, x, y, d)
          /\ DroppedAt(r, d) <=> Dropped(bx, rn, x, h, d)
          /\ DroppedAt(r, d)' <=> Dropped(bx2, rn, x, h, d)
          /\ NoLogin(r, d) <=> ~Waits(bx["in"], d) /\ ~Runs(rn["in"], d)
          /\ NoLogin(r, d)' <=> ~Waits(bx2["in"], d) /\ ~Runs(rn["in"], d)
      BY <1>2 DEF ListedAt, UnlistedAt, DroppedAt, NoLogin
    <3>3. /\ t \in Values /\ (d \in DOMAIN e.upd => t2 = Over(e.upd[d], t))
          /\ d \notin DOMAIN e.upd => t2 = t
      BY <1>4, <1>5, <1>6
    <3>4. d \in DOMAIN e.upd => ~Waits(bx["in"], d) /\ ~Runs(rn["in"], d)
      BY <1>2, <1>5, <2>4 DEF Pending, Waits, Runs
    <3> HIDE DEF bx, bx2, rn, x, y, h, t, t2
    <3>5. /\ IsListed(bx, rn, x, y, h, t, d) => IsListed(bx2, rn, x, y, h, t2, d)
          /\ Unlisted(bx, rn, x, y, d) => Unlisted(bx2, rn, x, y, d)
          /\ Dropped(bx, rn, x, h, d) => Dropped(bx2, rn, x, h, d)
      BY <1>5, <3>1, <3>3, <3>4, GetsUpdate
    <3> QED
      BY <3>1, <3>2, <3>5 DEF Kept
  <2>5. ASSUME NEW d \in Chars, setting.patient PROVE Mode(d)'
    BY <1>2, <2>4, <2>5, ModeKept DEF SettleInv, Mode
  <2> QED
    BY <1>3, <2>3, <2>5 DEF SettleInv, Mode
<1> QED
  BY <1>8, <1>9
LEMMA SettleCrash ==
  ASSUME PresenceTypeOK, SettleInv, NEW g \in Gateways, Crash(g)
  PROVE  SettleInv'
<1>1. /\ up' = up \ {g} /\ unnoticed' = unnoticed \cup {g} /\ g \in up
      /\ UNCHANGED <<told, inboxes, running, guidStorage, onlineInfo, removed>>
  BY DEF Crash, storageVars
<1>2. setting'.patient = setting.patient
  BY TypeParts DEF Crash, FaultType, SettingRecs
<1>3. ASSUME NEW c \in Chars
      PROVE  /\ session'[c].gw = session[c].gw
             /\ session'[c].open = IF session[c].gw = g THEN FALSE ELSE session[c].open
  <2>1. session[c] \in SessionRecs
    BY TypeParts DEF GwType
  <2>2. [session[c] EXCEPT !.open = FALSE].gw = session[c].gw /\ [session[c] EXCEPT !.open = FALSE].open = FALSE
    BY <2>1 DEF SessionRecs
  <2>3. session'[c] = IF session[c].gw = g THEN [session[c] EXCEPT !.open = FALSE] ELSE session[c]
    BY DEF Crash
  <2>4. CASE session[c].gw = g
    <3>1. session'[c] = [session[c] EXCEPT !.open = FALSE]
      BY <2>3, <2>4
    <3>2. session'[c].gw = session[c].gw /\ session'[c].open = FALSE
      BY <2>2, <3>1, Zenon
    <3> QED
      BY <2>4, <3>2
  <2>5. CASE session[c].gw # g
    BY <2>3, <2>5
  <2> QED
    BY <2>4, <2>5
<1>4. DropsOnce'
  <2>1. up' \cup unnoticed' = up \cup unnoticed
    BY <1>1
  <2> QED
    BY <1>1, <2>1 DEF SettleInv, DropsOnce
<1>5. ASSUME NEW c \in Chars, setting.patient PROVE Mode(c)'
  <2>1. \A r \in Replicas : Kept(r, c)
    BY <1>1, <1>3, StillKept
  <2>2. session'[c].open => session[c].open
    BY <1>3
  <2>3. Gone(c) => Gone(c)'
    BY <2>1, <2>2 DEF Gone, Kept
  <2>4. Cleared(c) => Cleared(c)'
    BY <1>1, <1>3, <2>1, <2>2 DEF Cleared, Kept
  <2>5. ASSUME Playing(c) PROVE Playing(c)'
    <3>1. \A r \in Replicas : ListedAt(r, c)' /\ (NoLogin(r, c) => NoLogin(r, c)')
      BY <2>1, <2>5 DEF Kept, Playing
    <3>2. session[c].open => session'[c].open \/ session'[c].gw \in unnoticed'
      BY <1>1, <1>3
    <3> QED
      BY <1>1, <1>3, <2>5, <3>1, <3>2 DEF Playing, NoLogin
  <2> QED
    BY <1>5, <2>3, <2>4, <2>5 DEF SettleInv, Mode
<1> QED
  BY <1>2, <1>4, <1>5 DEF SettleInv, Mode

LEMMA SettleRegistryDrops ==
  ASSUME PresenceTypeOK, SettleInv, NEW g \in Gateways, RegistryDrops(g)
  PROVE  SettleInv'
<1> DEFINE rm2 == removed'
           n == Len(removed) + 1
<1>1. /\ g \in unnoticed /\ unnoticed' = unnoticed \ {g} /\ rm2 = Append(removed, g)
      /\ UNCHANGED <<up, session, setting, told, inboxes, running, guidStorage, onlineInfo>>
      /\ setting.patient => \A c \in Chars : session[c].gw = g => Handled(c)
  BY DEF RegistryDrops, storageVars, gwVars
<1>2. g \notin up /\ removed \in Seq(Gateways)
  BY <1>1, TypeParts DEF FaultType
<1>3. /\ Len(rm2) = n /\ rm2[n] = g /\ n \in 1..n
      /\ \A i \in 1..Len(removed) : rm2[i] = removed[i] /\ i \in 1..n
      /\ \A i \in 1..n : i \in 1..Len(removed) \/ i = n
  BY <1>1, <1>2, AppendIs
<1> HIDE DEF rm2, n
<1>4. DropsOnce
  BY DEF SettleInv
<1>5. DropsOnce'
  <2>1. \A i \in 1..Len(removed) : removed[i] # g
    BY <1>1, <1>4 DEF DropsOnce
  <2>2. \A i \in 1..Len(rm2) : rm2[i] \notin up \cup (unnoticed \ {g})
    BY <1>2, <1>3, <1>4 DEF DropsOnce
  <2>3. \A i, j \in 1..Len(rm2) : rm2[i] = rm2[j] => i = j
    BY <1>3, <1>4, <2>1 DEF DropsOnce
  <2>4. ASSUME NEW r \in Replicas, NEW i \in 1..Len(inboxes[r]["gone"])
        PROVE  /\ inboxes[r]["gone"][i].gw \notin up \cup (unnoticed \ {g})
               /\ \A j \in 1..Len(rm2) : rm2[j] # inboxes[r]["gone"][i].gw
    <3>1. /\ inboxes[r]["gone"][i].gw \notin up \cup unnoticed
          /\ \A j \in 1..Len(removed) : removed[j] # inboxes[r]["gone"][i].gw
      BY <1>4 DEF DropsOnce
    <3> QED
      BY <1>1, <1>3, <3>1
  <2> QED
    BY <1>1, <2>2, <2>3, <2>4 DEF DropsOnce, rm2
<1>6. ASSUME NEW c \in Chars, setting.patient PROVE Mode(c)'
  <2>1. \A r \in Replicas : Kept(r, c)
    BY <1>1, StillKept
  <2>2. Gone(c) => Gone(c)'
    BY <1>1, <2>1 DEF Gone, Kept
  <2>3. Cleared(c) => Cleared(c)'
    BY <1>1, <2>1 DEF Cleared, Kept
  <2>4. ASSUME Playing(c) PROVE Playing(c)'
    <3>1. \A r \in Replicas : ListedAt(r, c)' /\ (NoLogin(r, c) => NoLogin(r, c)')
      BY <2>1, <2>4 DEF Kept, Playing
    <3>2. session[c].gw = g => \A r \in Replicas : NoLogin(r, c)
      BY <1>1, <1>6, HandledIs DEF NoLogin
    <3>3. (\E i \in 1..Len(removed) : removed[i] = session[c].gw)
            => \E i \in 1..Len(rm2) : rm2[i] = session[c].gw
      BY <1>3
    <3>4. session[c].gw = g => \E i \in 1..Len(rm2) : rm2[i] = session[c].gw
      BY <1>3
    <3> QED
      BY <1>1, <2>4, <3>1, <3>2, <3>3, <3>4 DEF Playing, NoLogin, rm2
  <2> QED
    BY <1>6, <2>2, <2>3, <2>4 DEF SettleInv, Mode
<1> QED
  BY <1>1, <1>5, <1>6 DEF SettleInv, Mode

LEMMA SettleInit ==
  ASSUME PresenceInit
  PROVE  SettleInv
<1>1. /\ removed = <<>> /\ \A r \in Replicas, s \in Subjects : inboxes[r][s] = <<>> /\ running[r][s] = None
      /\ \A r \in Replicas, c \in Chars : guidStorage[r][c] = None /\ onlineInfo[r][c] = None
      /\ \A c \in Chars : ~session[c].open
  BY DEF PresenceInit
<1>2. Len(<<>>) = 0 /\ \A i \in 1..Len(<<>>) : FALSE
  OBVIOUS
<1>3. \A r \in Replicas : inboxes[r]["in"] = <<>> /\ inboxes[r]["gone"] = <<>> /\ running[r]["in"] = None
  BY <1>1 DEF Subjects
<1>4. DropsOnce
  BY <1>1, <1>2, <1>3 DEF DropsOnce
<1>5. ASSUME NEW c \in Chars PROVE Gone(c)
  BY <1>1, <1>2, <1>3 DEF Gone, UnlistedAt, Unlisted, Waits, Runs
<1> QED
  BY <1>4, <1>5 DEF SettleInv

\* What the modes mean once the events are handled.
LEMMA SettledModes ==
  ASSUME PresenceAssumption, BarrierInv, SettleInv
  PROVE  SettledIsTrue
<1> SUFFICES ASSUME setting.patient, Settled, NEW r \in Replicas, NEW c \in Chars
             PROVE  IF session[c].open
                    THEN /\ guidStorage[r][c] # None
                         /\ guidStorage[r][c].gw = session[c].gw
                         /\ guidStorage[r][c].val = session[c].val
                         /\ onlineInfo[r][c] = session[c].val
                    ELSE /\ guidStorage[r][c] = None
                         /\ onlineInfo[r][c] # None => session[c].gw \notin up
  BY DEF SettledIsTrue
<1>1. \A i \in 1..Len(<<>>) : FALSE
  OBVIOUS
<1>2. /\ \A s \in Subjects : inboxes[r][s] = <<>> /\ running[r][s] = None
      /\ removed = <<>> /\ unnoticed = {}
      /\ \A g \in Gateways : updsChan[g] = <<>> /\ buffer[g] = NoUpdate
  BY DEF Settled
<1>3. /\ inboxes[r]["in"] = <<>> /\ inboxes[r]["out"] = <<>> /\ inboxes[r]["upd"] = <<>>
      /\ inboxes[r]["gone"] = <<>>
      /\ running[r]["in"] = None /\ running[r]["out"] = None /\ running[r]["upd"] = None
  BY <1>2 DEF Subjects
<1>4. \A d : ~Waits(<<>>, d) /\ ~Runs(None, d)
  BY <1>1 DEF Waits, Runs
<1>5. PresenceTypeOK
  BY DEF BarrierInv
<1>6. CASE Gone(c)
  <2>1. guidStorage[r][c] = None /\ onlineInfo[r][c] = None /\ ~session[c].open
    BY <1>3, <1>4, <1>6 DEF Gone, UnlistedAt, Unlisted
  <2> QED
    BY <2>1
<1>7. CASE Cleared(c)
  <2>1. guidStorage[r][c] = None /\ session[c].gw \notin up /\ ~session[c].open
    BY <1>1, <1>3, <1>7 DEF Cleared, DroppedAt, Dropped
  <2> QED
    BY <2>1
<1>8. CASE Playing(c)
  <2>1. session[c].open
    BY <1>1, <1>2, <1>8 DEF Playing
  <2>2. /\ guidStorage[r][c] # None /\ guidStorage[r][c].gw = session[c].gw
        /\ Brings(<<>>, guidStorage[r][c].val, told[c], c)
        /\ onlineInfo[r][c] # None /\ Brings(<<>>, onlineInfo[r][c], told[c], c)
    BY <1>3, <1>4, <1>8 DEF Playing, ListedAt, IsListed, Shown
  <2>3. told[c] \in Values /\ session[c].val \in Values
    BY <1>5, TypeParts DEF GwType, SessionRecs
  <2>4. guidStorage[r][c].val \in Values /\ onlineInfo[r][c] \in Values
    <3>1. guidStorage[r][c] \in Entries /\ onlineInfo[r][c] \in Values
      BY <1>5, <2>2, ReplicaTypes
    <3> QED
      BY <3>1 DEF Entries
  <2>5. guidStorage[r][c].val = told[c] /\ onlineInfo[r][c] = told[c]
    <3>1. <<>> \in Seq(EventsOf("upd"))
      BY EmptyType
    <3> QED
      BY <1>4, <2>2, <2>3, <2>4, <3>1, BringsNothing
  <2>6. told[c] = session[c].val
    <3>1. session[c].gw \in Gateways
      BY <1>5, <2>1, TypeParts DEF BarrierInv, FreshOf, FaultType
    <3>2. ASSUME NEW f \in Fields PROVE told[c][f] = session[c].val[f]
      <4>1. Known(<<>>, NoUpdate, told[c], c, f, session[c].val[f])
        BY <1>2, <2>1, <3>1 DEF BarrierInv, FreshOf
      <4>2. Carried(<<>>, c, f) = {}
        BY <1>1 DEF Carried
      <4> QED
        BY <4>1, <4>2, NothingCollected DEF Known, Behind
    <3> QED
      BY <2>3, <3>2 DEF Values
  <2> QED
    BY <2>1, <2>2, <2>5, <2>6
<1> QED
  BY <1>6, <1>7, <1>8 DEF SettleInv

\* Once the events are handled every replica answers with the truth, for any
\* number of gateways, characters, replicas, fields, crashes and failed sends,
\* as long as the players are slower than the events about themselves: who
\* plays is listed with its gateway and its newest values, for /who and for its
\* friends, and nobody else is in the online storage
\* (HandleCharacterLoggedIn, HandleCharacterLoggedOut, HandleCharactersUpdates,
\* RemoveAllWithGatewayID, CharactersUpdatesBarrier.Run).
THEOREM RepliesAreTrue == PresenceSpec => []SettledIsTrue
<1> USE PresenceConstants
<1>1. PresenceInit => SettleInv
  BY SettleInit
<1>2. StoreInv /\ BarrierInv /\ SettleInv /\ [PresenceNext]_presenceVars => SettleInv'
  <2> SUFFICES ASSUME StoreInv, BarrierInv, SettleInv, [PresenceNext]_presenceVars PROVE SettleInv'
    OBVIOUS
  <2>1. PresenceTypeOK
    BY DEF StoreInv
  <2>2. ASSUME NEW g \in Gateways, Collect(g) PROVE SettleInv'
    BY <2>2, SettleCollect DEF Collect, storageVars, faultVars
  <2>3. CASE UNCHANGED presenceVars
    BY <2>3, SettleCollect DEF presenceVars
  <2> QED
    BY <2>1, <2>2, <2>3, SettleLogin, SettleLogout, SettleUpdate, SettleOpenBarrier, SettleCrash,
       SettleRegistryDrops, SettleHandleLoggedIn, SettleHandleLoggedOut, SettleRemoveFound,
       SettleHandleUpdates, SettleHandleFriends, SettleHandleGWRemoved,
       SettleHandleCharsDisconnected, Zenon DEF PresenceNext
<1>3. BarrierInv /\ SettleInv => SettledIsTrue
  BY SettledModes
<1>4. PresenceSpec => []StoreInv
  BY IndexesAreConsistent, PTL DEF StoreInv
<1> QED
  BY <1>1, <1>2, <1>3, <1>4, BarrierHolds, PTL DEF PresenceSpec
=============================================================================
