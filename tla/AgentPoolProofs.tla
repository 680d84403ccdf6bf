--------------------------- MODULE AgentPoolProofs ---------------------------
(***************************************************************************)
(* Proofs about AgentPool, for any finite set of callers, any pool size    *)
(* and any bounds.  IInv is inductive: the checked invariants need each    *)
(* other, and need to know that the list holds running processes only      *)
(* (PoolRuns), that callers and replays refer to processes that were       *)
(* spawned (RefersToSpawned), that what was not spawned is blank (Blank),  *)
(* and that a process of the list that is being disposed of is marked, so  *)
(* that no caller gets it (DisposalMarked).                                *)
(***************************************************************************)
EXTENDS AgentPool, FiniteSetTheorems, TLAPS

PoolRuns == \A c \in pool : Alive(c)

Spawned(c) == conn[c].phase # "none"

RefersToSpawned ==
  /\ \A r \in Reqs : /\ req[r].phase # "idle" => req[r].conn # NoConn
                     /\ req[r].conn # NoConn => Spawned(req[r].conn)
  /\ \A c \in Conns : reapply[c] > 0 => Spawned(c)

Blank == \A c \in Conns : ~Spawned(c) => conn[c] = NoProcess

DisposalMarked == \A c \in pool : conn[c].disposing => conn[c].recycle

(* The invariants about the lists of the pool.                             *)
Lists ==
  /\ CountdownOnlyIdle /\ NoneLost
  /\ PoolRuns /\ RefersToSpawned /\ Blank /\ DisposalMarked

IInv == TypeOK /\ SlotsCounted /\ ReservedByOne /\ Lists

(* The pool starts in the invariant.                                       *)
LEMMA InitInv == Init => IInv
<1> SUFFICES ASSUME Init PROVE IInv
  OBVIOUS
<1>1. TypeOK
  BY BoundsAssumption DEF Init, TypeOK, Conn, NoProcess, NoSession, Conns, NoConn, ReqPhases, Phases, Living, Starting
<1>2. SlotsCounted
  <2> SUFFICES ASSUME NEW c \in Conns PROVE conn[c].active = Cardinality(Holders(c))
    BY DEF SlotsCounted
  <2>1. Holders(c) = {}
    BY DEF Init, Holders, NoSession
  <2> QED
    BY <2>1, FS_EmptySet DEF Init, NoProcess
<1>3. ReservedByOne
  BY DEF Init, ReservedByOne, InjectedRuns, NoProcess, NoSession
<1>4. Lists
  BY DEF Init, Lists, CountdownOnlyIdle, NoneLost, PoolRuns, RefersToSpawned, Blank,
         DisposalMarked, Spawned, Alive, Living, Starting, NoProcess, NoSession
<1> QED
  BY <1>1, <1>2, <1>3, <1>4 DEF IInv

(* The step leaves callers, loads and reservations alone.                  *)
Quiet ==
  /\ req' = req
  /\ \A c \in Conns : conn'[c].active = conn[c].active /\ conn'[c].reserved = conn[c].reserved

(* The step of DisposalSparesBusy.                                         *)
SparesBusy ==
  \A c \in Conns :
    conn'[c].disposing /\ conn'[c].active > 0 /\ closed' = "open"
      => (conn[c].disposing /\ conn[c].active > 0) \/ reapply[c] > 0

(* A quiet step keeps the accounting.                                      *)
LEMMA QuietStep == ASSUME IInv, Quiet PROVE SlotsCounted' /\ ReservedByOne'
<1>1. \A c \in Conns : Holders(c)' = Holders(c) /\ InjectedRuns(c)' = InjectedRuns(c)
  BY DEF Quiet, Holders, InjectedRuns
<1> QED
  BY <1>1 DEF IInv, Quiet, SlotsCounted, ReservedByOne

(* The step changes no connection but c.                                   *)
Only(c) == /\ conn' \in [Conns -> Conn]
           /\ \A d \in Conns : d # c => conn'[d] = conn[d]

(* A handshake step changes neither load, reservation nor marks.           *)
LEMMA StartupOnly ==
  ASSUME TypeOK, NEW c \in Conns, Startup(c) \/ StartFails(c)
  PROVE  /\ Only(c)
         /\ conn[c].phase \in Living /\ conn'[c].phase \in Living
         /\ conn'[c].active = conn[c].active /\ conn'[c].reserved = conn[c].reserved
         /\ conn'[c].recycle = conn[c].recycle /\ conn'[c].disposing = conn[c].disposing
<1> USE DEF TypeOK, Only, Conn, Living, Starting, Phases
<1>1. CASE Shaken(c)
  <2>1. CASE auth.inProcess
    BY SMTT(30), <1>1, <2>1 DEF Shaken
  <2>2. CASE ~auth.inProcess
    BY SMTT(30), <1>1, <2>2 DEF Shaken, ToRoute
  <2> QED
    BY <2>1, <2>2
<1>2. CASE LoggedIn(c)
  <2> DEFINE k == [conn[c] EXCEPT !.phase = "route", !.auth = auth.gen, !.replay = prov]
  <2>0. conn[c] \in Conn /\ auth.gen \in Int
    OBVIOUS
  <2>1. conn' = [conn EXCEPT ![c] = k]
    BY <1>2 DEF LoggedIn, ToRoute
  <2>2. k \in Conn
    BY <2>0
  <2> QED
    BY <1>2, <2>1, <2>2 DEF LoggedIn
<1>3. CASE Routed(c)
  <2> DEFINE k == [conn[c] EXCEPT !.phase = "ready", !.prov = conn[c].replay]
  <2>0. conn[c] \in Conn
    OBVIOUS
  <2>1. conn' = [conn EXCEPT ![c] = k]
    BY <1>3 DEF Routed
  <2>2. k \in Conn
    BY <2>0
  <2> QED
    BY <1>3, <2>1, <2>2 DEF Routed
<1>4. CASE StartFails(c)
  BY <1>4 DEF StartFails
<1> QED
  BY <1>1, <1>2, <1>3, <1>4 DEF Startup

(* initialize and its two replays keep the invariant.                      *)
LEMMA StartupStep ==
  ASSUME IInv, NEW c \in Conns, Startup(c) \/ StartFails(c) PROVE IInv' /\ SparesBusy
<1>1. UNCHANGED <<pool, timers, tracked, reapply, req, prov, closed>>
  BY DEF Startup, Shaken, LoggedIn, Routed, StartFails, ToRoute
<1>2. TypeOK'
  <2>1. auth' \in [known : BOOLEAN, gen : Nat, inProcess : BOOLEAN]
    BY DEF IInv, TypeOK, Startup, Shaken, LoggedIn, Routed, StartFails, ToRoute
  <2> QED
    BY <1>1, <2>1, StartupOnly DEF IInv, TypeOK, Only
<1>3. Quiet
  BY <1>1, StartupOnly DEF IInv, Quiet, Only
<1>4. Lists'
  BY <1>1, StartupOnly DEF IInv, Only, Lists, CountdownOnlyIdle, NoneLost, PoolRuns, RefersToSpawned, Blank,
         DisposalMarked, Spawned, Alive, Living, Starting, Idle, TypeOK
<1>5. SparesBusy
  BY <1>1, StartupOnly DEF SparesBusy, Only, IInv
<1> QED
  BY <1>5, <1>2, <1>3, <1>4, QuietStep DEF IInv

(* The end of a replay stamps or marks a connection.                       *)
LEMMA ReapplyOnly ==
  ASSUME TypeOK, NEW c \in Conns, Reapplied(c) \/ ReapplyFails(c)
  PROVE  /\ Only(c) /\ reapply' \in [Conns -> Nat] /\ reapply[c] > 0
         /\ \A d \in Conns : reapply'[d] > 0 => reapply[d] > 0
         /\ conn'[c].phase = conn[c].phase
         /\ conn'[c].active = conn[c].active /\ conn'[c].reserved = conn[c].reserved
         /\ conn[c].recycle => conn'[c].recycle
         /\ conn'[c].disposing => conn[c].disposing \/ conn'[c].recycle
<1> USE DEF TypeOK, Only, Conn
<1>0. conn[c] \in Conn
  OBVIOUS
<1>1. CASE Reapplied(c)
  <2> DEFINE k == [conn[c] EXCEPT !.auth = auth.gen]
  <2>1. conn' = [conn EXCEPT ![c] = k]
    BY <1>1 DEF Reapplied
  <2>2. k \in Conn
    BY <1>0
  <2> QED
    BY <1>1, <2>1, <2>2 DEF Reapplied
<1>2. CASE ReapplyFails(c)
  <2> DEFINE k == [conn[c] EXCEPT !.recycle = TRUE, !.disposing = @ \/ Alive(c)]
  <2>1. conn' = [conn EXCEPT ![c] = k]
    BY <1>2 DEF ReapplyFails
  <2>2. k \in Conn
    BY <1>0
  <2> QED
    BY <1>2, <2>1, <2>2 DEF ReapplyFails
<1> QED
  BY <1>1, <1>2

(* scheduleReapply keeps the invariant.                                    *)
LEMMA ReapplyStep ==
  ASSUME IInv, NEW c \in Conns, Reapplied(c) \/ ReapplyFails(c) PROVE IInv' /\ SparesBusy
<1>1. UNCHANGED <<pool, timers, tracked, req, auth, prov, closed>>
  BY DEF Reapplied, ReapplyFails
<1>2. TypeOK'
  BY <1>1, ReapplyOnly DEF IInv, TypeOK, Only
<1>3. Quiet
  BY <1>1, ReapplyOnly DEF IInv, Quiet, Only
<1>4. Lists'
  BY <1>1, ReapplyOnly DEF IInv, Only, Lists, CountdownOnlyIdle, NoneLost, PoolRuns,
     RefersToSpawned, Blank, DisposalMarked, Spawned, Alive, Idle, TypeOK
<1>5. SparesBusy
  BY ReapplyOnly DEF SparesBusy, Only, IInv
<1> QED
  BY <1>5, <1>2, <1>3, <1>4, QuietStep DEF IInv

(* quarantineAfterIgnoredCancel keeps the invariant.                       *)
LEMMA QuarantineStep ==
  ASSUME IInv, NEW r \in Reqs, Quarantine(r) PROVE IInv' /\ SparesBusy
<1> DEFINE c == req[r].conn
           k == [conn[c] EXCEPT !.recycle = TRUE, !.disposing = @ \/ (Idle(c) /\ Alive(c))]
<1>1. c \in Conns /\ conn[c] \in Conn
  BY DEF Quarantine, IInv, TypeOK
<1>2. k \in Conn
  BY <1>1 DEF Conn
<1>3. conn' = [conn EXCEPT ![c] = k] /\ UNCHANGED <<pool, timers, tracked, reapply, req, auth, prov, closed>>
  BY <1>1 DEF Quarantine
<1>4. Only(c) /\ conn'[c] = k
  BY <1>1, <1>2, <1>3 DEF Only, IInv, TypeOK
<1>0. Spawned(c) /\ 0 \notin Conns
  BY <1>1 DEF IInv, Lists, RefersToSpawned, Conns, NoConn
<1> HIDE DEF c
<1>5. /\ conn'[c].phase = conn[c].phase /\ conn'[c].recycle
      /\ conn'[c].active = conn[c].active /\ conn'[c].reserved = conn[c].reserved
  BY <1>1, <1>4 DEF Conn
<1> HIDE DEF k
<1>6. TypeOK'
  BY <1>3, <1>4 DEF IInv, TypeOK, Only
<1>7. Quiet
  BY <1>3, <1>4, <1>5 DEF Quiet, Only
<1>8. Lists'
  BY <1>0, <1>1, <1>3, <1>4, <1>5 DEF IInv, Only, Lists, CountdownOnlyIdle, NoneLost, PoolRuns,
     RefersToSpawned, Blank, DisposalMarked, Spawned, Alive, Idle, TypeOK
<1>9. SparesBusy
  <2>1. conn'[c].disposing => (conn[c].disposing \/ Idle(c))
    BY <1>1, <1>4 DEF Conn, k
  <2> QED
    BY <1>1, <1>4, <1>5, <2>1 DEF SparesBusy, Only, Idle
<1> QED
  BY <1>9, <1>6, <1>7, <1>8, QuietStep DEF IInv

(* session/new keeps the invariant.                                        *)
LEMMA OpenedStep ==
  ASSUME IInv, NEW r \in Reqs, Opened(r) PROVE IInv' /\ SparesBusy
<1> USE DEF Opened
<1>1. TypeOK'
  BY DEF IInv, TypeOK, ReqPhases
<1>2. \A s \in Reqs : /\ req'[s].conn = req[s].conn /\ req'[s].injected = req[s].injected
                      /\ s # r => req'[s].phase = req[s].phase
  BY DEF IInv, TypeOK
<1>3. req[r].phase = "opening" /\ req'[r].phase = "open"
  BY DEF IInv, TypeOK
<1>4. \A c \in Conns : Holders(c)' = Holders(c) /\ InjectedRuns(c)' = InjectedRuns(c)
  BY <1>2, <1>3 DEF Holders, InjectedRuns
<1>5. SlotsCounted' /\ ReservedByOne'
  BY <1>4 DEF IInv, SlotsCounted, ReservedByOne
<1>6. Lists'
  BY <1>2, <1>3 DEF IInv, Lists, CountdownOnlyIdle, NoneLost, PoolRuns,
     RefersToSpawned, Blank, DisposalMarked, Spawned, Alive, Idle
<1>7. SparesBusy
  BY DEF SparesBusy
<1> QED
  BY <1>7, <1>1, <1>5, <1>6 DEF IInv

(* The callers that use a connection can be counted.                       *)
LEMMA HoldersFinite == \A c : IsFiniteSet(Holders(c)) /\ Cardinality(Holders(c)) \in Nat
<1> TAKE c
<1>1. Holders(c) \subseteq Reqs
  BY DEF Holders
<1> QED
  BY <1>1, ReqsAssumption, FS_Subset, FS_CardinalityType

(* When one of its holders leaves, a connection has one session less.      *)
LEMMA LeaverCounted ==
  ASSUME IInv, NEW r \in Reqs, NEW c \in Conns, r \in Holders(c)
  PROVE  /\ ~Idle(c) /\ conn[c].active - 1 \in Nat
         /\ Cardinality(Holders(c) \ {r}) = conn[c].active - 1
<1>1. Cardinality(Holders(c) \ {r}) = Cardinality(Holders(c)) - 1
  BY HoldersFinite, FS_RemoveElement
<1>2. Cardinality(Holders(c) \ {r}) \in Nat
  BY HoldersFinite, FS_RemoveElement, FS_CardinalityType
<1> QED
  BY <1>1, <1>2, HoldersFinite DEF IInv, SlotsCounted, Idle

(* The reservation ends with the injected run that leaves.                 *)
LEMMA LeaverReserved ==
  ASSUME IInv, NEW r \in Reqs, NEW c \in Conns, req[r].conn = c, req[r].phase # "idle",
         conn[c].reserved \in BOOLEAN, req[r].injected \in BOOLEAN,
         InjectedRuns(c)' = InjectedRuns(c) \ {r},
         conn'[c].reserved = (conn[c].reserved /\ ~req[r].injected)
  PROVE  /\ \A s, t \in InjectedRuns(c)' : s = t
         /\ conn'[c].reserved <=> InjectedRuns(c)' # {}
<1>1. /\ \A s, t \in InjectedRuns(c) : s = t
      /\ conn[c].reserved <=> InjectedRuns(c) # {}
  BY DEF IInv, ReservedByOne
<1>2. CASE req[r].injected
  <2>1. r \in InjectedRuns(c)
    BY <1>2 DEF InjectedRuns
  <2> QED
    BY <1>1, <1>2, <2>1
<1>3. CASE ~req[r].injected
  <2>1. r \notin InjectedRuns(c)
    BY <1>3 DEF InjectedRuns
  <2> QED
    BY <1>1, <1>3, <2>1
<1> QED
  BY <1>2, <1>3

(* releaseSession keeps the invariant.                                     *)
LEMMA ClosedStep ==
  ASSUME IInv, NEW r \in Reqs, NEW dirty \in BOOLEAN, Closed(r, dirty) PROVE IInv' /\ SparesBusy
<1>0. PICK c \in Conns : c = req[r].conn
  BY DEF Closed, IInv, TypeOK, Lists, RefersToSpawned
<1> DEFINE recycle == conn[c].recycle \/ dirty
           active  == IF Idle(c) THEN 0 ELSE conn[c].active - 1
           k == [conn[c] EXCEPT !.active = active, !.recycle = recycle,
                   !.disposing = @ \/ (recycle /\ active = 0 /\ Alive(c))]
<1>1. /\ req[r].phase = "open" /\ req[r].conn = c /\ conn[c] \in Conn /\ Spawned(c)
      /\ conn' = [conn EXCEPT ![c] = k]
      /\ req' = [req EXCEPT ![r].phase = "freeing"]
      /\ UNCHANGED <<pool, timers, tracked, reapply, auth, prov, closed>>
  BY <1>0 DEF Closed, IInv, TypeOK, Lists, RefersToSpawned
<1>2. r \in Holders(c)
  BY <1>1 DEF Holders
<1>3. active = conn[c].active - 1 /\ active \in Nat
  BY <1>1, <1>2, LeaverCounted DEF Idle, Conn
<1> HIDE DEF active
<1>4. k \in Conn
  <2> DEFINE e == conn[c].disposing \/ (recycle /\ active = 0 /\ Alive(c))
  <2>1. k = [conn[c] EXCEPT !.active = active, !.recycle = recycle, !.disposing = e]
    BY <1>1
  <2>2. recycle \in BOOLEAN /\ e \in BOOLEAN
    BY <1>1 DEF Conn
  <2> HIDE DEF e, recycle, k
  <2> QED
    BY <1>1, <1>3, <2>1, <2>2 DEF Conn
<1>5. Only(c) /\ conn'[c] = k
  BY <1>1, <1>4 DEF Only, IInv, TypeOK
<1>6. /\ conn'[c].phase = conn[c].phase /\ conn'[c].active = conn[c].active - 1
      /\ conn'[c].reserved = conn[c].reserved /\ (conn[c].recycle => conn'[c].recycle)
      /\ (conn'[c].disposing => (conn[c].disposing \/ conn'[c].recycle))
  <2>1. /\ k.phase = conn[c].phase /\ k.active = active /\ k.reserved = conn[c].reserved
        /\ k.recycle = recycle
        /\ k.disposing = (conn[c].disposing \/ (recycle /\ active = 0 /\ Alive(c)))
    BY <1>1 DEF Conn
  <2> QED
    BY <1>3, <1>5, <2>1
<1>7. \A s \in Reqs : /\ req'[s].conn = req[s].conn /\ req'[s].injected = req[s].injected
                      /\ req'[s].phase = IF s = r THEN "freeing" ELSE req[s].phase
  BY <1>1 DEF IInv, TypeOK
<1> HIDE DEF k, recycle
<1>8. TypeOK'
  BY <1>1, <1>5 DEF IInv, TypeOK, Only, ReqPhases
<1>9. SlotsCounted'
  <2> SUFFICES ASSUME NEW d \in Conns PROVE conn'[d].active = Cardinality(Holders(d)')
    BY DEF SlotsCounted
  <2>1. CASE d = c
    <3>1. Holders(c)' = Holders(c) \ {r}
      BY <1>7 DEF Holders
    <3> QED
      BY <1>1, <1>2, <1>6, <2>1, <3>1, LeaverCounted
  <2>2. CASE d # c
    <3>1. Holders(d)' = Holders(d)
      BY <1>1, <1>7, <2>2 DEF Holders
    <3> QED
      BY <1>5, <2>2, <3>1 DEF Only, IInv, SlotsCounted
  <2> QED
    BY <2>1, <2>2
<1>10. ReservedByOne'
  <2>1. \A d \in Conns : InjectedRuns(d)' = InjectedRuns(d)
    BY <1>1, <1>7 DEF InjectedRuns
  <2>2. \A d \in Conns : conn'[d].reserved = conn[d].reserved
    BY <1>5, <1>6 DEF Only
  <2> QED
    BY <2>1, <2>2 DEF IInv, ReservedByOne
<1>11. Lists'
  <2>1. ~Idle(c)
    BY <1>2, LeaverCounted
  <2> QED
    BY <1>1, <1>5, <1>6, <1>7, <2>1 DEF IInv, Only, Lists, CountdownOnlyIdle, NoneLost, PoolRuns,
       RefersToSpawned, Blank, DisposalMarked, Spawned, Alive, Idle, TypeOK
<1>12. SparesBusy
  <2>1. conn'[c].disposing => (conn[c].disposing \/ active = 0)
    BY <1>1, <1>5 DEF Conn, k
  <2>2. conn'[c].active = active /\ ~Idle(c) /\ conn[c].active \in Nat
    BY <1>1, <1>2, <1>3, <1>6, LeaverCounted DEF Conn
  <2> QED
    BY <1>5, <2>1, <2>2 DEF SparesBusy, Only, Idle
<1> QED
  BY <1>12, <1>8, <1>9, <1>10, <1>11 DEF IInv

(* What scheduleElasticReap starts is a countdown of an idle connection.   *)
LEMMA CountdownStep ==
  ASSUME TypeOK, NEW c \in Conns, NEW k, Countdown(c, k)
  PROVE  /\ timers' \subseteq Conns /\ timers \subseteq timers'
         /\ \A d \in timers' : \/ d \in timers
                               \/ d = c /\ c \in pool /\ k.active = 0 /\ ~k.reserved
BY DEF TypeOK, Countdown

(* The failure path of openPreparedSession keeps the invariant.            *)
LEMMA OpenFailsStep ==
  ASSUME IInv, NEW r \in Reqs, OpenFails(r) PROVE IInv' /\ SparesBusy
<1>0. PICK c \in Conns : c = req[r].conn
  BY DEF OpenFails, IInv, TypeOK, Lists, RefersToSpawned
<1> DEFINE k == Unreserved(r, SlotFreed(conn[c]))
<1>1. /\ req[r].phase = "opening" /\ req[r].conn = c /\ conn[c] \in Conn /\ Spawned(c)
      /\ req[r].injected \in BOOLEAN
      /\ conn' = [conn EXCEPT ![c] = k] /\ Countdown(c, k)
      /\ req' = [req EXCEPT ![r] = NoSession]
      /\ UNCHANGED <<pool, tracked, reapply, auth, prov, closed>>
  BY <1>0 DEF OpenFails, IInv, TypeOK, Lists, RefersToSpawned
<1>2. r \in Holders(c)
  BY <1>1 DEF Holders
<1>3. conn[c].active - 1 \in Nat
  BY <1>1, <1>2, LeaverCounted DEF Conn
<1>4. /\ k \in Conn /\ k.active = conn[c].active - 1
      /\ k.reserved = (conn[c].reserved /\ ~req[r].injected)
      /\ k.phase = conn[c].phase /\ k.recycle = conn[c].recycle
      /\ k.disposing = conn[c].disposing
  BY <1>1, <1>3 DEF Conn, Unreserved, SlotFreed
<1> HIDE DEF k
<1>5. Only(c) /\ conn'[c] = k
  BY <1>1, <1>4 DEF Only, IInv, TypeOK
<1>6. /\ timers' \subseteq Conns /\ timers \subseteq timers'
      /\ \A d \in timers' : \/ d \in timers
                            \/ d = c /\ c \in pool /\ k.active = 0 /\ ~k.reserved
  BY <1>1, CountdownStep DEF IInv
<1>7. /\ \A s \in Reqs : s # r => req'[s] = req[s]
      /\ req'[r].phase = "idle" /\ req'[r].conn = NoConn
  BY <1>1 DEF IInv, TypeOK, NoSession
<1>8. TypeOK'
  <2>1. req' \in [Reqs -> [phase : ReqPhases, conn : Conns \cup {NoConn}, injected : BOOLEAN]]
    BY <1>1 DEF IInv, TypeOK, NoSession, ReqPhases
  <2> QED
    BY <1>1, <1>5, <1>6, <2>1 DEF IInv, TypeOK, Only
<1>9. SlotsCounted'
  <2> SUFFICES ASSUME NEW d \in Conns PROVE conn'[d].active = Cardinality(Holders(d)')
    BY DEF SlotsCounted
  <2>1. CASE d = c
    <3>1. Holders(c)' = Holders(c) \ {r}
      BY <1>7 DEF Holders
    <3> QED
      BY <1>1, <1>2, <1>4, <1>5, <2>1, <3>1, LeaverCounted
  <2>2. CASE d # c
    <3>1. Holders(d)' = Holders(d)
      BY <1>1, <1>7, <2>2 DEF Holders
    <3> QED
      BY <1>5, <2>2, <3>1 DEF Only, IInv, SlotsCounted
  <2> QED
    BY <2>1, <2>2
<1>10. ReservedByOne'
  <2> SUFFICES ASSUME NEW d \in Conns
               PROVE  /\ \A s, t \in InjectedRuns(d)' : s = t
                      /\ conn'[d].reserved <=> InjectedRuns(d)' # {}
    BY DEF ReservedByOne
  <2>1. CASE d = c
    <3>1. InjectedRuns(c)' = InjectedRuns(c) \ {r}
      BY <1>7 DEF InjectedRuns
    <3>2. conn[c].reserved \in BOOLEAN
      BY <1>1 DEF Conn
    <3>3. conn'[c].reserved = (conn[c].reserved /\ ~req[r].injected) /\ req[r].phase # "idle"
      BY <1>1, <1>4, <1>5
    <3>4. req[r].conn = c /\ req[r].phase # "idle" /\ req[r].injected \in BOOLEAN
      BY <1>1
    <3>5. conn'[c].reserved = (conn[c].reserved /\ ~req[r].injected)
      BY <3>3, <3>4
    <3>6. /\ \A s, t \in InjectedRuns(c)' : s = t
          /\ conn'[c].reserved <=> InjectedRuns(c)' # {}
      BY <3>1, <3>2, <3>4, <3>5, LeaverReserved
    <3> QED
      BY <2>1, <3>6
  <2>2. CASE d # c
    <3>1. InjectedRuns(d)' = InjectedRuns(d)
      BY <1>1, <1>7, <2>2 DEF InjectedRuns
    <3> QED
      BY <1>5, <2>2, <3>1 DEF Only, IInv, ReservedByOne
  <2> QED
    BY <2>1, <2>2
<1>11. Lists'
  <2>1. ~Idle(c)
    BY <1>2, LeaverCounted
  <2> QED
    BY <1>1, <1>4, <1>5, <1>6, <1>7, <2>1 DEF IInv, Only, Lists, CountdownOnlyIdle, NoneLost, PoolRuns,
       RefersToSpawned, Blank, DisposalMarked, Spawned, Alive, Idle, TypeOK
<1>12. SparesBusy
  <2>1. ~Idle(c) /\ conn[c].active \in Nat
    BY <1>1, <1>2, LeaverCounted DEF Conn
  <2> QED
    BY <1>4, <1>5, <2>1 DEF SparesBusy, Only, Idle
<1> QED
  BY <1>12, <1>8, <1>9, <1>10, <1>11 DEF IInv

(* onReleased keeps the invariant.                                         *)
LEMMA FreedStep ==
  ASSUME IInv, NEW r \in Reqs, Freed(r) PROVE IInv' /\ SparesBusy
<1>0. PICK c \in Conns : c = req[r].conn
  BY DEF Freed, IInv, TypeOK, Lists, RefersToSpawned
<1> DEFINE k == Unreserved(r, conn[c])
<1>1. /\ req[r].phase = "freeing" /\ req[r].conn = c /\ conn[c] \in Conn /\ Spawned(c)
      /\ req[r].injected \in BOOLEAN
      /\ conn' = [conn EXCEPT ![c] = k] /\ Countdown(c, k)
      /\ req' = [req EXCEPT ![r].phase = "idle", ![r].injected = FALSE]
      /\ UNCHANGED <<pool, tracked, reapply, auth, prov, closed>>
  BY <1>0 DEF Freed, IInv, TypeOK, Lists, RefersToSpawned
<1>2. /\ k \in Conn /\ k.active = conn[c].active
      /\ k.reserved = (conn[c].reserved /\ ~req[r].injected)
      /\ k.phase = conn[c].phase /\ k.recycle = conn[c].recycle
      /\ k.disposing = conn[c].disposing
  BY <1>1 DEF Conn, Unreserved
<1> HIDE DEF k
<1>3. Only(c) /\ conn'[c] = k
  BY <1>1, <1>2 DEF Only, IInv, TypeOK
<1>4. /\ timers' \subseteq Conns /\ timers \subseteq timers'
      /\ \A d \in timers' : \/ d \in timers
                            \/ d = c /\ c \in pool /\ k.active = 0 /\ ~k.reserved
  BY <1>1, CountdownStep DEF IInv
<1>5. /\ \A s \in Reqs : s # r => req'[s] = req[s]
      /\ req'[r].phase = "idle" /\ req'[r].conn = c
  BY <1>1 DEF IInv, TypeOK
<1>6. TypeOK'
  <2>1. req' \in [Reqs -> [phase : ReqPhases, conn : Conns \cup {NoConn}, injected : BOOLEAN]]
    <3>1. req \in [Reqs -> [phase : ReqPhases, conn : Conns \cup {NoConn}, injected : BOOLEAN]]
      BY DEF IInv, TypeOK
    <3>2. [req[r] EXCEPT !.phase = "idle", !.injected = FALSE]
             \in [phase : ReqPhases, conn : Conns \cup {NoConn}, injected : BOOLEAN]
      BY <3>1 DEF ReqPhases
    <3>3. req' = [req EXCEPT ![r] = [req[r] EXCEPT !.phase = "idle", !.injected = FALSE]]
      BY <1>1, <3>1
    <3> QED
      BY <3>1, <3>2, <3>3
  <2> QED
    BY <1>1, <1>3, <1>4, <2>1 DEF IInv, TypeOK, Only
<1>7. SlotsCounted'
  <2>1. \A d \in Conns : Holders(d)' = Holders(d)
    BY <1>1, <1>5 DEF Holders
  <2>2. \A d \in Conns : conn'[d].active = conn[d].active
    BY <1>2, <1>3 DEF Only
  <2> QED
    BY <2>1, <2>2 DEF IInv, SlotsCounted
<1>8. ReservedByOne'
  <2> SUFFICES ASSUME NEW d \in Conns
               PROVE  /\ \A s, t \in InjectedRuns(d)' : s = t
                      /\ conn'[d].reserved <=> InjectedRuns(d)' # {}
    BY DEF ReservedByOne
  <2>1. CASE d = c
    <3>1. InjectedRuns(c)' = InjectedRuns(c) \ {r}
      BY <1>5 DEF InjectedRuns
    <3>2. conn[c].reserved \in BOOLEAN
      BY <1>1 DEF Conn
    <3>3. conn'[c].reserved = (conn[c].reserved /\ ~req[r].injected)
      BY <1>2, <1>3
    <3>4. req[r].conn = c /\ req[r].phase # "idle" /\ req[r].injected \in BOOLEAN
      BY <1>1
    <3> QED
      <4>1. /\ \A s, t \in InjectedRuns(c)' : s = t
            /\ conn'[c].reserved <=> InjectedRuns(c)' # {}
        BY <3>1, <3>2, <3>3, <3>4, LeaverReserved
      <4> QED
        BY <2>1, <4>1
  <2>2. CASE d # c
    <3>1. InjectedRuns(d)' = InjectedRuns(d)
      BY <1>1, <1>5, <2>2 DEF InjectedRuns
    <3> QED
      BY <1>3, <2>2, <3>1 DEF Only, IInv, ReservedByOne
  <2> QED
    BY <2>1, <2>2
<1>9. Lists'
  <2> QED
    BY <1>1, <1>2, <1>3, <1>4, <1>5 DEF IInv, Only, Lists, CountdownOnlyIdle, NoneLost, PoolRuns,
       RefersToSpawned, Blank, DisposalMarked, Spawned, Alive, Idle, TypeOK
<1>10. SparesBusy
  BY <1>2, <1>3 DEF SparesBusy, Only
<1> QED
  BY <1>10, <1>6, <1>7, <1>8, <1>9 DEF IInv

(* The end of an idle countdown keeps the invariant.                       *)
LEMMA ReapStep == ASSUME IInv, NEW c \in Conns, Reap(c) PROVE IInv' /\ SparesBusy
<1> DEFINE k == [conn[c] EXCEPT !.disposing = TRUE]
<1>1. /\ conn[c] \in Conn /\ timers' = timers \ {c}
      /\ UNCHANGED <<reapply, req, auth, prov, closed>>
  BY DEF Reap, IInv, TypeOK
<1>2. ASSUME UNCHANGED <<conn, pool, tracked>> PROVE IInv'
  <2>1. TypeOK' /\ Quiet
    BY <1>1, <1>2 DEF IInv, TypeOK, Quiet
  <2>2. Lists'
    BY <1>1, <1>2 DEF IInv, TypeOK, Lists, CountdownOnlyIdle, NoneLost, PoolRuns,
       RefersToSpawned, Blank, DisposalMarked, Spawned, Alive, Idle
  <2> QED
    BY <2>1, <2>2, QuietStep DEF IInv
<1>3. ASSUME c \in pool /\ DisposeAndDrop(c) PROVE IInv'
  <2>1. conn' = [conn EXCEPT ![c] = k] /\ k \in Conn
    BY <1>1, <1>3 DEF DisposeAndDrop, Conn
  <2>2. Only(c) /\ conn'[c] = k
    BY <2>1 DEF Only, IInv, TypeOK
  <2>3. /\ k.phase = conn[c].phase /\ k.active = conn[c].active
        /\ k.reserved = conn[c].reserved /\ k.recycle = conn[c].recycle
    BY <1>1 DEF Conn
  <2> HIDE DEF k
  <2>4. TypeOK' /\ Quiet
    BY <1>1, <1>3, <2>1, <2>2, <2>3 DEF IInv, TypeOK, Quiet, Only, DisposeAndDrop
  <2>5. Lists'
    <3>1. Spawned(c)
      BY <1>3 DEF IInv, Lists, PoolRuns, Alive, Spawned, Living, Starting
    <3> QED
      BY <1>1, <1>3, <2>2, <2>3, <3>1 DEF IInv, TypeOK, Only, DisposeAndDrop, Lists,
         CountdownOnlyIdle, NoneLost, PoolRuns, RefersToSpawned, Blank, DisposalMarked,
         Spawned, Alive, Idle
  <2> QED
    BY <2>4, <2>5, QuietStep DEF IInv
<1>4. SparesBusy
  <2>1. CASE UNCHANGED conn
    BY <2>1 DEF SparesBusy
  <2>2. CASE Idle(c) /\ DisposeAndDrop(c)
    <3>1. \A d \in Conns : /\ conn'[d].active = conn[d].active
                          /\ (d # c => conn'[d].disposing = conn[d].disposing)
      BY <2>2 DEF DisposeAndDrop, IInv, TypeOK, Conn
    <3> QED
      BY <2>2, <3>1 DEF SparesBusy, Idle
  <2> QED
    BY <2>1, <2>2 DEF Reap
<1> QED
  BY <1>4, <1>2, <1>3 DEF Reap

(* The death of a process and of its descendants keep the invariant.       *)
LEMMA DieStep ==
  ASSUME IInv, NEW c \in Conns, Die(c) \/ DisposalSettles(c) PROVE IInv' /\ SparesBusy
<1> PICK phase \in {"exited", "gone"} : conn' = [conn EXCEPT ![c].phase = phase]
  BY DEF Die, DisposalSettles
<1> DEFINE k == [conn[c] EXCEPT !.phase = phase]
<1>1. conn[c] \in Conn /\ Spawned(c)
  BY DEF Die, DisposalSettles, Alive, Living, Starting, Spawned, IInv, TypeOK
<1>2. conn' = [conn EXCEPT ![c] = k] /\ k \in Conn
  BY <1>1 DEF Conn, Phases
<1>3. Only(c) /\ conn'[c] = k
  BY <1>2 DEF Only, IInv, TypeOK
<1>4. /\ k.phase = phase /\ k.active = conn[c].active
      /\ k.reserved = conn[c].reserved /\ k.recycle = conn[c].recycle
      /\ k.disposing = conn[c].disposing
  BY <1>1 DEF Conn
<1> HIDE DEF k
<1>5. /\ UNCHANGED <<reapply, req, auth, prov, closed>>
      /\ c \notin pool' /\ \A d \in pool' : d \in pool
      /\ \A d \in pool : d # c => d \in pool'
      /\ c \notin timers' /\ \A d \in timers' : d \in timers
      /\ \A d \in tracked' : d \in tracked
      /\ \A d \in tracked : d # c => d \in tracked'
  BY DEF Die, DisposalSettles, IInv, Lists, PoolRuns, CountdownOnlyIdle, Alive, Living, Starting
<1>6. TypeOK' /\ Quiet
  BY <1>3, <1>4, <1>5 DEF IInv, TypeOK, Quiet, Only
<1>7. Lists'
  BY <1>1, <1>3, <1>4, <1>5 DEF IInv, TypeOK, Only, Lists, CountdownOnlyIdle, NoneLost,
     PoolRuns, RefersToSpawned, Blank, DisposalMarked, Spawned, Alive, Idle, Living, Starting
<1>8. SparesBusy
  BY <1>3, <1>4 DEF SparesBusy, Only
<1> QED
  BY <1>8, <1>6, <1>7, QuietStep DEF IInv

(* Marking a connection for neither recycling nor disposal changes nothing. *)
LEMMA NothingMarked ==
  ASSUME NEW k \in Conn, NEW b, NEW e, ~b, ~e
  PROVE  /\ [k EXCEPT !.recycle = @ \/ b, !.disposing = @ \/ e] = k
         /\ [k EXCEPT !.disposing = @ \/ e] = k
<1>1. (k.recycle \/ b) = k.recycle /\ (k.disposing \/ e) = k.disposing
  BY DEF Conn
<1>2. [k EXCEPT !.recycle = k.recycle, !.disposing = k.disposing] = k
  BY DEF Conn
<1>3. [k EXCEPT !.disposing = k.disposing] = k
  BY DEF Conn
<1> QED
  BY <1>1, <1>2, <1>3

(* dispose() keeps the invariant.                                          *)
LEMMA DisposeStep == ASSUME IInv, Dispose \/ DisposeResolves PROVE IInv' /\ SparesBusy
<1>1. ASSUME DisposeResolves PROVE IInv'
  <2>1. TypeOK' /\ Quiet
    BY <1>1 DEF DisposeResolves, IInv, TypeOK, Quiet
  <2>2. Lists'
    BY <1>1 DEF DisposeResolves, IInv, Lists, CountdownOnlyIdle, NoneLost, PoolRuns,
       RefersToSpawned, Blank, DisposalMarked, Spawned, Alive, Idle
  <2> QED
    BY <2>1, <2>2, QuietStep DEF IInv
<1>2. ASSUME Dispose PROVE IInv'
  <2>1. \A d \in Conns : /\ conn'[d] \in Conn
                        /\ conn'[d].phase = conn[d].phase /\ conn'[d].active = conn[d].active
                        /\ conn'[d].reserved = conn[d].reserved
    <3> SUFFICES ASSUME NEW d \in Conns
                 PROVE  /\ conn'[d] \in Conn
                        /\ conn'[d].phase = conn[d].phase /\ conn'[d].active = conn[d].active
                        /\ conn'[d].reserved = conn[d].reserved
      OBVIOUS
    <3> DEFINE b == conn[d].disposing \/ d \in pool
    <3>1. conn'[d] = [conn[d] EXCEPT !.disposing = b] /\ conn[d] \in Conn
      BY <1>2 DEF Dispose, IInv, TypeOK
    <3>2. b \in BOOLEAN
      OBVIOUS
    <3> HIDE DEF b
    <3> QED
      BY <3>1, <3>2 DEF Conn
  <2>2. \A d \in Conns : d \notin pool => conn'[d] = conn[d]
    BY <1>2 DEF Dispose, IInv, TypeOK, Conn
  <2>3. conn' \in [Conns -> Conn]
    BY <1>2, <2>1 DEF Dispose
  <2>4. /\ UNCHANGED <<reapply, req, auth, prov>> /\ closed' = "closing"
        /\ tracked' = tracked \cup pool /\ pool' = {} /\ timers' = {}
    BY <1>2 DEF Dispose
  <2>5. TypeOK' /\ Quiet
    BY <2>1, <2>3, <2>4 DEF IInv, TypeOK, Quiet
  <2>6. Lists'
    <3>1. \A d \in Conns : ~Spawned(d) => d \notin pool
      BY DEF IInv, Lists, PoolRuns, Alive, Living, Starting, Spawned
    <3> QED
      BY <2>1, <2>2, <2>4, <3>1 DEF IInv, TypeOK, Lists, CountdownOnlyIdle, NoneLost, PoolRuns,
         RefersToSpawned, Blank, DisposalMarked, Spawned, Alive
  <2> QED
    BY <2>5, <2>6, QuietStep DEF IInv
<1>3. SparesBusy
  BY DEF SparesBusy, Dispose, DisposeResolves
<1> QED
  BY <1>3, <1>1, <1>2

(* What a reconciliation does: it marks connections, takes idle ones out   *)
(* of the list, and starts authenticate replays of connections in it.      *)
LEMMA ReconciledFacts ==
  ASSUME IInv, NEW a, NEW p
  PROVE  /\ Reconciled(a, p) \in [Conns -> Conn]
         /\ \A d \in Conns :
              LET k == Reconciled(a, p)[d] IN
              /\ k.phase = conn[d].phase /\ k.active = conn[d].active
              /\ k.reserved = conn[d].reserved
              /\ (conn[d].recycle => k.recycle)
              /\ (k.disposing => (conn[d].disposing \/ d \in Discarded(a, p)))
              /\ (d \notin pool => k = conn[d])
         /\ Discarded(a, p) \subseteq pool /\ Relogged(a, p) \subseteq pool
         /\ \A d \in Discarded(a, p) : Idle(d)
<1>1. Stale(a, p) \subseteq pool
  BY DEF Stale
<1>2. /\ Discarded(a, p) \subseteq pool /\ Relogged(a, p) \subseteq pool
      /\ Drained(a, p) \subseteq pool
      /\ \A d \in Discarded(a, p) : Idle(d)
  BY <1>1 DEF Discarded, Relogged, Drained
<1>3. ASSUME NEW d \in Conns
      PROVE  LET k == Reconciled(a, p)[d] IN
             /\ k \in Conn
             /\ k.phase = conn[d].phase /\ k.active = conn[d].active
             /\ k.reserved = conn[d].reserved
             /\ k.recycle = (conn[d].recycle \/ d \in Drained(a, p))
             /\ k.disposing = (conn[d].disposing \/ d \in Discarded(a, p))
             /\ (d \notin pool => k = conn[d])
  <2> DEFINE k == [conn[d] EXCEPT !.recycle = @ \/ d \in Drained(a, p),
                                  !.disposing = @ \/ d \in Discarded(a, p)]
  <2>1. Reconciled(a, p)[d] = k /\ conn[d] \in Conn
    BY DEF Reconciled, IInv, TypeOK
  <2>2. /\ k \in Conn
        /\ k.phase = conn[d].phase /\ k.active = conn[d].active
        /\ k.reserved = conn[d].reserved
        /\ k.recycle = (conn[d].recycle \/ d \in Drained(a, p))
        /\ k.disposing = (conn[d].disposing \/ d \in Discarded(a, p))
    BY <2>1 DEF Conn
  <2>3. d \notin pool => k = conn[d]
    <3>1. d \notin pool => (d \notin Drained(a, p) /\ d \notin Discarded(a, p))
      BY <1>2
    <3> QED
      BY <2>1, <3>1, NothingMarked
  <2> QED
    BY <2>1, <2>2, <2>3
<1>4. Reconciled(a, p) \in [Conns -> Conn]
  BY <1>3 DEF Reconciled
<1> QED
  BY <1>2, <1>3, <1>4

(* Replays are started for connections of the list only.                   *)
LEMMA ReloggingFacts ==
  ASSUME IInv, NEW a, NEW p, Relogging(a, p)
  PROVE  /\ reapply' \in [Conns -> Nat]
         /\ \A d \in Conns : reapply'[d] > 0 => (reapply[d] > 0 \/ d \in pool)
BY ReconciledFacts DEF Relogging, IInv, TypeOK

(* recycle() keeps the invariant.                                          *)
LEMMA RecycleStep ==
  ASSUME IInv, NEW a \in [known : BOOLEAN, gen : Nat, inProcess : BOOLEAN], NEW p \in Nat,
         Recycle(a, p)
  PROVE  IInv' /\ SparesBusy
<1>1. /\ conn' \in [Conns -> Conn]
      /\ \A d \in Conns :
           /\ conn'[d].phase = conn[d].phase /\ conn'[d].active = conn[d].active
           /\ conn'[d].reserved = conn[d].reserved
           /\ (conn[d].recycle => conn'[d].recycle)
           /\ (conn'[d].disposing => (conn[d].disposing \/ d \in Discarded(a, p)))
           /\ (d \notin pool => conn'[d] = conn[d])
      /\ Discarded(a, p) \subseteq pool
  BY ReconciledFacts DEF Recycle
<1>2. /\ reapply' \in [Conns -> Nat]
      /\ \A d \in Conns : reapply'[d] > 0 => (reapply[d] > 0 \/ d \in pool)
  BY ReloggingFacts DEF Recycle
<1>3. /\ pool' = pool \ Discarded(a, p) /\ timers' = timers \ Discarded(a, p)
      /\ tracked' = tracked \cup Discarded(a, p)
      /\ auth' = a /\ prov' = p /\ UNCHANGED <<req, closed>>
  BY DEF Recycle
<1>4. TypeOK' /\ Quiet
  BY <1>1, <1>2, <1>3 DEF IInv, TypeOK, Quiet
<1>5. Lists'
  <2>1. \A d \in pool : Spawned(d) /\ d \in Conns
    BY DEF IInv, TypeOK, Lists, PoolRuns, Alive, Living, Starting, Spawned
  <2> QED
    BY SMTT(30), <1>1, <1>2, <1>3, <2>1 DEF IInv, TypeOK, Lists, CountdownOnlyIdle, NoneLost, PoolRuns,
       RefersToSpawned, Blank, DisposalMarked, Spawned, Alive, Idle
<1>6. SparesBusy
  BY <1>1, ReconciledFacts DEF SparesBusy, Idle
<1> QED
  BY <1>6, <1>4, <1>5, QuietStep DEF IInv

(* What selectConnection returns: a running connection that nobody has     *)
(* marked, or a new one; without a reservation, for an injected run.       *)
LEMMA Selection ==
  ASSUME IInv, NEW r \in Reqs, NEW injected \in BOOLEAN, Acquire(r, injected)
  PROVE  \E c \in Conns, before \in Conn :
           /\ Occupy(r, c, injected, before)
           /\ before.active = conn[c].active /\ before.reserved = conn[c].reserved
           /\ ~before.disposing /\ before.phase \in Living
           /\ (injected => ~conn[c].reserved)
           /\ c \notin Discarded(auth, prov)
<1>1. CASE Shares(injected)
  <2>1. PICK c \in LeastLoaded(Eligible(injected)) : Occupy(r, c, injected, conn[c])
    BY <1>1 DEF Acquire
  <2>2. /\ c \in pool /\ Alive(c) /\ ~conn[c].recycle /\ (injected => ~conn[c].reserved)
        /\ ~AuthStale(c, auth) /\ ~ProvStale(c, prov)
    BY DEF LeastLoaded, Eligible, Usable
  <2>3. c \in Conns /\ conn[c] \in Conn
    BY <2>2 DEF IInv, TypeOK
  <2>4. ~conn[c].disposing
    BY <2>2 DEF IInv, Lists, DisposalMarked
  <2>5. c \notin Discarded(auth, prov)
    BY <2>2 DEF Discarded
  <2> QED
    BY <2>1, <2>2, <2>3, <2>4, <2>5 DEF Alive
<1>2. CASE ~Shares(injected)
  <2> DEFINE before == [NoProcess EXCEPT !.phase = "shake"]
  <2>1. PICK c \in NextSpawn : Occupy(r, c, injected, before)
    BY <1>2 DEF Acquire
  <2>2. c \in Conns /\ ~Spawned(c)
    BY DEF NextSpawn, Spawned
  <2>3. conn[c] = NoProcess
    BY <2>2 DEF IInv, Lists, Blank
  <2>4. c \notin pool
    BY <2>2 DEF IInv, Lists, PoolRuns, Alive, Spawned, Living, Starting
  <2>5. c \notin Discarded(auth, prov)
    BY <2>4 DEF Discarded, Stale
  <2>6. NoProcess \in Conn /\ ~NoProcess.reserved /\ ~NoProcess.disposing
    BY DEF NoProcess, Conn, Phases
  <2>7. /\ before \in Conn /\ before.active = NoProcess.active
        /\ before.reserved = NoProcess.reserved /\ before.disposing = NoProcess.disposing
        /\ before.phase = "shake"
    BY <2>6 DEF Conn, Phases, Living, Starting
  <2> HIDE DEF before
  <2> QED
    BY <2>1, <2>2, <2>3, <2>5, <2>6, <2>7 DEF Living, Starting
<1> QED
  BY <1>1, <1>2

(* acquirePrepared keeps the invariant.                                    *)
LEMMA AcquireStep ==
  ASSUME IInv, NEW r \in Reqs, NEW injected \in BOOLEAN, Acquire(r, injected) PROVE IInv' /\ SparesBusy
<1>1. PICK c \in Conns, before \in Conn :
        /\ Occupy(r, c, injected, before)
        /\ before.active = conn[c].active /\ before.reserved = conn[c].reserved
        /\ ~before.disposing /\ before.phase \in Living
        /\ (injected => ~conn[c].reserved)
        /\ c \notin Discarded(auth, prov)
  BY Selection
<1> DEFINE k == [before EXCEPT !.active = @ + 1, !.reserved = @ \/ injected]
           gone == Discarded(auth, prov)
<1>2. /\ conn' = [Reconciled(auth, prov) EXCEPT ![c] = k]
      /\ pool' = (pool \ gone) \cup {c}
      /\ timers' = timers \ ({c} \cup gone) /\ tracked' = tracked \cup gone
      /\ req' = [req EXCEPT ![r] = [phase |-> "opening", conn |-> c, injected |-> injected]]
      /\ UNCHANGED <<auth, prov, closed>>
  BY <1>1 DEF Occupy, Cancelled
<1>3. /\ k \in Conn /\ k.active = conn[c].active + 1
      /\ k.reserved = (conn[c].reserved \/ injected)
      /\ ~k.disposing /\ k.phase \in Living
  <2>1. /\ before.active \in Nat /\ before.reserved \in BOOLEAN
        /\ k.active = before.active + 1 /\ k.reserved = (before.reserved \/ injected)
        /\ k.disposing = before.disposing /\ k.phase = before.phase
    BY DEF Conn
  <2>2. k \in Conn
    <3> DEFINE n == before.active + 1
               b == before.reserved \/ injected
    <3>1. n \in Nat /\ b \in BOOLEAN
      BY <2>1
    <3>2. k = [before EXCEPT !.active = n, !.reserved = b]
      OBVIOUS
    <3> HIDE DEF n, b
    <3> QED
      BY <3>1, <3>2 DEF Conn
  <2> HIDE DEF k
  <2> QED
    BY <1>1, <2>1, <2>2
<1> HIDE DEF k, gone
<1>4. /\ conn' \in [Conns -> Conn] /\ conn'[c] = k
      /\ \A d \in Conns \ {c} :
           /\ conn'[d].phase = conn[d].phase /\ conn'[d].active = conn[d].active
           /\ conn'[d].reserved = conn[d].reserved
           /\ (conn[d].recycle => conn'[d].recycle)
           /\ (conn'[d].disposing => (conn[d].disposing \/ d \in gone))
           /\ (d \notin pool => conn'[d] = conn[d])
      /\ gone \subseteq pool
  BY <1>2, <1>3, ReconciledFacts DEF gone
<1>5. /\ reapply' \in [Conns -> Nat]
      /\ \A d \in Conns : reapply'[d] > 0 => (reapply[d] > 0 \/ d \in pool)
  BY <1>1, ReloggingFacts DEF Occupy
<1>6. /\ \A s \in Reqs : s # r => req'[s] = req[s]
      /\ req'[r].phase = "opening" /\ req'[r].conn = c /\ req'[r].injected = injected
      /\ req[r].phase = "idle"
  BY <1>2 DEF IInv, TypeOK, Acquire
<1>7. TypeOK'
  <2>1. req' \in [Reqs -> [phase : ReqPhases, conn : Conns \cup {NoConn}, injected : BOOLEAN]]
    BY <1>2 DEF IInv, TypeOK, ReqPhases
  <2> QED
    BY <1>2, <1>4, <1>5, <2>1 DEF IInv, TypeOK
<1>8. SlotsCounted'
  <2> SUFFICES ASSUME NEW d \in Conns PROVE conn'[d].active = Cardinality(Holders(d)')
    BY DEF SlotsCounted
  <2>1. CASE d = c
    <3>1. Holders(c)' = Holders(c) \cup {r} /\ r \notin Holders(c)
      BY <1>6 DEF Holders
    <3>2. Cardinality(Holders(c)') = Cardinality(Holders(c)) + 1
      BY <3>1, HoldersFinite, FS_AddElement
    <3> QED
      BY <1>3, <1>4, <2>1, <3>2 DEF IInv, SlotsCounted
  <2>2. CASE d # c
    <3>1. Holders(d)' = Holders(d)
      BY <1>6, <2>2 DEF Holders
    <3> QED
      BY <1>4, <2>2, <3>1 DEF IInv, SlotsCounted
  <2> QED
    BY <2>1, <2>2
<1>9. ReservedByOne'
  <2> SUFFICES ASSUME NEW d \in Conns
               PROVE  /\ \A s, t \in InjectedRuns(d)' : s = t
                      /\ conn'[d].reserved <=> InjectedRuns(d)' # {}
    BY DEF ReservedByOne
  <2>1. /\ \A s, t \in InjectedRuns(d) : s = t
        /\ conn[d].reserved <=> InjectedRuns(d) # {}
    BY DEF IInv, ReservedByOne
  <2>2. CASE d = c /\ injected
    <3>1. InjectedRuns(d)' = InjectedRuns(d) \cup {r}
      BY <1>6, <2>2 DEF InjectedRuns
    <3>2. InjectedRuns(d) = {}
      BY <1>1, <2>1, <2>2
    <3> QED
      BY <1>3, <1>4, <2>2, <3>1, <3>2
  <2>3. CASE ~(d = c /\ injected)
    <3>1. InjectedRuns(d)' = InjectedRuns(d)
      BY <1>6, <2>3 DEF InjectedRuns
    <3>2. conn'[d].reserved <=> conn[d].reserved
      BY <1>3, <1>4, <2>3
    <3> QED
      BY <2>1, <3>1, <3>2
  <2> QED
    BY <2>2, <2>3
<1>10. Lists'
  <2>1. \A d \in pool : Spawned(d) /\ d \in Conns
    BY DEF IInv, TypeOK, Lists, PoolRuns, Alive, Living, Starting, Spawned
  <2>2. k.phase # "none" /\ c # NoConn
    BY <1>3 DEF Living, Starting, Conns, NoConn
  <2>3. CountdownOnlyIdle' /\ NoneLost' /\ PoolRuns' /\ DisposalMarked'
    BY <1>1, <1>2, <1>3, <1>4, <2>1 DEF IInv, TypeOK, Lists, CountdownOnlyIdle, NoneLost, PoolRuns,
       DisposalMarked, Alive, Idle
  <2>4. \A d \in Conns : Spawned(d) => Spawned(d)'
    BY <1>4, <2>2 DEF Spawned
  <2>5. Spawned(c)'
    BY <1>4, <2>2 DEF Spawned
  <2>6. RefersToSpawned'
    BY <1>5, <1>6, <2>1, <2>2, <2>4, <2>5 DEF IInv, TypeOK, Lists, RefersToSpawned
  <2>7. Blank'
    BY <1>4, <2>1, <2>4, <2>5 DEF IInv, Lists, Blank
  <2> QED
    BY <2>3, <2>6, <2>7 DEF Lists
<1>11. SparesBusy
  <2>1. \A d \in gone : conn[d].active = 0
    BY ReconciledFacts DEF gone, Idle
  <2> QED
    BY <1>3, <1>4, <2>1 DEF SparesBusy
<1> QED
  BY <1>11, <1>7, <1>8, <1>9, <1>10 DEF IInv

(* Every step keeps the invariant and spares connections in use.           *)
LEMMA NextInv == ASSUME IInv, [Next]_vars PROVE IInv' /\ (SparesBusy \/ UNCHANGED vars)
<1>1. CASE \E r \in Reqs, injected \in BOOLEAN : Acquire(r, injected)
  BY <1>1, AcquireStep
<1>2. CASE \E r \in Reqs : Opened(r) \/ OpenFails(r) \/ Freed(r) \/ Quarantine(r)
  BY <1>2, OpenedStep, OpenFailsStep, FreedStep, QuarantineStep
<1>3. CASE \E r \in Reqs, dirty \in BOOLEAN : Closed(r, dirty)
  BY <1>3, ClosedStep
<1>4. CASE \E c \in Conns : Startup(c) \/ StartFails(c) \/ Reapplied(c) \/ ReapplyFails(c)
  BY <1>4, StartupStep, ReapplyStep
<1>5. CASE \E c \in Conns : Reap(c) \/ Die(c) \/ DisposalSettles(c)
  BY <1>5, ReapStep, DieStep
<1>6. CASE Dispose \/ DisposeResolves
  BY <1>6, DisposeStep
<1>7. ASSUME NEW inProcess \in BOOLEAN, Authenticate(inProcess) PROVE IInv' /\ SparesBusy
  <2> DEFINE a == [known |-> TRUE, gen |-> auth.gen + 1, inProcess |-> inProcess]
  <2>1. a \in [known : BOOLEAN, gen : Nat, inProcess : BOOLEAN] /\ prov \in Nat
    BY DEF IInv, TypeOK
  <2>2. Recycle(a, prov)
    BY <1>7 DEF Authenticate
  <2> HIDE DEF a
  <2> QED
    BY <2>1, <2>2, RecycleStep
<1>8. CASE SetProvider
  BY <1>8, RecycleStep DEF SetProvider, IInv, TypeOK
<1>9. ASSUME UNCHANGED vars PROVE IInv'
  <2>1. TypeOK' /\ Quiet
    BY <1>9 DEF vars, IInv, TypeOK, Quiet
  <2>2. Lists'
    BY <1>9 DEF vars, IInv, Lists, CountdownOnlyIdle, NoneLost, PoolRuns,
       RefersToSpawned, Blank, DisposalMarked, Spawned, Alive, Idle
  <2> QED
    BY <2>1, <2>2, QuietStep DEF IInv
<1> QED
  BY <1>1, <1>2, <1>3, <1>4, <1>5, <1>6, <1>7, <1>8, <1>9 DEF Next, Release

(* Every reachable state of the pool satisfies the inductive invariant.    *)
THEOREM InductiveInvariant == Spec => []IInv
<1>1. IInv /\ [Next]_vars => IInv'
  BY NextInv
<1> QED
  BY InitInv, <1>1, PTL DEF Spec

(* The type invariant of the pool; a slot is never given back twice        *)
(* (activeSessions is a natural number).                                   *)
THEOREM TypeCorrect == Spec => []TypeOK
<1>1. IInv => TypeOK
  BY DEF IInv
<1> QED
  BY InductiveInvariant, <1>1, PTL

(* activeSessions is the number of sessions a connection has or is         *)
(* opening, through failures, crashes and recycling.                       *)
THEOREM LoadIsCounted == Spec => []SlotsCounted
<1>1. IInv => SlotsCounted
  BY DEF IInv
<1> QED
  BY InductiveInvariant, <1>1, PTL

(* selectConnection and releaseSelection: one injected run per process,    *)
(* and the reservation lasts exactly as long as the run.                   *)
THEOREM ReservationExclusive == Spec => []ReservedByOne
<1>1. IInv => ReservedByOne
  BY DEF IInv
<1> QED
  BY InductiveInvariant, <1>1, PTL

(* scheduleElasticReap and cancelElasticReap: no idle countdown runs on a  *)
(* connection in use.                                                      *)
THEOREM CountdownsAreIdle == Spec => []CountdownOnlyIdle
<1>1. IInv => CountdownOnlyIdle
  BY DEF IInv, Lists
<1> QED
  BY InductiveInvariant, <1>1, PTL

(* A live process is in the list or among the disposals in progress, hence *)
(* within the reach of dispose() and of a forced kill.                     *)
THEOREM NoProcessLost == Spec => []NoneLost
<1>1. IInv => NoneLost
  BY DEF IInv, Lists
<1> QED
  BY InductiveInvariant, <1>1, PTL

(* reconcileStale, reap, quarantine and release dispose of a connection    *)
(* only when nobody uses it, and nobody gets it afterwards; only a failed  *)
(* authenticate replay may dispose of a connection in use.                 *)
THEOREM BusySpared == Spec => DisposalSparesBusy
<1> DEFINE A == \A c \in Conns :
                 conn'[c].disposing /\ conn'[c].active > 0 /\ closed' = "open"
                   => (conn[c].disposing /\ conn[c].active > 0) \/ reapply[c] > 0
<1>1. IInv /\ [Next]_vars => [A]_vars
  BY NextInv DEF SparesBusy
<1> QED
  BY InductiveInvariant, <1>1, PTL DEF Spec, DisposalSparesBusy
=============================================================================
