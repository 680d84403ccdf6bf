------------------------------ MODULE AgentPool ------------------------------
(***************************************************************************)
(* AcpAgentPool (pool.ts) for one backend, with the PooledConnections it   *)
(* hands out (acp-client.ts) and the generations of the auth machine and   *)
(* of the provider store that gate it.                                     *)
(*                                                                         *)
(* One Node process: an action is what runs between two awaits.  What the  *)
(* awaits wait for -- the handshake, session/new, session/close, the       *)
(* authenticate replay, the exit of a child, a timer -- is an action of    *)
(* its own, and anything may happen before it.                             *)
(*                                                                         *)
(* A connection is the number of its spawn, which is also its place in the *)
(* pool's list.  Requests are callers of acquirePrepared; a caller has one *)
(* session at a time.                                                      *)
(***************************************************************************)
EXTENDS Integers, FiniteSets

CONSTANTS
  Reqs,       \* concurrent callers
  Size,       \* steady-state processes per backend
  MaxConns,   \* bound: processes spawned
  MaxAuth,    \* bound: completed authentications and logouts
  MaxProv,    \* bound: provider changes
  MaxReplays, \* bound: authenticate replays in flight on one connection
  Injected,   \* the kinds of run asked for: a subset of BOOLEAN
  Faulty      \* TRUE: processes crash, openings fail, sessions hang

ASSUME ReqsAssumption   == IsFiniteSet(Reqs)
ASSUME SizeAssumption   == Size \in Nat \ {0}
ASSUME BoundsAssumption == /\ MaxConns \in Nat /\ MaxAuth \in Nat
                           /\ MaxProv \in Nat /\ MaxReplays \in Nat
ASSUME InputAssumption  == Injected \subseteq BOOLEAN /\ Faulty \in BOOLEAN

Conns  == 1 .. MaxConns
NoConn == 0

(* shake: the initialize request is out; login: the authenticate replay;   *)
(* route: the providers/set replay; failed: `ready` was rejected, but the  *)
(* process runs; exited: the process is gone, its descendants are not.     *)
Starting == {"shake", "login", "route"}
Living   == Starting \cup {"ready", "failed"}
Phases   == Living \cup {"none", "exited", "gone"}

Conn == [phase : Phases, active : Nat, reserved : BOOLEAN,
         auth : Int,             \* authStamp.appliedGeneration
         prov : Nat,             \* providerStamp
         replay : Nat,           \* the generation applyProviderIntents has read
         recycle : BOOLEAN,      \* recyclePending
         disposing : BOOLEAN]

NoProcess == [phase |-> "none", active |-> 0, reserved |-> FALSE, auth |-> -1,
              prov |-> 0, replay |-> 0, recycle |-> FALSE, disposing |-> FALSE]
NoSession == [phase |-> "idle", conn |-> NoConn, injected |-> FALSE]

VARIABLES
  conn,
  pool,      \* byBackend.get(key)
  timers,    \* connections with an entry in elasticIdleTimers
  tracked,   \* disposingConnections
  reapply,   \* authenticate replays in flight on ready connections
  req,
  auth,      \* the BackendAuthMachine: existing(key), generation, klass
  prov,      \* the provider store's generation
  closed     \* disposed: "open", "closing", and "closed" when dispose() resolved

vars == <<conn, pool, timers, tracked, reapply, req, auth, prov, closed>>

ReqPhases == {"idle", "opening", "open", "freeing"}

TypeOK ==
  /\ conn \in [Conns -> Conn]
  /\ pool \subseteq Conns /\ timers \subseteq Conns /\ tracked \subseteq Conns
  /\ reapply \in [Conns -> Nat]
  /\ req \in [Reqs -> [phase : ReqPhases, conn : Conns \cup {NoConn}, injected : BOOLEAN]]
  /\ auth \in [known : BOOLEAN, gen : Nat, inProcess : BOOLEAN]
  /\ prov \in Nat
  /\ closed \in {"open", "closing", "closed"}

Init ==
  /\ conn = [c \in Conns |-> NoProcess]
  /\ pool = {} /\ timers = {} /\ tracked = {}
  /\ reapply = [c \in Conns |-> 0]
  /\ req = [r \in Reqs |-> NoSession]
  /\ auth = [known |-> FALSE, gen |-> 0, inProcess |-> FALSE]
  /\ prov = 0
  /\ closed = "open"

Alive(c) == conn[c].phase \in Living
Idle(c)  == conn[c].active = 0

-----------------------------------------------------------------------------
(* Reconciliation with the auth generation of machine a and the provider   *)
(* generation p: an idle stale connection logs in again if the credential  *)
(* is in-process and is disposed and dropped otherwise; a busy one is to   *)
(* be recycled when it drains.                                             *)

AuthStale(c, a) == a.known /\ conn[c].auth < a.gen
ProvStale(c, p) == conn[c].prov < p

Stale(a, p)      == {c \in pool : Alive(c) /\ (AuthStale(c, a) \/ ProvStale(c, p))}
Drained(a, p)    == {c \in Stale(a, p) : ~Idle(c)}
Relogged(a, p)   == {c \in Stale(a, p) : Idle(c) /\ AuthStale(c, a) /\ a.inProcess}

(* Mutant: a busy stale connection is disposed as well. *)
DiscardedBusy(a, p) ==
  {c \in Stale(a, p) : ProvStale(c, p) \/ (AuthStale(c, a) /\ ~a.inProcess)}

Discarded(a, p)  == {c \in Stale(a, p) :
                       Idle(c) /\ (ProvStale(c, p) \/ (AuthStale(c, a) /\ ~a.inProcess))}

Reconciled(a, p) ==
  [c \in Conns |-> [conn[c] EXCEPT !.recycle = @ \/ c \in Drained(a, p),
                                   !.disposing = @ \/ c \in Discarded(a, p)]]

Relogging(a, p) ==
  /\ \A c \in Relogged(a, p) : reapply[c] < MaxReplays
  /\ reapply' = [c \in Conns |-> reapply[c] + IF c \in Relogged(a, p) THEN 1 ELSE 0]

-----------------------------------------------------------------------------
(* selectConnection, and the slot that openPreparedSession takes before    *)
(* its first await.                                                        *)

Usable == {c \in pool : Alive(c) /\ ~conn[c].recycle
                        /\ ~AuthStale(c, auth) /\ ~ProvStale(c, prov)}

Eligible(injected) == {c \in Usable : injected => ~conn[c].reserved}

(* The first of the least loaded; an idle one is the least loaded. *)
LeastLoaded(S) ==
  {c \in S : \A d \in S :
                \/ conn[c].active < conn[d].active
                \/ conn[c].active = conn[d].active /\ c <= d}

Shares(injected) ==
  /\ Eligible(injected) # {}
  /\ \/ injected
     \/ \E c \in Usable : Idle(c)
     \/ Cardinality(Usable) >= Size

NextSpawn ==
  LET unspawned == {c \in Conns : conn[c].phase = "none"} IN
  {c \in unspawned : \A d \in unspawned : c <= d}

(* cancelElasticReap, by an admission. *)
Cancelled(c) == timers \ {c}

Occupy(r, c, injected, before) ==
  /\ conn' = [Reconciled(auth, prov) EXCEPT
                ![c] = [before EXCEPT !.active = @ + 1, !.reserved = @ \/ injected]]
  /\ pool' = (pool \ Discarded(auth, prov)) \cup {c}
  /\ timers' = Cancelled(c) \ Discarded(auth, prov)
  /\ tracked' = tracked \cup Discarded(auth, prov)
  /\ Relogging(auth, prov)
  /\ req' = [req EXCEPT ![r] = [phase |-> "opening", conn |-> c, injected |-> injected]]
  /\ UNCHANGED <<auth, prov, closed>>

Acquire(r, injected) ==
  /\ closed = "open" /\ req[r].phase = "idle" /\ injected \in Injected
  /\ IF Shares(injected)
       THEN \E c \in LeastLoaded(Eligible(injected)) : Occupy(r, c, injected, conn[c])
       ELSE \E c \in NextSpawn :
              Occupy(r, c, injected, [NoProcess EXCEPT !.phase = "shake"])

-----------------------------------------------------------------------------
(* initialize, applyAuthIntent, applyProviderIntents *)

(* The stamp is the machine's generation when the replay is done; the      *)
(* provider generation is read before its replay.                          *)
ToRoute(c, known) ==
  /\ auth' = [auth EXCEPT !.known = known]
  /\ conn' = [conn EXCEPT ![c].phase = "route", ![c].auth = auth.gen, ![c].replay = prov]

(* The first handshake of a backend creates its machine. *)
Shaken(c) ==
  /\ conn[c].phase = "shake"
  /\ IF auth.inProcess
       THEN /\ conn' = [conn EXCEPT ![c].phase = "login"]
            /\ UNCHANGED auth
       ELSE ToRoute(c, TRUE)
  /\ UNCHANGED <<pool, timers, tracked, reapply, req, prov, closed>>

LoggedIn(c) ==
  /\ conn[c].phase = "login"
  /\ ToRoute(c, auth.known)
  /\ UNCHANGED <<pool, timers, tracked, reapply, req, prov, closed>>

Routed(c) ==
  /\ conn[c].phase = "route"
  /\ conn' = [conn EXCEPT ![c].phase = "ready", ![c].prov = conn[c].replay]
  /\ UNCHANGED <<pool, timers, tracked, reapply, req, auth, prov, closed>>

(* An error answer; the process stays. *)
StartFails(c) ==
  /\ Faulty /\ conn[c].phase \in Starting
  /\ conn' = [conn EXCEPT ![c].phase = "failed"]
  /\ UNCHANGED <<pool, timers, tracked, reapply, req, auth, prov, closed>>

(* scheduleReapply: again the stamp is the generation read after the RPC. *)
Reapplied(c) ==
  /\ reapply[c] > 0 /\ conn[c].phase = "ready"
  /\ conn' = [conn EXCEPT ![c].auth = auth.gen]
  /\ reapply' = [reapply EXCEPT ![c] = @ - 1]
  /\ UNCHANGED <<pool, timers, tracked, req, auth, prov, closed>>

ReapplyFails(c) ==
  /\ reapply[c] > 0
  /\ conn' = [conn EXCEPT ![c].recycle = TRUE, ![c].disposing = @ \/ Alive(c)]
  /\ reapply' = [reapply EXCEPT ![c] = @ - 1]
  /\ UNCHANGED <<pool, timers, tracked, req, auth, prov, closed>>

-----------------------------------------------------------------------------
(* The session, and how its slot is given back *)

Opened(r) ==
  /\ req[r].phase = "opening" /\ conn[req[r].conn].phase = "ready"
  /\ req' = [req EXCEPT ![r].phase = "open"]
  /\ UNCHANGED <<conn, pool, timers, tracked, reapply, auth, prov, closed>>

(* Mutant: off by one. *)
SurplusOffByOne == Cardinality(pool) > Size + 1

(* connections.length > this.size *)
Surplus == Cardinality(pool) > Size

(* scheduleElasticReap, for a connection that will look like k. *)
Countdown(c, k) ==
  timers' = IF /\ closed = "open" /\ c \in pool /\ Surplus
               /\ k.phase \in Living /\ ~k.recycle /\ k.active = 0 /\ ~k.reserved
              THEN timers \cup {c} ELSE timers

(* Mutant: whoever leaves gives the reservation back. *)
UnreservedByAnyone(r, k) == [k EXCEPT !.reserved = FALSE]

(* releaseSelection of a connection that looked like k. *)
Unreserved(r, k) == [k EXCEPT !.reserved = @ /\ ~req[r].injected]

(* Mutant: the slot is kept. *)
SlotKept(k) == k

SlotFreed(k) == [k EXCEPT !.active = @ - 1]

(* `ready` rejected, prepare threw, session/new was refused. *)
OpenFails(r) ==
  LET c == req[r].conn
      k == Unreserved(r, SlotFreed(conn[c])) IN
  /\ req[r].phase = "opening" /\ conn[c].phase \notin Starting
  /\ Faulty \/ ~Alive(c)
  /\ conn' = [conn EXCEPT ![c] = k]
  /\ Countdown(c, k)
  /\ req' = [req EXCEPT ![r] = NoSession]
  /\ UNCHANGED <<pool, tracked, reapply, auth, prov, closed>>

(* releaseSession once session/close is over.  dirty: the agent could not  *)
(* clean up its children.                                                  *)
Closed(r, dirty) ==
  LET c == req[r].conn
      recycle == conn[c].recycle \/ dirty IN
  /\ req[r].phase = "open" /\ (dirty => Faulty /\ Alive(c))
  /\ LET active == IF Idle(c) THEN 0 ELSE conn[c].active - 1 IN
       conn' = [conn EXCEPT ![c].active = active, ![c].recycle = recycle,
                  ![c].disposing = @ \/ (recycle /\ active = 0 /\ Alive(c))]
  /\ req' = [req EXCEPT ![r].phase = "freeing"]
  /\ UNCHANGED <<pool, timers, tracked, reapply, auth, prov, closed>>

(* onReleased, one await later. *)
Freed(r) ==
  LET c == req[r].conn
      k == Unreserved(r, conn[c]) IN
  /\ req[r].phase = "freeing"
  /\ conn' = [conn EXCEPT ![c] = k]
  /\ Countdown(c, k)
  /\ req' = [req EXCEPT ![r].phase = "idle", ![r].injected = FALSE]
  /\ UNCHANGED <<pool, tracked, reapply, auth, prov, closed>>

(* quarantineAfterIgnoredCancel: the turn that r cancelled hangs; r may    *)
(* have released its session by then.                                      *)
Quarantine(r) ==
  LET c == req[r].conn IN
  /\ Faulty /\ req[r].phase # "opening" /\ c # NoConn
  /\ conn' = [conn EXCEPT ![c].recycle = TRUE,
                          ![c].disposing = @ \/ (Idle(c) /\ Alive(c))]
  /\ UNCHANGED <<pool, timers, tracked, reapply, req, auth, prov, closed>>

-----------------------------------------------------------------------------
(* Disposal and death *)

(* Mutant: a dropped connection is not remembered. *)
DisposeAndDropForgets(c) ==
  /\ conn' = [conn EXCEPT ![c].disposing = TRUE]
  /\ pool' = pool \ {c}
  /\ UNCHANGED tracked

DisposeAndDrop(c) ==
  /\ conn' = [conn EXCEPT ![c].disposing = TRUE]
  /\ pool' = pool \ {c}
  /\ tracked' = tracked \cup {c}

(* The keep-alive of a surplus connection ends. *)
Reap(c) ==
  /\ c \in timers
  /\ timers' = timers \ {c}
  /\ IF /\ c \in pool /\ Surplus /\ Alive(c)
        /\ ~conn[c].recycle /\ Idle(c) /\ ~conn[c].reserved
       THEN DisposeAndDrop(c)
       ELSE UNCHANGED <<conn, pool, tracked>>
  /\ UNCHANGED <<reapply, req, auth, prov, closed>>

(* die, by a crash or by a disposal; the pool drops the connection.  Only  *)
(* a disposal has retained the descendants.                                *)
Die(c) ==
  /\ Alive(c) /\ (Faulty \/ conn[c].disposing)
  /\ conn' = [conn EXCEPT ![c].phase = IF conn[c].disposing THEN "exited" ELSE "gone"]
  /\ pool' = pool \ {c}
  /\ timers' = timers \ {c}
  /\ UNCHANGED <<tracked, reapply, req, auth, prov, closed>>

(* Mutant: a settled disposal stays in the set. *)
DisposalSettlesSilently(c) ==
  /\ conn[c].phase = "exited"
  /\ conn' = [conn EXCEPT ![c].phase = "gone"]
  /\ UNCHANGED <<pool, timers, tracked, reapply, req, auth, prov, closed>>

(* waitForRetainedDescendants *)
DisposalSettles(c) ==
  /\ conn[c].phase = "exited"
  /\ conn' = [conn EXCEPT ![c].phase = "gone"]
  /\ tracked' = tracked \ {c}
  /\ UNCHANGED <<pool, timers, reapply, req, auth, prov, closed>>

Dispose ==
  /\ closed = "open" /\ closed' = "closing"
  /\ conn' = [c \in Conns |-> [conn[c] EXCEPT !.disposing = @ \/ c \in pool]]
  /\ tracked' = tracked \cup pool
  /\ pool' = {} /\ timers' = {}
  /\ UNCHANGED <<reapply, req, auth, prov>>

DisposeResolves ==
  /\ closed = "closing" /\ tracked = {}
  /\ closed' = "closed"
  /\ UNCHANGED <<conn, pool, timers, tracked, reapply, req, auth, prov>>

-----------------------------------------------------------------------------
(* The host authenticates, logs out, or changes the provider routing, and  *)
(* the runner calls recycle in the same turn.                              *)

Recycle(a, p) ==
  /\ conn' = Reconciled(a, p)
  /\ pool' = pool \ Discarded(a, p)
  /\ timers' = timers \ Discarded(a, p)
  /\ tracked' = tracked \cup Discarded(a, p)
  /\ Relogging(a, p)
  /\ auth' = a /\ prov' = p
  /\ UNCHANGED <<req, closed>>

Authenticate(inProcess) ==
  /\ closed = "open" /\ auth.gen < MaxAuth
  /\ Recycle([known |-> TRUE, gen |-> auth.gen + 1, inProcess |-> inProcess], prov)

SetProvider ==
  /\ closed = "open" /\ prov < MaxProv
  /\ Recycle(auth, prov + 1)

-----------------------------------------------------------------------------
Startup(c) == Shaken(c) \/ LoggedIn(c) \/ Routed(c)

Release(r) == Opened(r) \/ OpenFails(r) \/ Closed(r, FALSE) \/ Freed(r)

Next ==
  \/ \E r \in Reqs : \/ \E injected \in BOOLEAN : Acquire(r, injected)
                     \/ Release(r) \/ Closed(r, TRUE) \/ Quarantine(r)
  \/ \E c \in Conns : \/ Startup(c) \/ StartFails(c)
                      \/ Reapplied(c) \/ ReapplyFails(c)
                      \/ Reap(c) \/ Die(c) \/ DisposalSettles(c)
  \/ Dispose \/ DisposeResolves
  \/ \E inProcess \in BOOLEAN : Authenticate(inProcess)
  \/ SetProvider

Spec == Init /\ [][Next]_vars

(* Handshakes and sessions end (they have deadlines, or die with their     *)
(* process), timers fire, and a disposed process dies: SIGKILL follows     *)
(* SIGTERM.  Nobody has to ask for a session or to dispose of the pool.    *)
Fairness ==
  /\ \A c \in Conns : /\ WF_vars(Startup(c)) /\ WF_vars(Reap(c))
                      /\ WF_vars(conn[c].disposing /\ Die(c))
                      /\ WF_vars(DisposalSettles(c))
  /\ \A r \in Reqs : WF_vars(Release(r))
  /\ WF_vars(DisposeResolves)

LiveSpec == Spec /\ Fairness

-----------------------------------------------------------------------------
(* Properties *)

Holders(c)      == {r \in Reqs : req[r].conn = c /\ req[r].phase \in {"opening", "open"}}
InjectedRuns(c) == {r \in Reqs : req[r].conn = c /\ req[r].phase # "idle" /\ req[r].injected}

(* activeSessions, by which the pool balances, drains and reaps, is the    *)
(* number of sessions the connection has or is opening, whichever way they *)
(* end: closed, refused, dead process, recycled connection.                *)
SlotsCounted ==
  \A c \in Conns : conn[c].active = Cardinality(Holders(c))

(* "one live injected run per process": no two injected runs share one,    *)
(* and a process is reserved exactly as long as its injected run, which    *)
(* gives the slot back one turn before the reservation.                    *)
ReservedByOne ==
  \A c \in Conns : /\ \A r, s \in InjectedRuns(c) : r = s
                   /\ conn[c].reserved <=> InjectedRuns(c) # {}

(* "A synchronous admission cancels the idle countdown before any await    *)
(* can let it fire": no countdown runs on a connection somebody uses.      *)
CountdownOnlyIdle ==
  \A c \in timers :
    c \in pool /\ (conn[c].recycle \/ (Idle(c) /\ ~conn[c].reserved))

(* No live process is lost to dispose() and forceKill(): it is in the list *)
(* or among the disposals in progress.                                     *)
NoneLost == \A c \in Conns : Alive(c) => c \in pool \cup tracked

(* Stale connections, surplus ones and ones marked for recycling are       *)
(* disposed of only when nobody uses them, and stay out of use afterwards: *)
(* while the pool is open, only the failure of an authenticate replay      *)
(* disposes of a process with a session.                                   *)
DisposalSparesBusy ==
  [][\A c \in Conns :
       conn'[c].disposing /\ conn'[c].active > 0 /\ closed' = "open"
         => (conn[c].disposing /\ conn[c].active > 0) \/ reapply[c] > 0]_vars

(* "Surplus idle processes are reaped": when nobody asks for sessions any  *)
(* more, the pool shrinks to its size.                                     *)
Warm == {c \in pool : ~conn[c].recycle /\ Idle(c) /\ ~conn[c].reserved}
ShrinksToSize ==
  []<>(Cardinality(Warm) <= Size \/ closed # "open" \/ \E r \in Reqs : req[r].phase # "idle")

(* dispose() resolves, whatever was in flight when it was called. *)
DisposeEnds == closed = "closing" ~> closed = "closed"

(* "concurrent acquires never over-spawn": with no injected run, and no    *)
(* change of credentials or routing, there are at most Size processes.     *)
NeverOverSpawns == auth.gen = 0 /\ prov = 0 => Cardinality(pool) <= Size
=============================================================================
