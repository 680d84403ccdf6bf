----------------------------- MODULE ReplBroker -----------------------------
(***************************************************************************)
(* The REPL broker (repl-engine/src/broker.ts): agent, queue and steer     *)
(* calls issued by guest code, the append-only call ledger (store.ts), the *)
(* lanes that run one turn of a session at a time under a workspace-wide   *)
(* cap, cancellation, the client-presence drain, and a crash followed by a *)
(* restore from the last flushed VM snapshot and reconcile().              *)
(*                                                                         *)
(* The ledger (led) is fsynced by each handler; the guest registry (vm) is *)
(* durable only up to the last flush (snap).  `w` is the broker's memory   *)
(* and is lost by a crash.  Handlers that call each other are operators on *)
(* the record [led, vm, ...] so that one action is one whole handler.      *)
(***************************************************************************)
EXTENDS Naturals, Sequences, FiniteSets

CONSTANTS Agents, Queues, Steers,  \* call ids, by the guest function that mints them
          Session,                 \* the founding agent call of a queue or steer call
          Cap,                     \* maxConcurrentAgents
          MaxCalls, MaxCrashes, MaxDrains,  \* bounds of the model
          None

Turns == Agents \cup Queues
Calls == Turns \cup Steers

ASSUME BrokerAssumption ==
    /\ Session \in [Queues \cup Steers -> Agents]
    /\ Agents \cap Queues = {} /\ Agents \cap Steers = {} /\ Queues \cap Steers = {}
    /\ Cap \in Nat \ {0}
    /\ MaxCalls \in Nat /\ MaxCrashes \in Nat /\ MaxDrains \in Nat
    /\ None \notin Calls

VARIABLES w,        \* ledger, guest registry and the broker's memory
          snap,     \* guest registry of the last flushed snapshot
          phase,    \* "live", or "restoring" (inside reconcile())
          todo,     \* restored pending calls reconcile() has not reached
          drain,    \* "off"; draining: "waiting", "cut", "stopped"; draining and drained:
                    \* "done"; draining, but a session was loaded after all: "warm"
          restored, \* history: turns that took a slot through reconcile()
          forced,   \* history: the bound of a drain has expired
          crashes, drains     \* counters of the bounds

vars == <<w, snap, phase, todo, drain, restored, forced, crashes, drains>>

Unborn == [rec |-> FALSE, seq |-> 0, sess |-> FALSE, handoff |-> FALSE, done |-> "none"]
NoLane == [st |-> "none", active |-> None, prompt |-> FALSE, cancelling |-> None,
           timer |-> FALSE, q |-> <<>>, ctl |-> <<>>, steering |-> FALSE]
NewLane(st) == [NoLane EXCEPT !.st = st]

\* A broker attached to ledger L, whose records were made in order O, and guest
\* registry V: everything else is empty.  reused and unsaved are history: calls
\* minted although the ledger had their record, and calls one of whose records
\* could not be written, with the calls that were rejected for it.
Attached(L, O, V) ==
    [led |-> L, order |-> O, vm |-> V, n |-> 0, adm |-> [c \in Calls |-> L[c].seq],
     lane |-> [a \in Agents |-> NoLane], turn |-> [q \in Queues |-> "none"],
     target |-> [s \in Steers |-> None], dq |-> {}, slots |-> {},
     task |-> [c \in Calls |-> "none"], sess |-> {}, stopped |-> {},
     relo |-> [a \in Agents |-> "none"], late |-> {}, mine |-> {},
     reused |-> {}, unsaved |-> {}]

Ran(s) == {s[i] : i \in DOMAIN s}
Without(s, c) ==
    IF c \notin Ran(s) THEN s
    ELSE LET i == CHOOSE j \in DOMAIN s : s[j] = c
         IN  SubSeq(s, 1, i - 1) \o SubSeq(s, i + 1, Len(s))
SessionOf(c) == IF c \in Agents THEN c ELSE Session[c]

-----------------------------------------------------------------------------
\* Ledger.

\* recordDispatched keeps the first record of a known id; the broker's own
\* admission counter advances in any case and starts at 0 in every process.
Record(v, c) ==
    [v EXCEPT !.n = @ + 1, !.adm[c] = v.n + 1,
              !.order = IF v.led[c].rec THEN @ ELSE Append(@, c),
              !.led[c] = IF @.rec THEN @ ELSE [Unborn EXCEPT !.rec = TRUE, !.seq = v.n + 1]]

\* Mutant: the guest is settled with the value at hand.
SettleOwn(v, c, o) ==
    [v EXCEPT !.led[c].done = IF @ = "none" THEN o ELSE @, !.vm[c] = o]

\* recordCompletion, then the guest settlement with whatever the ledger holds:
\* the first completion wins, a registry entry settles once.
SettleAll(v, S, o) ==
    LET L == [c \in Calls |-> IF c \in S /\ v.led[c].done = "none"
                              THEN [v.led[c] EXCEPT !.done = o] ELSE v.led[c]]
    IN  [v EXCEPT !.led = L,
                  !.vm = [c \in Calls |-> IF c \in S /\ v.vm[c] = "pending"
                                          THEN L[c].done ELSE v.vm[c]]]
SettleStored(v, c, o) == SettleAll(v, {c}, o)

\* refuse / refuseRecorded / settleControlSync: the completion is offered to the
\* ledger, and the guest call settles with the value at hand, not the ledger's.
SettleDirect(v, c, o) ==
    [v EXCEPT !.led[c].done = IF @ = "none" THEN o ELSE @, !.vm[c] = o]

\* Where the ledger has the record of c, and the calls of S as it lists them.
Pos(v, c) == CHOOSE i \in DOMAIN v.order : v.order[i] = c
InOrder(v, S) ==
    [i \in 1 .. Cardinality(S) |->
        CHOOSE c \in S : Cardinality({d \in S : Pos(v, d) < Pos(v, c)}) = i - 1]

-----------------------------------------------------------------------------
\* Lanes.

\* failQueuedTurns: the lane is fatal, every unsettled queued turn is rejected.
FailQueued(v, A) ==
    LET dead == {q \in Queues : /\ Session[q] \in A /\ q \in Ran(v.lane[Session[q]].q)
                                /\ v.turn[q] # "settled"}
        queued(a) == v.lane[a].active \in Queues
    IN  [SettleAll(v, dead, "reject") EXCEPT
            !.turn = [q \in Queues |-> IF q \in dead THEN "settled" ELSE v.turn[q]],
            !.slots = @ \ dead,
            !.lane = [a \in Agents |->
                IF a \notin A THEN v.lane[a]
                ELSE [v.lane[a] EXCEPT !.st = "fatal", !.q = <<>>,
                         !.active = IF queued(a) THEN None ELSE @,
                         !.prompt = @ /\ ~queued(a)]]]

\* markLaneFatal for the lanes of A, without the trailing scheduleAdmissions.
Quarantine(v, A) ==
    LET D == {a \in A : v.lane[a].st # "fatal"}
        active == {v.lane[a].active : a \in D} \ {None}
        controls == UNION {Ran(v.lane[a].ctl) : a \in D}
        u == [SettleAll(v, active \cup controls, "reject") EXCEPT
                 !.turn = [q \in Queues |-> IF q \in active THEN "settled" ELSE v.turn[q]],
                 !.slots = @ \ active]
        f == FailQueued(u, D)
    IN  [f EXCEPT !.sess = @ \ D,
            !.lane = [a \in Agents |->
                IF a \notin D THEN v.lane[a]
                ELSE [NoLane EXCEPT !.st = "fatal"]]]

\* markPersistenceFatal for the lanes of A, when the ledger writes for S failed: the
\* calls of these lanes are rejected in the guest only, and nothing is scheduled.
PersistenceFatal(v, A, S) ==
    LET D == {a \in A : v.lane[a].st # "none"}
        ids == UNION {({v.lane[a].active} \ {None}) \cup Ran(v.lane[a].q)
                          \cup Ran(v.lane[a].ctl) : a \in D}
        told == {c \in ids \cap Calls : v.vm[c] = "pending"}
    IN  [v EXCEPT
            !.vm = [c \in Calls |-> IF c \in told THEN "reject" ELSE @[c]],
            !.unsaved = @ \cup S \cup told,
            !.turn = [q \in Queues |-> IF q \in ids THEN "settled" ELSE @[q]],
            !.slots = @ \ ids, !.sess = @ \ D,
            !.lane = [a \in Agents |->
                IF a \notin D THEN @[a]
                ELSE [NoLane EXCEPT !.st = "fatal", !.cancelling = v.lane[a].cancelling,
                                    !.steering = v.lane[a].steering]]]

\* scheduleQueueReattach refuses a session it cannot load again.
CanReload(v, a) ==
    /\ a \notin v.sess /\ v.task[a] = "none" /\ v.vm[a] # "pending"
    /\ v.led[a].done # "none" /\ v.led[a].sess

Waiting(v, a) == v.lane[a].st = "released" /\ v.lane[a].q # <<>> /\ v.relo[a] = "none"

\* scheduleQueueReattach on every released lane with queued turns.
Reattach(v) ==
    LET need == {a \in Agents : Waiting(v, a)}
        u == Quarantine(v, {a \in need : ~CanReload(v, a)})
    IN  [u EXCEPT !.relo = [a \in Agents |-> IF a \in need /\ CanReload(v, a)
                                             THEN "fresh" ELSE v.relo[a]]]

\* Mutant: a queued turn starts while another turn of its session is running.
StartableAny(v, a) ==
    /\ v.lane[a].st = "usable" /\ v.lane[a].q # <<>>
    /\ v.turn[Head(v.lane[a].q)] = "pending" /\ a \in v.sess

Startable(v, a) ==
    LET l == v.lane[a] IN
    /\ l.st = "usable" /\ l.active = None /\ ~l.prompt /\ ~l.steering
    /\ l.ctl = <<>> /\ l.cancelling = None /\ l.q # <<>>
    /\ v.turn[Head(l.q)] = "pending" /\ a \in v.sess

\* Admissions are compared by sequence; a re-issue keeps the number of its record,
\* the numbers of a new process start at 1 again.  Between equal numbers a dispatch
\* wins over a queue head, and a dispatch pushed by reconcile() over a new one.
\* (Numbers that refusals, cancels and repeated records use up are left out, and
\* for the lane that was made first stands the turn that was recorded first.)
Age(v, c) == 4 * v.adm[c] + (IF c \in Queues THEN 2 ELSE 0) + (IF c \in v.mine THEN 1 ELSE 0)
Older(v, c, d) ==
    \/ Age(v, c) < Age(v, d)
    \/ Age(v, c) = Age(v, d) /\ Pos(v, c) < Pos(v, d)

\* Whether the candidate with so many older ones still gets a slot.
FitsLoosely(v, older) == older + Cardinality(v.slots) <= Cap  \* mutant
Fits(v, older) == older + Cardinality(v.slots) < Cap

\* scheduleAdmissions: a founding dispatch or one queue head per lane, oldest
\* admission first, while a slot is free.  Starting one candidate changes no
\* other's eligibility, so the loop starts the oldest that fit.
Ready(v) == v.dq \cup {Head(v.lane[a].q) : a \in {b \in Agents : Startable(v, b)}}
Chosen(v, ready) ==
    {c \in ready : Fits(v, Cardinality({d \in ready : Older(v, d, c)}))}

Started(v, go) ==
    [v EXCEPT
        !.dq = @ \ go, !.slots = @ \cup go,
        !.turn = [q \in Queues |-> IF q \in go THEN "active" ELSE @[q]],
        !.task = [c \in Calls |-> IF c \notin go THEN @[c]
                                  ELSE IF c \in Agents THEN "open" ELSE "prompt"],
        !.lane = [a \in Agents |->
            IF a \in go THEN [@[a] EXCEPT !.st = "opening", !.active = a]
            ELSE IF \E q \in go : q \in Queues /\ Session[q] = a
            THEN [@[a] EXCEPT !.active = Head(v.lane[a].q), !.prompt = TRUE]
            ELSE @[a]]]

StartReady(v) == Started(v, Chosen(v, Ready(v)))
Schedule(v, off) == IF off \/ ~Fits(v, 0) THEN v ELSE StartReady(Reattach(v))

MarkLaneFatal(v, a, off) ==
    IF v.lane[a].st = "fatal" THEN v ELSE Schedule(Quarantine(v, {a}), off)

\* processSteeringControls: the head control goes to the wire only if its target
\* turn is still the one being prompted; otherwise its task answers "idle".
ProcessSteering(v, a, off) ==
    LET l == v.lane[a] IN
    IF l.st \in {"none", "fatal"} \/ l.steering THEN v
    ELSE IF l.ctl = <<>> THEN Schedule(v, off)
    ELSE LET s == Head(l.ctl)
             hit == a \in v.sess /\ l.active = v.target[s] /\ l.prompt
         IN  [v EXCEPT !.lane[a].steering = TRUE,
                       !.task[s] = IF hit THEN "wire" ELSE "okay"]

\* The slot of a finished turn.  Mutant: not on a quarantined lane.
FreedIfUsable(v, c) == IF v.lane[SessionOf(c)].st = "fatal" THEN v.slots ELSE v.slots \ {c}
Freed(v, c) == v.slots \ {c}

\* onPublicTurnSettled.
TurnSettled(v, c, off) ==
    LET a == SessionOf(c)
        l == v.lane[a]
        u == [v EXCEPT
                !.slots = Freed(v, c),
                !.turn = [q \in Queues |-> IF q = c THEN "settled" ELSE v.turn[q]],
                !.lane[a] = [l EXCEPT
                    !.q = Without(@, c), !.prompt = FALSE, !.timer = FALSE,
                    !.active = IF @ = c THEN None ELSE @,
                    !.cancelling = IF @ = c THEN None ELSE @]]
    IN  Schedule(ProcessSteering(u, a, off), off)

-----------------------------------------------------------------------------
\* Cancellation.

\* The turn t that requestTurnCancellation would cancel.
Cancellable(v, a, t) ==
    LET l == v.lane[a] IN
    /\ l.st \notin {"none", "fatal"} /\ v.led[t].done = "none"
    /\ \/ t \in Queues /\ v.turn[t] = "pending"
       \/ l.active = t /\ l.cancelling # t

\* requestTurnCancellation, up to its await.
RequestCancel(v, a, t, off) ==
    LET l == v.lane[a] IN
    IF l.st \in {"none", "fatal"} \/ v.led[t].done # "none" THEN v
    ELSE IF t \in Queues /\ v.turn[t] = "pending"
    THEN Schedule([SettleStored([v EXCEPT !.turn[t] = "settled"], t, "reject")
                     EXCEPT !.lane[a].q = Without(@, t)], off)
    ELSE IF l.active # t \/ l.cancelling = t THEN v
    ELSE [SettleStored(v, t, "reject") EXCEPT
            !.turn = [q \in Queues |-> IF q = t THEN "cancelling" ELSE v.turn[q]],
            !.lane[a].cancelling = t,
            !.lane[a].timer = l.prompt /\ a \in v.sess]

\* cancelFoundingBeforeSession.
CancelFounding(v, a, off) ==
    IF v.lane[a].st # "opening" \/ v.lane[a].prompt \/ v.led[a].done # "none" THEN v
    ELSE LET u == [SettleStored(v, a, "reject") EXCEPT
                     !.dq = @ \ {a}, !.slots = @ \ {a},
                     !.stopped = IF v.task[a] = "open" THEN @ \cup {a} ELSE @,
                     !.lane[a].active = None, !.lane[a].st = "fatal"]
         IN  Schedule(FailQueued(u, {a}), off)

-----------------------------------------------------------------------------
\* Calls of the guest.  A call id is free while the registry does not know it;
\* after a crash that can be an id the ledger already holds.
Init ==
    /\ w = Attached([c \in Calls |-> Unborn], <<>>, [c \in Calls |-> "unborn"])
    /\ snap = [c \in Calls |-> "unborn"]
    /\ phase = "live" /\ todo = {} /\ drain = "off"
    /\ restored = {} /\ forced = FALSE /\ crashes = 0 /\ drains = 0

Live == phase = "live"
draining == drain # "off"
\* The guest runs behind opChain: in an operation of the host, also after a drain,
\* and in the pump of a drain, which reconcile() parked on a load does not hold up.
Pumping == Live \/ drain \in {"waiting", "cut", "stopped"}

Mint(c) ==
    /\ Pumping /\ w.vm[c] = "unborn"
    /\ Cardinality({d \in Calls : w.led[d].rec} \cup {c}) <= MaxCalls
    /\ UNCHANGED <<snap, phase, todo, restored, forced, crashes, drains>>
Minted(c) == Record([w EXCEPT !.vm[c] = "pending", !.mine = @ \cup {c},
                              !.reused = IF w.led[c].rec THEN @ \cup {c} ELSE @], c)

\* onAgent and onQueue lift the flags of a finished drain, not of one under way.
Undrained == IF drain = "done" THEN "off" ELSE drain
Undrain == drain' = Undrained

\* onAgent: admitted, or refused by parseAgentOptions / validateAdmission.
NewAgent(a) ==
    /\ Mint(a) /\ Undrain
    /\ \/ w' = SettleDirect(Minted(a), a, "reject")
       \/ w' = Schedule([Minted(a) EXCEPT
                            !.lane[a] = [NewLane("opening") EXCEPT !.active = a],
                            !.dq = @ \cup {a}], Undrained # "off")

\* onQueue: refused (payload, or a fatal lane), or put at the tail of its lane; or
\* its record, or the mark after it, cannot be written.
NewQueue(q) ==
    LET a == Session[q]
        u == Minted(q)
        l == IF w.lane[a].st # "none" THEN w.lane[a]
             ELSE NewLane(IF u.led[a].done = "none" THEN "opening" ELSE "released")
        v == [u EXCEPT !.turn[q] = "pending", !.lane[a] = [l EXCEPT !.q = Append(@, q)]]
        off == Undrained # "off"
    IN  /\ w.vm[a] # "unborn" /\ Mint(q) /\ Undrain
        /\ \/ w' = IF l.st = "fatal" THEN SettleDirect(u, q, "reject")
                   ELSE Schedule(IF l.st = "released" /\ ~off THEN Reattach(v) ELSE v, off)
           \/ \E t \in {u, [w EXCEPT !.n = @ + 1]} :
                w' = [PersistenceFatal(t, {a}, {q}) EXCEPT !.vm[q] = "reject"]

\* onSteer: bound to the turn being prompted right now, else "idle" at once.
NewSteer(s) ==
    LET a == Session[s]
        u == Minted(s)
    IN  /\ w.vm[a] # "unborn" /\ Mint(s) /\ UNCHANGED drain
        /\ w' = IF w.lane[a].prompt /\ w.lane[a].active # None /\ a \in w.sess
                THEN ProcessSteering([u EXCEPT !.target[s] = w.lane[a].active,
                                               !.lane[a].ctl = Append(@, s)], a, draining)
                ELSE SettleDirect(u, s, "resolve")

Kept == UNCHANGED <<snap, phase, todo, drain, restored, forced, crashes, drains>>

\* onSessionCancel and cancelCall of a founding id: the turn its lane runs now.
CancelSession(a) ==
    LET l == w.lane[a] IN
    /\ Pumping /\ l.st # "none" /\ l.active # None /\ Kept
    /\ IF l.st = "opening" /\ ~l.prompt THEN w' = CancelFounding(w, a, draining)
       ELSE \/ w' = RequestCancel(w, a, l.active, draining)
            \/ Cancellable(w, a, l.active) /\ w' = PersistenceFatal(w, {a}, {l.active})

\* onQueueCancel and cancelCall of a queued turn.
CancelQueued(q) ==
    /\ Pumping /\ w.turn[q] \notin {"none", "settled"} /\ Kept
    /\ \/ w' = RequestCancel(w, Session[q], q, draining)
       \/ Cancellable(w, Session[q], q) /\ w' = PersistenceFatal(w, {Session[q]}, {q})

\* The timer of requestTurnCancellation: the backend ignored the cancel.
CancelTimeout(a) ==
    LET l == w.lane[a] IN
    /\ l.timer /\ l.active = l.cancelling /\ l.prompt /\ Kept
    /\ w' = MarkLaneFatal(w, a, draining)

-----------------------------------------------------------------------------
\* Answers of the backends to the tasks in flight.  A task started before a
\* drain gave up on it (stopped, late) closes its session and rejects.

\* Mutant: a failed open leaves the turns queued behind it.
OpenLandsAlone(a) ==
    /\ w.task[a] = "open" /\ Kept
    /\ w' = [w EXCEPT !.task[a] = "bad", !.stopped = @ \ {a}, !.lane[a].st = "fatal"]

\* runAgentTask after openSession.
OpenLands(a) ==
    /\ w.task[a] = "open" /\ Kept
    /\ \/ w' = [FailQueued(w, {a}) EXCEPT !.task[a] = "bad", !.stopped = @ \ {a},
                                           !.lane[a].prompt = @ /\ w.lane[a].active # a]
       \/ /\ a \notin w.stopped
          /\ w' = [w EXCEPT !.task[a] = "prompt", !.sess = @ \cup {a},
                            !.led[a].sess = TRUE,
                            !.lane[a].st = "usable", !.lane[a].active = a,
                            !.lane[a].prompt = TRUE]

\* recordQueueHandoff: the queued prompt has reached its session; if that cannot
\* be written, the prompt is given up.
Handoff(q) ==
    /\ w.task[q] = "prompt" /\ ~w.led[q].handoff /\ Kept
    /\ \/ w' = [w EXCEPT !.led[q].handoff = TRUE]
       \/ w' = [PersistenceFatal(w, {Session[q]}, {q}) EXCEPT
                   !.task[q] = "bad", !.lane[Session[q]].prompt = FALSE]

\* session.prompt settles; its finally clears the lane's promptInFlight.
PromptEnds(c) ==
    /\ w.task[c] \in {"prompt", "orphan"} /\ Kept
    /\ c \in Queues => w.led[c].handoff
    /\ \E r \in {"okay", "bad"} :
         /\ c \in Queues /\ w.turn[c] = "cancelling" => r = "bad"
         /\ w' = [w EXCEPT !.task[c] = r, !.lane[SessionOf(c)].prompt = FALSE]

\* runReattachedTask: the loaded turn ends, or can no longer be observed; then
\* its session is released and the call re-issued, unless a drain is under way.
LoadedTurnEnds(a) ==
    LET u == [w EXCEPT !.lane[a].prompt = @ /\ w.lane[a].active # a] IN
    /\ w.task[a] = "await" /\ Kept
    /\ \/ \E r \in {"okay", "bad"} : w' = [u EXCEPT !.task[a] = r]
       \/ draining /\ w' = [u EXCEPT !.task[a] = "hold"]
       \/ ~draining /\ w' = [w EXCEPT !.task[a] = "release", !.lane[a].st = "released"]

\* reissueReattached after session.release().
ReissueReattached(a) ==
    /\ w.task[a] = "release" /\ Kept
    /\ w' = IF w.lane[a].st = "fatal" \/ draining \/ a \in w.stopped
            THEN [w EXCEPT !.task[a] = "hold", !.stopped = @ \ {a}]
            ELSE [w EXCEPT !.task[a] = "open", !.lane[a].st = "opening"]

\* runRestoredQueuedTurnTask: a failed recovery quarantines the lane.
RestoredTurnEnds(q) ==
    /\ w.task[q] = "await" /\ Kept
    /\ \/ w' = [w EXCEPT !.task[q] = "okay"]
       \/ w' = [w EXCEPT !.task[q] = "bad"]
       \/ w.turn[q] # "cancelling"
          /\ w' = MarkLaneFatal([w EXCEPT !.task[q] = "bad"], Session[q], draining)

\* session.steer answers; a backend that breaks strict steering kills the lane.
SteerAnswers(s) ==
    /\ w.task[s] = "wire" /\ Kept
    /\ \/ w' = [w EXCEPT !.task[s] = "okay"]
       \/ w' = [w EXCEPT !.task[s] = "bad"]
       \/ w' = MarkLaneFatal([w EXCEPT !.task[s] = "bad"], Session[s], draining)

\* The `then` of lazyReattach.  A load that outlived a drain answers undefined,
\* and the lane is quarantined as for a failed one.
ReattachLands(a) ==
    LET held == {q \in Queues : Session[q] = a /\ w.task[q] = "load"}
        u == [w EXCEPT !.relo[a] = "none"]
        gone(v) == [v EXCEPT !.task = [c \in Calls |-> IF c \in held THEN "none" ELSE v.task[c]]]
    IN  /\ Kept
        /\ \/ a \in w.late
              /\ w' = MarkLaneFatal([w EXCEPT !.late = @ \ {a}], a, draining)
           \/ w.relo[a] # "none" /\ w' = MarkLaneFatal(gone(u), a, draining)
           \/ /\ w.relo[a] = "fresh"
              /\ w' = Schedule([u EXCEPT !.sess = @ \cup {a}, !.lane[a].st = "usable",
                                  !.task = [c \in Calls |-> IF c \in held THEN "await"
                                                            ELSE u.task[c]]], draining)

\* watchSessionRelease: the backend drops an attached session.
SessionReleased(a) ==
    /\ a \in w.sess /\ ~draining /\ w.lane[a].st # "released" /\ Kept
    /\ w' = MarkLaneFatal(w, a, draining)

\* pumpUnlocked delivers one finished task: deliver, then the bookkeeping of its
\* kind.  A "hold" leaves the call pending.
Deliver(c) ==
    LET r == w.task[c]
        o == IF r = "okay" THEN "resolve" ELSE "reject"
        v == SettleStored([w EXCEPT !.task[c] = "none"], c, o)
        a == SessionOf(c)
    IN  /\ Pumping /\ r \in {"okay", "bad", "hold"} /\ Kept
        /\ w' = IF r = "hold" THEN [w EXCEPT !.task[c] = "none"]
                ELSE IF c \in Turns THEN TurnSettled(v, c, draining)
                ELSE ProcessSteering([v EXCEPT !.lane[a].ctl = Without(@, c),
                                               !.lane[a].steering = FALSE], a, draining)

-----------------------------------------------------------------------------
\* The client-presence drain (drainForDisconnect): the last client has left.

Opening == {a \in Agents : w.task[a] \in {"open", "reload"}}
Busy == \/ \E a \in Agents : w.lane[a].active # None \/ w.lane[a].prompt \/ w.relo[a] # "none"
        \/ Opening # {}

DrainKept == UNCHANGED <<snap, phase, todo, restored, crashes>>

StartDrain ==
    /\ Live /\ drain \in {"off", "warm"} /\ drains < MaxDrains
    /\ drain' = "waiting" /\ drains' = drains + 1
    /\ UNCHANGED <<w, forced>> /\ DrainKept

\* The bound has expired: opens and loads in flight are disowned (generation), and
\* the running turn of every attached session is cancelled; that may fail for the
\* lanes F, as the ledger cannot be written.
Cut(F) ==
    LET A == {a \in w.sess : w.lane[a].active # None}
        T == {w.lane[a].active : a \in A}
        new(a) == a \in A /\ w.led[w.lane[a].active].done = "none"
        failed == {w.lane[a].active : a \in F}
    IN  /\ F \subseteq {a \in A : Cancellable(w, a, w.lane[a].active)}
        /\ w' = PersistenceFatal(
                 [SettleAll(w, T \ failed, "reject") EXCEPT
                   !.stopped = @ \cup Opening \cup {a \in Agents : w.task[a] = "release"},
                   !.relo = [a \in Agents |-> IF @[a] = "fresh" THEN "stale" ELSE @[a]],
                   !.turn = [q \in Queues |-> IF q \in T /\ w.led[q].done = "none"
                                              THEN "cancelling" ELSE @[q]],
                   !.lane = [a \in Agents |->
                       IF new(a) THEN [@[a] EXCEPT !.cancelling = w.lane[a].active,
                                                   !.timer = w.lane[a].prompt]
                       ELSE @[a]]], F, failed)

\* A drain behind a reconcile() that is parked on a load begins with its bound.
DrainCut ==
    /\ \/ drain = "waiting" /\ Busy /\ UNCHANGED drains
       \/ /\ phase = "restoring" /\ \E a \in Agents : w.task[a] = "reload"
          /\ drain \in {"off", "warm"} /\ drains < MaxDrains /\ drains' = drains + 1
    /\ \E F \in SUBSET Agents : Cut(F)
    /\ drain' = "cut" /\ forced' = TRUE /\ DrainKept

\* What is still open at the bound is settled as cancelled: opens, attached
\* sessions, steers on the wire, and then every pending call nobody tracks.
CutOff(v) ==
    LET opens == {a \in Agents : v.task[a] \in {"open", "reload"}}
        sessions == {a \in v.sess \ opens : v.led[a].done = "none"}
        steers == {s \in Steers : v.task[s] = "wire"}
        tracked(c) == \/ v.task[c] # "none" \/ c \in v.sess
                      \/ c \in v.mine \/ (c \in Queues /\ v.turn[c] # "none")
        rest == {c \in Calls : v.vm[c] = "pending" /\ ~tracked(c)}
        first == opens \cup sessions \cup steers
    IN  [SettleAll(v, IF first = {} THEN {} ELSE first \cup rest, "reject")
            EXCEPT !.slots = @ \ opens]

\* The continuations of these calls run next, and nothing else.
StopAll ==
    /\ drain = "cut" /\ drain' = "stopped" /\ w' = CutOff(w)
    /\ UNCHANGED <<forced, drains>> /\ DrainKept

\* Every session is closed.  Its prompts answer some day (orphan); an observed
\* loaded turn is given up by the release itself; a load in flight will find
\* itself disowned, so nobody works for the turn that waited for it any more.
ReleaseAll(v) ==
    [v EXCEPT
        !.lane = [a \in Agents |->
            IF a \in v.sess /\ @[a].st # "fatal"
            THEN [@[a] EXCEPT !.st = "released", !.active = None, !.prompt = FALSE]
            ELSE @[a]],
        !.task = [c \in Calls |->
            IF @[c] = "load" THEN "none"
            ELSE IF SessionOf(c) \notin v.sess THEN @[c]
            ELSE CASE @[c] = "prompt" -> "orphan"
                   [] @[c] = "await"  -> IF c \in Agents THEN "hold" ELSE "bad"
                   [] OTHER -> @[c]],
        !.sess = {}, !.slots = {},
        !.late = @ \cup {a \in Agents : v.relo[a] # "none"},
        !.relo = [a \in Agents |-> "none"]]

FinishDrain ==
    /\ drain = "stopped" \/ (drain = "waiting" /\ ~Busy)
    /\ w' = ReleaseAll(w) /\ drain' = "done"
    /\ UNCHANGED <<forced, drains>> /\ DrainKept

\* shouldAbort: a client came back.
AbortDrain ==
    /\ drain \in {"waiting", "stopped"} /\ drain' = "off"
    /\ UNCHANGED <<w, forced, drains>> /\ DrainKept

-----------------------------------------------------------------------------
\* Snapshot, crash, restore.

\* The debounced snapshot write at the end of a serialized operation.  Bound:
\* the snapshot nobody will restore any more is left as it is.
Flush ==
    /\ crashes < MaxCrashes /\ snap # w.vm /\ snap' = w.vm
    /\ UNCHANGED <<w, phase, todo, drain, restored, forced, crashes, drains>>

\* The process dies and the next one restores the last snapshot; with none
\* written the workspace starts fresh on the old ledger, without reconcile().
Crash ==
    /\ crashes < MaxCrashes /\ crashes' = crashes + 1
    /\ w' = [Attached(w.led, w.order, snap) EXCEPT !.reused = w.reused, !.unsaved = w.unsaved]
    /\ drain' = "off" /\ restored' = {}
    /\ todo' = {c \in Calls : snap[c] = "pending"}
    /\ \/ phase' = "restoring"
       \/ phase' = "live" /\ \A c \in Calls : snap[c] = "unborn"
    /\ UNCHANGED <<snap, forced, drains>>

Reissue(v, a) == Schedule([v EXCEPT !.dq = @ \cup {a}], draining)

\* registerReattached.
Register(v, a) ==
    [v EXCEPT !.lane[a] = [NewLane("usable") EXCEPT !.active = a, !.prompt = TRUE],
              !.sess = @ \cup {a}, !.slots = @ \cup {a}, !.task[a] = "await"]

\* One iteration of reconcile(), pending calls in the order they were minted, that
\* of their records: an answer in the ledger is passed on, a steer fails, a queued
\* turn is left for later; an agent call is left alone by a drain, refused by
\* parseAgentOptions, issued again, or its session is loaded.
ReconcileStep(c) ==
    /\ phase = "restoring" /\ c \in todo /\ \A d \in todo : Pos(w, c) <= Pos(w, d)
    /\ \A a \in Agents : w.task[a] # "reload"
    /\ todo' = todo \ {c}
    /\ \/ /\ w.led[c].done # "none" \/ c \in Steers
          /\ w' = SettleStored(w, c, "reject")
       \/ w.led[c].done = "none" /\ c \in Queues /\ UNCHANGED w
       \/ /\ w.led[c].done = "none" /\ c \in Agents
          /\ \/ draining /\ UNCHANGED w
             \/ ~draining /\ w' = SettleStored(w, c, "reject")
             \/ ~draining /\ ~w.led[c].sess /\ w' = Reissue(w, c)
             \/ ~draining /\ w.led[c].sess /\ w' = [w EXCEPT !.task[c] = "reload"]
    /\ UNCHANGED <<snap, phase, drain, restored, forced, crashes, drains>>

\* The load of reconcileAgentCall, unless a drain has disowned it: the turn is found
\* running, or its call is issued again.
RestoreLands(a) ==
    LET u == [w EXCEPT !.task[a] = "none"] IN
    /\ w.task[a] = "reload"
    /\ \/ /\ a \in w.stopped
          /\ w' = [u EXCEPT !.stopped = @ \ {a}] /\ UNCHANGED restored
       \/ a \notin w.stopped /\ w' = Reissue(u, a) /\ UNCHANGED restored
       \/ a \notin w.stopped /\ w' = Register(u, a) /\ restored' = restored \cup {a}
    /\ UNCHANGED <<snap, phase, todo, drain, forced, crashes, drains>>

\* rebuildQueuedTurns: every queued turn the ledger shows as open goes back to its
\* lane in store order, unless it was minted meanwhile, in the pump of a drain; a
\* handed-off one is active again and takes a slot.
Rebuilt(v) ==
    LET R == {q \in Queues : v.led[q].rec /\ v.led[q].done = "none" /\ v.turn[q] = "none"}
        of(a) == {q \in R : Session[q] = a}
        line(a) == InOrder(v, of(a))
        sent(a) == {q \in of(a) : v.led[q].handoff}
        base(a) == IF v.lane[a].st # "none" THEN v.lane[a]
                   ELSE NewLane(IF v.led[a].done = "none" THEN "opening" ELSE "released")
    IN  [v EXCEPT
            !.turn = [q \in Queues |-> IF q \notin R THEN @[q]
                                       ELSE IF v.led[q].handoff THEN "active" ELSE "pending"],
            !.slots = @ \cup {q \in R : v.led[q].handoff},
            !.task = [c \in Calls |-> IF c \in R /\ v.led[c].handoff THEN "load" ELSE @[c]],
            !.relo = [a \in Agents |-> IF sent(a) = {} THEN @[a]
                                       ELSE IF v.led[a].done # "none" /\ v.led[a].sess
                                       THEN "fresh" ELSE "stale"],
            !.lane = [a \in Agents |->
                IF of(a) = {} THEN @[a]
                ELSE [base(a) EXCEPT !.q = @ \o line(a),
                        !.active = IF sent(a) # {} THEN CHOOSE q \in sent(a) : TRUE ELSE @]]]

\* The loads of rebuildQueuedTurns begin also in a broker that is drained, which it
\* is no longer then, but it goes on draining.
FinishReconcile ==
    LET v == Rebuilt(w)
        loads == {q \in Queues : v.task[q] = "load"}
    IN  /\ phase = "restoring" /\ todo = {} /\ phase' = "live"
        /\ \A a \in Agents : w.task[a] # "reload"
        /\ w' = Schedule(IF draining THEN v ELSE Reattach(v), draining)
        /\ restored' = restored \cup loads
        /\ drain' = IF drain = "done" /\ loads # {} THEN "warm" ELSE drain
        /\ UNCHANGED <<snap, todo, forced, crashes, drains>>

-----------------------------------------------------------------------------
Answer(c) ==
    \/ c \in Agents /\ (OpenLands(c) \/ LoadedTurnEnds(c) \/ ReissueReattached(c) \/ ReattachLands(c))
    \/ c \in Queues /\ (Handoff(c) \/ RestoredTurnEnds(c))
    \/ c \in Turns /\ PromptEnds(c)
    \/ c \in Steers /\ SteerAnswers(c)

\* Between the forced stop of a drain and its end only guest code runs.
Next ==
    \/ \E a \in Agents : NewAgent(a) \/ CancelSession(a)
    \/ \E q \in Queues : NewQueue(q) \/ CancelQueued(q)
    \/ \E s \in Steers : NewSteer(s)
    \/ /\ drain # "stopped"
       /\ \/ \E a \in Agents : CancelTimeout(a) \/ SessionReleased(a) \/ RestoreLands(a)
          \/ \E c \in Calls : Answer(c) \/ Deliver(c) \/ ReconcileStep(c)
          \/ FinishReconcile
    \/ StartDrain \/ DrainCut \/ StopAll \/ FinishDrain \/ AbortDrain
    \/ Flush \/ Crash

Spec == Init /\ [][Next]_vars

-----------------------------------------------------------------------------
\* The ledger, the registry and the snapshot hold what their readers expect.
TypeOK ==
    /\ w.led \in [Calls -> [rec : BOOLEAN, seq : Nat, sess : BOOLEAN, handoff : BOOLEAN,
                            done : {"none", "resolve", "reject"}]]
    /\ w.vm \in [Calls -> {"unborn", "pending", "resolve", "reject"}]
    /\ snap \in [Calls -> {"unborn", "pending", "resolve", "reject"}]

\* Record, settle, consume (store.ts): no call is known to the guest, or to a
\* snapshot, without its ledger record, and what the guest saw as the answer is
\* the completion in the ledger, through cancels, late answers, drains that give
\* up on a call, and a crash between any two of these writes. Two kinds of calls are
\* excepted: those minted again after a crash (FreshCallsAreOpen), and those that
\* were rejected because the ledger could not be written (markPersistenceFatal).
LedgerFirst ==
    \A c \in Calls \ (w.reused \cup w.unsaved) :
        /\ w.vm[c] # "unborn" => w.led[c].rec
        /\ w.vm[c] \in {"resolve", "reject"} => w.led[c].done = w.vm[c]
        /\ snap[c] \in {"resolve", "reject"} => w.led[c].done = snap[c]

\* The sessions none of whose calls was minted again; of these, the sessions that
\* were not given up because the ledger could not be written.
MintedOnce(a) == \A c \in w.reused : SessionOf(c) # a
Intact(a) == MintedOnce(a) /\ \A c \in w.unsaved : SessionOf(c) # a

\* A lane runs one turn of its session at a time, also when a queued turn is
\* restored while its founding session is loaded or opened again, and when a drain
\* has released the session. Excepted are sessions with a call that was minted again
\* after a crash, sessions given up because the ledger could not be written (a load
\* in flight makes such a lane usable again), and what follows when the bound of a
\* drain has expired.
OneTurnPerSession ==
    ~forced =>
    \A a \in Agents : Intact(a) =>
        Cardinality({c \in Turns : SessionOf(c) = a /\ w.task[c] \in {"open", "prompt", "await"}}) <= 1

\* No more than Cap turns hold a slot, apart from those a restore found running
\* at their backends: reconcile() takes slots for them without asking.
CapUnlessRestored == Cardinality(w.slots) <= Cap + Cardinality(restored)

\* A slot is held by a turn that some task still works for: no early return,
\* cancel, quarantine or failed write leaks one. Two leaks there are, both of turns
\* that took their slot through reconcile(): the task of one gives up under a drain
\* that is then aborted, or its lane is replaced as the founding call is minted again.
SlotsWorked ==
    \A c \in w.slots :
        \/ w.task[c] # "none"
        \/ c \in restored /\ (drains > 0 \/ ~MintedOnce(SessionOf(c)))

Full == ~Fits(w, 0)
Working(S) == \E c \in S \ {None} : w.task[c] # "none"
Moving(a) ==
    LET l == w.lane[a] IN
    \/ w.relo[a] # "none" \/ a \in w.dq
    \/ Working({a, l.active, l.cancelling} \cup Ran(l.ctl))

\* No lost wake-up: a call the guest waits for has a task, or stands in a queue
\* that something still in progress, or a full cap, will make move. Five cases
\* are excepted: a drain has begun; a ledger write has failed; a call of the session
\* was minted again after a crash; a queued turn was restored into a lane that
\* went fatal during reconcile() (rebuildQueuedTurns does not look); and a steer
\* stands behind another in a lane whose session a restore failed to open again
\* (failQueuedTurns settles no steers, a fatal lane sends none).
NothingForgotten ==
    Live /\ drains = 0 /\ w.unsaved = {} =>
    \A c \in Calls : w.vm[c] = "pending" /\ MintedOnce(SessionOf(c)) =>
        LET l == w.lane[SessionOf(c)]
            stranded == crashes > 0 /\ l.st = "fatal" IN
        \/ w.task[c] # "none"
        \/ c \in w.dq /\ Full
        \/ c \in Queues /\ c \in Ran(l.q) /\ (Moving(Session[c]) \/ Full \/ stranded)
        \/ c \in Steers /\ c \in Ran(l.ctl) /\ (Working(Ran(l.ctl)) \/ stranded)

\* What persistence-and-reset.md:3 says of call ids: their sequence persists, so
\* a call the guest has just issued has not been answered already.
FreshCallsAreOpen ==
    [][\A c \in Calls : w.vm[c] = "unborn" /\ w'.vm[c] = "pending" => w'.led[c].done = "none"]_vars
=============================================================================
