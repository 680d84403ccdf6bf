---------------------------- MODULE ReplBrokerProofs ----------------------------
(***************************************************************************)
(* Proofs about the call ledger and the slots of ReplBroker, for any calls, *)
(* sessions, cap and bounds.  A handler is a composition of operators on   *)
(* the broker's record, and each operator is shown to keep what is said of *)
(* that record, by the operators it calls; an action is one of these.  Two *)
(* things are said of a record:                                            *)
(*   - Step(v, u): what may happen to the ledger and the guest registry;   *)
(*   - Good(v, X, Y): the turns with a slot are within the cap and some    *)
(*     task works for each, the restored turns X apart; Y are the calls    *)
(*     that reconcile() has not looked at yet.                             *)
(***************************************************************************)
EXTENDS ReplBroker, TLAPS, FiniteSetTheorems

Fields == {"led", "order", "vm", "n", "adm", "lane", "turn", "target", "dq", "slots",
           "task", "sess", "stopped", "relo", "late", "mine", "reused", "unsaved"}
Entry  == [rec : BOOLEAN, seq : Nat, sess : BOOLEAN, handoff : BOOLEAN,
           done : {"none", "resolve", "reject"}]
Guest  == {"unborn", "pending", "resolve", "reject"}
Final  == {"resolve", "reject"}

\* What the registry vm holds agrees with the ledger led, the calls apart excepted.
Agrees(led, vm, apart) ==
    /\ \A c \in Calls : vm[c] = "pending" => led[c].rec
    /\ \A c \in Calls \ apart : /\ vm[c] # "unborn" => led[c].rec
                                /\ vm[c] \in Final => led[c].done = vm[c]
Apart(v) == v.reused \cup v.unsaved

Sound(v) ==
    /\ DOMAIN v = Fields /\ v.n \in Nat
    /\ v.led \in [Calls -> Entry] /\ v.vm \in [Calls -> Guest]
    /\ Agrees(v.led, v.vm, Apart(v))

\* A record stays, and a completion in one stays; the guest forgets no call; an
\* excepted call remains one.
Durable(v, u) ==
    \A c \in Calls :
        /\ v.led[c].rec => u.led[c].rec
        /\ v.led[c].rec /\ v.led[c].done # "none" => u.led[c].done = v.led[c].done
        /\ v.vm[c] # "unborn" => u.vm[c] # "unborn"
        /\ c \in Apart(v) => c \in Apart(u)

Step(v, u) == Sound(v) => Sound(u) /\ Durable(v, u)

\* The inductive invariant: the broker's record, and the snapshot, which knows
\* no call the guest does not know.
IInv ==
    /\ Sound(w)
    /\ snap \in [Calls -> Guest] /\ Agrees(w.led, snap, Apart(w))
    /\ \A c \in Calls : snap[c] # "unborn" => w.vm[c] # "unborn"

-----------------------------------------------------------------------------
(* Steps compose *)

LEMMA Then == ASSUME NEW v, NEW u, NEW t, Step(v, u), Step(u, t) PROVE Step(v, t)
<1> SUFFICES ASSUME Sound(v) PROVE Sound(t) /\ Durable(v, t)
  BY DEF Step
<1>1. Sound(u) /\ Durable(v, u) /\ Sound(t) /\ Durable(u, t)
  BY DEF Step
<1> QED
  BY <1>1 DEF Durable

\* An update of the broker's memory alone.
Same(v, u) ==
    DOMAIN v = Fields => /\ DOMAIN u = Fields /\ u.led = v.led /\ u.vm = v.vm /\ u.n = v.n
                         /\ u.reused = v.reused /\ u.unsaved = v.unsaved

LEMMA Memory == ASSUME NEW v, NEW u, Same(v, u) PROVE Step(v, u)
BY DEF Same, Step, Sound, Durable, Apart

LEMMA Stays == ASSUME NEW v PROVE Step(v, v)
BY DEF Step, Sound, Durable

-----------------------------------------------------------------------------
(* The ledger *)

LEMMA SettleAllStep == ASSUME NEW v, NEW S, NEW o \in Final PROVE Step(v, SettleAll(v, S, o))
<1> SUFFICES ASSUME Sound(v)
             PROVE  LET u == SettleAll(v, S, o) IN Sound(u) /\ Durable(v, u)
  BY DEF Step
<1> DEFINE L == [c \in Calls |-> IF c \in S /\ v.led[c].done = "none"
                                 THEN [v.led[c] EXCEPT !.done = o] ELSE v.led[c]]
           V == [c \in Calls |-> IF c \in S /\ v.vm[c] = "pending" THEN L[c].done ELSE v.vm[c]]
           u == SettleAll(v, S, o)
<1>1. u = [v EXCEPT !.led = L, !.vm = V]
  BY DEF SettleAll
<1>2. DOMAIN u = Fields /\ u.led = L /\ u.vm = V /\ u.n = v.n /\ Apart(u) = Apart(v)
  BY <1>1 DEF Sound, Fields, Apart
<1>3. \A c \in Calls : /\ v.led[c] \in Entry
                       /\ [v.led[c] EXCEPT !.done = o] \in Entry
  BY DEF Sound, Entry, Final
<1>4. \A c \in Calls : /\ L[c] \in Entry
                       /\ L[c].rec = v.led[c].rec
                       /\ L[c].done = IF c \in S /\ v.led[c].done = "none" THEN o ELSE v.led[c].done
  BY <1>3 DEF Entry
<1>5. L \in [Calls -> Entry]
  BY <1>4
<1> HIDE DEF L
<1>6. \A c \in Calls : V[c] = IF c \in S /\ v.vm[c] = "pending" THEN L[c].done ELSE v.vm[c]
  OBVIOUS
<1>7. \A c \in Calls : c \in S => L[c].done \in Final
  BY <1>3, <1>4 DEF Entry, Final
<1>8. V \in [Calls -> Guest]
  BY <1>7 DEF Sound, Guest, Final
<1> HIDE DEF V, u
<1>9. Agrees(L, V, Apart(v))
  BY <1>4, <1>6, <1>7 DEF Sound, Agrees, Final
<1>10. Durable(v, u)
  BY <1>2, <1>4, <1>6, <1>7 DEF Durable, Final
<1> QED
  BY <1>2, <1>5, <1>8, <1>9, <1>10 DEF Sound, u

LEMMA SettleStep == ASSUME NEW v, NEW c, NEW o \in Final PROVE Step(v, SettleStored(v, c, o))
BY SettleAllStep DEF SettleStored

\* recordDispatched of a call the guest has just minted.
LEMMA MintedSound ==
  ASSUME Sound(w), NEW c \in Calls, w.vm[c] = "unborn"
  PROVE  LET u == Minted(c) IN
         /\ Sound(u) /\ Durable(w, u)
         /\ u.led[c].rec /\ (c \in Apart(u) \/ u.led[c].done = "none")
<1> DEFINE new == [Unborn EXCEPT !.rec = TRUE, !.seq = w.n + 1]
           L == [w.led EXCEPT ![c] = IF @.rec THEN @ ELSE new]
           V == [w.vm EXCEPT ![c] = "pending"]
           R == IF w.led[c].rec THEN w.reused \cup {c} ELSE w.reused
           u == Minted(c)
<1>1. /\ DOMAIN u = Fields /\ u.led = L /\ u.vm = V /\ u.n = w.n + 1
      /\ u.reused = R /\ u.unsaved = w.unsaved
  BY DEF Minted, Record, Sound, Fields
<1>2. new \in Entry /\ new.rec /\ new.done = "none"
  <2>1. w.n + 1 \in Nat
    BY DEF Sound
  <2>2. Unborn \in Entry /\ Unborn.done = "none"
    BY DEF Unborn, Entry
  <2> QED
    BY <2>1, <2>2 DEF Entry
<1> HIDE DEF new
<1>3. \A d \in Calls : /\ L[d] \in Entry
                       /\ d # c => L[d] = w.led[d]
                       /\ L[c].rec /\ (w.led[c].rec => L[c] = w.led[c])
                       /\ ~w.led[c].rec => L[c] = new
  BY <1>2 DEF Sound, Entry
<1>4. \A d \in Calls : /\ d # c => V[d] = w.vm[d]
                       /\ V[c] = "pending"
  BY DEF Sound
<1>5. L \in [Calls -> Entry] /\ V \in [Calls -> Guest]
  BY <1>3 DEF Sound, Guest
<1> HIDE DEF L, V, u
<1>6. Apart(w) \subseteq Apart(u) /\ (w.led[c].rec => c \in Apart(u))
  BY <1>1 DEF Apart
<1>7. Agrees(L, V, Apart(u))
  BY <1>3, <1>4, <1>6 DEF Sound, Agrees, Final
<1>8. Durable(w, u)
  BY <1>1, <1>3, <1>4, <1>6 DEF Durable
<1>9. Sound(u)
  BY <1>1, <1>5, <1>7 DEF Sound
<1> QED
  BY <1>1, <1>2, <1>3, <1>6, <1>8, <1>9 DEF u

\* A call that is refused at once.
LEMMA SettleDirectStep ==
  ASSUME NEW v, Sound(v), NEW c \in Calls, c \in Apart(v) \/ v.led[c].done = "none",
         v.led[c].rec, NEW o \in Final
  PROVE  Step(v, SettleDirect(v, c, o))
<1> DEFINE L == [v.led EXCEPT ![c].done = IF @ = "none" THEN o ELSE @]
           V == [v.vm EXCEPT ![c] = o]
           u == SettleDirect(v, c, o)
<1>1. DOMAIN u = Fields /\ u.led = L /\ u.vm = V /\ u.n = v.n /\ Apart(u) = Apart(v)
  BY DEF SettleDirect, Sound, Fields, Apart
<1>2. L \in [Calls -> Entry] /\ V \in [Calls -> Guest]
  BY DEF Sound, Entry, Guest, Final
<1>3. \A d \in Calls : /\ d # c => L[d] = v.led[d] /\ V[d] = v.vm[d]
                       /\ L[c].rec = v.led[c].rec /\ V[c] = o
                       /\ L[c].done = IF v.led[c].done = "none" THEN o ELSE v.led[c].done
  BY DEF Sound, Entry
<1> HIDE DEF L, V, u
<1>4. Agrees(L, V, Apart(v))
  BY <1>3 DEF Sound, Agrees, Final
<1>5. Durable(v, u)
  BY <1>1, <1>3 DEF Durable, Final
<1> QED
  BY <1>1, <1>2, <1>4, <1>5 DEF Sound, Step, u

-----------------------------------------------------------------------------
(* The lanes *)

LEMMA FailQueuedStep == ASSUME NEW v, NEW A PROVE Step(v, FailQueued(v, A))
<1>1. PICK S, T, X, Y : FailQueued(v, A) = [SettleAll(v, S, "reject") EXCEPT
                                              !.turn = T, !.slots = X, !.lane = Y]
  BY DEF FailQueued
<1>2. Step(v, SettleAll(v, S, "reject"))
  BY SettleAllStep DEF Final
<1> DEFINE s == SettleAll(v, S, "reject")
<1> HIDE DEF s
<1>3. Step(s, FailQueued(v, A))
  <2>1. Same(s, FailQueued(v, A))
    BY <1>1 DEF Fields, s, Same
  <2> QED
    BY <2>1, Memory
<1> QED
  BY <1>2, <1>3, Then DEF s

LEMMA QuarantineStep == ASSUME NEW v, NEW A PROVE Step(v, Quarantine(v, A))
<1> DEFINE D == {a \in A : v.lane[a].st # "fatal"}
           active == {v.lane[a].active : a \in D} \ {None}
           controls == UNION {Ran(v.lane[a].ctl) : a \in D}
           s == SettleAll(v, active \cup controls, "reject")
           u == [s EXCEPT !.turn = [q \in Queues |-> IF q \in active THEN "settled" ELSE v.turn[q]],
                          !.slots = @ \ active]
           f == FailQueued(u, D)
           L == [a \in Agents |-> IF a \notin D THEN v.lane[a]
                                  ELSE [NoLane EXCEPT !.st = "fatal"]]
<1>1. Step(v, s)
  BY SettleAllStep DEF Final
<1>2. Step(s, u)
  <2> HIDE DEF s, active
  <2>1. Same(s, u)
    BY DEF Fields, Same
  <2> QED
    BY <2>1, Memory
<1>3. Step(u, f)
  BY FailQueuedStep
<1>4. Quarantine(v, A) = [f EXCEPT !.sess = @ \ D, !.lane = L]
  BY DEF Quarantine
<1> HIDE DEF f, L, D
<1>5. Step(f, Quarantine(v, A))
  <2>1. Same(f, Quarantine(v, A))
    BY <1>4 DEF Fields, Same
  <2> QED
    BY <2>1, Memory
<1> QED
  BY <1>1, <1>2, <1>3, <1>5, Then

\* The calls that are rejected in the guest only are excepted from then on.
LEMMA PersistenceFatalStep ==
  ASSUME NEW v, NEW A, NEW S PROVE Step(v, PersistenceFatal(v, A, S))
<1> SUFFICES ASSUME Sound(v)
             PROVE  LET u == PersistenceFatal(v, A, S) IN Sound(u) /\ Durable(v, u)
  BY DEF Step
<1> DEFINE D == {a \in A : v.lane[a].st # "none"}
           ids == UNION {({v.lane[a].active} \ {None}) \cup Ran(v.lane[a].q)
                             \cup Ran(v.lane[a].ctl) : a \in D}
           told == {c \in ids \cap Calls : v.vm[c] = "pending"}
           V == [c \in Calls |-> IF c \in told THEN "reject" ELSE v.vm[c]]
           u == PersistenceFatal(v, A, S)
<1>1. /\ DOMAIN u = Fields /\ u.led = v.led /\ u.vm = V /\ u.n = v.n
      /\ u.reused = v.reused /\ u.unsaved = v.unsaved \cup S \cup told
  BY DEF PersistenceFatal, Sound, Fields
<1> HIDE DEF ids, u
<1>2. V \in [Calls -> Guest]
  BY DEF Sound, Guest
<1>3. \A c \in Calls : c \in Apart(u) \/ V[c] = v.vm[c]
  BY <1>1 DEF Apart
<1>4. Apart(v) \subseteq Apart(u)
  BY <1>1 DEF Apart
<1>5. Agrees(u.led, V, Apart(u))
  BY <1>1, <1>3, <1>4 DEF Sound, Agrees
<1>6. Durable(v, u)
  BY <1>1, <1>4 DEF Durable
<1> QED
  BY <1>1, <1>2, <1>5, <1>6 DEF Sound, u

LEMMA ReattachStep == ASSUME NEW v PROVE Step(v, Reattach(v))
<1>1. PICK A, X : Reattach(v) = [Quarantine(v, A) EXCEPT !.relo = X]
  BY DEF Reattach
<1>2. Step(v, Quarantine(v, A))
  BY QuarantineStep
<1>3. Step(Quarantine(v, A), Reattach(v))
  <2>1. Same(Quarantine(v, A), Reattach(v))
    BY <1>1 DEF Fields, Same
  <2> QED
    BY <2>1, Memory
<1> QED
  BY <1>2, <1>3, Then

LEMMA ScheduleStep == ASSUME NEW v, NEW off PROVE Step(v, Schedule(v, off))
<1>1. Step(v, Reattach(v))
  BY ReattachStep
<1>2. ASSUME NEW u, NEW go PROVE Step(u, Started(u, go))
  <2>1. Same(u, Started(u, go))
    BY DEF Fields, Started, Same
  <2> QED
    BY <2>1, Memory
<1>3. Step(Reattach(v), StartReady(Reattach(v)))
  BY <1>2 DEF StartReady
<1>4. Step(v, StartReady(Reattach(v)))
  BY <1>1, <1>3, Then
<1> QED
  BY <1>4, Stays DEF Schedule

LEMMA FatalStep == ASSUME NEW v, NEW a, NEW off PROVE Step(v, MarkLaneFatal(v, a, off))
<1>1. Step(v, Quarantine(v, {a}))
  BY QuarantineStep
<1>2. Step(Quarantine(v, {a}), Schedule(Quarantine(v, {a}), off))
  BY ScheduleStep
<1>3. Step(v, Schedule(Quarantine(v, {a}), off))
  BY <1>1, <1>2, Then
<1> QED
  BY <1>3, Stays DEF MarkLaneFatal

LEMMA SteeringStep == ASSUME NEW v, NEW a, NEW off PROVE Step(v, ProcessSteering(v, a, off))
<1>1. ASSUME NEW s, NEW x PROVE Step(v, [v EXCEPT !.lane[a].steering = TRUE, !.task[s] = x])
  <2>1. Same(v, [v EXCEPT !.lane[a].steering = TRUE, !.task[s] = x])
    BY DEF Fields, Same
  <2> QED
    BY <2>1, Memory
<1> DEFINE l == v.lane[a]
           x == IF a \in v.sess /\ l.active = v.target[Head(l.ctl)] /\ l.prompt THEN "wire" ELSE "okay"
<1>2. Step(v, Schedule(v, off))
  BY ScheduleStep
<1>3. \/ ProcessSteering(v, a, off) = v
      \/ ProcessSteering(v, a, off) = Schedule(v, off)
      \/ ProcessSteering(v, a, off) = [v EXCEPT !.lane[a].steering = TRUE, !.task[Head(l.ctl)] = x]
  BY DEF ProcessSteering
<1> HIDE DEF x
<1>4. Step(v, [v EXCEPT !.lane[a].steering = TRUE, !.task[Head(l.ctl)] = x])
  BY <1>1
<1> QED
  BY <1>2, <1>3, <1>4, Stays

LEMMA TurnSettledStep == ASSUME NEW v, NEW c, NEW off PROVE Step(v, TurnSettled(v, c, off))
<1>1. PICK X, T, y, a : 
        LET u == [v EXCEPT !.slots = X, !.turn = T, !.lane[a] = y] IN
        TurnSettled(v, c, off) = Schedule(ProcessSteering(u, a, off), off)
  BY DEF TurnSettled
<1> DEFINE u == [v EXCEPT !.slots = X, !.turn = T, !.lane[a] = y]
<1>2. Step(v, u)
  <2>1. Same(v, u)
    BY DEF Fields, Same
  <2> QED
    BY <2>1, Memory
<1> HIDE DEF u
<1>3. Step(u, ProcessSteering(u, a, off))
  BY SteeringStep
<1>4. Step(ProcessSteering(u, a, off), Schedule(ProcessSteering(u, a, off), off))
  BY ScheduleStep
<1>5. Step(v, Schedule(ProcessSteering(u, a, off), off))
  BY <1>2, <1>3, <1>4, Then
<1> QED
  BY <1>1, <1>5 DEF u

LEMMA CancelStep == ASSUME NEW v, NEW a, NEW t, NEW off PROVE Step(v, RequestCancel(v, a, t, off))
<1> DEFINE u == [v EXCEPT !.turn[t] = "settled"]
           s == SettleStored(u, t, "reject")
           p == [s EXCEPT !.lane[a].q = Without(@, t)]
           d == SettleStored(v, t, "reject")
           l == v.lane[a]
           k == [d EXCEPT
                  !.turn = [q \in Queues |-> IF q = t THEN "cancelling" ELSE v.turn[q]],
                  !.lane[a].cancelling = t,
                  !.lane[a].timer = l.prompt /\ a \in v.sess]
<1>1. \/ RequestCancel(v, a, t, off) = v
      \/ RequestCancel(v, a, t, off) = Schedule(p, off)
      \/ RequestCancel(v, a, t, off) = k
  BY DEF RequestCancel
<1>2. Step(v, u)
  <2>1. Same(v, u)
    BY DEF Fields, Same
  <2> QED
    BY <2>1, Memory
<1>3. Step(u, s) /\ Step(v, d)
  BY SettleStep DEF Final
<1> HIDE DEF u, s, d
<1>4. Step(s, p)
  <2>1. Same(s, p)
    BY DEF Fields, Same
  <2> QED
    BY <2>1, Memory
<1>5. Step(d, k)
  <2>1. Same(d, k)
    BY DEF Fields, Same
  <2> QED
    BY <2>1, Memory
<1> HIDE DEF p, k
<1>6. Step(p, Schedule(p, off))
  BY ScheduleStep
<1>7. Step(v, Schedule(p, off)) /\ Step(v, k)
  BY <1>2, <1>3, <1>4, <1>5, <1>6, Then
<1> QED
  BY <1>1, <1>7, Stays

LEMMA CancelFoundingStep == ASSUME NEW v, NEW a, NEW off PROVE Step(v, CancelFounding(v, a, off))
<1> DEFINE s == SettleStored(v, a, "reject")
           u == [s EXCEPT !.dq = @ \ {a}, !.slots = @ \ {a},
                          !.stopped = IF v.task[a] = "open" THEN @ \cup {a} ELSE @,
                          !.lane[a].active = None, !.lane[a].st = "fatal"]
           f == FailQueued(u, {a})
<1>1. CancelFounding(v, a, off) = v \/ CancelFounding(v, a, off) = Schedule(f, off)
  BY DEF CancelFounding
<1>2. Step(v, s)
  BY SettleStep DEF Final
<1> HIDE DEF s
<1>3. Step(s, u)
  <2>1. Same(s, u)
    BY DEF Fields, Same
  <2> QED
    BY <2>1, Memory
<1> HIDE DEF u
<1>4. Step(u, f)
  BY FailQueuedStep
<1> HIDE DEF f
<1>5. Step(f, Schedule(f, off))
  BY ScheduleStep
<1>6. Step(v, Schedule(f, off))
  BY <1>2, <1>3, <1>4, <1>5, Then
<1> QED
  BY <1>1, <1>6, Stays

-----------------------------------------------------------------------------
(* The drain and the restore *)

LEMMA CutOffStep == ASSUME NEW v PROVE Step(v, CutOff(v))
<1>1. PICK S, X : CutOff(v) = [SettleAll(v, S, "reject") EXCEPT !.slots = @ \ X]
  BY DEF CutOff
<1> DEFINE s == SettleAll(v, S, "reject")
<1>2. Step(v, s)
  BY SettleAllStep DEF Final
<1>3. CutOff(v) = [s EXCEPT !.slots = @ \ X]
  BY <1>1
<1> HIDE DEF s
<1>4. Step(s, CutOff(v))
  <2>1. Same(s, CutOff(v))
    BY <1>3 DEF Fields, Same
  <2> QED
    BY <2>1, Memory
<1> QED
  BY <1>2, <1>4, Then

LEMMA ReleaseAllStep == ASSUME NEW v PROVE Step(v, ReleaseAll(v))
<1>1. Same(v, ReleaseAll(v))
  BY DEF Fields, ReleaseAll, Same
<1> QED
  BY <1>1, Memory

LEMMA RebuiltStep == ASSUME NEW v PROVE Step(v, Rebuilt(v))
<1>1. PICK T, X, K, R, L : Rebuilt(v) = [v EXCEPT !.turn = T, !.slots = X, !.task = K,
                                                  !.relo = R, !.lane = L]
  BY DEF Rebuilt
<1>2. Same(v, Rebuilt(v))
  BY <1>1 DEF Fields, Same
<1> QED
  BY <1>2, Memory

-----------------------------------------------------------------------------
(* Every handler *)

\* What the handlers do, those of new calls included.
Handled == Sound(w') /\ Durable(w, w')

LEMMA StepHandled == ASSUME Sound(w), Step(w, w') PROVE Handled
BY DEF Step, Handled

LEMMA MintHandled ==
  ASSUME Sound(w), NEW c \in Calls, Mint(c), Step(Minted(c), w') PROVE Handled
<1> DEFINE u == Minted(c)
<1>1. Sound(u) /\ Durable(w, u)
  BY MintedSound DEF Mint
<1> HIDE DEF u
<1>2. Sound(w') /\ Durable(u, w')
  BY <1>1 DEF Step, u
<1> QED
  BY <1>1, <1>2 DEF Handled, Durable

\* A minted call that is refused.
LEMMA RefusedStep ==
  ASSUME Sound(w), NEW c \in Calls, Mint(c), NEW o \in Final
  PROVE  Step(Minted(c), SettleDirect(Minted(c), c, o))
<1>1. Sound(Minted(c)) /\ Minted(c).led[c].rec
      /\ (c \in Apart(Minted(c)) \/ Minted(c).led[c].done = "none")
  BY MintedSound DEF Mint
<1> QED
  BY <1>1, SettleDirectStep

\* A queue call whose record, or the mark after it, cannot be written.
LEMMA UnwrittenHandled ==
  ASSUME Sound(w), NEW q \in Calls, Mint(q), NEW a, NEW t,
         t = Minted(q) \/ t = [w EXCEPT !.n = @ + 1],
         w' = [PersistenceFatal(t, {a}, {q}) EXCEPT !.vm[q] = "reject"]
  PROVE  Handled
<1> DEFINE u == PersistenceFatal(t, {a}, {q})
<1>1. Sound(t) /\ Durable(w, t)
  <2>1. CASE t = Minted(q)
    BY <2>1, MintedSound DEF Mint
  <2>2. CASE t = [w EXCEPT !.n = @ + 1]
    <3>1. /\ DOMAIN t = Fields /\ t.led = w.led /\ t.vm = w.vm /\ t.n = w.n + 1
          /\ t.reused = w.reused /\ t.unsaved = w.unsaved
      BY <2>2 DEF Sound, Fields
    <3> QED
      BY <3>1 DEF Sound, Durable, Apart
  <2> QED
    BY <2>1, <2>2
<1>2. Sound(u) /\ Durable(t, u) /\ q \in u.unsaved
  <2>1. q \in u.unsaved
    BY <1>1 DEF PersistenceFatal, Sound, Fields
  <2> QED
    BY <1>1, <2>1, PersistenceFatalStep DEF Step
<1> HIDE DEF u
<1>3. /\ DOMAIN w' = Fields /\ w'.led = u.led /\ w'.n = u.n
      /\ w'.vm = [u.vm EXCEPT ![q] = "reject"] /\ Apart(w') = Apart(u)
  BY <1>2 DEF u, Sound, Fields, Apart
<1>4. /\ w'.vm \in [Calls -> Guest]
      /\ \A c \in Calls : w'.vm[c] = IF c = q THEN "reject" ELSE u.vm[c]
  BY <1>2, <1>3 DEF Sound, Guest
<1>5. Agrees(w'.led, w'.vm, Apart(w'))
  <2>1. \A c \in Calls \ Apart(w') : c \in Calls \ Apart(u) /\ w'.vm[c] = u.vm[c]
    BY <1>2, <1>3, <1>4 DEF Apart
  <2>2. Agrees(u.led, u.vm, Apart(u))
    BY <1>2 DEF Sound
  <2>3. \A c \in Calls : w'.vm[c] = "pending" => u.vm[c] = "pending"
    BY <1>4
  <2> QED
    BY <1>3, <2>1, <2>2, <2>3 DEF Agrees
<1>6. Sound(w')
  BY <1>2, <1>3, <1>4, <1>5 DEF Sound
<1>7. Durable(w, u)
  BY <1>1, <1>2 DEF Durable
<1>8. Durable(w, w')
  <2>1. \A c \in Calls : u.vm[c] # "unborn" => w'.vm[c] # "unborn"
    BY <1>4
  <2> QED
    BY <1>3, <1>7, <2>1 DEF Durable
<1> QED
  BY <1>6, <1>8 DEF Handled

LEMMA NewCallHandled ==
  ASSUME Sound(w),
         \/ \E a \in Agents : NewAgent(a)
         \/ \E q \in Queues : NewQueue(q)
         \/ \E s \in Steers : NewSteer(s)
  PROVE  Handled
<1>1. ASSUME NEW a \in Agents, NewAgent(a) PROVE Handled
  <2> DEFINE u == Minted(a)
             v == [u EXCEPT !.lane[a] = [NewLane("opening") EXCEPT !.active = a], !.dq = @ \cup {a}]
  <2>1. a \in Calls /\ Mint(a)
    BY <1>1 DEF NewAgent, Calls, Turns
  <2>2. CASE w' = SettleDirect(u, a, "reject")
    BY <2>1, <2>2, RefusedStep, MintHandled DEF Final
  <2>3. CASE w' = Schedule(v, Undrained # "off")
    <3>1. Step(u, v)
      <4> HIDE DEF u
      <4>1. Same(u, v)
        BY DEF Fields, Same
      <4> QED
        BY <4>1, Memory
    <3>2. Step(u, w')
      <4> HIDE DEF u, v
      <4> QED
        BY <2>3, <3>1, ScheduleStep, Then
    <3> QED
      BY <2>1, <3>2, MintHandled
  <2> QED
    BY <1>1, <2>2, <2>3 DEF NewAgent
<1>2. ASSUME NEW q \in Queues, NewQueue(q) PROVE Handled
  <2> DEFINE a == Session[q]
             u == Minted(q)
             l == IF w.lane[a].st # "none" THEN w.lane[a]
                  ELSE NewLane(IF u.led[a].done = "none" THEN "opening" ELSE "released")
             v == [u EXCEPT !.turn[q] = "pending", !.lane[a] = [l EXCEPT !.q = Append(@, q)]]
             off == Undrained # "off"
  <2>1. q \in Calls /\ Mint(q)
    BY <1>2 DEF NewQueue, Calls, Turns
  <2>2. CASE w' = SettleDirect(u, q, "reject")
    BY <2>1, <2>2, RefusedStep, MintHandled DEF Final
  <2>3. CASE w' = Schedule(Reattach(v), off) \/ w' = Schedule(v, off)
    <3>1. Step(u, v)
      <4> HIDE DEF u, l
      <4>1. Same(u, v)
        BY DEF Fields, Same
      <4> QED
        BY <4>1, Memory
    <3>2. Step(u, w')
      <4> HIDE DEF u, v
      <4>1. Step(u, Reattach(v))
        BY <3>1, ReattachStep, Then
      <4>2. Step(u, Schedule(v, off)) /\ Step(u, Schedule(Reattach(v), off))
        BY <3>1, <4>1, ScheduleStep, Then
      <4> QED
        BY <2>3, <4>2
    <3> QED
      BY <2>1, <3>2, MintHandled
  <2>4. ASSUME NEW t, t = u \/ t = [w EXCEPT !.n = @ + 1],
               w' = [PersistenceFatal(t, {a}, {q}) EXCEPT !.vm[q] = "reject"]
        PROVE  Handled
    BY <2>1, <2>4, UnwrittenHandled
  <2>5. \/ w' = SettleDirect(u, q, "reject")
        \/ w' = Schedule(Reattach(v), off) \/ w' = Schedule(v, off)
        \/ \E t \in {u, [w EXCEPT !.n = @ + 1]} :
              w' = [PersistenceFatal(t, {a}, {q}) EXCEPT !.vm[q] = "reject"]
    BY <1>2, Zenon DEF NewQueue
  <2> QED
    BY <2>2, <2>3, <2>4, <2>5
<1>3. ASSUME NEW s \in Steers, NewSteer(s) PROVE Handled
  <2> DEFINE a == Session[s]
             u == Minted(s)
             v == [u EXCEPT !.target[s] = w.lane[a].active, !.lane[a].ctl = Append(@, s)]
  <2>1. s \in Calls /\ Mint(s)
    BY <1>3 DEF NewSteer, Calls
  <2>2. CASE w' = SettleDirect(u, s, "resolve")
    BY <2>1, <2>2, RefusedStep, MintHandled DEF Final
  <2>3. CASE w' = ProcessSteering(v, a, draining)
    <3>1. Step(u, v)
      <4> HIDE DEF u
      <4>1. Same(u, v)
        BY DEF Fields, Same
      <4> QED
        BY <4>1, Memory
    <3>2. Step(u, w')
      <4> HIDE DEF u, v
      <4> QED
        BY <2>3, <3>1, SteeringStep, Then
    <3> QED
      BY <2>1, <3>2, MintHandled
  <2> QED
    BY <1>3, <2>2, <2>3 DEF NewSteer
<1> QED
  BY <1>1, <1>2, <1>3

\* recordSession and recordHandoff touch no record and no completion.
LEMMA MarkedLedger ==
  ASSUME NEW L, L \in [Calls -> Entry], NEW c \in Calls, NEW M,
         M = [L EXCEPT ![c].sess = TRUE] \/ M = [L EXCEPT ![c].handoff = TRUE]
  PROVE  /\ M \in [Calls -> Entry]
         /\ \A d \in Calls : M[d].rec = L[d].rec /\ M[d].done = L[d].done
<1>1. PICK e : /\ M = [L EXCEPT ![c] = e]
               /\ e = [L[c] EXCEPT !.sess = TRUE] \/ e = [L[c] EXCEPT !.handoff = TRUE]
  OBVIOUS
<1>2. e \in Entry /\ e.rec = L[c].rec /\ e.done = L[c].done
  <2>1. L[c] \in Entry
    OBVIOUS
  <2>2. \A f \in Entry : LET s == [f EXCEPT !.sess = TRUE]
                             h == [f EXCEPT !.handoff = TRUE] IN
          /\ s \in Entry /\ s.rec = f.rec /\ s.done = f.done
          /\ h \in Entry /\ h.rec = f.rec /\ h.done = f.done
    BY DEF Entry
  <2> QED
    BY <1>1, <2>1, <2>2
<1> QED
  BY <1>1, <1>2

LEMMA MarkStep ==
  ASSUME NEW u, NEW c \in Calls, DOMAIN u = Fields, u.vm = w.vm, u.n = w.n,
         u.reused = w.reused, u.unsaved = w.unsaved,
         u.led = [w.led EXCEPT ![c].sess = TRUE] \/ u.led = [w.led EXCEPT ![c].handoff = TRUE]
  PROVE  Step(w, u)
<1> SUFFICES ASSUME Sound(w) PROVE Sound(u) /\ Durable(w, u)
  BY DEF Step
<1>1. w.led \in [Calls -> Entry]
  BY DEF Sound
<1>2. /\ u.led \in [Calls -> Entry]
      /\ \A d \in Calls : u.led[d].rec = w.led[d].rec /\ u.led[d].done = w.led[d].done
  BY <1>1, MarkedLedger
<1>3. Agrees(u.led, u.vm, Apart(u))
  BY <1>2 DEF Sound, Agrees, Apart
<1>4. Durable(w, u)
  BY <1>2 DEF Durable, Apart
<1> QED
  BY <1>2, <1>3, <1>4 DEF Sound

LEMMA CancelHandled ==
  ASSUME \/ \E a \in Agents : CancelSession(a) \/ CancelTimeout(a) \/ SessionReleased(a)
         \/ \E q \in Queues : CancelQueued(q)
  PROVE  Step(w, w')
<1>1. ASSUME NEW a \in Agents, CancelSession(a) PROVE Step(w, w')
  BY <1>1, CancelFoundingStep, CancelStep, PersistenceFatalStep DEF CancelSession
<1>2. ASSUME NEW a \in Agents, CancelTimeout(a) \/ SessionReleased(a) PROVE Step(w, w')
  BY <1>2, FatalStep DEF CancelTimeout, SessionReleased
<1>3. ASSUME NEW q \in Queues, CancelQueued(q) PROVE Step(w, w')
  BY <1>3, CancelStep, PersistenceFatalStep DEF CancelQueued
<1> QED
  BY <1>1, <1>2, <1>3

LEMMA OpenLandsStep == ASSUME NEW a \in Agents, OpenLands(a), Sound(w) PROVE Step(w, w')
<1> DEFINE f == FailQueued(w, {a})
           u == [w EXCEPT !.task[a] = "prompt", !.sess = @ \cup {a}, !.led[a].sess = TRUE,
                          !.lane[a].st = "usable", !.lane[a].active = a, !.lane[a].prompt = TRUE]
<1>1. CASE w' = [f EXCEPT !.task[a] = "bad", !.stopped = @ \ {a},
                          !.lane[a].prompt = @ /\ w.lane[a].active # a]
  <2>1. Step(w, f)
    BY FailQueuedStep
  <2> HIDE DEF f
  <2>2. Same(f, w')
    BY <1>1 DEF Same, Fields
  <2> QED
    BY <2>1, <2>2, Memory, Then
<1>2. CASE w' = u
  <2>1. /\ DOMAIN u = Fields /\ u.vm = w.vm /\ u.n = w.n
        /\ u.led = [w.led EXCEPT ![a].sess = TRUE]
        /\ u.reused = w.reused /\ u.unsaved = w.unsaved
    BY DEF Sound, Fields
  <2>2. a \in Calls
    BY DEF Calls, Turns
  <2> HIDE DEF u
  <2> QED
    BY <1>2, <2>1, <2>2, MarkStep
<1> QED
  BY <1>1, <1>2 DEF OpenLands

LEMMA HandoffStep == ASSUME NEW q \in Queues, Handoff(q), Sound(w) PROVE Step(w, w')
<1> DEFINE u == [w EXCEPT !.led[q].handoff = TRUE]
           f == PersistenceFatal(w, {Session[q]}, {q})
           g == [f EXCEPT !.task[q] = "bad", !.lane[Session[q]].prompt = FALSE]
<1>1. /\ DOMAIN u = Fields /\ u.vm = w.vm /\ u.n = w.n
      /\ u.led = [w.led EXCEPT ![q].handoff = TRUE]
      /\ u.reused = w.reused /\ u.unsaved = w.unsaved
  BY DEF Sound, Fields
<1>2. q \in Calls /\ (w' = u \/ w' = g)
  BY DEF Handoff, Calls, Turns
<1> HIDE DEF u
<1>3. Step(w, u)
  BY <1>1, <1>2, MarkStep
<1>4. Step(w, f)
  BY PersistenceFatalStep
<1> HIDE DEF f
<1>5. Same(f, g)
  BY DEF Fields, Same
<1> QED
  BY <1>2, <1>3, <1>4, <1>5, Memory, Then

LEMMA ReattachLandsStep == ASSUME NEW a \in Agents, ReattachLands(a) PROVE Step(w, w')
<1> DEFINE u == [w EXCEPT !.relo[a] = "none"]
           t == [w EXCEPT !.late = @ \ {a}]
<1>1. PICK X, Y, S, l :
        \/ w' = MarkLaneFatal(t, a, draining)
        \/ w' = MarkLaneFatal([u EXCEPT !.task = X], a, draining)
        \/ w' = Schedule([u EXCEPT !.sess = S, !.lane[a].st = l, !.task = Y], draining)
  BY DEF ReattachLands
<1> DEFINE g == [u EXCEPT !.task = X]
           k == [u EXCEPT !.sess = S, !.lane[a].st = l, !.task = Y]
<1>2. Same(w, t) /\ Same(w, g) /\ Same(w, k)
  BY DEF Same, Fields
<1>3. w' = MarkLaneFatal(t, a, draining) \/ w' = MarkLaneFatal(g, a, draining)
      \/ w' = Schedule(k, draining)
  BY <1>1
<1> HIDE DEF t, g, k
<1>4. /\ Step(t, MarkLaneFatal(t, a, draining)) /\ Step(g, MarkLaneFatal(g, a, draining))
      /\ Step(k, Schedule(k, draining))
  BY FatalStep, ScheduleStep
<1>5. /\ Step(w, MarkLaneFatal(t, a, draining)) /\ Step(w, MarkLaneFatal(g, a, draining))
      /\ Step(w, Schedule(k, draining))
  BY <1>2, <1>4, Memory, Then
<1> QED
  BY <1>3, <1>5

\* A turn or a steer is at its end for its backend: the broker is told, and
\* its lane may go.
LEMMA TurnEndsStep ==
  ASSUME \/ \E a \in Agents : LoadedTurnEnds(a) \/ ReissueReattached(a)
         \/ \E q \in Queues : RestoredTurnEnds(q)
         \/ \E c \in Turns : PromptEnds(c)
         \/ \E s \in Steers : SteerAnswers(s)
  PROVE  Step(w, w')
<1>1. ASSUME NEW c, NEW x PROVE Same(w, [w EXCEPT !.task[c] = x])
  BY DEF Same, Fields
<1>2. ASSUME NEW c, NEW x, NEW a PROVE Step(w, MarkLaneFatal([w EXCEPT !.task[c] = x], a, draining))
  <2> DEFINE u == [w EXCEPT !.task[c] = x]
  <2>1. Step(w, u)
    BY <1>1, Memory
  <2> HIDE DEF u
  <2>2. Step(w, MarkLaneFatal(u, a, draining))
    BY <2>1, FatalStep, Then
  <2> QED
    BY <2>2 DEF u
<1>3. ASSUME NEW a \in Agents, LoadedTurnEnds(a) PROVE Step(w, w')
  <2>1. Same(w, w')
    BY <1>3 DEF LoadedTurnEnds, Same, Fields
  <2> QED
    BY <2>1, Memory
<1>4. ASSUME NEW a \in Agents, ReissueReattached(a) PROVE Step(w, w')
  <2>1. Same(w, w')
    BY <1>4 DEF ReissueReattached, Same, Fields
  <2> QED
    BY <2>1, Memory
<1>5. ASSUME NEW q \in Queues, RestoredTurnEnds(q) PROVE Step(w, w')
  BY <1>1, <1>2, <1>5, Memory DEF RestoredTurnEnds
<1>6. ASSUME NEW c \in Turns, PromptEnds(c) PROVE Step(w, w')
  <2>1. Same(w, w')
    BY <1>6 DEF PromptEnds, Same, Fields
  <2> QED
    BY <2>1, Memory
<1>7. ASSUME NEW s \in Steers, SteerAnswers(s) PROVE Step(w, w')
  BY <1>1, <1>2, <1>7, Memory DEF SteerAnswers
<1> QED
  BY <1>3, <1>4, <1>5, <1>6, <1>7

LEMMA DeliverStep == ASSUME NEW c \in Calls, Deliver(c) PROVE Step(w, w')
<1> DEFINE u == [w EXCEPT !.task[c] = "none"]
           o == IF w.task[c] = "okay" THEN "resolve" ELSE "reject"
           v == SettleStored(u, c, o)
           a == SessionOf(c)
           k == [v EXCEPT !.lane[a].ctl = Without(@, c), !.lane[a].steering = FALSE]
<1>1. \/ w' = u
      \/ w' = TurnSettled(v, c, draining)
      \/ w' = ProcessSteering(k, a, draining)
  BY DEF Deliver
<1>2. Step(w, u)
  <2>1. Same(w, u)
    BY DEF Same, Fields
  <2> QED
    BY <2>1, Memory
<1>3. Step(u, v)
  BY SettleStep DEF Final
<1> HIDE DEF u, v, o, a
<1>4. Step(v, k)
  <2>1. Same(v, k)
    BY DEF Same, Fields
  <2> QED
    BY <2>1, Memory
<1> HIDE DEF k
<1>5. Step(w, v)
  BY <1>2, <1>3, Then
<1>6. Step(w, k)
  BY <1>4, <1>5, Then
<1>7. Step(w, TurnSettled(v, c, draining)) /\ Step(w, ProcessSteering(k, a, draining))
  BY <1>5, <1>6, TurnSettledStep, SteeringStep, Then
<1> QED
  BY <1>1, <1>2, <1>7

LEMMA CutStep == ASSUME NEW F, Cut(F) PROVE Step(w, w')
<1> DEFINE A == {a \in w.sess : w.lane[a].active # None}
           T == {w.lane[a].active : a \in A}
           failed == {w.lane[a].active : a \in F}
           s == SettleAll(w, T \ failed, "reject")
           new(a) == a \in A /\ w.led[w.lane[a].active].done = "none"
           X == Opening \cup {a \in Agents : w.task[a] = "release"}
           Y == [a \in Agents |-> IF s.relo[a] = "fresh" THEN "stale" ELSE s.relo[a]]
           Z == [q \in Queues |-> IF q \in T /\ w.led[q].done = "none"
                                   THEN "cancelling" ELSE s.turn[q]]
           L == [a \in Agents |->
                   IF new(a) THEN [s.lane[a] EXCEPT !.cancelling = w.lane[a].active,
                                                    !.timer = w.lane[a].prompt]
                   ELSE s.lane[a]]
           k == [s EXCEPT !.stopped = @ \cup X, !.relo = Y, !.turn = Z, !.lane = L]
<1>1. w' = PersistenceFatal(k, F, failed)
  BY DEF Cut
<1>2. Step(w, s)
  BY SettleAllStep DEF Final
<1> HIDE DEF s, X, Y, Z, L
<1>3. Same(s, k)
  BY DEF Same, Fields
<1>4. Step(w, k)
  BY <1>2, <1>3, Memory, Then
<1> HIDE DEF k, failed
<1> QED
  BY <1>1, <1>4, PersistenceFatalStep, Then

LEMMA DrainStep ==
  ASSUME StartDrain \/ DrainCut \/ StopAll \/ FinishDrain \/ AbortDrain PROVE Step(w, w')
<1>1. CASE StartDrain \/ AbortDrain
  BY <1>1, Stays DEF StartDrain, AbortDrain
<1>2. CASE DrainCut
  BY <1>2, CutStep DEF DrainCut
<1>3. CASE StopAll
  BY <1>3, CutOffStep DEF StopAll
<1>4. CASE FinishDrain
  BY <1>4, ReleaseAllStep DEF FinishDrain
<1> QED
  BY <1>1, <1>2, <1>3, <1>4

LEMMA ReissueStep == ASSUME NEW v, NEW a PROVE Step(v, Reissue(v, a))
<1> DEFINE u == [v EXCEPT !.dq = @ \cup {a}]
<1>1. Same(v, u)
  BY DEF Same, Fields
<1> HIDE DEF u
<1>2. Step(v, Schedule(u, draining))
  BY <1>1, Memory, ScheduleStep, Then
<1> QED
  BY <1>2 DEF u, Reissue

LEMMA RestoreStep ==
  ASSUME \/ FinishReconcile \/ \E c \in Calls : ReconcileStep(c)
         \/ \E a \in Agents : RestoreLands(a)
  PROVE  Step(w, w')
<1>1. CASE FinishReconcile
  <2>1. \/ w' = Schedule(Rebuilt(w), draining)
        \/ w' = Schedule(Reattach(Rebuilt(w)), draining)
    BY <1>1 DEF FinishReconcile
  <2>2. Step(w, Reattach(Rebuilt(w)))
    BY RebuiltStep, ReattachStep, Then
  <2> QED
    BY <2>1, <2>2, RebuiltStep, ScheduleStep, Then
<1>2. ASSUME NEW c \in Calls, ReconcileStep(c) PROVE Step(w, w')
  <2> DEFINE u == [w EXCEPT !.task[c] = "reload"]
  <2>1. \/ w' = SettleStored(w, c, "reject") \/ w' = w
        \/ w' = Reissue(w, c) \/ w' = u
    BY <1>2 DEF ReconcileStep
  <2>2. Same(w, u)
    BY DEF Same, Fields
  <2> HIDE DEF u
  <2> QED
    BY <2>1, <2>2, ReissueStep, SettleStep, Memory, Stays DEF Final
<1>3. ASSUME NEW a \in Agents, RestoreLands(a) PROVE Step(w, w')
  <2> DEFINE u == [w EXCEPT !.task[a] = "none"]
             k == [u EXCEPT !.stopped = @ \ {a}]
  <2>1. w' = k \/ w' = Reissue(u, a) \/ w' = Register(u, a)
    BY <1>3 DEF RestoreLands
  <2>2. Same(w, u)
    BY DEF Same, Fields
  <2> HIDE DEF u
  <2>3. Same(u, k) /\ Same(u, Register(u, a))
    BY DEF Register, Same, Fields
  <2> QED
    BY <2>1, <2>2, <2>3, ReissueStep, Memory, Then
<1> QED
  BY <1>1, <1>2, <1>3

-----------------------------------------------------------------------------
(* The theorems *)

LEMMA InitInv == Init => IInv
<1> SUFFICES ASSUME Init PROVE IInv
  OBVIOUS
<1>1. /\ DOMAIN w = Fields /\ w.n = 0
      /\ w.led = [c \in Calls |-> Unborn] /\ w.vm = [c \in Calls |-> "unborn"]
  BY DEF Init, Attached, Fields
<1>2. Unborn \in Entry
  BY DEF Unborn, Entry
<1>3. Sound(w)
  BY <1>1, <1>2 DEF Sound, Agrees, Guest, Final
<1> QED
  BY <1>1, <1>3 DEF IInv, Init, Agrees, Guest, Final

\* A step keeps the invariant, and a step that forgets anything is a crash.
LEMMA NextInv == ASSUME IInv, Next PROVE IInv' /\ (Durable(w, w') \/ Crash)
<1> DEFINE Kind == IInv' /\ (Durable(w, w') \/ Crash)
<1>1. Sound(w)
  BY DEF IInv
<1>2. ASSUME Handled, snap' = snap PROVE IInv'
  <2>1. Sound(w')
    BY <1>2 DEF Handled
  <2>2. Agrees(w'.led, snap, Apart(w'))
    <3> SUFFICES ASSUME NEW c \in Calls \ Apart(w')
                 PROVE  /\ snap[c] # "unborn" => w'.led[c].rec
                        /\ snap[c] \in Final => w'.led[c].done = snap[c]
      BY <1>2 DEF Handled, Durable, IInv, Agrees
    <3>1. /\ c \notin Apart(w)
          /\ w.led[c].rec => w'.led[c].rec
          /\ w.led[c].rec /\ w.led[c].done # "none" => w'.led[c].done = w.led[c].done
      BY <1>2 DEF Handled, Durable
    <3>2. /\ snap[c] # "unborn" => w.led[c].rec
          /\ snap[c] \in Final => w.led[c].done = snap[c]
      BY <3>1 DEF IInv, Agrees
    <3> QED
      BY <3>1, <3>2 DEF Final
  <2>3. \A c \in Calls : snap[c] # "unborn" => w'.vm[c] # "unborn"
    BY <1>2 DEF Handled, IInv, Durable
  <2> QED
    BY <1>2, <2>1, <2>2, <2>3 DEF IInv
<1>3. ASSUME Step(w, w'), snap' = snap PROVE Kind
  BY <1>1, <1>2, <1>3, StepHandled DEF Handled
<1>4. CASE \/ \E a \in Agents : NewAgent(a)
           \/ \E q \in Queues : NewQueue(q)
           \/ \E s \in Steers : NewSteer(s)
  <2>1. Handled
    BY <1>1, <1>4, NewCallHandled
  <2>2. snap' = snap
    BY <1>4 DEF NewAgent, NewQueue, NewSteer, Mint
  <2> QED
    BY <1>2, <2>1, <2>2 DEF Handled
<1>5. CASE \/ \E a \in Agents : CancelSession(a) \/ CancelTimeout(a) \/ SessionReleased(a)
           \/ \E q \in Queues : CancelQueued(q)
  <2>1. snap' = snap
    BY <1>5 DEF CancelSession, CancelTimeout, SessionReleased, CancelQueued, Kept
  <2> QED
    BY <1>3, <1>5, <2>1, CancelHandled
<1>6. ASSUME NEW c \in Calls, Answer(c) PROVE Kind
  <2>1. snap' = snap
    BY <1>6 DEF Answer, OpenLands, LoadedTurnEnds, ReissueReattached, ReattachLands, Handoff,
          RestoredTurnEnds, PromptEnds, SteerAnswers, Kept
  <2>2. Step(w, w')
    BY <1>1, <1>6, OpenLandsStep, HandoffStep, ReattachLandsStep, TurnEndsStep DEF Answer
  <2> QED
    BY <1>3, <2>1, <2>2
<1>7. ASSUME NEW c \in Calls, Deliver(c) PROVE Kind
  <2>1. snap' = snap
    BY <1>7 DEF Deliver, Kept
  <2> QED
    BY <1>3, <1>7, <2>1, DeliverStep
<1>8. CASE StartDrain \/ DrainCut \/ StopAll \/ FinishDrain \/ AbortDrain
  <2>1. snap' = snap
    BY <1>8 DEF StartDrain, DrainCut, StopAll, FinishDrain, AbortDrain, DrainKept
  <2> QED
    BY <1>3, <1>8, <2>1, DrainStep
<1>9. CASE \/ FinishReconcile \/ \E c \in Calls : ReconcileStep(c)
           \/ \E a \in Agents : RestoreLands(a)
  <2>1. snap' = snap
    BY <1>9 DEF FinishReconcile, ReconcileStep, RestoreLands
  <2> QED
    BY <1>3, <1>9, <2>1, RestoreStep
<1>10. CASE Flush
  <2>1. w' = w /\ snap' = w.vm
    BY <1>10 DEF Flush
  <2> QED
    BY <2>1 DEF IInv, Sound, Durable
<1>11. CASE Crash
  <2>1. /\ w' = [Attached(w.led, w.order, snap) EXCEPT !.reused = w.reused, !.unsaved = w.unsaved]
        /\ snap' = snap
    BY <1>11 DEF Crash
  <2>2. /\ DOMAIN w' = Fields /\ w'.n = 0 /\ w'.led = w.led /\ w'.vm = snap
        /\ Apart(w') = Apart(w)
    BY <2>1 DEF Attached, Fields, Apart
  <2>3. Sound(w')
    BY <2>2 DEF IInv, Sound
  <2> QED
    BY <1>11, <2>1, <2>2, <2>3 DEF IInv
<1> QED
  BY <1>4, <1>5, <1>6, <1>7, <1>8, <1>9, <1>10, <1>11 DEF Next

LEMMA Inv == Spec => []IInv
<1>1. Init => IInv
  BY InitInv
<1>2. IInv /\ [Next]_vars => IInv'
  <2>1. ASSUME IInv, UNCHANGED vars PROVE IInv'
    BY <2>1 DEF vars, IInv, Sound
  <2> QED
    BY <2>1, NextInv
<1> QED
  BY <1>1, <1>2, PTL DEF Spec

\* The ledger, the guest registry and the snapshot keep their types, whatever
\* ids the guest mints and whatever write of the ledger fails.
THEOREM TypeCorrect == Spec => []TypeOK
<1>1. IInv => TypeOK
  BY DEF IInv, Sound, TypeOK, Entry, Guest
<1> QED
  BY <1>1, Inv, PTL

\* Record, settle, consume: through any cancels, late answers, drains, failed
\* writes and crashes, what the guest or a snapshot knows has its record in the
\* ledger, and what the guest was answered is the completion there, of every call
\* that was neither minted again nor given up because the ledger could not be written.
THEOREM LedgerIsFirst == Spec => []LedgerFirst
<1>1. IInv => LedgerFirst
  <2> SUFFICES ASSUME IInv, NEW c \in Calls \ (w.reused \cup w.unsaved)
               PROVE  /\ w.vm[c] # "unborn" => w.led[c].rec
                      /\ w.vm[c] \in Final => w.led[c].done = w.vm[c]
                      /\ snap[c] \in Final => w.led[c].done = snap[c]
    BY DEF LedgerFirst, Final
  <2>1. c \in Calls \ Apart(w)
    BY DEF Apart
  <2>2. Agrees(w.led, w.vm, Apart(w)) /\ Agrees(w.led, snap, Apart(w))
    BY DEF IInv, Sound
  <2> QED
    BY <2>1, <2>2 DEF Agrees
<1> QED
  BY <1>1, Inv, PTL

-----------------------------------------------------------------------------
(* Sequences and ranks *)

LEMMA RanOf == ASSUME NEW S, NEW s \in Seq(S) PROVE IsFiniteSet(Ran(s)) /\ Ran(s) \subseteq S
<1>1. Len(s) \in Nat /\ DOMAIN s = 1 .. Len(s) /\ s \in [1 .. Len(s) -> S]
  OBVIOUS
<1>2. s \in Surjection(1 .. Len(s), Ran(s))
  BY <1>1 DEF Surjection, Ran
<1>3. IsFiniteSet(1 .. Len(s))
  BY <1>1, FS_Interval
<1> QED
  BY <1>1, <1>2, <1>3, FS_Surjection DEF Ran

\* One more record: what was recorded stays so.
LEMMA RanAppend == ASSUME NEW S, NEW s \in Seq(S), NEW x \in S
                   PROVE Append(s, x) \in Seq(S) /\ Ran(Append(s, x)) = Ran(s) \cup {x}
<1> DEFINE t == Append(s, x)
<1>1. t \in Seq(S) /\ Len(t) = Len(s) + 1 /\ Len(s) \in Nat
  OBVIOUS
<1>2. \A i \in 1 .. Len(s) : t[i] = s[i]
  OBVIOUS
<1>3. t[Len(s) + 1] = x
  OBVIOUS
<1>4. DOMAIN t = 1 .. Len(s) + 1 /\ DOMAIN s = 1 .. Len(s)
  BY <1>1
<1> HIDE DEF t
<1>5. Ran(s) \cup {x} \subseteq Ran(t)
  <2>1. \A i \in DOMAIN s : s[i] \in Ran(t)
    BY <1>1, <1>2, <1>4 DEF Ran
  <2>2. x \in Ran(t)
    BY <1>1, <1>3, <1>4 DEF Ran
  <2> QED
    BY <2>1, <2>2 DEF Ran
<1>6. ASSUME NEW i \in DOMAIN t PROVE t[i] \in Ran(s) \cup {x}
  <2>1. CASE i = Len(s) + 1
    BY <1>3, <2>1
  <2>2. CASE i \in 1 .. Len(s)
    BY <1>2, <1>4, <2>2 DEF Ran
  <2> QED
    BY <1>1, <1>4, <2>1, <2>2
<1> QED
  BY <1>1, <1>5, <1>6 DEF Ran, t

LEMMA WithoutSeq == ASSUME NEW S, NEW s \in Seq(S), NEW c PROVE Without(s, c) \in Seq(S)
<1>1. CASE c \notin Ran(s)
  BY <1>1 DEF Without
<1>2. CASE c \in Ran(s)
  <2> DEFINE i == CHOOSE j \in DOMAIN s : s[j] = c
  <2>1. i \in DOMAIN s
    BY <1>2 DEF Ran
  <2> HIDE DEF i
  <2>2. i \in 1 .. Len(s) /\ Len(s) \in Nat
    BY <2>1
  <2>3. SubSeq(s, 1, i - 1) \in Seq(S) /\ SubSeq(s, i + 1, Len(s)) \in Seq(S)
    BY <2>2
  <2>4. Without(s, c) = SubSeq(s, 1, i - 1) \o SubSeq(s, i + 1, Len(s))
    BY <1>2 DEF Without, i
  <2> QED
    BY <2>3, <2>4
<1> QED
  BY <1>1, <1>2

\* In a finite set with a strict total order R no two elements have the same
\* number of smaller ones.
Ranks(S, R) == [x \in S |-> Cardinality({y \in S : <<y, x>> \in R})]

LEMMA RanksDiffer ==
  ASSUME NEW S, IsFiniteSet(S), NEW R,
         \A x \in S : <<x, x>> \notin R,
         \A x, y, z \in S : <<x, y>> \in R /\ <<y, z>> \in R => <<x, z>> \in R,
         \A x, y \in S : x = y \/ <<x, y>> \in R \/ <<y, x>> \in R
  PROVE  Ranks(S, R) \in Injection(S, 0 .. Cardinality(S) - 1)
<1> DEFINE below(x) == {y \in S : <<y, x>> \in R}
           rank == Ranks(S, R)
<1>1. Cardinality(S) \in Nat
  BY FS_CardinalityType
<1>2. \A x \in S : IsFiniteSet(below(x)) /\ Cardinality(below(x)) \in 0 .. Cardinality(S) - 1
  <2> TAKE x \in S
  <2>1. below(x) \in SUBSET S /\ below(x) # S
    OBVIOUS
  <2>2. IsFiniteSet(below(x)) /\ Cardinality(below(x)) <= Cardinality(S)
        /\ Cardinality(below(x)) # Cardinality(S)
    BY <2>1, FS_Subset
  <2>3. Cardinality(below(x)) \in Nat
    BY <2>2, FS_CardinalityType
  <2> QED
    BY <1>1, <2>2, <2>3
<1>3. ASSUME NEW x \in S, NEW y \in S, <<x, y>> \in R
      PROVE  Cardinality(below(x)) < Cardinality(below(y))
  <2>1. below(x) \in SUBSET below(y)
    BY <1>3
  <2>2. x \in below(y) /\ x \notin below(x)
    BY <1>3
  <2>3. Cardinality(below(x)) <= Cardinality(below(y)) /\ Cardinality(below(x)) # Cardinality(below(y))
    BY <1>2, <2>1, <2>2, FS_Subset
  <2> HIDE DEF below
  <2>4. Cardinality(below(x)) \in Int /\ Cardinality(below(y)) \in Int
    BY <1>1, <1>2
  <2> QED
    BY <2>3, <2>4
<1>4. \A x \in S : rank[x] = Cardinality(below(x))
  BY DEF Ranks
<1>5. rank \in [S -> 0 .. Cardinality(S) - 1]
  BY <1>2, <1>4 DEF Ranks
<1> HIDE DEF below, rank
<1>6. \A x, y \in S : rank[x] = rank[y] => x = y
  <2> SUFFICES ASSUME NEW x \in S, NEW y \in S, x # y PROVE rank[x] # rank[y]
    OBVIOUS
  <2>1. rank[x] \in Int /\ rank[y] \in Int
    BY <1>5
  <2>2. CASE <<x, y>> \in R
    BY <1>3, <1>4, <2>1, <2>2
  <2>3. CASE <<y, x>> \in R
    BY <1>3, <1>4, <2>1, <2>3
  <2> QED
    BY <2>2, <2>3
<1> QED
  BY <1>5, <1>6 DEF Injection, IsInjective, rank

-----------------------------------------------------------------------------
(* Where things are *)

LaneFields == {"st", "active", "prompt", "cancelling", "timer", "q", "ctl", "steering"}
Tasks == {"none", "open", "prompt", "orphan", "await", "load", "reload", "release", "hold", "okay", "bad",
          "wire"}

\* The tasks of a turn that a restore found running at its backend.
Given == {"await", "load", "release", "hold"}

\* Nothing works for the turn; a restore has yet to find it.
Idle == {"none", "reload"}

Known(v) == Ran(v.order)
Line(l, S) == DOMAIN l = LaneFields /\ l.q \in Seq(S \cap Queues)

\* Every turn that waits, stands in a queue or has a slot is in the ledger.
Placed(v) ==
    /\ DOMAIN v = Fields /\ v.n \in Nat /\ v.order \in Seq(Calls)
    /\ v.led \in [Calls -> Entry] /\ v.adm \in [Calls -> Nat] /\ v.task \in [Calls -> Tasks]
    /\ \A c \in Calls : v.led[c].rec => c \in Known(v)
    /\ DOMAIN v.lane = Agents /\ \A a \in Agents : Line(v.lane[a], Known(v))
    /\ v.dq \subseteq Agents \cap Known(v) /\ v.slots \subseteq Turns \cap Known(v)
    /\ \A c \in Calls : v.task[c] = "reload" => c \in Agents /\ v.led[c].rec

\* Apart from the turns X, the slots are within the cap, and are worked for; the
\* sessions of Y are not looked at yet.
Good(v, X, Y) ==
    /\ Placed(v)
    /\ Cardinality(v.slots \ X) <= Cap
    /\ \A c \in v.slots \ X : v.task[c] \notin Idle
    /\ \A c \in Calls : v.task[c] \in Given => c \in X
    /\ \A a \in Y \cap Agents : a \notin v.dq /\ a \notin v.slots /\ v.task[a] # "reload"

LEMMA FewerSlots ==
  ASSUME NEW S, IsFiniteSet(S), NEW T, T \subseteq S, NEW X, Cardinality(S \ X) <= Cap
  PROVE  IsFiniteSet(T) /\ Cardinality(T \ X) <= Cap
<1>1. IsFiniteSet(S \ X) /\ IsFiniteSet(T)
  BY FS_Subset
<1>2. T \ X \in SUBSET (S \ X)
  OBVIOUS
<1>3. IsFiniteSet(T \ X) /\ Cardinality(T \ X) <= Cardinality(S \ X)
  BY <1>1, <1>2, FS_Subset
<1>4. Cardinality(S \ X) \in Nat /\ Cardinality(T \ X) \in Nat
  BY <1>1, <1>3, FS_CardinalityType
<1> QED
  BY <1>1, <1>3, <1>4, BrokerAssumption

LEMMA SlotsFinite == ASSUME NEW v, Placed(v) PROVE IsFiniteSet(v.slots) /\ IsFiniteSet(Known(v))
<1>1. IsFiniteSet(Known(v)) /\ v.slots \subseteq Known(v)
  BY RanOf DEF Placed, Known
<1> QED
  BY <1>1, FS_Subset

\* A step that starts nothing: the ledger keeps its records, and no turn is
\* added to a slot or to the turns that wait.
LEMMA Less ==
  ASSUME NEW v, NEW u, NEW X, NEW Y, Good(v, X, Y),
         DOMAIN u = Fields, u.order = v.order, u.n = v.n, u.adm = v.adm,
         u.led \in [Calls -> Entry], \A c \in Calls : u.led[c].rec = v.led[c].rec,
         DOMAIN u.lane = Agents, \A a \in Agents : Line(u.lane[a], Known(v)),
         u.task \in [Calls -> Tasks],
         u.dq \subseteq v.dq, u.slots \subseteq v.slots,
         \A c \in u.slots \ X : u.task[c] \notin Idle,
         \A c \in Calls : u.task[c] \in Given => c \in X,
         \A c \in Calls : u.task[c] = "reload" => v.task[c] = "reload"
  PROVE  Good(u, X, Y)
<1>1. Placed(v) /\ Cardinality(v.slots \ X) <= Cap
  BY DEF Good
<1>2. Cardinality(u.slots \ X) <= Cap
  BY <1>1, SlotsFinite, FewerSlots
<1>3. Known(u) = Known(v)
  BY DEF Known
<1>4. Placed(u)
  BY <1>1, <1>3 DEF Placed
<1>5. \A a \in Y \cap Agents : a \notin u.dq /\ a \notin u.slots /\ u.task[a] # "reload"
  BY DEF Good, Calls, Turns
<1> QED
  BY <1>2, <1>4, <1>5 DEF Good

\* A step of the lanes alone that starts nothing.
LEMMA Calm ==
  ASSUME NEW v, NEW u, NEW X, NEW Y, Good(v, X, Y),
         DOMAIN u = Fields, u.order = v.order, u.n = v.n, u.adm = v.adm, u.led = v.led,
         u.task = v.task, u.dq \subseteq v.dq, u.slots \subseteq v.slots,
         DOMAIN u.lane = Agents, \A a \in Agents : Line(u.lane[a], Known(v))
  PROVE  Good(u, X, Y)
<1>1. v.led \in [Calls -> Entry] /\ v.task \in [Calls -> Tasks]
  BY DEF Good, Placed
<1>2. /\ \A c \in v.slots \ X : v.task[c] \notin Idle
      /\ \A c \in Calls : v.task[c] \in Given => c \in X
  BY DEF Good
<1> QED
  BY <1>1, <1>2, Less

LEMMA Empty == ASSUME NEW S PROVE <<>> \in Seq(S)
OBVIOUS

LEMMA SettleAllGood ==
  ASSUME NEW v, NEW X, NEW Y, Good(v, X, Y), NEW S, NEW o \in Final
  PROVE  /\ Good(SettleAll(v, S, o), X, Y)
         /\ SettleAll(v, S, o).lane = v.lane /\ SettleAll(v, S, o).slots = v.slots
         /\ SettleAll(v, S, o).order = v.order /\ SettleAll(v, S, o).task = v.task
<1> DEFINE L == [c \in Calls |-> IF c \in S /\ v.led[c].done = "none"
                                 THEN [v.led[c] EXCEPT !.done = o] ELSE v.led[c]]
           V == [c \in Calls |-> IF c \in S /\ v.vm[c] = "pending" THEN L[c].done ELSE v.vm[c]]
           u == SettleAll(v, S, o)
<1>1. u = [v EXCEPT !.led = L, !.vm = V]
  BY DEF SettleAll
<1>2. Placed(v)
  BY DEF Good
<1>3. \A c \in Calls : L[c] \in Entry /\ L[c].rec = v.led[c].rec
  BY <1>2 DEF Placed, Entry, Final
<1>4. L \in [Calls -> Entry]
  BY <1>3
<1> HIDE DEF L, V, u
<1>5. /\ DOMAIN u = Fields /\ u.led = L /\ u.lane = v.lane /\ u.slots = v.slots /\ u.dq = v.dq
      /\ u.task = v.task /\ u.order = v.order /\ u.n = v.n /\ u.adm = v.adm
  BY <1>1, <1>2 DEF Placed, Fields
<1>6. /\ DOMAIN v.lane = Agents /\ \A a \in Agents : Line(v.lane[a], Known(v))
      /\ v.task \in [Calls -> Tasks]
  BY <1>2 DEF Placed
<1>7. /\ \A c \in v.slots \ X : v.task[c] \notin Idle
      /\ \A c \in Calls : v.task[c] \in Given => c \in X
  BY DEF Good
<1>8. Good(u, X, Y)
  BY <1>3, <1>4, <1>5, <1>6, <1>7, Less
<1> QED
  BY <1>5, <1>8 DEF u

LEMMA FailQueuedGood ==
  ASSUME NEW v, NEW X, NEW Y, Good(v, X, Y), NEW A PROVE Good(FailQueued(v, A), X, Y)
<1> DEFINE dead == {q \in Queues : /\ Session[q] \in A /\ q \in Ran(v.lane[Session[q]].q)
                                   /\ v.turn[q] # "settled"}
           queued(a) == v.lane[a].active \in Queues
           T == [q \in Queues |-> IF q \in dead THEN "settled" ELSE v.turn[q]]
           L == [a \in Agents |->
                  IF a \notin A THEN v.lane[a]
                  ELSE [v.lane[a] EXCEPT !.st = "fatal", !.q = <<>>,
                           !.active = IF queued(a) THEN None ELSE @,
                           !.prompt = @ /\ ~queued(a)]]
           s == SettleAll(v, dead, "reject")
           u == FailQueued(v, A)
<1>1. Good(s, X, Y) /\ s.lane = v.lane /\ s.slots = v.slots /\ s.order = v.order
  BY SettleAllGood DEF Final
<1>2. u = [s EXCEPT !.turn = T, !.slots = @ \ dead, !.lane = L]
  BY DEF FailQueued
<1>3. \A a \in Agents : Line(L[a], Known(v))
  <2>1. \A a \in Agents : Line(v.lane[a], Known(v))
    BY DEF Good, Placed
  <2> QED
    BY <2>1, Empty DEF Line, LaneFields
<1>4. DOMAIN L = Agents
  OBVIOUS
<1> HIDE DEF s, dead, T, L, u
<1>5. DOMAIN s = Fields /\ Known(s) = Known(v)
  BY <1>1 DEF Good, Placed, Known
<1>6. /\ DOMAIN u = Fields /\ u.led = s.led /\ u.lane = L /\ u.slots = s.slots \ dead /\ u.dq = s.dq
      /\ u.task = s.task /\ u.order = s.order /\ u.n = s.n /\ u.adm = s.adm
  BY <1>2, <1>5 DEF Fields
<1>7. Good(u, X, Y)
  BY <1>1, <1>3, <1>4, <1>5, <1>6, Calm
<1> QED
  BY <1>7 DEF u

LEMMA QuarantineGood ==
  ASSUME NEW v, NEW X, NEW Y, Good(v, X, Y), NEW A PROVE Good(Quarantine(v, A), X, Y)
<1> DEFINE D == {a \in A : v.lane[a].st # "fatal"}
           active == {v.lane[a].active : a \in D} \ {None}
           controls == UNION {Ran(v.lane[a].ctl) : a \in D}
           T == [q \in Queues |-> IF q \in active THEN "settled" ELSE v.turn[q]]
           s == SettleAll(v, active \cup controls, "reject")
           u == [s EXCEPT !.turn = T, !.slots = @ \ active]
           f == FailQueued(u, D)
           L == [a \in Agents |-> IF a \notin D THEN v.lane[a]
                                  ELSE [NoLane EXCEPT !.st = "fatal"]]
           t == Quarantine(v, A)
<1>1. Good(s, X, Y) /\ s.lane = v.lane /\ s.order = v.order
  BY SettleAllGood DEF Final
<1>2. t = [f EXCEPT !.sess = @ \ D, !.lane = L]
  BY DEF Quarantine
<1>3. DOMAIN L = Agents /\ \A a \in Agents : Line(L[a], Known(v))
  <2>1. \A a \in Agents : Line(v.lane[a], Known(v))
    BY DEF Good, Placed
  <2> QED
    BY <2>1, Empty DEF Line, LaneFields, NoLane
<1> HIDE DEF s, T, active, L, D, t
<1>4. /\ DOMAIN u = Fields /\ u.led = s.led /\ u.lane = s.lane /\ u.slots \subseteq s.slots /\ u.dq = s.dq
      /\ u.task = s.task /\ u.order = s.order /\ u.n = s.n /\ u.adm = s.adm
  BY <1>1 DEF Good, Placed, Fields
<1>5. DOMAIN s.lane = Agents /\ \A a \in Agents : Line(s.lane[a], Known(s))
  BY <1>1 DEF Good, Placed
<1>6. Good(u, X, Y)
  BY <1>1, <1>4, <1>5, Calm
<1> HIDE DEF u
<1>7. Good(f, X, Y)
  BY <1>6, FailQueuedGood
<1>8. f.order = u.order
  <2>1. DOMAIN u = Fields
    BY <1>6 DEF Good, Placed
  <2> QED
    BY <2>1 DEF f, FailQueued, SettleAll, Fields
<1> HIDE DEF f
<1>9. DOMAIN f = Fields /\ Known(f) = Known(v)
  BY <1>1, <1>4, <1>7, <1>8 DEF Good, Placed, Known
<1>10. /\ DOMAIN t = Fields /\ t.led = f.led /\ t.lane = L /\ t.slots = f.slots /\ t.dq = f.dq
       /\ t.task = f.task /\ t.order = f.order /\ t.n = f.n /\ t.adm = f.adm
  BY <1>2, <1>9 DEF Fields
<1>11. Good(t, X, Y)
  BY <1>3, <1>7, <1>9, <1>10, Calm
<1> QED
  BY <1>11 DEF t

LEMMA PersistenceFatalGood ==
  ASSUME NEW v, NEW X, NEW Y, Good(v, X, Y), NEW A, NEW S
  PROVE  Good(PersistenceFatal(v, A, S), X, Y)
<1> DEFINE u == PersistenceFatal(v, A, S)
<1>1. \E D, ids, V, U, T, E :
        u = [v EXCEPT !.vm = V, !.unsaved = U, !.turn = T, !.slots = @ \ ids, !.sess = E,
               !.lane = [a \in Agents |->
                   IF a \notin D THEN v.lane[a]
                   ELSE [NoLane EXCEPT !.st = "fatal", !.cancelling = v.lane[a].cancelling,
                                       !.steering = v.lane[a].steering]]]
  <2>1. DOMAIN v = Fields
    BY DEF Good, Placed
  <2> QED
    BY <2>1 DEF PersistenceFatal, Fields
<1>2. PICK D, ids, V, U, T, E :
        u = [v EXCEPT !.vm = V, !.unsaved = U, !.turn = T, !.slots = @ \ ids, !.sess = E,
               !.lane = [a \in Agents |->
                   IF a \notin D THEN v.lane[a]
                   ELSE [NoLane EXCEPT !.st = "fatal", !.cancelling = v.lane[a].cancelling,
                                       !.steering = v.lane[a].steering]]]
  BY <1>1
<1> DEFINE L == [a \in Agents |->
                  IF a \notin D THEN v.lane[a]
                  ELSE [NoLane EXCEPT !.st = "fatal", !.cancelling = v.lane[a].cancelling,
                                      !.steering = v.lane[a].steering]]
<1>3. DOMAIN L = Agents /\ \A a \in Agents : Line(L[a], Known(v))
  <2>1. \A a \in Agents : Line(v.lane[a], Known(v))
    BY DEF Good, Placed
  <2> QED
    BY <2>1, Empty DEF Line, LaneFields, NoLane
<1> HIDE DEF L, u
<1>4. /\ DOMAIN u = Fields /\ u.led = v.led /\ u.lane = L /\ u.slots \subseteq v.slots /\ u.dq = v.dq
      /\ u.task = v.task /\ u.order = v.order /\ u.n = v.n /\ u.adm = v.adm
  BY <1>2 DEF Good, Placed, Fields, L
<1>5. Good(u, X, Y)
  BY <1>3, <1>4, Calm
<1> QED
  BY <1>5 DEF u

LEMMA ReattachGood == ASSUME NEW v, NEW X, NEW Y, Good(v, X, Y) PROVE Good(Reattach(v), X, Y)
<1>1. PICK A, R : Reattach(v) = [Quarantine(v, A) EXCEPT !.relo = R]
  BY DEF Reattach
<1> DEFINE s == Quarantine(v, A)
           u == Reattach(v)
<1>2. Good(s, X, Y)
  BY QuarantineGood
<1>3. u = [s EXCEPT !.relo = R]
  BY <1>1
<1> HIDE DEF s, u
<1>4. /\ DOMAIN u = Fields /\ u.led = s.led /\ u.lane = s.lane /\ u.slots = s.slots /\ u.dq = s.dq
      /\ u.task = s.task /\ u.order = s.order /\ u.n = s.n /\ u.adm = s.adm
  BY <1>2, <1>3 DEF Good, Placed, Fields
<1>5. DOMAIN s.lane = Agents /\ \A a \in Agents : Line(s.lane[a], Known(s))
  BY <1>2 DEF Good, Placed
<1>6. Good(u, X, Y)
  BY <1>2, <1>4, <1>5, Calm
<1> QED
  BY <1>6 DEF u

-----------------------------------------------------------------------------
(* Admission *)

LEMMA PosOf ==
  ASSUME NEW v, Placed(v), NEW c \in Known(v)
  PROVE  Pos(v, c) \in Nat /\ v.order[Pos(v, c)] = c
<1>1. \E i \in DOMAIN v.order : v.order[i] = c
  BY DEF Known, Ran
<1>2. Pos(v, c) \in DOMAIN v.order /\ v.order[Pos(v, c)] = c
  BY <1>1 DEF Pos
<1>3. DOMAIN v.order = 1 .. Len(v.order) /\ Len(v.order) \in Nat
  BY DEF Placed
<1> QED
  BY <1>2, <1>3

LEMMA ReadyKnown == ASSUME NEW v, Placed(v) PROVE Ready(v) \subseteq Turns \cap Known(v)
<1>1. ASSUME NEW a \in Agents, Startable(v, a) PROVE Head(v.lane[a].q) \in Known(v) \cap Queues
  <2>1. v.lane[a].q \in Seq(Known(v) \cap Queues) /\ v.lane[a].q # <<>>
    BY <1>1 DEF Startable, Placed, Line
  <2> QED
    BY <2>1
<1> QED
  BY <1>1 DEF Ready, Placed, Turns

LEMMA ReadyFrom == ASSUME NEW v, Placed(v) PROVE Ready(v) \subseteq v.dq \cup Queues
<1>1. ASSUME NEW a \in Agents, Startable(v, a) PROVE Head(v.lane[a].q) \in Queues
  <2>1. v.lane[a].q \in Seq(Known(v) \cap Queues) /\ v.lane[a].q # <<>>
    BY <1>1 DEF Startable, Placed, Line
  <2> QED
    BY <2>1
<1> QED
  BY <1>1 DEF Ready

\* Older is a strict total order of recorded turns, so that the numbers of older
\* ones are 0, 1, 2 and so on.
LEMMA OlderRanks ==
  ASSUME NEW v, Placed(v), NEW S, S \subseteq Turns \cap Known(v)
  PROVE  /\ IsFiniteSet(S) /\ Cardinality(S) \in Nat
         /\ [c \in S |-> Cardinality({d \in S : Older(v, d, c)})]
              \in Injection(S, 0 .. Cardinality(S) - 1)
<1> DEFINE R == {p \in S \X S : Older(v, p[1], p[2])}
           rank == Ranks(S, R)
<1>1. IsFiniteSet(S) /\ Cardinality(S) \in Nat
  BY SlotsFinite, FS_Subset, FS_CardinalityType
<1>2. \A c \in S : Age(v, c) \in Nat /\ Pos(v, c) \in Nat
  <2> TAKE c \in S
  <2>1. v.adm[c] \in Nat
    BY DEF Placed, Calls
  <2>2. Pos(v, c) \in Nat
    BY PosOf
  <2> QED
    BY <2>1, <2>2 DEF Age
<1>3. \A c, d \in S : Pos(v, c) = Pos(v, d) => c = d
  <2> SUFFICES ASSUME NEW c \in S, NEW d \in S, Pos(v, c) = Pos(v, d) PROVE c = d
    OBVIOUS
  <2>1. v.order[Pos(v, c)] = c /\ v.order[Pos(v, d)] = d
    BY PosOf
  <2> QED
    BY <2>1
<1>4. \A c, d \in S : <<c, d>> \in R <=> Older(v, c, d)
  OBVIOUS
<1> HIDE DEF R
<1>5. rank \in Injection(S, 0 .. Cardinality(S) - 1)
  <2>1. \A c \in S : <<c, c>> \notin R
    BY <1>2, <1>4 DEF Older
  <2>2. \A c, d, e \in S : <<c, d>> \in R /\ <<d, e>> \in R => <<c, e>> \in R
    BY <1>2, <1>4 DEF Older
  <2>3. \A c, d \in S : c = d \/ <<c, d>> \in R \/ <<d, c>> \in R
    <3> SUFFICES ASSUME NEW c \in S, NEW d \in S, c # d PROVE Older(v, c, d) \/ Older(v, d, c)
      BY <1>4
    <3>1. Pos(v, c) # Pos(v, d)
      BY <1>3
    <3>2. /\ Age(v, c) \in Nat /\ Age(v, d) \in Nat
          /\ Pos(v, c) \in Nat /\ Pos(v, d) \in Nat
      BY <1>2
    <3> QED
      BY <3>1, <3>2 DEF Older
  <2> QED
    BY <1>1, <2>1, <2>2, <2>3, RanksDiffer
<1>6. rank = [c \in S |-> Cardinality({d \in S : Older(v, d, c)})]
  <2>1. \A c \in S : {d \in S : <<d, c>> \in R} = {d \in S : Older(v, d, c)}
    BY <1>4
  <2> QED
    BY <2>1 DEF Ranks
<1> QED
  BY <1>1, <1>5, <1>6

\* The oldest that fit are no more than the free slots.
LEMMA ChosenFit ==
  ASSUME NEW v, Placed(v), Fits(v, 0), NEW S, S \subseteq Turns \cap Known(v)
  PROVE  Cardinality(v.slots \cup Chosen(v, S)) <= Cap
<1> DEFINE rank == [c \in S |-> Cardinality({d \in S : Older(v, d, c)})]
           free == Cap - Cardinality(v.slots)
           go == Chosen(v, S)
<1>1. IsFiniteSet(S)
  BY OlderRanks
<1>5. rank \in Injection(S, 0 .. Cardinality(S) - 1)
  BY OlderRanks
<1>6. \A c \in S : rank[c] = Cardinality({d \in S : Older(v, d, c)})
  OBVIOUS
<1> HIDE DEF rank
<1>7. Cardinality(v.slots) \in Nat /\ Cap \in Nat /\ free \in Nat \ {0}
  BY SlotsFinite, FS_CardinalityType, BrokerAssumption DEF Fits
<1>8. go \subseteq S /\ \A c \in go : rank[c] \in 0 .. free - 1
  <2>1. \A c \in S : rank[c] \in Nat
    <3>1. Cardinality(S) \in Nat
      BY <1>1, FS_CardinalityType
    <3> QED
      BY <1>5, <3>1 DEF Injection
  <2> QED
    BY <1>6, <1>7, <2>1 DEF Chosen, Fits
<1> HIDE DEF free, go
<1>9. [c \in go |-> rank[c]] \in Injection(go, 0 .. free - 1)
  BY <1>5, <1>8 DEF Injection, IsInjective
<1>10. IsFiniteSet(0 .. free - 1) /\ Cardinality(0 .. free - 1) = free
  BY <1>7, FS_Interval
<1>11. IsFiniteSet(go) /\ Cardinality(go) <= free
  BY <1>9, <1>10, FS_Injection
<1>12. Cardinality(v.slots \cup go) <= Cardinality(v.slots) + Cardinality(go)
  <2>1. IsFiniteSet(v.slots) /\ IsFiniteSet(v.slots \cap go)
    BY SlotsFinite, FS_Subset
  <2>2. Cardinality(v.slots \cup go)
        = Cardinality(v.slots) + Cardinality(go) - Cardinality(v.slots \cap go)
    BY <1>11, <2>1, FS_Union
  <2>3. Cardinality(go) \in Nat /\ Cardinality(v.slots \cap go) \in Nat
    BY <1>11, <2>1, FS_CardinalityType
  <2> QED
    BY <1>7, <2>2, <2>3
<1>13. Cardinality(v.slots \cup go) \in Nat /\ Cardinality(go) \in Nat
  <2>1. IsFiniteSet(v.slots \cup go)
    BY <1>11, SlotsFinite, FS_Union
  <2> QED
    BY <1>11, <2>1, FS_CardinalityType
<1> QED
  BY <1>7, <1>11, <1>12, <1>13 DEF free, go

LEMMA NoneFit ==
  ASSUME NEW v, Placed(v), ~Fits(v, 0), NEW S, S \subseteq Turns \cap Known(v)
  PROVE  Chosen(v, S) = {}
<1> SUFFICES ASSUME NEW c \in S, Fits(v, Cardinality({d \in S : Older(v, d, c)})) PROVE FALSE
  BY DEF Chosen
<1> DEFINE older == {d \in S : Older(v, d, c)}
<1>1. Cardinality(older) \in Nat
  BY SlotsFinite, FS_Subset, FS_CardinalityType
<1>2. Cardinality(v.slots) \in Nat /\ Cap \in Nat
  BY SlotsFinite, FS_CardinalityType, BrokerAssumption
<1> HIDE DEF older
<1>3. ~(Cardinality(older) + Cardinality(v.slots) < Cap)
  BY <1>1, <1>2 DEF Fits
<1> QED
  BY <1>3 DEF Fits, older

LEMMA StartReadyGood == ASSUME NEW v, NEW X, NEW Y, Good(v, X, Y) PROVE Good(StartReady(v), X, Y)
<1> DEFINE go == Chosen(v, Ready(v))
           T == [q \in Queues |-> IF q \in go THEN "active" ELSE v.turn[q]]
           K == [c \in Calls |-> IF c \notin go THEN v.task[c]
                                 ELSE IF c \in Agents THEN "open" ELSE "prompt"]
           L == [a \in Agents |->
                  IF a \in go THEN [v.lane[a] EXCEPT !.st = "opening", !.active = a]
                  ELSE IF \E q \in go : q \in Queues /\ Session[q] = a
                  THEN [v.lane[a] EXCEPT !.active = Head(v.lane[a].q), !.prompt = TRUE]
                  ELSE v.lane[a]]
           u == StartReady(v)
<1>1. Placed(v)
  BY DEF Good
<1>2. /\ Cardinality(v.slots \cup go) <= Cap \/ go = {}
      /\ go \subseteq Turns \cap Known(v)
      /\ go \subseteq v.dq \cup Queues
  <2>1. go \subseteq Ready(v)
    BY DEF Chosen
  <2> QED
    BY <1>1, <2>1, ReadyKnown, ReadyFrom, ChosenFit, NoneFit
<1>3. u = [v EXCEPT !.dq = @ \ go, !.slots = @ \cup go, !.turn = T, !.task = K, !.lane = L]
  BY DEF StartReady, Started
<1>4. DOMAIN L = Agents /\ \A a \in Agents : Line(L[a], Known(v))
  <2>1. \A a \in Agents : Line(v.lane[a], Known(v))
    BY <1>1 DEF Placed
  <2> QED
    BY <2>1 DEF Line, LaneFields
<1>5. K \in [Calls -> Tasks] /\ \A c \in Calls : K[c] = IF c \notin go THEN v.task[c]
                                                       ELSE IF c \in Agents THEN "open" ELSE "prompt"
  BY <1>1 DEF Placed, Tasks
<1> HIDE DEF go, T, K, L, u
<1>6. /\ DOMAIN u = Fields /\ u.led = v.led /\ u.lane = L /\ u.slots = v.slots \cup go /\ u.dq = v.dq \ go
      /\ u.task = K /\ u.order = v.order /\ u.n = v.n /\ u.adm = v.adm
  BY <1>1, <1>3 DEF Placed, Fields
<1>7. Placed(u)
  BY <1>1, <1>2, <1>4, <1>5, <1>6 DEF Placed, Known
<1>8. Cardinality(u.slots \ X) <= Cap
  <2>1. CASE go = {}
    BY <1>6, <2>1 DEF Good
  <2>2. CASE Cardinality(v.slots \cup go) <= Cap
    <3>1. IsFiniteSet(u.slots) /\ Cardinality(u.slots \ {}) <= Cap
      BY <1>6, <1>7, <2>2, SlotsFinite
    <3>2. u.slots \ X \subseteq u.slots /\ (u.slots \ X) \ {} = u.slots \ X
      OBVIOUS
    <3>3. Cardinality((u.slots \ X) \ {}) <= Cap
      BY <3>1, <3>2, FewerSlots
    <3> QED
      BY <3>2, <3>3
  <2> QED
    BY <1>2, <2>1, <2>2
<1>9. \A c \in u.slots \ X : u.task[c] \notin Idle
  <2> TAKE c \in u.slots \ X
  <2>1. c \in Calls
    BY <1>7 DEF Placed, Calls
  <2> QED
    BY <1>5, <1>6, <2>1 DEF Good, Idle
<1>10. \A c \in Calls : u.task[c] \in Given => c \in X
  BY <1>5, <1>6 DEF Good, Given
<1>11. \A a \in Y \cap Agents : a \notin u.dq /\ a \notin u.slots /\ u.task[a] # "reload"
  <2> TAKE a \in Y \cap Agents
  <2>1. a \notin v.dq /\ a \notin v.slots /\ v.task[a] # "reload" /\ a \in Calls /\ a \notin Queues
    BY BrokerAssumption DEF Good, Calls, Turns
  <2> QED
    BY <1>2, <1>5, <1>6, <2>1
<1> QED
  BY <1>7, <1>8, <1>9, <1>10, <1>11 DEF Good, u

LEMMA ScheduleGood == ASSUME NEW v, NEW X, NEW Y, Good(v, X, Y), NEW off PROVE Good(Schedule(v, off), X, Y)
BY ReattachGood, StartReadyGood DEF Schedule

LEMMA FatalGood ==
  ASSUME NEW v, NEW X, NEW Y, Good(v, X, Y), NEW a, NEW off PROVE Good(MarkLaneFatal(v, a, off), X, Y)
BY QuarantineGood, ScheduleGood DEF MarkLaneFatal

-----------------------------------------------------------------------------
(* The other operators *)

\* A control at the head of its lane goes to its task.
LEMMA SteeringGood ==
  ASSUME NEW v, NEW X, NEW Y, Good(v, X, Y), NEW a, NEW off PROVE Good(ProcessSteering(v, a, off), X, Y)
<1>1. ASSUME NEW s, NEW k \in {"wire", "okay"}
      PROVE  Good([v EXCEPT !.lane[a].steering = TRUE, !.task[s] = k], X, Y)
  <2> DEFINE u == [v EXCEPT !.lane[a].steering = TRUE, !.task[s] = k]
  <2>1. Placed(v)
    BY DEF Good
  <2>2. /\ DOMAIN u = Fields /\ u.led = v.led /\ u.slots = v.slots /\ u.dq = v.dq
        /\ u.order = v.order /\ u.n = v.n /\ u.adm = v.adm
        /\ u.lane = [v.lane EXCEPT ![a].steering = TRUE] /\ u.task = [v.task EXCEPT ![s] = k]
    BY <2>1 DEF Placed, Fields
  <2> HIDE DEF u
  <2>3. /\ DOMAIN u.lane = Agents /\ \A b \in Agents : Line(u.lane[b], Known(v))
    <3>1. DOMAIN v.lane = Agents /\ \A b \in Agents : Line(v.lane[b], Known(v))
      BY <2>1 DEF Placed
    <3>2. u.lane = [v.lane EXCEPT ![a].steering = TRUE]
      BY <2>2
    <3> QED
      BY <3>1, <3>2 DEF Line, LaneFields
  <2>4. u.task \in [Calls -> Tasks] /\ \A c \in Calls : u.task[c] = IF c = s THEN k ELSE v.task[c]
    <3>1. v.task \in [Calls -> Tasks] /\ k \in Tasks
      BY <2>1 DEF Placed, Tasks
    <3> QED
      BY <2>2, <3>1
  <2>5. v.led \in [Calls -> Entry] /\ v.slots \subseteq Calls
    BY <2>1 DEF Placed, Calls
  <2>6. /\ \A c \in u.slots \ X : u.task[c] \notin Idle
        /\ \A c \in Calls : u.task[c] \in Given => c \in X
        /\ \A c \in Calls : u.task[c] = "reload" => v.task[c] = "reload"
    BY <2>2, <2>4, <2>5 DEF Good, Given, Idle
  <2>7. Good(u, X, Y)
    BY <2>2, <2>3, <2>4, <2>5, <2>6, Less
  <2> QED
    BY <2>7 DEF u
<1> DEFINE l == v.lane[a]
           x == IF a \in v.sess /\ l.active = v.target[Head(l.ctl)] /\ l.prompt THEN "wire" ELSE "okay"
<1>2. \/ ProcessSteering(v, a, off) = v
      \/ ProcessSteering(v, a, off) = Schedule(v, off)
      \/ ProcessSteering(v, a, off) = [v EXCEPT !.lane[a].steering = TRUE, !.task[Head(l.ctl)] = x]
  BY DEF ProcessSteering
<1>3. x \in {"wire", "okay"}
  OBVIOUS
<1> HIDE DEF x
<1>4. Good([v EXCEPT !.lane[a].steering = TRUE, !.task[Head(l.ctl)] = x], X, Y)
  BY <1>1, <1>3
<1> QED
  BY <1>2, <1>4, ScheduleGood

\* A turn that has ended gives up its slot, if it has one.
LEMMA TurnSettledGood ==
  ASSUME NEW v, NEW X, NEW Y, NEW c, NEW off, Good([v EXCEPT !.slots = @ \ {c}], X, Y)
  PROVE  Good(TurnSettled(v, c, off), X, Y)
<1> DEFINE a == SessionOf(c)
           l == v.lane[a]
           s == [v EXCEPT !.slots = @ \ {c}]
           T == [q \in Queues |-> IF q = c THEN "settled" ELSE v.turn[q]]
           k == [l EXCEPT !.q = Without(@, c), !.prompt = FALSE, !.timer = FALSE,
                          !.active = IF @ = c THEN None ELSE @,
                          !.cancelling = IF @ = c THEN None ELSE @]
           u == [v EXCEPT !.slots = @ \ {c}, !.turn = T, !.lane[a] = k]
<1>1. TurnSettled(v, c, off) = Schedule(ProcessSteering(u, a, off), off)
  BY DEF TurnSettled, Freed
<1>2. Good(s, X, Y)
  OBVIOUS
<1>3. DOMAIN v = DOMAIN s
  OBVIOUS
<1>4. DOMAIN v = Fields
  BY <1>2, <1>3 DEF Good, Placed
<1>5. /\ s.led = v.led /\ s.lane = v.lane /\ s.slots = v.slots \ {c} /\ s.dq = v.dq
      /\ s.task = v.task /\ s.order = v.order /\ s.n = v.n /\ s.adm = v.adm
  BY <1>4 DEF Fields
<1>6. DOMAIN v.lane = Agents /\ \A b \in Agents : Line(v.lane[b], Known(s))
  BY <1>2, <1>5 DEF Good, Placed
<1>7. a \in Agents => Line(k, Known(s))
  BY <1>6, WithoutSeq DEF Line, LaneFields
<1> HIDE DEF s, k, T
<1>8. /\ DOMAIN u = Fields /\ u.led = s.led /\ u.lane = [v.lane EXCEPT ![a] = k]
      /\ u.slots = s.slots /\ u.dq = s.dq
      /\ u.task = s.task /\ u.order = s.order /\ u.n = s.n /\ u.adm = s.adm
  BY <1>4, <1>5 DEF Fields
<1> HIDE DEF u
<1>9. DOMAIN u.lane = Agents /\ \A b \in Agents : Line(u.lane[b], Known(s))
  BY <1>6, <1>7, <1>8
<1>10. Good(u, X, Y)
  BY <1>2, <1>8, <1>9, Calm
<1> QED
  BY <1>1, <1>10, SteeringGood, ScheduleGood

LEMMA CancelGood ==
  ASSUME NEW v, NEW X, NEW Y, Good(v, X, Y), NEW a, NEW t, NEW off
  PROVE  Good(RequestCancel(v, a, t, off), X, Y)
<1> DEFINE u == [v EXCEPT !.turn[t] = "settled"]
           s == SettleStored(u, t, "reject")
           p == [s EXCEPT !.lane[a].q = Without(@, t)]
           d == SettleStored(v, t, "reject")
           l == v.lane[a]
           k == [d EXCEPT
                  !.turn = [q \in Queues |-> IF q = t THEN "cancelling" ELSE v.turn[q]],
                  !.lane[a].cancelling = t,
                  !.lane[a].timer = l.prompt /\ a \in v.sess]
<1>1. \/ RequestCancel(v, a, t, off) = v
      \/ RequestCancel(v, a, t, off) = Schedule(p, off)
      \/ RequestCancel(v, a, t, off) = k
  BY DEF RequestCancel
<1>2. ASSUME NEW b, Good(b, X, Y)
      PROVE  /\ DOMAIN b = Fields /\ DOMAIN b.lane = Agents
             /\ \A e \in Agents : Line(b.lane[e], Known(b))
  BY <1>2 DEF Good, Placed
<1>3. Good(u, X, Y)
  <2>1. /\ DOMAIN u = Fields /\ u.led = v.led /\ u.lane = v.lane /\ u.slots = v.slots /\ u.dq = v.dq
        /\ u.task = v.task /\ u.order = v.order /\ u.n = v.n /\ u.adm = v.adm
    BY <1>2 DEF Fields
  <2> HIDE DEF u
  <2> QED
    BY <1>2, <2>1, Calm
<1> HIDE DEF u
<1>4. Good(s, X, Y) /\ Good(d, X, Y)
  BY <1>3, SettleAllGood DEF SettleStored, Final
<1> HIDE DEF s, d
<1>5. Good(p, X, Y)
  <2>1. /\ DOMAIN p = Fields /\ p.led = s.led /\ p.slots = s.slots /\ p.dq = s.dq
        /\ p.task = s.task /\ p.order = s.order /\ p.n = s.n /\ p.adm = s.adm
        /\ p.lane = [s.lane EXCEPT ![a].q = Without(@, t)]
    BY <1>2, <1>4 DEF Fields
  <2>2. /\ DOMAIN s.lane = Agents /\ \A e \in Agents : Line(s.lane[e], Known(s))
        /\ a \in Agents => Without(s.lane[a].q, t) \in Seq(Known(s) \cap Queues)
    BY <1>2, <1>4, WithoutSeq DEF Line
  <2>3. DOMAIN p.lane = Agents /\ \A e \in Agents : Line(p.lane[e], Known(s))
    BY <2>1, <2>2 DEF Line, LaneFields
  <2> HIDE DEF p
  <2> QED
    BY <1>4, <2>1, <2>3, Calm
<1>6. Good(k, X, Y)
  <2>1. /\ DOMAIN k = Fields /\ k.led = d.led /\ k.slots = d.slots /\ k.dq = d.dq
        /\ k.task = d.task /\ k.order = d.order /\ k.n = d.n /\ k.adm = d.adm
        /\ k.lane = [d.lane EXCEPT ![a].cancelling = t, ![a].timer = l.prompt /\ a \in v.sess]
    BY <1>2, <1>4 DEF Fields
  <2>2. DOMAIN d.lane = Agents /\ \A e \in Agents : Line(d.lane[e], Known(d))
    BY <1>2, <1>4
  <2> HIDE DEF k
  <2>3. DOMAIN k.lane = Agents /\ \A e \in Agents : Line(k.lane[e], Known(d))
    BY <2>1, <2>2 DEF Line, LaneFields
  <2> QED
    BY <1>4, <2>1, <2>3, Calm
<1> HIDE DEF p, k
<1> QED
  BY <1>1, <1>5, <1>6, ScheduleGood

LEMMA CancelFoundingGood ==
  ASSUME NEW v, NEW X, NEW Y, Good(v, X, Y), NEW a, NEW off PROVE Good(CancelFounding(v, a, off), X, Y)
<1> DEFINE s == SettleStored(v, a, "reject")
           u == [s EXCEPT !.dq = @ \ {a}, !.slots = @ \ {a},
                          !.stopped = IF v.task[a] = "open" THEN @ \cup {a} ELSE @,
                          !.lane[a].active = None, !.lane[a].st = "fatal"]
           f == FailQueued(u, {a})
<1>1. CancelFounding(v, a, off) = v \/ CancelFounding(v, a, off) = Schedule(f, off)
  BY DEF CancelFounding
<1>2. Good(s, X, Y)
  BY SettleAllGood DEF SettleStored, Final
<1> HIDE DEF s
<1>3. /\ DOMAIN s = Fields /\ DOMAIN s.lane = Agents
      /\ \A e \in Agents : Line(s.lane[e], Known(s))
  BY <1>2 DEF Good, Placed
<1>4. /\ DOMAIN u = Fields /\ u.led = s.led /\ u.slots \subseteq s.slots /\ u.dq \subseteq s.dq
      /\ u.task = s.task /\ u.order = s.order /\ u.n = s.n /\ u.adm = s.adm
      /\ u.lane = [s.lane EXCEPT ![a].active = None, ![a].st = "fatal"]
  BY <1>3 DEF Fields
<1> HIDE DEF u
<1>5. DOMAIN u.lane = Agents /\ \A e \in Agents : Line(u.lane[e], Known(s))
  BY <1>3, <1>4 DEF Line, LaneFields
<1>6. Good(u, X, Y)
  BY <1>2, <1>4, <1>5, Calm
<1>7. Good(f, X, Y)
  BY <1>6, FailQueuedGood
<1> HIDE DEF f
<1> QED
  BY <1>1, <1>7, ScheduleGood

LEMMA CutOffGood == ASSUME NEW v, NEW X, NEW Y, Good(v, X, Y) PROVE Good(CutOff(v), X, Y)
<1>1. PICK S, O : CutOff(v) = [SettleAll(v, S, "reject") EXCEPT !.slots = @ \ O]
  BY DEF CutOff
<1> DEFINE s == SettleAll(v, S, "reject")
           u == CutOff(v)
<1>2. Good(s, X, Y)
  BY SettleAllGood DEF Final
<1>3. u = [s EXCEPT !.slots = @ \ O]
  BY <1>1
<1> HIDE DEF s, u
<1>4. /\ DOMAIN u = Fields /\ u.led = s.led /\ u.lane = s.lane /\ u.slots \subseteq s.slots
      /\ u.dq = s.dq /\ u.task = s.task /\ u.order = s.order /\ u.n = s.n /\ u.adm = s.adm
  BY <1>2, <1>3 DEF Good, Placed, Fields
<1>5. DOMAIN s.lane = Agents /\ \A e \in Agents : Line(s.lane[e], Known(s))
  BY <1>2 DEF Good, Placed
<1>6. Good(u, X, Y)
  BY <1>2, <1>4, <1>5, Calm
<1> QED
  BY <1>6 DEF u

LEMMA ReleaseAllGood == ASSUME NEW v, NEW X, NEW Y, Good(v, X, Y) PROVE Good(ReleaseAll(v), X, Y)
<1> DEFINE L == [a \in Agents |->
                  IF a \in v.sess /\ v.lane[a].st # "fatal"
                  THEN [v.lane[a] EXCEPT !.st = "released", !.active = None, !.prompt = FALSE]
                  ELSE v.lane[a]]
           K == [c \in Calls |->
                  IF v.task[c] = "load" THEN "none"
                  ELSE IF SessionOf(c) \notin v.sess THEN v.task[c]
                  ELSE CASE v.task[c] = "prompt" -> "orphan"
                         [] v.task[c] = "await"  -> IF c \in Agents THEN "hold" ELSE "bad"
                         [] OTHER -> v.task[c]]
           u == ReleaseAll(v)
<1>1. Placed(v)
  BY DEF Good
<1>2. /\ DOMAIN u = Fields /\ u.led = v.led /\ u.lane = L /\ u.slots = {} /\ u.dq = v.dq
      /\ u.task = K /\ u.order = v.order /\ u.n = v.n /\ u.adm = v.adm
  BY <1>1 DEF ReleaseAll, Placed, Fields
<1>3. DOMAIN L = Agents /\ \A a \in Agents : Line(L[a], Known(v))
  BY <1>1 DEF Placed, Line, LaneFields
<1>4. /\ K \in [Calls -> Tasks]
      /\ \A c \in Calls : K[c] \in Given => v.task[c] \in Given
      /\ \A c \in Calls : K[c] = "reload" => v.task[c] = "reload"
  BY <1>1 DEF Placed, Tasks, Given
<1> HIDE DEF L, K, u
<1>5. v.led \in [Calls -> Entry] /\ \A c \in Calls : v.task[c] \in Given => c \in X
  BY <1>1 DEF Good, Placed
<1>6. Good(u, X, Y)
  BY <1>2, <1>3, <1>4, <1>5, Less
<1> QED
  BY <1>6 DEF u

\* Every call of S once.
LEMMA InOrderSeq ==
  ASSUME NEW v, Placed(v), NEW S, S \subseteq Known(v)
  PROVE  LET s == InOrder(v, S) IN
         s \in Seq(S) /\ Ran(s) = S /\ \A i, j \in DOMAIN s : s[i] = s[j] => i = j
<1> DEFINE R == {p \in S \X S : Pos(v, p[1]) < Pos(v, p[2])}
           rank == Ranks(S, R)
           n == Cardinality(S)
           before(c) == {d \in S : Pos(v, d) < Pos(v, c)}
<1>1. IsFiniteSet(S) /\ n \in Nat
  BY SlotsFinite, FS_Subset, FS_CardinalityType
<1>2. \A c \in S : Pos(v, c) \in Nat /\ v.order[Pos(v, c)] = c
  BY PosOf
<1>3. \A c, d \in S : <<c, d>> \in R <=> Pos(v, c) < Pos(v, d)
  OBVIOUS
<1> HIDE DEF R
<1>4. rank \in Injection(S, 0 .. n - 1)
  <2>1. \A c \in S : <<c, c>> \notin R
    BY <1>2, <1>3
  <2>2. \A c, d, e \in S : <<c, d>> \in R /\ <<d, e>> \in R => <<c, e>> \in R
    BY <1>2, <1>3
  <2>3. \A c, d \in S : c = d \/ <<c, d>> \in R \/ <<d, c>> \in R
    <3> TAKE c, d \in S
    <3>1. Pos(v, c) \in Nat /\ Pos(v, d) \in Nat /\ (Pos(v, c) = Pos(v, d) => c = d)
      BY <1>2
    <3> QED
      BY <1>3, <3>1
  <2> QED
    BY <1>1, <2>1, <2>2, <2>3, RanksDiffer
<1>5. \A c \in S : rank[c] = Cardinality(before(c))
  <2> TAKE c \in S
  <2>1. {d \in S : <<d, c>> \in R} = before(c)
    BY <1>3
  <2> QED
    BY <2>1 DEF Ranks
<1> HIDE DEF rank
<1>6. IsFiniteSet(0 .. n - 1) /\ Cardinality(0 .. n - 1) = n
  <2>1. 0 \in Int /\ n - 1 \in Int
    BY <1>1
  <2>2. /\ IsFiniteSet(0 .. n - 1)
        /\ Cardinality(0 .. n - 1) = IF 0 > n - 1 THEN 0 ELSE n - 1 - 0 + 1
    BY <2>1, FS_Interval
  <2> QED
    BY <1>1, <2>2
<1>7. rank \in Surjection(S, 0 .. n - 1)
  BY <1>4, <1>6, FS_Injection
<1>8. ASSUME NEW i \in 1 .. n PROVE \E c \in S : Cardinality(before(c)) = i - 1
  <2>1. i - 1 \in 0 .. n - 1
    BY <1>1
  <2>2. PICK c \in S : rank[c] = i - 1
    BY <1>7, <2>1 DEF Surjection
  <2> QED
    BY <1>5, <2>2
<1> DEFINE pick(i) == CHOOSE c \in S : Cardinality(before(c)) = i - 1
           s == InOrder(v, S)
<1>9. \A i \in 1 .. n : pick(i) \in S /\ rank[pick(i)] = i - 1
  BY <1>5, <1>8
<1>10. s = [i \in 1 .. n |-> pick(i)]
  BY DEF InOrder
<1> HIDE DEF pick, s
<1>11. s \in [1 .. n -> S] /\ DOMAIN s = 1 .. n /\ \A i \in 1 .. n : rank[s[i]] = i - 1
  BY <1>9, <1>10
<1>12. s \in Seq(S)
  BY <1>1, <1>11
<1>13. \A i, j \in DOMAIN s : s[i] = s[j] => i = j
  BY <1>1, <1>11
<1>14. ASSUME NEW c \in S PROVE c \in Ran(s)
  <2>1. rank[c] \in 0 .. n - 1
    BY <1>4 DEF Injection
  <2>2. rank[c] + 1 \in 1 .. n /\ (rank[c] + 1) - 1 = rank[c]
    BY <1>1, <2>1
  <2>3. rank[s[rank[c] + 1]] = rank[c] /\ s[rank[c] + 1] \in S
    BY <1>11, <2>2
  <2>4. s[rank[c] + 1] = c
    BY <1>4, <2>3 DEF Injection, IsInjective
  <2> QED
    BY <1>11, <2>2, <2>4 DEF Ran
<1>15. Ran(s) = S
  BY <1>11, <1>14 DEF Ran
<1> QED
  BY <1>12, <1>13, <1>15 DEF s

\* A restored queued turn takes the slot of its load.
LEMMA RebuiltGood ==
  ASSUME NEW v, NEW X, NEW Y, Good(v, X, Y)
  PROVE  Good(Rebuilt(v), X \cup {q \in Queues : Rebuilt(v).task[q] = "load"}, Y)
<1> DEFINE R == {q \in Queues : v.led[q].rec /\ v.led[q].done = "none" /\ v.turn[q] = "none"}
           of(a) == {q \in R : Session[q] = a}
           sent(a) == {q \in of(a) : v.led[q].handoff}
           base(a) == IF v.lane[a].st # "none" THEN v.lane[a]
                      ELSE NewLane(IF v.led[a].done = "none" THEN "opening" ELSE "released")
           L == [a \in Agents |->
                  IF of(a) = {} THEN v.lane[a]
                  ELSE [base(a) EXCEPT !.q = @ \o InOrder(v, of(a)),
                          !.active = IF sent(a) # {} THEN CHOOSE q \in sent(a) : TRUE ELSE @]]
           H == {q \in R : v.led[q].handoff}
           K == [c \in Calls |-> IF c \in R /\ v.led[c].handoff THEN "load" ELSE v.task[c]]
           u == Rebuilt(v)
           Z == X \cup {q \in Queues : u.task[q] = "load"}
<1>1. Placed(v)
  BY DEF Good
<1>2. /\ DOMAIN u = Fields /\ u.led = v.led /\ u.lane = L /\ u.slots = v.slots \cup H /\ u.dq = v.dq
      /\ u.task = K /\ u.order = v.order /\ u.n = v.n /\ u.adm = v.adm
  BY <1>1 DEF Rebuilt, Placed, Fields
<1>3. R \subseteq Known(v) \cap Queues /\ H \subseteq R /\ Queues \subseteq Calls
  BY <1>1 DEF Placed, Calls, Turns
<1>4. DOMAIN L = Agents /\ \A a \in Agents : Line(L[a], Known(v))
  <2>1. DOMAIN L = Agents
    OBVIOUS
  <2>2. ASSUME NEW a \in Agents PROVE Line(L[a], Known(v))
    <3>1. Line(v.lane[a], Known(v))
      BY <1>1 DEF Placed
    <3>2. Line(base(a), Known(v))
      BY <3>1, Empty DEF NewLane, NoLane, Line, LaneFields
    <3>3. of(a) \subseteq Known(v) \cap Queues
      BY <1>3
    <3> HIDE DEF R, of, base
    <3>4. InOrder(v, of(a)) \in Seq(of(a))
      BY <1>1, <3>3, InOrderSeq
    <3>5. InOrder(v, of(a)) \in Seq(Known(v) \cap Queues)
      BY <3>3, <3>4
    <3>6. base(a).q \o InOrder(v, of(a)) \in Seq(Known(v) \cap Queues)
      BY <3>2, <3>5 DEF Line
    <3> QED
      BY <3>1, <3>2, <3>6 DEF Line, LaneFields
  <2> QED
    BY <2>1, <2>2
<1>5. /\ K \in [Calls -> Tasks]
      /\ \A c \in Calls : K[c] = IF c \in H THEN "load" ELSE v.task[c]
  BY <1>1 DEF Placed, Tasks
<1> HIDE DEF R, H, L, K, u
<1>6. Placed(u)
  BY <1>1, <1>2, <1>3, <1>4, <1>5 DEF Placed, Known, Turns
<1>7. H \subseteq Z
  BY <1>2, <1>3, <1>5
<1> HIDE DEF Z
<1>8. u.slots \ Z \subseteq v.slots \ X
  BY <1>2, <1>7 DEF Z
<1>9. Cardinality(u.slots \ Z) <= Cap
  <2>1. IsFiniteSet(v.slots) /\ Cardinality(v.slots \ X) <= Cap
    BY <1>1, SlotsFinite DEF Good
  <2>2. u.slots \ Z \subseteq v.slots /\ (u.slots \ Z) \ X = u.slots \ Z
    BY <1>8
  <2>3. Cardinality((u.slots \ Z) \ X) <= Cap
    BY <2>1, <2>2, FewerSlots
  <2> QED
    BY <2>2, <2>3
<1>10. \A c \in u.slots \ Z : u.task[c] \notin Idle
  <2> TAKE c \in u.slots \ Z
  <2>1. c \in v.slots \ X /\ c \notin H /\ c \in Calls
    BY <1>6, <1>7, <1>8 DEF Placed, Calls
  <2> QED
    BY <1>2, <1>5, <2>1 DEF Good
<1>12. \A a \in Y \cap Agents : a \notin u.dq /\ a \notin u.slots /\ u.task[a] # "reload"
  <2> TAKE a \in Y \cap Agents
  <2>1. a \notin v.dq /\ a \notin v.slots /\ v.task[a] # "reload" /\ a \in Calls /\ a \notin Queues
    BY BrokerAssumption DEF Good, Calls, Turns
  <2> QED
    BY <1>2, <1>3, <1>5, <2>1
<1>11. \A c \in Calls : u.task[c] \in Given => c \in Z
  <2> SUFFICES ASSUME NEW c \in Calls, u.task[c] \in Given, c \notin X, c \notin H PROVE FALSE
    BY <1>7 DEF Z
  <2> QED
    BY <1>2, <1>5 DEF Good
<1> QED
  BY <1>6, <1>9, <1>10, <1>11, <1>12 DEF Good, u, Z

LEMMA RegisterGood ==
  ASSUME NEW v, NEW X, NEW Y, Good(v, X, Y), NEW a \in Agents \ Y, a \in Known(v)
  PROVE  Good(Register(v, a), X \cup {a}, Y)
<1> DEFINE l == [NewLane("usable") EXCEPT !.active = a, !.prompt = TRUE]
           u == Register(v, a)
           Z == X \cup {a}
<1>1. Placed(v) /\ a \in Turns /\ a \in Calls
  BY DEF Good, Turns, Calls
<1>2. /\ DOMAIN u = Fields /\ u.led = v.led /\ u.lane = [v.lane EXCEPT ![a] = l]
      /\ u.slots = v.slots \cup {a} /\ u.dq = v.dq /\ u.task = [v.task EXCEPT ![a] = "await"]
      /\ u.order = v.order /\ u.n = v.n /\ u.adm = v.adm
  BY <1>1 DEF Register, Placed, Fields
<1>3. Line(l, Known(v))
  BY Empty DEF Line, LaneFields, NewLane, NoLane
<1> HIDE DEF l, u
<1>4. Placed(u)
  BY <1>1, <1>2, <1>3 DEF Placed, Known, Tasks
<1>5. u.slots \ Z = (v.slots \ {a}) \ X /\ v.slots \ {a} \subseteq v.slots
  BY <1>2
<1>6. Cardinality(u.slots \ Z) <= Cap
  <2>1. Cardinality((v.slots \ {a}) \ X) <= Cap
    <3>1. IsFiniteSet(v.slots) /\ Cardinality(v.slots \ X) <= Cap
      BY <1>1, SlotsFinite DEF Good
    <3>2. v.slots \ {a} \subseteq v.slots
      OBVIOUS
    <3> QED
      BY <3>1, <3>2, FewerSlots
  <2> QED
    BY <1>5, <2>1
<1>7. \A c \in Calls : c # a => u.task[c] = v.task[c]
  BY <1>1, <1>2 DEF Placed
<1>8. \A c \in u.slots \ Z : u.task[c] \notin Idle
  BY <1>4, <1>5, <1>7 DEF Good, Placed, Calls
<1>9. \A c \in Calls : u.task[c] \in Given => c \in Z
  BY <1>7 DEF Good
<1>10. \A b \in Y \cap Agents : b \notin u.dq /\ b \notin u.slots /\ u.task[b] # "reload"
  BY <1>2, <1>7 DEF Good, Calls, Turns
<1> QED
  BY <1>4, <1>6, <1>8, <1>9, <1>10 DEF Good, u

LEMMA MintedGood ==
  ASSUME NEW X, NEW Y, Good(w, X, Y), NEW c \in Calls
  PROVE  /\ Good(Minted(c), X, Y) /\ c \in Known(Minted(c))
         /\ Minted(c).lane = w.lane
         /\ Known(w) \subseteq Known(Minted(c))
<1> DEFINE new == [Unborn EXCEPT !.rec = TRUE, !.seq = w.n + 1]
           u == Minted(c)
<1>1. Placed(w)
  BY DEF Good
<1>2. /\ DOMAIN u = Fields /\ u.lane = w.lane /\ u.slots = w.slots /\ u.dq = w.dq /\ u.task = w.task
      /\ u.n = w.n + 1 /\ u.adm = [w.adm EXCEPT ![c] = w.n + 1]
      /\ u.order = IF w.led[c].rec THEN w.order ELSE Append(w.order, c)
      /\ u.led = [w.led EXCEPT ![c] = IF @.rec THEN @ ELSE new]
  BY <1>1 DEF Minted, Record, Placed, Fields
<1>3. new \in Entry
  <2>1. w.n + 1 \in Nat
    BY <1>1 DEF Placed
  <2> QED
    BY <2>1 DEF Unborn, Entry
<1> HIDE DEF new, u
<1>4. u.n \in Nat /\ u.adm \in [Calls -> Nat] /\ u.led \in [Calls -> Entry]
  BY <1>1, <1>2, <1>3 DEF Placed
<1>5. u.order \in Seq(Calls) /\ Known(u) = Known(w) \cup {c}
  BY <1>1, <1>2, RanAppend DEF Placed, Known
<1>6. \A d \in Calls : u.led[d].rec => d \in Known(u)
  <2>1. \A d \in Calls : d # c => u.led[d] = w.led[d]
    BY <1>1, <1>2 DEF Placed
  <2> QED
    BY <1>1, <1>5, <2>1 DEF Placed
<1>7. \A a \in Agents : Line(u.lane[a], Known(u))
  <2> TAKE a \in Agents
  <2>1. Line(w.lane[a], Known(w)) /\ Known(w) \cap Queues \subseteq Known(u) \cap Queues
    BY <1>1, <1>5 DEF Placed
  <2> QED
    BY <1>2, <2>1 DEF Line
<1>8. Placed(u)
  BY <1>1, <1>2, <1>4, <1>5, <1>6, <1>7 DEF Placed
<1>9. Good(u, X, Y)
  BY <1>2, <1>8 DEF Good
<1> QED
  BY <1>2, <1>5, <1>9 DEF u

-----------------------------------------------------------------------------
(* The handlers keep the slots *)

\* A founding turn waits for a slot.
LEMMA WaitGood ==
  ASSUME NEW v, NEW u, NEW X, NEW Y, Good(v, X, Y), NEW a \in Agents \ Y, a \in Known(v),
         DOMAIN u = Fields, u.order = v.order, u.n = v.n, u.adm = v.adm, u.led = v.led,
         u.task = v.task, u.dq = v.dq \cup {a}, u.slots = v.slots,
         DOMAIN u.lane = Agents, \A b \in Agents : Line(u.lane[b], Known(v))
  PROVE  Good(u, X, Y)
BY DEF Good, Placed, Known

\* One task goes on.
LEMMA TaskGood ==
  ASSUME NEW v, NEW u, NEW X, NEW Y, Good(v, X, Y), NEW c, NEW k \in Tasks,
         DOMAIN u = Fields, u.order = v.order, u.n = v.n, u.adm = v.adm, u.led = v.led,
         u.dq = v.dq, u.slots \subseteq v.slots,
         DOMAIN u.lane = Agents, \A a \in Agents : Line(u.lane[a], Known(v)),
         u.task = [v.task EXCEPT ![c] = k],
         k = "none" => c \notin u.slots \ X, k # "reload",
         k \in Given => c \in X
  PROVE  Good(u, X, Y)
<1>1. /\ v.led \in [Calls -> Entry] /\ v.task \in [Calls -> Tasks] /\ v.slots \subseteq Calls
  BY DEF Good, Placed, Calls
<1>2. u.task \in [Calls -> Tasks] /\ \A d \in Calls : u.task[d] = IF d = c THEN k ELSE v.task[d]
  BY <1>1
<1>3. /\ \A d \in u.slots \ X : u.task[d] \notin Idle
      /\ \A d \in Calls : u.task[d] \in Given => d \in X
      /\ \A d \in Calls : u.task[d] = "reload" => v.task[d] = "reload"
  BY <1>1, <1>2 DEF Good, Idle
<1> QED
  BY <1>1, <1>2, <1>3, Less

LEMMA LanesOf ==
  ASSUME NEW v, NEW X, NEW Y, Good(v, X, Y)
  PROVE  /\ DOMAIN v = Fields /\ DOMAIN v.lane = Agents
         /\ \A a \in Agents : Line(v.lane[a], Known(v))
         /\ v.task \in [Calls -> Tasks] /\ v.led \in [Calls -> Entry]
         /\ v.slots \subseteq Turns /\ v.slots \subseteq Calls
BY DEF Good, Placed, Calls

LEMMA SettleDirectGood ==
  ASSUME NEW v, NEW X, NEW Y, Good(v, X, Y), NEW c, NEW o \in Final
  PROVE  Good(SettleDirect(v, c, o), X, Y)
<1> DEFINE L == [v.led EXCEPT ![c].done = IF @ = "none" THEN o ELSE @]
           u == SettleDirect(v, c, o)
<1>1. /\ DOMAIN u = Fields /\ u.led = L /\ u.lane = v.lane /\ u.slots = v.slots /\ u.dq = v.dq
      /\ u.task = v.task /\ u.order = v.order /\ u.n = v.n /\ u.adm = v.adm
  BY LanesOf DEF SettleDirect, Fields
<1>2. L \in [Calls -> Entry] /\ \A d \in Calls : L[d].rec = v.led[d].rec
  <2>1. v.led \in [Calls -> Entry]
    BY LanesOf
  <2> QED
    BY <2>1 DEF Entry, Final
<1> HIDE DEF L, u
<1>3. /\ \A d \in v.slots \ X : v.task[d] \notin Idle
      /\ \A d \in Calls : v.task[d] \in Given => d \in X
  BY DEF Good
<1>4. Good(u, X, Y)
  BY <1>1, <1>2, <1>3, LanesOf, Less
<1> QED
  BY <1>4 DEF u

LEMMA NewCallGood ==
  ASSUME Good(w, restored, todo), \A c \in todo : w.vm[c] # "unborn",
         \/ \E a \in Agents : NewAgent(a)
         \/ \E q \in Queues : NewQueue(q)
         \/ \E s \in Steers : NewSteer(s)
  PROVE  Good(w', restored, todo)
<1>1. ASSUME NEW a \in Agents, NewAgent(a) PROVE Good(w', restored, todo)
  <2> DEFINE u == Minted(a)
             l == [NewLane("opening") EXCEPT !.active = a]
             v == [u EXCEPT !.lane[a] = l, !.dq = @ \cup {a}]
             off == Undrained # "off"
  <2>1. Good(u, restored, todo) /\ a \in Known(u) /\ a \notin todo
    BY <1>1, MintedGood DEF NewAgent, Mint, Calls, Turns
  <2> HIDE DEF u
  <2>2. CASE w' = SettleDirect(u, a, "reject")
    BY <2>1, <2>2, SettleDirectGood DEF Final
  <2>3. CASE w' = Schedule(v, off)
    <3>1. Line(l, Known(u))
      BY Empty DEF Line, LaneFields, NewLane, NoLane
    <3> HIDE DEF l
    <3>2. /\ DOMAIN v = Fields /\ v.led = u.led /\ v.slots = u.slots /\ v.dq = u.dq \cup {a}
          /\ v.task = u.task /\ v.order = u.order /\ v.n = u.n /\ v.adm = u.adm
          /\ v.lane = [u.lane EXCEPT ![a] = l]
      BY <2>1, LanesOf DEF Fields
    <3> HIDE DEF v
    <3>3. DOMAIN v.lane = Agents /\ \A b \in Agents : Line(v.lane[b], Known(u))
      BY <2>1, <3>1, <3>2, LanesOf
    <3>4. Good(v, restored, todo)
      BY <2>1, <3>2, <3>3, WaitGood
    <3> QED
      BY <2>3, <3>4, ScheduleGood
  <2> QED
    BY <1>1, <2>2, <2>3 DEF NewAgent, u
<1>2. ASSUME NEW q \in Queues, NewQueue(q) PROVE Good(w', restored, todo)
  <2> DEFINE a == Session[q]
             u == Minted(q)
             l == IF w.lane[a].st # "none" THEN w.lane[a]
                  ELSE NewLane(IF u.led[a].done = "none" THEN "opening" ELSE "released")
             k == [l EXCEPT !.q = Append(@, q)]
             v == [u EXCEPT !.turn[q] = "pending", !.lane[a] = k]
             off == Undrained # "off"
             n == [w EXCEPT !.n = @ + 1]
  <2>1. Good(u, restored, todo) /\ q \in Known(u) /\ u.lane = w.lane /\ a \in Agents
    BY MintedGood, BrokerAssumption DEF Calls, Turns
  <2>2. Line(k, Known(u))
    <3>1. Line(w.lane[a], Known(u))
      BY <2>1, LanesOf
    <3>2. Line(l, Known(u))
      BY <3>1, Empty DEF Line, LaneFields, NewLane, NoLane
    <3> HIDE DEF l, u
    <3>3. Append(l.q, q) \in Seq(Known(u) \cap Queues)
      BY <2>1, <3>2 DEF Line
    <3> QED
      BY <3>2, <3>3 DEF Line, LaneFields
  <2>3. \/ w' = SettleDirect(u, q, "reject")
        \/ w' = Schedule(Reattach(v), off) \/ w' = Schedule(v, off)
        \/ \E t \in {u, n} : w' = [PersistenceFatal(t, {a}, {q}) EXCEPT !.vm[q] = "reject"]
    BY <1>2 DEF NewQueue
  <2>10. Good(n, restored, todo)
    <3>1. /\ DOMAIN n = Fields /\ n.led = w.led /\ n.slots = w.slots /\ n.dq = w.dq
          /\ n.task = w.task /\ n.order = w.order /\ n.n = w.n + 1 /\ n.adm = w.adm
          /\ n.lane = w.lane
      BY LanesOf DEF Fields
    <3>2. w.n + 1 \in Nat
      BY DEF Good, Placed
    <3> HIDE DEF n
    <3> QED
      BY <3>1, <3>2 DEF Good, Placed, Known
  <2> HIDE DEF n, off
  <2>11. ASSUME NEW t \in {u, n}
         PROVE  Good([PersistenceFatal(t, {a}, {q}) EXCEPT !.vm[q] = "reject"], restored, todo)
    <3> DEFINE f == PersistenceFatal(t, {a}, {q})
               x == [f EXCEPT !.vm[q] = "reject"]
    <3>1. Good(f, restored, todo)
      BY <2>1, <2>10, PersistenceFatalGood
    <3> HIDE DEF f
    <3>2. /\ DOMAIN x = Fields /\ x.led = f.led /\ x.slots = f.slots /\ x.dq = f.dq
          /\ x.task = f.task /\ x.order = f.order /\ x.n = f.n /\ x.adm = f.adm
          /\ x.lane = f.lane
      BY <3>1, LanesOf DEF Fields
    <3> HIDE DEF x
    <3>3. Good(x, restored, todo)
      BY <3>1, <3>2, LanesOf, Calm
    <3> QED
      BY <3>3 DEF x, f
  <2> HIDE DEF u, k
  <2>4. /\ DOMAIN v = Fields /\ v.led = u.led /\ v.slots = u.slots /\ v.dq = u.dq
        /\ v.task = u.task /\ v.order = u.order /\ v.n = u.n /\ v.adm = u.adm
        /\ v.lane = [u.lane EXCEPT ![a] = k]
    BY <2>1, LanesOf DEF Fields
  <2> HIDE DEF v
  <2>5. DOMAIN v.lane = Agents /\ \A b \in Agents : Line(v.lane[b], Known(u))
    BY <2>1, <2>2, <2>4, LanesOf
  <2>6. Good(v, restored, todo)
    BY <2>1, <2>4, <2>5, Calm
  <2>7. Good(Reattach(v), restored, todo)
    BY <2>6, ReattachGood
  <2>8. Good(Schedule(Reattach(v), off), restored, todo) /\ Good(Schedule(v, off), restored, todo)
    BY <2>6, <2>7, ScheduleGood
  <2>9. Good(SettleDirect(u, q, "reject"), restored, todo)
    BY <2>1, SettleDirectGood DEF Final
  <2> QED
    BY <2>3, <2>8, <2>9, <2>11 DEF u
<1>3. ASSUME NEW s \in Steers, NewSteer(s) PROVE Good(w', restored, todo)
  <2> DEFINE a == Session[s]
             u == Minted(s)
             v == [u EXCEPT !.target[s] = w.lane[a].active, !.lane[a].ctl = Append(@, s)]
  <2>1. Good(u, restored, todo)
    BY MintedGood DEF Calls
  <2>2. w' = SettleDirect(u, s, "resolve") \/ w' = ProcessSteering(v, a, draining)
    BY <1>3 DEF NewSteer
  <2> HIDE DEF u
  <2>3. /\ DOMAIN v = Fields /\ v.led = u.led /\ v.slots = u.slots /\ v.dq = u.dq
        /\ v.task = u.task /\ v.order = u.order /\ v.n = u.n /\ v.adm = u.adm
        /\ v.lane = [u.lane EXCEPT ![a].ctl = Append(@, s)]
    BY <2>1, LanesOf DEF Fields
  <2>4. DOMAIN u.lane = Agents /\ \A b \in Agents : Line(u.lane[b], Known(u))
    BY <2>1, LanesOf
  <2> HIDE DEF v
  <2>5. DOMAIN v.lane = Agents /\ \A b \in Agents : Line(v.lane[b], Known(u))
    BY <2>3, <2>4 DEF Line, LaneFields
  <2>6. Good(v, restored, todo)
    BY <2>1, <2>3, <2>5, Calm
  <2> QED
    BY <2>1, <2>2, <2>6, SteeringGood, SettleDirectGood DEF Final
<1> QED
  BY <1>1, <1>2, <1>3

LEMMA CancelsGood ==
  ASSUME Good(w, restored, todo),
         \/ \E a \in Agents : CancelSession(a) \/ CancelTimeout(a) \/ SessionReleased(a)
         \/ \E q \in Queues : CancelQueued(q)
  PROVE  Good(w', restored, todo)
<1>1. ASSUME NEW a \in Agents, CancelSession(a) PROVE Good(w', restored, todo)
  BY <1>1, CancelFoundingGood, CancelGood, PersistenceFatalGood DEF CancelSession
<1>2. ASSUME NEW a \in Agents, CancelTimeout(a) \/ SessionReleased(a) PROVE Good(w', restored, todo)
  BY <1>2, FatalGood DEF CancelTimeout, SessionReleased
<1>3. ASSUME NEW q \in Queues, CancelQueued(q) PROVE Good(w', restored, todo)
  BY <1>3, CancelGood, PersistenceFatalGood DEF CancelQueued
<1> QED
  BY <1>1, <1>2, <1>3

LEMMA OpenLandsGood ==
  ASSUME Good(w, restored, todo), NEW a \in Agents, OpenLands(a) PROVE Good(w', restored, todo)
<1> DEFINE f == FailQueued(w, {a})
           u == [f EXCEPT !.task[a] = "bad", !.stopped = @ \ {a},
                          !.lane[a].prompt = @ /\ w.lane[a].active # a]
           t == [w EXCEPT !.task[a] = "prompt", !.sess = @ \cup {a}, !.led[a].sess = TRUE,
                          !.lane[a].st = "usable", !.lane[a].active = a, !.lane[a].prompt = TRUE]
<1>1. w' = u \/ w' = t
  BY DEF OpenLands
<1>2. Good(u, restored, todo)
  <2>1. Good(f, restored, todo)
    BY FailQueuedGood
  <2> HIDE DEF f
  <2>2. /\ DOMAIN u = Fields /\ u.led = f.led /\ u.slots = f.slots /\ u.dq = f.dq
        /\ u.task = [f.task EXCEPT ![a] = "bad"] /\ u.order = f.order /\ u.n = f.n /\ u.adm = f.adm
        /\ u.lane = [f.lane EXCEPT ![a].prompt = @ /\ w.lane[a].active # a]
    BY <2>1, LanesOf DEF Fields
  <2>3. DOMAIN f.lane = Agents /\ \A b \in Agents : Line(f.lane[b], Known(f))
    BY <2>1, LanesOf
  <2> HIDE DEF u
  <2>4. DOMAIN u.lane = Agents /\ \A b \in Agents : Line(u.lane[b], Known(f))
    BY <2>2, <2>3 DEF Line, LaneFields
  <2> QED
    BY <2>1, <2>2, <2>4, TaskGood DEF Tasks, Given, Idle
<1>3. Good(t, restored, todo)
  <2>1. /\ DOMAIN t = Fields /\ t.led = [w.led EXCEPT ![a].sess = TRUE] /\ t.slots = w.slots
        /\ t.dq = w.dq /\ t.task = [w.task EXCEPT ![a] = "prompt"]
        /\ t.order = w.order /\ t.n = w.n /\ t.adm = w.adm
        /\ t.lane = [w.lane EXCEPT ![a].st = "usable", ![a].active = a, ![a].prompt = TRUE]
    BY LanesOf DEF Fields
  <2>2. /\ DOMAIN w.lane = Agents /\ \A b \in Agents : Line(w.lane[b], Known(w))
        /\ w.led \in [Calls -> Entry] /\ w.task \in [Calls -> Tasks]
    BY LanesOf
  <2> HIDE DEF t
  <2>3. DOMAIN t.lane = Agents /\ \A b \in Agents : Line(t.lane[b], Known(w))
    BY <2>1, <2>2 DEF Line, LaneFields
  <2>4. t.led \in [Calls -> Entry] /\ \A c \in Calls : t.led[c].rec = w.led[c].rec
    <3>1. a \in Calls
      BY DEF Calls, Turns
    <3>2. t.led = [w.led EXCEPT ![a].sess = TRUE] \/ t.led = [w.led EXCEPT ![a].handoff = TRUE]
      BY <2>1
    <3>3. w.led \in [Calls -> Entry]
      BY <2>2
    <3> QED
      BY <3>1, <3>2, <3>3, MarkedLedger
  <2>5. /\ t.task \in [Calls -> Tasks]
        /\ \A c \in Calls : t.task[c] = IF c = a THEN "prompt" ELSE w.task[c]
    <3>1. "prompt" \in Tasks /\ t.task = [w.task EXCEPT ![a] = "prompt"] /\ w.task \in [Calls -> Tasks]
      BY <2>1, <2>2 DEF Tasks
    <3> QED
      BY <3>1
  <2>6. /\ \A c \in t.slots \ restored : t.task[c] \notin Idle
        /\ \A c \in Calls : t.task[c] \in Given => c \in restored
        /\ \A c \in Calls : t.task[c] = "reload" => w.task[c] = "reload"
    BY <2>1, <2>5, LanesOf DEF Good, Given, Idle
  <2> QED
    BY <2>1, <2>3, <2>4, <2>5, <2>6, Less
<1> QED
  BY <1>1, <1>2, <1>3

LEMMA HandoffGood ==
  ASSUME Good(w, restored, todo), NEW q \in Queues, Handoff(q) PROVE Good(w', restored, todo)
<1>1. CASE w' = [w EXCEPT !.led[q].handoff = TRUE]
  <2>2. /\ DOMAIN w' = Fields /\ w'.led = [w.led EXCEPT ![q].handoff = TRUE] /\ w'.slots = w.slots
        /\ w'.dq = w.dq /\ w'.task = w.task
        /\ w'.order = w.order /\ w'.n = w.n /\ w'.adm = w.adm /\ w'.lane = w.lane
    BY <1>1, LanesOf DEF Fields
  <2>3. /\ DOMAIN w.lane = Agents /\ \A b \in Agents : Line(w.lane[b], Known(w))
        /\ w.led \in [Calls -> Entry] /\ w.task \in [Calls -> Tasks]
    BY LanesOf
  <2>4. w'.led \in [Calls -> Entry] /\ \A c \in Calls : w'.led[c].rec = w.led[c].rec
    <3>1. q \in Calls
      BY DEF Calls, Turns
    <3>2. w'.led = [w.led EXCEPT ![q].sess = TRUE] \/ w'.led = [w.led EXCEPT ![q].handoff = TRUE]
      BY <2>2
    <3>3. w.led \in [Calls -> Entry]
      BY <2>3
    <3> QED
      BY <3>1, <3>2, <3>3, MarkedLedger
  <2>5. /\ \A c \in w.slots \ restored : w.task[c] \notin Idle
        /\ \A c \in Calls : w.task[c] \in Given => c \in restored
    BY DEF Good
  <2> QED
    BY <2>2, <2>3, <2>4, <2>5, Less
<1>2. CASE w' = [PersistenceFatal(w, {Session[q]}, {q}) EXCEPT
                    !.task[q] = "bad", !.lane[Session[q]].prompt = FALSE]
  <2> DEFINE f == PersistenceFatal(w, {Session[q]}, {q})
             a == Session[q]
  <2>1. Good(f, restored, todo)
    BY PersistenceFatalGood
  <2>2. w' = [f EXCEPT !.task[q] = "bad", !.lane[a].prompt = FALSE]
    BY <1>2
  <2> HIDE DEF f, a
  <2>3. /\ DOMAIN w' = Fields /\ w'.led = f.led /\ w'.slots = f.slots /\ w'.dq = f.dq
        /\ w'.task = [f.task EXCEPT ![q] = "bad"] /\ w'.order = f.order /\ w'.n = f.n
        /\ w'.adm = f.adm /\ w'.lane = [f.lane EXCEPT ![a].prompt = FALSE]
    BY <2>1, <2>2, LanesOf DEF Fields
  <2>4. DOMAIN f.lane = Agents /\ \A b \in Agents : Line(f.lane[b], Known(f))
    BY <2>1, LanesOf
  <2>5. DOMAIN w'.lane = Agents /\ \A b \in Agents : Line(w'.lane[b], Known(f))
    BY <2>3, <2>4 DEF Line, LaneFields
  <2> QED
    BY <2>1, <2>3, <2>5, TaskGood DEF Tasks, Given
<1> QED
  BY <1>1, <1>2 DEF Handoff

\* A task of c ends, or goes on to k.
LEMMA OneTaskGood ==
  ASSUME NEW c \in Calls, NEW k \in Tasks \ Idle, k \in Given => c \in restored,
         Good(w, restored, todo)
  PROVE  Good([w EXCEPT !.task[c] = k], restored, todo)
<1> DEFINE u == [w EXCEPT !.task[c] = k]
<1>1. /\ DOMAIN u = Fields /\ u.led = w.led /\ u.slots = w.slots /\ u.dq = w.dq
      /\ u.task = [w.task EXCEPT ![c] = k] /\ u.order = w.order /\ u.n = w.n /\ u.adm = w.adm
      /\ u.lane = w.lane
  BY LanesOf DEF Fields
<1> HIDE DEF u
<1>2. Good(u, restored, todo)
  BY <1>1, LanesOf, TaskGood DEF Idle
<1> QED
  BY <1>2 DEF u

LEMMA TurnEndsGood ==
  ASSUME Good(w, restored, todo),
         \/ \E a \in Agents : LoadedTurnEnds(a) \/ ReissueReattached(a)
         \/ \E q \in Queues : RestoredTurnEnds(q)
         \/ \E c \in Turns : PromptEnds(c)
         \/ \E s \in Steers : SteerAnswers(s)
  PROVE  Good(w', restored, todo)
<1>1. \A c \in Calls : w.task[c] \in Given => c \in restored
  BY DEF Good
<1>2. Agents \subseteq Calls /\ Queues \subseteq Calls /\ Turns \subseteq Calls /\ Steers \subseteq Calls
  BY DEF Calls, Turns
\* The lane of a is told, and its task goes on to k.
<1>3. ASSUME NEW c \in Calls, NEW k \in Tasks \ Idle, k \in Given => c \in restored,
             DOMAIN w' = Fields, w'.led = w.led, w'.slots = w.slots, w'.dq = w.dq,
             w'.task = [w.task EXCEPT ![c] = k], w'.order = w.order, w'.n = w.n, w'.adm = w.adm,
             DOMAIN w'.lane = Agents, \A b \in Agents : Line(w'.lane[b], Known(w))
      PROVE  Good(w', restored, todo)
  BY <1>3, TaskGood DEF Idle
<1>4. /\ DOMAIN w = Fields /\ DOMAIN w.lane = Agents
      /\ \A b \in Agents : Line(w.lane[b], Known(w))
  BY LanesOf
<1>5. ASSUME NEW a \in Agents, LoadedTurnEnds(a) PROVE Good(w', restored, todo)
  <2>1. a \in restored
    BY <1>1, <1>2, <1>5 DEF LoadedTurnEnds, Given
  <2>2. PICK k \in {"okay", "bad", "hold", "release"} :
          \/ w' = [w EXCEPT !.lane[a].prompt = @ /\ w.lane[a].active # a, !.task[a] = k]
          \/ w' = [w EXCEPT !.task[a] = k, !.lane[a].st = "released"]
    BY <1>5 DEF LoadedTurnEnds
  <2>3. /\ DOMAIN w' = Fields /\ w'.led = w.led /\ w'.slots = w.slots /\ w'.dq = w.dq
        /\ w'.task = [w.task EXCEPT ![a] = k] /\ w'.order = w.order /\ w'.n = w.n /\ w'.adm = w.adm
        /\ \/ w'.lane = [w.lane EXCEPT ![a].prompt = @ /\ w.lane[a].active # a]
           \/ w'.lane = [w.lane EXCEPT ![a].st = "released"]
    BY <1>4, <2>2 DEF Fields
  <2>4. DOMAIN w'.lane = Agents /\ \A b \in Agents : Line(w'.lane[b], Known(w))
    <3>1. CASE w'.lane = [w.lane EXCEPT ![a].prompt = @ /\ w.lane[a].active # a]
      BY <1>4, <3>1 DEF Line, LaneFields
    <3>2. CASE w'.lane = [w.lane EXCEPT ![a].st = "released"]
      BY <1>4, <3>2 DEF Line, LaneFields
    <3> QED
      BY <2>3, <3>1, <3>2
  <2> QED
    BY <1>2, <1>3, <2>1, <2>3, <2>4 DEF Tasks, Idle
<1>6. ASSUME NEW a \in Agents, ReissueReattached(a) PROVE Good(w', restored, todo)
  <2>1. a \in restored
    BY <1>1, <1>2, <1>6 DEF ReissueReattached, Given
  <2>2. PICK k \in {"hold", "open"} :
          \/ \E X : w' = [w EXCEPT !.task[a] = k, !.stopped = X]
          \/ w' = [w EXCEPT !.task[a] = k, !.lane[a].st = "opening"]
    BY <1>6 DEF ReissueReattached
  <2>3. /\ DOMAIN w' = Fields /\ w'.led = w.led /\ w'.slots = w.slots /\ w'.dq = w.dq
        /\ w'.task = [w.task EXCEPT ![a] = k] /\ w'.order = w.order /\ w'.n = w.n /\ w'.adm = w.adm
        /\ \/ w'.lane = w.lane
           \/ w'.lane = [w.lane EXCEPT ![a].st = "opening"]
    BY <1>4, <2>2 DEF Fields
  <2>4. DOMAIN w'.lane = Agents /\ \A b \in Agents : Line(w'.lane[b], Known(w))
    BY <1>4, <2>3 DEF Line, LaneFields
  <2> QED
    BY <1>2, <1>3, <2>1, <2>3, <2>4 DEF Tasks, Idle
<1>7. ASSUME NEW c \in Calls, NEW k \in {"okay", "bad"}, NEW a
      PROVE  /\ Good([w EXCEPT !.task[c] = k], restored, todo)
             /\ Good(MarkLaneFatal([w EXCEPT !.task[c] = k], a, draining), restored, todo)
  <2>1. k \in Tasks \ Idle /\ k \notin Given
    BY DEF Tasks, Given, Idle
  <2>2. Good([w EXCEPT !.task[c] = k], restored, todo)
    BY <2>1, OneTaskGood
  <2> QED
    BY <2>2, FatalGood
<1>8. ASSUME NEW q \in Queues, RestoredTurnEnds(q) PROVE Good(w', restored, todo)
  BY <1>2, <1>7, <1>8 DEF RestoredTurnEnds
<1>9. ASSUME NEW c \in Turns, PromptEnds(c) PROVE Good(w', restored, todo)
  <2>1. PICK k \in {"okay", "bad"} : w' = [w EXCEPT !.task[c] = k, !.lane[SessionOf(c)].prompt = FALSE]
    BY <1>9 DEF PromptEnds
  <2> DEFINE a == SessionOf(c)
  <2> HIDE DEF a
  <2>2. /\ DOMAIN w' = Fields /\ w'.led = w.led /\ w'.slots = w.slots /\ w'.dq = w.dq
        /\ w'.task = [w.task EXCEPT ![c] = k] /\ w'.order = w.order /\ w'.n = w.n /\ w'.adm = w.adm
        /\ w'.lane = [w.lane EXCEPT ![a].prompt = FALSE]
    BY <1>4, <2>1 DEF Fields, a
  <2>3. DOMAIN w'.lane = Agents /\ \A b \in Agents : Line(w'.lane[b], Known(w))
    BY <1>4, <2>2 DEF Line, LaneFields
  <2>4. k \in Tasks \ Idle /\ k \notin Given /\ c \in Calls
    BY <1>2 DEF Tasks, Given, Idle
  <2> QED
    BY <1>3, <2>2, <2>3, <2>4
<1>10. ASSUME NEW s \in Steers, SteerAnswers(s) PROVE Good(w', restored, todo)
  BY <1>2, <1>7, <1>10 DEF SteerAnswers
<1> QED
  BY <1>5, <1>6, <1>8, <1>9, <1>10

LEMMA ReattachLandsGood ==
  ASSUME Good(w, restored, todo), NEW a \in Agents, ReattachLands(a) PROVE Good(w', restored, todo)
<1> DEFINE held == {q \in Queues : Session[q] = a /\ w.task[q] = "load"}
           u == [w EXCEPT !.relo[a] = "none"]
           K == [c \in Calls |-> IF c \in held THEN "none" ELSE w.task[c]]
           M == [c \in Calls |-> IF c \in held THEN "await" ELSE u.task[c]]
           t == [w EXCEPT !.late = @ \ {a}]
           g == [u EXCEPT !.task = K]
           k == [u EXCEPT !.sess = @ \cup {a}, !.lane[a].st = "usable", !.task = M]
<1>1. \/ w' = MarkLaneFatal(t, a, draining) \/ w' = MarkLaneFatal(g, a, draining)
      \/ w' = Schedule(k, draining)
  <2>1. [c \in Calls |-> IF c \in held THEN "none" ELSE u.task[c]] = K
    BY LanesOf DEF Fields
  <2> QED
    BY <2>1 DEF ReattachLands
<1>2. /\ DOMAIN w = Fields /\ DOMAIN w.lane = Agents
      /\ \A b \in Agents : Line(w.lane[b], Known(w))
      /\ w.led \in [Calls -> Entry] /\ w.task \in [Calls -> Tasks] /\ w.slots \subseteq Calls
  BY LanesOf
<1>3. M = [c \in Calls |-> IF c \in held THEN "await" ELSE w.task[c]]
  BY <1>2 DEF Fields
<1>4. \A c \in held : c \in restored /\ c \in Calls
  BY DEF Good, Given, Calls, Turns
<1>5. /\ K \in [Calls -> Tasks] /\ M \in [Calls -> Tasks]
      /\ \A c \in Calls : /\ K[c] = IF c \in held THEN "none" ELSE w.task[c]
                          /\ M[c] = IF c \in held THEN "await" ELSE w.task[c]
  BY <1>2, <1>3 DEF Tasks
<1> HIDE DEF held
<1>6. /\ \A c \in w.slots \ restored : w.task[c] \notin Idle /\ K[c] \notin Idle /\ M[c] \notin Idle
      /\ \A c \in Calls : /\ w.task[c] \in Given => c \in restored
                          /\ K[c] \in Given => c \in restored
                          /\ M[c] \in Given => c \in restored
                          /\ K[c] = "reload" => w.task[c] = "reload"
                          /\ M[c] = "reload" => w.task[c] = "reload"
  BY <1>2, <1>4, <1>5 DEF Good, Given
<1> HIDE DEF K, M
<1>7. Good(t, restored, todo)
  <2>1. /\ DOMAIN t = Fields /\ t.led = w.led /\ t.slots = w.slots /\ t.dq = w.dq
        /\ t.task = w.task /\ t.order = w.order /\ t.n = w.n /\ t.adm = w.adm /\ t.lane = w.lane
    BY <1>2 DEF Fields
  <2> HIDE DEF t
  <2> QED
    BY <1>2, <2>1, Calm
<1>8. Good(g, restored, todo)
  <2>1. /\ DOMAIN g = Fields /\ g.led = w.led /\ g.slots = w.slots /\ g.dq = w.dq
        /\ g.task = K /\ g.order = w.order /\ g.n = w.n /\ g.adm = w.adm /\ g.lane = w.lane
    BY <1>2 DEF Fields
  <2> HIDE DEF g
  <2>2. /\ \A c \in g.slots \ restored : g.task[c] \notin Idle
        /\ \A c \in Calls : g.task[c] \in Given => c \in restored
        /\ \A c \in Calls : g.task[c] = "reload" => w.task[c] = "reload"
    BY <1>6, <2>1
  <2>3. g.task \in [Calls -> Tasks] /\ DOMAIN g.lane = Agents
    BY <1>2, <1>5, <2>1
  <2> QED
    BY <1>2, <2>1, <2>2, <2>3, Less
<1>9. Good(k, restored, todo)
  <2>1. /\ DOMAIN k = Fields /\ k.led = w.led /\ k.slots = w.slots /\ k.dq = w.dq
        /\ k.task = M /\ k.order = w.order /\ k.n = w.n /\ k.adm = w.adm
        /\ k.lane = [w.lane EXCEPT ![a].st = "usable"]
    BY <1>2 DEF Fields
  <2> HIDE DEF k
  <2>2. DOMAIN k.lane = Agents /\ \A b \in Agents : Line(k.lane[b], Known(w))
    BY <1>2, <2>1 DEF Line, LaneFields
  <2>3. /\ \A c \in k.slots \ restored : k.task[c] \notin Idle
        /\ \A c \in Calls : k.task[c] \in Given => c \in restored
        /\ \A c \in Calls : k.task[c] = "reload" => w.task[c] = "reload"
    BY <1>6, <2>1
  <2>4. k.task \in [Calls -> Tasks]
    BY <1>5, <2>1
  <2> QED
    BY <1>2, <2>1, <2>2, <2>3, <2>4, Less
<1> HIDE DEF t, g, k
<1> QED
  BY <1>1, <1>7, <1>8, <1>9, FatalGood, ScheduleGood

LEMMA DeliverGood ==
  ASSUME Good(w, restored, todo), NEW c \in Calls, Deliver(c) PROVE Good(w', restored, todo)
<1> DEFINE u == [w EXCEPT !.task[c] = "none"]
           o == IF w.task[c] = "okay" THEN "resolve" ELSE "reject"
           v == SettleStored(u, c, o)
           a == SessionOf(c)
           k == [v EXCEPT !.lane[a].ctl = Without(@, c), !.lane[a].steering = FALSE]
<1>1. /\ DOMAIN w = Fields /\ DOMAIN w.lane = Agents
      /\ \A b \in Agents : Line(w.lane[b], Known(w))
      /\ w.task \in [Calls -> Tasks] /\ w.slots \subseteq Turns
  BY LanesOf
<1>2. /\ DOMAIN u = Fields /\ u.led = w.led /\ u.slots = w.slots /\ u.dq = w.dq
      /\ u.task = [w.task EXCEPT ![c] = "none"] /\ u.order = w.order /\ u.n = w.n /\ u.adm = w.adm
      /\ u.lane = w.lane /\ u.vm = w.vm
  BY <1>1 DEF Fields
<1>3. o \in Final
  BY DEF Final
<1> HIDE DEF u, o
<1>4. CASE w.task[c] = "hold"
  <2>1. w' = u
    BY <1>4 DEF Deliver, u
  <2>2. c \in restored
    BY <1>4 DEF Good, Given
  <2>3. Good(u, restored, todo)
    BY <1>1, <1>2, <2>2, TaskGood DEF Tasks, Given
  <2> QED
    BY <2>1, <2>3
<1>5. CASE w.task[c] # "hold" /\ c \in Turns
  <2> DEFINE t == [u EXCEPT !.slots = @ \ {c}]
             r == SettleStored(t, c, o)
             x == [v EXCEPT !.slots = @ \ {c}]
  <2>1. w' = TurnSettled(v, c, draining)
    BY <1>5 DEF Deliver, u, o
  <2>2. /\ DOMAIN t = Fields /\ t.led = u.led /\ t.slots = u.slots \ {c} /\ t.dq = u.dq
        /\ t.task = u.task /\ t.order = u.order /\ t.n = u.n /\ t.adm = u.adm
        /\ t.lane = u.lane /\ t.vm = u.vm
    BY <1>2 DEF Fields
  <2> HIDE DEF t
  <2>3. Good(t, restored, todo)
    <3>1. /\ t.slots \subseteq w.slots /\ c \notin t.slots \ restored
          /\ t.led = w.led /\ t.dq = w.dq /\ t.order = w.order /\ t.n = w.n /\ t.adm = w.adm
          /\ t.lane = w.lane /\ t.task = [w.task EXCEPT ![c] = "none"]
      BY <1>2, <2>2
    <3>2. "none" \in Tasks /\ "none" \notin Given
      BY DEF Tasks, Given
    <3> QED
      BY <1>1, <2>2, <3>1, <3>2, TaskGood
  <2>4. Good(r, restored, todo)
    BY <1>3, <2>3, SettleAllGood DEF SettleStored
  <2>5. /\ DOMAIN r = Fields /\ r.slots = t.slots /\ r.dq = t.dq
        /\ r.task = t.task /\ r.order = t.order /\ r.n = t.n /\ r.adm = t.adm /\ r.lane = t.lane
    BY <2>2 DEF SettleStored, SettleAll, Fields
  <2>6. /\ DOMAIN v = Fields /\ v.slots = u.slots /\ v.dq = u.dq
        /\ v.task = u.task /\ v.order = u.order /\ v.n = u.n /\ v.adm = u.adm /\ v.lane = u.lane
    BY <1>2 DEF SettleStored, SettleAll, Fields
  <2>7. r.led = v.led
    <3> DEFINE L == [d \in Calls |-> IF d \in {c} /\ u.led[d].done = "none"
                                     THEN [u.led[d] EXCEPT !.done = o] ELSE u.led[d]]
    <3>1. r.led = L
      BY <2>2 DEF SettleStored, SettleAll, Fields
    <3>2. v.led = L
      BY <1>2 DEF SettleStored, SettleAll, Fields
    <3> QED
      BY <3>1, <3>2
  <2> HIDE DEF r, v
  <2>8. /\ DOMAIN x = Fields /\ x.led = r.led /\ x.slots = r.slots /\ x.dq = r.dq
        /\ x.task = r.task /\ x.order = r.order /\ x.n = r.n /\ x.adm = r.adm /\ x.lane = r.lane
    BY <2>2, <2>5, <2>6, <2>7 DEF Fields
  <2> HIDE DEF x
  <2>9. Good(x, restored, todo)
    BY <2>4, <2>8, LanesOf, Calm
  <2> QED
    BY <2>1, <2>9, TurnSettledGood DEF x, v
<1>6. CASE w.task[c] # "hold" /\ c \notin Turns
  <2>1. w' = ProcessSteering(k, a, draining)
    BY <1>6 DEF Deliver, u, o
  <2>2. Good(u, restored, todo)
    <3>1. c \notin u.slots /\ u.slots \subseteq w.slots /\ u.lane = w.lane /\ DOMAIN u.lane = Agents
      BY <1>1, <1>2, <1>6
    <3>2. "none" \in Tasks /\ "none" \notin Given
      BY DEF Tasks, Given
    <3> HIDE DEF v, a, k
    <3> QED
      BY <1>1, <1>2, <3>1, <3>2, TaskGood
  <2>3. Good(v, restored, todo)
    BY <1>3, <2>2, SettleAllGood DEF SettleStored
  <2> HIDE DEF v, a
  <2>4. /\ DOMAIN k = Fields /\ k.led = v.led /\ k.slots = v.slots /\ k.dq = v.dq
        /\ k.task = v.task /\ k.order = v.order /\ k.n = v.n /\ k.adm = v.adm
        /\ k.lane = [v.lane EXCEPT ![a].ctl = Without(@, c), ![a].steering = FALSE]
    BY <2>3, LanesOf DEF Fields
  <2>5. DOMAIN v.lane = Agents /\ \A b \in Agents : Line(v.lane[b], Known(v))
    BY <2>3, LanesOf
  <2> HIDE DEF k
  <2>6. DOMAIN k.lane = Agents /\ \A b \in Agents : Line(k.lane[b], Known(v))
    BY <2>4, <2>5 DEF Line, LaneFields
  <2>7. Good(k, restored, todo)
    BY <2>3, <2>4, <2>6, Calm
  <2> QED
    BY <2>1, <2>7, SteeringGood
<1> QED
  BY <1>4, <1>5, <1>6

LEMMA CutGood ==
  ASSUME Good(w, restored, todo), NEW F, Cut(F) PROVE Good(w', restored, todo)
<1> DEFINE A == {a \in w.sess : w.lane[a].active # None}
           T == {w.lane[a].active : a \in A}
           failed == {w.lane[a].active : a \in F}
           s == SettleAll(w, T \ failed, "reject")
           new(a) == a \in A /\ w.led[w.lane[a].active].done = "none"
           S == s.stopped \cup Opening \cup {a \in Agents : w.task[a] = "release"}
           R == [a \in Agents |-> IF s.relo[a] = "fresh" THEN "stale" ELSE s.relo[a]]
           U == [q \in Queues |-> IF q \in T /\ w.led[q].done = "none"
                                  THEN "cancelling" ELSE s.turn[q]]
           L == [a \in Agents |->
                  IF new(a) THEN [s.lane[a] EXCEPT !.cancelling = w.lane[a].active,
                                                   !.timer = w.lane[a].prompt]
                  ELSE s.lane[a]]
           x == [s EXCEPT !.stopped = S, !.relo = R, !.turn = U, !.lane = L]
<1>1. Good(s, restored, todo)
  BY SettleAllGood DEF Final
<1>2. w' = PersistenceFatal(x, F, failed)
  <2>1. DOMAIN s = Fields
    BY <1>1, LanesOf
  <2> QED
    BY <2>1 DEF Cut, Fields
<1>3. DOMAIN L = Agents /\ \A b \in Agents : Line(L[b], Known(s))
  <2>1. \A b \in Agents : Line(s.lane[b], Known(s))
    BY <1>1, LanesOf
  <2> HIDE DEF s, A
  <2> QED
    BY <2>1 DEF Line, LaneFields
<1> HIDE DEF s, S, R, U, L
<1>4. /\ DOMAIN x = Fields /\ x.led = s.led /\ x.slots = s.slots /\ x.dq = s.dq
      /\ x.task = s.task /\ x.order = s.order /\ x.n = s.n /\ x.adm = s.adm /\ x.lane = L
  BY <1>1, LanesOf DEF Fields
<1> HIDE DEF x
<1>5. Good(x, restored, todo)
  BY <1>1, <1>3, <1>4, Calm
<1> QED
  BY <1>2, <1>5, PersistenceFatalGood

LEMMA DrainGood ==
  ASSUME Good(w, restored, todo), StartDrain \/ DrainCut \/ StopAll \/ FinishDrain \/ AbortDrain
  PROVE  Good(w', restored, todo)
<1>1. CASE StartDrain \/ AbortDrain
  BY <1>1 DEF StartDrain, AbortDrain
<1>2. CASE DrainCut
  BY <1>2, CutGood DEF DrainCut
<1>3. CASE StopAll \/ FinishDrain
  BY <1>3, CutOffGood, ReleaseAllGood DEF StopAll, FinishDrain
<1> QED
  BY <1>1, <1>2, <1>3

LEMMA ReissueGood ==
  ASSUME NEW v, NEW X, NEW Y, Good(v, X, Y), NEW a \in Agents \ Y, a \in Known(v)
  PROVE  Good(Reissue(v, a), X, Y)
<1> DEFINE u == [v EXCEPT !.dq = @ \cup {a}]
<1>1. /\ DOMAIN u = Fields /\ u.led = v.led /\ u.slots = v.slots /\ u.dq = v.dq \cup {a}
      /\ u.task = v.task /\ u.order = v.order /\ u.n = v.n /\ u.adm = v.adm /\ u.lane = v.lane
  BY LanesOf DEF Fields
<1> HIDE DEF u
<1>2. Good(u, X, Y)
  BY <1>1, LanesOf, WaitGood
<1> QED
  BY <1>2, ScheduleGood DEF Reissue, u

\* Less is left to look at.
LEMMA FewerToDo == ASSUME NEW v, NEW X, NEW Y, Good(v, X, Y), NEW Z, Z \subseteq Y PROVE Good(v, X, Z)
BY DEF Good

LEMMA ReconcileGood ==
  ASSUME Good(w, restored, todo), NEW c \in Calls, w.led[c].rec, ReconcileStep(c)
  PROVE  Good(w', restored, todo')
<1>1. Good(w, restored, todo') /\ c \notin todo' /\ c \in todo
  BY FewerToDo DEF ReconcileStep
<1>2. c \in Known(w)
  BY DEF Good, Placed
<1>3. CASE w' = SettleStored(w, c, "reject")
  BY <1>1, <1>3, SettleAllGood DEF SettleStored, Final
<1>4. CASE w' = w
  BY <1>1, <1>4
<1>5. CASE c \in Agents /\ w' = Reissue(w, c)
  BY <1>1, <1>2, <1>5, ReissueGood
<1>6. CASE c \in Agents /\ w' = [w EXCEPT !.task[c] = "reload"]
  <2>1. /\ DOMAIN w' = Fields /\ w'.led = w.led /\ w'.slots = w.slots /\ w'.dq = w.dq
        /\ w'.task = [w.task EXCEPT ![c] = "reload"] /\ w'.order = w.order /\ w'.n = w.n
        /\ w'.adm = w.adm /\ w'.lane = w.lane
    BY <1>6, LanesOf DEF Fields
  <2>2. /\ w'.task \in [Calls -> Tasks]
        /\ \A d \in Calls : w'.task[d] = IF d = c THEN "reload" ELSE w.task[d]
    <3>1. "reload" \in Tasks /\ w.task \in [Calls -> Tasks]
      BY LanesOf DEF Tasks
    <3> QED
      BY <2>1, <3>1
  <2>3. Placed(w')
    BY <1>6, <2>1, <2>2 DEF Good, Placed, Known
  <2>4. c \notin w.slots
    BY <1>1, <1>6 DEF Good
  <2>5. \A d \in w'.slots \ restored : w'.task[d] \notin Idle
    BY <2>1, <2>2, <2>4, LanesOf DEF Good
  <2>6. \A d \in Calls : w'.task[d] \in Given => d \in restored
    BY <2>2 DEF Good, Given
  <2>7. \A a \in todo' \cap Agents : a \notin w'.dq /\ a \notin w'.slots /\ w'.task[a] # "reload"
    BY <1>1, <2>1, <2>2 DEF Good, Calls, Turns
  <2> QED
    BY <2>1, <2>3, <2>5, <2>6, <2>7 DEF Good
<1> QED
  BY <1>3, <1>4, <1>5, <1>6 DEF ReconcileStep

LEMMA RestoreLandsGood ==
  ASSUME Good(w, restored, todo), NEW a \in Agents, RestoreLands(a)
  PROVE  Good(w', restored', todo) /\ w.led[a].rec /\ restored' \subseteq restored \cup {a}
<1> DEFINE u == [w EXCEPT !.task[a] = "none"]
           k == [u EXCEPT !.stopped = @ \ {a}]
<1>1. a \in Calls /\ w.led[a].rec /\ a \in Known(w) /\ a \notin todo /\ a \notin w.slots \ restored
  <2>1. a \in Calls /\ w.task[a] = "reload"
    BY DEF Calls, Turns, RestoreLands
  <2> QED
    BY <2>1 DEF Good, Placed, Idle
<1>2. Good(u, restored, todo) /\ Known(u) = Known(w)
  <2>1. /\ DOMAIN u = Fields /\ u.led = w.led /\ u.slots = w.slots /\ u.dq = w.dq
        /\ u.task = [w.task EXCEPT ![a] = "none"] /\ u.order = w.order /\ u.n = w.n
        /\ u.adm = w.adm /\ u.lane = w.lane
    BY LanesOf DEF Fields
  <2> HIDE DEF u
  <2> QED
    BY <1>1, <2>1, LanesOf, TaskGood DEF Tasks, Given, Known
<1>3. Good(k, restored, todo)
  <2> HIDE DEF u
  <2>1. /\ DOMAIN k = Fields /\ k.led = u.led /\ k.slots = u.slots /\ k.dq = u.dq /\ k.task = u.task
        /\ k.order = u.order /\ k.n = u.n /\ k.adm = u.adm /\ k.lane = u.lane
    BY <1>2, LanesOf DEF Fields
  <2> HIDE DEF k
  <2> QED
    BY <1>2, <2>1, LanesOf, Calm
<1>4. \/ w' = k /\ restored' = restored
      \/ w' = Reissue(u, a) /\ restored' = restored
      \/ w' = Register(u, a) /\ restored' = restored \cup {a}
  BY DEF RestoreLands
<1> HIDE DEF u, k
<1>5. Good(Reissue(u, a), restored, todo) /\ Good(Register(u, a), restored \cup {a}, todo)
  BY <1>1, <1>2, ReissueGood, RegisterGood
<1> QED
  BY <1>1, <1>3, <1>4, <1>5

LEMMA FinishReconcileGood ==
  ASSUME Good(w, restored, todo), FinishReconcile
  PROVE  /\ Good(w', restored', todo)
         /\ \A c \in restored' : c \in restored \/ (c \in Calls /\ w.led[c].rec)
<1> DEFINE v == Rebuilt(w)
           u == IF draining THEN v ELSE Reattach(v)
<1>1. /\ w' = Schedule(u, draining)
      /\ restored' = restored \cup {q \in Queues : v.task[q] = "load"}
  BY DEF FinishReconcile
<1>2. Good(v, restored', todo)
  BY <1>1, RebuiltGood
<1>3. ASSUME NEW q \in Queues, v.task[q] = "load", q \notin restored PROVE w.led[q].rec /\ q \in Calls
  <2>1. DOMAIN w = Fields /\ q \in Calls
    BY LanesOf DEF Calls, Turns
  <2>2. v.task[q] = IF /\ q \in Queues /\ w.led[q].rec /\ w.led[q].done = "none"
                       /\ w.turn[q] = "none" /\ w.led[q].handoff
                    THEN "load" ELSE w.task[q]
    BY <2>1 DEF Rebuilt, Fields
  <2>3. w.task[q] # "load"
    BY <1>3, <2>1 DEF Good, Given
  <2> QED
    BY <1>3, <2>1, <2>2, <2>3
<1> HIDE DEF v
<1>4. Good(u, restored', todo)
  BY <1>2, ReattachGood
<1> HIDE DEF u
<1>5. Good(w', restored', todo)
  BY <1>1, <1>4, ScheduleGood
<1> QED
  BY <1>1, <1>3, <1>5

\* The new process holds no slot, and works for no turn.
LEMMA AttachedGood ==
  ASSUME NEW L \in [Calls -> Entry], NEW O \in Seq(Calls), NEW V, NEW R, NEW S, NEW Y, NEW u,
         u = Attached(L, O, V) \/ u = [Attached(L, O, V) EXCEPT !.reused = R, !.unsaved = S],
         \A c \in Calls : L[c].rec => c \in Ran(O)
  PROVE  Good(u, {}, Y)
<1>1. /\ DOMAIN u = Fields /\ u.led = L /\ u.order = O /\ u.n = 0
      /\ u.adm = [c \in Calls |-> L[c].seq] /\ u.lane = [a \in Agents |-> NoLane]
      /\ u.task = [c \in Calls |-> "none"] /\ u.dq = {} /\ u.slots = {}
  <2>1. CASE u = Attached(L, O, V)
    BY <2>1 DEF Attached, Fields
  <2>2. CASE u = [Attached(L, O, V) EXCEPT !.reused = R, !.unsaved = S]
    BY <2>2 DEF Attached, Fields
  <2> QED
    BY <2>1, <2>2
<1>2. u.adm \in [Calls -> Nat]
  BY <1>1 DEF Entry
<1>3. DOMAIN u.lane = Agents /\ \A a \in Agents : Line(u.lane[a], Known(u))
  <2>1. <<>> \in Seq(Known(u) \cap Queues)
    BY Empty
  <2>2. Line(NoLane, Known(u))
    BY <2>1 DEF Line, LaneFields, NoLane
  <2> QED
    BY <1>1, <2>2
<1>4. Placed(u)
  BY <1>1, <1>2, <1>3 DEF Placed, Known, Tasks
<1>5. Cardinality(u.slots \ {}) <= Cap
  <2>1. Cardinality(u.slots \ {}) = 0
    BY <1>1, FS_EmptySet
  <2> QED
    BY <2>1, BrokerAssumption
<1> QED
  BY <1>1, <1>4, <1>5 DEF Good, Given, Calls, Turns

-----------------------------------------------------------------------------
(* Within the cap *)

\* The slots are good apart from the restored turns; these, and the calls a
\* restore has still to look at, are in the ledger, and the guest knows the latter.
SlotInv ==
    /\ Good(w, restored, todo)
    /\ \A c \in restored \cup todo : c \in Calls /\ w.led[c].rec
    /\ \A c \in todo : w.vm[c] # "unborn"

LEMMA InitSlotInv == Init => SlotInv
<1> SUFFICES ASSUME Init PROVE SlotInv
  OBVIOUS
<1>1. [c \in Calls |-> Unborn] \in [Calls -> Entry]
  BY DEF Unborn, Entry
<1>2. \A c \in Calls : [d \in Calls |-> Unborn][c].rec => c \in Ran(<<>>)
  BY DEF Unborn
<1>3. Good(w, {}, {})
  BY <1>1, <1>2, Empty, AttachedGood DEF Init
<1> QED
  BY <1>3 DEF Init, SlotInv

LEMMA SlotInvStep == ASSUME IInv, SlotInv, Next PROVE SlotInv'
<1>1. Good(w, restored, todo) /\ \A c \in todo : w.vm[c] # "unborn"
  BY DEF SlotInv
\* Every step but a crash keeps the records, and most leave the restored turns alone.
<1>2. ASSUME Good(w', restored', todo'), Durable(w, w'),
             \A c \in restored' : c \in restored \/ (c \in Calls /\ w.led[c].rec),
             todo' \subseteq todo
      PROVE  SlotInv'
  <2>1. ASSUME NEW c \in restored' \cup todo' PROVE c \in Calls /\ w'.led[c].rec
    <3>1. c \in Calls /\ w.led[c].rec
      BY <1>2, <2>1 DEF SlotInv
    <3> QED
      BY <1>2, <3>1 DEF Durable
  <2>2. \A c \in todo' : w'.vm[c] # "unborn"
    BY <1>1, <1>2, <2>1 DEF Durable
  <2> QED
    BY <1>2, <2>1, <2>2 DEF SlotInv
<1>3. Durable(w, w') \/ Crash
  BY NextInv
<1>4. CASE Crash
  <2>1. /\ w' = [Attached(w.led, w.order, snap) EXCEPT !.reused = w.reused, !.unsaved = w.unsaved]
        /\ restored' = {} /\ todo' = {c \in Calls : snap[c] = "pending"}
    BY <1>4 DEF Crash
  <2>2. w.led \in [Calls -> Entry] /\ w.order \in Seq(Calls) /\ \A c \in Calls : w.led[c].rec => c \in Ran(w.order)
    BY <1>1 DEF Good, Placed, Known
  <2>3. Good(w', restored', todo')
    BY <2>1, <2>2, AttachedGood
  <2>4. \A c \in todo' : c \in Calls /\ w.led[c].rec /\ snap[c] # "unborn"
    BY <2>1 DEF IInv, Agrees
  <2>5. w'.led = w.led /\ w'.vm = snap
    BY <2>1 DEF Attached
  <2> QED
    BY <2>1, <2>3, <2>4, <2>5 DEF SlotInv
<1>5. ASSUME Good(w', restored, todo), restored' = restored, todo' = todo, ~Crash PROVE SlotInv'
  BY <1>2, <1>3, <1>5
<1>6. CASE ~Crash /\ \/ \E a \in Agents : NewAgent(a)
                     \/ \E q \in Queues : NewQueue(q)
                     \/ \E s \in Steers : NewSteer(s)
  <2>1. restored' = restored /\ todo' = todo
    BY <1>6 DEF NewAgent, NewQueue, NewSteer, Mint
  <2> QED
    BY <1>1, <1>5, <1>6, <2>1, NewCallGood
<1>7. CASE ~Crash /\ \/ \E a \in Agents : CancelSession(a) \/ CancelTimeout(a) \/ SessionReleased(a)
                     \/ \E q \in Queues : CancelQueued(q)
  <2>1. restored' = restored /\ todo' = todo
    BY <1>7 DEF CancelSession, CancelTimeout, SessionReleased, CancelQueued, Kept
  <2> QED
    BY <1>1, <1>5, <1>7, <2>1, CancelsGood
<1>8. ASSUME NEW c \in Calls, Answer(c), ~Crash PROVE SlotInv'
  <2>1. restored' = restored /\ todo' = todo
    BY <1>8 DEF Answer, OpenLands, LoadedTurnEnds, ReissueReattached, ReattachLands, Handoff,
          RestoredTurnEnds, PromptEnds, SteerAnswers, Kept
  <2>2. Good(w', restored, todo)
    BY <1>1, <1>8, OpenLandsGood, HandoffGood, ReattachLandsGood, TurnEndsGood DEF Answer
  <2> QED
    BY <1>5, <1>8, <2>1, <2>2
<1>9. ASSUME NEW c \in Calls, Deliver(c), ~Crash PROVE SlotInv'
  <2>1. restored' = restored /\ todo' = todo
    BY <1>9 DEF Deliver, Kept
  <2> QED
    BY <1>1, <1>5, <1>9, <2>1, DeliverGood
<1>10. CASE ~Crash /\ (StartDrain \/ DrainCut \/ StopAll \/ FinishDrain \/ AbortDrain)
  <2>1. restored' = restored /\ todo' = todo
    BY <1>10 DEF StartDrain, DrainCut, StopAll, FinishDrain, AbortDrain, DrainKept
  <2> QED
    BY <1>1, <1>5, <1>10, <2>1, DrainGood
<1>11. ASSUME NEW c \in Calls, ReconcileStep(c), ~Crash PROVE SlotInv'
  <2>1. c \in todo /\ todo' \subseteq todo /\ restored' = restored
    BY <1>11 DEF ReconcileStep
  <2>2. w.led[c].rec
    BY <2>1 DEF SlotInv
  <2>3. Good(w', restored', todo')
    BY <1>1, <1>11, <2>1, <2>2, ReconcileGood
  <2> QED
    BY <1>2, <1>3, <1>11, <2>1, <2>3
<1>12. ASSUME NEW a \in Agents, RestoreLands(a), ~Crash PROVE SlotInv'
  <2>1. todo' = todo /\ a \in Calls
    BY <1>12 DEF RestoreLands, Calls, Turns
  <2>2. Good(w', restored', todo') /\ w.led[a].rec /\ restored' \subseteq restored \cup {a}
    BY <1>1, <1>12, <2>1, RestoreLandsGood
  <2> QED
    BY <1>2, <1>3, <1>12, <2>1, <2>2
<1>13. CASE ~Crash /\ FinishReconcile
  <2>1. todo' = todo
    BY <1>13 DEF FinishReconcile
  <2>2. /\ Good(w', restored', todo')
        /\ \A d \in restored' : d \in restored \/ (d \in Calls /\ w.led[d].rec)
    BY <1>1, <1>13, <2>1, FinishReconcileGood
  <2> QED
    BY <1>2, <1>3, <1>13, <2>1, <2>2
<1>14. CASE Flush
  <2>1. w' = w /\ restored' = restored /\ todo' = todo
    BY <1>14 DEF Flush
  <2> QED
    BY <2>1 DEF SlotInv
<1> QED
  BY <1>4, <1>6, <1>7, <1>8, <1>9, <1>10, <1>11, <1>12, <1>13, <1>14 DEF Next

THEOREM SlotInvariance == Spec => []SlotInv
<1>1. Init => SlotInv
  BY InitSlotInv
<1>2. IInv /\ SlotInv /\ [Next]_vars => SlotInv'
  <2>1. ASSUME SlotInv, UNCHANGED vars PROVE SlotInv'
    BY <2>1 DEF vars, SlotInv
  <2> QED
    BY <2>1, SlotInvStep
<1> QED
  BY <1>1, <1>2, Inv, PTL DEF Spec

\* maxConcurrentAgents: whatever ends, fails, is cancelled, drained or restored,
\* no more turns hold a slot than the cap, beyond those that a restore
\* found running.
THEOREM WithinCap == Spec => []CapUnlessRestored
<1>1. SlotInv => CapUnlessRestored
  <2> SUFFICES ASSUME SlotInv PROVE Cardinality(w.slots) <= Cap + Cardinality(restored)
    BY DEF CapUnlessRestored
  <2>1. /\ IsFiniteSet(w.slots) /\ IsFiniteSet(Known(w)) /\ restored \subseteq Known(w)
        /\ Cardinality(w.slots \ restored) <= Cap
    BY SlotsFinite DEF SlotInv, Good, Placed
  <2>2. /\ IsFiniteSet(restored) /\ IsFiniteSet(w.slots \ restored)
        /\ IsFiniteSet((w.slots \ restored) \cap restored)
    BY <2>1, FS_Subset
  <2>3. /\ IsFiniteSet((w.slots \ restored) \cup restored)
        /\ Cardinality((w.slots \ restored) \cup restored)
              = Cardinality(w.slots \ restored) + Cardinality(restored)
                - Cardinality((w.slots \ restored) \cap restored)
    BY <2>2, FS_Union
  <2>4. w.slots \in SUBSET ((w.slots \ restored) \cup restored)
    OBVIOUS
  <2>5. Cardinality(w.slots) <= Cardinality((w.slots \ restored) \cup restored)
    BY <2>3, <2>4, FS_Subset
  <2>6. /\ Cardinality(w.slots) \in Nat /\ Cardinality(restored) \in Nat
        /\ Cardinality(w.slots \ restored) \in Nat
        /\ Cardinality((w.slots \ restored) \cap restored) \in Nat /\ Cap \in Nat
    BY <2>1, <2>2, FS_CardinalityType, BrokerAssumption
  <2> QED
    BY <2>1, <2>3, <2>5, <2>6
<1> QED
  BY <1>1, SlotInvariance, PTL

\* No early return, cancel, quarantine, failed write or drain leaks the slot of a turn
\* that scheduleAdmissions started: some task works for it.
THEOREM NoSlotLeaks == Spec => [](\A c \in w.slots \ restored : w.task[c] # "none")
<1>1. SlotInv => \A c \in w.slots \ restored : w.task[c] # "none"
  BY DEF SlotInv, Good, Idle
<1> QED
  BY <1>1, SlotInvariance, PTL
================================================================================
