------------------------- MODULE RunLifecycleProofs -------------------------
(***************************************************************************)
(* For any number of managers, calls, values, operations and failures, and *)
(* with deaths inside every writing span: the run has one writer, the      *)
(* writer knows everything the disk knows, and so nothing durable is lost; *)
(* and the history a manager has cached hides no execution by another.     *)
(***************************************************************************)
EXTENDS RunLifecycle, FiniteSetTheorems, TLAPS

(* What OwnerSubsumesDisk says of one owner's ManagedRun r and the snapshot. *)
Knows(r, s) ==
  s # NoRun =>
    /\ s.st = "running" /\ s.gen = r.gen
    /\ Keeps(s, r)
    /\ s.receipts = r.receipts
    /\ s.inc => r.inc

(* An owner is alive, and owning is executing. *)
OwnersLive == own \subseteq alive
OwnersRun  == \A m \in Managers : m \in own <=> run[m].st = "running"

(* An append requires a snapshot, and a delete takes the log first. *)
LogNeedsSnapshot == snap = NoRun => log = <<>>

(* Only the first generation can be executing without a snapshot.          *)
FreshOwner ==
  \A m \in own : snap = NoRun => run[m].gen = 0 /\ run[m].receipts = NoRun.receipts

IInv == /\ TypeOK /\ OwnersLive /\ OwnersRun /\ OwnerHoldsLease
        /\ OwnerSubsumesDisk /\ OwnerAtTail /\ LogNeedsSnapshot /\ FreshOwner

-----------------------------------------------------------------------------
(* Records *)

(* What a record keeps of another depends on its journal alone, and adds up. *)
LEMMA KeepsSame ==
  ASSUME NEW q, NEW r, q.journal = r.journal, q.fresh = r.fresh
  PROVE  Keeps(q, r)
  BY DEF Keeps

LEMMA KeepsTrans ==
  ASSUME NEW q, NEW r, NEW s, Keeps(q, r), Keeps(r, s)
  PROVE  Keeps(q, s)
  BY DEF Keeps

(* A record that is not NoRun has one of the program's statuses. *)
LEMMA RunStatus ==
  /\ NoRun \notin Run /\ NoRun.st = "absent" /\ NoRun.gen = 0 /\ ~NoRun.inc /\ NoRun.seq = 0
  /\ NoRun.why = "none"
  /\ NoRun.journal = [c \in Calls |-> NoValue] /\ NoRun.fresh = {}
  /\ NoRun.receipts = [o \in Ops |-> 0]
  /\ NoRun.journal \in Journals /\ NoRun.receipts \in [Ops -> Nat]
  BY DEF Run, NoRun, Statuses, Journals

(* Retired keeps the status and the generation, of a legal record. *)
LEMMA RetiredType ==
  ASSUME NEW st \in Statuses, NEW gen \in Nat, NEW r, r.st = st, r.gen = gen
  PROVE  Retired(r) \in Run /\ Retired(r).st = st
  BY RunStatus DEF Retired, Run, NoRun, Reasons

(* publishRunEvent changes the watermark and the mark, nothing else: it    *)
(* moves the watermark by one exactly when the log grows, and never clears *)
(* the mark.                                                               *)
LEMMA PublishedFields ==
  ASSUME NEW s, NEW r \in Run, NEW o \in Outcomes
  PROVE  LET p == Published(s, r, o) IN
         /\ p \in Run
         /\ p.st = r.st /\ p.why = r.why /\ p.gen = r.gen
         /\ p.journal = r.journal /\ p.fresh = r.fresh /\ p.receipts = r.receipts
         /\ r.inc => p.inc
         /\ p.inc <=> ~Appends(s, r, o)
         /\ p.seq = IF Appends(s, r, o) THEN r.seq + 1 ELSE r.seq
<1>1. Appends(s, r, o) \in BOOLEAN /\ (r.inc => ~Appends(s, r, o))
  BY DEF Appends
<1>2. CASE Appends(s, r, o)
  <2>1. Published(s, r, o) = [r EXCEPT !.seq = r.seq + 1, !.inc = FALSE]
    BY <1>2 DEF Published
  <2>2. r.seq + 1 \in Nat
    BY DEF Run
  <2> QED
    BY <1>1, <1>2, <2>1, <2>2 DEF Run
<1>3. CASE ~Appends(s, r, o)
  <2>1. Published(s, r, o) = [r EXCEPT !.seq = r.seq, !.inc = TRUE]
    BY <1>3 DEF Published
  <2> QED
    BY <1>1, <1>3, <2>1 DEF Run
<1> QED
  BY <1>1, <1>2, <1>3

(* prepareEventPublicationState, likewise: an unmarked result has the log's *)
(* tail for its watermark.                                                 *)
LEMMA PreparedFields ==
  ASSUME TypeOK, snap \in Run, NEW o \in Outcomes
  PROVE  LET p == Prepared(o) IN
         /\ p \in Run
         /\ p.st = snap.st /\ p.why = snap.why /\ p.gen = snap.gen
         /\ p.journal = snap.journal /\ p.fresh = snap.fresh /\ p.receipts = snap.receipts
         /\ snap.inc => p.inc
         /\ p.inc <=> ~TailRead(o)
         /\ ~p.inc => p.seq = Len(log)
<1>1. TailRead(o) \in BOOLEAN /\ (snap.inc => ~TailRead(o))
  BY DEF TailRead, Outcomes
<1>2. Len(log) \in Nat
  BY DEF TypeOK
<1>3. CASE TailRead(o)
  BY <1>1, <1>2, <1>3 DEF Prepared, Run
<1>4. CASE ~TailRead(o)
  BY <1>1, <1>2, <1>4 DEF Prepared, Run
<1> QED
  BY <1>1, <1>3, <1>4

(* An event record goes to the end of the log, or nowhere. *)
LEMMA LogEffect ==
  ASSUME TypeOK, NEW s, NEW r, NEW o, NEW e \in Events, Log(s, r, o, e)
  PROVE  /\ log' \in Seq(Events)
         /\ Appends(s, r, o) => /\ ~r.inc /\ r.seq + 1 = Len(log) + 1 /\ s # NoRun
                                /\ Len(log') = Len(log) + 1
         /\ ~Appends(s, r, o) => log' = log
<1>1. CASE Appends(s, r, o)
  BY <1>1 DEF Log, TypeOK, Appends
<1>2. CASE ~Appends(s, r, o)
  BY <1>2 DEF Log, TypeOK
<1> QED
  BY <1>1, <1>2

(* Failures are counted up to the bound; only the acting process can die.  *)
LEMMA ChargeEffect ==
  ASSUME TypeOK, NEW m \in alive, NEW o \in Outcomes, Charge(m, o)
  PROVE  /\ faults' \in 0 .. MaxFaults
         /\ alive' \subseteq alive
         /\ alive' = IF o.dies THEN alive \ {m} ELSE alive
<1> DEFINE F == {f \in IO : ~o[f]}
<1>1. IsFiniteSet(IO)
  <2>1. IsFiniteSet({"read"}) /\ IsFiniteSet({"save"}) /\ IsFiniteSet({"append"})
    BY FS_Singleton
  <2>2. IsFiniteSet({"read"} \cup {"save"} \cup {"append"})
    BY <2>1, FS_Union
  <2>3. IO = ({"read"} \cup {"save"} \cup {"append"}) \cup {"resave"}
    BY DEF IO
  <2> QED
    BY <2>2, <2>3, FS_AddElement
<1>2. IsFiniteSet(F)
  BY <1>1, FS_Subset, F \subseteq IO
<1>3. Cardinality(F) \in Nat
  BY <1>2, FS_CardinalityType
<1>4. faults' = (IF o.dies THEN faults ELSE faults + Cardinality(F)) /\ faults' <= MaxFaults
  BY DEF Charge
<1>5. alive' = IF o.dies THEN alive \ {m} ELSE alive
  BY DEF Charge
<1> HIDE DEF F
<1>6. faults \in 0 .. MaxFaults /\ MaxFaults \in Nat
  BY BoundsAssumption DEF TypeOK
<1> QED
  BY <1>3, <1>4, <1>5, <1>6

-----------------------------------------------------------------------------
(* Spans *)

(* Whoever is entitled to write is alone: the lease is the owner's, or     *)
(* free, and then nobody owns the run.                                     *)
LEMMA WriterAlone ==
  ASSUME IInv, NEW m \in alive, m \in own \/ LeaseFree
  PROVE  own \subseteq {m} /\ (LeaseFree => own = {})
<1>1. \A n \in own : n \in alive /\ n \in Managers /\ lease = n
  BY DEF IInv, TypeOK, OwnersLive, OwnerHoldsLease
<1> QED
  BY <1>1, ManagersAssumption DEF LeaseFree

(* A span that leaves its manager m executing the record r. *)
LEMMA ExecutingSpan ==
  ASSUME IInv, NEW m \in alive, NEW o \in Outcomes, Charge(m, o),
         m \in own \/ LeaseFree,
         NEW r \in Run, r.st = "running",
         Memory(m, r, o), Owned(m, TRUE, o), Settled(m, FALSE, o), lease' = m,
         snap' \in Run \cup {NoRun}, log' \in Seq(Events), tombstone' \in BOOLEAN,
         Knows(r, snap'), ~r.inc => r.seq = Len(log'),
         snap' = NoRun => log' = <<>> /\ r.gen = 0 /\ r.receipts = NoRun.receipts
  PROVE  IInv'
<1>1. m \in Managers /\ own \subseteq {m} /\ own \subseteq Managers
  BY WriterAlone DEF IInv, TypeOK
<1>2. /\ faults' \in 0 .. MaxFaults /\ alive' \subseteq alive
      /\ alive' = IF o.dies THEN alive \ {m} ELSE alive
  BY ChargeEffect DEF IInv
<1>3. o.dies \in BOOLEAN
  BY DEF Outcomes
<1>4. own' = IF o.dies THEN {} ELSE {m}
  BY <1>1, <1>3 DEF Owned
<1>5. /\ run' \in [Managers -> Run \cup {NoRun}]
      /\ run'[m] = IF o.dies THEN NoRun ELSE r
      /\ \A n \in Managers \ {m} : run'[n] = run[n]
  BY <1>1, <1>3 DEF Memory, IInv, TypeOK
<1>6. TypeOK'
  BY <1>1, <1>2, <1>4, <1>5 DEF IInv, TypeOK, Settled
<1>7. OwnersLive'
  BY <1>2, <1>4 DEF OwnersLive
<1>8. OwnersRun'
  BY <1>1, <1>3, <1>4, <1>5, RunStatus DEF IInv, OwnersRun
<1>9. OwnerHoldsLease'
  BY <1>4 DEF OwnerHoldsLease
<1>10. \A n \in own' : n = m /\ run'[n] = r
  BY <1>3, <1>4, <1>5
<1>11. OwnerSubsumesDisk'
  BY <1>10 DEF OwnerSubsumesDisk, Knows
<1>12. OwnerAtTail'
  BY <1>10 DEF OwnerAtTail
<1>13. FreshOwner'
  BY <1>10 DEF FreshOwner
<1> QED
  BY <1>6, <1>7, <1>8, <1>9, <1>11, <1>12, <1>13 DEF IInv, LogNeedsSnapshot

(* A span after which nobody executes the run, and its manager m holds the *)
(* record r.                                                               *)
LEMMA IdleSpan ==
  ASSUME IInv, NEW m \in alive, NEW o \in Outcomes, Charge(m, o),
         m \in own \/ LeaseFree,
         NEW r \in Run \cup {NoRun}, r.st # "running",
         Memory(m, r, o), Owned(m, FALSE, o), settled' \subseteq Managers,
         lease' \in Managers \cup {NoManager},
         snap' \in Run \cup {NoRun}, log' \in Seq(Events), tombstone' \in BOOLEAN,
         snap' = NoRun => log' = <<>>
  PROVE  IInv'
<1>1. m \in Managers /\ own \subseteq {m} /\ own \subseteq Managers
  BY WriterAlone DEF IInv, TypeOK
<1>2. /\ faults' \in 0 .. MaxFaults /\ alive' \subseteq alive
  BY ChargeEffect DEF IInv
<1>3. own' = {}
  BY <1>1 DEF Owned
<1>4. /\ run' \in [Managers -> Run \cup {NoRun}]
      /\ run'[m] \in {NoRun, r}
      /\ \A n \in Managers \ {m} : run'[n] = run[n]
  BY <1>1 DEF Memory, IInv, TypeOK
<1>5. TypeOK'
  BY <1>1, <1>2, <1>3, <1>4 DEF IInv, TypeOK
<1>6. OwnersRun'
  BY <1>1, <1>3, <1>4, RunStatus DEF IInv, OwnersRun
<1> QED
  BY <1>3, <1>5, <1>6
  DEF IInv, OwnersLive, OwnerHoldsLease, OwnerSubsumesDisk, OwnerAtTail, LogNeedsSnapshot,
      FreshOwner

(* A recovering span of a manager that holds the lease only for the span.  *)
LEMMA RecoverySpan ==
  ASSUME IInv, NEW m \in alive, NEW o \in Outcomes, Charge(m, o), LeaseFree,
         SameMemory(m, o), lease' = NoManager,
         snap' \in Run \cup {NoRun}, log' \in Seq(Events), tombstone' \in BOOLEAN,
         snap' = NoRun => log' = <<>>
  PROVE  IInv'
<1>1. m \in Managers /\ m \notin own
  BY WriterAlone DEF IInv, TypeOK
<1>2. run[m] \in Run \cup {NoRun} /\ run[m].st # "running"
  BY <1>1 DEF IInv, TypeOK, OwnersRun
<1>3. Memory(m, run[m], o) /\ Owned(m, FALSE, o) /\ settled' \subseteq Managers
  BY <1>1 DEF SameMemory, Owned, Settled, IInv, TypeOK
<1> QED
  BY <1>2, <1>3, IdleSpan

-----------------------------------------------------------------------------
(* Steps.  Each lemma proves of an action that it preserves the invariant  *)
(* and keeps what is durable.                                              *)

Follows(s, r) ==
  IF r.gen = s.gen THEN Keeps(s, r)
                   ELSE \A c \in Calls : s.journal[c] # NoValue => r.journal[c] = s.journal[c]

KeepsEntries ==
  snap # NoRun /\ snap' # NoRun =>
    /\ Follows(snap, snap')
    /\ \A op \in Ops : snap.receipts[op] # 0 => snap'.receipts[op] = snap.receipts[op]

KeepsLoss == snap.inc /\ snap' # NoRun => snap'.inc /\ log' \in {log, <<>>}

RecordStep == Record!Next \/ UNCHANGED Record!vars

Good == IInv' /\ KeepsEntries /\ KeepsLoss /\ RecordStep

(* An unchanged snapshot, or one whose status, generation, journal and     *)
(* receipts are unchanged, is a stutter of the abstract record.            *)
LEMMA RecordStutters ==
  ASSUME snap'.st = snap.st, snap'.gen = snap.gen, snap'.journal = snap.journal,
         snap'.fresh = snap.fresh, snap'.receipts = snap.receipts
  PROVE  RecordStep
  BY DEF RecordStep, Record!vars

(* A save by the owner is a Create or an Advance of the abstract record.   *)
LEMMA RecordAdvances ==
  ASSUME snap \in Run \cup {NoRun}, snap' \in Run,
         snap = NoRun => snap'.gen = 0 /\ snap'.receipts = NoRun.receipts,
         snap # NoRun =>
           /\ snap.st = "running" /\ snap'.gen = snap.gen /\ snap'.receipts = snap.receipts
           /\ Keeps(snap, snap')
  PROVE  RecordStep
<1>1. /\ snap'.st \in Record!Statuses /\ snap'.journal \in Record!Journals
      /\ snap'.fresh \in SUBSET Calls
  BY DEF Run, Statuses, Journals, Record!Statuses, Record!Journals
<1>2. CASE snap = NoRun
  BY <1>1, <1>2, RunStatus DEF RecordStep, Record!Next, Record!Create
<1>3. CASE snap # NoRun
  <2>1. snap.fresh \subseteq snap'.fresh
    BY <1>3 DEF Keeps
  <2>2. Record!Keeps(snap.journal, snap'.journal, snap'.fresh \ snap.fresh)
    BY <1>3 DEF Record!Keeps, Keeps
  <2> QED
    BY <1>1, <1>3, <2>1, <2>2 DEF RecordStep, Record!Next, Record!Advance
<1> QED
  BY <1>2, <1>3

(* A start takes a free lease over an absent snapshot, hence an empty log. *)
LEMMA StartStep ==
  ASSUME IInv, NEW m \in alive, NEW o \in Outcomes, Charge(m, o), Start(m, o)
  PROVE  Good
<1> DEFINE r == [NoRun EXCEPT !.st = "running"]
<1>1. /\ r \in Run /\ r.st = "running" /\ ~r.inc /\ r.seq = 0
      /\ r.gen = 0 /\ r.receipts = NoRun.receipts
  BY DEF NoRun, Run, Statuses, Reasons, Journals
<1>2. /\ LeaseFree /\ snap = NoRun /\ Memory(m, r, o) /\ snap' \in {r, snap}
      /\ Owned(m, TRUE, o) /\ Settled(m, FALSE, o) /\ lease' = m
      /\ log' = log /\ tombstone' = tombstone
  BY DEF Start
<1> HIDE DEF r
<1>3. log = <<>> /\ log' \in Seq(Events) /\ Len(log') = 0 /\ tombstone' \in BOOLEAN
  BY <1>2 DEF IInv, TypeOK, LogNeedsSnapshot
<1>4. Knows(r, snap')
  BY <1>1, <1>2, KeepsSame DEF Knows
<1>5. IInv'
  BY <1>1, <1>2, <1>3, <1>4, ExecutingSpan
<1>6. RecordStep
  BY <1>1, <1>2, RecordAdvances, RecordStutters
<1> QED
  BY <1>2, <1>5, <1>6, RunStatus DEF Good, KeepsEntries, KeepsLoss

(* What the manager of a running execution has in hand. *)
LEMMA OwnerRecord ==
  ASSUME IInv, NEW m \in alive, run[m].st = "running"
  PROVE  /\ m \in own /\ m \in Managers /\ lease = m
         /\ run[m] \in Run /\ Knows(run[m], snap)
         /\ ~run[m].inc => run[m].seq = Len(log)
         /\ snap \in Run \cup {NoRun} /\ log \in Seq(Events) /\ Len(log) \in Nat
         /\ tombstone \in BOOLEAN
         /\ snap = NoRun => run[m].gen = 0 /\ run[m].receipts = NoRun.receipts
<1>1. m \in Managers /\ m \in own
  BY DEF IInv, TypeOK, OwnersRun
<1>2. run[m] \in Run
  BY <1>1, RunStatus DEF IInv, TypeOK
<1>3. Knows(run[m], snap)
  BY <1>1 DEF IInv, OwnerSubsumesDisk, Knows
<1> QED
  BY <1>1, <1>2, <1>3 DEF IInv, TypeOK, OwnerHoldsLease, OwnerAtTail, FreshOwner

(* The owner publishes a record r that keeps what its own record has, and  *)
(* saves it or not: the disk stays subsumed, and the watermark at the tail. *)
LEMMA OwnerPublishes ==
  ASSUME IInv, NEW m \in alive, run[m].st = "running",
         NEW o \in Outcomes, NEW r \in Run, NEW e \in Events,
         r.gen = run[m].gen, r.receipts = run[m].receipts,
         r.inc = run[m].inc, r.seq = run[m].seq,
         Keeps(run[m], r),
         Log(snap, r, o, e), snap' \in {snap, Published(snap, r, o)}
  PROVE  /\ Published(snap, r, o) \in Run /\ snap' \in Run \cup {NoRun}
         /\ log' \in Seq(Events)
         /\ r.st = "running" => Knows(Published(snap, r, o), snap')
         /\ LET p == Published(snap, r, o) IN ~p.inc => p.seq = Len(log')
         /\ snap' = NoRun => /\ log' = <<>> /\ Published(snap, r, o).gen = 0
                            /\ Published(snap, r, o).receipts = NoRun.receipts
         /\ KeepsEntries /\ KeepsLoss /\ RecordStep
<1> DEFINE p == Published(snap, r, o)
<1>1. /\ p \in Run /\ p.st = r.st /\ p.gen = r.gen
      /\ p.journal = r.journal /\ p.fresh = r.fresh /\ p.receipts = r.receipts
      /\ r.inc => p.inc
      /\ p.inc <=> ~Appends(snap, r, o)
      /\ p.seq = IF Appends(snap, r, o) THEN r.seq + 1 ELSE r.seq
  BY PublishedFields
<1> HIDE DEF p
<1>2. /\ log' \in Seq(Events)
      /\ Appends(snap, r, o) => /\ ~r.inc /\ snap # NoRun /\ ~snap.inc
                                /\ Len(log') = Len(log) + 1
      /\ ~Appends(snap, r, o) => log' = log
  BY LogEffect DEF IInv, Appends
<1>3. /\ m \in own /\ Knows(run[m], snap) /\ snap \in Run \cup {NoRun}
      /\ ~run[m].inc => run[m].seq = Len(log)
      /\ snap = NoRun => run[m].gen = 0 /\ run[m].receipts = NoRun.receipts
  BY OwnerRecord
<1>4. snap' \in {snap, p}
  BY DEF p
<1>5. snap' \in Run \cup {NoRun}
  BY <1>1, <1>3, <1>4
<1>12. Keeps(p, p) /\ Keeps(run[m], p) /\ (snap # NoRun => Keeps(snap, p))
  <2>1. Keeps(p, p) /\ Keeps(r, p)
    BY <1>1, KeepsSame
  <2>2. Keeps(run[m], p)
    BY <2>1, KeepsTrans
  <2>3. ASSUME snap # NoRun PROVE Keeps(snap, p)
    <3>1. Keeps(snap, run[m])
      BY <1>3, <2>3 DEF Knows
    <3> QED
      BY <2>2, <3>1, KeepsTrans
  <2> QED
    BY <2>1, <2>2, <2>3
<1>6. r.st = "running" => Knows(p, snap')
  <2>1. CASE snap' = snap
    BY <1>1, <1>3, <1>12, <2>1 DEF Knows
  <2>2. CASE snap' = p
    BY <1>1, <1>12, <2>2 DEF Knows
  <2> QED
    BY <1>4, <2>1, <2>2
<1>7. ~p.inc => p.seq = Len(log')
  BY <1>1, <1>2, <1>3
<1>8. snap' = NoRun => log' = <<>> /\ p.gen = 0 /\ p.receipts = NoRun.receipts
  BY <1>1, <1>2, <1>3, <1>4, RunStatus DEF IInv, LogNeedsSnapshot
<1>9. KeepsEntries
  BY <1>1, <1>3, <1>4, <1>12, KeepsSame DEF KeepsEntries, Knows, Follows
<1>10. KeepsLoss
  BY <1>1, <1>2, <1>3, <1>4, RunStatus DEF KeepsLoss, Knows
<1>11. RecordStep
  <2>1. CASE snap' = snap
    BY <2>1, RecordStutters
  <2>2. CASE snap' = p
    BY <1>1, <1>3, <1>12, <2>2, RecordAdvances DEF Knows
  <2> QED
    BY <1>4, <2>1, <2>2
<1> QED
  BY <1>1, <1>2, <1>5, <1>6, <1>7, <1>8, <1>9, <1>10, <1>11 DEF p

(* An observation event. *)
LEMMA ObserveStep ==
  ASSUME IInv, NEW m \in alive, NEW o \in Outcomes, Charge(m, o), Observe(m, o)
  PROVE  Good
<1> DEFINE p == Published(snap, run[m], o)
<1>1. /\ run[m].st = "running" /\ Log(snap, run[m], o, "other") /\ "other" \in Events
      /\ Memory(m, p, o) /\ snap' \in {snap, p}
      /\ Owned(m, TRUE, o) /\ Settled(m, FALSE, o)
      /\ lease' = lease /\ tombstone' = tombstone
  BY DEF Observe, Executing, Events
<1>2. /\ m \in own /\ lease = m /\ run[m] \in Run /\ tombstone \in BOOLEAN
  BY <1>1, OwnerRecord
<1>3. /\ p \in Run /\ snap' \in Run \cup {NoRun} /\ log' \in Seq(Events)
      /\ Knows(p, snap') /\ (~p.inc => p.seq = Len(log'))
      /\ (snap' = NoRun => log' = <<>> /\ p.gen = 0 /\ p.receipts = NoRun.receipts)
      /\ KeepsEntries /\ KeepsLoss /\ RecordStep
  BY <1>1, <1>2, OwnerPublishes, KeepsSame
<1>4. p.st = "running"
  BY <1>1, <1>2, PublishedFields
<1> HIDE DEF p
<1>5. IInv'
  BY <1>1, <1>2, <1>3, <1>4, ExecutingSpan
<1> QED
  BY <1>3, <1>5 DEF Good

(* recordJournalEntry's change of the record. *)
LEMMA JournalUpdate ==
  ASSUME NEW q \in Run, NEW c \in Calls, NEW v \in Values, c \notin q.fresh
  PROVE  LET r == Recorded(q, c, v) IN
         /\ r \in Run /\ r.st = q.st /\ r.gen = q.gen /\ r.receipts = q.receipts
         /\ r.inc = q.inc /\ r.seq = q.seq
         /\ Keeps(q, r)
<1> DEFINE j == [q.journal EXCEPT ![c] = v]
           f == q.fresh \cup {c}
<1>1. q.journal \in Journals /\ q.fresh \subseteq Calls
  BY DEF Run
<1>2. j \in Journals /\ f \in SUBSET Calls
  BY <1>1 DEF Journals
<1>3. \A d \in Calls : j[d] = IF d = c THEN v ELSE q.journal[d]
  BY <1>1 DEF Journals
<1>4. Recorded(q, c, v) = [q EXCEPT !.journal = j, !.fresh = f]
  BY DEF Run, Recorded
<1>5. c \in f \ q.fresh /\ q.fresh \subseteq f
  OBVIOUS
<1> HIDE DEF j, f
<1> DEFINE r == [q EXCEPT !.journal = j, !.fresh = f]
<1>6. /\ r \in Run /\ r.st = q.st /\ r.gen = q.gen /\ r.receipts = q.receipts
      /\ r.inc = q.inc /\ r.seq = q.seq /\ r.journal = j /\ r.fresh = f
  BY <1>2 DEF Run
<1> HIDE DEF r
<1>7. Keeps(q, r)
  BY <1>3, <1>5, <1>6, ValuesAssumption DEF Keeps
<1> QED
  BY <1>4, <1>6, <1>7 DEF r

(* A result joins the journal of the owner, which keeps all of the disk's. *)
LEMMA RecordResultStep ==
  ASSUME IInv, NEW m \in alive, NEW o \in Outcomes, Charge(m, o),
         NEW c \in Calls, NEW v \in Values, RecordResult(m, c, v, o)
  PROVE  Good
<1> DEFINE r == Recorded(run[m], c, v)
           p == Published(snap, r, o)
<1>1. /\ run[m].st = "running" /\ Log(snap, r, o, "other") /\ "other" \in Events
      /\ Memory(m, p, o) /\ snap' \in {snap, p}
      /\ Owned(m, TRUE, o) /\ Settled(m, FALSE, o)
      /\ lease' = lease /\ tombstone' = tombstone
      /\ c \notin run[m].fresh
  BY DEF RecordResult, Executing, Events
<1>2. /\ m \in own /\ lease = m /\ run[m] \in Run /\ tombstone \in BOOLEAN
  BY <1>1, OwnerRecord
<1>3. /\ r \in Run /\ r.st = "running"
      /\ r.gen = run[m].gen /\ r.receipts = run[m].receipts
      /\ r.inc = run[m].inc /\ r.seq = run[m].seq
      /\ Keeps(run[m], r)
  BY <1>1, <1>2, JournalUpdate
<1> HIDE DEF r
<1>4. /\ p \in Run /\ snap' \in Run \cup {NoRun} /\ log' \in Seq(Events)
      /\ Knows(p, snap') /\ (~p.inc => p.seq = Len(log'))
      /\ (snap' = NoRun => log' = <<>> /\ p.gen = 0 /\ p.receipts = NoRun.receipts)
      /\ KeepsEntries /\ KeepsLoss /\ RecordStep
  BY <1>1, <1>3, OwnerPublishes
<1>5. p.st = "running"
  BY <1>3, PublishedFields
<1> HIDE DEF p
<1>6. IInv'
  BY <1>1, <1>2, <1>4, <1>5, ExecutingSpan
<1> QED
  BY <1>4, <1>6 DEF Good

(* A record r that is saved before its event is appended. *)
LEMMA SavedFirst ==
  ASSUME IInv, NEW o \in Outcomes, NEW r \in Run, NEW e \in Events,
         r.st = "running", ~r.inc => r.seq = Len(log),
         snap # NoRun =>
           /\ Follows(snap, r)
           /\ \A op \in Ops : snap.receipts[op] # 0 => r.receipts[op] = snap.receipts[op],
         snap.inc => r.inc,
         Log(r, r, o, e), snap' \in {r, Published(r, r, o)}
  PROVE  /\ Published(r, r, o) \in Run /\ Published(r, r, o).st = "running"
         /\ snap' \in Run /\ snap' # NoRun
         /\ log' \in Seq(Events)
         /\ Knows(Published(r, r, o), snap')
         /\ LET p == Published(r, r, o) IN ~p.inc => p.seq = Len(log')
         /\ KeepsEntries /\ KeepsLoss
<1> DEFINE p == Published(r, r, o)
<1>1. /\ p \in Run /\ p.st = r.st /\ p.gen = r.gen
      /\ p.journal = r.journal /\ p.fresh = r.fresh /\ p.receipts = r.receipts
      /\ r.inc => p.inc
      /\ p.inc <=> ~Appends(r, r, o)
      /\ p.seq = IF Appends(r, r, o) THEN r.seq + 1 ELSE r.seq
  BY PublishedFields
<1>2. snap' \in {r, p}
  OBVIOUS
<1> HIDE DEF p
<1>3. /\ log' \in Seq(Events)
      /\ Appends(r, r, o) => ~r.inc /\ Len(log') = Len(log) + 1
      /\ ~Appends(r, r, o) => log' = log
  BY LogEffect DEF IInv
<1>4. snap' \in Run /\ snap' # NoRun
  BY <1>1, <1>2, RunStatus
<1>5. Knows(p, snap')
  BY <1>1, <1>2, KeepsSame DEF Knows
<1>6. ~p.inc => p.seq = Len(log')
  BY <1>1, <1>3
<1>7. KeepsEntries
  BY <1>1, <1>2 DEF KeepsEntries, Follows, Keeps
<1>8. KeepsLoss
  BY <1>1, <1>2, <1>3 DEF KeepsLoss
<1> QED
  BY <1>1, <1>3, <1>4, <1>5, <1>6, <1>7, <1>8 DEF p

(* A human decision: saved first, or kept in memory when it cannot be. *)
LEMMA RecordDecisionStep ==
  ASSUME IInv, NEW m \in alive, NEW o \in Outcomes, Charge(m, o),
         NEW v \in Values, RecordDecision(m, v, o)
  PROVE  Good
<1> DEFINE r == Recorded(run[m], Checkpoint, v)
<1>1. /\ run[m].st = "running" /\ Checkpoint \notin run[m].fresh
      /\ Owned(m, TRUE, o) /\ Settled(m, FALSE, o)
      /\ lease' = lease /\ tombstone' = tombstone
      /\ o.save => /\ Log(r, r, o, "other") /\ Memory(m, Published(r, r, o), o)
                   /\ snap' \in {r, Published(r, r, o)}
      /\ ~o.save => Memory(m, r, o) /\ snap' = snap /\ log' = log
  BY DEF RecordDecision, Executing
<1>2. /\ m \in own /\ lease = m /\ run[m] \in Run /\ tombstone \in BOOLEAN
      /\ Knows(run[m], snap) /\ (~run[m].inc => run[m].seq = Len(log))
      /\ snap \in Run \cup {NoRun} /\ log \in Seq(Events)
      /\ snap = NoRun => run[m].gen = 0 /\ run[m].receipts = NoRun.receipts
  BY <1>1, OwnerRecord
<1>3. /\ r \in Run /\ r.st = "running"
      /\ r.gen = run[m].gen /\ r.receipts = run[m].receipts
      /\ r.inc = run[m].inc /\ r.seq = run[m].seq
      /\ Keeps(run[m], r)
  BY <1>1, <1>2, CallsAssumption, JournalUpdate
<1> HIDE DEF r
<1>4. /\ Knows(r, snap) /\ (~r.inc => r.seq = Len(log))
      /\ snap.inc => r.inc
  BY <1>2, <1>3, KeepsTrans, RunStatus DEF Knows
<1>5. CASE o.save
  <2> DEFINE p == Published(r, r, o)
  <2>1. "other" \in Events
    BY DEF Events
  <2>2. snap # NoRun =>
           /\ Follows(snap, r)
           /\ \A op \in Ops : snap.receipts[op] # 0 => r.receipts[op] = snap.receipts[op]
    BY <1>4 DEF Knows, Follows
  <2>3. /\ p \in Run /\ p.st = "running"
        /\ snap' \in Run /\ snap' # NoRun /\ log' \in Seq(Events)
        /\ Knows(p, snap') /\ (~p.inc => p.seq = Len(log'))
        /\ KeepsEntries /\ KeepsLoss
    BY <1>1, <1>3, <1>4, <1>5, <2>1, <2>2, SavedFirst
  <2>6. RecordStep
    <3>1. /\ snap'.gen = r.gen /\ snap'.receipts = r.receipts
          /\ snap'.journal = r.journal /\ snap'.fresh = r.fresh
      BY <1>1, <1>3, <1>5, PublishedFields
    <3>2. snap # NoRun => Keeps(snap, snap')
      BY <1>4, <3>1, KeepsSame, KeepsTrans DEF Knows
    <3> QED
      BY <1>2, <1>3, <1>4, <2>3, <3>1, <3>2, RecordAdvances DEF Knows
  <2>4. Memory(m, p, o)
    BY <1>1, <1>5
  <2> HIDE DEF p
  <2>5. IInv'
    BY <1>1, <1>2, <2>3, <2>4, ExecutingSpan
  <2> QED
    BY <2>3, <2>5, <2>6 DEF Good
<1>6. CASE ~o.save
  <2>1. snap' = NoRun => log' = <<>> /\ r.gen = 0 /\ r.receipts = NoRun.receipts
    BY <1>1, <1>2, <1>3, <1>6 DEF IInv, LogNeedsSnapshot
  <2>2. Knows(r, snap')
    BY <1>1, <1>4, <1>6
  <2>3. IInv'
    BY <1>1, <1>2, <1>3, <1>4, <1>6, <2>1, <2>2, ExecutingSpan
  <2> QED
    BY <1>1, <1>6, <2>3, RecordStutters, KeepsSame
    DEF Good, KeepsEntries, KeepsLoss, Follows
<1> QED
  BY <1>5, <1>6

(* Every end of an execution: r is the manager's record with another status. *)
LEMMA FinishStep ==
  ASSUME IInv, NEW m \in alive, NEW o \in Outcomes, Charge(m, o), run[m].st = "running",
         NEW r \in Run, r.st # "running", r.gen = run[m].gen, r.receipts = run[m].receipts,
         r.inc = run[m].inc, r.seq = run[m].seq, r.journal = run[m].journal,
         r.fresh = run[m].fresh,
         NEW e \in Events, Finish(m, r, e, o), settled' \subseteq Managers
  PROVE  Good
<1>1. tombstone \in BOOLEAN /\ m \in own
  BY OwnerRecord
<1>2. /\ Log(snap, r, o, e) /\ Memory(m, Retired(r), o)
      /\ snap' \in {snap, Published(snap, r, o)}
      /\ Owned(m, FALSE, o) /\ lease' = NoManager /\ tombstone' = tombstone
  BY DEF Finish
<1>3. /\ snap' \in Run \cup {NoRun} /\ log' \in Seq(Events)
      /\ (snap' = NoRun => log' = <<>>) /\ KeepsEntries /\ KeepsLoss /\ RecordStep
  BY <1>2, OwnerPublishes, KeepsSame
<1>4. Retired(r) \in Run /\ Retired(r).st # "running"
  <2>1. r.gen \in Nat /\ r.st \in Statuses
    BY DEF Run
  <2> QED
    BY <2>1, RetiredType
<1>5. IInv'
  BY <1>1, <1>2, <1>3, <1>4, IdleSpan
<1> QED
  BY <1>3, <1>5 DEF Good

(* The execution completes. *)
LEMMA EngineResolvesStep ==
  ASSUME IInv, NEW m \in alive, NEW o \in Outcomes, Charge(m, o), EngineResolves(m, o)
  PROVE  Good
<1> DEFINE r == [run[m] EXCEPT !.st = "completed"]
<1>1. run[m].st = "running" /\ Finish(m, r, "other", o) /\ settled' \subseteq Managers
  BY DEF EngineResolves, Executing, Settled, IInv, TypeOK
<1>2. run[m] \in Run
  BY <1>1, OwnerRecord
<1>3. /\ r \in Run /\ r.st # "running" /\ r.gen = run[m].gen /\ r.receipts = run[m].receipts
      /\ r.inc = run[m].inc /\ r.seq = run[m].seq /\ r.journal = run[m].journal
      /\ r.fresh = run[m].fresh
  BY <1>2 DEF Run, Statuses
<1> HIDE DEF r
<1> QED
  BY <1>1, <1>3, FinishStep DEF Events

(* The execution fails, is aborted or pauses. *)
LEMMA EngineThrowsStep ==
  ASSUME IInv, NEW m \in alive, NEW o \in Outcomes, Charge(m, o),
         NEW st \in Statuses, NEW why \in Reasons, EngineThrows(m, st, why, o)
  PROVE  Good
<1> DEFINE r == [run[m] EXCEPT !.st = st, !.why = why]
<1>1. /\ run[m].st = "running" /\ Finish(m, r, "other", o) /\ settled' \subseteq Managers
      /\ st # "running"
  BY DEF EngineThrows, Executing, Settled, IInv, TypeOK
<1>2. run[m] \in Run
  BY <1>1, OwnerRecord
<1>3. /\ r \in Run /\ r.st # "running" /\ r.gen = run[m].gen /\ r.receipts = run[m].receipts
      /\ r.inc = run[m].inc /\ r.seq = run[m].seq /\ r.journal = run[m].journal
      /\ r.fresh = run[m].fresh
  BY <1>1, <1>2 DEF Run
<1> HIDE DEF r
<1> QED
  BY <1>1, <1>3, FinishStep DEF Events

(* pause(). *)
LEMMA PauseStep ==
  ASSUME IInv, NEW m \in alive, NEW o \in Outcomes, Charge(m, o), Pause(m, o)
  PROVE  Good
<1> DEFINE r == [run[m] EXCEPT !.st = "paused"]
<1>1. run[m].st = "running" /\ Finish(m, r, "other", o) /\ settled' \subseteq Managers
  BY DEF Pause, Settled, IInv, TypeOK
<1>2. run[m] \in Run
  BY <1>1, OwnerRecord
<1>3. /\ r \in Run /\ r.st # "running" /\ r.gen = run[m].gen /\ r.receipts = run[m].receipts
      /\ r.inc = run[m].inc /\ r.seq = run[m].seq /\ r.journal = run[m].journal
      /\ r.fresh = run[m].fresh
  BY <1>2 DEF Run, Statuses
<1> HIDE DEF r
<1> QED
  BY <1>1, <1>3, FinishStep DEF Events

(* stop() of the execution in this manager. *)
LEMMA StopRunningStep ==
  ASSUME IInv, NEW m \in alive, NEW o \in Outcomes, Charge(m, o), StopRunning(m, o)
  PROVE  Good
<1> DEFINE r == [run[m] EXCEPT !.st = "aborted"]
<1>1. run[m].st = "running" /\ Finish(m, r, "stopped", o) /\ settled' \subseteq Managers
  BY DEF StopRunning, Settled, IInv, TypeOK
<1>2. run[m] \in Run
  BY <1>1, OwnerRecord
<1>3. /\ r \in Run /\ r.st # "running" /\ r.gen = run[m].gen /\ r.receipts = run[m].receipts
      /\ r.inc = run[m].inc /\ r.seq = run[m].seq /\ r.journal = run[m].journal
      /\ r.fresh = run[m].fresh
  BY <1>2 DEF Run, Statuses
<1> HIDE DEF r
<1> QED
  BY <1>1, <1>3, FinishStep DEF Events

(* A manager that does not own the run saves a record s made from the      *)
(* snapshot it reloaded under the lease, with at most one event.           *)
LEMMA ReloadedSave ==
  ASSUME IInv, LeaseFree, snap # NoRun, NEW o \in Outcomes,
         NEW q \in Run, NEW s \in Run, NEW e \in Events,
         s.journal = snap.journal, s.fresh = snap.fresh, s.receipts = snap.receipts,
         snap.inc => s.inc,
         s.gen = snap.gen,
         \/ s.st = snap.st
         \/ snap.st = "running"
         \/ snap.st = "paused" /\ s.st = "aborted",
         Log(q, s, o, e) \/ log' = log,
         snap' \in {snap, s, Published(q, s, o)}, tombstone' = tombstone
  PROVE  /\ snap' \in Run \cup {NoRun} /\ log' \in Seq(Events) /\ tombstone' \in BOOLEAN
         /\ (snap' = NoRun => log' = <<>>) /\ KeepsEntries /\ KeepsLoss /\ RecordStep
<1> DEFINE p == Published(q, s, o)
<1>1. /\ p.st = s.st /\ p.gen = s.gen
      /\ p \in Run /\ p.journal = s.journal /\ p.fresh = s.fresh /\ p.receipts = s.receipts /\ (s.inc => p.inc)
  BY PublishedFields
<1> HIDE DEF p
<1>2. snap' \in {snap, s, p}
  BY DEF p
<1>3. snap \in Run /\ log \in Seq(Events) /\ tombstone \in BOOLEAN
  BY DEF IInv, TypeOK
<1>4. log' \in Seq(Events) /\ (s.inc => log' = log)
  <2>1. CASE Log(q, s, o, e)
    BY <2>1, LogEffect DEF IInv
  <2>2. CASE log' = log
    BY <1>3, <2>2
  <2> QED
    BY <2>1, <2>2
<1>5. snap' \in Run /\ snap' # NoRun
  BY <1>1, <1>2, <1>3, RunStatus
<1>6. RecordStep
  <2>1. CASE snap' = snap \/ s.st = snap.st
    BY <1>1, <1>2, <2>1, RecordStutters
  <2>2. CASE snap.st = "running" /\ snap' # snap
    BY <1>1, <1>2, <1>3, <1>5, <2>2, RecordAdvances, KeepsSame
  <2>3. CASE snap.st = "paused" /\ s.st = "aborted" /\ snap' # snap
    BY <1>1, <1>2, <2>3 DEF RecordStep, Record!Next, Record!Stop
  <2> QED
    BY <2>1, <2>2, <2>3
<1>7. Keeps(snap, snap') /\ snap'.gen = snap.gen /\ snap'.receipts = snap.receipts
  BY <1>1, <1>2, KeepsSame
<1> QED
  BY <1>1, <1>2, <1>3, <1>4, <1>5, <1>6, <1>7 DEF KeepsEntries, KeepsLoss, Follows

(* stop() of a run paused in this manager: the reloaded record is saved. *)
LEMMA StopPausedStep ==
  ASSUME IInv, NEW m \in alive, NEW o \in Outcomes, Charge(m, o), StopPaused(m, o)
  PROVE  Good
<1> DEFINE p == Prepared(o)
           s == [p EXCEPT !.st = "aborted", !.why = "none"]
           r == [run[m] EXCEPT !.st = "aborted"]
<1>1. /\ run[m].st = "paused" /\ m \notin own /\ LeaseFree /\ snap.st = "paused"
      /\ Log(p, s, o, "stopped") /\ Memory(m, r, o)
      /\ snap' \in {snap, Published(p, s, o)}
      /\ Owned(m, FALSE, o) /\ settled' \subseteq Managers
      /\ lease' = NoManager /\ tombstone' = tombstone
  BY DEF StopPaused, Settled, IInv, TypeOK
<1>2. snap \in Run /\ snap # NoRun /\ run[m] \in Run
  BY <1>1, RunStatus DEF IInv, TypeOK
<1>3. /\ p \in Run /\ p.journal = snap.journal /\ p.fresh = snap.fresh /\ p.receipts = snap.receipts
      /\ p.st = snap.st /\ p.gen = snap.gen /\ (snap.inc => p.inc)
  BY <1>2, PreparedFields DEF IInv
<1> HIDE DEF p
<1>4. /\ s \in Run /\ s.journal = snap.journal /\ s.fresh = snap.fresh /\ s.receipts = snap.receipts
      /\ s.st = "aborted" /\ s.gen = snap.gen /\ (snap.inc => s.inc)
  BY <1>3 DEF Run, Statuses, Reasons
<1>5. r \in Run /\ r.st # "running"
  BY <1>2 DEF Run, Statuses
<1> HIDE DEF s, r
<1>6. /\ snap' \in Run \cup {NoRun} /\ log' \in Seq(Events) /\ tombstone' \in BOOLEAN
      /\ (snap' = NoRun => log' = <<>>) /\ KeepsEntries /\ KeepsLoss /\ RecordStep
  BY <1>1, <1>2, <1>3, <1>4, ReloadedSave DEF Events
<1>7. IInv'
  BY <1>1, <1>5, <1>6, IdleSpan
<1> QED
  BY <1>6, <1>7 DEF Good

(* stop() of a run that no execution of this manager has. *)
LEMMA StopColdStep ==
  ASSUME IInv, NEW m \in alive, NEW o \in Outcomes, Charge(m, o), StopCold(m, o)
  PROVE  Good
<1> DEFINE p == Prepared(o)
           s == [p EXCEPT !.st = "aborted", !.why = "none"]
<1>1. /\ LeaseFree /\ snap.st \in {"running", "paused"}
      /\ Log(p, s, o, "stopped") \/ log' = log
      /\ snap' \in {snap, s, Published(p, s, o)}
      /\ SameMemory(m, o) /\ lease' = NoManager /\ tombstone' = tombstone
  BY DEF StopCold
<1>2. snap \in Run /\ snap # NoRun
  BY <1>1, RunStatus DEF IInv, TypeOK
<1>3. /\ p \in Run /\ p.journal = snap.journal /\ p.fresh = snap.fresh /\ p.receipts = snap.receipts
      /\ p.st = snap.st /\ p.gen = snap.gen /\ (snap.inc => p.inc)
  BY <1>2, PreparedFields DEF IInv
<1> HIDE DEF p
<1>4. /\ s \in Run /\ s.journal = snap.journal /\ s.fresh = snap.fresh /\ s.receipts = snap.receipts
      /\ s.st = "aborted" /\ s.gen = snap.gen /\ (snap.inc => s.inc)
  BY <1>3 DEF Run, Statuses, Reasons
<1> HIDE DEF s
<1>5. /\ snap' \in Run \cup {NoRun} /\ log' \in Seq(Events) /\ tombstone' \in BOOLEAN
      /\ (snap' = NoRun => log' = <<>>) /\ KeepsEntries /\ KeepsLoss /\ RecordStep
  BY <1>1, <1>2, <1>3, <1>4, ReloadedSave DEF Events
<1>6. IInv'
  BY <1>1, <1>5, RecoverySpan
<1> QED
  BY <1>5, <1>6 DEF Good

(* A dead owner's run becomes paused. *)
LEMMA ReconcileStep ==
  ASSUME IInv, NEW m \in alive, NEW o \in Outcomes, Charge(m, o), Reconcile(m, o)
  PROVE  Good
<1> DEFINE s == [snap EXCEPT !.st = "paused", !.why = "interrupted"]
<1>1. /\ LeaseFree /\ snap.st = "running" /\ snap' \in {snap, s}
      /\ SameMemory(m, o) /\ lease' = NoManager /\ log' = log /\ tombstone' = tombstone
  BY DEF Reconcile
<1>2. snap \in Run /\ snap # NoRun
  BY <1>1, RunStatus DEF IInv, TypeOK
<1>3. /\ s \in Run /\ s.journal = snap.journal /\ s.fresh = snap.fresh /\ s.receipts = snap.receipts
      /\ s.gen = snap.gen /\ (snap.inc => s.inc)
  BY <1>2 DEF Run, Statuses, Reasons
<1> HIDE DEF s
<1>4. /\ snap' \in Run \cup {NoRun} /\ log' \in Seq(Events) /\ tombstone' \in BOOLEAN
      /\ (snap' = NoRun => log' = <<>>) /\ KeepsEntries /\ KeepsLoss /\ RecordStep
  BY <1>1, <1>2, <1>3, ReloadedSave DEF Events
<1>5. IInv'
  BY <1>1, <1>4, RecoverySpan
<1> QED
  BY <1>4, <1>5 DEF Good

(* A deletion, complete or not, leaves nobody executing. *)
LEMMA DeleteStep ==
  ASSUME IInv, NEW m \in alive, NEW o \in Outcomes, Charge(m, o), Delete(m, o)
  PROVE  Good
<1>1. /\ m \in own \/ LeaseFree
      /\ log' = <<>> /\ snap' \in {snap, NoRun}
      /\ Memory(m, NoRun, o) /\ Owned(m, FALSE, o) /\ settled' \subseteq Managers
      /\ lease' = NoManager
  BY DEF Delete, Settled, IInv, TypeOK
<1>2. log' \in Seq(Events) /\ snap' \in Run \cup {NoRun}
  BY <1>1 DEF IInv, TypeOK
<1>3. tombstone' \in BOOLEAN
  BY DEF Delete, IInv, TypeOK, Outcomes
<1>4. NoRun.st # "running"
  BY RunStatus
<1>5. IInv'
  BY <1>1, <1>2, <1>3, <1>4, IdleSpan
<1>6. RecordStep
  <2>1. CASE snap' = snap
    BY <2>1, RecordStutters
  <2>2. CASE snap' = NoRun /\ snap # NoRun
    <3>1. snap.st # "absent"
      BY <2>2 DEF IInv, TypeOK, Run, Statuses
    <3> QED
      BY <2>2, <3>1, RunStatus
      DEF RecordStep, Record!Next, Record!Remove, Record!BlankJournal, Record!BlankReceipts
  <2> QED
    BY <1>1, <2>1, <2>2
<1> QED
  BY <1>1, <1>5, <1>6, KeepsSame DEF Good, KeepsEntries, KeepsLoss, Follows

(* The record that a continuation saves: one generation later, with the    *)
(* first answer and the first receipt.                                     *)
LEMMA ContinueStep ==
  ASSUME IInv, NEW m \in alive, NEW o \in Outcomes, Charge(m, o),
         NEW op \in Ops \cup {NoOp}, NEW reply \in Values \cup {NoValue},
         NEW host \in BOOLEAN, Continue(m, op, reply, host, o)
  PROVE  Good
<1> DEFINE p == Prepared(o)
           j == IF Accepts(reply) THEN [p.journal EXCEPT ![Checkpoint] = reply] ELSE p.journal
           k == IF op = NoOp THEN p.receipts ELSE [p.receipts EXCEPT ![op] = snap.gen + 1]
           r == [p EXCEPT !.st = "running", !.why = "none", !.gen = p.gen + 1, !.fresh = {},
                          !.journal = j, !.receipts = k]
<1>1. /\ LeaseFree /\ snap # NoRun /\ (op # NoOp => snap.receipts[op] = 0)
      /\ snap.st \notin {"completed", "aborted"}
      /\ Log(r, r, o, "other") /\ Memory(m, Published(r, r, o), o)
      /\ snap' \in {r, Published(r, r, o)}
      /\ Owned(m, TRUE, o) /\ Settled(m, FALSE, o)
      /\ lease' = m /\ tombstone' = tombstone
  BY DEF Continue, Admits
<1>2. snap \in Run /\ tombstone \in BOOLEAN /\ m \in Managers
  BY <1>1 DEF IInv, TypeOK
<1>3. /\ p \in Run /\ p.journal = snap.journal /\ p.fresh = snap.fresh /\ p.receipts = snap.receipts
      /\ p.gen = snap.gen /\ (snap.inc => p.inc) /\ (~p.inc => p.seq = Len(log))
  BY <1>2, PreparedFields DEF IInv
<1> HIDE DEF p
<1>4. p.journal \in Journals /\ p.receipts \in [Ops -> Nat] /\ p.gen + 1 \in Nat
  BY <1>3 DEF Run
<1>5. /\ j \in Journals
      /\ \A c \in Calls : snap.journal[c] # NoValue => j[c] = snap.journal[c]
  <2>1. CASE Accepts(reply)
    <3>1. reply \in Values /\ snap.journal[Checkpoint] = NoValue
      BY <2>1 DEF Accepts
    <3> QED
      BY <1>3, <1>4, <2>1, <3>1 DEF Journals
  <2>2. CASE ~Accepts(reply)
    BY <1>3, <1>4, <2>2
  <2> QED
    BY <2>1, <2>2
<1>6. /\ k \in [Ops -> Nat]
      /\ \A n \in Ops : snap.receipts[n] # 0 => k[n] = snap.receipts[n]
  <2>1. CASE op = NoOp
    BY <1>3, <1>4, <2>1
  <2>2. CASE op # NoOp
    BY <1>1, <1>3, <1>4, <2>2
  <2> QED
    BY <2>1, <2>2
<1>7. \/ k = snap.receipts
      \/ \E n \in Ops : snap.receipts[n] = 0
                        /\ k = [snap.receipts EXCEPT ![n] = snap.gen + 1]
  BY <1>1, <1>3
<1> HIDE DEF j, k
<1>8. /\ r \in Run /\ r.st = "running" /\ r.journal = j /\ r.receipts = k
      /\ r.gen = snap.gen + 1 /\ r.fresh = {}
      /\ r.inc = p.inc /\ r.seq = p.seq
  BY <1>3, <1>4, <1>5, <1>6 DEF Run, Statuses, Reasons
<1> HIDE DEF r
<1>13. Follows(snap, r)
  BY <1>2, <1>5, <1>8 DEF Follows, Run
<1> DEFINE q == Published(r, r, o)
<1>9. /\ q \in Run /\ q.st = "running"
      /\ snap' \in Run /\ snap' # NoRun /\ log' \in Seq(Events)
      /\ Knows(q, snap') /\ (~q.inc => q.seq = Len(log'))
      /\ KeepsEntries /\ KeepsLoss
  BY <1>1, <1>3, <1>6, <1>8, <1>13, SavedFirst DEF Events
<1>10. Memory(m, q, o)
  BY <1>1
<1> HIDE DEF q
<1>11. IInv'
  BY <1>1, <1>2, <1>9, <1>10, ExecutingSpan
<1>12. RecordStep
  <2>1. /\ snap'.st = "running" /\ snap'.gen = snap.gen + 1
        /\ snap'.journal = j /\ snap'.fresh = {} /\ snap'.receipts = k
    BY <1>1, <1>8, PublishedFields
  <2>2. snap.st \in {"running", "paused", "failed"}
    BY <1>1, <1>2 DEF Run, Statuses
  <2>3. Record!Keeps(snap.journal, j, {}) /\ j \in Record!Journals
    BY <1>5 DEF Record!Keeps, Record!Journals, Run, Journals
  <2>4. Record!Continue
    BY <1>7, <2>1, <2>2, <2>3 DEF Record!Continue
  <2> QED
    BY <2>4 DEF RecordStep, Record!Next
<1> QED
  BY <1>9, <1>11, <1>12 DEF Good

(* A continuation that stops at its gate. *)
LEMMA RegateStep ==
  ASSUME IInv, NEW m \in alive, NEW o \in Outcomes, Charge(m, o),
         NEW op, NEW reply, Regate(m, op, reply, o)
  PROVE  Good
<1> DEFINE p == Prepared(o)
<1>1. /\ LeaseFree /\ snap # NoRun /\ Log(p, p, o, "other")
      /\ snap' \in {snap, Published(p, p, o)}
      /\ SameMemory(m, o) /\ lease' = NoManager /\ tombstone' = tombstone
  BY DEF Regate, Admits
<1>2. snap \in Run
  BY <1>1 DEF IInv, TypeOK
<1>3. /\ p \in Run /\ p.journal = snap.journal /\ p.fresh = snap.fresh /\ p.receipts = snap.receipts
      /\ p.st = snap.st /\ p.gen = snap.gen /\ (snap.inc => p.inc)
  BY <1>2, PreparedFields DEF IInv
<1> HIDE DEF p
<1>4. /\ snap' \in Run \cup {NoRun} /\ log' \in Seq(Events) /\ tombstone' \in BOOLEAN
      /\ (snap' = NoRun => log' = <<>>) /\ KeepsEntries /\ KeepsLoss /\ RecordStep
  BY <1>1, <1>3, ReloadedSave DEF Events
<1>5. IInv'
  BY <1>1, <1>4, RecoverySpan
<1> QED
  BY <1>4, <1>5 DEF Good

(* A refused continuation that found the log unreadable. *)
LEMMA RefuseMarkedStep ==
  ASSUME IInv, NEW m \in alive, NEW o \in Outcomes, Charge(m, o),
         NEW op, NEW reply, RefuseMarked(m, op, reply, o)
  PROVE  Good
<1> DEFINE s == [snap EXCEPT !.inc = TRUE]
<1>1. /\ LeaseFree /\ snap # NoRun /\ snap' = s
      /\ SameMemory(m, o) /\ lease' = NoManager /\ log' = log /\ tombstone' = tombstone
  BY DEF RefuseMarked, Admits
<1>2. snap \in Run
  BY <1>1 DEF IInv, TypeOK
<1>3. /\ s \in Run /\ s.journal = snap.journal /\ s.fresh = snap.fresh /\ s.receipts = snap.receipts
      /\ s.st = snap.st /\ s.gen = snap.gen /\ s.inc
  BY <1>2 DEF Run
<1> HIDE DEF s
<1>4. /\ snap' \in Run \cup {NoRun} /\ log' \in Seq(Events) /\ tombstone' \in BOOLEAN
      /\ (snap' = NoRun => log' = <<>>) /\ KeepsEntries /\ KeepsLoss /\ RecordStep
  BY <1>1, <1>3, ReloadedSave DEF Events
<1>5. IInv'
  BY <1>1, <1>4, RecoverySpan
<1> QED
  BY <1>4, <1>5 DEF Good

(* The late return of an aborted execution touches only its own memory. *)
LEMMA UnwindStep ==
  ASSUME IInv, NEW m \in alive, NEW st \in Statuses, Unwind(m, st), UNCHANGED <<alive, faults>>
  PROVE  Good
<1>1. /\ m \in Managers /\ run[m].st \in {"paused", "aborted"}
      /\ st \in {run[m].st, "completed"}
      /\ run' = [run EXCEPT ![m].st = st] /\ settled' = settled \cup {m}
      /\ UNCHANGED <<snap, log, tombstone, own, lease, alive, faults>>
  BY DEF Unwind, IInv, TypeOK
<1>2. m \notin own /\ run[m] \in Run /\ st # "running"
  BY <1>1, RunStatus DEF IInv, TypeOK, OwnersRun
<1> DEFINE r == [run[m] EXCEPT !.st = st]
<1>3. r \in Run /\ r.st = st
  BY <1>2 DEF Run
<1>4. run' = [run EXCEPT ![m] = r]
  BY <1>1 DEF IInv, TypeOK
<1> HIDE DEF r
<1>5. /\ run' \in [Managers -> Run \cup {NoRun}] /\ run'[m] = r
      /\ \A n \in Managers \ {m} : run'[n] = run[n]
  BY <1>1, <1>3, <1>4 DEF IInv, TypeOK
<1>6. TypeOK'
  BY <1>1, <1>5 DEF IInv, TypeOK
<1>7. OwnersRun'
  BY <1>1, <1>2, <1>3, <1>5 DEF IInv, OwnersRun
<1>8. OwnerSubsumesDisk' /\ OwnerAtTail' /\ FreshOwner'
  <2>1. \A n \in own : n \in Managers /\ run'[n] = run[n]
    BY <1>2, <1>5 DEF IInv, TypeOK
  <2> QED
    BY <1>1, <2>1 DEF IInv, OwnerSubsumesDisk, OwnerAtTail, FreshOwner
<1> QED
  BY <1>1, <1>6, <1>7, <1>8, RecordStutters
  DEF Good, IInv, OwnersLive, OwnerHoldsLease, LogNeedsSnapshot, KeepsEntries, KeepsLoss,
      Follows, Keeps

(* A leaked lease has no owner. *)
LEMMA ContinueThrowsStep ==
  ASSUME IInv, NEW m \in alive, ContinueThrows(m), UNCHANGED <<alive, faults>>
  PROVE  Good
<1>1. /\ LeaseFree /\ lease' = m
      /\ UNCHANGED <<snap, log, tombstone, run, own, settled, alive, faults>>
  BY DEF ContinueThrows
<1>2. own = {} /\ m \in Managers
  BY <1>1, WriterAlone DEF IInv, TypeOK
<1>3. IInv'
  BY <1>1, <1>2
  DEF IInv, TypeOK, OwnersLive, OwnersRun, OwnerHoldsLease, OwnerSubsumesDisk,
      OwnerAtTail, LogNeedsSnapshot, FreshOwner
<1>4. RecordStep
  BY <1>1, RecordStutters
<1> QED
  BY <1>1, <1>3, <1>4 DEF Good, KeepsEntries, KeepsLoss, Follows, Keeps

(* A death takes its memory along and leaves the disk alone. *)
LEMMA CrashStep ==
  ASSUME IInv, NEW m \in alive, Crash(m)
  PROVE  Good
<1>1. /\ m \in Managers /\ alive' = alive \ {m} /\ run' = [run EXCEPT ![m] = NoRun]
      /\ own' = own \ {m} /\ settled' = settled \ {m}
      /\ UNCHANGED <<snap, log, tombstone, lease, faults>>
  BY DEF Crash, IInv, TypeOK
<1>2. /\ run' \in [Managers -> Run \cup {NoRun}] /\ run'[m] = NoRun
      /\ \A n \in Managers \ {m} : run'[n] = run[n]
  BY <1>1 DEF IInv, TypeOK
<1>3. TypeOK' /\ OwnersLive'
  BY <1>1, <1>2 DEF IInv, TypeOK, OwnersLive
<1>4. OwnersRun'
  BY <1>1, <1>2, RunStatus DEF IInv, OwnersRun
<1>5. OwnerSubsumesDisk' /\ OwnerAtTail' /\ OwnerHoldsLease' /\ FreshOwner'
  <2>1. \A n \in own' : n \in own /\ run'[n] = run[n]
    BY <1>1, <1>2 DEF IInv, TypeOK
  <2> QED
    BY <1>1, <2>1 DEF IInv, OwnerSubsumesDisk, OwnerAtTail, OwnerHoldsLease, FreshOwner
<1> QED
  BY <1>1, <1>3, <1>4, <1>5, RecordStutters
  DEF Good, IInv, LogNeedsSnapshot, KeepsEntries, KeepsLoss, Follows, Keeps

-----------------------------------------------------------------------------
(* The theorems *)

(* The initial state satisfies the strengthened invariant. *)
LEMMA InitIInv == Init => IInv
<1> SUFFICES ASSUME Init PROVE IInv
  OBVIOUS
<1>1. TypeOK
  <2>1. log \in Seq(Events) /\ faults \in 0 .. MaxFaults
    BY BoundsAssumption DEF Init
  <2> QED
    BY <2>1 DEF Init, TypeOK
<1>2. OwnersRun
  BY RunStatus DEF Init, OwnersRun
<1> QED
  BY <1>1, <1>2
  DEF Init, IInv, OwnersLive, OwnerHoldsLease, OwnerSubsumesDisk, OwnerAtTail,
      LogNeedsSnapshot, FreshOwner

(* Every step is good: one case per group of actions. *)
LEMMA NextStep ==
  ASSUME IInv, Next
  PROVE  Good
<1>1. PICK m \in alive : WritingStep(m) \/ MemoryStep(m) \/ Crash(m)
  BY DEF Next
<1>2. CASE WritingStep(m)
  <2>1. PICK o \in Outcomes :
          /\ \/ SavingStep(m, o) \/ PublishingStep(m, o) \/ DecidingStep(m, o)
             \/ ReloadingStep(m, o) \/ ContinuingStep(m, o)
          /\ Charge(m, o)
    BY <1>2 DEF WritingStep
  <2>2. CASE SavingStep(m, o)
    BY <2>1, <2>2, StartStep, ReconcileStep, DeleteStep DEF SavingStep
  <2>3. CASE PublishingStep(m, o)
    BY <2>1, <2>3, ObserveStep, RecordResultStep, EngineResolvesStep, EngineThrowsStep,
       PauseStep, StopRunningStep
    DEF PublishingStep
  <2>4. CASE DecidingStep(m, o)
    BY <2>1, <2>4, RecordDecisionStep DEF DecidingStep
  <2>5. CASE ReloadingStep(m, o)
    BY <2>1, <2>5, StopPausedStep, StopColdStep, RegateStep, RefuseMarkedStep
    DEF ReloadingStep
  <2>6. CASE ContinuingStep(m, o)
    BY <2>1, <2>6, ContinueStep DEF ContinuingStep
  <2> QED
    BY <2>1, <2>2, <2>3, <2>4, <2>5, <2>6
<1>3. CASE MemoryStep(m)
  BY <1>3, UnwindStep, ContinueThrowsStep DEF MemoryStep
<1>4. CASE Crash(m)
  BY <1>4, CrashStep
<1> QED
  BY <1>1, <1>2, <1>3, <1>4

(* So is a step that changes nothing. *)
LEMMA StutterStep ==
  ASSUME IInv, UNCHANGED vars
  PROVE  Good
<1>1. IInv'
  BY DEF vars, IInv, TypeOK, OwnersLive, OwnersRun, OwnerHoldsLease, OwnerSubsumesDisk,
         OwnerAtTail, LogNeedsSnapshot, FreshOwner
<1>2. RecordStep
  BY RecordStutters DEF vars
<1> QED
  BY <1>1, <1>2 DEF Good, vars, KeepsEntries, KeepsLoss, Follows, Keeps

(* The strengthened invariant is one. *)
THEOREM Invariance == Spec => []IInv
<1>1. IInv /\ [Next]_vars => IInv'
  BY NextStep, StutterStep DEF Good
<1> QED
  BY InitIInv, <1>1, PTL DEF Spec

(* Every reachable state is one of the legal states TypeOK describes: in   *)
(* particular no save, publication or recovery builds a record outside the *)
(* program's statuses, watermarks and journals.                            *)
THEOREM TypeCorrect == Spec => []TypeOK
  BY Invariance, PTL DEF IInv

(* Two managers never execute the run at the same time. *)
THEOREM SingleOwner == Spec => []OwnerHoldsLease
  BY Invariance, PTL DEF IInv

(* A live owner knows everything the disk knows, so its best-effort saves  *)
(* never erase what another process made durable.                          *)
THEOREM NothingForgotten == Spec => []OwnerSubsumesDisk
  BY Invariance, PTL DEF IInv

(* A live owner's watermark is the log's tail until an append fails. *)
THEOREM OneLogWriter == Spec => []OwnerAtTail
  BY Invariance, PTL DEF IInv

(* A durable result or human decision gives way only to the first record   *)
(* that an execution makes of the same call; receipts never do.            *)
THEOREM EntriesKept == Spec => FirstWriterWins
<1>1. IInv /\ [Next]_vars => [KeepsEntries]_vars
  BY NextStep, StutterStep DEF Good
<1> QED
  BY Invariance, <1>1, PTL DEF Spec, FirstWriterWins, KeepsEntries, Follows

(* A durable loss mark is never cleared, nor the log extended behind it. *)
THEOREM LossKept == Spec => LossIsFinal
<1>1. IInv /\ [Next]_vars => [KeepsLoss]_vars
  BY NextStep, StutterStep DEF Good
<1> QED
  BY Invariance, <1>1, PTL DEF Spec, LossIsFinal, KeepsLoss

(* The snapshot, whichever processes write it, implements the abstract run *)
(* record: no stale process resurrects a settled run or skips a generation. *)
THEOREM Refinement == Spec => RefinesRunRecord
<1>1. Init => Record!Init
  BY RunStatus DEF Init, Record!Init, Record!BlankJournal, Record!BlankReceipts
<1>2. IInv /\ [Next]_vars => [Record!Next]_(Record!vars)
  BY NextStep, StutterStep DEF Good, RecordStep
<1> QED
  BY <1>1, <1>2, Invariance, PTL DEF Spec, RefinesRunRecord, Record!Spec

-----------------------------------------------------------------------------
(* When no id is used twice, a manager's cached history of a run never     *)
(* hides an execution of that run by another process: the cached           *)
(* generation is older.                                                    *)

(* Cached history is not newer than the disk, and older while somebody     *)
(* executes; a first execution without a snapshot has no history beside it. *)
CacheOlder ==
  \A n \in Managers \ own : run[n] # NoRun =>
    /\ snap # NoRun => run[n].gen <= snap.gen
    /\ own # {} => snap # NoRun /\ run[n].gen < snap.gen

CInv == IInv /\ CacheOlder

(* Generations are numbers. *)
LEMMA GenTypes ==
  ASSUME TypeOK
  PROVE  snap.gen \in Nat /\ \A n \in Managers : run[n].gen \in Nat
<1>1. snap.gen \in Nat
  BY RunStatus DEF TypeOK, Run
<1>2. ASSUME NEW n \in Managers PROVE run[n].gen \in Nat
  <2>1. run[n] \in Run \/ run[n] = NoRun
    BY DEF TypeOK
  <2> QED
    BY <2>1, RunStatus DEF Run
<1> QED
  BY <1>1, <1>2

(* A step in which only the memory of m changes, and nobody but m owns the *)
(* run before or after, keeps the caches older if m's own cache is, and if *)
(* an execution that begins does so one generation later or without any    *)
(* history.                                                                *)
LEMMA CacheSpan ==
  ASSUME CInv, IInv', NEW m \in Managers,
         own \subseteq {m}, own' \subseteq {m},
         \A n \in Managers \ {m} : run'[n] = run[n],
         m \notin own' /\ run'[m] # NoRun /\ snap' # NoRun => run'[m].gen <= snap'.gen,
         snap # NoRun /\ snap' # NoRun => snap.gen <= snap'.gen,
         snap = NoRun /\ snap' # NoRun => own # {},
         own' # {} =>
           \/ own # {} /\ (snap # NoRun => snap' # NoRun)
           \/ snap # NoRun /\ snap' # NoRun /\ snap.gen < snap'.gen
           \/ \A n \in Managers \ {m} : run[n] = NoRun
  PROVE  CacheOlder'
<1> SUFFICES ASSUME NEW n \in Managers \ own', run'[n] # NoRun
             PROVE  /\ snap' # NoRun => run'[n].gen <= snap'.gen
                    /\ own' # {} => snap' # NoRun /\ run'[n].gen < snap'.gen
  BY DEF CacheOlder
<1>1. /\ snap.gen \in Nat /\ run[n].gen \in Nat /\ snap'.gen \in Nat
  <2>1. snap' \in Run \/ snap' = NoRun
    BY DEF IInv, TypeOK
  <2>2. snap'.gen \in Nat
    BY <2>1, RunStatus DEF Run
  <2> QED
    BY <2>2, GenTypes DEF CInv, IInv
<1>2. CASE n = m
  BY <1>2
<1>3. CASE n # m
  <2>1. n \notin own /\ run'[n] = run[n] /\ run[n] # NoRun
    BY <1>3
  <2>2. /\ snap # NoRun => run[n].gen <= snap.gen
        /\ own # {} => snap # NoRun /\ run[n].gen < snap.gen
    BY <2>1 DEF CInv, CacheOlder
  <2> QED
    BY <1>1, <1>3, <2>1, <2>2
<1> QED
  BY <1>2, <1>3

-----------------------------------------------------------------------------
(* What IInv and the memory operators say of any writing span of m. *)
LEMMA SpanMemory ==
  ASSUME CInv, NEW m \in alive, NEW o \in Outcomes, m \in own \/ LeaseFree,
         NEW r, Memory(m, r, o), NEW b \in BOOLEAN, Owned(m, b, o)
  PROVE  /\ m \in Managers /\ own \subseteq {m} /\ own' \subseteq {m}
         /\ \A n \in Managers \ {m} : run'[n] = run[n]
         /\ run'[m] \in {NoRun, r}
         /\ b = FALSE => own' = {}
<1>1. m \in Managers /\ own \subseteq {m}
  BY WriterAlone DEF CInv, IInv, TypeOK
<1>2. own' \subseteq {m} /\ (b = FALSE => own' = {})
  BY <1>1 DEF Owned
<1>3. run \in [Managers -> Run \cup {NoRun}]
  BY DEF CInv, IInv, TypeOK
<1> QED
  BY <1>1, <1>2, <1>3 DEF Memory

(* A span of an execution that goes on or ends: the generation stays. *)
LEMMA CacheExecuting ==
  ASSUME CInv, IInv', NEW m \in alive, NEW o \in Outcomes, run[m].st = "running",
         NEW r, Memory(m, r, o), NEW b \in BOOLEAN, Owned(m, b, o),
         r.gen = run[m].gen,
         snap' = snap \/ (snap'.gen = run[m].gen /\ snap' # NoRun)
  PROVE  CacheOlder'
<1>1. m \in own /\ Knows(run[m], snap)
  BY OwnerRecord DEF CInv
<1>2. /\ m \in Managers /\ own \subseteq {m} /\ own' \subseteq {m}
      /\ \A n \in Managers \ {m} : run'[n] = run[n]
      /\ run'[m] \in {NoRun, r}
  BY <1>1, SpanMemory
<1>3. snap # NoRun => snap.gen = run[m].gen
  BY <1>1 DEF Knows
<1>4. snap.gen \in Nat /\ run[m].gen \in Nat
  BY <1>2, GenTypes DEF CInv, IInv
<1> QED
  BY <1>1, <1>2, <1>3, <1>4, CacheSpan

(* A span of a manager that does not execute the run, before or after. *)
LEMMA CacheIdle ==
  ASSUME CInv, IInv', NEW m \in alive, NEW o \in Outcomes, LeaseFree,
         NEW r, Memory(m, r, o), Owned(m, FALSE, o),
         run[m] # NoRun \/ r = NoRun, r.gen = run[m].gen,
         snap # NoRun, snap' # NoRun, snap'.gen = snap.gen
  PROVE  CacheOlder'
<1>1. own = {}
  BY WriterAlone DEF CInv
<1>2. /\ m \in Managers /\ own' = {}
      /\ \A n \in Managers \ {m} : run'[n] = run[n]
      /\ run'[m] \in {NoRun, r}
  BY SpanMemory
<1>3. snap.gen \in Nat /\ run[m].gen \in Nat
  BY <1>2, GenTypes DEF CInv, IInv
<1>4. run[m] # NoRun => run[m].gen <= snap.gen
  BY <1>1, <1>2 DEF CInv, CacheOlder
<1> QED
  BY <1>1, <1>2, <1>3, <1>4, CacheSpan

(* The end of an execution, whatever status it gives the record. *)
LEMMA CacheFinish ==
  ASSUME CInv, IInv', NEW m \in alive, NEW o \in Outcomes, run[m].st = "running",
         NEW r \in Run, r.gen = run[m].gen, NEW e, Finish(m, r, e, o)
  PROVE  CacheOlder'
<1>1. /\ Memory(m, Retired(r), o) /\ Owned(m, FALSE, o)
      /\ snap' = snap \/ snap' = Published(snap, r, o)
  BY DEF Finish
<1>2. Retired(r).gen = run[m].gen
  BY DEF Retired, NoRun
<1>3. Published(snap, r, o).gen = run[m].gen /\ Published(snap, r, o) # NoRun
  BY PublishedFields, RunStatus
<1>4. snap' = snap \/ (snap'.gen = run[m].gen /\ snap' # NoRun)
  BY <1>1, <1>3
<1> QED
  BY <1>1, <1>2, <1>4, CacheExecuting

(* Steps of an execution. *)
LEMMA CachePublishing ==
  ASSUME CInv, IInv', NEW m \in alive, NEW o \in Outcomes,
         PublishingStep(m, o) \/ DecidingStep(m, o)
  PROVE  CacheOlder'
<1>1. run[m].st = "running"
  BY DEF PublishingStep, DecidingStep, Observe, RecordResult, RecordDecision, EngineResolves,
         EngineThrows, Pause, StopRunning, Executing
<1>2. run[m] \in Run
  BY <1>1, OwnerRecord DEF CInv
<1>3. CASE Observe(m, o)
  <2>1. /\ Memory(m, Published(snap, run[m], o), o) /\ Owned(m, TRUE, o)
        /\ snap' = snap \/ snap' = Published(snap, run[m], o)
    BY <1>3 DEF Observe
  <2>2. LET p == Published(snap, run[m], o) IN p.gen = run[m].gen /\ p # NoRun
    BY <1>2, PublishedFields, RunStatus
  <2>3. snap' = snap \/ (snap'.gen = run[m].gen /\ snap' # NoRun)
    BY <2>1, <2>2
  <2> QED
    BY <1>1, <2>1, <2>2, <2>3, CacheExecuting
<1>4. ASSUME NEW c \in Calls, NEW v \in Values, RecordResult(m, c, v, o) PROVE CacheOlder'
  <2> DEFINE r == Recorded(run[m], c, v)
  <2>1. /\ Memory(m, Published(snap, r, o), o) /\ Owned(m, TRUE, o)
        /\ snap' = snap \/ snap' = Published(snap, r, o)
        /\ c \notin run[m].fresh
    BY <1>4 DEF RecordResult
  <2>2. r \in Run /\ r.gen = run[m].gen
    BY <1>2, <2>1, JournalUpdate
  <2> HIDE DEF r
  <2>3. LET p == Published(snap, r, o) IN p.gen = run[m].gen /\ p # NoRun
    BY <2>2, PublishedFields, RunStatus
  <2>4. snap' = snap \/ (snap'.gen = run[m].gen /\ snap' # NoRun)
    BY <2>1, <2>3
  <2> QED
    BY <1>1, <2>1, <2>3, <2>4, CacheExecuting
<1>5. ASSUME NEW v \in Values, RecordDecision(m, v, o) PROVE CacheOlder'
  <2> DEFINE r == Recorded(run[m], Checkpoint, v)
             p == Published(r, r, o)
  <2>1. /\ Owned(m, TRUE, o) /\ Checkpoint \notin run[m].fresh
        /\ \/ Memory(m, p, o) /\ snap' \in {r, p}
           \/ Memory(m, r, o) /\ snap' = snap
    BY <1>5 DEF RecordDecision
  <2>2. r \in Run /\ r.gen = run[m].gen
    BY <1>2, <2>1, CallsAssumption, JournalUpdate
  <2> HIDE DEF r
  <2>3. p.gen = run[m].gen /\ p # NoRun /\ r # NoRun
    BY <2>2, PublishedFields, RunStatus
  <2> HIDE DEF p
  <2>4. snap' = snap \/ (snap'.gen = run[m].gen /\ snap' # NoRun)
    BY <2>1, <2>2, <2>3
  <2> QED
    BY <1>1, <2>1, <2>2, <2>3, <2>4, CacheExecuting
<1>6. CASE EngineResolves(m, o) \/ Pause(m, o) \/ StopRunning(m, o)
  <2>1. PICK st \in {"completed", "paused", "aborted"}, e \in {"other", "stopped"} :
          Finish(m, [run[m] EXCEPT !.st = st], e, o)
    BY <1>6 DEF EngineResolves, Pause, StopRunning
  <2> DEFINE r == [run[m] EXCEPT !.st = st]
  <2>2. r \in Run /\ r.gen = run[m].gen
    BY <1>2 DEF Run, Statuses
  <2> HIDE DEF r
  <2>3. Finish(m, r, e, o)
    BY <2>1 DEF r
  <2> QED
    BY <1>1, <2>2, <2>3, CacheFinish
<1>7. ASSUME NEW st \in Statuses, NEW why \in Reasons, EngineThrows(m, st, why, o)
      PROVE  CacheOlder'
  <2> DEFINE r == [run[m] EXCEPT !.st = st, !.why = why]
  <2>1. Finish(m, r, "other", o)
    BY <1>7 DEF EngineThrows
  <2>2. r \in Run /\ r.gen = run[m].gen
    BY <1>2 DEF Run
  <2> HIDE DEF r
  <2> QED
    BY <1>1, <2>1, <2>2, CacheFinish
<1> QED
  BY <1>3, <1>4, <1>5, <1>6, <1>7 DEF PublishingStep, DecidingStep

(* A manager's own memory, through a span that it owns nothing in. *)
LEMMA CacheSame ==
  ASSUME CInv, IInv', NEW m \in alive, NEW o \in Outcomes, LeaseFree, SameMemory(m, o),
         snap # NoRun, snap' = snap \/ (snap' # NoRun /\ snap'.gen = snap.gen)
  PROVE  CacheOlder'
<1>1. m \notin own
  BY WriterAlone DEF CInv
<1>2. Memory(m, run[m], o) /\ Owned(m, FALSE, o)
  BY <1>1 DEF SameMemory, Owned
<1> QED
  BY <1>2, CacheIdle

(* Spans on a reloaded snapshot. *)
LEMMA CacheReloading ==
  ASSUME CInv, IInv', NEW m \in alive, NEW o \in Outcomes,
         ReloadingStep(m, o) \/ Reconcile(m, o)
  PROVE  CacheOlder'
<1>1. LeaseFree /\ snap # NoRun
  BY RunStatus DEF ReloadingStep, StopPaused, StopCold, Regate, RefuseMarked, Reconcile, Admits
<1>2. snap \in Run
  BY <1>1 DEF CInv, IInv, TypeOK
<1> DEFINE p == Prepared(o)
           s == [p EXCEPT !.st = "aborted", !.why = "none"]
<1>3. p \in Run /\ p.gen = snap.gen
  BY <1>2, PreparedFields DEF CInv, IInv
<1>4. s \in Run /\ s.gen = snap.gen
  <2> HIDE DEF p
  <2> QED
    BY <1>3 DEF Run, Statuses, Reasons
<1>5. CASE StopPaused(m, o)
  <2>1. /\ Memory(m, [run[m] EXCEPT !.st = "aborted"], o) /\ Owned(m, FALSE, o)
        /\ snap' \in {snap, Published(p, s, o)} /\ run[m].st = "paused"
    BY <1>5 DEF StopPaused
  <2>2. run[m] \in Run /\ run[m] # NoRun
    BY <2>1, RunStatus DEF CInv, IInv, TypeOK
  <2>3. [run[m] EXCEPT !.st = "aborted"].gen = run[m].gen
    BY <2>2 DEF Run
  <2>4. snap' # NoRun /\ snap'.gen = snap.gen
    <3> HIDE DEF p, s
    <3> QED
      BY <1>1, <1>4, <2>1, PublishedFields, RunStatus
  <2> QED
    BY <1>1, <2>1, <2>2, <2>3, <2>4, CacheIdle
<1>6. ASSUME SameMemory(m, o), snap' \in {snap, s, Published(p, s, o), Published(p, p, o)}
      PROVE  CacheOlder'
  <2> HIDE DEF p, s
  <2>1. snap' # NoRun /\ snap'.gen = snap.gen
    BY <1>1, <1>3, <1>4, <1>6, PublishedFields, RunStatus
  <2> QED
    BY <1>1, <1>6, <2>1, CacheSame
<1>7. CASE StopCold(m, o)
  BY <1>6, <1>7 DEF StopCold
<1>8. ASSUME NEW op, NEW reply, Regate(m, op, reply, o) PROVE CacheOlder'
  BY <1>6, <1>8 DEF Regate
<1>9. ASSUME NEW op, NEW reply, RefuseMarked(m, op, reply, o) PROVE CacheOlder'
  <2>1. SameMemory(m, o) /\ snap' = [snap EXCEPT !.inc = TRUE]
    BY <1>9 DEF RefuseMarked
  <2>2. snap' \in Run /\ snap'.gen = snap.gen
    BY <1>2, <2>1 DEF Run
  <2> QED
    BY <1>1, <2>1, <2>2, CacheSame, RunStatus
<1>10. CASE Reconcile(m, o)
  <2>1. SameMemory(m, o) /\ snap' \in {snap, [snap EXCEPT !.st = "paused", !.why = "interrupted"]}
    BY <1>10 DEF Reconcile
  <2>2. snap' \in Run /\ snap'.gen = snap.gen
    BY <1>2, <2>1 DEF Run, Statuses, Reasons
  <2> QED
    BY <1>1, <2>1, <2>2, CacheSame, RunStatus
<1> QED
  BY <1>5, <1>7, <1>8, <1>9, <1>10 DEF ReloadingStep

(* A start, of an id that no memory knows. *)
LEMMA CacheStart ==
  ASSUME ~ReuseIds, CInv, IInv', NEW m \in alive, NEW o \in Outcomes, Start(m, o)
  PROVE  CacheOlder'
<1> DEFINE r == [NoRun EXCEPT !.st = "running"]
<1>1. /\ LeaseFree /\ snap = NoRun /\ \A n \in Managers : run[n] = NoRun
      /\ Memory(m, r, o) /\ Owned(m, TRUE, o)
  BY DEF Start, Used
<1>2. m \in Managers /\ own' \subseteq {m} /\ \A n \in Managers \ {m} : run'[n] = NoRun
  BY <1>1, SpanMemory
<1>3. m \in own' \/ run'[m] = NoRun
  BY <1>1, <1>2 DEF Memory, Owned, CInv, IInv, TypeOK, Outcomes
<1> QED
  BY <1>2, <1>3 DEF CacheOlder

(* A deletion. *)
LEMMA CacheDelete ==
  ASSUME CInv, IInv', NEW m \in alive, NEW o \in Outcomes, Delete(m, o)
  PROVE  CacheOlder'
<1>1. /\ m \in own \/ LeaseFree
      /\ snap' \in {snap, NoRun} /\ Memory(m, NoRun, o) /\ Owned(m, FALSE, o)
  BY DEF Delete
<1>2. /\ m \in Managers /\ own \subseteq {m} /\ own' = {}
      /\ \A n \in Managers \ {m} : run'[n] = run[n]
      /\ run'[m] = NoRun
  BY <1>1, SpanMemory
<1>3. snap.gen \in Nat
  BY GenTypes DEF CInv, IInv
<1> QED
  BY <1>1, <1>2, <1>3, CacheSpan

(* A continuation is a generation that no cache has. *)
LEMMA CacheContinue ==
  ASSUME CInv, IInv', NEW m \in alive, NEW o \in Outcomes, NEW op \in Ops \cup {NoOp},
         NEW reply, NEW host, Continue(m, op, reply, host, o)
  PROVE  CacheOlder'
<1> DEFINE p == Prepared(o)
<1>1. PICK j, k :
        LET r == [p EXCEPT !.st = "running", !.why = "none", !.gen = p.gen + 1, !.fresh = {},
                           !.journal = j, !.receipts = k]
        IN  /\ Memory(m, Published(r, r, o), o) /\ snap' \in {r, Published(r, r, o)}
  BY DEF Continue
<1>2. LeaseFree /\ snap # NoRun /\ Owned(m, TRUE, o)
  BY DEF Continue, Admits
<1>3. snap \in Run /\ p \in Run /\ p.gen = snap.gen
  BY <1>2, PreparedFields DEF CInv, IInv, TypeOK
<1> HIDE DEF p
<1> DEFINE r == [p EXCEPT !.st = "running", !.why = "none", !.gen = p.gen + 1, !.fresh = {},
                          !.journal = j, !.receipts = k]
<1>4. r.st = "running" /\ r.gen = snap.gen + 1
  BY <1>3 DEF Run
<1>5. Published(r, r, o).gen = r.gen /\ Published(r, r, o).st = r.st
  BY DEF Published
<1>6. Memory(m, Published(r, r, o), o) /\ snap' \in {r, Published(r, r, o)}
  BY <1>1
<1> HIDE DEF r
<1>7. snap' # NoRun /\ snap'.gen = snap.gen + 1
  BY <1>4, <1>5, <1>6, RunStatus
<1>8. own = {} /\ m \in Managers
  BY <1>2, WriterAlone DEF CInv, IInv, TypeOK
<1>9. /\ own' \subseteq {m}
      /\ \A n \in Managers \ {m} : run'[n] = run[n]
  BY <1>2, <1>6, SpanMemory
<1>10. m \notin own' => run'[m] = NoRun
  BY <1>2, <1>6, <1>8 DEF Owned, Memory, CInv, IInv, TypeOK, Outcomes
<1>11. snap.gen \in Nat
  BY GenTypes DEF CInv, IInv
<1> QED
  BY <1>2, <1>7, <1>8, <1>9, <1>10, <1>11, CacheSpan

(* Every step of a system whose ids are used once. *)
LEMMA CacheStep ==
  ASSUME ~ReuseIds, CInv, [Next]_vars
  PROVE  CInv'
<1>1. IInv'
  BY NextStep, StutterStep DEF Good, CInv
<1>2. CASE Next
  <2>1. PICK m \in alive : WritingStep(m) \/ MemoryStep(m) \/ Crash(m)
    BY <1>2 DEF Next
  <2>2. CASE WritingStep(m)
    <3>1. PICK o \in Outcomes :
            \/ SavingStep(m, o) \/ PublishingStep(m, o) \/ DecidingStep(m, o)
            \/ ReloadingStep(m, o) \/ ContinuingStep(m, o)
      BY <2>2 DEF WritingStep
    <3> QED
      BY <1>1, <3>1, CacheStart, CacheDelete, CachePublishing, CacheReloading, CacheContinue
      DEF SavingStep, ContinuingStep, CInv
  <2>3. CASE MemoryStep(m)
    <3>1. /\ UNCHANGED <<snap, own>> /\ m \in Managers
          /\ \A n \in Managers : run'[n].gen = run[n].gen /\ (run'[n] # NoRun => run[n] # NoRun)
      <4>1. ASSUME NEW st \in Statuses, Unwind(m, st)
            PROVE  \A n \in Managers : /\ run'[n].gen = run[n].gen
                                       /\ run'[n] # NoRun => run[n] # NoRun
        <5>1. /\ run[m].st \in {"paused", "aborted"} /\ run' = [run EXCEPT ![m].st = st]
              /\ m \in Managers
          BY <4>1 DEF Unwind, CInv, IInv, TypeOK
        <5>2. run[m] \in Run /\ run[m] # NoRun
          BY <5>1, RunStatus DEF CInv, IInv, TypeOK
        <5>3. run' = [run EXCEPT ![m] = [run[m] EXCEPT !.st = st]]
          BY <5>1 DEF CInv, IInv, TypeOK
        <5>4. [run[m] EXCEPT !.st = st].gen = run[m].gen
          BY <5>2 DEF Run
        <5> QED
          BY <5>1, <5>2, <5>3, <5>4 DEF CInv, IInv, TypeOK
      <4> QED
        BY <2>3, <4>1 DEF MemoryStep, Unwind, ContinueThrows, CInv, IInv, TypeOK
    <3> QED
      BY <1>1, <3>1 DEF CInv, CacheOlder
  <2>4. CASE Crash(m)
    <3>1. /\ snap' = snap /\ own' = own \ {m} /\ m \in Managers
          /\ \A n \in Managers : run'[n] \in {run[n], NoRun}
          /\ run'[m] = NoRun
      BY <2>4 DEF Crash, CInv, IInv, TypeOK
    <3> QED
      BY <1>1, <3>1 DEF CInv, CacheOlder
  <2> QED
    BY <2>1, <2>2, <2>3, <2>4
<1>3. CASE UNCHANGED vars
  BY <1>1, <1>3 DEF vars, CInv, CacheOlder
<1> QED
  BY <1>2, <1>3

-----------------------------------------------------------------------------
(* While another process executes the run, no manager shows, or reconciles *)
(* by, the history it has cached, provided no id is used twice.            *)
THEOREM CacheYields == ~ReuseIds => (Spec => []CachedHistoryYields)
<1> SUFFICES ASSUME ~ReuseIds PROVE Spec => []CachedHistoryYields
  OBVIOUS
<1>1. Init => CInv
  <2> SUFFICES ASSUME Init PROVE CInv
    OBVIOUS
  <2>1. IInv
    BY InitIInv
  <2> QED
    BY <2>1 DEF CInv, CacheOlder, Init
<1>2. CInv /\ [Next]_vars => CInv'
  BY CacheStep
<1>3. CInv => CachedHistoryYields
  <2> SUFFICES ASSUME CInv, snap # NoRun, own # {}, NEW m \in Managers \ own, GetRun(m)
               PROVE  FALSE
    BY DEF CachedHistoryYields
  <2>1. run[m] # NoRun /\ snap.gen = run[m].gen
    BY DEF GetRun
  <2>2. run[m].gen < snap.gen /\ snap.gen \in Nat /\ run[m].gen \in Nat
    BY <2>1, GenTypes DEF CInv, CacheOlder, IInv
  <2> QED
    BY <2>1, <2>2
<1> QED
  BY <1>1, <1>2, <1>3, PTL DEF Spec
=============================================================================
