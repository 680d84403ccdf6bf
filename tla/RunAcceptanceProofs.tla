------------------------- MODULE RunAcceptanceProofs -------------------------
(***************************************************************************)
(* Proofs about RunAcceptance, for any number of daemons and requests and  *)
(* any bounds. A step is one daemon's, about one run: the invariant is     *)
(* split into what is said of a run (Solo), of a daemon and a run (Pair)   *)
(* and of a daemon's slots (Capped), so that a step has to look at its own *)
(* run and daemon only (FrameStep).                                        *)
(***************************************************************************)
EXTENDS RunAcceptance, FiniteSetTheorems, TLAPS

Active == {"pending", "running"}

Functional(answers) == \A x, y \in answers : x.id = y.id => x = y

(* A run: accepted once, started once and with consent, questions unique,  *)
(* answers kept; a record that is gone has left its tombstone.             *)
Solo(r) ==
  /\ created[r] <= 1 /\ starts[r] <= 1
  /\ created[r] = 0 => /\ snap[r] = NoRun /\ r \notin tomb /\ starts[r] = 0
                       /\ asked[r] = {} /\ acked[r] = {}
  /\ snap[r].st = "none" => snap[r] = NoRun /\ (created[r] > 0 => r \in tomb)
  /\ snap[r].st = "pending" => /\ starts[r] = 0 /\ snap[r].rev \in Nat
                               /\ \A q \in asked[r] : q.id <= snap[r].rev
                               /\ snap[r].ask # NoKey =>
                                    [id |-> snap[r].rev, key |-> snap[r].ask] \in asked[r]
  /\ \A p, q \in asked[r] : p.id = q.id => p = q
  /\ snap[r].approved \subseteq consented[r]
  /\ snap[r].st # "none" => acked[r] \subseteq snap[r].answers /\ Functional(snap[r].answers)
  /\ starts[r] > 0 => Keys \subseteq consented[r]

(* A daemon deletes a run: alone, and the tombstone comes first.           *)
Deletes(d, r) ==
  op[d].run = r /\ op[d].pc \in {"mark", "unlink", "unlock"} =>
    /\ lease[r] = d /\ created[r] > 0
    /\ op[d].pc # "mark" => r \in tomb
    /\ IF op[d].pc = "unlock" THEN snap[r] = NoRun ELSE snap[r].st # "none"

(* What respond carries from its read to its save.                         *)
Replies(d, r) ==
  /\ op[d].run = r /\ op[d].pc = "create" => op[d].id = 0
  /\ op[d].run = r /\ op[d].pc = "save" => op[d].id # 0 /\ slot[d][r] # "none"
  /\ op[d].run = r /\ op[d].pc \in {"look", "claim", "save"} /\ op[d].id # 0 =>
       /\ op[d].verdict = "accept" /\ op[d].seen.ask \in Keys
       /\ op[d].seen.ask \in consented[r] /\ op[d].seen.approved \subseteq consented[r]

Owned(d, r) ==
  mem[d][r].st \in Active =>
    /\ lease[r] = d
    /\ mem[d][r] = snap[r] \/ (op[d].run = r /\ op[d].pc = "unlock")

Pair(d, r) ==
  /\ created[r] = 0 => mem[d][r] = NoRun /\ slot[d][r] = "none" /\ drive[d][r] = NoDrive
  /\ Owned(d, r) /\ Deletes(d, r) /\ Replies(d, r)
  /\ slot[d][r] = "held" => mem[d][r].st = "pending" \/ (r \in tomb /\ snap[r].st = "none")
  /\ slot[d][r] = "tracked" => starts[r] > 0
  /\ drive[d][r].phase # "none" =>
       /\ snap[r].st = "pending" => mem[d][r].st = "pending"
       /\ mem[d][r].st = "pending" => slot[d][r] = "held"
  /\ drive[d][r].approved \subseteq consented[r]

Used(d) == {r \in Runs : slot[d][r] # "none"}
Capped(d) ==
  /\ Cardinality(Used(d)) <= Cap
  /\ op[d].pc \in {"create", "claim"} => Cardinality(Used(d)) < Cap

IInv ==
  /\ TypeOK
  /\ \A r \in Runs : Solo(r)
  /\ \A d \in Daemons, r \in Runs : Pair(d, r)
  /\ \A d \in Daemons : Capped(d)

LEMMA InvariantHolds == Init => IInv
<1> SUFFICES ASSUME Init PROVE IInv
  OBVIOUS
<1>1. TypeOK
  BY NamesAssumption DEF Init, TypeOK, Snapshot, NoRun, Drive, NoDrive, Op, Idle, Receipt, Verdicts
<1>2. ASSUME NEW r \in Runs PROVE Solo(r)
  BY <1>2 DEF Init, Solo, NoRun
<1>3. ASSUME NEW d \in Daemons, NEW r \in Runs PROVE Pair(d, r)
  BY <1>3, NamesAssumption DEF Init, Pair, Owned, Deletes, Replies, NoRun, NoDrive, Idle, Active
<1>4. ASSUME NEW d \in Daemons PROVE Capped(d)
  <2>1. Used(d) = {}
    BY DEF Init, Used
  <2>2. op[d].pc = "idle"
    BY DEF Init, Idle
  <2> QED
    BY <2>1, <2>2, FS_EmptySet, BoundsAssumption DEF Capped
<1> QED
  BY <1>1, <1>2, <1>3, <1>4 DEF IInv

-----------------------------------------------------------------------------
(* A step of d about r leaves everything else as it is.                    *)
Frame(d, r) ==
  /\ \A q \in Runs : q # r =>
       /\ snap'[q] = snap[q] /\ lease'[q] = lease[q] /\ (q \in tomb' <=> q \in tomb)
       /\ created'[q] = created[q] /\ starts'[q] = starts[q] /\ asked'[q] = asked[q]
       /\ consented'[q] = consented[q] /\ acked'[q] = acked[q]
  /\ \A e \in Daemons, q \in Runs : e # d \/ q # r =>
       mem'[e][q] = mem[e][q] /\ slot'[e][q] = slot[e][q] /\ drive'[e][q] = drive[e][q]
  /\ \A e \in Daemons : e # d => op'[e] = op[e]
  /\ op[d].run = r \/ op[d].pc = "idle"
  /\ op'[d].run = r \/ op'[d].pc = "idle"

(* What the step may do to r: to the record only while d or nobody has the *)
(* lease, and no pending record comes back.                                *)
Evolved(d, r) ==
  /\ created[r] <= created'[r] /\ starts[r] <= starts'[r] /\ consented[r] \subseteq consented'[r]
  /\ \/ snap'[r] = snap[r] /\ (r \in tomb => r \in tomb') /\ lease'[r] = lease[r]
     \/ /\ lease[r] \in {Nobody, d}
        /\ \/ snap'[r] = snap[r] /\ (r \in tomb => r \in tomb')
           \/ created[r] = 0
           \/ snap[r].st = "pending"
           \/ snap[r].st # "none" /\ snap'[r].st # "pending"

LEMMA FrameStep ==
  ASSUME IInv, TypeOK', NEW d \in Daemons, NEW r \in Runs, Frame(d, r), Evolved(d, r),
         Solo(r)', Pair(d, r)', Capped(d)'
  PROVE  IInv'
<1>1. ASSUME NEW q \in Runs PROVE Solo(q)'
  <2>1. CASE q = r
    BY <2>1
  <2>2. CASE q # r
    <3>1. Solo(q)
      BY DEF IInv
    <3>2. /\ snap'[q] = snap[q] /\ (q \in tomb' <=> q \in tomb)
          /\ created'[q] = created[q] /\ starts'[q] = starts[q] /\ asked'[q] = asked[q]
          /\ consented'[q] = consented[q] /\ acked'[q] = acked[q]
      BY <2>2 DEF Frame
    <3> QED
      BY <3>1, <3>2 DEF Solo
  <2> QED
    BY <2>1, <2>2
<1>2. ASSUME NEW e \in Daemons, NEW q \in Runs PROVE Pair(e, q)'
  <2>p. Pair(e, q)
    BY DEF IInv
  <2>1. CASE e = d /\ q = r
    BY <2>1
  <2>2. CASE q # r
    <3>3. /\ snap'[q] = snap[q] /\ lease'[q] = lease[q] /\ (q \in tomb' <=> q \in tomb)
          /\ created'[q] = created[q] /\ starts'[q] = starts[q] /\ consented'[q] = consented[q]
          /\ mem'[e][q] = mem[e][q] /\ slot'[e][q] = slot[e][q] /\ drive'[e][q] = drive[e][q]
      BY <2>2 DEF Frame
    <3>4. CASE op'[e] = op[e]
      BY <2>p, <3>3, <3>4 DEF Pair, Owned, Deletes, Replies
    <3>5. CASE op'[e] # op[e]
      <4>1. e = d
        BY <3>5 DEF Frame
      <4>2. op[e].run # q \/ op[e].pc = "idle"
        BY <4>1, <2>2 DEF Frame
      <4>3. op'[e].run # q \/ op'[e].pc = "idle"
        BY <4>1, <2>2 DEF Frame
      <4>4. Owned(e, q)'
        BY <2>p, <3>3, <4>2 DEF Pair, Owned
      <4>5. Deletes(e, q)' /\ Replies(e, q)'
        BY <4>3 DEF Deletes, Replies
      <4> QED
        BY <2>p, <3>3, <4>4, <4>5 DEF Pair
    <3> QED
      BY <3>4, <3>5
  <2>3. CASE e # d /\ q = r
    <3>1. /\ mem'[e][r] = mem[e][r] /\ slot'[e][r] = slot[e][r] /\ drive'[e][r] = drive[e][r]
          /\ op'[e] = op[e]
      BY <2>3 DEF Frame
    <3>2. /\ created[r] \in Nat /\ created'[r] \in Nat /\ starts[r] \in Nat /\ starts'[r] \in Nat
      BY DEF IInv, TypeOK
    <3>3. /\ created[r] <= created'[r] /\ starts[r] <= starts'[r]
          /\ consented[r] \subseteq consented'[r]
      BY DEF Evolved
    <3>4. CASE snap'[r] = snap[r] /\ (r \in tomb => r \in tomb') /\ lease'[r] = lease[r]
      BY <2>p, <2>3, <3>1, <3>2, <3>3, <3>4 DEF Pair, Owned, Deletes, Replies
    <3>5. CASE /\ lease[r] \in {Nobody, d}
               /\ \/ snap'[r] = snap[r] /\ (r \in tomb => r \in tomb')
                  \/ created[r] = 0
                  \/ snap[r].st = "pending"
                  \/ snap[r].st # "none" /\ snap'[r].st # "pending"
      <4>1. lease[r] # e
        BY <2>3, <3>5, NamesAssumption
      <4>2. mem[e][r].st \notin Active
        BY <2>p, <2>3, <4>1 DEF Pair, Owned
      <4>3. ~(op[e].run = r /\ op[e].pc \in {"mark", "unlink", "unlock"})
        BY <2>p, <2>3, <4>1 DEF Pair, Deletes
      <4>4. Owned(e, r)' /\ Deletes(e, r)'
        BY <3>1, <4>2, <4>3 DEF Owned, Deletes
      <4>5. Replies(e, r)'
        BY <2>p, <2>3, <3>1, <3>3 DEF Pair, Replies
      <4>6. created'[r] = 0 => mem'[e][r] = NoRun /\ slot'[e][r] = "none" /\ drive'[e][r] = NoDrive
        BY <2>p, <2>3, <3>1, <3>2, <3>3 DEF Pair
      <4>7. slot'[e][r] = "held" => mem'[e][r].st = "pending" \/ (r \in tomb' /\ snap'[r].st = "none")
        BY <2>p, <2>3, <3>1, <3>5, <4>2 DEF Pair, Active
      <4>8. slot'[e][r] = "tracked" => starts'[r] > 0
        BY <2>p, <2>3, <3>1, <3>2, <3>3 DEF Pair
      <4>9. drive'[e][r].phase # "none" =>
              /\ snap'[r].st = "pending" => mem'[e][r].st = "pending"
              /\ mem'[e][r].st = "pending" => slot'[e][r] = "held"
        BY <2>p, <2>3, <3>1, <3>5, <4>2 DEF Pair, Active, NoDrive
      <4>10. drive'[e][r].approved \subseteq consented'[r]
        BY <2>p, <2>3, <3>1, <3>3 DEF Pair
      <4> QED
        BY <2>3, <4>4, <4>5, <4>6, <4>7, <4>8, <4>9, <4>10 DEF Pair
    <3> QED
      BY <3>4, <3>5 DEF Evolved
  <2> QED
    BY <2>1, <2>2, <2>3
<1>3. ASSUME NEW e \in Daemons PROVE Capped(e)'
  <2>1. CASE e = d
    BY <2>1
  <2>2. CASE e # d
    <3>1. Used(e)' = Used(e) /\ op'[e] = op[e]
      BY <2>2 DEF Used, Frame
    <3> QED
      BY <3>1 DEF IInv, Capped
  <2> QED
    BY <2>1, <2>2
<1> QED
  BY <1>1, <1>2, <1>3 DEF IInv

-----------------------------------------------------------------------------
(* The slots of a daemon.                                                  *)
LEMMA UsedCounted ==
  ASSUME TypeOK, NEW d \in Daemons
  PROVE  IsFiniteSet(Used(d)) /\ Cardinality(Used(d)) \in Nat
BY BoundsAssumption, FS_Subset, FS_CardinalityType DEF Used

LEMMA CappedKept ==
  ASSUME IInv, TypeOK', NEW d \in Daemons, NEW r \in Runs,
         \A q \in Runs : q # r => slot'[d][q] = slot[d][q],
         slot'[d][r] # "none" => slot[d][r] # "none",
         op'[d].pc \in {"create", "claim"} => ~Full(d)
  PROVE  Capped(d)'
<1>1. Used(d)' \subseteq Used(d)
  BY DEF Used
<1>2. IsFiniteSet(Used(d)) /\ Cardinality(Used(d)) \in Nat
  BY UsedCounted DEF IInv
<1>3. Cardinality(Used(d)') <= Cardinality(Used(d)) /\ Cardinality(Used(d)') \in Nat
  BY <1>1, <1>2, FS_Subset, FS_CardinalityType
<1>4. op'[d].pc \in {"create", "claim"} => Cardinality(Used(d)) < Cap
  BY <1>2, BoundsAssumption DEF Full, Used
<1>5. Cardinality(Used(d)) <= Cap
  BY DEF IInv, Capped
<1> QED
  BY <1>2, <1>3, <1>4, <1>5, BoundsAssumption DEF Capped

LEMMA CappedAdded ==
  ASSUME IInv, TypeOK', NEW d \in Daemons, NEW r \in Runs,
         \A q \in Runs : q # r => slot'[d][q] = slot[d][q],
         op[d].pc \in {"create", "claim"}, op'[d].pc \notin {"create", "claim"}
  PROVE  Capped(d)'
<1>1. Used(d)' \subseteq Used(d) \cup {r}
  BY DEF Used
<1>2. IsFiniteSet(Used(d)) /\ Cardinality(Used(d)) \in Nat
  BY UsedCounted DEF IInv
<1>3. IsFiniteSet(Used(d) \cup {r}) /\ Cardinality(Used(d) \cup {r}) <= Cardinality(Used(d)) + 1
      /\ Cardinality(Used(d) \cup {r}) \in Nat
  <2>1. IsFiniteSet(Used(d) \cup {r})
    BY <1>2, FS_AddElement
  <2>2. \/ Cardinality(Used(d) \cup {r}) = Cardinality(Used(d))
        \/ Cardinality(Used(d) \cup {r}) = Cardinality(Used(d)) + 1
    BY <1>2, FS_AddElement
  <2> QED
    BY <1>2, <2>1, <2>2
<1>4. Cardinality(Used(d)') <= Cardinality(Used(d) \cup {r}) /\ Cardinality(Used(d)') \in Nat
  BY <1>1, <1>3, FS_Subset, FS_CardinalityType
<1>5. Cardinality(Used(d)) < Cap
  BY DEF IInv, Capped
<1> QED
  BY <1>2, <1>3, <1>4, <1>5, BoundsAssumption DEF Capped

-----------------------------------------------------------------------------
(* A claim finds the record that is on disk, pending and with no other     *)
(* owner.                                                                  *)
LEMMA ClaimedIsRecord ==
  ASSUME IInv, NEW d \in Daemons, NEW r \in Runs, Claimable(d, r),
         op[d].run = r => op[d].pc # "unlock"
  PROVE  /\ Claimed(d, r) = snap[r] /\ snap[r].st = "pending" /\ snap[r] \in Snapshot
         /\ lease[r] \in {Nobody, d} /\ mem[d][r].st \in {"none", "pending"}
         /\ created[r] = 1 /\ starts[r] = 0 /\ slot[d][r] # "tracked"
         /\ mem[d][r].st = "pending" => mem[d][r] = snap[r]
<1>1. Pair(d, r) /\ Solo(r)
  BY DEF IInv
<1>2. /\ Claimed(d, r) = snap[r] /\ snap[r].st = "pending"
      /\ lease[r] \in {Nobody, d} /\ mem[d][r].st \in {"none", "pending"}
      /\ mem[d][r].st = "pending" => mem[d][r] = snap[r]
  BY <1>1 DEF Pair, Owned, Active, Claimable, Claimed
<1>3. snap[r] \in Snapshot /\ created[r] \in Nat /\ starts[r] \in Nat
  BY DEF IInv, TypeOK
<1> QED
  BY <1>1, <1>2, <1>3 DEF Solo, Pair, NoRun

(* A step that leaves the record, the lease and the memory alone.          *)
LEMMA QuietStep ==
  ASSUME IInv, TypeOK', NEW d \in Daemons, NEW r \in Runs, Frame(d, r),
         snap'[r] = snap[r], r \in tomb' <=> r \in tomb, lease'[r] = lease[r],
         created'[r] = created[r], starts'[r] = starts[r], asked'[r] = asked[r],
         mem'[d][r] = mem[d][r], slot'[d][r] = slot[d][r],
         consented[r] \subseteq consented'[r],
         acked'[r] = acked[r] \/ (snap[r].st # "none" /\ acked'[r] \subseteq acked[r] \cup snap[r].answers),
         \/ drive'[d][r] = drive[d][r]
         \/ /\ created[r] > 0 /\ drive'[d][r].approved \subseteq consented[r]
            /\ drive'[d][r].phase # "none" =>
                 drive[d][r].phase # "none" \/ (mem[d][r].st = "pending" /\ slot[d][r] = "held"),
         op[d].pc \notin {"mark", "unlink", "unlock"},
         op'[d].pc \notin {"mark", "unlink", "unlock"},
         op'[d].pc \in {"create", "claim"} => ~Full(d),
         Replies(d, r)'
  PROVE  IInv'
<1>1. Pair(d, r) /\ Solo(r) /\ created[r] \in Nat /\ starts[r] \in Nat
  BY DEF IInv, TypeOK
<1>2. Solo(r)'
  BY <1>1 DEF Solo, NoRun
<1>3. Pair(d, r)'
  <2>1. Owned(d, r)' /\ Deletes(d, r)'
    BY <1>1 DEF Pair, Owned, Deletes
  <2> QED
    BY <1>1, <2>1 DEF Pair
<1>4. Capped(d)'
  BY CappedKept DEF Frame
<1>5. Evolved(d, r)
  BY <1>1 DEF Evolved
<1> QED
  BY <1>2, <1>3, <1>4, <1>5, FrameStep

(* A step that claims the run and writes nothing.                          *)
LEMMA ClaimStep ==
  ASSUME IInv, TypeOK', NEW d \in Daemons, NEW r \in Runs, Frame(d, r), Claimable(d, r),
         snap'[r] = snap[r], r \in tomb' <=> r \in tomb, lease'[r] = d,
         created'[r] = created[r], starts'[r] = starts[r], asked'[r] = asked[r],
         mem'[d][r] = snap[r], slot'[d][r] # "tracked",
         slot'[d][r] = slot[d][r] \/ op[d].pc = "claim",
         consented'[r] = consented[r], acked'[r] = acked[r],
         slot[d][r] = "held" => slot'[d][r] = "held",
         drive'[d][r].approved \subseteq consented[r],
         drive'[d][r].phase # "none" => drive[d][r].phase # "none" \/ slot'[d][r] = "held",
         op[d].pc \notin {"mark", "unlink", "unlock"},
         op'[d].pc \notin {"mark", "unlink", "unlock", "create", "claim"},
         Replies(d, r)'
  PROVE  IInv'
<1>1. Pair(d, r) /\ Solo(r) /\ created[r] \in Nat /\ starts[r] \in Nat
  BY DEF IInv, TypeOK
<1>2. /\ snap[r].st = "pending" /\ lease[r] \in {Nobody, d} /\ created[r] = 1
  BY ClaimedIsRecord
<1>3. Solo(r)'
  BY <1>1 DEF Solo, NoRun
<1>4. Pair(d, r)'
  <2>1. Owned(d, r)' /\ Deletes(d, r)'
    BY DEF Owned, Deletes
  <2> QED
    BY <1>1, <1>2, <2>1 DEF Pair
<1>5. Capped(d)'
  <2>1. CASE slot'[d][r] = slot[d][r]
    BY <2>1, CappedKept DEF Frame
  <2>2. CASE op[d].pc = "claim"
    BY <2>2, CappedAdded DEF Frame
  <2> QED
    BY <2>1, <2>2
<1>6. Evolved(d, r)
  BY <1>1, <1>2 DEF Evolved
<1> QED
  BY <1>3, <1>4, <1>5, <1>6, FrameStep

(* A step of the owner that writes the record it has.                      *)
LEMMA WriteStep ==
  ASSUME IInv, TypeOK', NEW d \in Daemons, NEW r \in Runs, Frame(d, r),
         created[r] > 0, created'[r] = created[r], starts[r] <= starts'[r],
         consented'[r] = consented[r], Solo(r)',
         lease[r] \in {Nobody, d},
         snap[r].st = "pending" \/ (snap[r].st # "none" /\ snap'[r].st # "pending"),
         mem'[d][r] = snap'[r] \/ mem'[d][r].st \notin Active,
         mem'[d][r].st \in Active => lease'[r] = d,
         snap'[r].st = "pending" => mem'[d][r].st = "pending",
         slot'[d][r] = "held" => mem'[d][r].st = "pending",
         slot'[d][r] = "tracked" => starts'[r] > 0,
         slot'[d][r] # "none" => slot[d][r] # "none",
         drive'[d][r].approved \subseteq consented[r],
         drive'[d][r].phase # "none" /\ mem'[d][r].st = "pending" => slot'[d][r] = "held",
         op[d].pc \notin {"mark", "unlink", "unlock"}, op'[d].pc = "idle"
  PROVE  IInv'
<1>1. created[r] \in Nat /\ starts[r] \in Nat
  BY DEF IInv, TypeOK
<1>2. Pair(d, r)'
  <2>1. Owned(d, r)' /\ Deletes(d, r)' /\ Replies(d, r)'
    BY DEF Owned, Deletes, Replies
  <2> QED
    BY <1>1, <2>1 DEF Pair
<1>3. Capped(d)'
  BY CappedKept DEF Frame
<1>4. Evolved(d, r)
  BY <1>1 DEF Evolved
<1> QED
  BY <1>2, <1>3, <1>4, FrameStep

-----------------------------------------------------------------------------
(* Acceptance.                                                             *)
Pcs == {"idle", "create", "look", "claim", "save", "cancel", "mark", "unlink", "unlock"}

LEMMA Constants ==
  /\ NoRun \in Snapshot /\ Accepted \in Snapshot /\ Idle \in Op
  /\ NoDrive \in Drive /\ Scheduled \in Drive
  /\ Accepted.st = "pending" /\ Accepted.rev = 0 /\ Accepted.ask = NoKey
  /\ Accepted.approved = {} /\ Accepted.answers = {}
  /\ Scheduled.phase = "scheduled" /\ Scheduled.approved = {}
<1>1. NoRun \in Snapshot
  BY DEF NoRun, Snapshot, Receipt
<1>2. Idle \in Op
  BY <1>1 DEF Idle, Op, Verdicts
<1>3. NoDrive \in Drive
  BY DEF NoDrive, Drive
<1>4. ASSUME NEW s \in Snapshot PROVE [s EXCEPT !.st = "pending", !.rev = 0] \in Snapshot
  <2>1. ASSUME NEW t \in Snapshot PROVE [t EXCEPT !.rev = 0] \in Snapshot
    BY DEF Snapshot
  <2>2. [s EXCEPT !.st = "pending"] \in Snapshot
    BY DEF Snapshot
  <2> QED
    BY <2>1, <2>2
<1>5. \A v \in Drive : [v EXCEPT !.phase = "scheduled"] \in Drive
  BY DEF Drive
<1>6. /\ Accepted.st = "pending" /\ Accepted.rev = 0 /\ Accepted.ask = NoKey
      /\ Accepted.approved = {} /\ Accepted.answers = {}
      /\ Scheduled.phase = "scheduled" /\ Scheduled.approved = {}
  BY DEF Accepted, NoRun, Scheduled, NoDrive
<1> QED
  BY <1>1, <1>2, <1>3, <1>4, <1>5, <1>6 DEF Accepted, Scheduled

(* What Enter, Go and Returns leave in op.                                 *)
LEMMA Enters ==
  ASSUME TypeOK, NEW d \in Daemons, NEW r \in Runs, NEW pc \in Pcs, Enter(d, pc, r)
  PROVE  /\ op' \in [Daemons -> Op] /\ \A e \in Daemons : e # d => op'[e] = op[e]
         /\ op'[d].pc = pc /\ op'[d].run = r /\ op'[d].id = 0
<1> DEFINE k == [Idle EXCEPT !.pc = pc, !.run = r]
<1>1. ASSUME NEW o \in Op PROVE [o EXCEPT !.pc = pc, !.run = r] \in Op
  BY DEF Op, Pcs
<1>2. k \in Op
  BY <1>1, Constants
<1>3. k.pc = pc /\ k.run = r /\ k.id = 0
  BY DEF Idle
<1>4. op' = [op EXCEPT ![d] = k] /\ op \in [Daemons -> Op]
  BY DEF Enter, TypeOK
<1> HIDE DEF k
<1> QED
  BY <1>2, <1>3, <1>4

LEMMA Goes ==
  ASSUME TypeOK, NEW d \in Daemons, NEW pc \in Pcs, Go(d, pc)
  PROVE  /\ op' \in [Daemons -> Op] /\ \A e \in Daemons : e # d => op'[e] = op[e]
         /\ op'[d].pc = pc /\ op'[d].run = op[d].run /\ op'[d].id = op[d].id
         /\ op'[d].seen = op[d].seen /\ op'[d].verdict = op[d].verdict
<1> DEFINE k == [op[d] EXCEPT !.pc = pc]
<1>1. op \in [Daemons -> Op] /\ op[d] \in Op
  BY DEF TypeOK
<1>2. k \in Op
  BY <1>1 DEF Op, Pcs
<1>3. /\ k.pc = pc /\ k.run = op[d].run /\ k.id = op[d].id
      /\ k.seen = op[d].seen /\ k.verdict = op[d].verdict
  BY <1>1 DEF Op
<1>4. op' = [op EXCEPT ![d] = k]
  BY DEF Go
<1> HIDE DEF k
<1> QED
  BY <1>1, <1>2, <1>3, <1>4

LEMMA ReturnsIdle ==
  ASSUME TypeOK, NEW d \in Daemons, Returns(d)
  PROVE  /\ op' \in [Daemons -> Op] /\ \A e \in Daemons : e # d => op'[e] = op[e]
         /\ op'[d].pc = "idle"
BY Constants DEF Returns, TypeOK, Idle

LEMMA AcceptStep ==
  ASSUME IInv, NEW d \in Daemons, NEW r \in Runs, Accept(d, r)
  PROVE  IInv'
<1>1. /\ op[d].pc = "idle" /\ ~Full(d) /\ TypeOK
      /\ UNCHANGED <<durable, lease, mem, slot, drive, crashes, faults, history>>
  BY DEF Accept, At, IInv
<1>2. /\ op'[d].pc = "create" /\ op'[d].run = r /\ op'[d].id = 0 /\ op' \in [Daemons -> Op]
      /\ \A e \in Daemons : e # d => op'[e] = op[e]
  BY Enters DEF Accept, Pcs, IInv
<1>3. TypeOK'
  BY <1>1, <1>2 DEF TypeOK, durable, history
<1>4. Frame(d, r)
  BY <1>1, <1>2 DEF Frame, durable, history
<1>5. Replies(d, r)'
  BY <1>2 DEF Replies
<1> QED
  BY <1>1, <1>2, <1>3, <1>4, <1>5, QuietStep DEF durable, history

LEMMA CreateRefusedStep ==
  ASSUME IInv, NEW d \in Daemons, CreateRefused(d)
  PROVE  IInv'
<1>1. /\ op[d].pc = "create" /\ TypeOK
      /\ UNCHANGED <<durable, lease, mem, slot, drive, crashes, faults, history>>
  BY DEF CreateRefused, At, IInv
<1>2. PICK r \in Runs : r = op[d].run
  BY <1>1 DEF TypeOK
<1>3. /\ op' \in [Daemons -> Op] /\ \A e \in Daemons : e # d => op'[e] = op[e]
      /\ op'[d].pc \in {"idle", "look"}
      /\ op'[d].pc = "look" => op'[d].run = r /\ op'[d].id = op[d].id
  BY <1>1, <1>2, Goes, ReturnsIdle DEF CreateRefused, Pcs
<1>4. TypeOK'
  BY <1>1, <1>2, <1>3 DEF TypeOK, durable, history
<1>5. Frame(d, r)
  BY <1>1, <1>2, <1>3 DEF Frame, durable, history
<1>6. Replies(d, r)'
  BY <1>1, <1>2, <1>3 DEF Replies, IInv, Pair
<1> QED
  BY <1>1, <1>2, <1>3, <1>4, <1>5, <1>6, QuietStep DEF durable, history

-----------------------------------------------------------------------------
(* Recovery.                                                               *)
Consented(o, r) ==
  o.id # 0 => /\ o.verdict = "accept" /\ o.seen.ask \in Keys
              /\ o.seen.ask \in consented[r] /\ o.seen.approved \subseteq consented[r]

LEMMA RecoveredOp ==
  ASSUME TypeOK, NEW d \in Daemons, NEW r \in Runs, NEW o \in Op, o.run = r,
         NEW h \in BOOLEAN, Recovered(d, o, h)
  PROVE  /\ op' \in [Daemons -> Op] /\ \A e \in Daemons : e # d => op'[e] = op[e]
         /\ \/ op'[d].pc = "idle"
            \/ /\ op'[d].pc = "save" /\ o.id # 0 /\ h
               /\ op'[d].run = r /\ op'[d].id = o.id
               /\ op'[d].verdict = o.verdict /\ op'[d].seen = o.seen
<1>1. op \in [Daemons -> Op]
  BY DEF TypeOK
<1>2. CASE o.id # 0 /\ h
  <2> DEFINE k == [o EXCEPT !.pc = "save"]
  <2>1. k \in Op
    BY DEF Op
  <2>2. k.pc = "save" /\ k.run = r /\ k.id = o.id /\ k.verdict = o.verdict /\ k.seen = o.seen
    BY DEF Op
  <2>3. op' = [op EXCEPT ![d] = k]
    BY <1>2 DEF Recovered
  <2> HIDE DEF k
  <2> QED
    BY <1>1, <1>2, <2>1, <2>2, <2>3
<1>3. CASE ~(o.id # 0 /\ h)
  <2>1. op' = [op EXCEPT ![d] = Idle]
    BY <1>3 DEF Recovered
  <2> QED
    BY <1>1, <2>1, Constants DEF Idle
<1> QED
  BY <1>2, <1>3

(* schedule of a preparing run.                                            *)
LEMMA Schedules ==
  ASSUME TypeOK, NEW d \in Daemons, NEW r \in Runs, Schedule(d, r) \/ UNCHANGED drive
  PROVE  /\ drive' \in [Daemons -> [Runs -> Drive]]
         /\ \A e \in Daemons, q \in Runs : e # d \/ q # r => drive'[e][q] = drive[e][q]
         /\ drive'[d][r] = drive[d][r] \/ (drive'[d][r].approved = {} /\ Schedule(d, r))
<1>1. drive \in [Daemons -> [Runs -> Drive]]
  BY DEF TypeOK
<1>2. CASE drive' = drive
  BY <1>1, <1>2
<1>3. CASE drive' = [drive EXCEPT ![d][r] = Scheduled] /\ Schedule(d, r)
  BY <1>1, <1>3, Constants
<1> QED
  BY <1>2, <1>3 DEF Schedule

LEMMA LooksStep ==
  ASSUME IInv, NEW d \in Daemons, NEW r \in Runs, NEW o \in Op, o.run = r, Consented(o, r),
         op[d].pc \in {"idle", "look"}, op[d].pc = "look" => op[d].run = r,
         Looks(d, o)
  PROVE  IInv'
<1>1. /\ UNCHANGED <<durable, lease, mem, slot, crashes, faults, history>> /\ TypeOK
      /\ Pair(d, r) /\ Solo(r)
  BY DEF Looks, IInv
<1>2. /\ op' \in [Daemons -> Op] /\ \A e \in Daemons : e # d => op'[e] = op[e]
      /\ \/ op'[d].pc = "idle"
         \/ op'[d].pc = "claim" /\ ~Full(d) /\ op'[d].run = r /\ op'[d].id = o.id
            /\ op'[d].verdict = o.verdict /\ op'[d].seen = o.seen
         \/ op'[d].pc = "save" /\ o.id # 0 /\ slot[d][r] # "none" /\ op'[d].run = r
            /\ op'[d].id = o.id /\ op'[d].verdict = o.verdict /\ op'[d].seen = o.seen
  <2>1. CASE Recovered(d, o, slot[d][r] # "none")
    <3>1. PICK h \in BOOLEAN : h <=> slot[d][r] # "none"
      OBVIOUS
    <3>2. Recovered(d, o, h)
      BY <2>1, <3>1 DEF Recovered
    <3> QED
      BY <1>1, <3>1, <3>2, RecoveredOp
  <2>2. CASE /\ ~Full(d)
             /\ op' = [op EXCEPT ![d] = [o EXCEPT !.pc = "claim", !.drv = Preparing(snap[r])]]
    <3> DEFINE b == Preparing(snap[r])
               l == [o EXCEPT !.pc = "claim"]
               k == [l EXCEPT !.drv = b]
    <3>1. b \in BOOLEAN
      BY DEF Preparing
    <3>2. l \in Op
      BY DEF Op
    <3>3. k = [o EXCEPT !.pc = "claim", !.drv = b]
      BY DEF Op
    <3>4. k \in Op
      <4> HIDE DEF b, l
      <4> QED
        BY <3>1, <3>2 DEF Op
    <3>5. k.pc = "claim" /\ k.run = r /\ k.id = o.id /\ k.verdict = o.verdict /\ k.seen = o.seen
      <4> HIDE DEF b
      <4> QED
        BY DEF Op
    <3>6. op' = [op EXCEPT ![d] = k]
      BY <2>2, <3>3
    <3> HIDE DEF k
    <3> QED
      BY <1>1, <2>2, <3>4, <3>5, <3>6 DEF TypeOK
  <2> QED
    BY <2>1, <2>2 DEF Looks
<1>3. /\ drive' \in [Daemons -> [Runs -> Drive]]
      /\ \A e \in Daemons, q \in Runs : e # d \/ q # r => drive'[e][q] = drive[e][q]
      /\ \/ drive'[d][r] = drive[d][r]
         \/ drive'[d][r].approved = {} /\ snap[r].st = "pending" /\ slot[d][r] # "none"
  BY <1>1, Schedules DEF Looks, Preparing
<1>4. \/ drive'[d][r] = drive[d][r]
      \/ /\ created[r] > 0 /\ drive'[d][r].approved \subseteq consented[r]
         /\ mem[d][r].st = "pending" /\ slot[d][r] = "held"
  <2>1. created[r] \in Nat /\ slot[d][r] \in {"none", "held", "tracked"}
    BY <1>1 DEF TypeOK
  <2> QED
    BY <1>1, <1>3, <2>1 DEF Pair, Solo, NoRun
<1>5. TypeOK'
  BY <1>1, <1>2, <1>3 DEF TypeOK, durable, history
<1>6. Frame(d, r)
  BY <1>1, <1>2, <1>3 DEF Frame, durable, history
<1>7. Replies(d, r)'
  BY <1>1, <1>2 DEF Replies, Consented, history
<1> QED
  BY <1>1, <1>2, <1>4, <1>5, <1>6, <1>7, QuietStep DEF durable, history

LEMMA RecoverStep ==
  ASSUME IInv, NEW d \in Daemons, NEW r \in Runs, Recover(d, r)
  PROVE  IInv'
<1> DEFINE o == [Idle EXCEPT !.run = r]
<1>1. ASSUME NEW i \in Op PROVE [i EXCEPT !.run = r] \in Op
  BY DEF Op
<1>2. o \in Op
  BY <1>1, Constants
<1>3. o.run = r /\ o.id = 0
  BY DEF Idle
<1>4. Looks(d, o) /\ op[d].pc = "idle"
  BY DEF Recover, At
<1> HIDE DEF o
<1> QED
  BY <1>2, <1>3, <1>4, LooksStep DEF Consented

LEMMA LookStep ==
  ASSUME IInv, NEW d \in Daemons, Look(d)
  PROVE  IInv'
<1>1. op[d].pc = "look" /\ Looks(d, op[d]) /\ TypeOK
  BY DEF Look, At, IInv
<1>2. PICK r \in Runs : r = op[d].run
  BY <1>1 DEF TypeOK
<1>3. op[d] \in Op /\ Pair(d, r)
  BY <1>1 DEF TypeOK, IInv
<1>4. Consented(op[d], r)
  BY <1>1, <1>2, <1>3 DEF Pair, Replies, Consented
<1> QED
  BY <1>1, <1>2, <1>3, <1>4, LooksStep

LEMMA ClaimActionStep ==
  ASSUME IInv, NEW d \in Daemons, Claim(d)
  PROVE  IInv'
<1>1. op[d].pc = "claim" /\ TypeOK /\ UNCHANGED <<durable, crashes, faults, history>>
  BY DEF Claim, At, IInv
<1>2. PICK r \in Runs : r = op[d].run
  BY <1>1 DEF TypeOK
<1>3. op[d] \in Op /\ Pair(d, r) /\ Solo(r)
  BY <1>1 DEF TypeOK, IInv
<1>4. Consented(op[d], r)
  BY <1>1, <1>2, <1>3 DEF Pair, Replies, Consented
<1>5. PICK h \in BOOLEAN : h <=> Claimable(d, r)
  OBVIOUS
<1>6. Recovered(d, op[d], h)
  BY <1>2, <1>5 DEF Claim, Recovered
<1>7. /\ op' \in [Daemons -> Op] /\ \A e \in Daemons : e # d => op'[e] = op[e]
      /\ \/ op'[d].pc = "idle"
         \/ /\ op'[d].pc = "save" /\ op[d].id # 0 /\ h
            /\ op'[d].run = r /\ op'[d].id = op[d].id
            /\ op'[d].verdict = op[d].verdict /\ op'[d].seen = op[d].seen
  BY <1>1, <1>2, <1>3, <1>6, RecoveredOp
<1>8. CASE ~Claimable(d, r)
  <2>1. UNCHANGED <<mem, lease, slot, drive>>
    BY <1>2, <1>8 DEF Claim
  <2>2. TypeOK'
    BY <1>1, <1>7, <2>1 DEF TypeOK, durable, history
  <2>3. Frame(d, r)
    BY <1>1, <1>2, <1>7, <2>1 DEF Frame, durable, history
  <2>4. Replies(d, r)'
    BY <1>5, <1>7, <1>8 DEF Replies
  <2> QED
    BY <1>1, <1>7, <2>1, <2>2, <2>3, <2>4, QuietStep DEF durable, history
<1>9. CASE Claimable(d, r)
  <2>1. Claimed(d, r) = snap[r] /\ snap[r].st = "pending" /\ snap[r] \in Snapshot
    BY <1>1, <1>9, ClaimedIsRecord
  <2>2. /\ mem' = [mem EXCEPT ![d][r] = snap[r]] /\ lease' = [lease EXCEPT ![r] = d]
        /\ slot' = [slot EXCEPT ![d][r] = "held"]
        /\ Schedule(d, r) \/ UNCHANGED drive
    BY <1>2, <1>9, <2>1 DEF Claim, Claims, Held
  <2>3. /\ drive' \in [Daemons -> [Runs -> Drive]]
        /\ \A e \in Daemons, q \in Runs : e # d \/ q # r => drive'[e][q] = drive[e][q]
        /\ drive'[d][r] = drive[d][r] \/ drive'[d][r].approved = {}
    BY <1>1, <2>2, Schedules
  <2>4. mem'[d][r] = snap[r] /\ lease'[r] = d /\ slot'[d][r] = "held"
    BY <1>1, <2>2 DEF TypeOK
  <2>5. TypeOK'
    BY <1>1, <1>7, <2>1, <2>2, <2>3 DEF TypeOK, durable, history
  <2>6. Frame(d, r)
    BY <1>1, <1>2, <1>7, <2>2, <2>3 DEF Frame, TypeOK, durable, history
  <2>7. Replies(d, r)'
    BY <1>1, <1>4, <1>7, <2>4 DEF Replies, Consented, history
  <2>8. drive'[d][r].approved \subseteq consented[r]
    BY <1>3, <2>3 DEF Pair
  <2> QED
    BY <1>1, <1>7, <1>9, <2>4, <2>5, <2>6, <2>7, <2>8, ClaimStep DEF durable, history
<1> QED
  BY <1>8, <1>9

-----------------------------------------------------------------------------
(* Replies.                                                                *)
LEMMA RespondStep ==
  ASSUME IInv, NEW d \in Daemons, NEW r \in Runs, Respond(d, r)
  PROVE  IInv'
<1>1. /\ op[d].pc = "idle" /\ TypeOK /\ Solo(r) /\ Pair(d, r)
      /\ UNCHANGED <<durable, lease, mem, slot, drive, crashes, faults, created, starts, asked>>
  BY DEF Respond, At, IInv
<1>2. PICK q \in asked[r], v \in Verdicts :
        /\ consented' = [consented EXCEPT ![r] = IF v = "accept" THEN @ \cup {q.key} ELSE @]
        /\ \/ /\ [id |-> q.id, verdict |-> v] \in snap[r].answers
              /\ Acks(r, q.id, v) /\ UNCHANGED op
           \/ /\ snap[r].st = "pending" /\ snap[r].ask # NoKey /\ snap[r].rev = q.id
              /\ op' = [op EXCEPT ![d] =
                         [Idle EXCEPT !.pc = AfterVerdict(v), !.run = r, !.seen = snap[r],
                                      !.id = q.id, !.verdict = v]]
              /\ UNCHANGED acked
  BY DEF Respond
<1>3. snap[r] \in Snapshot /\ q.id \in Nat /\ q.key \in Keys
  BY <1>1 DEF TypeOK
<1>4. /\ consented' \in [Runs -> SUBSET Keys] /\ consented[r] \subseteq consented'[r]
      /\ v = "accept" => q.key \in consented'[r]
      /\ \A p \in Runs : p # r => consented'[p] = consented[p]
  BY <1>1, <1>2, <1>3 DEF TypeOK
<1>5. CASE [id |-> q.id, verdict |-> v] \in snap[r].answers /\ Acks(r, q.id, v) /\ UNCHANGED op
  <2>1. snap[r].answers \subseteq Receipt /\ snap[r].st # "none"
    BY <1>1, <1>3, <1>5 DEF Solo, NoRun, Snapshot
  <2>2. /\ acked' \in [Runs -> SUBSET Receipt] /\ acked'[r] \subseteq acked[r] \cup snap[r].answers
        /\ \A p \in Runs : p # r => acked'[p] = acked[p]
    BY <1>1, <1>5, <2>1 DEF Acks, TypeOK
  <2>3. TypeOK'
    BY <1>1, <1>4, <1>5, <2>2 DEF TypeOK, durable
  <2>4. Frame(d, r)
    BY <1>1, <1>4, <1>5, <2>2 DEF Frame, durable
  <2>5. Replies(d, r)'
    BY <1>1, <1>5 DEF Replies
  <2> QED
    BY <1>1, <1>4, <1>5, <2>1, <2>2, <2>3, <2>4, <2>5, QuietStep DEF durable
<1>6. CASE /\ snap[r].st = "pending" /\ snap[r].ask # NoKey /\ snap[r].rev = q.id
           /\ op' = [op EXCEPT ![d] =
                      [Idle EXCEPT !.pc = AfterVerdict(v), !.run = r, !.seen = snap[r],
                                   !.id = q.id, !.verdict = v]]
           /\ UNCHANGED acked
  <2> DEFINE k == [Idle EXCEPT !.pc = AfterVerdict(v), !.run = r, !.seen = snap[r],
                               !.id = q.id, !.verdict = v]
  <2>1. /\ k.pc = AfterVerdict(v) /\ k.run = r /\ k.seen = snap[r] /\ k.id = q.id /\ k.verdict = v
    BY DEF Idle
  <2>2. k \in Op
    <3>1. AfterVerdict(v) \in {"look", "cancel"}
      BY DEF AfterVerdict
    <3>2. ASSUME NEW o \in Op, NEW pc \in Pcs, NEW t \in Snapshot, NEW n \in Nat, NEW w \in Verdicts
          PROVE  [o EXCEPT !.pc = pc, !.run = r, !.seen = t, !.id = n, !.verdict = w] \in Op
      BY DEF Op, Pcs
    <3> QED
      BY <1>3, <3>1, <3>2, Constants DEF Pcs
  <2>3. op' = [op EXCEPT ![d] = k]
    BY <1>6
  <2> HIDE DEF k
  <2>4. op' \in [Daemons -> Op] /\ op'[d] = k /\ \A e \in Daemons : e # d => op'[e] = op[e]
    BY <1>1, <2>2, <2>3 DEF TypeOK
  <2>5. TypeOK'
    BY <1>1, <1>4, <1>6, <2>1, <2>4 DEF TypeOK, durable
  <2>6. Frame(d, r)
    BY <1>1, <1>4, <1>6, <2>1, <2>4 DEF Frame, durable
  <2>7. k.pc = "look" => v = "accept"
    BY <2>1 DEF AfterVerdict
  <2>8. k.pc \in {"look", "cancel"}
    BY <2>1 DEF AfterVerdict
  <2>9. v = "accept" => snap[r].ask \in consented'[r]
    <3>1. [id |-> snap[r].rev, key |-> snap[r].ask] \in asked[r]
      BY <1>1, <1>6 DEF Solo
    <3>2. q = [id |-> snap[r].rev, key |-> snap[r].ask]
      BY <1>1, <1>6, <3>1 DEF Solo
    <3> QED
      BY <1>4, <3>2
  <2>10. snap[r].ask \in Keys
    BY <1>3, <1>6 DEF Snapshot
  <2>11. snap[r].approved \subseteq consented'[r]
    BY <1>1, <1>4 DEF Solo
  <2>12. Replies(d, r)'
    BY <2>1, <2>4, <2>7, <2>8, <2>9, <2>10, <2>11 DEF Replies
  <2> QED
    BY <1>1, <1>4, <1>6, <2>4, <2>5, <2>6, <2>8, <2>12, QuietStep DEF durable
<1> QED
  BY <1>2, <1>5, <1>6

-----------------------------------------------------------------------------
(* A method that throws, before or at its save: the claim stays.           *)
LEMMA KeepsClaimStep ==
  ASSUME IInv, NEW d \in Daemons, NEW r \in Runs, KeepsClaim(d, r),
         UNCHANGED <<slot, crashes, created, starts, asked, consented, acked>>,
         faults' \in Nat,
         op' \in [Daemons -> Op], \A e \in Daemons : e # d => op'[e] = op[e],
         op[d].run = r \/ op[d].pc = "idle", op[d].pc \notin {"mark", "unlink", "unlock"},
         op'[d].pc = "idle",
         drive' \in [Daemons -> [Runs -> Drive]],
         \A e \in Daemons, q \in Runs : e # d \/ q # r => drive'[e][q] = drive[e][q],
         drive'[d][r].approved = drive[d][r].approved,
         drive'[d][r] = drive[d][r] \/ drive[d][r].phase # "none"
  PROVE  IInv'
<1>1. TypeOK /\ Pair(d, r) /\ UNCHANGED durable
  BY DEF IInv, KeepsClaim
<1>2. Replies(d, r)'
  BY DEF Replies
<1>3. CASE ~Claimable(d, r)
  <2>1. UNCHANGED <<mem, lease>>
    BY <1>3 DEF KeepsClaim
  <2>2. TypeOK'
    BY <1>1, <2>1 DEF TypeOK, durable
  <2>3. Frame(d, r)
    BY <1>1, <2>1 DEF Frame, durable
  <2>4. \/ drive'[d][r] = drive[d][r]
        \/ created[r] > 0 /\ drive'[d][r].approved \subseteq consented[r] /\ drive[d][r].phase # "none"
    <3>1. created[r] \in Nat
      BY <1>1 DEF TypeOK
    <3> QED
      BY <1>1, <3>1 DEF Pair, NoDrive
  <2> QED
    BY <1>1, <1>2, <2>1, <2>2, <2>3, <2>4, QuietStep DEF durable
<1>4. CASE Claimable(d, r)
  <2>1. /\ Claimed(d, r) = snap[r] /\ snap[r].st = "pending" /\ snap[r] \in Snapshot
        /\ slot[d][r] # "tracked"
    BY <1>4, ClaimedIsRecord
  <2>2. mem' = [mem EXCEPT ![d][r] = snap[r]] /\ lease' = [lease EXCEPT ![r] = d]
    BY <1>4, <2>1 DEF KeepsClaim, Claims
  <2>3. mem'[d][r] = snap[r] /\ lease'[r] = d
    BY <1>1, <2>2 DEF TypeOK
  <2>4. TypeOK'
    BY <1>1, <2>1, <2>2 DEF TypeOK, durable
  <2>5. Frame(d, r)
    BY <1>1, <2>2 DEF Frame, TypeOK, durable
  <2>6. drive'[d][r].approved \subseteq consented[r]
    BY <1>1 DEF Pair
  <2> QED
    BY <1>1, <1>2, <1>4, <2>1, <2>3, <2>4, <2>5, <2>6, ClaimStep DEF durable
<1> QED
  BY <1>3, <1>4

LEMMA FaultsCounted == ASSUME TypeOK, SaveFails PROVE faults' \in Nat
BY DEF TypeOK, SaveFails

LEMMA SaveStep ==
  ASSUME IInv, NEW d \in Daemons, Save(d)
  PROVE  IInv'
<1>1. op[d].pc = "save" /\ TypeOK /\ UNCHANGED <<slot, crashes, created, starts, asked, consented>>
  BY DEF Save, At, IInv
<1>2. PICK r \in Runs : r = op[d].run
  BY <1>1 DEF TypeOK
<1>3. Pair(d, r) /\ Solo(r) /\ op[d] \in Op
  BY <1>1 DEF IInv, TypeOK
<1>4. /\ op' \in [Daemons -> Op] /\ \A e \in Daemons : e # d => op'[e] = op[e]
      /\ op'[d].pc = "idle"
  BY <1>1, ReturnsIdle DEF Save
<1>5. CASE KeepsClaim(d, r) /\ UNCHANGED <<drive, acked>> /\ (UNCHANGED faults \/ SaveFails)
  <2>1. faults' \in Nat
    BY <1>1, <1>5, FaultsCounted DEF TypeOK
  <2>2. drive' \in [Daemons -> [Runs -> Drive]]
    BY <1>1, <1>5 DEF TypeOK
  <2> QED
    BY <1>1, <1>2, <1>4, <1>5, <2>1, <2>2, KeepsClaimStep
<1>6. PICK m \in Snapshot, mine \in Receipt :
        m = snap[r] /\ mine = [id |-> op[d].id, verdict |-> op[d].verdict]
  BY <1>1, <1>3 DEF TypeOK, Receipt, Op
<1> DEFINE seen == op[d].seen
           s == [m EXCEPT !.rev = m.rev + 1, !.ask = NoKey,
                   !.approved = seen.approved \cup {seen.ask}, !.answers = m.answers \cup {mine}]
<1>7. CASE /\ Claimable(d, r) /\ m.rev = seen.rev /\ Mergeable(m.answers, {mine})
           /\ Written(r, s) /\ Claims(d, r, s) /\ Schedule(d, r)
           /\ Acks(r, op[d].id, op[d].verdict) /\ UNCHANGED faults
  <2>1. /\ snap[r].st = "pending" /\ lease[r] \in {Nobody, d} /\ created[r] = 1 /\ starts[r] = 0
        /\ slot[d][r] # "tracked"
    BY <1>1, <1>7, ClaimedIsRecord
  <2>2. seen.ask \in Keys /\ seen.ask \in consented[r] /\ seen.approved \subseteq consented[r]
        /\ slot[d][r] = "held"
    BY <1>1, <1>2, <1>3, <2>1 DEF Pair, Replies, TypeOK
  <2>3. m.answers \in SUBSET Receipt /\ seen.approved \in SUBSET Keys /\ m.rev \in Nat
    BY <1>3, <1>6, <2>1 DEF Snapshot, Op, Solo
  <2>4. /\ s \in Snapshot /\ s.st = "pending" /\ s.rev = m.rev + 1 /\ s.ask = NoKey
        /\ s.approved = seen.approved \cup {seen.ask} /\ s.answers = m.answers \cup {mine}
    <3>1. seen.approved \cup {seen.ask} \in SUBSET Keys /\ m.answers \cup {mine} \in SUBSET Receipt
          /\ m.rev + 1 \in Int
      BY <1>6, <2>2, <2>3
    <3>2. ASSUME NEW x \in Snapshot, NEW n \in Int, NEW a \in SUBSET Keys, NEW A \in SUBSET Receipt
          PROVE  [x EXCEPT !.rev = n, !.ask = NoKey, !.approved = a, !.answers = A] \in Snapshot
      BY DEF Snapshot
    <3>3. s \in Snapshot
      BY <3>1, <3>2
    <3>4. /\ s.st = m.st /\ s.rev = m.rev + 1 /\ s.ask = NoKey
          /\ s.approved = seen.approved \cup {seen.ask} /\ s.answers = m.answers \cup {mine}
      BY DEF Snapshot
    <3> HIDE DEF s
    <3> QED
      BY <1>6, <2>1, <3>3, <3>4
  <2> HIDE DEF s
  <2>5. /\ snap' = [snap EXCEPT ![r] = s] /\ mem' = [mem EXCEPT ![d][r] = s]
        /\ lease' = [lease EXCEPT ![r] = d] /\ tomb' = tomb \ {r}
        /\ acked' = [acked EXCEPT ![r] = @ \cup {mine}]
    BY <1>6, <1>7 DEF Written, Claims, Acks
  <2>6. /\ snap'[r] = s /\ mem'[d][r] = s /\ lease'[r] = d /\ r \notin tomb'
        /\ acked'[r] = acked[r] \cup {mine}
    BY <1>1, <2>5 DEF TypeOK
  <2>7. /\ drive' \in [Daemons -> [Runs -> Drive]]
        /\ \A e \in Daemons, q \in Runs : e # d \/ q # r => drive'[e][q] = drive[e][q]
        /\ drive'[d][r] = drive[d][r] \/ drive'[d][r].approved = {}
    BY <1>1, <1>7, Schedules
  <2>8. TypeOK'
    BY <1>1, <1>4, <1>6, <1>7, <2>4, <2>5, <2>7 DEF TypeOK
  <2>9. Frame(d, r)
    BY <1>1, <1>2, <1>4, <2>5, <2>7 DEF Frame, TypeOK
  <2>10. Functional(s.answers)
    BY <1>3, <1>6, <1>7, <2>1, <2>4 DEF Solo, Functional, Mergeable
  <2>11. Solo(r)'
    <3>1. s.approved \subseteq consented'[r]
      BY <1>1, <1>3, <2>2, <2>4
    <3>2. \A q \in asked'[r] : q.id <= s.rev
      <4>1. \A q \in asked[r] : q.id \in Nat /\ q.id <= m.rev
        BY <1>1, <1>3, <1>6, <2>1 DEF Solo, TypeOK
      <4> QED
        BY <1>1, <2>3, <2>4, <4>1
    <3>3. acked'[r] \subseteq s.answers
      BY <1>3, <1>6, <2>1, <2>4, <2>6 DEF Solo
    <3>4. created'[r] = 1 /\ starts'[r] = 0 /\ asked'[r] = asked[r]
      BY <1>1, <2>1
    <3>5. \A p, q \in asked[r] : p.id = q.id => p = q
      BY <1>3 DEF Solo
    <3> QED
      BY <2>3, <2>4, <2>6, <2>10, <3>1, <3>2, <3>3, <3>4, <3>5 DEF Solo, Functional
  <2>12. drive'[d][r].approved \subseteq consented[r]
    BY <1>3, <2>7 DEF Pair
  <2> QED
    BY <1>1, <1>4, <2>1, <2>2, <2>4, <2>6, <2>8, <2>9, <2>11, <2>12, WriteStep
<1>8. CASE Claimable(d, r)
  <2>1. Claimed(d, r) = m
    BY <1>1, <1>6, <1>8, ClaimedIsRecord
  <2> QED
    BY <1>1, <1>2, <1>5, <1>6, <1>7, <1>8, <2>1 DEF Save, SaveThrows
<1>9. CASE ~Claimable(d, r)
  BY <1>2, <1>5, <1>9 DEF Save
<1> QED
  BY <1>8, <1>9

(* The owner settles the record and gives the slot back.                   *)
LEMMA SettleStep ==
  ASSUME IInv, NEW d \in Daemons, NEW r \in Runs, NEW s \in Snapshot,
         lease[r] \in {Nobody, d}, snap[r].st \in Active, created[r] > 0,
         s.st \in {"done", "failed", "aborted"}, s.st = "done" => s.rev = -1,
         s.approved = snap[r].approved, Functional(s.answers),
         Settled(d, r, s), Evicted(d, r),
         UNCHANGED <<crashes, created, starts, asked, consented>>, faults' \in Nat,
         acked' \in [Runs -> SUBSET Receipt], acked'[r] \subseteq s.answers,
         \A q \in Runs : q # r => acked'[q] = acked[q],
         op' \in [Daemons -> Op], \A e \in Daemons : e # d => op'[e] = op[e],
         op[d].run = r \/ op[d].pc = "idle", op[d].pc \notin {"mark", "unlink", "unlock"},
         op'[d].pc = "idle",
         drive' \in [Daemons -> [Runs -> Drive]],
         \A e \in Daemons, q \in Runs : e # d \/ q # r => drive'[e][q] = drive[e][q],
         drive'[d][r].approved = drive[d][r].approved
  PROVE  IInv'
<1>1. TypeOK /\ Pair(d, r) /\ Solo(r)
  BY DEF IInv
<1>2. /\ snap' = [snap EXCEPT ![r] = s] /\ tomb' = tomb \ {r}
      /\ mem' = [mem EXCEPT ![d][r] = s] /\ lease' = [lease EXCEPT ![r] = Nobody]
      /\ slot' = [slot EXCEPT ![d][r] = "none"]
  BY DEF Settled, Written, Evicted
<1>3. /\ snap'[r] = s /\ mem'[d][r] = s /\ lease'[r] = Nobody /\ slot'[d][r] = "none"
      /\ r \notin tomb'
  BY <1>1, <1>2 DEF TypeOK
<1>4. TypeOK'
  BY <1>1, <1>2 DEF TypeOK
<1>5. Frame(d, r)
  BY <1>1, <1>2 DEF Frame, TypeOK
<1>6. Solo(r)'
  BY <1>1, <1>3 DEF Solo, Functional
<1>7. drive'[d][r].approved \subseteq consented[r]
  BY <1>1 DEF Pair
<1>8. s.st \notin Active /\ snap[r].st # "none" /\ starts[r] \in Nat
  BY <1>1 DEF Active, TypeOK
<1> QED
  BY <1>3, <1>4, <1>5, <1>6, <1>7, <1>8, WriteStep DEF Active

LEMMA CancelStep ==
  ASSUME IInv, NEW d \in Daemons, Cancel(d)
  PROVE  IInv'
<1>1. op[d].pc = "cancel" /\ TypeOK /\ UNCHANGED <<drive, crashes, created, starts, asked, consented>>
  BY DEF Cancel, At, IInv
<1>2. PICK r \in Runs : r = op[d].run
  BY <1>1 DEF TypeOK
<1>3. Pair(d, r) /\ Solo(r) /\ op[d] \in Op /\ drive \in [Daemons -> [Runs -> Drive]]
  BY <1>1 DEF IInv, TypeOK
<1>4. /\ op' \in [Daemons -> Op] /\ \A e \in Daemons : e # d => op'[e] = op[e]
      /\ op'[d].pc = "idle"
  BY <1>1, ReturnsIdle DEF Cancel
<1>5. CASE KeepsClaim(d, r) /\ UNCHANGED <<slot, acked>> /\ (UNCHANGED faults \/ SaveFails)
  <2>1. faults' \in Nat
    BY <1>1, <1>5, FaultsCounted DEF TypeOK
  <2> QED
    BY <1>1, <1>2, <1>3, <1>4, <1>5, <2>1, KeepsClaimStep
<1>6. PICK m \in Snapshot, mine \in Receipt :
        m = snap[r] /\ mine = [id |-> op[d].id, verdict |-> op[d].verdict]
  BY <1>1, <1>3 DEF TypeOK, Receipt, Op
<1> DEFINE s == [m EXCEPT !.st = "aborted", !.answers = m.answers \cup {mine}]
<1>7. CASE /\ Claimable(d, r) /\ Mergeable(m.answers, {mine})
           /\ Settled(d, r, s) /\ Evicted(d, r)
           /\ Acks(r, op[d].id, op[d].verdict) /\ UNCHANGED faults
  <2>1. /\ snap[r].st = "pending" /\ lease[r] \in {Nobody, d} /\ created[r] = 1
    BY <1>1, <1>7, ClaimedIsRecord
  <2>2. m.answers \cup {mine} \in SUBSET Receipt
    BY DEF Snapshot
  <2>3. ASSUME NEW x \in Snapshot, NEW A \in SUBSET Receipt
        PROVE  [x EXCEPT !.st = "aborted", !.answers = A] \in Snapshot
    BY DEF Snapshot
  <2>4. s \in Snapshot
    BY <2>2, <2>3
  <2>5. s.st = "aborted" /\ s.answers = m.answers \cup {mine} /\ s.approved = m.approved
    BY DEF Snapshot
  <2> HIDE DEF s
  <2>6. Functional(s.answers)
    BY <1>3, <1>6, <1>7, <2>1, <2>5 DEF Solo, Functional, Mergeable
  <2>7. acked' = [acked EXCEPT ![r] = @ \cup {mine}]
    BY <1>6, <1>7 DEF Acks
  <2>8. acked' \in [Runs -> SUBSET Receipt] /\ \A q \in Runs : q # r => acked'[q] = acked[q]
    BY <1>1, <2>7 DEF TypeOK
  <2>9. acked'[r] \subseteq s.answers
    BY <1>1, <1>3, <1>6, <2>1, <2>5, <2>7 DEF Solo, TypeOK
  <2>10. faults' \in Nat
    BY <1>1, <1>7 DEF TypeOK
  <2>11. /\ lease[r] \in {Nobody, d} /\ snap[r].st \in Active /\ created[r] > 0
         /\ s.st \in {"done", "failed", "aborted"} /\ s.st # "done" /\ s.approved = snap[r].approved
    BY <1>6, <2>1, <2>5 DEF Active
  <2>12. UNCHANGED <<crashes, created, starts, asked, consented>>
    BY <1>1
  <2>13. /\ drive' \in [Daemons -> [Runs -> Drive]] /\ drive'[d][r].approved = drive[d][r].approved
         /\ \A e \in Daemons, q \in Runs : e # d \/ q # r => drive'[e][q] = drive[e][q]
    BY <1>1, <1>3
  <2> QED
    BY <1>1, <1>2, <1>4, <1>7, <2>4, <2>6, <2>8, <2>9, <2>10, <2>11, <2>12, <2>13, SettleStep
<1>8. CASE Claimable(d, r)
  <2>1. Claimed(d, r) = m
    BY <1>1, <1>6, <1>8, ClaimedIsRecord
  <2> QED
    BY <1>1, <1>2, <1>5, <1>6, <1>7, <1>8, <2>1 DEF Cancel, SaveThrows
<1>9. CASE ~Claimable(d, r)
  BY <1>2, <1>5, <1>9 DEF Cancel
<1> QED
  BY <1>8, <1>9

-----------------------------------------------------------------------------
(* The driver.                                                             *)
LEMMA Phases ==
  ASSUME TypeOK, NEW d \in Daemons, NEW r \in Runs,
         NEW p \in {"working", "failing", "settling"}, Phase(d, r, p)
  PROVE  /\ drive' \in [Daemons -> [Runs -> Drive]]
         /\ \A e \in Daemons, q \in Runs : e # d \/ q # r => drive'[e][q] = drive[e][q]
         /\ drive'[d][r].phase = p /\ drive'[d][r].approved = drive[d][r].approved
<1> DEFINE k == [drive[d][r] EXCEPT !.phase = p]
<1>1. drive \in [Daemons -> [Runs -> Drive]] /\ drive[d][r] \in Drive
  BY DEF TypeOK
<1>2. k \in Drive /\ k.phase = p /\ k.approved = drive[d][r].approved
  BY <1>1 DEF Drive
<1>3. drive' = [drive EXCEPT ![d][r] = k]
  BY DEF Phase
<1> HIDE DEF k
<1> QED
  BY <1>1, <1>2, <1>3

(* A step of the driver that changes nothing else.                         *)
LEMMA DriveOnlyStep ==
  ASSUME IInv, NEW d \in Daemons, NEW r \in Runs,
         op[d].pc = "idle", drive[d][r].phase # "none",
         UNCHANGED <<durable, lease, mem, slot, op, crashes, history>>, faults' = faults,
         drive' \in [Daemons -> [Runs -> Drive]],
         \A e \in Daemons, q \in Runs : e # d \/ q # r => drive'[e][q] = drive[e][q],
         drive'[d][r].approved \subseteq consented[r]
  PROVE  IInv'
<1>1. TypeOK /\ Pair(d, r) /\ created[r] \in Nat
  BY DEF IInv, TypeOK
<1>2. created[r] > 0
  BY <1>1 DEF Pair, NoDrive
<1>3. TypeOK'
  BY <1>1 DEF TypeOK, durable, history
<1>4. Frame(d, r)
  BY DEF Frame, durable, history
<1>5. Replies(d, r)'
  BY DEF Replies
<1> QED
  BY <1>2, <1>3, <1>4, <1>5, QuietStep DEF durable, history

LEMMA DriveStartsStep ==
  ASSUME IInv, NEW d \in Daemons, NEW r \in Runs, DriveStarts(d, r)
  PROVE  IInv'
<1>1. /\ op[d].pc = "idle" /\ drive[d][r].phase # "none" /\ TypeOK /\ Pair(d, r) /\ Solo(r)
      /\ UNCHANGED <<durable, lease, mem, slot, op, crashes, faults, history>>
  BY DEF DriveStarts, Driving, At, IInv
<1>2. CASE Phase(d, r, "settling")
  BY <1>1, <1>2, Phases, DriveOnlyStep DEF Pair
<1>3. CASE drive' = [drive EXCEPT ![d][r] = [phase |-> "working", rev |-> snap[r].rev,
                                             approved |-> snap[r].approved, failed |-> FALSE]]
  <2> DEFINE k == [phase |-> "working", rev |-> snap[r].rev,
                   approved |-> snap[r].approved, failed |-> FALSE]
  <2>1. snap[r] \in Snapshot
    BY <1>1 DEF TypeOK
  <2>2. k \in Drive /\ k.approved = snap[r].approved
    BY <2>1 DEF Snapshot, Drive
  <2>3. drive' = [drive EXCEPT ![d][r] = k]
    BY <1>3
  <2> HIDE DEF k
  <2>4. /\ drive' \in [Daemons -> [Runs -> Drive]] /\ drive'[d][r] = k
        /\ \A e \in Daemons, q \in Runs : e # d \/ q # r => drive'[e][q] = drive[e][q]
    BY <1>1, <2>2, <2>3 DEF TypeOK
  <2>5. drive'[d][r].approved \subseteq consented[r]
    BY <1>1, <2>2, <2>4 DEF Solo
  <2> QED
    BY <1>1, <2>4, <2>5, DriveOnlyStep
<1> QED
  BY <1>2, <1>3 DEF DriveStarts

LEMMA DriveThrowsStep ==
  ASSUME IInv, NEW d \in Daemons, NEW r \in Runs, DriveThrows(d, r)
  PROVE  IInv'
<1>1. /\ op[d].pc = "idle" /\ drive[d][r].phase # "none" /\ TypeOK /\ Pair(d, r)
      /\ UNCHANGED <<durable, lease, mem, slot, op, crashes, faults, history>>
      /\ Phase(d, r, "failing")
  BY DEF DriveThrows, Driving, At, IInv
<1> QED
  BY <1>1, Phases, DriveOnlyStep DEF Pair

LEMMA DriveEndsStep ==
  ASSUME IInv, NEW d \in Daemons, NEW r \in Runs, DriveEnds(d, r)
  PROVE  IInv'
<1>1. /\ op[d].pc = "idle" /\ drive[d][r].phase # "none" /\ TypeOK
      /\ UNCHANGED <<durable, lease, mem, slot, op, crashes, faults, history>>
  BY DEF DriveEnds, Driving, At, IInv
<1>2. PICK k \in {Scheduled, NoDrive} : drive' = [drive EXCEPT ![d][r] = k]
  BY DEF DriveEnds
<1>3. k \in Drive /\ k.approved = {}
  <2>1. CASE k = Scheduled
    BY <2>1, Constants
  <2>2. CASE k = NoDrive
    <3>1. NoDrive.approved = {}
      BY DEF NoDrive
    <3> QED
      BY <2>2, <3>1, Constants
  <2> QED
    BY <2>1, <2>2
<1>4. /\ drive' \in [Daemons -> [Runs -> Drive]] /\ drive'[d][r] = k
      /\ \A e \in Daemons, q \in Runs : e # d \/ q # r => drive'[e][q] = drive[e][q]
  BY <1>1, <1>2, <1>3 DEF TypeOK
<1> QED
  BY <1>1, <1>3, <1>4, DriveOnlyStep

LEMMA DriveAsksStep ==
  ASSUME IInv, NEW d \in Daemons, NEW r \in Runs, DriveAsks(d, r)
  PROVE  IInv'
<1>1. /\ op[d].pc = "idle" /\ drive[d][r].phase # "none" /\ TypeOK /\ Pair(d, r) /\ Solo(r)
      /\ UNCHANGED <<slot, op, crashes, created, starts, consented, acked>>
  BY DEF DriveAsks, Driving, At, IInv
<1>2. CASE /\ KeepsClaim(d, r) /\ Phase(d, r, "failing") /\ UNCHANGED asked
           /\ UNCHANGED faults \/ SaveFails
  <2>1. faults' \in Nat
    BY <1>1, <1>2, FaultsCounted DEF TypeOK
  <2>2. /\ drive' \in [Daemons -> [Runs -> Drive]]
        /\ \A e \in Daemons, q \in Runs : e # d \/ q # r => drive'[e][q] = drive[e][q]
        /\ drive'[d][r].approved = drive[d][r].approved
    BY <1>1, <1>2, Phases
  <2>3. op' \in [Daemons -> Op] /\ \A e \in Daemons : e # d => op'[e] = op[e]
    BY <1>1 DEF TypeOK
  <2> QED
    BY <1>1, <1>2, <2>1, <2>2, <2>3, KeepsClaimStep
<1>3. CASE ~Claimable(d, r)
  BY <1>2, <1>3 DEF DriveAsks
<1>4. CASE Claimable(d, r)
  <2>1. /\ Claimed(d, r) = snap[r] /\ snap[r].st = "pending" /\ snap[r] \in Snapshot
        /\ lease[r] \in {Nobody, d} /\ created[r] = 1 /\ starts[r] = 0 /\ slot[d][r] # "tracked"
    BY <1>1, <1>4, ClaimedIsRecord
  <2>2. PICK m \in Snapshot : m = snap[r]
    BY <2>1
  <2>3. PICK k \in Keys, a \in SUBSET Keys :
          LET s == [m EXCEPT !.rev = m.rev + 1, !.ask = k, !.approved = a] IN
          /\ a = drive[d][r].approved
          /\ \/ /\ Written(r, s) /\ Claims(d, r, s)
                /\ asked' = [asked EXCEPT ![r] = @ \cup {[id |-> s.rev, key |-> k]}]
                /\ Phase(d, r, "settling") /\ UNCHANGED faults
             \/ /\ KeepsClaim(d, r) /\ Phase(d, r, "failing") /\ UNCHANGED asked
                /\ UNCHANGED faults \/ SaveFails
    <3>1. drive[d][r].approved \in SUBSET Keys
      BY <1>1 DEF TypeOK, Drive
    <3> QED
      BY <2>1, <2>2, <3>1 DEF DriveAsks, SaveThrows
  <2> DEFINE s == [m EXCEPT !.rev = m.rev + 1, !.ask = k, !.approved = a]
  <2>4. CASE /\ Written(r, s) /\ Claims(d, r, s)
             /\ asked' = [asked EXCEPT ![r] = @ \cup {[id |-> s.rev, key |-> k]}]
             /\ Phase(d, r, "settling") /\ UNCHANGED faults
    <3>1. m.rev \in Nat /\ m.rev + 1 \in Nat
      BY <1>1, <2>1, <2>2 DEF Solo
    <3>2. /\ s \in Snapshot /\ s.st = "pending" /\ s.rev = m.rev + 1 /\ s.ask = k
          /\ s.approved = a /\ s.answers = m.answers
      <4>1. ASSUME NEW x \in Snapshot, NEW n \in Int, NEW b \in SUBSET Keys
            PROVE  [x EXCEPT !.rev = n, !.ask = k, !.approved = b] \in Snapshot
        BY DEF Snapshot
      <4>2. s \in Snapshot
        <5>1. m.rev + 1 \in Int
          BY <3>1
        <5> QED
          BY <4>1, <5>1
      <4>3. /\ s.st = m.st /\ s.rev = m.rev + 1 /\ s.ask = k /\ s.approved = a
            /\ s.answers = m.answers
        BY DEF Snapshot
      <4> HIDE DEF s
      <4> QED
        BY <2>1, <2>2, <4>2, <4>3
    <3> DEFINE q == [id |-> m.rev + 1, key |-> k]
    <3>3. q \in [id : Nat, key : Keys] /\ q.id = m.rev + 1
      BY <3>1
    <3>4. asked' = [asked EXCEPT ![r] = @ \cup {q}]
      BY <2>4, <3>2
    <3> HIDE DEF s, q
    <3>5. /\ snap' = [snap EXCEPT ![r] = s] /\ mem' = [mem EXCEPT ![d][r] = s]
          /\ lease' = [lease EXCEPT ![r] = d] /\ tomb' = tomb \ {r}
      BY <2>4 DEF Written, Claims
    <3>6. /\ snap'[r] = s /\ mem'[d][r] = s /\ lease'[r] = d /\ r \notin tomb'
          /\ asked'[r] = asked[r] \cup {q}
      BY <1>1, <3>4, <3>5 DEF TypeOK
    <3>7. /\ drive' \in [Daemons -> [Runs -> Drive]]
          /\ \A e \in Daemons, p \in Runs : e # d \/ p # r => drive'[e][p] = drive[e][p]
          /\ drive'[d][r].approved = a /\ a \subseteq consented[r]
      BY <1>1, <2>3, <2>4, Phases DEF Pair
    <3>8. TypeOK'
      <4>1. asked' \in [Runs -> SUBSET [id : Nat, key : Keys]]
        BY <1>1, <3>3, <3>4 DEF TypeOK
      <4> QED
        BY <1>1, <2>4, <3>2, <3>5, <3>7, <4>1 DEF TypeOK
    <3>9. Frame(d, r)
      BY <1>1, <3>4, <3>5, <3>7 DEF Frame, TypeOK
    <3>10. Solo(r)'
      <4>1. \A p \in asked[r] : p.id \in Nat /\ p.id <= m.rev
        BY <1>1, <2>1, <2>2 DEF Solo, TypeOK
      <4>2. \A p, u \in asked'[r] : p.id = u.id => p = u
        BY <1>1, <3>1, <3>3, <3>6, <4>1 DEF Solo
      <4>3. \A p \in asked'[r] : p.id <= s.rev
        BY <3>1, <3>2, <3>3, <3>6, <4>1
      <4>4. [id |-> s.rev, key |-> s.ask] \in asked'[r]
        BY <3>2, <3>6 DEF q
      <4>5. acked'[r] \subseteq s.answers /\ Functional(s.answers)
        BY <1>1, <2>1, <2>2, <3>2 DEF Solo
      <4>6. created'[r] = 1 /\ starts'[r] = 0 /\ s.approved \subseteq consented'[r] /\ s.rev \in Nat
        BY <1>1, <2>1, <3>1, <3>2, <3>7
      <4> QED
        BY <3>2, <3>6, <4>2, <4>3, <4>4, <4>5, <4>6 DEF Solo, Functional
    <3>11. drive[d][r].phase # "none" /\ slot'[d][r] = slot[d][r]
           /\ (mem'[d][r].st = "pending" => slot'[d][r] = "held")
      BY <1>1, <1>4, <2>1, <3>2 DEF Pair, Claimable, TypeOK
    <3> QED
      BY <1>1, <2>1, <3>2, <3>6, <3>7, <3>8, <3>9, <3>10, <3>11, WriteStep
  <2> QED
    BY <1>2, <2>3, <2>4
<1> QED
  BY <1>3, <1>4

LEMMA AdmittedRecord ==
  ASSUME NEW m \in Snapshot
  PROVE  /\ Admitted(m) \in Snapshot /\ Admitted(m).st = "running" /\ Admitted(m).rev = -1
         /\ Admitted(m).approved = {} /\ Admitted(m).answers = m.answers
<1>1. ASSUME NEW x \in Snapshot
      PROVE  [x EXCEPT !.st = "running", !.rev = -1, !.ask = NoKey, !.approved = {}] \in Snapshot
  <2>1. ASSUME NEW y \in Snapshot, NEW n \in Int, NEW k \in Keys \cup {NoKey}, NEW a \in SUBSET Keys
        PROVE  [y EXCEPT !.rev = n, !.ask = k, !.approved = a] \in Snapshot
    BY DEF Snapshot
  <2>2. [x EXCEPT !.st = "running"] \in Snapshot
    BY DEF Snapshot
  <2>3. -1 \in Int /\ NoKey \in Keys \cup {NoKey} /\ {} \in SUBSET Keys
    OBVIOUS
  <2> QED
    BY <2>1, <2>2, <2>3
<1>2. /\ Admitted(m).st = "running" /\ Admitted(m).rev = -1
      /\ Admitted(m).approved = {} /\ Admitted(m).answers = m.answers
  BY DEF Admitted, Snapshot
<1> QED
  BY <1>1, <1>2 DEF Admitted

LEMMA DriveAdmitsStep ==
  ASSUME IInv, NEW d \in Daemons, NEW r \in Runs, DriveAdmits(d, r)
  PROVE  IInv'
<1>1. /\ op[d].pc = "idle" /\ drive[d][r].phase # "none" /\ TypeOK /\ Pair(d, r) /\ Solo(r)
      /\ UNCHANGED <<op, crashes, created, asked, consented, acked>>
      /\ Keys \subseteq drive[d][r].approved
  BY DEF DriveAdmits, Driving, At, IInv
<1>2. op' \in [Daemons -> Op] /\ \A e \in Daemons : e # d => op'[e] = op[e]
  BY <1>1 DEF TypeOK
<1>3. CASE /\ KeepsClaim(d, r) /\ Phase(d, r, "failing") /\ UNCHANGED <<slot, starts>>
           /\ UNCHANGED faults \/ SaveFails
  <2>1. faults' \in Nat
    BY <1>1, <1>3, FaultsCounted DEF TypeOK
  <2>2. /\ drive' \in [Daemons -> [Runs -> Drive]]
        /\ \A e \in Daemons, q \in Runs : e # d \/ q # r => drive'[e][q] = drive[e][q]
        /\ drive'[d][r].approved = drive[d][r].approved
    BY <1>1, <1>3, Phases
  <2> QED
    BY <1>1, <1>2, <1>3, <2>1, <2>2, KeepsClaimStep
<1>4. CASE Phase(d, r, "settling") /\ UNCHANGED <<durable, mem, lease, slot, starts, faults>>
  <2>1. /\ drive' \in [Daemons -> [Runs -> Drive]]
        /\ \A e \in Daemons, q \in Runs : e # d \/ q # r => drive'[e][q] = drive[e][q]
        /\ drive'[d][r].approved \subseteq consented[r]
    BY <1>1, <1>4, Phases DEF Pair
  <2> QED
    BY <1>1, <1>4, <2>1, DriveOnlyStep DEF history
<1>5. CASE /\ Claimable(d, r)
           /\ Written(r, Admitted(Claimed(d, r))) /\ Claims(d, r, Admitted(Claimed(d, r)))
           /\ slot' = [slot EXCEPT ![d][r] = "tracked"]
           /\ starts' = [starts EXCEPT ![r] = @ + 1]
           /\ Phase(d, r, "settling") /\ UNCHANGED faults
  <2>1. /\ Claimed(d, r) = snap[r] /\ snap[r].st = "pending" /\ snap[r] \in Snapshot
        /\ lease[r] \in {Nobody, d} /\ created[r] = 1 /\ starts[r] = 0
    BY <1>1, <1>5, ClaimedIsRecord
  <2>2. PICK m \in Snapshot, s \in Snapshot : m = snap[r] /\ s = Admitted(m)
    BY <2>1, AdmittedRecord
  <2>3. s.st = "running" /\ s.rev = -1 /\ s.approved = {} /\ s.answers = m.answers
    BY <2>2, AdmittedRecord
  <2>4. /\ snap' = [snap EXCEPT ![r] = s] /\ mem' = [mem EXCEPT ![d][r] = s]
        /\ lease' = [lease EXCEPT ![r] = d] /\ tomb' = tomb \ {r}
    BY <1>5, <2>1, <2>2 DEF Written, Claims
  <2>5. /\ snap'[r] = s /\ mem'[d][r] = s /\ lease'[r] = d /\ r \notin tomb'
        /\ starts'[r] = 1 /\ slot'[d][r] = "tracked" /\ slot[d][r] # "none"
    <3>1. slot[d][r] # "none"
      BY <1>1, <2>1 DEF Pair
    <3> QED
      BY <1>1, <1>5, <2>1, <2>4, <3>1 DEF TypeOK
  <2>6. /\ drive' \in [Daemons -> [Runs -> Drive]]
        /\ \A e \in Daemons, q \in Runs : e # d \/ q # r => drive'[e][q] = drive[e][q]
        /\ drive'[d][r].approved \subseteq consented[r]
    BY <1>1, <1>5, Phases DEF Pair
  <2>7. TypeOK'
    <3>1. starts' \in [Runs -> Nat] /\ slot' \in [Daemons -> [Runs -> {"none", "held", "tracked"}]]
      BY <1>1, <1>5 DEF TypeOK
    <3> QED
      BY <1>1, <1>5, <2>3, <2>4, <2>6, <3>1 DEF TypeOK
  <2>8. Frame(d, r)
    BY <1>1, <1>5, <2>4, <2>6 DEF Frame, TypeOK
  <2>9. Solo(r)'
    <3>1. acked'[r] \subseteq s.answers /\ Functional(s.answers)
      BY <1>1, <2>1, <2>2, <2>3 DEF Solo
    <3>2. Keys \subseteq consented'[r] /\ s.approved \subseteq consented'[r]
      BY <1>1, <2>3 DEF Pair
    <3>3. created'[r] = 1 /\ \A p, q \in asked'[r] : p.id = q.id => p = q
      BY <1>1, <2>1 DEF Solo
    <3> QED
      BY <2>3, <2>5, <3>1, <3>2, <3>3 DEF Solo, Functional
  <2> QED
    BY <1>1, <2>1, <2>3, <2>5, <2>6, <2>7, <2>8, <2>9, WriteStep
<1> QED
  BY <1>3, <1>4, <1>5 DEF DriveAdmits, SaveThrows

LEMMA DriveFailsStep ==
  ASSUME IInv, NEW d \in Daemons, NEW r \in Runs, DriveFails(d, r)
  PROVE  IInv'
<1>1. /\ op[d].pc = "idle" /\ drive[d][r].phase # "none" /\ TypeOK /\ Pair(d, r) /\ Solo(r)
      /\ UNCHANGED <<op, crashes, history>>
      /\ drive' = [drive EXCEPT ![d][r].phase = "settling", ![d][r].failed = TRUE]
  BY DEF DriveFails, Driving, At, IInv
<1>2. op' \in [Daemons -> Op] /\ \A e \in Daemons : e # d => op'[e] = op[e]
  BY <1>1 DEF TypeOK
<1>3. /\ drive' \in [Daemons -> [Runs -> Drive]]
      /\ \A e \in Daemons, q \in Runs : e # d \/ q # r => drive'[e][q] = drive[e][q]
      /\ drive'[d][r].approved = drive[d][r].approved
  <2> DEFINE k == [drive[d][r] EXCEPT !.phase = "settling", !.failed = TRUE]
  <2>1. drive \in [Daemons -> [Runs -> Drive]] /\ drive[d][r] \in Drive
    BY <1>1 DEF TypeOK
  <2>2. ASSUME NEW x \in Drive PROVE [x EXCEPT !.phase = "settling", !.failed = TRUE] \in Drive
    BY DEF Drive
  <2>3. k \in Drive /\ k.approved = drive[d][r].approved
    BY <2>1, <2>2 DEF Drive
  <2>4. drive' = [drive EXCEPT ![d][r] = k]
    BY <1>1, <2>1
  <2> HIDE DEF k
  <2> QED
    BY <2>1, <2>3, <2>4
<1>4. CASE UNCHANGED <<durable, mem, lease, slot, faults>>
  <2>1. drive'[d][r].approved \subseteq consented[r]
    BY <1>1, <1>3 DEF Pair
  <2> QED
    BY <1>1, <1>3, <1>4, <2>1, DriveOnlyStep
<1>5. CASE KeepsClaim(d, r) /\ SaveFails /\ UNCHANGED slot
  <2>1. faults' \in Nat
    BY <1>1, <1>5, FaultsCounted
  <2>2. UNCHANGED <<slot, crashes, created, starts, asked, consented, acked>>
        /\ op[d].pc = "idle" /\ op'[d].pc = "idle" /\ KeepsClaim(d, r)
    BY <1>1, <1>5 DEF history
  <2>3. drive[d][r].phase # "none"
    BY <1>1
  <2> QED
    BY <1>2, <1>3, <2>1, <2>2, <2>3, KeepsClaimStep
<1>6. CASE /\ Claimable(d, r) /\ Settled(d, r, [Claimed(d, r) EXCEPT !.st = "failed"])
           /\ Evicted(d, r) /\ UNCHANGED faults
  <2>1. /\ Claimed(d, r) = snap[r] /\ snap[r].st = "pending" /\ snap[r] \in Snapshot
        /\ lease[r] \in {Nobody, d} /\ created[r] = 1
    BY <1>1, <1>6, ClaimedIsRecord
  <2> DEFINE s == [snap[r] EXCEPT !.st = "failed"]
  <2>2. ASSUME NEW x \in Snapshot PROVE [x EXCEPT !.st = "failed"] \in Snapshot
    BY DEF Snapshot
  <2>3. s \in Snapshot /\ s.st = "failed" /\ s.approved = snap[r].approved /\ s.answers = snap[r].answers
    BY <2>1, <2>2 DEF Snapshot
  <2>4. Settled(d, r, s)
    BY <1>6, <2>1
  <2> HIDE DEF s
  <2>5. Functional(s.answers) /\ acked'[r] \subseteq s.answers
    BY <1>1, <2>1, <2>3 DEF Solo, history
  <2>6. acked' \in [Runs -> SUBSET Receipt] /\ faults' \in Nat
        /\ UNCHANGED <<crashes, created, starts, asked, consented>>
        /\ \A q \in Runs : q # r => acked'[q] = acked[q]
    BY <1>1, <1>6 DEF TypeOK, history
  <2>7. snap[r].st \in Active /\ s.st # "done" /\ s.st \in {"done", "failed", "aborted"}
    BY <2>1, <2>3 DEF Active
  <2>8. created[r] > 0 /\ op[d].pc = "idle" /\ op'[d].pc = "idle" /\ Evicted(d, r)
    BY <1>1, <1>6, <2>1
  <2> QED
    BY <1>2, <1>3, <2>1, <2>3, <2>4, <2>5, <2>6, <2>7, <2>8, SettleStep
<1> QED
  BY <1>4, <1>5, <1>6 DEF DriveFails, SaveThrows

-----------------------------------------------------------------------------
(* Stops, the end of the execution, and deletion.                          *)
LEMMA WithStatus ==
  ASSUME NEW m \in Snapshot, NEW st \in {"done", "failed", "aborted"}
  PROVE  /\ [m EXCEPT !.st = st] \in Snapshot /\ [m EXCEPT !.st = st].st = st
         /\ [m EXCEPT !.st = st].rev = m.rev
         /\ [m EXCEPT !.st = st].approved = m.approved
         /\ [m EXCEPT !.st = st].answers = m.answers
BY DEF Snapshot

(* A settlement outside any call.                                          *)
LEMMA IdleSettleStep ==
  ASSUME IInv, NEW d \in Daemons, NEW r \in Runs, NEW st \in {"done", "failed", "aborted"},
         op[d].pc = "idle", mem[d][r].st \in Active, lease[r] = d,
         st = "done" => mem[d][r].st = "running",
         Settled(d, r, [mem[d][r] EXCEPT !.st = st]), Evicted(d, r),
         UNCHANGED <<drive, op, crashes, faults, history>>
  PROVE  IInv'
<1>1. TypeOK /\ Solo(r) /\ Pair(d, r) /\ mem[d][r] \in Snapshot
  BY DEF IInv, TypeOK
<1>2. mem[d][r] = snap[r]
  BY <1>1 DEF Pair, Owned
<1>3. PICK s \in Snapshot :
        /\ s = [mem[d][r] EXCEPT !.st = st] /\ s.st = st /\ s.rev = snap[r].rev
        /\ s.approved = snap[r].approved /\ s.answers = snap[r].answers
  <2>1. PICK m \in Snapshot : m = mem[d][r]
    BY <1>1
  <2>2. /\ [m EXCEPT !.st = st] \in Snapshot /\ [m EXCEPT !.st = st].st = st
        /\ [m EXCEPT !.st = st].rev = m.rev
        /\ [m EXCEPT !.st = st].approved = m.approved
        /\ [m EXCEPT !.st = st].answers = m.answers
    BY WithStatus
  <2> QED
    BY <1>2, <2>1, <2>2
<1>4. Settled(d, r, s) /\ s.st \in {"done", "failed", "aborted"}
  BY <1>3
<1>5. /\ lease[r] \in {Nobody, d} /\ snap[r].st \in Active /\ created[r] > 0
      /\ s.st = "done" => s.rev = -1
  BY <1>1, <1>2, <1>3 DEF Active, Solo, TypeOK, NoRun
<1>6. Functional(s.answers) /\ acked'[r] \subseteq s.answers
  BY <1>1, <1>3, <1>5 DEF Solo, Active, history
<1>7. /\ UNCHANGED <<crashes, created, starts, asked, consented>> /\ faults' \in Nat
      /\ acked' \in [Runs -> SUBSET Receipt] /\ \A q \in Runs : q # r => acked'[q] = acked[q]
      /\ op' \in [Daemons -> Op] /\ \A e \in Daemons : e # d => op'[e] = op[e]
      /\ op'[d].pc = "idle"
      /\ drive' \in [Daemons -> [Runs -> Drive]]
      /\ \A e \in Daemons, q \in Runs : e # d \/ q # r => drive'[e][q] = drive[e][q]
      /\ drive'[d][r].approved = drive[d][r].approved
  BY <1>1 DEF TypeOK, history
<1> QED
  BY <1>3, <1>4, <1>5, <1>6, <1>7, SettleStep

LEMMA StopStep ==
  ASSUME IInv, NEW d \in Daemons, NEW r \in Runs, Stop(d, r)
  PROVE  IInv'
<1>1. /\ op[d].pc = "idle" /\ mem[d][r].st \in Active /\ lease[r] = d
      /\ Settled(d, r, [mem[d][r] EXCEPT !.st = "aborted"]) /\ Evicted(d, r)
      /\ UNCHANGED <<drive, op, crashes, faults, history>>
  BY DEF Stop, At, Active, Claimable
<1>2. "aborted" \in {"done", "failed", "aborted"} /\ "aborted" # "done"
  OBVIOUS
<1> QED
  BY <1>1, <1>2, IdleSettleStep

LEMMA ColdStopStep ==
  ASSUME IInv, NEW d \in Daemons, NEW r \in Runs, ColdStop(d, r)
  PROVE  IInv'
<1>1. /\ op[d].pc = "idle" /\ mem[d][r].st \notin Active /\ lease[r] = Nobody
      /\ snap[r].st \in Active
      /\ Written(r, [snap[r] EXCEPT !.st = "aborted"]) /\ Evicted(d, r)
      /\ UNCHANGED <<lease, mem, drive, op, crashes, faults, history>>
  BY DEF ColdStop, At, Active
<1>2. TypeOK /\ Solo(r) /\ Pair(d, r) /\ snap[r] \in Snapshot
  BY DEF IInv, TypeOK
<1>3. PICK s \in Snapshot :
        /\ s = [snap[r] EXCEPT !.st = "aborted"] /\ s.st = "aborted" /\ s.rev = snap[r].rev
        /\ s.approved = snap[r].approved /\ s.answers = snap[r].answers
  <2>1. "aborted" \in {"done", "failed", "aborted"}
    OBVIOUS
  <2> QED
    BY <1>2, <2>1, WithStatus
<1>4. /\ snap' = [snap EXCEPT ![r] = s] /\ tomb' = tomb \ {r}
      /\ slot' = [slot EXCEPT ![d][r] = "none"]
  BY <1>1, <1>3 DEF Written, Evicted
<1>5. snap'[r] = s /\ r \notin tomb' /\ slot'[d][r] = "none"
  BY <1>2, <1>4 DEF TypeOK
<1>6. TypeOK'
  BY <1>1, <1>2, <1>3, <1>4 DEF TypeOK, history
<1>7. Frame(d, r)
  BY <1>1, <1>2, <1>4 DEF Frame, TypeOK, history
<1>8. Solo(r)'
  BY <1>1, <1>2, <1>3, <1>5 DEF Solo, Functional, Active, NoRun, history
<1>9. /\ created[r] > 0 /\ starts[r] <= starts'[r] /\ drive'[d][r].approved \subseteq consented[r]
      /\ created'[r] = created[r] /\ consented'[r] = consented[r] /\ mem'[d][r] = mem[d][r]
      /\ drive'[d][r] = drive[d][r]
  BY <1>1, <1>2 DEF Solo, Pair, TypeOK, NoRun, Active, history
<1>10. /\ lease[r] \in {Nobody, d} /\ snap[r].st # "none" /\ snap'[r].st # "pending"
       /\ mem'[d][r].st \notin Active /\ mem'[d][r].st # "pending" /\ op'[d].pc = "idle"
  BY <1>1, <1>3, <1>5, <1>9 DEF Active
<1> QED
  BY <1>1, <1>5, <1>6, <1>7, <1>8, <1>9, <1>10, WriteStep

LEMMA CompletesStep ==
  ASSUME IInv, NEW d \in Daemons, NEW r \in Runs, Completes(d, r)
  PROVE  IInv'
<1>1. /\ op[d].pc = "idle" /\ slot[d][r] = "tracked" /\ Evicted(d, r)
      /\ UNCHANGED <<drive, op, crashes, faults, history>>
  BY DEF Completes, At
<1>2. TypeOK /\ Solo(r) /\ Pair(d, r) /\ created[r] \in Nat /\ starts[r] \in Nat
  BY DEF IInv, TypeOK
<1>3. CASE /\ mem[d][r].st = "running" /\ lease[r] = d
           /\ Settled(d, r, [mem[d][r] EXCEPT !.st = "done"])
  <2>1. mem[d][r].st \in Active /\ "done" \in {"done", "failed", "aborted"}
    BY <1>3 DEF Active
  <2> QED
    BY <1>1, <1>3, <2>1, IdleSettleStep
<1>4. CASE UNCHANGED <<durable, mem, lease>>
  <2>1. slot' = [slot EXCEPT ![d][r] = "none"] /\ slot'[d][r] = "none"
    BY <1>1, <1>2 DEF Evicted, TypeOK
  <2>2. TypeOK'
    BY <1>1, <1>2, <1>4, <2>1 DEF TypeOK, durable, history
  <2>3. Frame(d, r)
    BY <1>1, <1>2, <1>4, <2>1 DEF Frame, TypeOK, durable, history
  <2>4. Solo(r)'
    BY <1>1, <1>2, <1>4 DEF Solo, durable, history
  <2>5. Pair(d, r)'
    <3>1. mem[d][r].st # "pending"
      BY <1>1, <1>2 DEF Pair, Owned, Solo, Active
    <3>2. Owned(d, r)' /\ Deletes(d, r)' /\ Replies(d, r)'
      BY <1>1, <1>2, <1>4 DEF Pair, Owned, Deletes, Replies, durable
    <3> QED
      BY <1>1, <1>2, <1>4, <2>1, <3>1, <3>2 DEF Pair, durable, history
  <2>6. Capped(d)'
    <3>1. op'[d].pc = "idle" /\ \A q \in Runs : q # r => slot'[d][q] = slot[d][q]
      BY <1>1, <2>3 DEF Frame
    <3> QED
      BY <2>1, <2>2, <3>1, CappedKept
  <2>7. Evolved(d, r)
    BY <1>1, <1>2, <1>4 DEF Evolved, durable, history
  <2> QED
    BY <2>2, <2>3, <2>4, <2>5, <2>6, <2>7, FrameStep
<1> QED
  BY <1>3, <1>4 DEF Completes

LEMMA DeleteStep ==
  ASSUME IInv, NEW d \in Daemons, NEW r \in Runs, Delete(d, r)
  PROVE  IInv'
<1>1. /\ op[d].pc = "idle" /\ snap[r].st # "none" /\ lease[r] \in {Nobody, d}
      /\ lease' = [lease EXCEPT ![r] = d]
      /\ UNCHANGED <<durable, mem, slot, drive, crashes, faults, history>>
  BY DEF Delete, At
<1>2. TypeOK /\ Solo(r) /\ Pair(d, r) /\ created[r] \in Nat /\ starts[r] \in Nat
  BY DEF IInv, TypeOK
<1>3. /\ op' \in [Daemons -> Op] /\ op'[d].pc = "mark" /\ op'[d].run = r
      /\ \A e \in Daemons : e # d => op'[e] = op[e]
  BY <1>2, Enters DEF Delete, Pcs
<1>4. TypeOK'
  BY <1>1, <1>2, <1>3 DEF TypeOK, durable, history
<1>5. Frame(d, r)
  BY <1>1, <1>2, <1>3 DEF Frame, TypeOK, durable, history
<1>6. Solo(r)'
  BY <1>1, <1>2 DEF Solo, durable, history
<1>7. lease'[r] = d /\ created[r] > 0
  BY <1>1, <1>2 DEF TypeOK, Solo, NoRun
<1>8. Pair(d, r)'
  <2>1. Owned(d, r)' /\ Deletes(d, r)' /\ Replies(d, r)'
    BY <1>1, <1>2, <1>3, <1>7 DEF Pair, Owned, Deletes, Replies, durable, history
  <2> QED
    BY <1>1, <1>2, <2>1 DEF Pair, durable, history
<1>9. Capped(d)'
  BY <1>1, <1>3, <1>4, CappedKept
<1>10. Evolved(d, r)
  BY <1>1, <1>2 DEF Evolved, durable, history
<1> QED
  BY <1>4, <1>5, <1>6, <1>8, <1>9, <1>10, FrameStep

LEMMA MarkStep ==
  ASSUME IInv, NEW d \in Daemons, Mark(d)
  PROVE  IInv'
<1>1. /\ op[d].pc = "mark" /\ tomb' = tomb \cup {op[d].run} /\ TypeOK
      /\ UNCHANGED <<snap, lease, mem, slot, drive, crashes, faults, history>>
  BY DEF Mark, At, IInv
<1>2. PICK r \in Runs : r = op[d].run
  BY <1>1 DEF TypeOK
<1>3. Solo(r) /\ Pair(d, r) /\ created[r] \in Nat /\ starts[r] \in Nat
  BY <1>1 DEF IInv, TypeOK
<1>4. /\ op' \in [Daemons -> Op] /\ op'[d].pc = "unlink" /\ op'[d].run = r
      /\ \A e \in Daemons : e # d => op'[e] = op[e]
  BY <1>1, <1>2, Goes DEF Mark, Pcs
<1>5. TypeOK'
  BY <1>1, <1>2, <1>4 DEF TypeOK, history
<1>6. Frame(d, r)
  BY <1>1, <1>2, <1>4 DEF Frame, history
<1>7. lease[r] = d /\ created[r] > 0 /\ snap[r].st # "none" /\ r \in tomb'
  BY <1>1, <1>2, <1>3 DEF Pair, Deletes
<1>8. Solo(r)'
  BY <1>1, <1>3, <1>7 DEF Solo, history
<1>9. Pair(d, r)'
  <2>1. Owned(d, r)' /\ Deletes(d, r)' /\ Replies(d, r)'
    BY <1>1, <1>3, <1>4, <1>7 DEF Pair, Owned, Deletes, Replies, history
  <2> QED
    BY <1>1, <1>3, <1>7, <2>1 DEF Pair, history
<1>10. Capped(d)'
  BY <1>1, <1>4, <1>5, CappedKept
<1>11. Evolved(d, r)
  BY <1>1, <1>3, <1>7 DEF Evolved, history
<1> QED
  BY <1>5, <1>6, <1>8, <1>9, <1>10, <1>11, FrameStep

LEMMA UnlinkStep ==
  ASSUME IInv, NEW d \in Daemons, Unlink(d)
  PROVE  IInv'
<1>1. /\ op[d].pc = "unlink" /\ snap' = [snap EXCEPT ![op[d].run] = NoRun] /\ TypeOK
      /\ UNCHANGED <<tomb, lease, mem, slot, drive, crashes, faults, history>>
  BY DEF Unlink, At, IInv
<1>2. PICK r \in Runs : r = op[d].run
  BY <1>1 DEF TypeOK
<1>3. Solo(r) /\ Pair(d, r) /\ created[r] \in Nat /\ starts[r] \in Nat
  BY <1>1 DEF IInv, TypeOK
<1>4. /\ op' \in [Daemons -> Op] /\ op'[d].pc = "unlock" /\ op'[d].run = r
      /\ \A e \in Daemons : e # d => op'[e] = op[e]
  BY <1>1, <1>2, Goes DEF Unlink, Pcs
<1>5. snap'[r] = NoRun /\ NoRun.st = "none" /\ NoRun.approved = {}
  BY <1>1, <1>2 DEF TypeOK, NoRun
<1>6. TypeOK'
  BY <1>1, <1>2, <1>4, <1>5, Constants DEF TypeOK, history
<1>7. Frame(d, r)
  BY <1>1, <1>2, <1>4 DEF Frame, TypeOK, history
<1>8. lease[r] = d /\ created[r] > 0 /\ snap[r].st # "none" /\ r \in tomb
  BY <1>1, <1>2, <1>3 DEF Pair, Deletes
<1>9. Solo(r)'
  BY <1>1, <1>3, <1>5, <1>8 DEF Solo, history
<1>10. Pair(d, r)'
  <2>1. Owned(d, r)' /\ Deletes(d, r)' /\ Replies(d, r)'
    BY <1>1, <1>3, <1>4, <1>5, <1>8 DEF Pair, Owned, Deletes, Replies, history
  <2> QED
    BY <1>1, <1>3, <1>5, <1>8, <2>1 DEF Pair, history
<1>11. Capped(d)'
  BY <1>1, <1>4, <1>6, CappedKept
<1>12. Evolved(d, r)
  BY <1>1, <1>3, <1>5, <1>8 DEF Evolved, history
<1> QED
  BY <1>6, <1>7, <1>9, <1>10, <1>11, <1>12, FrameStep

LEMMA UnlockStep ==
  ASSUME IInv, NEW d \in Daemons, Unlock(d)
  PROVE  IInv'
<1>1. op[d].pc = "unlock" /\ TypeOK /\ UNCHANGED <<durable, slot, drive, crashes, faults, history>>
  BY DEF Unlock, At, IInv
<1>2. PICK r \in Runs : r = op[d].run
  BY <1>1 DEF TypeOK
<1>3. Solo(r) /\ Pair(d, r) /\ created[r] \in Nat /\ starts[r] \in Nat
  BY <1>1 DEF IInv, TypeOK
<1>4. /\ op' \in [Daemons -> Op] /\ op'[d].pc = "idle"
      /\ \A e \in Daemons : e # d => op'[e] = op[e]
  BY <1>1, ReturnsIdle DEF Unlock
<1>5. lease' = [lease EXCEPT ![r] = Nobody] /\ mem' = [mem EXCEPT ![d][r] = NoRun]
  BY <1>2 DEF Unlock
<1>6. lease'[r] = Nobody /\ mem'[d][r] = NoRun /\ NoRun.st = "none"
  BY <1>1, <1>5 DEF TypeOK, NoRun
<1>7. TypeOK'
  BY <1>1, <1>4, <1>5, Constants DEF TypeOK, durable, history
<1>8. Frame(d, r)
  BY <1>1, <1>2, <1>4, <1>5 DEF Frame, TypeOK, durable, history
<1>9. lease[r] = d /\ created[r] > 0 /\ snap[r] = NoRun /\ r \in tomb
  BY <1>1, <1>2, <1>3 DEF Pair, Deletes
<1>10. Solo(r)'
  BY <1>1, <1>3 DEF Solo, durable, history
<1>11. Pair(d, r)'
  <2>1. Owned(d, r)' /\ Deletes(d, r)' /\ Replies(d, r)'
    BY <1>4, <1>6 DEF Owned, Deletes, Replies, Active
  <2> QED
    BY <1>1, <1>3, <1>6, <1>9, <2>1 DEF Pair, durable, history
<1>12. Capped(d)'
  BY <1>1, <1>4, <1>7, CappedKept
<1>13. Evolved(d, r)
  BY <1>1, <1>3, <1>9 DEF Evolved, durable, history
<1> QED
  BY <1>7, <1>8, <1>10, <1>11, <1>12, <1>13, FrameStep

-----------------------------------------------------------------------------
(* The record of a request is created once, and a daemon that dies leaves  *)
(* nothing but the disk.                                                   *)
LEMMA CreateStep ==
  ASSUME IInv, NEW d \in Daemons, Create(d)
  PROVE  IInv'
<1>1. op[d].pc = "create" /\ TypeOK
  BY DEF Create, At, IInv
<1>2. PICK r \in Runs : r = op[d].run
  BY <1>1 DEF TypeOK
<1>3. /\ lease[r] = Nobody /\ snap[r].st = "none" /\ r \notin tomb
      /\ UNCHANGED crashes /\ Returns(d)
  BY <1>2 DEF Create, Unknown
<1>4. Solo(r) /\ Pair(d, r) /\ created[r] \in Nat /\ starts[r] \in Nat
  BY <1>1 DEF IInv, TypeOK
<1>5. /\ op' \in [Daemons -> Op] /\ op'[d].pc = "idle"
      /\ \A e \in Daemons : e # d => op'[e] = op[e]
  BY <1>1, <1>3, ReturnsIdle
<1>6. /\ created[r] = 0 /\ snap[r] = NoRun /\ starts[r] = 0 /\ asked[r] = {} /\ acked[r] = {}
      /\ drive[d][r] = NoDrive
  BY <1>3, <1>4 DEF Solo, Pair
<1>7. CASE SaveFails /\ UNCHANGED <<durable, lease, mem, slot, drive, history>>
  <2>1. faults' \in Nat
    BY <1>1, <1>7, FaultsCounted
  <2>2. TypeOK'
    BY <1>1, <1>3, <1>5, <1>7, <2>1 DEF TypeOK, durable, history
  <2>3. Frame(d, r)
    BY <1>1, <1>2, <1>5, <1>7 DEF Frame, durable, history
  <2>4. Replies(d, r)'
    BY <1>5 DEF Replies
  <2> QED
    BY <1>1, <1>5, <1>7, <2>2, <2>3, <2>4, QuietStep DEF durable, history
<1>8. CASE /\ Written(r, Accepted) /\ Claims(d, r, Accepted)
           /\ Held(d, r) /\ Schedule(d, r)
           /\ created' = [created EXCEPT ![r] = @ + 1]
           /\ UNCHANGED <<faults, starts, asked, consented, acked>>
  <2>1. /\ snap' = [snap EXCEPT ![r] = Accepted] /\ mem' = [mem EXCEPT ![d][r] = Accepted]
        /\ lease' = [lease EXCEPT ![r] = d] /\ tomb' = tomb \ {r}
        /\ slot' = [slot EXCEPT ![d][r] = "held"]
        /\ drive' = [drive EXCEPT ![d][r] = Scheduled]
    BY <1>6, <1>8 DEF Written, Claims, Held, Schedule, NoDrive
  <2>2. /\ snap'[r] = Accepted /\ mem'[d][r] = Accepted /\ lease'[r] = d /\ r \notin tomb'
        /\ slot'[d][r] = "held" /\ drive'[d][r] = Scheduled /\ created'[r] = 1
    BY <1>1, <1>6, <1>8, <2>1 DEF TypeOK
  <2>3. TypeOK'
    <3>1. created' \in [Runs -> Nat] /\ drive' \in [Daemons -> [Runs -> Drive]]
      BY <1>1, <1>8, <2>1, Constants DEF TypeOK
    <3> QED
      BY <1>1, <1>3, <1>5, <1>8, <2>1, <3>1, Constants DEF TypeOK
  <2>4. Frame(d, r)
    BY <1>1, <1>2, <1>5, <1>8, <2>1 DEF Frame, TypeOK
  <2>5. Solo(r)'
    BY <1>6, <1>8, <2>2, Constants, NamesAssumption, <1>4 DEF Solo, Functional
  <2>6. Pair(d, r)'
    <3>1. Owned(d, r)' /\ Deletes(d, r)' /\ Replies(d, r)'
      BY <1>5, <2>2 DEF Owned, Deletes, Replies
    <3> QED
      BY <2>2, <3>1, Constants DEF Pair
  <2>7. Capped(d)'
    <3>1. \A q \in Runs : q # r => slot'[d][q] = slot[d][q]
      BY <2>4 DEF Frame
    <3> QED
      BY <1>1, <1>5, <2>3, <3>1, CappedAdded
  <2>8. Evolved(d, r)
    BY <1>3, <1>4, <1>6, <1>8, <2>2 DEF Evolved
  <2> QED
    BY <2>3, <2>4, <2>5, <2>6, <2>7, <2>8, FrameStep
<1> QED
  BY <1>2, <1>7, <1>8 DEF Create

LEMMA CrashStep ==
  ASSUME IInv, NEW d \in Daemons, Crash(d)
  PROVE  IInv'
<1>1. /\ lease' = [r \in Runs |-> IF lease[r] = d THEN Nobody ELSE lease[r]]
      /\ mem' = [mem EXCEPT ![d] = [r \in Runs |-> NoRun]]
      /\ slot' = [slot EXCEPT ![d] = [r \in Runs |-> "none"]]
      /\ drive' = [drive EXCEPT ![d] = [r \in Runs |-> NoDrive]]
      /\ crashes' = crashes + 1 /\ UNCHANGED <<durable, faults, history>> /\ TypeOK
  BY DEF Crash, IInv
<1>2. /\ op' \in [Daemons -> Op] /\ op'[d].pc = "idle"
      /\ \A e \in Daemons : e # d => op'[e] = op[e]
  BY <1>1, ReturnsIdle DEF Crash
<1>3. \A r \in Runs : mem'[d][r] = NoRun /\ slot'[d][r] = "none" /\ drive'[d][r] = NoDrive
  BY <1>1 DEF TypeOK
<1>4. \A e \in Daemons, r \in Runs : e # d =>
        mem'[e][r] = mem[e][r] /\ slot'[e][r] = slot[e][r] /\ drive'[e][r] = drive[e][r]
  BY <1>1 DEF TypeOK
<1>5. TypeOK'
  <2>1. [r \in Runs |-> NoRun] \in [Runs -> Snapshot] /\ [r \in Runs |-> NoDrive] \in [Runs -> Drive]
    BY Constants
  <2>2. /\ lease' \in [Runs -> Daemons \cup {Nobody}] /\ mem' \in [Daemons -> [Runs -> Snapshot]]
        /\ slot' \in [Daemons -> [Runs -> {"none", "held", "tracked"}]]
        /\ drive' \in [Daemons -> [Runs -> Drive]] /\ crashes' \in Nat
    BY <1>1, <2>1 DEF TypeOK
  <2> QED
    BY <1>1, <1>2, <2>2 DEF TypeOK, durable, history
<1>6. ASSUME NEW r \in Runs PROVE Solo(r)'
  BY <1>1, <1>6 DEF IInv, Solo, durable, history
<1>7. ASSUME NEW e \in Daemons, NEW r \in Runs PROVE Pair(e, r)'
  <2>1. CASE e = d
    <3>1. Owned(e, r)' /\ Deletes(e, r)' /\ Replies(e, r)'
      BY <1>2, <1>3, <2>1 DEF Owned, Deletes, Replies, NoRun, Active
    <3> QED
      BY <1>3, <2>1, <3>1 DEF Pair, NoDrive
  <2>2. CASE e # d
    <3>1. lease[r] = e => lease'[r] = e
      BY <1>1, <2>2 DEF TypeOK
    <3>2. Pair(e, r)
      BY DEF IInv
    <3>3. Owned(e, r)' /\ Deletes(e, r)' /\ Replies(e, r)'
      BY <1>1, <1>2, <1>4, <2>2, <3>1, <3>2 DEF Pair, Owned, Deletes, Replies, durable, history
    <3> QED
      BY <1>1, <1>4, <2>2, <3>2, <3>3 DEF Pair, durable, history
  <2> QED
    BY <2>1, <2>2
<1>8. ASSUME NEW e \in Daemons PROVE Capped(e)'
  <2>1. CASE e = d
    <3>1. Used(e)' = {}
      BY <1>3, <2>1 DEF Used
    <3> QED
      BY <1>2, <2>1, <3>1, FS_EmptySet, BoundsAssumption DEF Capped
  <2>2. CASE e # d
    <3>1. Used(e)' = Used(e) /\ op'[e] = op[e]
      BY <1>2, <1>4, <2>2 DEF Used
    <3> QED
      BY <3>1 DEF IInv, Capped
  <2> QED
    BY <2>1, <2>2
<1> QED
  BY <1>5, <1>6, <1>7, <1>8 DEF IInv

LEMMA NextStep == IInv /\ [Next]_vars => IInv'
<1> SUFFICES ASSUME IInv, [Next]_vars PROVE IInv'
  OBVIOUS
<1>1. CASE UNCHANGED vars
  BY <1>1 DEF vars, IInv, TypeOK, Solo, Pair, Owned, Deletes, Replies, Capped, Used
<1>2. ASSUME NEW d \in Daemons, Continue(d) PROVE IInv'
  BY <1>2, CreateStep, CreateRefusedStep, LookStep, ClaimActionStep, SaveStep, CancelStep,
     MarkStep, UnlinkStep, UnlockStep DEF Continue
<1>3. ASSUME NEW d \in Daemons, Crash(d) PROVE IInv'
  BY <1>3, CrashStep
<1>4. ASSUME NEW d \in Daemons, NEW r \in Runs, Call(d, r) PROVE IInv'
  BY <1>4, AcceptStep, RecoverStep, RespondStep, StopStep, ColdStopStep, DeleteStep DEF Call
<1>5. ASSUME NEW d \in Daemons, NEW r \in Runs, DriveStep(d, r) PROVE IInv'
  BY <1>5, DriveStartsStep, DriveAsksStep, DriveAdmitsStep, DriveThrowsStep, DriveFailsStep,
     DriveEndsStep DEF DriveStep
<1>6. ASSUME NEW d \in Daemons, NEW r \in Runs, Completes(d, r) PROVE IInv'
  BY <1>6, CompletesStep
<1> QED
  BY <1>1, <1>2, <1>3, <1>4, <1>5, <1>6 DEF Next

(* The invariant holds in every state of every behaviour of the lifecycle  *)
(* driver: any daemons, any calls, any crashes and failed saves.           *)
THEOREM Invariant == Spec => []IInv
<1>1. Init => IInv
  BY InvariantHolds
<1>2. IInv /\ [Next]_vars => IInv'
  BY NextStep
<1> QED
  BY <1>1, <1>2, PTL DEF Spec

(* Every variable keeps its type, and a record that has been admitted has  *)
(* no preparation revision (workflow-manager.ts, admitPreparedRun).        *)
THEOREM TypeCorrect == Spec => []TypeOK
<1>1. IInv => TypeOK
  BY DEF IInv
<1> QED
  BY <1>1, Invariant, PTL

(* prepareRun creates one record for a request, whatever is retransmitted  *)
(* or deleted meanwhile, and its run is admitted once.                     *)
THEOREM RequestAcceptedOnce == Spec => []AcceptedOnce
<1>1. IInv => AcceptedOnce
  <2> SUFFICES ASSUME IInv, NEW r \in Runs PROVE created[r] <= 1 /\ starts[r] <= created[r]
    BY DEF AcceptedOnce
  <2>1. Solo(r) /\ created[r] \in Nat /\ starts[r] \in Nat
    BY DEF IInv, TypeOK
  <2> QED
    BY <2>1 DEF Solo
<1> QED
  BY <1>1, Invariant, PTL

(* A script that needs a backend starts only after the user has accepted   *)
(* the question about it (WorkflowLifecycle.drive and respond).            *)
THEOREM ConsentBeforeStart == Spec => []StartsWithConsent
<1>1. IInv => StartsWithConsent
  BY DEF IInv, Solo, StartsWithConsent
<1> QED
  BY <1>1, Invariant, PTL

(* An acknowledged answer stays on the record, alone for its question      *)
(* (respond, updatePreparation, mergeWorkflowSetupResponses).              *)
THEOREM AnswersKept == Spec => []AcknowledgedAnswersKept
<1>1. IInv => AcknowledgedAnswersKept
  BY DEF IInv, Solo, Functional, AcknowledgedAnswersKept
<1> QED
  BY <1>1, Invariant, PTL

(* What a manager prepares is its own, and is what the disk has, whichever *)
(* saves fail (claimPreparedRun and its callers' rollbacks).               *)
THEOREM PreparedRunsInSync == Spec => []PreparedInSync
<1>1. IInv => PreparedInSync
  BY DEF IInv, Pair, Owned, Active, PreparedInSync
<1> QED
  BY <1>1, Invariant, PTL

(* The active-run registry keeps its cap and holds no slot of a run that   *)
(* is settled (ActiveRunRegistry and its callers).                         *)
THEOREM SlotAccounting == Spec => []SlotsAccounted
<1>1. IInv => SlotsAccounted
  BY DEF IInv, Pair, Capped, Used, SlotsAccounted
<1> QED
  BY <1>1, Invariant, PTL

(* A drive and a run in preparation meet only inside a slot (schedule).    *)
THEOREM DrivesHaveSlots == Spec => []DrivesInSlot
<1>1. IInv => DrivesInSlot
  BY DEF IInv, Pair, DrivesInSlot
<1> QED
  BY <1>1, Invariant, PTL

-----------------------------------------------------------------------------
(* The record only goes forward.                                           *)
Forward == \A r \in Runs : Evolves(snap[r], snap'[r])

LEMMA ForwardAt ==
  ASSUME IInv, NEW r \in Runs, NEW s, snap' = [snap EXCEPT ![r] = s], Evolves(snap[r], s)
  PROVE  Forward
<1>1. \A q \in Runs : snap'[q] = snap[q] \/ (q = r /\ snap'[q] = s)
  BY DEF IInv, TypeOK
<1> QED
  BY <1>1 DEF Forward, Evolves

LEMMA ForwardUnchanged == ASSUME snap' = snap PROVE Forward
BY DEF Forward, Evolves

LEMMA CreateForward ==
  ASSUME IInv, NEW d \in Daemons, Create(d)
  PROVE  Forward
<1>1. op[d].run \in Runs /\ snap[op[d].run].st = "none"
  BY DEF Create, At, Unknown, IInv, TypeOK
<1>2. snap' = [snap EXCEPT ![op[d].run] = Accepted] \/ snap' = snap
  BY DEF Create, Written, durable
<1>3. Evolves(snap[op[d].run], Accepted)
  BY <1>1 DEF Evolves
<1> QED
  BY <1>1, <1>2, <1>3, ForwardAt, ForwardUnchanged

LEMMA SaveForward ==
  ASSUME IInv, NEW d \in Daemons, Save(d)
  PROVE  Forward
<1>1. PICK r \in Runs : r = op[d].run
  BY DEF Save, At, IInv, TypeOK
<1>2. CASE UNCHANGED snap
  BY <1>2, ForwardUnchanged
<1>3. CASE ~Claimable(d, r)
  BY <1>1, <1>2, <1>3 DEF Save, KeepsClaim, durable
<1>4. CASE Claimable(d, r)
  <2>1. op[d].pc # "unlock"
    BY DEF Save, At
  <2>2. Claimed(d, r) = snap[r] /\ snap[r].st = "pending" /\ snap[r] \in Snapshot
    BY <1>4, <2>1, ClaimedIsRecord
  <2>3. PICK m \in Snapshot : m = snap[r]
    BY <2>2
  <2> DEFINE a == op[d].seen.approved \cup {op[d].seen.ask}
             mine == [id |-> op[d].id, verdict |-> op[d].verdict]
             s == [m EXCEPT !.rev = m.rev + 1, !.ask = NoKey, !.approved = a,
                            !.answers = m.answers \cup {mine}]
  <2>4. UNCHANGED snap \/ snap' = [snap EXCEPT ![r] = s]
    BY <1>1, <2>2, <2>3 DEF Save, Written, SaveThrows, KeepsClaim, durable
  <2>5. s.st = m.st /\ s.rev = m.rev + 1 /\ s.answers = m.answers \cup {mine}
    BY DEF Snapshot
  <2>6. Evolves(m, s)
    <3> HIDE DEF s
    <3> QED
      BY <2>2, <2>3, <2>5 DEF Evolves
  <2> HIDE DEF s
  <2> QED
    BY <1>2, <2>3, <2>4, <2>6, ForwardAt
<1> QED
  BY <1>3, <1>4

LEMMA CancelForward ==
  ASSUME IInv, NEW d \in Daemons, Cancel(d)
  PROVE  Forward
<1>1. PICK r \in Runs : r = op[d].run
  BY DEF Cancel, At, IInv, TypeOK
<1>2. CASE UNCHANGED snap
  BY <1>2, ForwardUnchanged
<1>3. CASE ~Claimable(d, r)
  BY <1>1, <1>2, <1>3 DEF Cancel, KeepsClaim, durable
<1>4. CASE Claimable(d, r)
  <2>1. op[d].pc # "unlock"
    BY DEF Cancel, At
  <2>2. Claimed(d, r) = snap[r] /\ snap[r].st = "pending" /\ snap[r] \in Snapshot
    BY <1>4, <2>1, ClaimedIsRecord
  <2>3. PICK m \in Snapshot : m = snap[r]
    BY <2>2
  <2> DEFINE mine == [id |-> op[d].id, verdict |-> op[d].verdict]
             s == [m EXCEPT !.st = "aborted", !.answers = m.answers \cup {mine}]
  <2>4. UNCHANGED snap \/ snap' = [snap EXCEPT ![r] = s]
    BY <1>1, <2>2, <2>3 DEF Cancel, Settled, Written, SaveThrows, KeepsClaim, durable
  <2>5. s.st = "aborted" /\ s.answers = m.answers \cup {mine}
    BY DEF Snapshot
  <2> HIDE DEF s
  <2>6. Evolves(m, s)
    BY <2>2, <2>3, <2>5 DEF Evolves
  <2> QED
    BY <1>2, <2>3, <2>4, <2>6, ForwardAt
<1> QED
  BY <1>3, <1>4

LEMMA DriveForward ==
  ASSUME IInv, NEW d \in Daemons, NEW r \in Runs, DriveStep(d, r)
  PROVE  Forward
<1>1. CASE UNCHANGED snap
  BY <1>1, ForwardUnchanged
<1>2. CASE DriveStarts(d, r) \/ DriveThrows(d, r) \/ DriveEnds(d, r)
  BY <1>1, <1>2 DEF DriveStarts, DriveThrows, DriveEnds, durable
<1>3. CASE ~Claimable(d, r) /\ (DriveAsks(d, r) \/ DriveAdmits(d, r) \/ DriveFails(d, r))
  BY <1>1, <1>3 DEF DriveAsks, DriveAdmits, DriveFails, KeepsClaim, durable
<1>4. CASE Claimable(d, r) /\ (DriveAsks(d, r) \/ DriveAdmits(d, r) \/ DriveFails(d, r))
  <2>1. op[d].pc # "unlock"
    BY <1>4 DEF DriveAsks, DriveAdmits, DriveFails, Driving, At
  <2>2. Claimed(d, r) = snap[r] /\ snap[r].st = "pending" /\ snap[r] \in Snapshot
    BY <1>4, <2>1, ClaimedIsRecord
  <2>3. PICK m \in Snapshot : m = snap[r]
    BY <2>2
  <2>4. CASE DriveAsks(d, r)
    <3> DEFINE s(k) == [m EXCEPT !.rev = m.rev + 1, !.ask = k, !.approved = drive[d][r].approved]
    <3>1. PICK k \in Keys : UNCHANGED snap \/ snap' = [snap EXCEPT ![r] = s(k)]
      BY <2>2, <2>3, <2>4 DEF DriveAsks, Written, SaveThrows, KeepsClaim, durable
    <3>2. s(k).st = m.st /\ s(k).rev = m.rev + 1 /\ s(k).answers = m.answers
      BY DEF Snapshot
    <3> HIDE DEF s
    <3>3. Evolves(m, s(k))
      BY <2>2, <2>3, <3>2 DEF Evolves
    <3> QED
      BY <1>1, <2>3, <3>1, <3>3, ForwardAt
  <2>5. CASE DriveAdmits(d, r)
    <3>1. UNCHANGED snap \/ snap' = [snap EXCEPT ![r] = Admitted(m)]
      BY <2>2, <2>3, <2>5 DEF DriveAdmits, Written, SaveThrows, KeepsClaim, durable
    <3>2. Evolves(m, Admitted(m))
      BY <2>2, <2>3, AdmittedRecord DEF Evolves
    <3> QED
      BY <1>1, <2>3, <3>1, <3>2, ForwardAt
  <2>6. CASE DriveFails(d, r)
    <3>1. UNCHANGED snap \/ snap' = [snap EXCEPT ![r] = [m EXCEPT !.st = "failed"]]
      BY <2>2, <2>3, <2>6 DEF DriveFails, Settled, Written, SaveThrows, KeepsClaim, durable
    <3>2. Evolves(m, [m EXCEPT !.st = "failed"])
      <4> DEFINE s == [m EXCEPT !.st = "failed"]
      <4>1. s.st = "failed" /\ s.answers = m.answers
        BY DEF Snapshot
      <4> HIDE DEF s
      <4>2. Evolves(m, s)
        BY <2>2, <2>3, <4>1 DEF Evolves
      <4> QED
        BY <4>2 DEF s
    <3> QED
      BY <1>1, <2>3, <3>1, <3>2, ForwardAt
  <2> QED
    BY <1>4, <2>4, <2>5, <2>6
<1> QED
  BY <1>2, <1>3, <1>4 DEF DriveStep

(* A stop or the end of the execution.                                     *)
LEMMA StoppedForward ==
  ASSUME IInv, NEW r \in Runs, NEW st \in {"done", "failed", "aborted"},
         snap[r].st \in Active, snap[r].st = "pending" => st # "done",
         snap[r].st = "running" => st # "failed",
         snap' = [snap EXCEPT ![r] = [snap[r] EXCEPT !.st = st]]
  PROVE  Forward
<1>1. PICK m \in Snapshot : m = snap[r]
  BY DEF IInv, TypeOK
<1>2. PICK s \in Snapshot : s = [m EXCEPT !.st = st] /\ s.st = st /\ s.answers = m.answers
  BY WithStatus
<1>3. Evolves(m, s)
  BY <1>1, <1>2 DEF Evolves, Active
<1> QED
  BY <1>1, <1>2, <1>3, ForwardAt

LEMMA StopsForward ==
  ASSUME IInv, NEW d \in Daemons, NEW r \in Runs,
         Stop(d, r) \/ ColdStop(d, r) \/ Completes(d, r)
  PROVE  Forward
<1>1. op[d].pc = "idle" /\ Pair(d, r)
  BY DEF Stop, ColdStop, Completes, At, IInv
<1>2. mem[d][r].st \in Active => mem[d][r] = snap[r]
  BY <1>1 DEF Pair, Owned
<1>3. CASE Stop(d, r)
  <2>1. /\ snap[r].st \in Active /\ "aborted" \in {"done", "failed", "aborted"}
        /\ snap' = [snap EXCEPT ![r] = [snap[r] EXCEPT !.st = "aborted"]]
    BY <1>2, <1>3 DEF Stop, Settled, Written, Active
  <2> QED
    BY <2>1, StoppedForward
<1>4. CASE ColdStop(d, r)
  <2>1. /\ snap[r].st \in Active /\ "aborted" \in {"done", "failed", "aborted"}
        /\ snap' = [snap EXCEPT ![r] = [snap[r] EXCEPT !.st = "aborted"]]
    BY <1>4 DEF ColdStop, Written, Active
  <2> QED
    BY <2>1, StoppedForward
<1>5. CASE Completes(d, r)
  <2>1. CASE UNCHANGED durable
    BY <2>1, ForwardUnchanged DEF durable
  <2>2. CASE mem[d][r].st = "running" /\ Settled(d, r, [mem[d][r] EXCEPT !.st = "done"])
    <3>1. /\ snap[r].st = "running" /\ "done" \in {"done", "failed", "aborted"}
          /\ snap[r].st \in Active
          /\ snap' = [snap EXCEPT ![r] = [snap[r] EXCEPT !.st = "done"]]
      BY <1>2, <2>2 DEF Settled, Written, Active
    <3> QED
      BY <3>1, StoppedForward
  <2> QED
    BY <1>5, <2>1, <2>2 DEF Completes
<1> QED
  BY <1>3, <1>4, <1>5

LEMMA NextForward == IInv /\ [Next]_vars => [Forward]_vars
<1> SUFFICES ASSUME IInv, [Next]_vars PROVE [Forward]_vars
  OBVIOUS
<1>1. CASE UNCHANGED vars
  BY <1>1
<1>2. CASE UNCHANGED snap
  BY <1>2, ForwardUnchanged
<1>3. ASSUME NEW d \in Daemons, Continue(d) PROVE Forward
  <2>1. CASE Create(d) \/ Save(d) \/ Cancel(d)
    BY <2>1, CreateForward, SaveForward, CancelForward
  <2>2. CASE CreateRefused(d) \/ Look(d) \/ Claim(d) \/ Mark(d) \/ Unlock(d)
    BY <2>2, ForwardUnchanged DEF CreateRefused, Look, Looks, Claim, Mark, Unlock, durable
  <2>3. CASE Unlink(d)
    <3>1. op[d].run \in Runs /\ snap' = [snap EXCEPT ![op[d].run] = NoRun]
      BY <2>3 DEF Unlink, At, IInv, TypeOK
    <3>2. Evolves(snap[op[d].run], NoRun)
      BY DEF Evolves
    <3> QED
      BY <3>1, <3>2, ForwardAt
  <2> QED
    BY <1>3, <2>1, <2>2, <2>3 DEF Continue
<1>4. ASSUME NEW d \in Daemons, Crash(d) PROVE Forward
  BY <1>4, ForwardUnchanged DEF Crash, durable
<1>5. ASSUME NEW d \in Daemons, NEW r \in Runs, Call(d, r) PROVE Forward
  <2>1. CASE Stop(d, r) \/ ColdStop(d, r)
    BY <2>1, StopsForward
  <2>2. CASE Accept(d, r) \/ Recover(d, r) \/ Respond(d, r) \/ Delete(d, r)
    BY <2>2, ForwardUnchanged DEF Accept, Recover, Looks, Respond, Delete, durable
  <2> QED
    BY <1>5, <2>1, <2>2 DEF Call
<1>6. ASSUME NEW d \in Daemons, NEW r \in Runs, DriveStep(d, r) PROVE Forward
  BY <1>6, DriveForward
<1>7. ASSUME NEW d \in Daemons, NEW r \in Runs, Completes(d, r) PROVE Forward
  BY <1>7, StopsForward
<1> QED
  BY <1>1, <1>3, <1>4, <1>5, <1>6, <1>7 DEF Next

(* Answers are not withdrawn, revisions grow by one, an outcome is final,  *)
(* and no step brings a deleted run back (updatePreparation,               *)
(* settlePreparedRun, admitPreparedRun, stop, stopPersistedRun).           *)
THEOREM RecordGoesForward == Spec => RecordEvolves
<1>1. IInv /\ [Next]_vars => [\A r \in Runs : Evolves(snap[r], snap'[r])]_vars
  BY NextForward DEF Forward
<1> QED
  BY <1>1, Invariant, PTL DEF Spec, RecordEvolves
=============================================================================
