----------------------- MODULE WorkflowExecutionProofs -----------------------
(***************************************************************************)
(* Proofs about WorkflowExecution, for any number of generations and       *)
(* calls, any limit, retries and hashes.  The inductive invariant IInv     *)
(* has a part for each of: the limiter, what is known of a call by where   *)
(* it stands, and what is known of an execution by how it ended.           *)
(***************************************************************************)
EXTENDS WorkflowExecution, FiniteSetTheorems, TLAPS

\* The limiter: the calls inside are counted, the queue holds calls that wait,
\* each once.
Inside == {c \in Calls : pc[c] \in {"entered", "running", "answered", "leaving"}}
Awake  == {c \in Calls : pc[c] = "woken"}
Counted == active = Cardinality(Inside)
Line ==
    /\ \A i \in 1..Len(queue) : pc[queue[i]] = "queued"
    /\ \A i, j \in 1..Len(queue) : queue[i] = queue[j] => i = j
LimiterInv == Counted /\ Line /\ NoIdleSlot

\* Of a call that is not allocated nothing is known but the journal it starts with.
Fresh ==
    \A c \in Calls : c > seq =>
        /\ pc[c] = None /\ rec[c] = None /\ canc[c] = None
        /\ journal[c] = resume[c]

\* A call is answered from the journal exactly when the journal has it.
Replays == \A c \in Calls : pc[c] = "replaying" => journal[c] = hash[c]
Misses ==
    \A c \in Calls :
        pc[c] \in {"queued", "woken", "entered", "running", "answered"} => journal[c] # hash[c]

\* A run whose status was settled before its manager got the engine's end is
\* aborted, with every call settled; after that end the status is settled.
Quiet ==
    /\ ~Heard /\ script # "settled" => aborted /\ \A c \in Calls : c <= seq => rec[c] # None
    /\ script = "settled" => ~Heard
    /\ status = "completed" => script = "settled"

\* An ended engine has settled the calls it had then; after the end with a
\* checkpoint that waits there is no other.
Ended ==
    /\ end.code # None <=> script \in {"over", "settled"}
    /\ end.code # None => end.seq <= seq /\ \A c \in Calls : c <= end.seq => rec[c] # None
    /\ end.code = "checkpoint_required" => pending # 0 /\ end.seq = seq

\* What the engine has settled, the manager has heard, and journaled.
RecRows    == Heard => \A c \in Calls : rec[c] # None => rows[c].out # None
RecJournal == script # "settled" => \A c \in Calls : rec[c] = "result" => journal[c] = hash[c]

\* An acknowledged cancellation.
Told ==
    \A c \in Calls : canc[c] = "acked" =>
        /\ rec[c] = "cancelled"
        /\ rows[c].out = "cancelled" \/ (status = "completed" /\ c > end.seq)
        /\ pc[c] \in {"leaving", "done"}

RecordInv ==
    /\ Fresh /\ Replays /\ Misses /\ Quiet /\ Ended /\ RecRows /\ RecJournal /\ Told
    /\ DenseManifest /\ ResultsJournaled

IInv == TypeOK /\ LimiterInv /\ RecordInv

Places == {None, "replaying", "queued", "woken", "entered",
           "running", "answered", "leaving", "asking", "done"}

-----------------------------------------------------------------------------
(* Finite sets of calls *)

LEMMA CallsFinite == IsFiniteSet(Calls) /\ \A S \in SUBSET Calls : IsFiniteSet(S) /\ Cardinality(S) \in Nat
<1>1. IsFiniteSet(Calls)
  BY FS_Interval, BoundsAssumption DEF Calls
<1>2. ASSUME NEW S \in SUBSET Calls PROVE IsFiniteSet(S) /\ Cardinality(S) \in Nat
  BY <1>1, FS_Subset, FS_CardinalityType
<1> QED
  BY <1>1, <1>2

LEMMA OneMore ==
  ASSUME NEW S \in SUBSET Calls, NEW c \in Calls, c \notin S
  PROVE  Cardinality(S \cup {c}) = Cardinality(S) + 1
BY CallsFinite, FS_AddElement

LEMMA OneLess ==
  ASSUME NEW S \in SUBSET Calls, NEW c \in S
  PROVE  Cardinality(S \ {c}) = Cardinality(S) - 1 /\ Cardinality(S) >= 1
<1>1. IsFiniteSet(S) /\ Cardinality(S) \in Nat
  BY CallsFinite
<1>2. Cardinality(S \ {c}) = Cardinality(S) - 1
  BY <1>1, FS_RemoveElement
<1>3. Cardinality(S \ {c}) \in Nat
  BY CallsFinite
<1> QED
  BY <1>1, <1>2, <1>3

-----------------------------------------------------------------------------
(* Types *)

LEMMA InitInv == Init => IInv
<1> SUFFICES ASSUME Init PROVE IInv
  OBVIOUS
<1>1. TypeOK
  <2>1. NoRow \in [hash : AnyHash, out : Outcomes \cup {None}]
    BY DEF NoRow, AnyHash
  <2>2. [c \in Calls |-> NoRow] \in [Calls -> [hash : AnyHash, out : Outcomes \cup {None}]]
    BY <2>1
  <2>3. \A S : None \in S => Nowhere \in [Calls -> S]
    BY DEF Nowhere
  <2>4. None \in AnyHash /\ <<>> \in Seq(Calls)
    BY DEF AnyHash
  <2> HIDE DEF NoRow
  <2>5. /\ hash \in [Calls -> AnyHash] /\ resume \in [Calls -> AnyHash]
        /\ journal \in [Calls -> AnyHash] /\ rec \in [Calls -> Outcomes \cup {None}]
        /\ pc \in [Calls -> Places]
        /\ ans \in [Calls -> {None, "text", "flaky", "fatal", "limit", "cancelled"}]
        /\ canc \in [Calls -> {None, "asked", "acked", "refused"}]
    BY <2>3, <2>4 DEF Init, Places
  <2>6. /\ gen \in 1..MaxGens /\ pending \in 0..MaxAgents /\ seq \in 0..MaxAgents
        /\ manifest \in 0..MaxAgents /\ active \in Nat
        /\ att \in [Calls -> 0..(Retries + 1)]
        /\ end \in [code : Errors \cup {"completed", None}, seq : 0..MaxAgents]
    BY BoundsAssumption DEF Init, NoEnd
  <2> QED
    BY <2>2, <2>4, <2>5, <2>6 DEF Init, TypeOK, Places
<1>2. LimiterInv
  <2>1. Inside = {} /\ Awake = {}
    BY DEF Init, Inside, Awake, Nowhere, None
  <2>2. Counted
    BY <2>1, FS_EmptySet DEF Init, Counted
  <2> QED
    BY <2>2 DEF Init, LimiterInv, Line, NoIdleSlot
<1>3. RecordInv
  BY DEF Init, RecordInv, Fresh, Replays, Misses, Quiet, Ended, RecRows, RecJournal, Told,
         DenseManifest, ResultsJournaled, Nowhere, NoRow, NoEnd, None, Heard, Calls
<1> QED
  BY <1>1, <1>2, <1>3 DEF IInv

LEMMA RowSet ==
  ASSUME TypeOK, NEW c \in Calls, NEW h \in AnyHash, NEW out \in Outcomes
  PROVE  /\ [rows EXCEPT ![c] = [hash |-> h, out |-> out]]
              \in [Calls -> [hash : AnyHash, out : Outcomes \cup {None}]]
         /\ Recorded(c, out) \in [Calls -> [hash : AnyHash, out : Outcomes \cup {None}]]
         /\ Settled(c, out) \in [Calls -> Outcomes \cup {None}]
<1>1. \A k \in AnyHash : [rows EXCEPT ![c] = [hash |-> k, out |-> out]]
              \in [Calls -> [hash : AnyHash, out : Outcomes \cup {None}]]
  BY DEF TypeOK
<1>2. hash[c] \in AnyHash
  BY DEF TypeOK
<1>3. Recorded(c, out) \in [Calls -> [hash : AnyHash, out : Outcomes \cup {None}]]
  BY <1>1, <1>2 DEF Recorded, TypeOK
<1>4. Settled(c, out) \in [Calls -> Outcomes \cup {None}]
  BY DEF Settled, TypeOK
<1> QED
  BY <1>1, <1>3, <1>4

\* Conclude, by its parts.
LEMMA ConcludeType ==
  ASSUME TypeOK, NEW c \in Calls, NEW out \in Outcomes, Conclude(c, out)
  PROVE  /\ pc' \in [Calls -> Places] /\ att' \in [Calls -> 0..(Retries + 1)]
         /\ ans' \in [Calls -> {None, "text", "flaky", "fatal", "limit", "cancelled"}]
         /\ canc' \in [Calls -> {None, "asked", "acked", "refused"}]
         /\ rec' \in [Calls -> Outcomes \cup {None}]
         /\ rows' \in [Calls -> [hash : AnyHash, out : Outcomes \cup {None}]]
         /\ old' \subseteq [gen : 1..MaxGens, call : Calls,
                            canc : {None, "asked", "acked", "refused"}]
<1>1. /\ pc' \in [Calls -> Places] /\ att' \in [Calls -> 0..(Retries + 1)]
      /\ ans' \in [Calls -> {None, "text", "flaky", "fatal", "limit", "cancelled"}]
  BY BoundsAssumption DEF Conclude, TypeOK, Places
<1>2. /\ rec' \in [Calls -> Outcomes \cup {None}]
      /\ rows' \in [Calls -> [hash : AnyHash, out : Outcomes \cup {None}]]
  BY DEF Conclude, TypeOK, Settled, Recorded
<1>3. PICK saved \in BOOLEAN :
        LET new == IF rec[c] = None /\ Heard THEN Answered(out, saved) ELSE "refused" IN
        /\ canc' = [canc EXCEPT ![c] = IF @ = "asked" THEN new ELSE @]
        /\ old' = {IF rec[c] = None /\ Heard /\ z.call = c /\ z.canc = "asked"
                   THEN [z EXCEPT !.canc = new] ELSE z : z \in old}
  BY DEF Conclude
<1> DEFINE new == IF rec[c] = None /\ Heard THEN Answered(out, saved) ELSE "refused"
<1>4. new \in {"acked", "refused"}
  BY DEF Answered
<1>5. canc' \in [Calls -> {None, "asked", "acked", "refused"}]
  BY <1>3, <1>4 DEF TypeOK
<1>6. old' \subseteq [gen : 1..MaxGens, call : Calls, canc : {None, "asked", "acked", "refused"}]
  <2> HIDE DEF new
  <2>1. ASSUME NEW z \in old
        PROVE  [z EXCEPT !.canc = new] \in
                 [gen : 1..MaxGens, call : Calls, canc : {None, "asked", "acked", "refused"}]
    <3>1. z \in [gen : 1..MaxGens, call : Calls, canc : {None, "asked", "acked", "refused"}]
      BY DEF TypeOK
    <3> QED
      BY <1>4, <3>1
  <2> QED
    BY <1>3, <2>1 DEF TypeOK, new
<1> QED
  BY <1>1, <1>2, <1>5, <1>6

LEMMA InterruptType ==
  ASSUME TypeOK, InterruptAll
  PROVE  /\ canc' \in [Calls -> {None, "asked", "acked", "refused"}]
         /\ rec' \in [Calls -> Outcomes \cup {None}]
         /\ old' \subseteq [gen : 1..MaxGens, call : Calls,
                            canc : {None, "asked", "acked", "refused"}]
<1>1. /\ canc' \in [Calls -> {None, "asked", "acked", "refused"}]
      /\ rec' \in [Calls -> Outcomes \cup {None}]
  BY DEF InterruptAll, TypeOK, Outcomes
<1>2. old' \subseteq [gen : 1..MaxGens, call : Calls, canc : {None, "asked", "acked", "refused"}]
  <2> DEFINE Old == [gen : 1..MaxGens, call : Calls, canc : {None, "asked", "acked", "refused"}]
             refused(z) == Heard /\ z.call \in Unsettled /\ z.canc = "asked"
  <2>1. old \subseteq Old
    BY DEF TypeOK
  <2>2. \A z \in Old : [z EXCEPT !.canc = "refused"] \in Old
    OBVIOUS
  <2>3. old' = {IF refused(z) THEN [z EXCEPT !.canc = "refused"] ELSE z : z \in old}
    BY DEF InterruptAll
  <2> HIDE DEF Old, refused
  <2>4. old' \subseteq Old
    BY <2>1, <2>2, <2>3
  <2> QED
    BY <2>4 DEF Old
<1> QED
  BY <1>1, <1>2

LEMMA RowTypes ==
  ASSUME TypeOK
  PROVE  /\ EngineRows \in [Calls -> [hash : AnyHash, out : Outcomes \cup {None}]]
         /\ InterruptedRows \in [Calls -> [hash : AnyHash, out : Outcomes \cup {None}]]
<1>1. NoRow \in [hash : AnyHash, out : Outcomes \cup {None}]
  BY DEF NoRow, AnyHash
<1>2. EngineRows \in [Calls -> [hash : AnyHash, out : Outcomes \cup {None}]]
  BY <1>1 DEF EngineRows, TypeOK, Outcomes
<1>3. InterruptedRows \in [Calls -> [hash : AnyHash, out : Outcomes \cup {None}]]
  BY DEF InterruptedRows, TypeOK, Outcomes
<1> QED
  BY <1>2, <1>3

\* Leaving the limiter gives back a slot that was taken.
LEMMA SlotTaken ==
  ASSUME TypeOK, Counted, NEW c \in Calls, pc[c] = "leaving"
  PROVE  active >= 1 /\ active - 1 \in Nat
<1>1. Inside \in SUBSET Calls /\ c \in Inside
  BY DEF Inside
<1>2. Cardinality(Inside) >= 1 /\ Cardinality(Inside) \in Nat
  BY <1>1, OneLess, CallsFinite
<1> QED
  BY <1>2 DEF Counted, TypeOK

LEMMA AdmitType ==
  ASSUME TypeOK, NEW c \in Calls, Admit(c)
  PROVE  pc' \in [Calls -> Places] /\ active' \in Nat /\ queue' \in Seq(Calls)
<1>1. CASE active >= Limit
  <2>1. queue' = Append(queue, c) /\ pc' = [pc EXCEPT ![c] = "queued"] /\ active' = active
    BY <1>1 DEF Admit
  <2> QED
    BY <2>1 DEF TypeOK, Places
<1>2. CASE ~(active >= Limit)
  <2>1. active' = active + 1 /\ pc' = [pc EXCEPT ![c] = "entered"] /\ queue' = queue
    BY <1>2 DEF Admit
  <2> QED
    BY <2>1 DEF TypeOK, Places
<1> QED
  BY <1>1, <1>2

LEMMA ReplyType ==
  ASSUME TypeOK, NEW reply \in BOOLEAN
  PROVE  ReplyEntry(reply) \in [Calls -> AnyHash]
BY DEF ReplyEntry, TypeOK, AnyHash

\* Type correctness, action by action.
LEMMA TypeStep == ASSUME TypeOK, Counted, [Next]_vars PROVE TypeOK'
<1> USE DEF Places
<1>1. CASE UNCHANGED vars
  BY <1>1 DEF vars, run, flow, limiter, body, kept, TypeOK
<1>2. ASSUME NEW h \in Hashes, Agent(h) PROVE TypeOK'
  <2>1. seq + 1 \in Calls
    BY <1>2 DEF Agent, TypeOK, Calls
  <2>2. pc' \in [Calls -> Places] /\ active' \in Nat /\ queue' \in Seq(Calls)
    <3>1. CASE Cached(seq + 1, h)
      BY <1>2, <3>1 DEF Agent, TypeOK, limiter
    <3>2. CASE ~Cached(seq + 1, h)
      BY <1>2, <3>2, <2>1, AdmitType DEF Agent
    <3> QED
      BY <3>1, <3>2
  <2>3. seq' \in 0..MaxAgents /\ hash' \in [Calls -> AnyHash]
    <3>1. seq' = seq + 1 /\ hash' = [hash EXCEPT ![seq + 1] = h]
      BY <1>2 DEF Agent
    <3> QED
      BY <2>1, <3>1, BoundsAssumption DEF TypeOK, AnyHash, Calls
  <2> QED
    BY <1>2, <2>2, <2>3 DEF Agent, TypeOK, run, flow, kept
<1>3. CASE Checkpoint
  <2>1. seq + 1 \in Calls /\ seq' \in 0..MaxAgents /\ hash' \in [Calls -> AnyHash]
    BY <1>3, BoundsAssumption DEF Checkpoint, TypeOK, Calls, AnyHash
  <2>2. /\ pc' \in [Calls -> Places] /\ rec' \in [Calls -> Outcomes \cup {None}]
        /\ rows' \in [Calls -> [hash : AnyHash, out : Outcomes \cup {None}]]
    <3>2. CASE Cached(seq + 1, Ask)
      <4>1. rec' \in [Calls -> Outcomes \cup {None}] /\ pc' \in [Calls -> Places]
        BY <1>3, <3>2 DEF Checkpoint, TypeOK, Outcomes
      <4>2. rows' = rows \/ rows' = [rows EXCEPT ![seq + 1] = [hash |-> Ask, out |-> "result"]]
        BY <1>3, <3>2 DEF Checkpoint
      <4>3. "result" \in Outcomes /\ Ask \in AnyHash
        BY DEF Outcomes, AnyHash
      <4>4. rows \in [Calls -> [hash : AnyHash, out : Outcomes \cup {None}]]
        BY DEF TypeOK
      <4>5. [rows EXCEPT ![seq + 1] = [hash |-> Ask, out |-> "result"]]
               \in [Calls -> [hash : AnyHash, out : Outcomes \cup {None}]]
        BY <2>1, <4>3, RowSet
      <4> QED
        BY <4>1, <4>2, <4>4, <4>5
    <3>3. CASE ~Cached(seq + 1, Ask)
      BY <1>3, <3>3 DEF Checkpoint, TypeOK
    <3> QED
      BY <3>2, <3>3
  <2> QED
    BY <1>3, <2>1, <2>2 DEF Checkpoint, TypeOK, run, flow, limiter
<1>4. CASE ScriptReturns
  BY <1>4 DEF ScriptReturns, TypeOK, run, limiter, body, kept
<1>5. ASSUME NEW code \in Errors \cup {"completed"}, EngineEnds(code), aborted' \in BOOLEAN
      PROVE  TypeOK'
  <2>1. InterruptAll /\ rows' = InterruptedRows
    BY <1>5 DEF EngineEnds
  <2>2. end' \in [code : Errors \cup {"completed", None}, seq : 0..MaxAgents]
    BY <1>5 DEF EngineEnds, TypeOK
  <2> QED
    BY <1>5, <2>1, <2>2, InterruptType, RowTypes DEF EngineEnds, TypeOK, body, limiter
<1>6. CASE EngineCompletes
  BY <1>5, <1>6 DEF EngineCompletes, TypeOK
<1>16. ASSUME NEW code \in Errors, EngineFails(code) PROVE TypeOK'
  BY <1>5, <1>16 DEF EngineFails, TypeOK
<1>17. CASE ManagerCompletes
  BY <1>17, RowTypes DEF ManagerCompletes, TypeOK, body, limiter
<1>18. CASE ManagerFails
  <2>1. /\ status' \in {"running", "paused", "completed", "failed", "aborted"}
        /\ manifest' \in 0..MaxAgents
        /\ pauseReason' \in {None, "checkpoint_required"}
    BY <1>18 DEF ManagerFails, EndStatus, TypeOK
  <2> QED
    BY <1>18, <2>1 DEF ManagerFails, TypeOK, body, limiter, kept
<1>7. ASSUME NEW c \in Calls, Runs(c) PROVE TypeOK'
  <2>1. CASE Wake(c)
    BY <2>1 DEF Wake, TypeOK, run, flow, kept
  <2>2. CASE Leave(c)
    <3>1. active' \in Nat
      BY <2>2, SlotTaken DEF Leave
    <3>2. queue' \in Seq(Calls)
      BY <2>2 DEF Leave, Waiters, TypeOK
    <3>3. pc' \in [Calls -> Places]
      BY <2>2 DEF Leave, TypeOK
    <3> QED
      BY <2>2, <3>1, <3>2, <3>3 DEF Leave, TypeOK, run, flow, kept
  <2>3. CASE ReplayLands(c)
    <3>1. /\ rec' \in [Calls -> Outcomes \cup {None}]
          /\ rows' \in [Calls -> [hash : AnyHash, out : Outcomes \cup {None}]]
      <4>1. CASE Halted
        BY <2>3, <4>1 DEF ReplayLands, TypeOK
      <4>2. CASE ~Halted
        <5>1. "result" \in Outcomes /\ None \in AnyHash
          BY DEF Outcomes, AnyHash
        <5> QED
          BY <2>3, <4>2, <5>1, RowSet DEF ReplayLands
      <4> QED
        BY <4>1, <4>2
    <3> QED
      BY <2>3, <3>1 DEF ReplayLands, TypeOK, run, flow, limiter
  <2>4. CASE Begin(c)
    <3>1. CASE Halted
      BY <2>4, <3>1, ConcludeType DEF Begin, TypeOK, Outcomes, run, flow, limiter
    <3>2. CASE ~Halted
      <4>1. pc' = [pc EXCEPT ![c] = "running"] /\ att' = [att EXCEPT ![c] = 1]
        BY <2>4, <3>2 DEF Begin
      <4>2. pc' \in [Calls -> Places] /\ att' \in [Calls -> 0..(Retries + 1)]
        BY <4>1, BoundsAssumption DEF TypeOK
      <4> QED
        BY <2>4, <3>2, <4>2 DEF Begin, TypeOK, run, flow, limiter
    <3> QED
      BY <3>1, <3>2
  <2>5. CASE AttemptSucceeds(c)
    <3>1. journal' \in [Calls -> AnyHash]
      BY <2>5 DEF AttemptSucceeds, Journaled, TypeOK
    <3> QED
      BY <2>5, <3>1, ConcludeType DEF AttemptSucceeds, TypeOK, Outcomes, run, flow, limiter
  <2>6. CASE AttemptRetried(c)
    <3>1. att' \in [Calls -> 0..(Retries + 1)]
      BY <2>6, BoundsAssumption DEF AttemptRetried, RetryAllowed, TypeOK
    <3> QED
      BY <2>6, <3>1 DEF AttemptRetried, TypeOK, run, flow, limiter, kept
  <2>7. CASE AttemptFails(c)
    <3>1. FailureOf(c) \in Outcomes
      BY DEF FailureOf, Outcomes
    <3> QED
      BY <2>7, <3>1, ConcludeType DEF AttemptFails, TypeOK, run, flow, limiter
  <2> QED
    BY <1>7, <2>1, <2>2, <2>3, <2>4, <2>5, <2>6, <2>7 DEF Runs
<1>8. ASSUME NEW c \in Calls, RunnerAnswers(c) PROVE TypeOK'
  BY <1>8 DEF RunnerAnswers, TypeOK, run, flow, limiter, kept
<1>9. ASSUME NEW c \in Calls, Decided(c) PROVE TypeOK'
  <2>1. /\ pc' \in [Calls -> Places] /\ journal' \in [Calls -> AnyHash]
        /\ rec' \in [Calls -> Outcomes \cup {None}]
        /\ rows' \in [Calls -> [hash : AnyHash, out : Outcomes \cup {None}]]
    BY <1>9 DEF Decided, Settled, Recorded, Journaled, TypeOK, Outcomes
  <2> QED
    BY <1>9, <2>1 DEF Decided, TypeOK, run, flow, limiter
<1>10. ASSUME NEW c \in Calls, Undecided(c) PROVE TypeOK'
  <2>1. /\ pc' \in [Calls -> Places] /\ pending' \in 0..MaxAgents
        /\ rec' \in [Calls -> Outcomes \cup {None}]
        /\ rows' \in [Calls -> [hash : AnyHash, out : Outcomes \cup {None}]]
    BY <1>10, BoundsAssumption DEF Undecided, Settled, Recorded, TypeOK, Outcomes, Calls
  <2> QED
    BY <1>10, <2>1 DEF Undecided, TypeOK, run, limiter
<1>11. ASSUME NEW c \in Calls, CancelAgentCall(c) PROVE TypeOK'
  BY <1>11 DEF CancelAgentCall, TypeOK, run, flow, limiter, kept
<1>12. ASSUME NEW z \in old, OldReturns(z) PROVE TypeOK'
  BY <1>12 DEF OldReturns, TypeOK, run, flow, limiter, body, kept
<1>13. ASSUME NEW z \in old, CancelOld(z) PROVE TypeOK'
  <2>1. old' \subseteq [gen : 1..MaxGens, call : Calls, canc : {None, "asked", "acked", "refused"}]
    BY <1>13 DEF CancelOld, TypeOK
  <2> QED
    BY <1>13, <2>1 DEF CancelOld, TypeOK, run, flow, limiter, body, kept
<1>14. ASSUME NEW new \in {"paused", "aborted"}, Halt(new) PROVE TypeOK'
  <2>1. InterruptAll /\ rows' = InterruptedRows
    BY <1>14 DEF Halt
  <2> QED
    BY <1>14, <2>1, InterruptType, RowTypes DEF Halt, TypeOK, body, limiter
<1>15. ASSUME NEW reply \in BOOLEAN, Continue(reply) PROVE TypeOK'
  <2>1. journal' \in [Calls -> AnyHash] /\ resume' \in [Calls -> AnyHash]
    BY <1>15, ReplyType DEF Continue
  <2>2. /\ hash' \in [Calls -> AnyHash] /\ rec' \in [Calls -> Outcomes \cup {None}]
        /\ pc' \in [Calls -> Places]
        /\ ans' \in [Calls -> {None, "text", "flaky", "fatal", "limit", "cancelled"}]
        /\ canc' \in [Calls -> {None, "asked", "acked", "refused"}]
    BY <1>15 DEF Continue, Nowhere, AnyHash
  <2>3. rows' \in [Calls -> [hash : AnyHash, out : Outcomes \cup {None}]]
    BY <1>15 DEF Continue, TypeOK, AnyHash, Outcomes
  <2>4. LeftBehind \subseteq [gen : 1..MaxGens, call : Calls,
                              canc : {None, "asked", "acked", "refused"}]
    BY DEF LeftBehind, TypeOK
  <2>5. /\ gen' \in 1..MaxGens /\ att' \in [Calls -> 0..(Retries + 1)]
        /\ queue' \in Seq(Calls) /\ active' \in Nat /\ pending' \in 0..MaxAgents
        /\ seq' \in 0..MaxAgents
        /\ end' \in [code : Errors \cup {"completed", None}, seq : 0..MaxAgents]
    BY <1>15, BoundsAssumption DEF Continue, NoEnd, TypeOK
  <2> QED
    BY <1>15, <2>1, <2>2, <2>3, <2>4, <2>5 DEF Continue, TypeOK
<1> QED
  BY <1>1, <1>2, <1>3, <1>4, <1>6, <1>7, <1>8, <1>9, <1>10, <1>11, <1>12, <1>13,
     <1>14, <1>15, <1>16, <1>17, <1>18 DEF Next

-----------------------------------------------------------------------------
(* The limiter *)

LEMMA LimiterKept ==
  ASSUME TypeOK, LimiterInv, UNCHANGED limiter, Inside' = Inside, Awake' = Awake,
         \A c \in Calls : pc[c] = "queued" => pc'[c] = "queued"
  PROVE  LimiterInv'
<1>1. \A i \in 1..Len(queue) : queue[i] \in Calls
  BY DEF TypeOK
<1>2. Line'
  BY <1>1 DEF limiter, LimiterInv, Line
<1>3. Counted' /\ NoIdleSlot'
  BY DEF limiter, LimiterInv, Counted, NoIdleSlot, Awake
<1> QED
  BY <1>2, <1>3 DEF LimiterInv

\* A call moves between two places that the limiter does not tell apart.
LEMMA LimiterMove ==
  ASSUME TypeOK, LimiterInv, UNCHANGED limiter, NEW c \in Calls, NEW p \in Places,
         pc' = [pc EXCEPT ![c] = p],
         \/ /\ pc[c] \in {"entered", "running", "answered", "leaving"}
            /\ p \in {"entered", "running", "answered", "leaving"}
         \/ /\ pc[c] \notin {"entered", "running", "answered", "leaving", "queued", "woken"}
            /\ p \notin {"entered", "running", "answered", "leaving", "queued", "woken"}
  PROVE  LimiterInv'
<1>1. Inside' = Inside /\ Awake' = Awake
  BY DEF TypeOK, Inside, Awake
<1>2. \A d \in Calls : pc[d] = "queued" => pc'[d] = "queued"
  BY DEF TypeOK
<1> QED
  BY <1>1, <1>2, LimiterKept

LEMMA LimiterAdmit ==
  ASSUME TypeOK, LimiterInv, NEW c \in Calls, pc[c] = None, Admit(c)
  PROVE  LimiterInv'
<1>1. \A i \in 1..Len(queue) : queue[i] \in Calls /\ queue[i] # c
  BY DEF TypeOK, LimiterInv, Line, None
<1>2. CASE active >= Limit
  <2>1. queue' = Append(queue, c) /\ pc' = [pc EXCEPT ![c] = "queued"] /\ active' = active
    BY <1>2 DEF Admit
  <2>2. Inside' = Inside /\ Awake' = Awake
    BY <2>1 DEF TypeOK, Inside, Awake, None
  <2>3. Line'
    <3>1. /\ Len(queue') = Len(queue) + 1 /\ Len(queue) \in Nat
          /\ queue'[Len(queue) + 1] = c
          /\ \A i \in 1..Len(queue) : queue'[i] = queue[i]
      BY <2>1 DEF TypeOK
    <3>2. \A i \in 1..Len(queue') : i \in 1..Len(queue) \/ i = Len(queue) + 1
      BY <3>1
    <3>3. \A i \in 1..Len(queue') : pc'[queue'[i]] = "queued"
      BY <1>1, <2>1, <3>1, <3>2 DEF TypeOK, LimiterInv, Line
    <3>4. \A i, j \in 1..Len(queue') : queue'[i] = queue'[j] => i = j
      BY <1>1, <3>1, <3>2 DEF LimiterInv, Line
    <3> QED
      BY <3>3, <3>4 DEF Line
  <2>4. Cardinality(Awake) \in Nat
    BY CallsFinite DEF Awake
  <2>5. NoIdleSlot'
    <3>1. active' + Cardinality(Awake') >= Limit
      BY <1>2, <2>1, <2>2, <2>4, BoundsAssumption DEF TypeOK
    <3> QED
      BY <3>1 DEF NoIdleSlot, Awake
  <2> QED
    BY <2>1, <2>2, <2>3, <2>5 DEF LimiterInv, Counted
<1>3. CASE ~(active >= Limit)
  <2>1. active' = active + 1 /\ pc' = [pc EXCEPT ![c] = "entered"] /\ queue' = queue
    BY <1>3 DEF Admit
  <2>2. Inside' = Inside \cup {c} /\ Awake' = Awake /\ c \notin Inside
    BY <2>1 DEF TypeOK, Inside, Awake, None
  <2>3. Counted'
    <3>1. Inside \in SUBSET Calls
      BY DEF Inside
    <3>2. Cardinality(Inside \cup {c}) = Cardinality(Inside) + 1
      BY <2>2, <3>1, OneMore
    <3> QED
      BY <2>1, <2>2, <3>2 DEF LimiterInv, Counted
  <2>4. Line'
    BY <1>1, <2>1 DEF TypeOK, LimiterInv, Line
  <2>5. Cardinality(Awake) \in Nat
    BY CallsFinite DEF Awake
  <2>6. NoIdleSlot'
    <3>1. queue # <<>> => active + Cardinality(Awake) >= Limit
      BY DEF LimiterInv, NoIdleSlot, Awake
    <3>2. queue' # <<>> => active' + Cardinality(Awake') >= Limit
      BY <2>1, <2>2, <2>5, <3>1, BoundsAssumption DEF TypeOK
    <3> QED
      BY <3>2 DEF NoIdleSlot, Awake
  <2> QED
    BY <2>3, <2>4, <2>6 DEF LimiterInv
<1> QED
  BY <1>2, <1>3

LEMMA LimiterWake ==
  ASSUME TypeOK, LimiterInv, NEW c \in Calls, Wake(c)
  PROVE  LimiterInv'
<1>1. /\ pc[c] = "woken" /\ active' = active + 1 /\ queue' = queue
      /\ pc' = [pc EXCEPT ![c] = "entered"]
  BY DEF Wake
<1>2. /\ Inside' = Inside \cup {c} /\ c \notin Inside
      /\ Awake' = Awake \ {c} /\ c \in Awake
      /\ Inside \in SUBSET Calls /\ Awake \in SUBSET Calls
  BY <1>1 DEF TypeOK, Inside, Awake
<1>3. /\ Cardinality(Inside') = Cardinality(Inside) + 1
      /\ Cardinality(Awake') = Cardinality(Awake) - 1
      /\ Cardinality(Awake) \in Nat
  BY <1>2, OneMore, OneLess, CallsFinite
<1>4. Line'
  <2>1. \A i \in 1..Len(queue) : queue[i] \in Calls /\ queue[i] # c
    BY <1>1 DEF TypeOK, LimiterInv, Line
  <2> QED
    BY <1>1, <2>1 DEF TypeOK, LimiterInv, Line
<1>5. Counted'
  BY <1>1, <1>3 DEF LimiterInv, Counted
<1>6. NoIdleSlot'
  BY <1>1, <1>3, BoundsAssumption DEF LimiterInv, NoIdleSlot, Awake, TypeOK
<1> QED
  BY <1>4, <1>5, <1>6 DEF LimiterInv

LEMMA LimiterLeave ==
  ASSUME TypeOK, LimiterInv, NEW c \in Calls, Leave(c)
  PROVE  LimiterInv'
<1>1. /\ pc[c] = "leaving" /\ active' = active - 1 /\ queue' = Waiters
      /\ pc' = [d \in Calls |-> IF d = c THEN "done" ELSE IF d \in Woken THEN "woken" ELSE pc[d]]
  BY DEF Leave
<1>2. \A i \in 1..Len(queue) : queue[i] \in Calls /\ queue[i] # c /\ pc[queue[i]] = "queued"
  BY <1>1 DEF TypeOK, LimiterInv, Line
<1>3. Inside \in SUBSET Calls /\ Awake \in SUBSET Calls /\ c \in Inside
  BY <1>1 DEF Inside, Awake
<1>4. /\ Cardinality(Inside \ {c}) = Cardinality(Inside) - 1
      /\ Cardinality(Inside) \in Nat /\ Cardinality(Awake) \in Nat
  BY <1>3, OneLess, CallsFinite
<1>5. CASE queue = <<>>
  <2>1. Inside' = Inside \ {c} /\ queue' = <<>>
    BY <1>1, <1>5 DEF TypeOK, Inside, Waiters, Woken
  <2>2. Counted'
    BY <1>1, <1>4, <2>1 DEF LimiterInv, Counted
  <2> QED
    BY <2>1, <2>2 DEF LimiterInv, Line, NoIdleSlot
<1>6. CASE queue # <<>>
  <2> DEFINE h == Head(queue)
  <2>1. /\ Len(queue) \in Nat /\ Len(queue) >= 1 /\ h = queue[1]
        /\ Len(queue') = Len(queue) - 1
        /\ \A i \in 1..Len(queue') : queue'[i] = queue[i + 1]
    BY <1>1, <1>6 DEF TypeOK, Waiters
  <2>2. h \in Calls /\ h # c /\ pc[h] = "queued" /\ Woken = {h}
    BY <1>2, <1>6, <2>1 DEF Woken
  <2> HIDE DEF h
  <2>3. Inside' = Inside \ {c} /\ Awake' = Awake \cup {h} /\ h \notin Awake
    BY <1>1, <2>2 DEF TypeOK, Inside, Awake
  <2>4. Cardinality(Awake') = Cardinality(Awake) + 1
    BY <1>3, <2>2, <2>3, OneMore
  <2>5. Counted'
    BY <1>1, <1>4, <2>3 DEF LimiterInv, Counted
  <2>6. Line'
    <3>1. \A i \in 1..Len(queue') : i + 1 \in 1..Len(queue) /\ i + 1 # 1
      BY <2>1
    <3>2. \A i \in 1..Len(queue') : queue'[i] # h
      BY <2>1, <3>1 DEF LimiterInv, Line
    <3>3. \A i \in 1..Len(queue') : pc'[queue'[i]] = "queued"
      BY <1>1, <1>2, <2>1, <2>2, <3>1, <3>2
    <3>4. \A i, j \in 1..Len(queue') : queue'[i] = queue'[j] => i = j
      <4>1. ASSUME NEW i \in 1..Len(queue'), NEW j \in 1..Len(queue'), queue'[i] = queue'[j]
            PROVE  i = j
        <5>1. i + 1 = j + 1
          BY <2>1, <3>1, <4>1 DEF LimiterInv, Line
        <5> QED
          BY <5>1, <2>1
      <4> QED
        BY <4>1
    <3> QED
      BY <3>3, <3>4 DEF Line
  <2>7. NoIdleSlot'
    BY <1>1, <1>4, <1>6, <2>4, BoundsAssumption DEF LimiterInv, NoIdleSlot, Awake, TypeOK
  <2> QED
    BY <2>5, <2>6, <2>7 DEF LimiterInv
<1> QED
  BY <1>5, <1>6

LEMMA LimiterStep ==
  ASSUME TypeOK, LimiterInv, Fresh, [Next]_vars
  PROVE  LimiterInv'
<1> USE DEF Places
<1>1. CASE UNCHANGED vars
  BY <1>1, LimiterKept DEF vars, limiter, body, Inside, Awake
<1>2. ASSUME NEW h \in Hashes, Agent(h) PROVE LimiterInv'
  <2>1. seq + 1 \in Calls /\ pc[seq + 1] = None
    BY <1>2 DEF Agent, TypeOK, Calls, Fresh
  <2>2. CASE Cached(seq + 1, h)
    BY <1>2, <2>1, <2>2, LimiterMove DEF Agent, None
  <2>3. CASE ~Cached(seq + 1, h)
    BY <1>2, <2>1, <2>3, LimiterAdmit DEF Agent
  <2> QED
    BY <2>2, <2>3
<1>3. CASE Checkpoint
  <2>1. seq + 1 \in Calls /\ pc[seq + 1] = None /\ UNCHANGED limiter
    BY <1>3 DEF Checkpoint, TypeOK, Calls, Fresh
  <2>2. CASE Cached(seq + 1, Ask)
    BY <1>3, <2>1, <2>2, LimiterMove DEF Checkpoint, None
  <2>3. CASE ~Cached(seq + 1, Ask)
    BY <1>3, <2>1, <2>3, LimiterMove DEF Checkpoint, None
  <2> QED
    BY <2>2, <2>3
<1>4. ASSUME UNCHANGED <<pc, limiter>> PROVE LimiterInv'
  BY <1>4, LimiterKept DEF Inside, Awake
<1>5. CASE ScriptReturns \/ EngineCompletes \/ ManagerCompletes \/ ManagerFails
  BY <1>4, <1>5 DEF ScriptReturns, EngineCompletes, EngineEnds, ManagerCompletes,
        ManagerFails, body
<1>6. ASSUME NEW code \in Errors, EngineFails(code) PROVE LimiterInv'
  BY <1>4, <1>6 DEF EngineFails, EngineEnds, body
<1>7. ASSUME NEW new \in {"paused", "aborted"}, Halt(new) PROVE LimiterInv'
  BY <1>4, <1>7 DEF Halt, body
<1>8. ASSUME NEW z \in old, OldReturns(z) \/ CancelOld(z) PROVE LimiterInv'
  BY <1>4, <1>8 DEF OldReturns, CancelOld, body
<1>9. ASSUME NEW c \in Calls, Runs(c) PROVE LimiterInv'
  <2>1. CASE Wake(c)
    BY <2>1, LimiterWake
  <2>2. CASE Leave(c)
    BY <2>2, LimiterLeave
  <2>3. CASE ReplayLands(c)
    BY <2>3, LimiterMove DEF ReplayLands
  <2>4. CASE Begin(c)
    <3>1. CASE Halted
      BY <2>4, <3>1, LimiterMove DEF Begin, Conclude
    <3>2. CASE ~Halted
      BY <2>4, <3>2, LimiterMove DEF Begin
    <3> QED
      BY <3>1, <3>2
  <2>5. CASE AttemptSucceeds(c)
    BY <2>5, LimiterMove DEF AttemptSucceeds, Conclude
  <2>6. CASE AttemptRetried(c)
    BY <2>6, LimiterMove DEF AttemptRetried
  <2>7. CASE AttemptFails(c)
    BY <2>7, LimiterMove DEF AttemptFails, Conclude
  <2> QED
    BY <1>9, <2>1, <2>2, <2>3, <2>4, <2>5, <2>6, <2>7 DEF Runs
<1>10. ASSUME NEW c \in Calls, RunnerAnswers(c) PROVE LimiterInv'
  BY <1>10, LimiterMove DEF RunnerAnswers
<1>11. ASSUME NEW c \in Calls, Decided(c) \/ Undecided(c) PROVE LimiterInv'
  BY <1>11, LimiterMove DEF Decided, Undecided
<1>12. ASSUME NEW c \in Calls, CancelAgentCall(c) PROVE LimiterInv'
  BY <1>12, LimiterMove DEF CancelAgentCall, InFlight
<1>13. ASSUME NEW reply \in BOOLEAN, Continue(reply) PROVE LimiterInv'
  <2>1. active' = 0 /\ queue' = <<>> /\ pc' = Nowhere
    BY <1>13 DEF Continue
  <2>2. Inside' = {}
    BY <2>1 DEF Inside, Nowhere, None
  <2>3. Counted'
    BY <2>1, <2>2, FS_EmptySet DEF Counted
  <2> QED
    BY <2>1, <2>3 DEF LimiterInv, Line, NoIdleSlot
<1> QED
  BY <1>1, <1>2, <1>3, <1>5, <1>6, <1>7, <1>8, <1>9, <1>10, <1>11, <1>12, <1>13 DEF Next

-----------------------------------------------------------------------------
(* What is known of the calls *)

Ahead == {"queued", "woken", "entered", "running", "answered"}

\* Steps that move calls about and settle nothing.
LEMMA RecordMove ==
  ASSUME TypeOK, TypeOK', RecordInv,
         UNCHANGED <<seq, hash, resume, status, aborted, manifest, rec, rows, journal>>,
         UNCHANGED <<end, pending>>,
         script' = script \/ (script = "runs" /\ script' = "returned"),
         \A c \in Calls : c > seq => pc'[c] = None /\ canc'[c] = None,
         \A c \in Calls : pc'[c] = "replaying" => pc[c] = "replaying",
         \A c \in Calls : pc'[c] \in Ahead => pc[c] \in Ahead,
         \A c \in Calls : canc'[c] = "acked" => canc[c] = "acked",
         \A c \in Calls : pc[c] \in {"leaving", "done"} => pc'[c] \in {"leaving", "done"}
  PROVE  RecordInv'
<1>1. Fresh' /\ Replays' /\ Misses'
  BY DEF RecordInv, Fresh, Replays, Misses, Ahead
<1>2. Quiet' /\ RecRows' /\ RecJournal'
  BY DEF RecordInv, Quiet, RecRows, RecJournal, Heard
<1>3. Ended'
  BY DEF RecordInv, Ended
<1>4. Told' /\ DenseManifest' /\ ResultsJournaled'
  BY DEF RecordInv, Told, DenseManifest, ResultsJournaled
<1> QED
  BY <1>1, <1>2, <1>3, <1>4 DEF RecordInv

\* Call c is settled.
LEMMA RecordSettle ==
  ASSUME TypeOK, TypeOK', RecordInv, NEW c \in Calls, NEW out \in Outcomes,
         NEW p \in {"leaving", "done"},
         UNCHANGED <<seq, hash, resume, status, script, end, aborted, manifest>>,
         pending' = pending \/ (pending' # 0 /\ pending = 0),
         pc[c] # None, pc' = [pc EXCEPT ![c] = p],
         rec' = Settled(c, out), rows' = Recorded(c, out),
         \/ journal' = journal /\ (out = "result" => journal[c] = hash[c])
         \/ journal' = Journaled(c) /\ out = "result",
         \A d \in Calls \ {c} : canc'[d] = canc[d],
         canc'[c] = "acked" => canc[c] = "acked" \/ (out = "cancelled" /\ rec[c] = None /\ Heard)
  PROVE  RecordInv'
<1>1. c <= seq
  BY DEF RecordInv, Fresh, TypeOK, Calls
<1>2. \A d \in Calls \ {c} : /\ pc'[d] = pc[d] /\ rec'[d] = rec[d] /\ rows'[d] = rows[d]
                             /\ journal'[d] = journal[d]
  BY DEF TypeOK, Settled, Recorded, Journaled
<1>3. /\ pc'[c] = p
      /\ rec'[c] = IF rec[c] = None THEN out ELSE rec[c]
  BY DEF TypeOK, Settled
<1>4. /\ rec[c] = None /\ Heard => rows'[c] = [hash |-> hash[c], out |-> out]
      /\ ~(rec[c] = None /\ Heard) => rows' = rows /\ journal'[c] = journal[c]
      /\ rec[c] = None /\ Heard /\ out = "result" => journal'[c] = hash[c]
      /\ out # "result" => journal' = journal
  BY DEF TypeOK, Recorded, Journaled
<1>5. out # None
  BY DEF Outcomes, None
<1>6. Fresh'
  BY <1>1, <1>2 DEF RecordInv, Fresh, TypeOK, Calls
<1>7. Replays' /\ Misses'
  BY <1>2, <1>3 DEF RecordInv, Replays, Misses
<1>8. Quiet' /\ RecRows' /\ Ended'
  <2>1. Quiet' /\ RecRows'
    BY <1>1, <1>2, <1>3, <1>4, <1>5 DEF RecordInv, Quiet, RecRows, Heard
  <2>2. \A d \in Calls : rec[d] # None => rec'[d] # None
    BY <1>2, <1>3
  <2>3. Ended'
    BY <2>2 DEF RecordInv, Ended
  <2> QED
    BY <2>1, <2>3
<1>9. RecJournal'
  BY <1>1, <1>2, <1>3, <1>4 DEF RecordInv, RecJournal, Quiet, Heard
<1>10. Told'
  <2>1. ASSUME NEW d \in Calls \ {c}, canc'[d] = "acked"
        PROVE  /\ rec'[d] = "cancelled" /\ pc'[d] \in {"leaving", "done"}
               /\ rows'[d].out = "cancelled" \/ (status' = "completed" /\ d > end'.seq)
    BY <1>2, <2>1 DEF RecordInv, Told
  <2>2. ASSUME canc'[c] = "acked"
        PROVE  /\ rec'[c] = "cancelled" /\ pc'[c] \in {"leaving", "done"}
               /\ rows'[c].out = "cancelled" \/ (status' = "completed" /\ c > end'.seq)
    <3>1. CASE canc[c] = "acked"
      BY <1>3, <1>4, <3>1 DEF RecordInv, Told, None
    <3>2. CASE out = "cancelled" /\ rec[c] = None /\ Heard
      BY <1>3, <1>4, <3>2
    <3> QED
      BY <2>2, <3>1, <3>2
  <2> QED
    BY <2>1, <2>2 DEF Told
<1>11. DenseManifest'
  BY <1>4 DEF RecordInv, DenseManifest, Heard
<1>12. ResultsJournaled'
  BY <1>2, <1>4 DEF RecordInv, ResultsJournaled
<1> QED
  BY <1>6, <1>7, <1>8, <1>9, <1>10, <1>11, <1>12 DEF RecordInv

\* A call is allocated: what it starts with and how it is answered at once.
LEMMA RecordAllocate ==
  ASSUME TypeOK, TypeOK', RecordInv, NEW h \in AnyHash, seq + 1 \in Calls, ~Halted,
         seq' = seq + 1, hash' = [hash EXCEPT ![seq + 1] = h],
         UNCHANGED <<resume, status, script, end, aborted, pending, manifest, journal, canc>>,
         \A d \in Calls \ {seq + 1} : pc'[d] = pc[d],
         \/ /\ Cached(seq + 1, h) /\ UNCHANGED <<rec, rows>>
            /\ pc'[seq + 1] = "replaying"
         \/ /\ ~Cached(seq + 1, h) /\ UNCHANGED <<rec, rows>>
            /\ pc'[seq + 1] \in {"queued", "entered", "asking"}
         \/ /\ Cached(seq + 1, h) /\ rec' = [rec EXCEPT ![seq + 1] = "result"]
            /\ rows' = IF Heard THEN [rows EXCEPT ![seq + 1] = [hash |-> h, out |-> "result"]]
                                ELSE rows
            /\ pc'[seq + 1] = "done"
  PROVE  RecordInv'
<1> DEFINE c == seq + 1
<1>1. /\ pc[c] = None /\ rec[c] = None /\ canc[c] = None /\ journal[c] = resume[c]
  BY DEF RecordInv, Fresh, TypeOK
<1>2. \A d \in Calls \ {c} : /\ hash'[d] = hash[d] /\ rec'[d] = rec[d]
                             /\ rows'[d] = rows[d]
  BY DEF TypeOK
<1>3. hash'[c] = h /\ (Cached(c, h) <=> journal[c] = h)
  BY <1>1 DEF TypeOK, Cached
<1>4. \/ rec'[c] = None /\ rows' = rows
      \/ /\ rec'[c] = "result" /\ journal[c] = h
         /\ Heard => rows'[c] = [hash |-> h, out |-> "result"]
         /\ ~Heard => rows' = rows
  BY <1>1, <1>3 DEF TypeOK
<1>5. Heard \/ script = "settled"
  BY DEF RecordInv, Quiet, Halted
<1>6. seq \in Nat /\ c \in Calls /\ \A d \in Calls : d > c => d # c /\ d > seq
  BY DEF TypeOK, Calls
<1>7. \/ pc'[c] = "replaying" /\ journal[c] = h
      \/ pc'[c] \in {"queued", "entered", "asking"} /\ journal[c] # h
      \/ pc'[c] = "done"
  BY <1>3
<1> HIDE DEF c
<1>8. Fresh'
  BY <1>2, <1>6 DEF RecordInv, Fresh, c
<1>9. Replays' /\ Misses'
  BY <1>2, <1>3, <1>6, <1>7 DEF RecordInv, Replays, Misses, c
<1>10. Quiet' /\ Ended'
  <2>1. Quiet'
    BY <1>5 DEF RecordInv, Quiet, Heard
  <2>2. \A d \in Calls : rec[d] # None => rec'[d] = rec[d]
    BY <1>1, <1>2
  <2>3. end.code # "checkpoint_required"
    BY DEF RecordInv, Ended, Halted
  <2>4. Ended'
    BY <1>6, <2>2, <2>3 DEF RecordInv, Ended, TypeOK
  <2> QED
    BY <2>1, <2>4
<1>11. RecRows' /\ RecJournal'
  BY <1>2, <1>3, <1>4, <1>6 DEF RecordInv, RecRows, RecJournal, Heard, None
<1>12. Told'
  BY <1>1, <1>2, <1>6 DEF RecordInv, Told, None, c
<1>13. DenseManifest'
  BY <1>4, <1>5, <1>2 DEF RecordInv, DenseManifest, Heard
<1>14. ResultsJournaled'
  BY <1>2, <1>4, <1>6 DEF RecordInv, ResultsJournaled
<1> QED
  BY <1>8, <1>9, <1>10, <1>11, <1>12, <1>13, <1>14 DEF RecordInv

\* The run is halted or its engine ends: what is unsettled is interrupted.
LEMMA RecordInterrupt ==
  ASSUME TypeOK, TypeOK', RecordInv, InterruptAll, rows' = InterruptedRows,
         UNCHANGED <<seq, hash, pc, resume, journal, pending>>,
         \/ /\ status # "completed" /\ status' \in {"paused", "aborted"} /\ aborted'
            /\ UNCHANGED <<script, end>>
            /\ manifest' = IF Heard THEN seq ELSE manifest
         \/ /\ script \in {"runs", "returned"} /\ script' = "over" /\ end'.seq = seq
            /\ end'.code # None /\ (end'.code = "checkpoint_required" => pending # 0)
            /\ UNCHANGED <<status, manifest>> /\ (aborted => aborted')
  PROVE  RecordInv'
<1>1. \A c \in Calls : /\ c \in Unsettled <=> c <= seq /\ rec[c] = None
                       /\ rec'[c] = IF c \in Unsettled THEN "interrupted" ELSE rec[c]
                       /\ canc'[c] # canc[c] => c \in Unsettled /\ canc'[c] = "refused"
  BY DEF InterruptAll, Unsettled, TypeOK, Calls
<1>2. \A c \in Calls :
         /\ Heard /\ c \in Unsettled => rows'[c] = [hash |-> hash[c], out |-> "interrupted"]
         /\ ~(Heard /\ c \in Unsettled) => rows'[c] = rows[c]
  BY DEF InterruptedRows, TypeOK
<1>3. \A c \in Calls : c <= seq => rec'[c] # None
  BY <1>1 DEF None
<1>4. Fresh' /\ Replays' /\ Misses'
  BY <1>1 DEF RecordInv, Fresh, Replays, Misses, TypeOK, Calls
<1>5. Quiet' /\ Ended'
  <2>1. Quiet'
    BY <1>3 DEF RecordInv, Quiet, Heard
  <2>2. Ended'
    BY <1>1, <1>3 DEF RecordInv, Ended, None, TypeOK
  <2> QED
    BY <2>1, <2>2
<1>6. ASSUME Heard, NEW c \in Calls, c <= seq PROVE rows'[c].out # None
  <2>1. CASE c \in Unsettled
    <3>1. rows'[c] = [hash |-> hash[c], out |-> "interrupted"]
      BY <1>2, <1>6, <2>1
    <3> QED
      BY <3>1 DEF None
  <2>2. CASE c \notin Unsettled
    <3>1. rows'[c] = rows[c] /\ rec[c] # None
      BY <1>1, <1>2, <1>6, <2>2
    <3> QED
      BY <1>6, <3>1 DEF RecordInv, RecRows
  <2> QED
    BY <2>1, <2>2
<1>7. RecRows'
  <2>1. ASSUME Heard', NEW c \in Calls, rec'[c] # None PROVE rows'[c].out # None
    <3>1. Heard
      BY <2>1 DEF Heard
    <3>2. c <= seq
      BY <1>1, <2>1 DEF RecordInv, Fresh, TypeOK, Calls
    <3> QED
      BY <1>6, <3>1, <3>2
  <2> QED
    BY <2>1 DEF RecRows
<1>8. RecJournal'
  BY <1>1 DEF RecordInv, RecJournal
<1>9. Told'
  <2>1. ASSUME NEW c \in Calls, canc'[c] = "acked"
        PROVE  /\ rec'[c] = "cancelled" /\ pc'[c] \in {"leaving", "done"}
               /\ rows'[c].out = "cancelled"
    <3>1. canc[c] = "acked" /\ rec[c] = "cancelled" /\ pc[c] \in {"leaving", "done"}
      BY <1>1, <2>1 DEF RecordInv, Told
    <3>2. status # "completed"
      BY DEF RecordInv, Quiet
    <3>3. c \notin Unsettled /\ rows[c].out = "cancelled"
      BY <1>1, <3>1, <3>2 DEF RecordInv, Told, None
    <3> QED
      BY <1>1, <1>2, <3>1, <3>3
  <2> QED
    BY <2>1 DEF Told
<1>10. DenseManifest'
  <2>1. ASSUME status' # "running", NEW c \in Calls, c \in 1..manifest'
        PROVE  rows'[c].out # None \/ (end'.code \in {"error", "limit"} /\ c > end'.seq)
    <3>1. CASE Heard
      <4>1. c <= seq
        BY <2>1, <3>1 DEF Heard
      <4> QED
        BY <1>6, <3>1, <4>1
    <3>2. CASE ~Heard
      <4>1. rows'[c] = rows[c] /\ manifest' = manifest /\ status # "running"
        BY <1>2, <3>2 DEF Heard
      <4>2. CASE end' = end
        BY <2>1, <4>1, <4>2 DEF RecordInv, DenseManifest
      <4>3. CASE script \in {"runs", "returned"}
        <5>1. end.code = None
          BY <4>3 DEF RecordInv, Ended
        <5> QED
          BY <2>1, <4>1, <5>1 DEF RecordInv, DenseManifest, None
      <4> QED
        BY <4>2, <4>3
    <3> QED
      BY <3>1, <3>2
  <2>2. 1..manifest' \subseteq Calls
    <3>1. manifest' \in 0..MaxAgents
      BY DEF TypeOK
    <3> QED
      BY <3>1, BoundsAssumption DEF Calls
  <2> QED
    BY <2>1, <2>2 DEF DenseManifest
<1>11. ResultsJournaled'
  <2>1. ASSUME NEW c \in Calls, rows'[c].out = "result" PROVE journal'[c] = rows'[c].hash
    <3>1. ~(Heard /\ c \in Unsettled)
      <4>1. [hash |-> hash[c], out |-> "interrupted"].out # "result"
        OBVIOUS
      <4> QED
        BY <1>2, <2>1, <4>1
    <3>2. rows'[c] = rows[c] /\ journal' = journal
      BY <1>2, <3>1
    <3> QED
      BY <2>1, <3>2 DEF RecordInv, ResultsJournaled
  <2> QED
    BY <2>1 DEF ResultsJournaled
<1> QED
  BY <1>4, <1>5, <1>7, <1>8, <1>9, <1>10, <1>11 DEF RecordInv

\* The manager takes the records of an engine that completed.
LEMMA RecordCompletes ==
  ASSUME TypeOK, TypeOK', RecordInv, ManagerCompletes
  PROVE  RecordInv'
<1>1. /\ UNCHANGED <<seq, hash, pc, resume, journal, pending, end, aborted, rec, canc>>
      /\ script = "over" /\ script' = "settled" /\ status' = "completed"
      /\ rows' = EngineRows /\ manifest' = end.seq /\ end.code = "completed"
  BY DEF ManagerCompletes, body
<1>2. \A c \in Calls :
         rows'[c] = IF c > end.seq THEN NoRow ELSE [hash |-> hash[c], out |-> rec[c]]
  BY <1>1 DEF EngineRows
<1>3. end.seq \in 0..MaxAgents /\ \A c \in Calls : c <= end.seq => rec[c] # None
  BY <1>1 DEF RecordInv, Ended, TypeOK, None
<1>4. Fresh' /\ Replays' /\ Misses'
  BY <1>1 DEF RecordInv, Fresh, Replays, Misses
<1>5. Quiet' /\ Ended' /\ RecRows' /\ RecJournal'
  BY <1>1 DEF RecordInv, Quiet, Ended, RecRows, RecJournal, Heard, None
<1>6. Told'
  <2>1. ASSUME NEW c \in Calls, canc'[c] = "acked"
        PROVE  /\ rec'[c] = "cancelled" /\ pc'[c] \in {"leaving", "done"}
               /\ rows'[c].out = "cancelled" \/ c > end'.seq
    <3>1. rec[c] = "cancelled" /\ pc[c] \in {"leaving", "done"}
      BY <1>1, <2>1 DEF RecordInv, Told
    <3>2. c > end.seq \/ rows'[c] = [hash |-> hash[c], out |-> "cancelled"]
      BY <1>2, <3>1
    <3> QED
      BY <1>1, <3>1, <3>2
  <2> QED
    BY <1>1, <2>1 DEF Told
<1>7. DenseManifest'
  <2>1. ASSUME NEW c \in 1..manifest' PROVE rows'[c].out # None
    <3>1. c \in Calls /\ ~(c > end.seq) /\ rec[c] # None
      BY <1>1, <1>3, BoundsAssumption DEF Calls
    <3>2. rows'[c] = [hash |-> hash[c], out |-> rec[c]]
      BY <1>2, <3>1
    <3> QED
      BY <3>1, <3>2
  <2> QED
    BY <2>1 DEF DenseManifest
<1>8. ResultsJournaled'
  <2>1. ASSUME NEW c \in Calls, rows'[c].out = "result" PROVE journal'[c] = rows'[c].hash
    <3>1. NoRow.out # "result"
      BY DEF NoRow, None
    <3>2. rows'[c] = [hash |-> hash[c], out |-> rec[c]]
      BY <1>2, <2>1, <3>1
    <3>3. rec[c] = "result" /\ rows'[c].hash = hash[c]
      BY <2>1, <3>2
    <3> QED
      BY <1>1, <3>3 DEF RecordInv, RecJournal
  <2> QED
    BY <2>1 DEF ResultsJournaled
<1> QED
  BY <1>4, <1>5, <1>6, <1>7, <1>8 DEF RecordInv

\* The manager catches the error of an engine that failed.
LEMMA RecordFails ==
  ASSUME TypeOK, TypeOK', RecordInv, ManagerFails
  PROVE  RecordInv'
<1>1. /\ UNCHANGED <<seq, hash, pc, resume, journal, pending, end, aborted, rec, canc, rows>>
      /\ script = "over" /\ script' = "settled" /\ end.code \in Errors
      /\ status' = EndStatus(end.code) /\ manifest' = IF Heard THEN seq ELSE manifest
  BY DEF ManagerFails, body, kept
<1>2. status' # "running" /\ status' # "completed" /\ (~Heard => status' = status)
  BY <1>1 DEF RecordInv, Quiet, EndStatus, Heard
<1>3. Fresh' /\ Replays' /\ Misses' /\ ResultsJournaled'
  BY <1>1 DEF RecordInv, Fresh, Replays, Misses, ResultsJournaled
<1>4. Quiet' /\ Ended' /\ RecRows' /\ RecJournal'
  BY <1>1, <1>2 DEF RecordInv, Quiet, Ended, RecRows, RecJournal, Heard
<1>5. Told'
  <2>1. status # "completed"
    BY <1>1 DEF RecordInv, Quiet
  <2> QED
    BY <1>1, <2>1 DEF RecordInv, Told
<1>6. DenseManifest'
  <2>1. ASSUME NEW c \in 1..manifest'
        PROVE  rows'[c].out # None \/ (end'.code \in {"error", "limit"} /\ c > end'.seq)
    <3>1. CASE Heard
      <4>1. /\ c \in Calls /\ c <= seq /\ end.seq \in Nat
            /\ (c <= end.seq => rec[c] # None)
            /\ (end.code = "checkpoint_required" => end.seq = seq)
        BY <1>1, <2>1, <3>1, BoundsAssumption DEF RecordInv, Ended, TypeOK, Calls, Errors, None
      <4>2. c <= end.seq => rows[c].out # None
        BY <3>1, <4>1 DEF RecordInv, RecRows
      <4> QED
        BY <1>1, <4>1, <4>2 DEF Errors, Calls
    <3>2. CASE ~Heard
      BY <1>1, <2>1, <3>2 DEF RecordInv, DenseManifest, Heard
    <3> QED
      BY <3>1, <3>2
  <2> QED
    BY <2>1 DEF DenseManifest
<1> QED
  BY <1>3, <1>4, <1>5, <1>6 DEF RecordInv

\* Conclude, as what RecordSettle needs of it.
LEMMA ConcludeAnswers ==
  ASSUME TypeOK, NEW c \in Calls, NEW out \in Outcomes, Conclude(c, out)
  PROVE  /\ \A d \in Calls \ {c} : canc'[d] = canc[d]
         /\ canc'[c] = "acked" => canc[c] = "acked" \/ (out = "cancelled" /\ rec[c] = None /\ Heard)
<1>1. PICK saved \in BOOLEAN :
        canc' = [canc EXCEPT ![c] =
          IF @ = "asked" THEN IF rec[c] = None /\ Heard THEN Answered(out, saved) ELSE "refused"
                         ELSE @]
  BY DEF Conclude
<1> QED
  BY <1>1 DEF Answered, TypeOK

LEMMA RecordStep ==
  ASSUME TypeOK, TypeOK', LimiterInv, RecordInv, [Next]_vars
  PROVE  RecordInv'
<1>1. CASE UNCHANGED vars
  BY <1>1, RecordMove DEF vars, run, flow, body, kept, RecordInv, Fresh
<1>2. ASSUME NEW h \in Hashes, Agent(h) PROVE RecordInv'
  <2>1. /\ seq + 1 \in Calls /\ h \in AnyHash /\ ~Halted
        /\ seq' = seq + 1 /\ hash' = [hash EXCEPT ![seq + 1] = h]
    BY <1>2 DEF Agent, TypeOK, Calls, AnyHash
  <2>2. CASE Cached(seq + 1, h)
    <3>1. pc' = [pc EXCEPT ![seq + 1] = "replaying"]
      BY <1>2, <2>2 DEF Agent
    <3>2. pc'[seq + 1] = "replaying" /\ \A d \in Calls \ {seq + 1} : pc'[d] = pc[d]
      BY <2>1, <3>1 DEF TypeOK
    <3> QED
      BY <1>2, <2>1, <2>2, <3>2, RecordAllocate DEF Agent, run, flow, kept
  <2>3. CASE ~Cached(seq + 1, h)
    <3>1. Admit(seq + 1)
      BY <1>2, <2>3 DEF Agent
    <3>2. pc' = [pc EXCEPT ![seq + 1] = "queued"] \/ pc' = [pc EXCEPT ![seq + 1] = "entered"]
      BY <3>1 DEF Admit
    <3>3. pc'[seq + 1] \in {"queued", "entered", "asking"} /\ \A d \in Calls \ {seq + 1} : pc'[d] = pc[d]
      BY <2>1, <3>2 DEF TypeOK
    <3> QED
      BY <1>2, <2>1, <2>3, <3>3, RecordAllocate DEF Agent, run, flow, kept
  <2> QED
    BY <2>2, <2>3
<1>3. CASE Checkpoint
  <2>1. /\ seq + 1 \in Calls /\ Ask \in AnyHash /\ ~Halted
        /\ seq' = seq + 1 /\ hash' = [hash EXCEPT ![seq + 1] = Ask]
    BY <1>3 DEF Checkpoint, TypeOK, Calls, AnyHash
  <2>2. CASE Cached(seq + 1, Ask)
    <3>1. /\ pc' = [pc EXCEPT ![seq + 1] = "done"]
          /\ rec' = [rec EXCEPT ![seq + 1] = "result"]
          /\ rows' = IF Heard THEN [rows EXCEPT ![seq + 1] = [hash |-> Ask, out |-> "result"]]
                              ELSE rows
      BY <1>3, <2>2 DEF Checkpoint
    <3>2. pc'[seq + 1] = "done" /\ \A d \in Calls \ {seq + 1} : pc'[d] = pc[d]
      BY <2>1, <3>1 DEF TypeOK
    <3> QED
      BY <1>3, <2>1, <2>2, <3>1, <3>2, RecordAllocate DEF Checkpoint, run, flow
  <2>3. CASE ~Cached(seq + 1, Ask)
    <3>1. pc' = [pc EXCEPT ![seq + 1] = "asking"] /\ UNCHANGED <<rec, rows>>
      BY <1>3, <2>3 DEF Checkpoint
    <3>2. /\ pc'[seq + 1] \in {"queued", "entered", "asking"}
          /\ \A d \in Calls \ {seq + 1} : pc'[d] = pc[d]
      BY <2>1, <3>1 DEF TypeOK
    <3> QED
      BY <1>3, <2>1, <2>3, <3>1, <3>2, RecordAllocate DEF Checkpoint, run, flow
  <2> QED
    BY <2>2, <2>3
<1>4. CASE ScriptReturns
  BY <1>4, RecordMove DEF ScriptReturns, run, body, kept, RecordInv, Fresh
<1>5. ASSUME NEW code \in Errors \cup {"completed"}, EngineEnds(code),
             script \in {"runs", "returned"}, code = "checkpoint_required" => pending # 0,
             aborted => aborted'
      PROVE  RecordInv'
  <2>1. end'.code = code /\ end'.seq = seq /\ code # None
    BY <1>5 DEF EngineEnds, Errors, None
  <2> QED
    BY <1>5, <2>1, RecordInterrupt DEF EngineEnds, body
<1>6. CASE EngineCompletes
  BY <1>5, <1>6 DEF EngineCompletes
<1>14. ASSUME NEW code \in Errors, EngineFails(code) PROVE RecordInv'
  <2>1. script \in {"runs", "returned"} /\ (code = "checkpoint_required" => pending # 0)
    BY <1>14 DEF EngineFails, Codes, Errors
  <2> QED
    BY <1>5, <1>14, <2>1 DEF EngineFails
<1>15. CASE ManagerCompletes
  BY <1>15, RecordCompletes
<1>16. CASE ManagerFails
  BY <1>16, RecordFails
<1>7. ASSUME NEW new \in {"paused", "aborted"}, Halt(new) PROVE RecordInv'
  <2>1. /\ InterruptAll /\ status' \in {"paused", "aborted"} /\ script' = script /\ aborted'
        /\ rows' = InterruptedRows /\ manifest' = IF Heard THEN seq ELSE manifest
        /\ status # "completed" /\ end' = end
    BY <1>7 DEF Halt
  <2> QED
    BY <1>7, <2>1, RecordInterrupt DEF Halt, body
<1>8. ASSUME NEW z \in old, OldReturns(z) \/ CancelOld(z) PROVE RecordInv'
  BY <1>8, RecordMove DEF OldReturns, CancelOld, run, flow, body, kept, RecordInv, Fresh
<1>9. ASSUME NEW c \in Calls, Runs(c) PROVE RecordInv'
  <2>1. CASE Wake(c)
    <3>1. pc[c] = "woken" /\ pc' = [pc EXCEPT ![c] = "entered"]
      BY <2>1 DEF Wake
    <3>2. /\ \A d \in Calls : d > seq => pc'[d] = None /\ canc[d] = None
          /\ \A d \in Calls : pc'[d] = "replaying" => pc[d] = "replaying"
          /\ \A d \in Calls : pc'[d] \in Ahead => pc[d] \in Ahead
          /\ \A d \in Calls : pc[d] \in {"leaving", "done"} => pc'[d] \in {"leaving", "done"}
      BY <3>1 DEF RecordInv, Fresh, TypeOK, Ahead, None
    <3> QED
      BY <2>1, <3>2, RecordMove DEF Wake, run, flow, kept
  <2>2. CASE Leave(c)
    <3>1. \A d \in Woken : d \in Calls /\ pc[d] = "queued"
      <4>1. CASE queue = <<>>
        BY <4>1 DEF Woken
      <4>2. CASE queue # <<>>
        <5>1. queue \in Seq(Calls)
          BY DEF TypeOK
        <5>2. Len(queue) \in Nat /\ Len(queue) >= 1 /\ Head(queue) = queue[1]
          BY <4>2, <5>1
        <5>3. 1 \in 1..Len(queue) /\ queue[1] \in Calls
          BY <5>1, <5>2
        <5> QED
          BY <4>2, <5>2, <5>3 DEF Woken, LimiterInv, Line
      <4> QED
        BY <4>1, <4>2
    <3>2. /\ pc[c] = "leaving"
          /\ \A d \in Calls : pc'[d] = IF d = c THEN "done" ELSE IF d \in Woken THEN "woken" ELSE pc[d]
      BY <2>2 DEF Leave
    <3>3. /\ \A d \in Calls : d > seq => pc'[d] = None /\ canc[d] = None
          /\ \A d \in Calls : pc'[d] = "replaying" => pc[d] = "replaying"
          /\ \A d \in Calls : pc'[d] \in Ahead => pc[d] \in Ahead
          /\ \A d \in Calls : pc[d] \in {"leaving", "done"} => pc'[d] \in {"leaving", "done"}
      BY <3>1, <3>2 DEF RecordInv, Fresh, Ahead, None
    <3> QED
      BY <2>2, <3>3, RecordMove DEF Leave, run, flow, kept
  <2>3. CASE ReplayLands(c)
    <3>1. pc[c] = "replaying" /\ pc' = [pc EXCEPT ![c] = "done"] /\ journal[c] = hash[c]
      BY <2>3 DEF ReplayLands, RecordInv, Replays
    <3>2. CASE Halted
      <4>1. /\ \A d \in Calls : d > seq => pc'[d] = None /\ canc[d] = None
            /\ \A d \in Calls : pc'[d] = "replaying" => pc[d] = "replaying"
            /\ \A d \in Calls : pc'[d] \in Ahead => pc[d] \in Ahead
            /\ \A d \in Calls : pc[d] \in {"leaving", "done"} => pc'[d] \in {"leaving", "done"}
        BY <3>1 DEF RecordInv, Fresh, TypeOK, Ahead, None
      <4> QED
        BY <2>3, <3>2, <4>1, RecordMove DEF ReplayLands, run, flow
    <3>3. CASE ~Halted
      <4>1. "result" \in Outcomes /\ pc[c] # None
        BY <3>1 DEF Outcomes, None
      <4> QED
        BY <2>3, <3>1, <3>3, <4>1, RecordSettle DEF ReplayLands, run, flow
    <3> QED
      BY <3>2, <3>3
  <2>4. CASE Begin(c)
    <3>1. CASE Halted
      <4>1. /\ "error" \in Outcomes /\ pc[c] # None /\ Conclude(c, "error")
            /\ UNCHANGED <<seq, hash, resume, status, script, end, aborted, pending, manifest, journal>>
        BY <2>4, <3>1 DEF Begin, Outcomes, None, run, flow
      <4> QED
        BY <4>1, ConcludeAnswers, RecordSettle DEF Conclude
    <3>2. CASE ~Halted
      <4>1. pc[c] = "entered" /\ pc' = [pc EXCEPT ![c] = "running"]
        BY <2>4, <3>2 DEF Begin
      <4>2. /\ \A d \in Calls : d > seq => pc'[d] = None /\ canc[d] = None
            /\ \A d \in Calls : pc'[d] = "replaying" => pc[d] = "replaying"
            /\ \A d \in Calls : pc'[d] \in Ahead => pc[d] \in Ahead
            /\ \A d \in Calls : pc[d] \in {"leaving", "done"} => pc'[d] \in {"leaving", "done"}
        BY <4>1 DEF RecordInv, Fresh, TypeOK, Ahead, None
      <4> QED
        BY <2>4, <3>2, <4>2, RecordMove DEF Begin, run, flow
    <3> QED
      BY <3>1, <3>2
  <2>5. CASE AttemptSucceeds(c)
    <3>1. /\ "result" \in Outcomes /\ pc[c] # None /\ Conclude(c, "result")
          /\ UNCHANGED <<seq, hash, resume, status, script, end, aborted, pending, manifest>>
          /\ journal' = Journaled(c)
      BY <2>5 DEF AttemptSucceeds, Outcomes, None, run, flow
    <3> QED
      BY <3>1, ConcludeAnswers, RecordSettle DEF Conclude
  <2>6. CASE AttemptRetried(c)
    <3>1. pc[c] = "answered" /\ pc' = [pc EXCEPT ![c] = "running"]
      BY <2>6 DEF AttemptRetried
    <3>2. /\ \A d \in Calls : d > seq => pc'[d] = None /\ canc[d] = None
          /\ \A d \in Calls : pc'[d] = "replaying" => pc[d] = "replaying"
          /\ \A d \in Calls : pc'[d] \in Ahead => pc[d] \in Ahead
          /\ \A d \in Calls : pc[d] \in {"leaving", "done"} => pc'[d] \in {"leaving", "done"}
      BY <3>1 DEF RecordInv, Fresh, TypeOK, Ahead, None
    <3> QED
      BY <2>6, <3>2, RecordMove DEF AttemptRetried, run, flow, kept
  <2>7. CASE AttemptFails(c)
    <3>1. FailureOf(c) \in Outcomes /\ FailureOf(c) # "result"
      BY DEF FailureOf, Outcomes
    <3>2. /\ pc[c] # None /\ Conclude(c, FailureOf(c))
          /\ UNCHANGED <<seq, hash, resume, status, script, end, aborted, pending, manifest, journal>>
      BY <2>7 DEF AttemptFails, None, run, flow
    <3> QED
      BY <3>1, <3>2, ConcludeAnswers, RecordSettle DEF Conclude
  <2> QED
    BY <1>9, <2>1, <2>2, <2>3, <2>4, <2>5, <2>6, <2>7 DEF Runs
<1>10. ASSUME NEW c \in Calls, RunnerAnswers(c) PROVE RecordInv'
  <2>1. pc[c] = "running" /\ pc' = [pc EXCEPT ![c] = "answered"]
    BY <1>10 DEF RunnerAnswers
  <2>2. /\ \A d \in Calls : d > seq => pc'[d] = None /\ canc[d] = None
        /\ \A d \in Calls : pc'[d] = "replaying" => pc[d] = "replaying"
        /\ \A d \in Calls : pc'[d] \in Ahead => pc[d] \in Ahead
        /\ \A d \in Calls : pc[d] \in {"leaving", "done"} => pc'[d] \in {"leaving", "done"}
    BY <2>1 DEF RecordInv, Fresh, TypeOK, Ahead, None
  <2> QED
    BY <1>10, <2>2, RecordMove DEF RunnerAnswers, run, flow, kept
<1>11. ASSUME NEW c \in Calls, Decided(c) \/ Undecided(c) PROVE RecordInv'
  <2> DEFINE out == IF Undecided(c) \/ Halted THEN "error" ELSE "result"
  <2>1. /\ pc[c] # None /\ pc' = [pc EXCEPT ![c] = "done"]
        /\ UNCHANGED <<seq, hash, resume, status, script, end, aborted, manifest, canc>>
        /\ pending' = pending \/ (pending' # 0 /\ pending = 0)
    BY <1>11 DEF Decided, Undecided, Halted, None, run, flow, Calls
  <2>2. CASE Undecided(c)
    <3>1. "error" \in Outcomes
      BY DEF Outcomes
    <3> QED
      BY <2>1, <2>2, <3>1, RecordSettle DEF Undecided
  <2>3. CASE Decided(c) /\ Halted
    <3>1. "error" \in Outcomes
      BY DEF Outcomes
    <3>2. rec' = Settled(c, "error") /\ rows' = Recorded(c, "error") /\ journal' = journal
      BY <2>3 DEF Decided
    <3> QED
      BY <2>1, <3>1, <3>2, RecordSettle
  <2>4. CASE Decided(c) /\ ~Halted
    <3>1. "result" \in Outcomes
      BY DEF Outcomes
    <3>2. rec' = Settled(c, "result") /\ rows' = Recorded(c, "result") /\ journal' = Journaled(c)
      BY <2>4 DEF Decided
    <3> QED
      BY <2>1, <3>1, <3>2, RecordSettle
  <2> QED
    BY <1>11, <2>2, <2>3, <2>4
<1>12. ASSUME NEW c \in Calls, CancelAgentCall(c) PROVE RecordInv'
  <2>1. /\ pc[c] \in {"running", "answered"} /\ pc' = [pc EXCEPT ![c] = "answered"]
        /\ canc[c] = None /\ canc' = [canc EXCEPT ![c] = "asked"]
    BY <1>12 DEF CancelAgentCall, InFlight
  <2>2. \A d \in Calls : d > seq => pc'[d] = None /\ canc'[d] = None
    BY <2>1 DEF RecordInv, Fresh, TypeOK, None
  <2>3. /\ \A d \in Calls : pc'[d] = "replaying" => pc[d] = "replaying"
        /\ \A d \in Calls : pc'[d] \in Ahead => pc[d] \in Ahead
        /\ \A d \in Calls : pc[d] \in {"leaving", "done"} => pc'[d] \in {"leaving", "done"}
    BY <2>1 DEF TypeOK, Ahead
  <2>4. \A d \in Calls : canc'[d] = "acked" => canc[d] = "acked"
    BY <2>1 DEF TypeOK
  <2> QED
    BY <1>12, <2>2, <2>3, <2>4, RecordMove DEF CancelAgentCall, run, flow, kept
<1>13. ASSUME NEW reply \in BOOLEAN, Continue(reply) PROVE RecordInv'
  <2>1. /\ pc' = Nowhere /\ rec' = Nowhere /\ canc' = Nowhere
        /\ status' = "running" /\ script' = "runs" /\ journal' = resume' /\ end' = NoEnd
    BY <1>13 DEF Continue
  <2>2. \A c \in Calls : pc'[c] = None /\ rec'[c] = None /\ canc'[c] = None
    BY <2>1 DEF Nowhere
  <2>3. /\ Fresh' /\ Replays' /\ Misses' /\ Quiet' /\ Ended' /\ RecRows' /\ RecJournal'
        /\ Told' /\ DenseManifest'
    BY <2>1, <2>2 DEF Fresh, Replays, Misses, Quiet, Ended, RecRows, RecJournal, Told,
          DenseManifest, Heard, NoEnd, None
  <2>4. ResultsJournaled'
    <3>1. CASE reply
      <4>1. /\ journal' = [journal EXCEPT ![pending] = Ask]
            /\ rows' = [rows EXCEPT ![pending] = [hash |-> Ask, out |-> "result"]]
        BY <1>13, <3>1 DEF Continue, ReplyEntry
      <4> QED
        BY <4>1 DEF RecordInv, ResultsJournaled, TypeOK
    <3>2. CASE ~reply
      <4>1. journal' = journal /\ rows' = rows
        BY <1>13, <3>2 DEF Continue, ReplyEntry
      <4> QED
        BY <4>1 DEF RecordInv, ResultsJournaled
    <3> QED
      BY <3>1, <3>2
  <2> QED
    BY <2>3, <2>4 DEF RecordInv
<1> QED
  BY <1>1, <1>2, <1>3, <1>4, <1>6, <1>7, <1>8, <1>9, <1>10, <1>11, <1>12, <1>13, <1>14, <1>15,
     <1>16 DEF Next

-----------------------------------------------------------------------------
(* The theorems *)

LEMMA Inv == Spec => []IInv
<1>1. Init => IInv
  BY InitInv
<1>2. IInv /\ [Next]_vars => IInv'
  <2> SUFFICES ASSUME IInv, [Next]_vars PROVE IInv'
    OBVIOUS
  <2>1. TypeOK /\ LimiterInv /\ RecordInv
    BY DEF IInv
  <2>2. TypeOK'
    BY <2>1, TypeStep DEF LimiterInv
  <2>3. LimiterInv'
    BY <2>1, LimiterStep DEF RecordInv
  <2>4. RecordInv'
    BY <2>1, <2>2, RecordStep
  <2> QED
    BY <2>2, <2>3, <2>4 DEF IInv
<1> QED
  BY <1>1, <1>2, PTL DEF Spec

\* Every variable keeps its type; in particular the limiter's count never goes
\* below zero (createLimiter).
THEOREM TypeCorrect == Spec => []TypeOK
<1>1. IInv => TypeOK
  BY DEF IInv
<1> QED
  BY <1>1, Inv, PTL

\* No call waits for the limiter while a slot is neither in use nor handed to
\* a waiter, whatever the order in which calls arrive, end, are woken and run
\* (createLimiter).
THEOREM NoSlotIdle == Spec => []NoIdleSlot
<1>1. IInv => NoIdleSlot
  BY DEF IInv, LimiterInv
<1> QED
  BY <1>1, Inv, PTL

\* A run saved when it is over has a row for every call it allocated, however
\* it ended and however often it was continued, but for those a branch nobody
\* awaits allocates after an engine failed and before its manager hears of it
\* (interruptUnsettledCalls).
THEOREM ManifestDense == Spec => []DenseManifest
<1>1. IInv => DenseManifest
  BY DEF IInv, RecordInv
<1> QED
  BY <1>1, Inv, PTL

\* Every row that promises a result has its journal entry, of that very call
\* (onAgentJournal, settle).
THEOREM ResultsKept == Spec => []ResultsJournaled
<1>1. IInv => ResultsJournaled
  BY DEF IInv, RecordInv
<1> QED
  BY <1>1, Inv, PTL

\* No attempt starts for a call whose result is in the journal, in any
\* generation (replayPreparedAgent, runPreparedAgent).
THEOREM WorkNotRedone == Spec => NoRework
<1>1. IInv /\ [Next]_vars => [\A c \in Calls : att'[c] > att[c] => journal[c] # hash[c]]_vars
  <2> SUFFICES ASSUME IInv, Next, NEW c \in Calls, att'[c] > att[c]
               PROVE  journal[c] # hash[c]
    BY DEF IInv
  <2>1. att \in [Calls -> 0..(Retries + 1)] /\ Retries \in Nat
    BY BoundsAssumption DEF IInv, TypeOK
  <2>2. ~(UNCHANGED att)
    BY <2>1
  <2>3. ASSUME NEW d \in Calls, NEW out, Conclude(d, out) PROVE FALSE
    BY <2>1, <2>3 DEF Conclude
  <2>4. ~\E reply \in BOOLEAN : Continue(reply)
    BY <2>1 DEF Continue
  <2>5. ASSUME NEW d \in Calls, \/ pc[d] = "entered" /\ att' = [att EXCEPT ![d] = 1]
                                \/ pc[d] = "answered" /\ att' = [att EXCEPT ![d] = @ + 1]
        PROVE  journal[c] # hash[c]
    <3>1. c = d
      BY <2>1, <2>5
    <3> QED
      BY <2>5, <3>1 DEF IInv, RecordInv, Misses
  <2>6. ASSUME NEW d \in Calls, Runs(d) PROVE journal[c] # hash[c]
    <3>1. ~(Wake(d) \/ Leave(d) \/ ReplayLands(d))
      BY <2>2 DEF Wake, Leave, ReplayLands
    <3>2. ~(AttemptSucceeds(d) \/ AttemptFails(d))
      BY <2>3 DEF AttemptSucceeds, AttemptFails
    <3>3. CASE Begin(d)
      BY <2>3, <2>5, <3>3 DEF Begin
    <3>4. CASE AttemptRetried(d)
      BY <2>5, <3>4 DEF AttemptRetried
    <3> QED
      BY <2>6, <3>1, <3>2, <3>3, <3>4 DEF Runs
  <2> QED
    BY <2>2, <2>4, <2>6 DEF Next, Agent, Checkpoint, ScriptReturns, EngineCompletes, EngineFails,
          EngineEnds, ManagerCompletes, ManagerFails, RunnerAnswers, Decided, Undecided,
          CancelAgentCall, OldReturns, CancelOld, Halt, body
<1> QED
  BY <1>1, Inv, PTL DEF Spec, NoRework

\* A cancellation is acknowledged only for a call that is settled as
\* cancelled, in the engine's records and in the rows, and of which no attempt
\* goes on (completeAgentCancellation, cancelAgentCall).
THEOREM CancellationsTruthful == Spec => CancelTruthful
<1> DEFINE Answer == /\ \A c \in Calls : canc'[c] = "acked" =>
                           /\ rec'[c] = "cancelled" /\ ~InFlight(c)'
                           /\ rows'[c].out = "cancelled" \/ (status' = "completed" /\ c > end'.seq)
                     /\ \A z \in old' \ old : z.canc = "acked" => rec'[z.call] = "cancelled"
<1>1. IInv /\ IInv' /\ [Next]_vars => [Answer]_vars
  <2> SUFFICES ASSUME IInv, IInv', Next PROVE Answer
    OBVIOUS
  <2>1. \A c \in Calls : canc'[c] = "acked" =>
             /\ rec'[c] = "cancelled" /\ ~InFlight(c)'
             /\ rows'[c].out = "cancelled" \/ (status' = "completed" /\ c > end'.seq)
    BY DEF IInv, RecordInv, Told, InFlight
  <2>2. ASSUME NEW z \in old' \ old, z.canc = "acked" PROVE rec'[z.call] = "cancelled"
    <3>1. ~(UNCHANGED old)
      BY <2>2
    <3>2. ASSUME InterruptAll PROVE FALSE
      <4>1. PICK y \in old : z = IF Heard /\ y.call \in Unsettled /\ y.canc = "asked"
                                 THEN [y EXCEPT !.canc = "refused"] ELSE y
        BY <2>2, <3>2 DEF InterruptAll
      <4>2. y \in [gen : 1..MaxGens, call : Calls, canc : {None, "asked", "acked", "refused"}]
        BY DEF IInv, TypeOK
      <4> QED
        BY <2>2, <4>1, <4>2
    <3>3. ASSUME NEW c \in Calls, NEW out \in Outcomes, Conclude(c, out)
          PROVE  rec'[z.call] = "cancelled"
      <4>1. PICK saved \in BOOLEAN :
              old' = {IF rec[c] = None /\ Heard /\ y.call = c /\ y.canc = "asked"
                      THEN [y EXCEPT !.canc = IF rec[c] = None /\ Heard
                                              THEN Answered(out, saved) ELSE "refused"]
                      ELSE y : y \in old}
        BY <3>3 DEF Conclude
      <4>2. PICK y \in old :
              /\ rec[c] = None /\ Heard /\ y.call = c
              /\ z = [y EXCEPT !.canc = Answered(out, saved)]
        BY <2>2, <4>1
      <4>3. y \in [gen : 1..MaxGens, call : Calls, canc : {None, "asked", "acked", "refused"}]
        BY DEF IInv, TypeOK
      <4>4. z.call = c /\ out = "cancelled"
        BY <2>2, <4>2, <4>3 DEF Answered
      <4>5. rec' = [rec EXCEPT ![c] = IF @ = None THEN out ELSE @]
        BY <3>3 DEF Conclude, Settled
      <4> QED
        BY <4>2, <4>4, <4>5 DEF IInv, TypeOK
    <3>4. ASSUME NEW c \in Calls, Runs(c) PROVE rec'[z.call] = "cancelled"
      <4>1. \E out \in Outcomes : Conclude(c, out)
        <5>1. "error" \in Outcomes /\ "result" \in Outcomes /\ FailureOf(c) \in Outcomes
          BY DEF Outcomes, FailureOf
        <5> QED
          BY <3>1, <3>4, <5>1 DEF Runs, Wake, Leave, ReplayLands, Begin, AttemptSucceeds,
                AttemptRetried, AttemptFails
      <4> QED
        BY <3>3, <4>1
    <3>5. ~\E y \in old : OldReturns(y) \/ CancelOld(y)
      <4>1. ASSUME NEW y \in old, OldReturns(y) PROVE FALSE
        BY <2>2, <4>1 DEF OldReturns
      <4>2. ASSUME NEW y \in old, CancelOld(y) PROVE FALSE
        <5>1. z = [y EXCEPT !.canc = "asked"]
          BY <2>2, <4>2 DEF CancelOld
        <5>2. y \in [gen : 1..MaxGens, call : Calls, canc : {None, "asked", "acked", "refused"}]
          BY DEF IInv, TypeOK
        <5> QED
          BY <2>2, <5>1, <5>2
      <4> QED
        BY <4>1, <4>2
    <3>6. ~\E reply \in BOOLEAN : Continue(reply)
      <4>1. ASSUME NEW reply \in BOOLEAN, Continue(reply) PROVE FALSE
        <5>1. z \in LeftBehind
          BY <2>2, <4>1 DEF Continue
        <5>2. PICK c \in Calls : InFlight(c) /\ z.canc = canc[c]
          BY <5>1 DEF LeftBehind
        <5>3. canc[c] = "acked" /\ pc[c] \in {"running", "answered"}
          BY <2>2, <5>2 DEF InFlight
        <5> QED
          BY <5>3 DEF IInv, RecordInv, Told
      <4> QED
        BY <4>1
    <3> QED
      BY <3>1, <3>2, <3>4, <3>5, <3>6 DEF Next, Agent, Checkpoint, ScriptReturns,
            EngineCompletes, EngineFails, EngineEnds, ManagerCompletes, ManagerFails,
            RunnerAnswers, Decided, Undecided, CancelAgentCall, Halt
  <2> QED
    BY <2>1, <2>2
<1> QED
  BY <1>1, Inv, PTL DEF Spec, CancelTruthful
=============================================================================
