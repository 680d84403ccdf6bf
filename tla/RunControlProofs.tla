-------------------------- MODULE RunControlProofs --------------------------
(***************************************************************************)
(* For any number of managers, daemons and stop intents: run control does  *)
(* nothing to a run that the life cycle alone could not do, so that what   *)
(* RunLifecycleProofs proves holds of a run that is being stopped; only    *)
(* superseded daemons are ever killed; and if run ids are not used again,  *)
(* a stop that any daemon has acknowledged is durable and final.           *)
(***************************************************************************)
EXTENDS RunControl, RunLifecycleProofs

-----------------------------------------------------------------------------
(* Run control implements the life cycle *)

LEMMA StopIsStep ==
  ASSUME NEW m \in alive, NEW o \in Outcomes, Stops(m, o),
         StopHere(m, o) \/ StopPersisted(m, o)
  PROVE  Next
<1>1. StopRunning(m, o) \/ StopPaused(m, o) \/ StopCold(m, o)
  BY DEF StopHere, StopPersisted
<1>2. CASE StopRunning(m, o)
  <2>1. Attempts(o, {"append", "save"}) /\ Charge(m, o)
    BY <1>2 DEF Stops, StopRunning
  <2> QED
    BY <1>2, <2>1 DEF Next, WritingStep, PublishingStep
<1>3. CASE StopPaused(m, o) \/ StopCold(m, o)
  <2>1. Attempts(o, {"read", "append", "save"}) /\ Charge(m, o)
    BY DEF Stops, Attempts
  <2> QED
    BY <1>3, <2>1 DEF Next, WritingStep, ReloadingStep
<1> QED
  BY <1>1, <1>2, <1>3

LEMMA ApplyIsStep ==
  ASSUME NEW m \in alive, NEW i \in Ids, ApplyWholeIntent(m, i)
  PROVE  [Next]_vars
<1>1. CASE NothingStopped
  BY <1>1 DEF NothingStopped, lifecycle
<1>2. CASE \E o \in Outcomes : Stops(m, o) /\ (StopHere(m, o) \/ StopPersisted(m, o))
  BY <1>2, StopIsStep
<1> QED
  BY <1>1, <1>2 DEF ApplyWholeIntent

(* A stop call reconciles and stops as the life cycle does, or only reads. *)
LEMMA CallIsStep ==
  ASSUME NEW d \in Daemons, StopCall(d)
  PROVE  [Next]_vars
<1>1. CASE \E force \in BOOLEAN : StopTool(d, force)
  <2>1. d \in alive
    BY <1>1 DEF StopTool, Idle, Serves
  <2> QED
    BY <1>1, <2>1 DEF StopTool, NothingStopped, lifecycle, Next, WritingStep, SavingStep
<1>2. CASE LoadOwn(d)
  <2>1. d \in alive
    BY <1>2 DEF LoadOwn, InCall
  <2> QED
    BY <1>2, <2>1, StopIsStep DEF LoadOwn, NothingStopped, lifecycle
<1>3. CASE Cold(d)
  <2>1. d \in alive
    BY <1>3 DEF Cold, InCall
  <2> QED
    BY <1>3, <2>1, StopIsStep DEF Cold, NothingStopped, lifecycle
<1>4. CASE \/ Load(d) \/ Proceed(d) \/ Again(d) \/ Kill(d) \/ Died(d) \/ Last(d)
           \/ \E i \in Ids : Create(d, i)
  BY <1>4 DEF Load, Proceed, Again, Kill, Died, Last, Create, Moves, lifecycle
<1> QED
  BY <1>1, <1>2, <1>3, <1>4 DEF StopCall

LEMMA StepIsNext ==
  ASSUME [ControlNext]_allVars
  PROVE  [Next]_vars
<1>1. ASSUME NEW m \in Managers, Lifecycle(m) PROVE [Next]_vars
  BY <1>1 DEF Lifecycle, Serves, Next
<1>2. ASSUME NEW m \in Managers, Dies(m) PROVE [Next]_vars
  BY <1>2 DEF Dies, Next
<1>3. ASSUME NEW d \in Daemons, Poll(d) PROVE [Next]_vars
  BY <1>3, ApplyIsStep DEF Poll, Serves
<1>4. ASSUME NEW d \in Daemons, NEW i \in Ids, Arrive(d, i) PROVE [Next]_vars
  BY <1>4, ApplyIsStep DEF Arrive, Serves, NothingStopped, lifecycle
<1>5. ASSUME NEW d \in Daemons, Succeed(d) PROVE [Next]_vars
  BY <1>5 DEF Succeed, lifecycle
<1>6. CASE UNCHANGED allVars
  BY <1>6 DEF allVars
<1> QED
  BY <1>1, <1>2, <1>3, <1>4, <1>5, <1>6, CallIsStep DEF ControlNext

(* Whatever intents, posts, polls and forced stops do to the run, a        *)
(* manager could have done at that moment without them: run control        *)
(* implements the life cycle, and its invariants hold here.                *)
THEOREM ImplementsLifecycle == ControlSpec => Spec
<1>1. ControlInit => Init
  BY DEF ControlInit
<1>2. [ControlNext]_allVars => [Next]_vars
  BY StepIsNext
<1> QED
  BY <1>1, <1>2, PTL DEF ControlSpec, Spec

-----------------------------------------------------------------------------
(* Types *)

CallRecord == [pc : Positions, force : BOOLEAN, owner : Managers \cup {NoManager},
               id : Ids \cup {0}]

(* What ControlTypeOK adds to TypeOK. *)
FilesOK == intent \in [Ids -> Intents] /\ net \subseteq Daemons \X Ids
CallsOK == call \in [Managers -> CallRecord]
FamilyOK == current \in Daemons /\ retired \subseteq Daemons /\ condemned \subseteq Managers

LEMMA BlankCall == NoCall \in CallRecord /\ NoCall.pc = "idle"
  BY DEF CallRecord, NoCall, Positions

LEMMA CallingType ==
  ASSUME NEW c \in [Managers -> CallRecord], Calling(c)
  PROVE  /\ CallsOK'
         /\ \A m \in Managers : call'[m] = c[m] \/ call'[m] = NoCall
  BY BlankCall DEF Calling, CallsOK

LEMMA OwnerType == TypeOK => Owner \in Managers \cup {NoManager}
  BY DEF Owner, TypeOK

LEMMA AcknowledgedType ==
  ASSUME FilesOK, NEW i \in Ids, NEW out \in {"stopped", "already-terminal"}
  PROVE  Acknowledged(i, out) \in [Ids -> Intents]
  BY DEF FilesOK, Acknowledged, Intents

LEMMA ApplyFiles ==
  ASSUME FilesOK, NEW m \in Managers, NEW i \in Ids, ApplyWholeIntent(m, i)
  PROVE  intent' \in [Ids -> Intents]
<1>1. intent' \in {intent, Acknowledged(i, "stopped"), Acknowledged(i, "already-terminal")}
  BY DEF ApplyWholeIntent, StoppedAndAcknowledged
<1> QED
  BY <1>1, AcknowledgedType DEF FilesOK

LEMMA FilesStep ==
  ASSUME FilesOK, ControlNext
  PROVE  FilesOK'
<1> USE DaemonsAssumption
<1>1. ASSUME NEW m \in Managers, Lifecycle(m) PROVE FilesOK'
  <2>1. Removed \in [Ids -> Intents]
    BY DEF Removed, Intents
  <2> QED
    BY <1>1, <2>1 DEF Lifecycle, Posted, FilesOK
<1>2. ASSUME NEW m \in Managers, Dies(m) PROVE FilesOK'
  BY <1>2 DEF Dies, Posted, FilesOK
<1>3. ASSUME NEW d \in Daemons, Poll(d) PROVE FilesOK'
  <2>1. intent' \in [Ids -> Intents]
    BY <1>3, ApplyFiles DEF Poll
  <2> QED
    BY <1>3, <2>1 DEF Poll, Posted, FilesOK
<1>4. ASSUME NEW d \in Daemons, NEW i \in Ids, Arrive(d, i) PROVE FilesOK'
  <2>1. intent' \in [Ids -> Intents]
    BY <1>4, ApplyFiles DEF Arrive, FilesOK
  <2> QED
    BY <1>4, <2>1 DEF Arrive, Posted, FilesOK
<1>5. ASSUME NEW d \in Daemons, Succeed(d) PROVE FilesOK'
  BY <1>5 DEF Succeed, FilesOK, files
<1>6. ASSUME NEW d \in Daemons, StopCall(d) PROVE FilesOK'
  <2>1. ASSUME NEW force \in BOOLEAN, StopTool(d, force) PROVE FilesOK'
    BY <2>1 DEF StopTool, Posted, FilesOK
  <2>2. CASE LoadOwn(d)
    BY <2>2 DEF LoadOwn, Posted, FilesOK
  <2>3. CASE Load(d) \/ Proceed(d) \/ Again(d) \/ Kill(d) \/ Died(d) \/ Last(d)
    BY <2>3 DEF Load, Proceed, Again, Kill, Died, Last, FilesOK, files
  <2>4. ASSUME NEW i \in Ids, Create(d, i) PROVE FilesOK'
    <3>1. Created(i) \in [Ids -> Intents]
      BY DEF Created, Intents, FilesOK
    <3>2. net' \subseteq Daemons \X Ids
      BY <2>4 DEF Create, FilesOK
    <3> QED
      BY <2>4, <3>1, <3>2 DEF Create, FilesOK
  <2>5. CASE Cold(d)
    <3>1. CASE call[d].id \in Ids
      <4>1. intent' \in {intent, Acknowledged(call[d].id, "stopped"),
                         Acknowledged(call[d].id, "already-terminal")}
        BY <2>5 DEF Cold, StoppedAndAcknowledged
      <4> QED
        BY <2>5, <3>1, <4>1, AcknowledgedType DEF Cold, Posted, FilesOK
    <3>2. CASE call[d].id \notin Ids
      <4>1. Acknowledged(call[d].id, "stopped") = intent
            /\ Acknowledged(call[d].id, "already-terminal") = intent
        BY <3>2 DEF Acknowledged, FilesOK
      <4> QED
        BY <2>5, <4>1 DEF Cold, StoppedAndAcknowledged, Posted, FilesOK
    <3> QED
      BY <3>1, <3>2
  <2> QED
    BY <1>6, <2>1, <2>2, <2>3, <2>4, <2>5 DEF StopCall
<1> QED
  BY <1>1, <1>2, <1>3, <1>4, <1>5, <1>6 DEF ControlNext

-----------------------------------------------------------------------------
(* Who may be killed *)

(* Whoever takes the lease is the process that makes the step. *)
Takes(m) == lease' \in {lease, m, NoManager}

LEMMA StopTakes ==
  ASSUME NEW m \in Managers, NEW o \in Outcomes, StopHere(m, o) \/ StopPersisted(m, o)
  PROVE  Takes(m)
<1>1. StopRunning(m, o) \/ StopPaused(m, o) \/ StopCold(m, o)
  BY DEF StopHere, StopPersisted
<1> QED
  BY <1>1 DEF StopRunning, Finish, StopPaused, StopCold, Takes

LEMMA ApplyTakes ==
  ASSUME NEW m \in Managers, NEW i \in Ids, ApplyWholeIntent(m, i)
  PROVE  Takes(m)
<1>1. CASE NothingStopped
  BY <1>1 DEF NothingStopped, lifecycle, vars, Takes
<1>2. CASE \E o \in Outcomes : StopHere(m, o) \/ StopPersisted(m, o)
  BY <1>2, StopTakes
<1> QED
  BY <1>1, <1>2 DEF ApplyWholeIntent

LEMMA WritingTakes ==
  ASSUME NEW m \in Managers, WritingStep(m) \/ MemoryStep(m)
  PROVE  Takes(m)
<1>1. CASE MemoryStep(m)
  BY <1>1 DEF MemoryStep, Unwind, ContinueThrows, Takes
<1>2. ASSUME NEW o \in Outcomes, SavingStep(m, o) PROVE Takes(m)
  BY <1>2 DEF SavingStep, Start, Reconcile, Delete, Takes
<1>3. ASSUME NEW o \in Outcomes, PublishingStep(m, o) PROVE Takes(m)
  BY <1>3 DEF PublishingStep, Observe, RecordResult, EngineResolves, EngineThrows, Pause,
              StopRunning, Finish, Takes
<1>4. ASSUME NEW o \in Outcomes, DecidingStep(m, o) PROVE Takes(m)
  BY <1>4 DEF DecidingStep, RecordDecision, Takes
<1>5. ASSUME NEW o \in Outcomes, ReloadingStep(m, o) PROVE Takes(m)
  BY <1>5 DEF ReloadingStep, StopPaused, StopCold, Regate, RefuseMarked, Takes
<1>6. ASSUME NEW o \in Outcomes, ContinuingStep(m, o) PROVE Takes(m)
  BY <1>6 DEF ContinuingStep, Continue, Takes
<1> QED
  BY <1>1, <1>2, <1>3, <1>4, <1>5, <1>6 DEF WritingStep

InFamily(d) == d \in retired \cup {current}

(* The pointer never names a daemon again; a daemon that has the lease or  *)
(* is in a call was published; and an owner that is probed before it is    *)
(* killed has lost the pointer for good.                                   *)
FamilyInv ==
  /\ FamilyOK /\ CallsOK
  /\ current \notin retired
  /\ lease \in Daemons => InFamily(lease)
  /\ \A d \in Daemons : call[d].pc # "idle" => InFamily(d)
  /\ \A d \in Daemons : call[d].pc = "probe" => call[d].owner \in retired
  /\ condemned \subseteq retired

(* A step of a published process m that may put m into a call, but starts  *)
(* no probe.                                                               *)
LEMMA FamilyKept ==
  ASSUME FamilyInv, UNCHANGED <<current, retired, condemned>>, CallsOK',
         NEW m \in Managers, m \in Daemons => InFamily(m), Takes(m),
         \A d \in Daemons : \/ call'[d] = call[d] \/ call'[d].pc = "idle"
                            \/ d = m /\ call'[d].pc # "probe"
  PROVE  FamilyInv'
<1>1. lease' \in Daemons => lease' \in retired' \cup {current'}
  BY ManagersAssumption, DaemonsAssumption DEF FamilyInv, Takes, InFamily
<1>2. \A d \in Daemons : call'[d].pc # "idle" => InFamily(d)'
  BY DEF FamilyInv, InFamily
<1>3. \A d \in Daemons : call'[d].pc = "probe" => call'[d].owner \in retired'
  BY DEF FamilyInv
<1> QED
  BY <1>1, <1>2, <1>3 DEF FamilyInv, FamilyOK, InFamily

LEMMA FamilyApply ==
  ASSUME FamilyInv, NEW d \in Daemons, Serves(d), NEW i \in Ids, ApplyWholeIntent(d, i),
         Calling(call), UNCHANGED <<family, condemned>>
  PROVE  FamilyInv'
<1>1. d \in Managers /\ InFamily(d) /\ Takes(d)
  BY ApplyTakes, DaemonsAssumption DEF Serves, InFamily
<1>2. CallsOK' /\ \A m \in Managers : call'[m] = call[m] \/ call'[m].pc = "idle"
  BY CallingType, BlankCall DEF FamilyInv, CallsOK
<1> QED
  BY <1>1, <1>2, FamilyKept, DaemonsAssumption DEF family

LEMMA FamilyRuns ==
  ASSUME FamilyInv, NEW m \in Managers, Lifecycle(m) \/ Dies(m)
  PROVE  FamilyInv'
<1>1. UNCHANGED <<current, retired, condemned>> /\ Calling(call)
  BY DEF Lifecycle, Dies, family
<1>2. CallsOK' /\ \A n \in Managers : call'[n] = call[n] \/ call'[n].pc = "idle"
  BY <1>1, CallingType, BlankCall DEF FamilyInv, CallsOK
<1>3. CASE Lifecycle(m)
  <2>1. (m \in Daemons => InFamily(m)) /\ Takes(m)
    BY <1>3, WritingTakes DEF Lifecycle, Serves, InFamily
  <2> QED
    BY <1>1, <1>2, <2>1, FamilyKept, DaemonsAssumption
<1>4. CASE Dies(m)
  <2>1. lease' = lease
    BY <1>4 DEF Dies, Crash
  <2> QED
    BY <1>1, <1>2, <2>1, DaemonsAssumption DEF FamilyInv, FamilyOK, InFamily
<1> QED
  BY <1>3, <1>4

LEMMA FamilySucceeds ==
  ASSUME FamilyInv, NEW d \in Daemons, Succeed(d)
  PROVE  FamilyInv'
<1>1. /\ d \notin retired \cup {current} /\ current' = d /\ retired' = retired \cup {current}
      /\ call' = call /\ condemned' = condemned /\ lease' = lease
  BY DEF Succeed, lifecycle, vars
<1> QED
  BY <1>1 DEF FamilyInv, FamilyOK, CallsOK, InFamily

(* A step of a stop call of d, which leaves d in the call q.               *)
LEMMA FamilyMoves ==
  ASSUME FamilyInv, NEW d \in Daemons, InFamily(d), NEW q \in CallRecord,
         Takes(d), UNCHANGED <<current, retired>>,
         call' = [call EXCEPT ![d] = q],
         q.pc = "probe" => q.owner \in retired,
         condemned' \subseteq retired /\ condemned' \subseteq Managers
  PROVE  FamilyInv'
<1>1. d \in Managers
  BY DaemonsAssumption
<1>2. CallsOK' /\ call'[d] = q /\ \A n \in Managers \ {d} : call'[n] = call[n]
  BY <1>1 DEF FamilyInv, CallsOK
<1>3. lease' \in Daemons => lease' \in retired' \cup {current'}
  BY ManagersAssumption, DaemonsAssumption DEF FamilyInv, Takes, InFamily
<1>4. \A e \in Daemons : /\ call'[e].pc # "idle" => InFamily(e)'
                         /\ call'[e].pc = "probe" => call'[e].owner \in retired'
  BY <1>2, DaemonsAssumption DEF FamilyInv, InFamily
<1> QED
  BY <1>2, <1>3, <1>4 DEF FamilyInv, FamilyOK, InFamily

LEMMA FamilyCalls ==
  ASSUME TypeOK, FamilyInv, NEW d \in Daemons, StopCall(d)
  PROVE  FamilyInv'
<1>1. d \in Managers /\ call[d] \in CallRecord /\ Owner \in Managers \cup {NoManager}
  BY DaemonsAssumption, OwnerType DEF FamilyInv, CallsOK
<1>2. ASSUME NEW force \in BOOLEAN, StopTool(d, force) PROVE FamilyInv'
  <2> DEFINE q == [NoCall EXCEPT !.pc = "load", !.force = force]
             c == [call EXCEPT ![d] = q]
  <2>1. q \in CallRecord /\ q.pc = "load"
    BY BlankCall DEF CallRecord, Positions, NoCall
  <2>2. InFamily(d) /\ Calling(c) /\ UNCHANGED <<current, retired, condemned>>
    BY <1>2 DEF StopTool, Idle, Serves, InFamily, family
  <2>3. Takes(d)
    BY <1>2 DEF StopTool, NothingStopped, lifecycle, vars, Reconcile, Takes
  <2> HIDE DEF q
  <2>4. c \in [Managers -> CallRecord] /\ c[d] = q /\ \A n \in Managers \ {d} : c[n] = call[n]
    BY <1>1, <2>1 DEF FamilyInv, CallsOK
  <2> HIDE DEF c
  <2>5. CallsOK' /\ \A n \in Managers : call'[n] = c[n] \/ call'[n].pc = "idle"
    BY <2>2, <2>4, CallingType, BlankCall
  <2>6. \A e \in Daemons : \/ call'[e] = call[e] \/ call'[e].pc = "idle"
                           \/ e = d /\ call'[e].pc # "probe"
    BY <2>1, <2>4, <2>5, DaemonsAssumption
  <2> QED
    BY <1>1, <2>2, <2>3, <2>5, <2>6, FamilyKept
<1>3. CASE LoadOwn(d) \/ Cold(d)
  <2> DEFINE c == [call EXCEPT ![d] = NoCall]
  <2>1. InFamily(d)
    BY <1>3 DEF LoadOwn, Cold, InCall, FamilyInv
  <2>2. Calling(c) /\ UNCHANGED <<current, retired, condemned>>
    BY <1>3 DEF LoadOwn, Cold, family
  <2>3. Takes(d)
    BY <1>1, <1>3, StopTakes DEF LoadOwn, Cold, NothingStopped, lifecycle, vars, Takes
  <2>4. c \in [Managers -> CallRecord] /\ \A n \in Managers : c[n] = call[n] \/ c[n] = NoCall
    BY <1>1, BlankCall DEF FamilyInv, CallsOK
  <2> HIDE DEF c
  <2>5. CallsOK' /\ \A n \in Managers : call'[n] = call[n] \/ call'[n].pc = "idle"
    BY <2>2, <2>4, CallingType, BlankCall
  <2> QED
    BY <1>1, <2>1, <2>2, <2>3, <2>5, FamilyKept, DaemonsAssumption
<1>4. CASE Load(d)
  <2> DEFINE q == IF snap = NoRun \/ Terminal THEN NoCall
                  ELSE [call[d] EXCEPT !.pc = "create", !.owner = Owner]
  <2>1. q \in CallRecord /\ q.pc # "probe"
    BY <1>1, BlankCall DEF CallRecord, Positions
  <2>2. call' = [call EXCEPT ![d] = q] /\ UNCHANGED <<current, retired, condemned, lease>> /\ InFamily(d)
    BY <1>4 DEF Load, Moves, lifecycle, vars, family, InCall, FamilyInv
  <2> HIDE DEF q
  <2> QED
    BY <2>1, <2>2, FamilyMoves DEF Takes, FamilyInv, FamilyOK
<1>5. ASSUME NEW i \in Ids, Create(d, i) PROVE FamilyInv'
  <2> DEFINE q == CASE call[d].owner \in Daemons -> [call[d] EXCEPT !.pc = "posted", !.id = i]
                    [] call[d].owner = NoManager -> [call[d] EXCEPT !.pc = "cold", !.id = i]
                    [] OTHER -> NoCall
  <2>1. q \in CallRecord /\ q.pc # "probe"
    <3>1. [call[d] EXCEPT !.pc = "posted", !.id = i] \in CallRecord
          /\ [call[d] EXCEPT !.pc = "posted", !.id = i].pc = "posted"
      BY <1>1 DEF CallRecord, Positions
    <3>2. [call[d] EXCEPT !.pc = "cold", !.id = i] \in CallRecord
          /\ [call[d] EXCEPT !.pc = "cold", !.id = i].pc = "cold"
      BY <1>1 DEF CallRecord, Positions
    <3> QED
      BY <3>1, <3>2, BlankCall
  <2>2. call' = [call EXCEPT ![d] = q] /\ UNCHANGED <<current, retired, condemned, lease>> /\ InFamily(d)
    BY <1>5 DEF Create, Moves, lifecycle, vars, family, InCall, FamilyInv
  <2> HIDE DEF q
  <2> QED
    BY <2>1, <2>2, FamilyMoves DEF Takes, FamilyInv, FamilyOK
<1>6. CASE Proceed(d)
  <2> DEFINE q == IF Terminal THEN NoCall ELSE [call[d] EXCEPT !.pc = "again", !.owner = Owner]
  <2>1. q \in CallRecord /\ q.pc # "probe"
    BY <1>1, BlankCall DEF CallRecord, Positions
  <2>2. call' = [call EXCEPT ![d] = q] /\ UNCHANGED <<current, retired, condemned, lease>> /\ InFamily(d)
    BY <1>1, <1>6 DEF Proceed, Moves, lifecycle, vars, family, InCall, FamilyInv, CallsOK
  <2> HIDE DEF q
  <2> QED
    BY <2>1, <2>2, FamilyMoves DEF Takes, FamilyInv, FamilyOK
<1>7. CASE Again(d)
  <2> DEFINE q == CASE call[d].owner = NoManager -> [call[d] EXCEPT !.pc = "cold"]
                    [] call[d].owner # NoManager /\ call[d].force /\ MayForce(d)
                         -> [call[d] EXCEPT !.pc = "probe"]
                    [] OTHER -> NoCall
  <2>1. q \in CallRecord
    BY <1>1, BlankCall DEF CallRecord, Positions
  <2>2. q.pc = "probe" => MayForce(d) /\ q.owner = call[d].owner
    BY <1>1, BlankCall DEF CallRecord
  <2>3. MayForce(d) => call[d].owner \in retired
    BY DEF MayForce, FamilyInv, InFamily
  <2>4. call' = [call EXCEPT ![d] = q] /\ UNCHANGED <<current, retired, condemned, lease>> /\ InFamily(d)
    BY <1>7 DEF Again, Moves, lifecycle, vars, family, InCall, FamilyInv
  <2> HIDE DEF q
  <2> QED
    BY <2>1, <2>2, <2>3, <2>4, FamilyMoves DEF Takes, FamilyInv, FamilyOK
<1>8. CASE Kill(d)
  <2> DEFINE q == [call[d] EXCEPT !.pc = "dying"]
  <2>1. q \in CallRecord /\ q.pc # "probe"
    BY <1>1 DEF CallRecord, Positions
  <2>2. /\ call' = [call EXCEPT ![d] = q] /\ UNCHANGED <<current, retired, lease>> /\ InFamily(d)
        /\ condemned' = condemned \cup {call[d].owner} /\ call[d].owner \in retired
    BY <1>8, <1>1 DEF Kill, At, Moves, lifecycle, vars, family, InCall, FamilyInv, CallsOK
  <2> HIDE DEF q
  <2>3. condemned' \subseteq retired /\ condemned' \subseteq Managers
    BY <2>2, DaemonsAssumption DEF FamilyInv, FamilyOK
  <2> QED
    BY <2>1, <2>2, <2>3, FamilyMoves DEF Takes
<1>9. CASE Died(d)
  <2> DEFINE q == IF call[d].owner \in alive THEN NoCall
                  ELSE [call[d] EXCEPT !.pc = "last", !.owner = Owner]
  <2>1. q \in CallRecord /\ q.pc # "probe"
    BY <1>1, BlankCall DEF CallRecord, Positions
  <2>2. call' = [call EXCEPT ![d] = q] /\ UNCHANGED <<current, retired, condemned, lease>> /\ InFamily(d)
    BY <1>9 DEF Died, Moves, lifecycle, vars, family, InCall, FamilyInv
  <2> HIDE DEF q
  <2> QED
    BY <2>1, <2>2, FamilyMoves DEF Takes, FamilyInv, FamilyOK
<1>10. CASE Last(d)
  <2> DEFINE q == IF call[d].owner = NoManager THEN [call[d] EXCEPT !.pc = "cold"] ELSE NoCall
  <2>1. q \in CallRecord /\ q.pc # "probe"
    BY <1>1, BlankCall DEF CallRecord, Positions
  <2>2. call' = [call EXCEPT ![d] = q] /\ UNCHANGED <<current, retired, condemned, lease>> /\ InFamily(d)
    BY <1>10 DEF Last, Moves, lifecycle, vars, family, InCall, FamilyInv
  <2> HIDE DEF q
  <2> QED
    BY <2>1, <2>2, FamilyMoves DEF Takes, FamilyInv, FamilyOK
<1> QED
  BY <1>2, <1>3, <1>4, <1>5, <1>6, <1>7, <1>8, <1>9, <1>10 DEF StopCall

LEMMA FamilyStep ==
  ASSUME TypeOK, FamilyInv, ControlNext
  PROVE  FamilyInv'
<1>1. ASSUME NEW d \in Daemons, Poll(d) PROVE FamilyInv'
  BY <1>1, FamilyApply DEF Poll
<1>2. ASSUME NEW d \in Daemons, NEW i \in Ids, Arrive(d, i) PROVE FamilyInv'
  <2>1. CASE ApplyWholeIntent(d, i)
    BY <1>2, <2>1, FamilyApply DEF Arrive
  <2>2. CASE NothingStopped
    <3>1. /\ d \in Managers /\ InFamily(d) /\ Calling(call)
          /\ UNCHANGED <<current, retired, condemned, lease>>
      BY <1>2, <2>2, DaemonsAssumption
      DEF Arrive, Serves, InFamily, NothingStopped, lifecycle, vars, family
    <3>2. CallsOK' /\ \A m \in Managers : call'[m] = call[m] \/ call'[m].pc = "idle"
      BY <3>1, CallingType, BlankCall DEF FamilyInv, CallsOK
    <3> QED
      BY <3>1, <3>2, FamilyKept, DaemonsAssumption DEF Takes
  <2> QED
    BY <1>2, <2>1, <2>2 DEF Arrive
<1> QED
  BY <1>1, <1>2, FamilyRuns, FamilySucceeds, FamilyCalls DEF ControlNext

LEMMA ControlStart ==
  ASSUME ControlInit
  PROVE  FilesOK /\ FamilyInv
<1>1. current \in Daemons
  BY DaemonsAssumption DEF ControlInit
<1>2. call \in [Managers -> CallRecord] /\ \A m \in Managers : call[m].pc = "idle"
  BY BlankCall DEF ControlInit
<1> QED
  BY <1>1, <1>2, ManagersAssumption, DaemonsAssumption
  DEF ControlInit, Init, FilesOK, FamilyInv, FamilyOK, CallsOK, InFamily, Intents

LEMMA ControlStutters ==
  ASSUME FilesOK, FamilyInv, UNCHANGED allVars
  PROVE  FilesOK' /\ FamilyInv'
  BY DEF allVars, vars, files, family, FilesOK, FamilyInv, FamilyOK, CallsOK, InFamily

(* The run, the intent files and the calls, together. *)
ControlInv == IInv /\ FilesOK /\ FamilyInv

(* The life cycle's invariant carries over; the files and the calls add    *)
(* their own.                                                              *)
THEOREM ControlInvariance == ControlSpec => []ControlInv
<1>1. ControlInit => FilesOK /\ FamilyInv
  BY ControlStart
<1>2. IInv /\ FilesOK /\ FamilyInv /\ [ControlNext]_allVars => (FilesOK /\ FamilyInv)'
  BY FilesStep, FamilyStep, ControlStutters DEF IInv
<1> QED
  BY <1>1, <1>2, ImplementsLifecycle, Invariance, PTL DEF ControlSpec, ControlInv

(* Every reachable state is one of the legal states ControlTypeOK          *)
(* describes: a call is never at an owner or an id it has not looked up.   *)
THEOREM ControlTypeCorrect == ControlSpec => []ControlTypeOK
<1>1. ControlInv => ControlTypeOK
  BY DEF ControlInv, IInv, FilesOK, FamilyInv, FamilyOK, CallsOK, CallRecord, ControlTypeOK
<1> QED
  BY <1>1, ControlInvariance, PTL

(* A forced stop signals only daemons that a successor has replaced for    *)
(* good, though the checks that say so are read before the probe it        *)
(* awaits.                                                                 *)
THEOREM OnlySuperseded == ControlSpec => []OnlySupersededKilled
<1>1. ControlInv => OnlySupersededKilled
  BY DEF ControlInv, FamilyInv, FamilyOK, OnlySupersededKilled
<1> QED
  BY <1>1, ControlInvariance, PTL

-----------------------------------------------------------------------------
(* What an acknowledged stop promises *)

Gone == snap = NoRun /\ own = {} /\ tombstone

StoppedForGood == snap.st = "aborted" /\ (DurablyStopped(snap, log) \/ log = <<>>)

SomeAcked == \E i \in Ids : intent[i] = "stopped"

(* The run of an acknowledged stop was stopped, or was deleted since, and  *)
(* then nobody executes it and its id stays in use.                        *)
AckInv == SomeAcked => Gone \/ StoppedForGood

(* What a step may do to a run that is durably aborted: nothing, or delete *)
(* it.                                                                     *)
KeepsAborted ==
  \/ snap' = snap /\ log' = log
  \/ log' = <<>> /\ (snap' = snap \/ (snap' = NoRun /\ tombstone' /\ own' = {}))

(* Nobody executes a run that is aborted on disk, or gone. *)
LEMMA NobodyRuns ==
  ASSUME IInv, snap.st = "aborted" \/ Gone, NEW m \in Managers
  PROVE  run[m].st # "running" /\ m \notin own
<1>1. CASE snap.st = "aborted"
  <2>1. snap # NoRun
    BY <1>1, RunStatus
  <2>2. own = {}
    BY <1>1, <2>1 DEF IInv, OwnerSubsumesDisk
  <2> QED
    BY <2>2 DEF IInv, OwnersRun
<1>2. CASE Gone
  BY <1>2 DEF Gone, IInv, OwnersRun
<1> QED
  BY <1>1, <1>2

(* So only a deletion, a start and a step that writes nothing are left.    *)
LEMMA WritesOver ==
  ASSUME IInv, NEW m \in alive, run[m].st # "running", NEW o \in Outcomes,
         \/ SavingStep(m, o) \/ PublishingStep(m, o) \/ DecidingStep(m, o)
         \/ ReloadingStep(m, o) \/ ContinuingStep(m, o),
         snap = NoRun \/ snap.st \in {"completed", "aborted"}
  PROVE  Start(m, o) \/ Delete(m, o)
<1>0. snap.st \notin {"running", "paused"}
  BY RunStatus
<1>1. ~PublishingStep(m, o)
  BY DEF PublishingStep, Observe, RecordResult, EngineResolves, EngineThrows, Pause,
         StopRunning, Executing
<1>2. ~DecidingStep(m, o)
  BY DEF DecidingStep, RecordDecision, Executing
<1>3. \A op \in Ops \cup {NoOp}, reply \in Values \cup {NoValue} : ~Admits(m, op, reply)
  BY RunStatus DEF Admits
<1>4. ~ReloadingStep(m, o)
  BY <1>0, <1>3 DEF ReloadingStep, StopPaused, StopCold, Regate, RefuseMarked
<1>5. ~ContinuingStep(m, o)
  BY <1>3 DEF ContinuingStep, Continue
<1>6. ~Reconcile(m, o)
  BY <1>0 DEF Reconcile
<1> QED
  BY <1>1, <1>2, <1>4, <1>5, <1>6 DEF SavingStep

(* Stale pauses, caches and continuations elsewhere cannot move it.        *)
LEMMA AbortedStays ==
  ASSUME IInv, Next, snap.st = "aborted"
  PROVE  KeepsAborted
<1>1. PICK m \in alive : WritingStep(m) \/ MemoryStep(m) \/ Crash(m)
  BY DEF Next
<1>2. snap # NoRun /\ m \in Managers /\ run[m].st # "running" /\ own = {}
  BY RunStatus, NobodyRuns DEF IInv, TypeOK
<1>3. CASE MemoryStep(m) \/ Crash(m)
  BY <1>3 DEF MemoryStep, Unwind, ContinueThrows, Crash, KeepsAborted
<1>4. CASE WritingStep(m)
  <2>1. PICK o \in Outcomes :
          \/ SavingStep(m, o) \/ PublishingStep(m, o) \/ DecidingStep(m, o)
          \/ ReloadingStep(m, o) \/ ContinuingStep(m, o)
    BY <1>4 DEF WritingStep
  <2>2. Start(m, o) \/ Delete(m, o)
    BY <1>2, <2>1, WritesOver
  <2>3. Delete(m, o)
    BY <1>2, <2>2 DEF Start
  <2>4. log' = <<>> /\ own' = {} /\ (snap' = snap \/ (snap' = NoRun /\ tombstone'))
    BY <1>2, <2>3 DEF Delete, Owned
  <2> QED
    BY <2>4 DEF KeepsAborted
<1> QED
  BY <1>1, <1>3, <1>4

(* A deleted run stays deleted as long as its id is not requested again.   *)
LEMMA GoneStays ==
  ASSUME IInv, ~ReuseIds, Next, Gone
  PROVE  Gone'
<1>1. PICK m \in alive : WritingStep(m) \/ MemoryStep(m) \/ Crash(m)
  BY DEF Next
<1>2. m \in Managers /\ run[m].st # "running"
  BY NobodyRuns DEF IInv, TypeOK
<1>3. CASE MemoryStep(m) \/ Crash(m)
  BY <1>3 DEF MemoryStep, Unwind, ContinueThrows, Crash, Gone
<1>4. CASE WritingStep(m)
  <2>1. PICK o \in Outcomes :
          \/ SavingStep(m, o) \/ PublishingStep(m, o) \/ DecidingStep(m, o)
          \/ ReloadingStep(m, o) \/ ContinuingStep(m, o)
    BY <1>4 DEF WritingStep
  <2>2. Start(m, o) \/ Delete(m, o)
    BY <1>2, <2>1, WritesOver, RunStatus DEF Gone
  <2>3. Delete(m, o)
    BY <2>2 DEF Start, Used, Gone
  <2> QED
    BY <2>3 DEF Delete, Owned, Gone
<1> QED
  BY <1>1, <1>3, <1>4

(* An acknowledgement is written by a step that reads the stop back.       *)
LEMMA AcksWhatIsDurable ==
  ASSUME FilesOK, ControlNext, SomeAcked'
  PROVE  SomeAcked \/ DurablyStopped(snap', log')
<1> DEFINE Reads(i) ==
      \/ intent' = intent \/ intent' = Acknowledged(i, "already-terminal")
      \/ intent' = Created(i) \/ intent' = Removed
      \/ DurablyStopped(snap', log')
<1>1. ASSUME NEW i, Reads(i) PROVE SomeAcked \/ DurablyStopped(snap', log')
  <2>1. CASE intent' = intent
    BY <2>1 DEF SomeAcked
  <2>2. CASE intent' = Acknowledged(i, "already-terminal")
    BY <2>2 DEF SomeAcked, Acknowledged, FilesOK
  <2>3. CASE intent' = Created(i)
    BY <2>3 DEF SomeAcked, Created, FilesOK
  <2>4. CASE intent' = Removed
    BY <2>4 DEF SomeAcked, Removed
  <2> QED
    BY <1>1, <2>1, <2>2, <2>3, <2>4
<1>2. ASSUME NEW m, NEW i, StoppedAndAcknowledged(m, i) PROVE Reads(i)
  BY <1>2 DEF StoppedAndAcknowledged
<1>3. ASSUME NEW m, NEW i, ApplyWholeIntent(m, i) PROVE Reads(i)
  BY <1>2, <1>3 DEF ApplyWholeIntent
<1>4. ASSUME NEW d, Cold(d) PROVE Reads(call[d].id)
  BY <1>2, <1>4 DEF Cold
<1>5. ASSUME NEW m, Lifecycle(m) \/ Dies(m) PROVE \E i : Reads(i)
  BY <1>5 DEF Lifecycle, Dies
<1>6. ASSUME NEW d, Poll(d) \/ Succeed(d) \/ \E i \in Ids : Arrive(d, i) PROVE \E i : Reads(i)
  BY <1>3, <1>6 DEF Poll, Succeed, Arrive, files
<1>7. ASSUME NEW d, StopCall(d) PROVE \E i : Reads(i)
  BY <1>4, <1>7 DEF StopCall, StopTool, Load, LoadOwn, Proceed, Again, Kill, Died, Last, Create, files
<1> HIDE DEF Reads
<1> QED
  BY <1>1, <1>5, <1>6, <1>7 DEF ControlNext

(* An acknowledged stop was durable when it was acknowledged, and stays so. *)
LEMMA AckStep ==
  ASSUME ~ReuseIds, ControlInv, AckInv, [ControlNext]_allVars
  PROVE  AckInv'
<1>1. CASE UNCHANGED allVars
  BY <1>1 DEF allVars, vars, files, AckInv, SomeAcked, Gone, StoppedForGood, DurablyStopped
<1>2. CASE ControlNext
  <2> SUFFICES ASSUME SomeAcked' PROVE Gone' \/ StoppedForGood'
    BY DEF AckInv
  <2>1. CASE DurablyStopped(snap', log')
    BY <2>1 DEF StoppedForGood, DurablyStopped
  <2>2. CASE SomeAcked
    <3>1. Next \/ UNCHANGED vars
      BY StepIsNext
    <3>2. CASE UNCHANGED vars
      BY <2>2, <3>2 DEF vars, AckInv, Gone, StoppedForGood, DurablyStopped
    <3>3. CASE Next /\ Gone
      BY <3>3, GoneStays DEF ControlInv
    <3>4. CASE Next /\ StoppedForGood
      <4>1. KeepsAborted
        BY <3>4, AbortedStays DEF ControlInv, StoppedForGood
      <4> QED
        BY <3>4, <4>1 DEF KeepsAborted, StoppedForGood, Gone, DurablyStopped
    <3> QED
      BY <2>2, <3>1, <3>2, <3>3, <3>4 DEF AckInv
  <2> QED
    BY <1>2, <2>1, <2>2, AcksWhatIsDurable DEF ControlInv
<1> QED
  BY <1>1, <1>2

(* If run ids are not used again, a stop that any daemon has acknowledged  *)
(* is durable and final, whatever the other daemons still remember of the  *)
(* run, and whoever dies.                                                  *)
THEOREM AckedStays == ASSUME ~ReuseIds PROVE ControlSpec => []AckedStopIsDurable
<1>1. ControlInit => AckInv
  BY DEF ControlInit, AckInv, SomeAcked
<1>2. ControlInv /\ AckInv /\ [ControlNext]_allVars => AckInv'
  BY AckStep
<1>3. AckInv => AckedStopIsDurable
  BY DEF AckInv, SomeAcked, Gone, StoppedForGood, AckedStopIsDurable
<1> QED
  BY <1>1, <1>2, <1>3, ControlInvariance, PTL DEF ControlSpec

=============================================================================
