---------------------------- MODULE RunAcceptance ----------------------------
(***************************************************************************)
(* A run from the acceptance of its request to its admission: the methods  *)
(* of WorkflowManager for prepared runs (workflow-manager.ts) and the      *)
(* driver in the daemon that uses them (WorkflowLifecycle in               *)
(* workflow-lifecycle.ts, ActiveRunRegistry in project-registry.ts).       *)
(*                                                                         *)
(* Several daemons serve one project. A request has an identity, which     *)
(* determines the run id, so a run stands for its request too. A daemon is *)
(* one Node process: a tool call is a synchronous span, cut here wherever  *)
(* another daemon can come between two reads or writes of it; op[d] is the *)
(* span d is in. A drive is asynchronous; its steps are the spans between  *)
(* its awaits. The lease is exclusive and goes with its owner (RunLease    *)
(* says how far that is so): what a daemon does under it is one step.      *)
(***************************************************************************)
EXTENDS Integers, FiniteSets

CONSTANTS
  Daemons,      \* processes serving the project; one that dies comes back with empty memory
  Runs,         \* the requests, and the runs accepted for them
  Keys,         \* script backends that need the user's approval
  Cap,          \* MAX_ACTIVE_RUNS
  MaxCrashes,   \* bound: how many times a daemon dies
  MaxFaults,    \* bound: how many saves fail
  Nobody, NoKey

ASSUME BoundsAssumption ==
  /\ Cap \in Nat \ {0} /\ MaxCrashes \in Nat /\ MaxFaults \in Nat
  /\ IsFiniteSet(Runs)
ASSUME NamesAssumption == Nobody \notin Daemons /\ NoKey \notin Keys

Verdicts == {"accept", "decline"}
Receipt  == [id : Nat, verdict : Verdicts]     \* setupResponses: setup id and fingerprint

(* A preparation that asks for nothing is "preparing"; one that asks for a *)
(* key is "input-required", and its setup id is the revision that asks.    *)
Snapshot ==
  [st       : {"none", "pending", "running", "done", "failed", "aborted"},
   rev      : Int,                 \* preparationRevision, -1 once preparation is undefined
   ask      : Keys \cup {NoKey},   \* data.setup, data.pendingBackendKey
   approved : SUBSET Keys,         \* data.approvedKeys
   answers  : SUBSET Receipt]

NoRun    == [st |-> "none", rev |-> -1, ask |-> NoKey, approved |-> {}, answers |-> {}]
Accepted == [NoRun EXCEPT !.st = "pending", !.rev = 0]

Drive    == [phase : {"none", "scheduled", "working", "failing", "settling"},
             rev : Int, approved : SUBSET Keys, failed : BOOLEAN]
NoDrive  == [phase |-> "none", rev |-> -1, approved |-> {}, failed |-> FALSE]
Scheduled == [NoDrive EXCEPT !.phase = "scheduled"]

(* op: run and seen are what the span has read; id and verdict are the     *)
(* reply of respond, id 0 in a plain recover; drv is whether recover saw a *)
(* preparing run.                                                          *)
Op == [pc : {"idle", "create", "look", "claim", "save", "cancel", "mark", "unlink", "unlock"},
       run : Runs \cup {Nobody}, seen : Snapshot, id : Nat, verdict : Verdicts, drv : BOOLEAN]
Idle == [pc |-> "idle", run |-> Nobody, seen |-> NoRun, id |-> 0, verdict |-> "accept", drv |-> FALSE]

VARIABLES
  snap,        \* the run's snapshot file
  tomb,        \* its lineage tombstone
  lease,       \* its execution lease
  mem,         \* per daemon, the ManagedRun ("none": not in manager.runs)
  slot,        \* per daemon, the entry of activeRuns
  drive,       \* per daemon, the run's driver
  op,          \* per daemon, the call it is in
  crashes, faults,
  created, starts, asked, consented, acked   \* history, read by properties only

durable == <<snap, tomb>>
history == <<created, starts, asked, consented, acked>>
vars == <<snap, tomb, lease, mem, slot, drive, op, crashes, faults,
          created, starts, asked, consented, acked>>

Init ==
  /\ snap = [r \in Runs |-> NoRun] /\ tomb = {}
  /\ lease = [r \in Runs |-> Nobody]
  /\ mem = [d \in Daemons |-> [r \in Runs |-> NoRun]]
  /\ slot = [d \in Daemons |-> [r \in Runs |-> "none"]]
  /\ drive = [d \in Daemons |-> [r \in Runs |-> NoDrive]]
  /\ op = [d \in Daemons |-> Idle]
  /\ crashes = 0 /\ faults = 0
  /\ created = [r \in Runs |-> 0] /\ starts = [r \in Runs |-> 0]
  /\ asked = [r \in Runs |-> {}] /\ consented = [r \in Runs |-> {}]
  /\ acked = [r \in Runs |-> {}]

-----------------------------------------------------------------------------
(* Reading, saving and claiming.                                           *)

Preparing(s) == s.st = "pending" /\ s.ask = NoKey

(* save: the live record wins over a tombstone.                            *)
Written(r, s) ==
  /\ snap' = [snap EXCEPT ![r] = s]
  /\ tomb' = tomb \ {r}

(* claimPreparedRun: the managed run if it is pending and owned, else the  *)
(* snapshot if it is pending and its lease free.                           *)
Claimable(d, r) ==
  IF mem[d][r].st # "none"
  THEN mem[d][r].st = "pending" /\ lease[r] = d
  ELSE lease[r] = Nobody /\ snap[r].st = "pending"

Claimed(d, r) == IF mem[d][r].st # "none" THEN mem[d][r] ELSE snap[r]

Claims(d, r, s) ==
  /\ mem' = [mem EXCEPT ![d][r] = s]
  /\ lease' = [lease EXCEPT ![r] = d]

(* What a claim leaves behind when the method then throws.                 *)
KeepsClaim(d, r) ==
  /\ IF Claimable(d, r) THEN Claims(d, r, Claimed(d, r)) ELSE UNCHANGED <<mem, lease>>
  /\ UNCHANGED durable

SaveFails == faults < MaxFaults /\ faults' = faults + 1

(* Mutant: the fields that were set before the save stay set.              *)
NotRolledBack(d, r, s) ==
  /\ SaveFails
  /\ Claims(d, r, s) /\ UNCHANGED durable

(* The save of s fails; the catch puts the old fields back.                *)
SaveThrows(d, r, s) ==
  /\ SaveFails
  /\ KeepsClaim(d, r)

Settled(d, r, s) ==
  /\ Written(r, s)
  /\ mem' = [mem EXCEPT ![d][r] = s]
  /\ lease' = [lease EXCEPT ![r] = Nobody]

(* mergeWorkflowSetupResponses throws when a setup has two answers.        *)
Mergeable(answers, more) == \A x \in answers, y \in more : x.id = y.id => x = y

Full(d) == Cardinality({r \in Runs : slot[d][r] # "none"}) >= Cap

(* schedule: at most one driver of a run in a daemon.                      *)
Schedule(d, r) ==
  IF drive[d][r].phase = "none" THEN drive' = [drive EXCEPT ![d][r] = Scheduled]
                                ELSE UNCHANGED drive

Held(d, r) == slot' = [slot EXCEPT ![d][r] = "held"]

(* Mutant: the slot is forgotten.                                          *)
NotEvicted(d, r) == UNCHANGED slot

Evicted(d, r) == slot' = [slot EXCEPT ![d][r] = "none"]

At(d, pc)    == op[d].pc = pc
Go(d, pc)    == op' = [op EXCEPT ![d].pc = pc]
Enter(d, pc, r) == op' = [op EXCEPT ![d] = [Idle EXCEPT !.pc = pc, !.run = r]]
Returns(d)   == op' = [op EXCEPT ![d] = Idle]

-----------------------------------------------------------------------------
(* Acceptance: WorkflowLifecycle.accept, findAcceptedRun and prepareRun. A *)
(* request that is found accepted is recovered, which is Recover below.    *)

(* findAcceptedRun consults hasRunArtifact too, but RunEventPersistence,   *)
(* which is what a manager has, does not forward it: the guard is void.    *)
Unknown(r) == snap[r].st = "none" /\ r \notin tomb

(* The first findAcceptedRun, then reserve().                              *)
Accept(d, r) ==
  /\ At(d, "idle") /\ Unknown(r) /\ ~Full(d)
  /\ Enter(d, "create", r)
  /\ UNCHANGED <<durable, lease, mem, slot, drive, crashes, faults, history>>

(* Mutant: prepareRun does not look again once it has the lease.           *)
CreateUnchecked(d) ==
  LET r == op[d].run IN
  /\ At(d, "create") /\ lease[r] = Nobody
  /\ Returns(d)
  /\ Written(r, Accepted) /\ Claims(d, r, Accepted)
  /\ Held(d, r) /\ Schedule(d, r)
  /\ created' = [created EXCEPT ![r] = @ + 1]
  /\ UNCHANGED <<crashes, faults, starts, asked, consented, acked>>

(* prepareRun: under the lease if it is free, findAcceptedRun again, then  *)
(* the mandatory save.                                                     *)
Create(d) ==
  LET r == op[d].run IN
  /\ At(d, "create") /\ lease[r] = Nobody /\ Unknown(r)
  /\ Returns(d)
  /\ \/ /\ Written(r, Accepted) /\ Claims(d, r, Accepted)
        /\ Held(d, r) /\ Schedule(d, r)
        /\ created' = [created EXCEPT ![r] = @ + 1]
        /\ UNCHANGED <<faults, starts, asked, consented, acked>>
     \/ /\ SaveFails
        /\ UNCHANGED <<durable, lease, mem, slot, drive, history>>
  /\ UNCHANGED crashes

(* Someone else was faster: a duplicate is recovered; a request that was   *)
(* deleted, or whose lease is taken and has no record yet, is refused.     *)
CreateRefused(d) ==
  LET r == op[d].run IN
  /\ At(d, "create") /\ ~(lease[r] = Nobody /\ Unknown(r))
  /\ IF snap[r].st # "none" THEN Go(d, "look") ELSE Returns(d)
  /\ UNCHANGED <<durable, lease, mem, slot, drive, crashes, faults, history>>

-----------------------------------------------------------------------------
(* WorkflowLifecycle.recover, called by every tool call that names a run.  *)

(* A plain recover is over; that of a reply goes on if the run has a slot. *)
Recovered(d, o, hasSlot) ==
  op' = [op EXCEPT ![d] = IF o.id # 0 /\ hasSlot THEN [o EXCEPT !.pc = "save"] ELSE Idle]

Looks(d, o) ==
  LET r == o.run
      s == snap[r]
      hasSlot == slot[d][r] # "none"
  IN
  /\ IF s.st = "pending" /\ ~hasSlot /\ ~Full(d)
     THEN op' = [op EXCEPT ![d] = [o EXCEPT !.pc = "claim", !.drv = Preparing(s)]]
     ELSE Recovered(d, o, hasSlot)
  /\ IF Preparing(s) /\ hasSlot THEN Schedule(d, r) ELSE UNCHANGED drive
  /\ UNCHANGED <<durable, lease, mem, slot, crashes, faults, history>>

Recover(d, r) ==
  /\ At(d, "idle") /\ snap[r].st # "none"
  /\ Looks(d, [Idle EXCEPT !.run = r])

Look(d) == At(d, "look") /\ Looks(d, op[d])

Claim(d) ==
  LET r == op[d].run IN
  /\ At(d, "claim")
  /\ IF Claimable(d, r)
     THEN /\ Claims(d, r, Claimed(d, r)) /\ Held(d, r)
          /\ IF op[d].drv THEN Schedule(d, r) ELSE UNCHANGED drive
     ELSE UNCHANGED <<mem, lease, slot, drive>>
  /\ Recovered(d, op[d], Claimable(d, r))
  /\ UNCHANGED <<durable, crashes, faults, history>>

-----------------------------------------------------------------------------
(* WorkflowLifecycle.respond: a client answers, or repeats an answer to, a *)
(* setup request that it has seen.                                         *)

Acks(r, id, v) == acked' = [acked EXCEPT ![r] = @ \cup {[id |-> id, verdict |-> v]}]

(* Mutant: any answer approves.                                            *)
AfterAny(v) == "look"

AfterVerdict(v) == IF v = "accept" THEN "look" ELSE "cancel"

Respond(d, r) ==
  /\ At(d, "idle")
  /\ \E q \in asked[r], v \in Verdicts :
       LET s == snap[r]
           mine == [id |-> q.id, verdict |-> v]
       IN
       /\ consented' = [consented EXCEPT ![r] = IF v = "accept" THEN @ \cup {q.key} ELSE @]
       /\ \/ /\ mine \in s.answers
             /\ Acks(r, q.id, v) /\ UNCHANGED op
          \/ /\ \A x \in s.answers : x.id # q.id
             /\ s.st = "pending" /\ s.ask # NoKey /\ s.rev = q.id
             /\ op' = [op EXCEPT ![d] =
                        [Idle EXCEPT !.pc = AfterVerdict(v),
                                     !.run = r, !.seen = s, !.id = q.id, !.verdict = v]]
             /\ UNCHANGED acked
  /\ UNCHANGED <<durable, lease, mem, slot, drive, crashes, faults, created, starts, asked>>

(* The end of respond: save, which is updatePreparation with the revision  *)
(* that respond has read, and schedule.                                    *)
Save(d) ==
  LET r == op[d].run
      seen == op[d].seen
      m == Claimed(d, r)
      mine == [id |-> op[d].id, verdict |-> op[d].verdict]
      s == [m EXCEPT !.rev = @ + 1, !.ask = NoKey,
              !.approved = seen.approved \cup {seen.ask}, !.answers = @ \cup {mine}]
      fits == Claimable(d, r) /\ m.rev = seen.rev /\ Mergeable(m.answers, {mine})
  IN
  /\ At(d, "save") /\ Returns(d)
  /\ \/ /\ fits /\ Written(r, s) /\ Claims(d, r, s) /\ Schedule(d, r)
        /\ Acks(r, op[d].id, op[d].verdict)
        /\ UNCHANGED faults
     \/ /\ fits /\ SaveThrows(d, r, s)
        /\ UNCHANGED <<drive, acked>>
     \/ /\ ~fits
        /\ KeepsClaim(d, r) /\ UNCHANGED <<drive, acked, faults>>
  /\ UNCHANGED <<slot, crashes, created, starts, asked, consented>>

(* cancelSetup: settlePreparedRun with the same guard, and the answer in   *)
(* the save that ends the run.                                             *)
Cancel(d) ==
  LET r == op[d].run
      m == Claimed(d, r)
      mine == [id |-> op[d].id, verdict |-> op[d].verdict]
      s == [m EXCEPT !.st = "aborted", !.answers = @ \cup {mine}]
      fits == Claimable(d, r) /\ m.rev = op[d].seen.rev /\ Mergeable(m.answers, {mine})
  IN
  /\ At(d, "cancel") /\ Returns(d)
  /\ \/ /\ fits /\ Settled(d, r, s) /\ Evicted(d, r)
        /\ Acks(r, op[d].id, op[d].verdict)
        /\ UNCHANGED faults
     \/ /\ fits /\ SaveThrows(d, r, s)
        /\ UNCHANGED <<slot, acked>>
     \/ /\ ~fits
        /\ KeepsClaim(d, r) /\ UNCHANGED <<slot, acked, faults>>
  /\ UNCHANGED <<drive, crashes, created, starts, asked, consented>>

-----------------------------------------------------------------------------
(* The driver. Once it has timed out, its run() stops at its next check of *)
(* expired and does nothing more; that is not followed.                    *)

Phase(d, r, p) == drive' = [drive EXCEPT ![d][r].phase = p]
Driving(d, r, p) == At(d, "idle") /\ drive[d][r].phase = p

(* The setImmediate of schedule, and drive up to its first await.          *)
DriveStarts(d, r) ==
  /\ Driving(d, r, "scheduled")
  /\ LET s == snap[r] IN
     IF Preparing(s)
     THEN drive' = [drive EXCEPT ![d][r] = [phase |-> "working", rev |-> s.rev,
                                            approved |-> s.approved, failed |-> FALSE]]
     ELSE Phase(d, r, "settling")
  /\ UNCHANGED <<durable, lease, mem, slot, op, crashes, faults, history>>

(* A backend is not approved: save asks for it, or throws.                 *)
DriveAsks(d, r) ==
  /\ Driving(d, r, "working")
  /\ \E k \in Keys \ drive[d][r].approved :
       LET m == Claimed(d, r)
           s == [m EXCEPT !.rev = @ + 1, !.ask = k, !.approved = drive[d][r].approved]
           fits == Claimable(d, r) /\ m.rev = drive[d][r].rev
       IN
       \/ /\ fits /\ Written(r, s) /\ Claims(d, r, s)
          /\ asked' = [asked EXCEPT ![r] = @ \cup {[id |-> s.rev, key |-> k]}]
          /\ Phase(d, r, "settling") /\ UNCHANGED faults
       \/ /\ fits /\ SaveThrows(d, r, s)
          /\ Phase(d, r, "failing") /\ UNCHANGED asked
       \/ /\ ~fits
          /\ KeepsClaim(d, r) /\ Phase(d, r, "failing") /\ UNCHANGED <<faults, asked>>
  /\ UNCHANGED <<slot, op, crashes, created, starts, consented, acked>>

(* Mutant: the answers go with the preparation.                            *)
AdmittedWithoutReceipts(m) == [NoRun EXCEPT !.st = "running"]

Admitted(m) == [m EXCEPT !.st = "running", !.rev = -1, !.ask = NoKey, !.approved = {}]

(* Everything is approved and preflight has passed. A drive whose revision *)
(* is no longer current returns; else admitPreparedRun saves the admission *)
(* and executes.                                                           *)
DriveAdmits(d, r) ==
  /\ Driving(d, r, "working") /\ Keys \subseteq drive[d][r].approved
  /\ LET m == Claimed(d, r)
         s == Admitted(m)
         current == snap[r].st = "pending" /\ snap[r].rev = drive[d][r].rev
     IN
     \/ /\ current /\ Claimable(d, r)
        /\ Written(r, s) /\ Claims(d, r, s)
        /\ slot' = [slot EXCEPT ![d][r] = "tracked"]
        /\ starts' = [starts EXCEPT ![r] = @ + 1]
        /\ Phase(d, r, "settling") /\ UNCHANGED faults
     \/ /\ current /\ Claimable(d, r) /\ SaveThrows(d, r, s)
        /\ Phase(d, r, "failing") /\ UNCHANGED <<slot, starts>>
     \/ /\ current /\ ~Claimable(d, r)
        /\ KeepsClaim(d, r) /\ Phase(d, r, "failing") /\ UNCHANGED <<slot, starts, faults>>
     \/ /\ ~current
        /\ Phase(d, r, "settling") /\ UNCHANGED <<durable, mem, lease, slot, starts, faults>>
  /\ UNCHANGED <<op, crashes, created, asked, consented, acked>>

(* Validation fails, or the time is up.                                    *)
DriveThrows(d, r) ==
  /\ Driving(d, r, "working") /\ Phase(d, r, "failing")
  /\ UNCHANGED <<durable, lease, mem, slot, op, crashes, faults, history>>

(* The catch of schedule: unless the preparation has moved on, the run     *)
(* fails with its drive. If that cannot be saved it stays pending.         *)
DriveFails(d, r) ==
  /\ Driving(d, r, "failing")
  /\ LET s == [Claimed(d, r) EXCEPT !.st = "failed"]
         fits == snap[r].rev = drive[d][r].rev /\ Claimable(d, r)
     IN
     \/ /\ fits /\ Settled(d, r, s) /\ Evicted(d, r)
        /\ UNCHANGED faults
     \/ /\ fits /\ SaveThrows(d, r, s)
        /\ UNCHANGED slot
     \/ /\ ~fits
        /\ UNCHANGED <<durable, mem, lease, slot, faults>>
  /\ drive' = [drive EXCEPT ![d][r].phase = "settling", ![d][r].failed = TRUE]
  /\ UNCHANGED <<op, crashes, history>>

(* Mutant: driving is only cleared when the drive succeeded.               *)
DriveEndsOnSuccess(d, r) ==
  /\ Driving(d, r, "settling") /\ ~drive[d][r].failed
  /\ drive' = [drive EXCEPT ![d][r] = IF Preparing(snap[r]) THEN Scheduled ELSE NoDrive]
  /\ UNCHANGED <<durable, lease, mem, slot, op, crashes, faults, history>>

(* The finally of schedule: the next stage, if an answer came meanwhile.   *)
DriveEnds(d, r) ==
  /\ Driving(d, r, "settling")
  /\ drive' = [drive EXCEPT ![d][r] =
                 IF ~@.failed /\ Preparing(snap[r]) THEN Scheduled ELSE NoDrive]
  /\ UNCHANGED <<durable, lease, mem, slot, op, crashes, faults, history>>

-----------------------------------------------------------------------------
(* stop of a run this manager prepares, and stopPersistedRun of one that   *)
(* nobody owns; "stopped" evicts. A stop that cannot save throws and       *)
(* changes nothing. (RunLifecycle has the other stops.)                    *)
Stop(d, r) ==
  /\ At(d, "idle") /\ mem[d][r].st = "pending" /\ Claimable(d, r)
  /\ Settled(d, r, [mem[d][r] EXCEPT !.st = "aborted"]) /\ Evicted(d, r)
  /\ UNCHANGED <<drive, op, crashes, faults, history>>

(* Mutant: an outcome found under the lease is overwritten.                *)
ColdStopUnchecked(d, r) ==
  /\ At(d, "idle") /\ mem[d][r].st \notin {"pending", "running"} /\ lease[r] = Nobody
  /\ snap[r].st # "none"
  /\ Written(r, [snap[r] EXCEPT !.st = "aborted"]) /\ Evicted(d, r)
  /\ UNCHANGED <<lease, mem, drive, op, crashes, faults, history>>

ColdStop(d, r) ==
  /\ At(d, "idle") /\ mem[d][r].st \notin {"pending", "running"} /\ lease[r] = Nobody
  /\ snap[r].st \in {"pending", "running"}
  /\ Written(r, [snap[r] EXCEPT !.st = "aborted"]) /\ Evicted(d, r)
  /\ UNCHANGED <<lease, mem, drive, op, crashes, faults, history>>

(* The execution ends (RunLifecycle) and its promise gives the slot back.  *)
(* One whose run was deleted has nothing to save.                          *)
Completes(d, r) ==
  /\ At(d, "idle") /\ slot[d][r] = "tracked"
  /\ IF mem[d][r].st = "running" /\ lease[r] = d
     THEN Settled(d, r, [mem[d][r] EXCEPT !.st = "done"])
     ELSE UNCHANGED <<durable, mem, lease>>
  /\ Evicted(d, r)
  /\ UNCHANGED <<drive, op, crashes, faults, history>>

(* deleteRun: with the lease it has or takes, persistence.delete: first    *)
(* the tombstone, then the snapshot, then the lock. Nothing evicts.        *)
Delete(d, r) ==
  /\ At(d, "idle") /\ snap[r].st # "none" /\ lease[r] \in {Nobody, d}
  /\ lease' = [lease EXCEPT ![r] = d]
  /\ Enter(d, "mark", r)
  /\ UNCHANGED <<durable, mem, slot, drive, crashes, faults, history>>

Mark(d) ==
  /\ At(d, "mark") /\ tomb' = tomb \cup {op[d].run} /\ Go(d, "unlink")
  /\ UNCHANGED <<snap, lease, mem, slot, drive, crashes, faults, history>>

Unlink(d) ==
  /\ At(d, "unlink") /\ snap' = [snap EXCEPT ![op[d].run] = NoRun] /\ Go(d, "unlock")
  /\ UNCHANGED <<tomb, lease, mem, slot, drive, crashes, faults, history>>

Unlock(d) ==
  LET r == op[d].run IN
  /\ At(d, "unlock")
  /\ lease' = [lease EXCEPT ![r] = Nobody]
  /\ mem' = [mem EXCEPT ![d][r] = NoRun]
  /\ Returns(d)
  /\ UNCHANGED <<durable, slot, drive, crashes, faults, history>>

-----------------------------------------------------------------------------
(* A daemon dies; its lease is as good as free (RunLease).                 *)
Crash(d) ==
  /\ crashes < MaxCrashes /\ crashes' = crashes + 1
  /\ lease' = [r \in Runs |-> IF lease[r] = d THEN Nobody ELSE lease[r]]
  /\ mem' = [mem EXCEPT ![d] = [r \in Runs |-> NoRun]]
  /\ slot' = [slot EXCEPT ![d] = [r \in Runs |-> "none"]]
  /\ drive' = [drive EXCEPT ![d] = [r \in Runs |-> NoDrive]]
  /\ Returns(d)
  /\ UNCHANGED <<durable, faults, history>>

(* The calls of clients, the rest of a call, the callbacks of the driver.  *)
Call(d, r) ==
  Accept(d, r) \/ Recover(d, r) \/ Respond(d, r) \/ Stop(d, r) \/ ColdStop(d, r) \/ Delete(d, r)
Continue(d) ==
  \/ Create(d) \/ CreateRefused(d) \/ Look(d) \/ Claim(d) \/ Save(d) \/ Cancel(d)
  \/ Mark(d) \/ Unlink(d) \/ Unlock(d)
DriveStep(d, r) ==
  \/ DriveStarts(d, r) \/ DriveAsks(d, r) \/ DriveAdmits(d, r) \/ DriveThrows(d, r)
  \/ DriveFails(d, r) \/ DriveEnds(d, r)

Next ==
  \E d \in Daemons :
    \/ Continue(d) \/ Crash(d)
    \/ \E r \in Runs : Call(d, r) \/ DriveStep(d, r) \/ Completes(d, r)

(* A synchronous call ends; the event loop serves every callback; and      *)
(* clients keep polling runs, each poll a recover, in every daemon.        *)
Fairness ==
  \A d \in Daemons :
    /\ WF_vars(Continue(d))
    /\ \A r \in Runs : SF_vars(DriveStep(d, r)) /\ SF_vars(Recover(d, r))

Spec     == Init /\ [][Next]_vars
LiveSpec == Spec /\ Fairness

-----------------------------------------------------------------------------
TypeOK ==
  /\ snap \in [Runs -> Snapshot] /\ tomb \subseteq Runs
  /\ \A r \in Runs : snap[r].st \in {"running", "done"} => snap[r].rev = -1
  /\ lease \in [Runs -> Daemons \cup {Nobody}]
  /\ mem \in [Daemons -> [Runs -> Snapshot]]
  /\ slot \in [Daemons -> [Runs -> {"none", "held", "tracked"}]]
  /\ drive \in [Daemons -> [Runs -> Drive]]
  /\ op \in [Daemons -> Op]
  /\ \A d \in Daemons : op[d].pc # "idle" => op[d].run \in Runs
  /\ crashes \in Nat /\ faults \in Nat
  /\ created \in [Runs -> Nat] /\ starts \in [Runs -> Nat]
  /\ asked \in [Runs -> SUBSET [id : Nat, key : Keys]]
  /\ consented \in [Runs -> SUBSET Keys]
  /\ acked \in [Runs -> SUBSET Receipt]

(* A request is accepted once: whichever daemons it is retransmitted to,   *)
(* before, after or while the run is deleted, no second record is created  *)
(* for it, and its run is admitted to execution at most once.              *)
AcceptedOnce ==
  \A r \in Runs : created[r] <= 1 /\ starts[r] <= created[r]

(* No script runs with a backend of its own that the user has not accepted *)
(* in answer to a question about that very backend.                        *)
StartsWithConsent ==
  \A r \in Runs : starts[r] > 0 => Keys \subseteq consented[r]

(* An answer that was acknowledged is on record as long as the run is, and *)
(* it is the only answer to its question.                                  *)
AcknowledgedAnswersKept ==
  \A r \in Runs : snap[r].st # "none" =>
    /\ acked[r] \subseteq snap[r].answers
    /\ \A x, y \in snap[r].answers : x.id = y.id => x = y

(* What a manager has in memory of a run it prepares is what the disk has, *)
(* also after a save that failed, and the run is its own.                  *)
PreparedInSync ==
  \A d \in Daemons, r \in Runs :
    mem[d][r].st \in {"pending", "running"} =>
      /\ lease[r] = d
      /\ mem[d][r] = snap[r] \/ (op[d].run = r /\ op[d].pc = "unlock")

(* A slot is held for a run this daemon prepares (or that was deleted: see *)
(* Delete), never for one that is settled, and the cap is kept.            *)
SlotsAccounted ==
  \A d \in Daemons :
    /\ Cardinality({r \in Runs : slot[d][r] # "none"}) <= Cap
    /\ \A r \in Runs :
         slot[d][r] = "held" => mem[d][r].st = "pending" \/ r \in tomb

(* A driver works on a run that this daemon prepares only inside a slot.   *)
DrivesInSlot ==
  \A d \in Daemons, r \in Runs :
    drive[d][r].phase # "none" /\ mem[d][r].st = "pending" => slot[d][r] = "held"

(* The record of a run only goes forward: answers are never withdrawn,     *)
(* revisions grow, an outcome is final, and a deleted run does not return. *)
Evolves(s, t) ==
  \/ t = s \/ t = NoRun
  \/ s.st = "none" /\ t = Accepted
  \/ s.st = "pending" /\ t.st = "pending" /\ t.rev = s.rev + 1 /\ s.answers \subseteq t.answers
  \/ s.st = "pending" /\ t.st \in {"running", "failed", "aborted"} /\ s.answers \subseteq t.answers
  \/ s.st = "running" /\ t.st \in {"done", "aborted"} /\ s.answers = t.answers
RecordEvolves == [][\A r \in Runs : Evolves(snap[r], snap'[r])]_vars

(* A preparation that waits for nobody's answer moves on: its drive ends,  *)
(* or another daemon takes it over, if one has a free slot.                *)
PreparationAdvances ==
  \A r \in Runs : Preparing(snap[r]) ~> ~Preparing(snap[r]) \/ \A d \in Daemons : Full(d)
=============================================================================
