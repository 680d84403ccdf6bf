---------------------------- MODULE RunLifecycle ----------------------------
(***************************************************************************)
(* WorkflowManager: the life of ONE journaling run id, shared by the       *)
(* managers of several processes.  Disk: the snapshot <runId>.json, the    *)
(* event log <runId>.events.jsonl, the lease.  Memory, per manager: the    *)
(* ManagedRun of its `runs` map.                                           *)
(*                                                                         *)
(* A manager method is one synchronous span of a Node process, so it is    *)
(* one action.  Every span that writes does so between taking and giving   *)
(* up the lease, which RunLease.tla models; here the lease is exclusive.   *)
(* What can happen INSIDE a span is in the outcome o of its writes: the    *)
(* append fails, the best-effort save fails, or the process dies, leaving  *)
(* any prefix of the span's writes on disk.                                *)
(*                                                                         *)
(* Out of this module: setup ("pending") runs, non-journaling runs, runs   *)
(* from before the event stream existed, and resumeFromRunId children.     *)
(***************************************************************************)
EXTENDS Integers, Sequences, FiniteSets

CONSTANTS
  Managers,      \* managers, one per process incarnation
  NoManager,
  Calls,         \* call indexes whose results are journaled
  Checkpoint,    \* the one that is a human checkpoint
  Values,        \* results and decisions
  NoValue,
  Ops,           \* ids of continuation operations
  NoOp,          \* a continuation without an operation
  MalformedReplies,  \* TRUE: a caller may send checkpointReplies that throw
  ReuseIds,      \* TRUE: a caller may request an id that was in use before
  MaxGen,        \* bound: continuations
  MaxLog,        \* bound: log records after which no run is continued
  MaxFaults      \* bound: failing writes and reads (a death is not a fault)

ASSUME ManagersAssumption == NoManager \notin Managers
ASSUME ValuesAssumption   == NoValue \notin Values
ASSUME CallsAssumption    == Checkpoint \in Calls
ASSUME OpsAssumption      == NoOp \notin Ops
ASSUME CallersAssumption  == MalformedReplies \in BOOLEAN /\ ReuseIds \in BOOLEAN
ASSUME BoundsAssumption   == MaxGen \in Nat /\ MaxLog \in Nat /\ MaxFaults \in Nat

Statuses == {"running", "paused", "failed", "completed", "aborted"}

(* pauseReason; a manual and a usage-limit pause gate nothing: "none". *)
Reasons == {"none", "interrupted", "auth", "checkpoint"}

Journals == [Calls -> Values \cup {NoValue}]

(* Only a stopped record is ever looked for in the log. *)
Events == {"stopped", "other"}

(* What persistedState(managed) saves, and so both the snapshot and the    *)
(* part of a ManagedRun that can be saved.  seq = eventSeq, the watermark; *)
(* inc = eventLogIncomplete; receipts = continuationOperations; fresh: the *)
(* calls that the executions of this generation have recorded, which the   *)
(* code has as the call indexes it allocates only once per execution.      *)
Run == [st : Statuses, why : Reasons, gen : Nat, seq : Nat, inc : BOOLEAN,
        journal : Journals, fresh : SUBSET Calls, receipts : [Ops -> Nat]]

NoRun == [st |-> "absent", why |-> "none", gen |-> 0, seq |-> 0, inc |-> FALSE,
          journal |-> [c \in Calls |-> NoValue], fresh |-> {},
          receipts |-> [o \in Ops |-> 0]]

VARIABLES
  snap,      \* the snapshot on disk, or NoRun
  log,       \* the complete records of the event log
  tombstone, \* the lineage tombstone that a delete leaves
  lease,     \* the process the lock file names
  alive,
  run,       \* each manager's runs.get(runId), or NoRun
  own,       \* managers whose ManagedRun has its lease set
  settled,   \* managers whose ManagedRun has executionSettled
  faults

vars == <<snap, log, tombstone, lease, alive, run, own, settled, faults>>

TypeOK ==
  /\ snap \in Run \cup {NoRun}
  /\ log \in Seq(Events)
  /\ tombstone \in BOOLEAN
  /\ lease \in Managers \cup {NoManager}
  /\ alive \subseteq Managers
  /\ run \in [Managers -> Run \cup {NoRun}]
  /\ own \subseteq Managers
  /\ settled \subseteq Managers
  /\ faults \in 0 .. MaxFaults

Init ==
  /\ snap = NoRun
  /\ log = <<>>
  /\ tombstone = FALSE
  /\ lease = NoManager
  /\ alive = Managers
  /\ run = [m \in Managers |-> NoRun]
  /\ own = {}
  /\ settled = {}
  /\ faults = 0

-----------------------------------------------------------------------------
(* Writes and their outcomes *)

(* Whether readEvents, the span's save, its appendEvent, and the save that *)
(* follows the append where an earlier one was required, work when called; *)
(* whether the process dies in the span, which leaves the rest undone.     *)
IO == {"read", "save", "append", "resave"}
Outcomes == [IO \cup {"dies"} -> BOOLEAN]

(* What a dying process left undone is not a fault.  One manager survives. *)
Charge(m, o) ==
  LET failed == {f \in IO : ~o[f]} IN
  /\ faults' = IF o.dies THEN faults ELSE faults + Cardinality(failed)
  /\ faults' <= MaxFaults
  /\ alive' = IF o.dies THEN alive \ {m} ELSE alive
  /\ alive' # {}

(* The memory of a process goes with it. *)
Memory(m, r, o)   == run' = [run EXCEPT ![m] = IF o.dies THEN NoRun ELSE r]
Owned(m, b, o)    == own' = IF b /\ ~o.dies THEN own \cup {m} ELSE own \ {m}
Settled(m, b, o)  == settled' = IF b /\ ~o.dies THEN settled \cup {m} ELSE settled \ {m}

(* A span that leaves the ManagedRun of m, if any, as it is. *)
SameMemory(m, o) == /\ Memory(m, run[m], o)
                    /\ Owned(m, m \in own, o)
                    /\ Settled(m, m \in settled, o)

(* Mutant: a lock that a dead process left is never recovered. *)
LeaseFreeIfReleased == lease = NoManager

(* acquireRunLease: free, or named by a dead process. *)
LeaseFree == lease = NoManager \/ lease \notin alive

(* appendEvent validates the snapshot and the log, and takes only the next *)
(* sequence number (expectedSeq).                                          *)
Appends(s, r, o) ==
  /\ ~r.inc
  /\ s # NoRun /\ ~s.inc /\ s.seq <= Len(log)
  /\ r.seq + 1 = Len(log) + 1
  /\ o.append

(* Mutant: the event is counted whether or not it was appended. *)
PublishedUnmarked(s, r, o) == [r EXCEPT !.seq = @ + 1]

(* publishRunEvent's durable half: the watermark moves with the append; a  *)
(* failed append marks the log incomplete and disables later ones.         *)
Published(s, r, o) ==
  [r EXCEPT !.seq = IF Appends(s, r, o) THEN @ + 1 ELSE @,
            !.inc = ~Appends(s, r, o)]

Log(s, r, o, e) == log' = IF Appends(s, r, o) THEN Append(log, e) ELSE log

(* Once its lease is gone, nothing but the status and the generation of a  *)
(* ManagedRun is ever read again.                                          *)
Retired(r) == [NoRun EXCEPT !.st = r.st, !.gen = r.gen]

(* publishRunEvent, then persistRun (best effort) and releaseRunLease: how *)
(* every span that ends an execution ends.                                 *)
Finish(m, r, e, o) ==
  /\ Log(snap, r, o, e)
  /\ Memory(m, Retired(r), o)
  /\ snap' = IF o.save THEN Published(snap, r, o) ELSE snap
  /\ Owned(m, FALSE, o)
  /\ lease' = NoManager
  /\ UNCHANGED tombstone

(* prepareEventPublicationState: the watermark is recovered from the log's *)
(* tail; if the log cannot be read it is marked incomplete.                *)
TailRead(o) == ~snap.inc /\ o.read /\ snap.seq <= Len(log)

(* Mutant: a readable log is taken for a complete one. *)
PreparedForgetsLoss(o) ==
  [snap EXCEPT !.seq = IF o.read /\ snap.seq <= Len(log) THEN Len(log) ELSE @,
               !.inc = ~(o.read /\ snap.seq <= Len(log))]

Prepared(o) ==
  [snap EXCEPT !.seq = IF TailRead(o) THEN Len(log) ELSE @,
               !.inc = ~TailRead(o)]

-----------------------------------------------------------------------------
(* Execution under the lease *)

(* The id was in use: a run of it was deleted, or is in some memory. *)
Used == tombstone \/ \E n \in Managers : run[n] # NoRun

(* Mutant: the identity is not loaded under the lease. *)
StartUnchecked(m, o) ==
  /\ LeaseFree /\ run[m] = NoRun
  /\ Used => ReuseIds
  /\ LET r == [NoRun EXCEPT !.st = "running"] IN
       /\ Memory(m, r, o)
       /\ snap' = snap
  /\ Owned(m, TRUE, o) /\ Settled(m, FALSE, o)
  /\ lease' = m
  /\ UNCHANGED <<log, tombstone>>

(* acquireNewRunIdentity and initializeRun.  The first save is best effort *)
(* for a plain run; for one with an admission it throws, and the run is    *)
(* withdrawn (nothing changes).  The tombstone is not consulted.           *)
Start(m, o) ==
  /\ LeaseFree /\ snap = NoRun /\ run[m] = NoRun
  /\ Used => ReuseIds
  /\ LET r == [NoRun EXCEPT !.st = "running"] IN
       /\ Memory(m, r, o)
       /\ snap' = IF o.save THEN r ELSE snap
  /\ Owned(m, TRUE, o) /\ Settled(m, FALSE, o)
  /\ lease' = m
  /\ UNCHANGED <<log, tombstone>>

Executing(m) == run[m].st = "running" /\ m \in own

(* An observation event (agentStart, log, phase, ...): appended, and saved *)
(* only if that fails.                                                     *)
Observe(m, o) ==
  /\ Executing(m) /\ Len(log) < MaxLog
  /\ Log(snap, run[m], o, "other")
  /\ Memory(m, Published(snap, run[m], o), o)
  /\ snap' = IF ~run[m].inc /\ ~Appends(snap, run[m], o) /\ o.save
               THEN Published(snap, run[m], o) ELSE snap
  /\ Owned(m, TRUE, o) /\ Settled(m, FALSE, o)
  /\ UNCHANGED <<lease, tombstone>>

(* recordJournalEntry replaces the entry that the index has from an earlier *)
(* generation: a continuation whose call has another hash, or an empty      *)
(* result, runs it again.                                                   *)
Recorded(r, c, v) == [r EXCEPT !.journal[c] = v, !.fresh = @ \cup {c}]

(* For an agent result: event, then best-effort save. *)
RecordResult(m, c, v, o) ==
  /\ Executing(m) /\ c # Checkpoint /\ c \notin run[m].fresh
  /\ Len(log) < MaxLog
  /\ LET r == Recorded(run[m], c, v) IN
       /\ Log(snap, r, o, "other")
       /\ Memory(m, Published(snap, r, o), o)
       /\ snap' = IF o.save THEN Published(snap, r, o) ELSE snap
  /\ Owned(m, TRUE, o) /\ Settled(m, FALSE, o)
  /\ UNCHANGED <<lease, tombstone>>

(* For a live human answer: the decision is saved before the event is      *)
(* appended.  If it cannot be, guardTerminal swallows the exception: the   *)
(* entry stays in memory, and the script goes on with the answer.          *)
RecordDecision(m, v, o) ==
  /\ Executing(m) /\ Checkpoint \notin run[m].fresh
  /\ Len(log) < MaxLog
  /\ LET r == Recorded(run[m], Checkpoint, v) IN
       IF o.save
         THEN /\ Log(r, r, o, "other")
              /\ Memory(m, Published(r, r, o), o)
              /\ snap' = IF o.resave THEN Published(r, r, o) ELSE r
         ELSE /\ Memory(m, r, o)
              /\ UNCHANGED <<snap, log>>
  /\ Owned(m, TRUE, o) /\ Settled(m, FALSE, o)
  /\ UNCHANGED <<lease, tombstone>>

(* executeRun settles: completed, or the outcome of its catch clause. *)
EngineResolves(m, o) ==
  /\ Executing(m)
  /\ Finish(m, [run[m] EXCEPT !.st = "completed"], "other", o)
  /\ Settled(m, TRUE, o)

EngineThrows(m, st, why, o) ==
  /\ Executing(m)
  /\ <<st, why>> \in {<<"failed", "none">>, <<"aborted", "none">>, <<"paused", "none">>,
                      <<"paused", "auth">>, <<"paused", "checkpoint">>}
  /\ why = "checkpoint" => Checkpoint \notin run[m].fresh
  /\ Finish(m, [run[m] EXCEPT !.st = st, !.why = why], "other", o)
  /\ Settled(m, TRUE, o)

(* The execution that pause() or stop() aborted returns later, without a   *)
(* lease: in memory a normal return says "completed", on disk nothing moves. *)
Unwind(m, st) ==
  /\ run[m].st \in {"paused", "aborted"} /\ m \notin settled
  /\ st \in {run[m].st, "completed"}
  /\ run' = [run EXCEPT ![m].st = st]
  /\ settled' = settled \cup {m}
  /\ UNCHANGED <<snap, log, tombstone, own, lease>>

-----------------------------------------------------------------------------
(* Control *)

Pause(m, o) ==
  /\ run[m].st = "running"
  /\ Finish(m, [run[m] EXCEPT !.st = "paused"], "other", o)
  /\ Settled(m, m \in settled, o)

(* stop() *)
StopRunning(m, o) ==
  /\ run[m].st = "running"
  /\ Finish(m, [run[m] EXCEPT !.st = "aborted"], "stopped", o)
  /\ Settled(m, m \in settled, o)

(* Mutant: the manager's own record is saved, as for a running execution. *)
StopPausedOwnRecord(m, o) ==
  /\ run[m].st = "paused" /\ m \notin own /\ LeaseFree
  /\ snap.st = "paused"
  /\ Finish(m, [run[m] EXCEPT !.st = "aborted"], "stopped", o)
  /\ Settled(m, m \in settled, o)

(* A run paused in this manager gave its lease up, and others may have     *)
(* moved it since: stop() takes the lease, reloads, and saves the reloaded *)
(* snapshot (pausedSnapshot), not its own.                                 *)
StopPaused(m, o) ==
  /\ run[m].st = "paused" /\ m \notin own /\ LeaseFree
  /\ snap.st = "paused"
  /\ LET p == Prepared(o)
         s == [p EXCEPT !.st = "aborted", !.why = "none"] IN
       /\ Log(p, s, o, "stopped")
       /\ Memory(m, [run[m] EXCEPT !.st = "aborted"], o)
       /\ snap' = IF o.save THEN Published(p, s, o) ELSE snap
  /\ Owned(m, FALSE, o) /\ Settled(m, m \in settled, o)
  /\ lease' = NoManager
  /\ UNCHANGED tombstone

(* stopPersistedRun's cold path: no execution here to stop.  A stopped     *)
(* record that is already the log's tail is not appended again.            *)
StopCold(m, o) ==
  /\ run[m].st \notin {"running", "paused"} /\ LeaseFree
  /\ snap.st \in {"running", "paused"}
  /\ LET p == Prepared(o)
         s == [p EXCEPT !.st = "aborted", !.why = "none"]
         durable == TailRead(o) /\ log # <<>> /\ log[Len(log)] = "stopped" IN
       IF durable
         THEN /\ snap' = IF o.save THEN s ELSE snap
              /\ UNCHANGED log
         ELSE /\ Log(p, s, o, "stopped")
              /\ snap' = IF o.save THEN Published(p, s, o) ELSE snap
  /\ SameMemory(m, o)
  /\ lease' = NoManager
  /\ UNCHANGED tombstone

(* Mutant: the generation is not compared. *)
GetRunByStatus(m) ==
  /\ run[m] # NoRun
  /\ \/ m \in own \/ snap = NoRun
     \/ m \in settled /\ snap.st = "running"
     \/ snap.st = run[m].st

(* getRun: cached history hides the disk only while it agrees with it, or  *)
(* while only this generation's final save is missing from the disk.       *)
GetRun(m) ==
  /\ run[m] # NoRun
  /\ \/ m \in own \/ snap = NoRun
     \/ m \in settled /\ snap.st = "running" /\ snap.gen = run[m].gen
     \/ snap.st = run[m].st /\ snap.gen = run[m].gen

(* Mutant: the listed status decides, not the one reloaded under the lease. *)
ReconcileListed(m, o) ==
  /\ ~GetRun(m) /\ LeaseFree
  /\ snap # NoRun
  /\ snap' = IF o.save THEN [snap EXCEPT !.st = "paused", !.why = "interrupted"] ELSE snap
  /\ SameMemory(m, o)
  /\ lease' = NoManager
  /\ UNCHANGED <<log, tombstone>>

(* reconcileListedRun: everything is decided on the snapshot reloaded      *)
(* under the lease.                                                        *)
Reconcile(m, o) ==
  /\ ~GetRun(m) /\ LeaseFree
  /\ snap.st = "running"
  /\ snap' = IF o.save THEN [snap EXCEPT !.st = "paused", !.why = "interrupted"] ELSE snap
  /\ SameMemory(m, o)
  /\ lease' = NoManager
  /\ UNCHANGED <<log, tombstone>>

(* Mutant: managed.lease is not cleared. *)
DeleteKeepsLease(m, o) ==
  /\ m \in own \/ LeaseFree
  /\ log' = <<>>
  /\ snap' = IF o.save THEN NoRun ELSE snap
  /\ tombstone' = (tombstone \/ (o.save /\ snap # NoRun))
  /\ SameMemory(m, o)
  /\ lease' = NoManager

(* deleteRun: the events first, then the snapshot, the lock last; a save   *)
(* outcome of FALSE is a delete that got no further than the events.       *)
Delete(m, o) ==
  /\ m \in own \/ LeaseFree
  /\ log' = <<>>
  /\ snap' = IF o.save THEN NoRun ELSE snap
  /\ tombstone' = (tombstone \/ (o.save /\ snap # NoRun))
  /\ Memory(m, NoRun, o) /\ Owned(m, FALSE, o) /\ Settled(m, FALSE, o)
  /\ lease' = NoManager

-----------------------------------------------------------------------------
(* Continuation: continueRunInternal *)

Refuses(m) == run[m].st \in {"running", "aborted"}

(* classifyCheckpointReplies.  A durable decision, even one of another     *)
(* hash than the pending question, makes a reply count for nothing.        *)
Accepts(reply) == /\ reply # NoValue /\ snap.journal[Checkpoint] = NoValue
                  /\ snap.why = "checkpoint"
Mismatch(reply) == /\ reply # NoValue /\ snap.journal[Checkpoint] = NoValue
                   /\ snap.why # "checkpoint"

Admits(m, op, reply) ==
  /\ ~Refuses(m) /\ LeaseFree
  /\ snap # NoRun
  /\ op # NoOp => snap.receipts[op] = 0
  /\ ~Mismatch(reply)
  /\ snap.st \notin {"completed", "aborted"}

(* The auth and checkpoint gates.  host: surviving credentials, or a       *)
(* confirm callback.                                                       *)
Gated(reply, host) ==
  ~host /\ (snap.why = "auth" \/ (snap.why = "checkpoint" /\ ~Accepts(reply)))

(* The accepted answer, the receipt and the new generation are one save    *)
(* (persistRunOrThrow); only then is the run published and executed.       *)
Continue(m, op, reply, host, o) ==
  /\ Admits(m, op, reply) /\ ~Gated(reply, host) /\ o.save
  /\ snap.gen < MaxGen
  /\ LET p == Prepared(o)
         r == [p EXCEPT !.st = "running", !.why = "none", !.gen = @ + 1, !.fresh = {},
                 !.journal = IF Accepts(reply) THEN [@ EXCEPT ![Checkpoint] = reply] ELSE @,
                 !.receipts = IF op = NoOp THEN @ ELSE [@ EXCEPT ![op] = snap.gen + 1]] IN
       /\ Log(r, r, o, "other")
       /\ Memory(m, Published(r, r, o), o)
       /\ snap' = IF ~Appends(r, r, o) /\ o.resave THEN Published(r, r, o) ELSE r
  /\ Owned(m, TRUE, o) /\ Settled(m, FALSE, o)
  /\ lease' = m
  /\ UNCHANGED tombstone

(* resume() and resumeInBackground() publish the gate again. *)
Regate(m, op, reply, o) ==
  /\ Admits(m, op, reply) /\ Gated(reply, FALSE) /\ Len(log) < MaxLog
  /\ LET p == Prepared(o) IN
       /\ Log(p, p, o, "other")
       /\ snap' = IF o.save THEN Published(p, p, o) ELSE snap
  /\ SameMemory(m, o)
  /\ lease' = NoManager
  /\ UNCHANGED tombstone

(* A continuation refused at a gate, or whose save throws, leaves at most  *)
(* what prepareEventPublicationState saved: the mark of an unreadable log. *)
RefuseMarked(m, op, reply, o) ==
  /\ Admits(m, op, reply) /\ o.save
  /\ ~snap.inc /\ ~TailRead(o)
  /\ snap' = [snap EXCEPT !.inc = TRUE]
  /\ SameMemory(m, o)
  /\ lease' = NoManager
  /\ UNCHANGED <<log, tombstone>>

(* classifyCheckpointReplies throws on malformed replies, after the lease  *)
(* was taken and outside any try.                                          *)
ContinueThrows(m) ==
  /\ MalformedReplies
  /\ ~Refuses(m) /\ LeaseFree /\ snap # NoRun
  /\ lease' = m
  /\ UNCHANGED <<snap, log, tombstone, run, own, settled>>

-----------------------------------------------------------------------------
SavingStep(m, o) == Start(m, o) \/ Reconcile(m, o) \/ Delete(m, o)

PublishingStep(m, o) ==
  \/ Observe(m, o)
  \/ \E c \in Calls, v \in Values : RecordResult(m, c, v, o)
  \/ EngineResolves(m, o)
  \/ \E st \in Statuses, why \in Reasons : EngineThrows(m, st, why, o)
  \/ Pause(m, o) \/ StopRunning(m, o)

ReloadingStep(m, o) ==
  \/ StopPaused(m, o) \/ StopCold(m, o)
  \/ \E op \in Ops \cup {NoOp}, reply \in Values \cup {NoValue} :
       Regate(m, op, reply, o) \/ RefuseMarked(m, op, reply, o)

DecidingStep(m, o) == \E v \in Values : RecordDecision(m, v, o)

ContinuingStep(m, o) ==
  \E op \in Ops \cup {NoOp}, reply \in Values \cup {NoValue}, host \in BOOLEAN :
    Continue(m, op, reply, host, o)

(* Reads and writes that a span does not make do not fail in it. *)
Attempts(o, made) == \A f \in IO \ made : o[f]

WritingStep(m) ==
  \E o \in Outcomes :
    /\ Charge(m, o)
    /\ \/ Attempts(o, {"save"}) /\ SavingStep(m, o)
       \/ Attempts(o, {"append", "save"}) /\ PublishingStep(m, o)
       \/ Attempts(o, {"save", "append", "resave"}) /\ DecidingStep(m, o)
       \/ Attempts(o, {"read", "append", "save"}) /\ ReloadingStep(m, o)
       \/ Attempts(o, IO) /\ ContinuingStep(m, o)

MemoryStep(m) ==
  /\ \/ \E st \in Statuses : Unwind(m, st)
     \/ ContinueThrows(m)
  /\ UNCHANGED <<alive, faults>>

Crash(m) ==
  /\ alive' = alive \ {m} /\ alive' # {}
  /\ run' = [run EXCEPT ![m] = NoRun]
  /\ own' = own \ {m}
  /\ settled' = settled \ {m}
  /\ UNCHANGED <<snap, log, tombstone, lease, faults>>

Next == \E m \in alive : WritingStep(m) \/ MemoryStep(m) \/ Crash(m)

Spec == Init /\ [][Next]_vars

(* Hosts keep listing and inspecting their runs, and each such call        *)
(* reconciles; nothing else is assumed to be scheduled.                    *)
AllWell == [read |-> TRUE, save |-> TRUE, append |-> TRUE, resave |-> TRUE, dies |-> FALSE]

Recovery(m) ==
  /\ m \in alive /\ Reconcile(m, AllWell)
  /\ UNCHANGED <<alive, faults>>

LiveSpec == Spec /\ \A m \in Managers : WF_vars(Recovery(m))

-----------------------------------------------------------------------------
(* Properties *)

(* r has every entry of s, but for those its generation has recorded anew. *)
Keeps(s, r) ==
  /\ s.fresh \subseteq r.fresh
  /\ \A c \in Calls : s.journal[c] # NoValue =>
       /\ r.journal[c] # NoValue
       /\ r.journal[c] = s.journal[c] \/ c \in r.fresh \ s.fresh

(* Two live managers never execute the run at the same time, through any   *)
(* mix of starts, continuations, cold stops, deletions and deaths: whoever *)
(* executes still is the process the lock file names.                      *)
OwnerHoldsLease == \A m \in own : lease = m

(* A live owner's ManagedRun knows everything the disk knows: it is of the *)
(* same generation, still running, has every durable journal entry, or one *)
(* it has itself recorded since, every receipt, and has not forgotten that *)
(* the log lost an event.  A save of it can therefore erase nothing.       *)
OwnerSubsumesDisk ==
  \A m \in own :
    /\ run[m].st = "running"
    /\ snap # NoRun =>
         /\ snap.st = "running" /\ snap.gen = run[m].gen
         /\ Keeps(snap, run[m])
         /\ snap.receipts = run[m].receipts
         /\ snap.inc => run[m].inc

(* "Exactly one writer per run": the owner's watermark is the log's tail   *)
(* until an append fails, so its next append is never refused as out of    *)
(* sequence, whoever wrote the log before it.                              *)
OwnerAtTail ==
  \A m \in own : ~run[m].inc => run[m].seq = Len(log)

(* "Checkpoint answers and setup receipts cannot be overwritten by a       *)
(* conflicting retry": a durable result or answer is replaced only by the  *)
(* record of an execution that has not recorded that call before, never by *)
(* a stop, a reconciliation, a continuation, a manager that remembers an   *)
(* earlier state or a second record of the same execution; the generation  *)
(* that an operation started is never replaced.                            *)
FirstWriterWins ==
  [][snap # NoRun /\ snap' # NoRun =>
       /\ IF snap'.gen = snap.gen
            THEN Keeps(snap, snap')
            ELSE \A c \in Calls :
                   snap.journal[c] # NoValue => snap'.journal[c] = snap.journal[c]
       /\ \A op \in Ops :
            snap.receipts[op] # 0 => snap'.receipts[op] = snap.receipts[op]]_vars

(* "A failed append marks eventLogIncomplete, disables later appends for   *)
(* that run": once the mark is durable no later owner clears it or appends *)
(* behind the gap.                                                         *)
LossIsFinal ==
  [][snap.inc /\ snap' # NoRun => snap'.inc /\ log' \in {log, <<>>}]_vars

(* getRun: cached history is kept "until another owner changes its durable *)
(* generation or status": while another process executes the run, no       *)
(* manager shows, or reconciles by, the history it has cached.             *)
CachedHistoryYields ==
  snap # NoRun /\ own # {} => \A m \in Managers \ own : ~GetRun(m)

(* The snapshot implements the abstract record: statuses move only along   *)
(* RunRecord's edges, so a completed or aborted run is never resurrected   *)
(* by a stale reconcile, stop, pause or continuation of another process.   *)
Record == INSTANCE RunRecord
            WITH st <- snap.st, gen <- snap.gen,
                 journal <- snap.journal, fresh <- snap.fresh, receipts <- snap.receipts
RefinesRunRecord == Record!Spec

(* "A dead owner's persisted run reconciles under its lease to paused":    *)
(* a run left running by owners that all died does not stay so.            *)
DeadOwnerReconciles ==
  snap.st = "running" /\ own = {}
    ~> (snap.st # "running" \/ own # {})

(* The lease comment of ManagedRun: "Cross-process execution lease for     *)
(* this run, when it is actively executing".                               *)
LeaseOnlyWhileExecuting == lease \in alive => lease \in own
=============================================================================
