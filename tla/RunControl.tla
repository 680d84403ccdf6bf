----------------------------- MODULE RunControl -----------------------------
(***************************************************************************)
(* Stopping a run that another process executes (run-control.ts,           *)
(* run-control-store.ts), on top of RunLifecycle: the stop tool of a       *)
(* daemon writes an intent file, posts it to the daemon that has the       *)
(* lease, may kill that daemon if it was superseded, or stops the run      *)
(* cold; every daemon also applies on a timer the intents it finds, and    *)
(* whoever applies one writes its acknowledgement.                         *)
(*                                                                         *)
(* A step is the code between two awaits.  A piece that calls the manager  *)
(* more than once is cut: its process is then in a position of Inside and  *)
(* does nothing else, but other processes may come between.                *)
(*                                                                         *)
(* Every daemon has opened the project of the run: one that has not does   *)
(* not look for its intents (projects.stores()).                           *)
(***************************************************************************)
EXTENDS RunLifecycle

CONSTANTS
  Daemons,   \* the managers that are daemons; the others have no control endpoint
  Ids        \* operation ids, a subset of Nat: their order is that of the file names

ASSUME DaemonsAssumption == Daemons \subseteq Managers /\ Daemons # {} /\ Ids \subseteq Nat

VARIABLES
  intent,    \* for each id its request file, with the acknowledgement beside it
  net,       \* posted stop requests that have not arrived: <<daemon, id>>
  call,      \* the stop call each daemon is in
  current,   \* the daemon the family pointer names
  retired,   \* daemons the pointer no longer names
  condemned  \* processes a forced stop has sent a signal

files == <<intent, net>>
family == <<current, retired>>
lifecycle == vars
allVars == <<vars, files, call, family, condemned>>

Intents == {"unused", "pending", "stopped", "already-terminal", "removed"}

NoCall == [pc |-> "idle", force |-> FALSE, owner |-> NoManager, id |-> 0]

Positions == {"idle", "load", "create", "posted", "again", "probe", "dying",
              "cold", "last"}

(* No await follows: the rest of the piece is still to come. *)
Inside == {"load", "cold"}

ControlTypeOK ==
  /\ TypeOK
  /\ intent \in [Ids -> Intents]
  /\ net \subseteq Daemons \X Ids
  /\ call \in [Managers -> [pc : Positions, force : BOOLEAN,
                            owner : Managers \cup {NoManager}, id : Ids \cup {0}]]
  /\ current \in Daemons /\ retired \subseteq Daemons
  /\ condemned \subseteq Managers

ControlInit ==
  /\ Init
  /\ intent = [i \in Ids |-> "unused"]
  /\ net = {}
  /\ call = [m \in Managers |-> NoCall]
  /\ current = CHOOSE d \in Daemons : TRUE
  /\ retired = {}
  /\ condemned = {}

-----------------------------------------------------------------------------
(* Processes.  A daemon that was never published serves nobody. *)

Serves(m) == m \in alive /\ (m \in Daemons => m \in retired \cup {current})

(* What a process was in, and what was posted to it, goes with it. *)
Calling(c) == call' = [m \in Managers |-> IF m \in alive' THEN c[m] ELSE NoCall]
Posted(n)  == net' = {p \in n : p[1] \in alive'}

At(m, pc) == [call EXCEPT ![m].pc = pc]

Terminal == snap.st \in {"completed", "failed", "aborted"}

(* inspectRunLease by resolveOwner: the lease, if a live process has it. *)
Owner == IF lease \in alive THEN lease ELSE NoManager

(* requireDurableStoppedRun *)
DurablyStopped(s, l) ==
  s.st = "aborted" /\ ~s.inc /\ s.seq \in 1 .. Len(l) /\ l[s.seq] = "stopped"

-----------------------------------------------------------------------------
(* The intent files *)

Found(i) == intent[i] \notin {"unused", "removed"}
Pending == {i \in Ids : intent[i] = "pending"}

(* findPendingWholeStopIntent: the first of the directory. *)
FirstPending(i) == i \in Pending /\ \A j \in Pending : i <= j

(* acknowledgeWholeStopIntent: create without replace. *)
Acknowledged(i, out) ==
  [intent EXCEPT ![i] = IF @ = "pending" THEN out ELSE @]

(* createOrReuseWholeStopIntent *)
Chosen(i) == IF Pending # {} THEN FirstPending(i) ELSE intent[i] = "unused"
Created(i) == [intent EXCEPT ![i] = IF @ = "unused" THEN "pending" ELSE @]

-----------------------------------------------------------------------------
(* Applying an intent *)

NothingStopped == UNCHANGED lifecycle

(* What stop() of the manager does, when it returns true. *)
StopHere(m, o) == StopRunning(m, o) \/ StopPaused(m, o)
CanStopHere(m) ==
  \/ run[m].st = "running"
  \/ run[m].st = "paused" /\ m \notin own /\ LeaseFree /\ snap.st = "paused"

(* stopPersistedRun, for a run that is not terminal *)
InMemory(m) == run[m].st \in {"running", "paused"}
CanStopPersisted(m) ==
  IF InMemory(m) THEN CanStopHere(m) ELSE LeaseFree /\ snap # NoRun

(* Mutant: only a run that is in memory is stopped. *)
StopPersistedWarm(m, o) == StopHere(m, o)

StopPersisted(m, o) == IF InMemory(m) THEN StopHere(m, o) ELSE StopCold(m, o)

(* A running execution is stopped without a look at the log. *)
Stops(m, o) ==
  /\ Attempts(o, {"append", "save"} \cup (IF run[m].st = "running" THEN {} ELSE {"read"}))
  /\ Charge(m, o)

(* Mutant: the acknowledgement does not wait for requireDurableStoppedRun. *)
StoppedAtOnce(m, i) ==
  intent' = IF m \in alive' THEN Acknowledged(i, "stopped") ELSE intent

(* The stop is acknowledged if it can be read back.  *)
StoppedAndAcknowledged(m, i) ==
  intent' = IF m \in alive' /\ DurablyStopped(snap', log')
              THEN Acknowledged(i, "stopped") ELSE intent

(* applyWholeIntent *)
ApplyWholeIntent(m, i) ==
  \/ /\ snap = NoRun
     /\ NothingStopped /\ UNCHANGED intent
  \/ /\ Terminal
     /\ intent' = Acknowledged(i, "already-terminal")
     /\ NothingStopped
  \/ /\ snap # NoRun /\ ~Terminal
     /\ IF GetRun(m) THEN ~CanStopHere(m) ELSE ~CanStopPersisted(m)
     /\ NothingStopped /\ UNCHANGED intent
  \/ /\ snap # NoRun /\ ~Terminal
     /\ \E o \in Outcomes :
          /\ Stops(m, o)
          /\ IF GetRun(m) THEN StopHere(m, o) ELSE StopPersisted(m, o)
          /\ StoppedAndAcknowledged(m, i)

(* processPendingIntents, on the reaper's timer of every daemon *)
Poll(d) ==
  /\ d \in Daemons /\ Serves(d) /\ call[d].pc \notin Inside
  /\ \E i \in Ids : FirstPending(i) /\ ApplyWholeIntent(d, i)
  /\ Calling(call) /\ Posted(net)
  /\ UNCHANGED <<family, condemned>>

(* applyLocal: a posted stop arrives.  It is applied whether or not it was *)
(* acknowledged meanwhile.                                                 *)
Arrive(d, i) ==
  /\ <<d, i>> \in net /\ Serves(d) /\ call[d].pc \notin Inside
  /\ IF Found(i) THEN ApplyWholeIntent(d, i) ELSE NothingStopped /\ UNCHANGED intent
  /\ Calling(call) /\ Posted(net \ {<<d, i>>})
  /\ UNCHANGED <<family, condemned>>

-----------------------------------------------------------------------------
(* The stop tool (server.ts), and control(), where it sends runs that are  *)
(* not this daemon's.                                                      *)

Idle(d) == d \in Daemons /\ Serves(d) /\ call[d].pc = "idle"

(* reconcileExternallyDeadRun comes first. *)
CanReconcile(d) == ~GetRun(d) /\ LeaseFree /\ snap.st = "running"

StopTool(d, force) ==
  /\ Idle(d) /\ snap # NoRun /\ ~Terminal
  /\ \/ ~CanReconcile(d) /\ NothingStopped
     \/ \E o \in Outcomes : Attempts(o, {"save"}) /\ Charge(d, o) /\ Reconcile(d, o)
  /\ Calling([call EXCEPT ![d] = [NoCall EXCEPT !.pc = "load", !.force = force]])
  /\ Posted(net)
  /\ UNCHANGED <<intent, family, condemned>>

InCall(d, pc) == d \in alive /\ call[d].pc = pc
Moves == UNCHANGED <<lifecycle, family>>

(* No such run or a terminal one ends the call; for a run that is not this *)
(* daemon's the owner is looked up.                                        *)
Load(d) ==
  /\ InCall(d, "load")
  /\ snap = NoRun \/ Terminal \/ ~GetRun(d)
  /\ call' = [call EXCEPT ![d] =
       IF snap = NoRun \/ Terminal THEN NoCall ELSE [@ EXCEPT !.pc = "create", !.owner = Owner]]
  /\ Moves /\ UNCHANGED <<files, condemned>>

(* Its own run it stops itself, with no intent. *)
LoadOwn(d) ==
  /\ InCall(d, "load")
  /\ snap # NoRun /\ ~Terminal /\ GetRun(d)
  /\ \/ ~CanStopPersisted(d) /\ NothingStopped
     \/ \E o \in Outcomes : Stops(d, o) /\ StopPersisted(d, o)
  /\ Calling([call EXCEPT ![d] = NoCall]) /\ Posted(net)
  /\ UNCHANGED <<intent, family, condemned>>

(* The intent is durable before it is posted, to a daemon only. *)
Create(d, i) ==
  /\ InCall(d, "create") /\ Chosen(i)
  /\ intent' = Created(i)
  /\ LET o == call[d].owner
         posts == o \in Daemons /\ o \in alive IN
       /\ net' = IF posts THEN net \cup {<<o, i>>} ELSE net
       /\ call' = [call EXCEPT ![d] =
            CASE o \in Daemons -> [@ EXCEPT !.pc = "posted", !.id = i]
              [] o = NoManager -> [@ EXCEPT !.pc = "cold", !.id = i]
              [] OTHER -> NoCall]
  /\ Moves /\ UNCHANGED condemned

(* An answer, whatever it says, or none within FORWARD_TIMEOUT_MS. *)
Proceed(d) ==
  /\ InCall(d, "posted")
  /\ IF Terminal THEN call' = [call EXCEPT ![d] = NoCall]
                 ELSE call' = [call EXCEPT ![d].pc = "again", ![d].owner = Owner]
  /\ Moves /\ UNCHANGED <<files, condemned>>

(* Mutant: the pointer is not consulted. *)
MayForceAny(d) == lease = call[d].owner /\ lease \in Daemons /\ lease # d

(* forceOwner: the lease still names the owner, which is a daemon but not  *)
(* this one, and has a live successor.                                     *)
MayForce(d) ==
  /\ lease = call[d].owner /\ lease \in Daemons /\ lease # d
  /\ current # lease /\ current \in alive

Again(d) ==
  /\ InCall(d, "again")
  /\ call' = [call EXCEPT ![d] =
       CASE @.owner = NoManager -> [@ EXCEPT !.pc = "cold"]
         [] @.owner # NoManager /\ @.force /\ MayForce(d) -> [@ EXCEPT !.pc = "probe"]
         [] OTHER -> NoCall]
  /\ Moves /\ UNCHANGED <<files, condemned>>

(* One probe later the owner is sent SIGTERM, then SIGKILL. *)
Kill(d) ==
  /\ InCall(d, "probe")
  /\ condemned' = condemned \cup {call[d].owner}
  /\ call' = At(d, "dying")
  /\ Moves /\ UNCHANGED files

(* waitForPidExit; it did not exit: an error. *)
Died(d) ==
  /\ InCall(d, "dying")
  /\ call' = [call EXCEPT ![d] = IF @.owner \in alive THEN NoCall
                                 ELSE [@ EXCEPT !.pc = "last", !.owner = Owner]]
  /\ Moves /\ UNCHANGED <<files, condemned>>

Last(d) ==
  /\ InCall(d, "last")
  /\ call' = [call EXCEPT ![d] = IF @.owner = NoManager THEN [@ EXCEPT !.pc = "cold"]
                                                        ELSE NoCall]
  /\ Moves /\ UNCHANGED <<files, condemned>>

(* stopPersistedRun; the answer is what the disk then says. *)
Cold(d) ==
  /\ InCall(d, "cold")
  /\ LET i == call[d].id IN
       \/ /\ Terminal
          /\ intent' = IF run[d] # NoRun \/ LeaseFree
                         THEN Acknowledged(i, "already-terminal") ELSE intent
          /\ NothingStopped
       \/ /\ ~Terminal /\ ~CanStopPersisted(d)
          /\ NothingStopped /\ UNCHANGED intent
       \/ /\ ~Terminal
          /\ \E o \in Outcomes : Stops(d, o) /\ StopPersisted(d, o)
          /\ StoppedAndAcknowledged(d, i)
  /\ Calling([call EXCEPT ![d] = NoCall]) /\ Posted(net)
  /\ UNCHANGED <<family, condemned>>

-----------------------------------------------------------------------------
(* Everything else a host does with the run.  deleteRunControlSidecars     *)
(* follows a deletion, in the daemon that made it.                         *)

Removed == [i \in Ids |-> IF intent[i] = "unused" THEN "unused" ELSE "removed"]

Lifecycle(m) ==
  /\ Serves(m) /\ call[m].pc \notin Inside
  /\ WritingStep(m) \/ MemoryStep(m)
  /\ intent' = IF snap # NoRun /\ snap' = NoRun /\ m \in alive' \cap Daemons
                 THEN Removed ELSE intent
  /\ Calling(call) /\ Posted(net)
  /\ UNCHANGED <<family, condemned>>

Dies(m) ==
  /\ m \in alive /\ Crash(m)
  /\ Calling(call) /\ Posted(net)
  /\ UNCHANGED <<intent, family, condemned>>

(* A newer daemon takes the family pointer. *)
Succeed(d) ==
  /\ d \in (Daemons \cap alive) \ (retired \cup {current})
  /\ current' = d
  /\ retired' = retired \cup {current}
  /\ UNCHANGED <<lifecycle, files, call, condemned>>

StopCall(d) ==
  \/ \E force \in BOOLEAN : StopTool(d, force)
  \/ Load(d) \/ LoadOwn(d) \/ Proceed(d) \/ Again(d) \/ Kill(d) \/ Died(d) \/ Last(d) \/ Cold(d)
  \/ \E i \in Ids : Create(d, i)

ControlNext ==
  \/ \E m \in Managers : Lifecycle(m) \/ Dies(m)
  \/ \E d \in Daemons :
       \/ Poll(d) \/ StopCall(d) \/ Succeed(d)
       \/ \E i \in Ids : Arrive(d, i)

ControlSpec == ControlInit /\ [][ControlNext]_allVars

(* The next client's shim starts a daemon when none answers. *)
Replace(d) == current \notin alive /\ Succeed(d)

(* A process leaves the synchronous piece it is in, the reaper's timer     *)
(* fires between any others, a dead daemon is replaced, and clients keep   *)
(* inspecting the run: without that, a daemon that remembers an earlier    *)
(* pause does not stop a run whose later owner died (StopPaused finds it   *)
(* "running", and the cold path is not tried).  Nothing posted has to      *)
(* arrive, and no call and no execution has to end.                        *)
Inspect(d) ==
  /\ Serves(d) /\ call[d].pc \notin Inside
  /\ Recovery(d)
  /\ UNCHANGED <<files, call, family, condemned>>

ControlLiveSpec ==
  /\ ControlSpec
  /\ \A d \in Daemons :
       /\ WF_allVars(Load(d) \/ LoadOwn(d) \/ Cold(d))
       /\ SF_allVars(Poll(d)) /\ SF_allVars(Inspect(d)) /\ WF_allVars(Replace(d))

-----------------------------------------------------------------------------
(* Properties *)

(* "No final stop acknowledgement is returned unless both snapshot and     *)
(* event are readable", and a stop is final: a run whose stop any daemon   *)
(* has acknowledged is durably aborted, with its stopped event, whatever   *)
(* other daemons do with what they remember of it, until it is deleted.    *)
AckedStopIsDurable ==
  (\E i \in Ids : intent[i] = "stopped")
    => \/ snap = NoRun \/ DurablyStopped(snap, log)
       \/ snap.st = "aborted" /\ log = <<>>

(* "A live non-daemon owner, current daemon, [or] identity mismatch is     *)
(* never killed": though the checks of a forced stop are read before an    *)
(* await, only superseded daemons are ever signalled.                      *)
OnlySupersededKilled == condemned \subseteq retired \ {current}

(* A run whose outcome is kept in memory because its save failed. *)
Unsaved == \E m \in settled : snap.st = "running" /\ snap.gen = run[m].gen

(* "A lost notification does not lose the stop request": an intent is      *)
(* acknowledged or its run deleted, though the requester, the owner or the *)
(* message may be lost, unless a host without run control executes the     *)
(* run, or one keeps an outcome of it that it could not save.              *)
StopSettles ==
  \A i \in Ids :
    intent[i] = "pending"
      ~> (intent[i] # "pending" \/ snap = NoRun \/ own \ Daemons # {} \/ Unsaved)

(* "Whole-stop intents are commutative and idempotent": an intent that was *)
(* acknowledged does nothing more.                                         *)
AcknowledgedIsSpent ==
  [][\A p \in net \ net' :
       intent[p[2]] \in {"stopped", "already-terminal"} /\ p[1] \in alive' => snap' = snap]_allVars
=============================================================================
