------------------------------ MODULE RunLease ------------------------------
(***************************************************************************)
(* The cross-process execution lease of one run: the lock file             *)
(* <runsDir>/<runId>.lock as run-persistence.ts creates, reads, recovers,  *)
(* validates and unlinks it, one file-system call per step.  A process is  *)
(* a Node process; its synchronous calls never interleave with each other, *)
(* but they interleave freely with those of other processes.               *)
(*                                                                         *)
(* fs.writeFileSync(lock, json, {flag: "wx"}) is two system calls: an      *)
(* exclusive create, which makes an EMPTY file, then a write to the        *)
(* descriptor.  If the path is unlinked in between, the bytes go to the    *)
(* unlinked inode.  A lock file is therefore identified by the token of    *)
(* the attempt that created it, with a flag for "the JSON is there".       *)
(*                                                                         *)
(* A process of the version before the store moved locks the run at the    *)
(* old path and knows nothing of the new one; its own code is external.    *)
(***************************************************************************)
EXTENDS Integers, FiniteSets

CONSTANTS Procs,            \* Node processes that use the run store
          OldProcs,         \* processes of the version before the store moved
          NoProc,           \* "no process"
          MaxTokens         \* bound: lock-file creations explored

ASSUME NoProcAssumption == NoProc \notin Procs \cup OldProcs
ASSUME OldProcsAssumption == Procs \cap OldProcs = {}
ASSUME TokensAssumption == MaxTokens \in Nat

Tokens == 1 .. MaxTokens
NoTok  == 0

(* A directory entry: which attempt's inode it names and what it holds. *)
Absent == [tok |-> NoTok, pid |-> NoProc, written |-> FALSE]
LockFile == [tok : Tokens, pid : Procs, written : BOOLEAN] \cup {Absent}

(* The old path: who created the file there (NoProc: a corrupt leftover)   *)
(* and whether it parses.                                                  *)
NoLegacy == [there |-> FALSE, by |-> NoProc, written |-> FALSE]
Leftover == [there |-> TRUE, by |-> NoProc, written |-> FALSE]
LegacyFile == [there : {TRUE}, by : OldProcs, written : BOOLEAN] \cup {NoLegacy, Leftover}

VARIABLES
  lock,       \* the primary lock path
  legacy,     \* the pre-migration lock path
  alive,      \* processes the OS still runs
  pc,         \* where each process is inside a persistence call
  attempt,    \* the loop variable of acquireRunLease
  seen,       \* what the last readLock returned
  mine,       \* the token of the current attempt or of the lease object
  recovered,  \* lease.recoveredOwnerPid
  nextTok,    \* tokens are never reused
  old,        \* where each old-version process is
  strays,     \* history: saves made after the lock stopped being ours
  robbed,     \* history: whose lock file another process unlinked
  facing,     \* history: the old-version owner when acquireRunLease was called
  ousted      \* history: old-version owners whose lock was unlinked by a call
              \* that began before it was complete

vars == <<lock, legacy, alive, pc, attempt, seen, mine, recovered, nextTok, old,
          strays, robbed, facing, ousted>>

AcquirePcs == {"legacy", "legacyUnlink", "create", "write", "read", "check", "unlink"}
HoldPcs    == {"held", "save", "relRead", "relUnlink", "delete"}
Pcs        == {"idle"} \cup AcquirePcs \cup HoldPcs

(* readLock: null unless the file parses. *)
Parsed(f) == IF f.written THEN f ELSE Absent

Running == alive \cap Procs
Holders == {p \in Running : pc[p] \in HoldPcs}

(* A live old-version process owns the run. *)
LegacyLive == legacy.written /\ legacy.by \in alive

(* Live processes, others than p, whose lock file the path names now. *)
Victims(p) == {q \in Running \ {p} : /\ pc[q] \in HoldPcs \cup {"write"}
                                     /\ mine[q] = lock.tok}

TypeOK ==
  /\ lock \in LockFile
  /\ legacy \in LegacyFile
  /\ alive \subseteq Procs \cup OldProcs
  /\ pc \in [Procs -> Pcs]
  /\ attempt \in [Procs -> 0 .. 1]
  /\ seen \in [Procs -> LockFile]
  /\ mine \in [Procs -> Tokens \cup {NoTok}]
  /\ recovered \in [Procs -> Procs \cup OldProcs \cup {NoProc}]
  /\ nextTok \in 1 .. MaxTokens + 1
  /\ old \in [OldProcs -> {"idle", "write", "owner"}]
  /\ strays \in [Procs -> Nat]
  /\ robbed \subseteq Procs
  /\ facing \in [Procs -> OldProcs \cup {NoProc}]
  /\ ousted \subseteq OldProcs

(* The old path holds nothing, a leftover, or the lock of an old-version   *)
(* process that is dead or still runs.                                     *)
Init ==
  /\ lock = Absent
  /\ legacy \in {NoLegacy, Leftover} \cup [there : {TRUE}, by : OldProcs, written : {TRUE}]
  /\ alive \in {Procs \cup s : s \in SUBSET OldProcs}
  /\ pc = [p \in Procs |-> "idle"]
  /\ attempt = [p \in Procs |-> 0]
  /\ seen = [p \in Procs |-> Absent]
  /\ mine = [p \in Procs |-> NoTok]
  /\ recovered = [p \in Procs |-> NoProc]
  /\ nextTok = 1
  /\ old = [o \in OldProcs |-> IF legacy.by = o THEN "owner" ELSE "idle"]
  /\ strays = [p \in Procs |-> 0]
  /\ robbed = {}
  /\ facing = [p \in Procs |-> NoProc]
  /\ ousted = {}

Goto(p, l) == pc' = [pc EXCEPT ![p] = l]

(* What the steps inside one process leave alone. *)
store   == <<lock, legacy, alive, nextTok, old>>
history == <<strays, robbed, facing, ousted>>

-----------------------------------------------------------------------------
(* acquireRunLease *)

AcquireStart(p) ==
  /\ pc[p] = "idle"
  /\ Goto(p, "legacy")
  /\ attempt' = [attempt EXCEPT ![p] = 0]
  /\ recovered' = [recovered EXCEPT ![p] = NoProc]
  /\ facing' = [facing EXCEPT ![p] = IF LegacyLive THEN legacy.by ELSE NoProc]
  /\ UNCHANGED <<store, seen, mine, strays, robbed, ousted>>

(* removeStaleLegacyLock, the read and the probe: a live owner keeps the   *)
(* run; otherwise the pid found there is the owner that was recovered.     *)
LegacyOwned(p) ==
  /\ pc[p] = "legacy" /\ LegacyLive
  /\ Goto(p, "idle")
  /\ UNCHANGED <<store, attempt, seen, mine, recovered, history>>

(* Mutant: the old owner's pid is not probed. *)
LegacyUnprobed(p) ==
  /\ pc[p] = "legacy"
  /\ Goto(p, "legacyUnlink")
  /\ UNCHANGED <<store, attempt, seen, mine, recovered, history>>

LegacyStale(p) ==
  /\ pc[p] = "legacy" /\ ~LegacyLive
  /\ recovered' = [recovered EXCEPT ![p] = IF legacy.written THEN legacy.by ELSE NoProc]
  /\ Goto(p, "legacyUnlink")
  /\ UNCHANGED <<store, attempt, seen, mine, history>>

(* Its unlink takes whatever is at the old path NOW.  An owner that p's     *)
(* call found in place when it began has no excuse for losing its lock.     *)
LegacyUnlinked(p) ==
  /\ legacy' = NoLegacy
  /\ ousted' = ousted \cup (OldProcs \cap ({legacy.by} \ {facing[p]}))

LegacyUnlink(p) ==
  /\ pc[p] = "legacyUnlink"
  /\ LegacyUnlinked(p)
  /\ Goto(p, "create")
  /\ UNCHANGED <<lock, alive, nextTok, old, attempt, seen, mine, recovered,
                 strays, robbed, facing>>

(* The unlink throws: refused, or another process was faster.              *)
LegacyUnlinkFails(p) ==
  /\ pc[p] = "legacyUnlink"
  /\ Goto(p, "idle")
  /\ UNCHANGED <<store, attempt, seen, mine, recovered, history>>

(* Mutant: flag "w", which opens an existing file as well. *)
CreateTruncates(p) ==
  /\ pc[p] = "create" /\ nextTok <= MaxTokens
  /\ lock' = [tok |-> nextTok, pid |-> p, written |-> FALSE]
  /\ mine' = [mine EXCEPT ![p] = nextTok]
  /\ strays' = [strays EXCEPT ![p] = 0]
  /\ robbed' = robbed \ {p}
  /\ nextTok' = nextTok + 1
  /\ Goto(p, "write")
  /\ UNCHANGED <<legacy, alive, old, attempt, seen, recovered, facing, ousted>>

(* open(lock, "wx"): creates an empty file, or reports EEXIST. *)
CreateOk(p) ==
  /\ pc[p] = "create" /\ lock = Absent /\ nextTok <= MaxTokens
  /\ lock' = [tok |-> nextTok, pid |-> p, written |-> FALSE]
  /\ mine' = [mine EXCEPT ![p] = nextTok]
  /\ strays' = [strays EXCEPT ![p] = 0]
  /\ robbed' = robbed \ {p}
  /\ nextTok' = nextTok + 1
  /\ Goto(p, "write")
  /\ UNCHANGED <<legacy, alive, old, attempt, seen, recovered, facing, ousted>>

CreateExists(p) ==
  /\ pc[p] = "create" /\ lock # Absent
  /\ Goto(p, "read")
  /\ UNCHANGED <<store, attempt, seen, mine, recovered, history>>

(* Any other error of the create or of the write is rethrown: the caller   *)
(* has no lease, and the file stays if it was created.                     *)
CreateFails(p) ==
  /\ pc[p] = "write" \/ (pc[p] = "create" /\ lock = Absent)
  /\ Goto(p, "idle")
  /\ UNCHANGED <<store, attempt, seen, mine, recovered, history>>

(* write(fd, json): visible at the path only if the path still names it. *)
WritePayload(p) ==
  /\ pc[p] = "write"
  /\ lock' = IF lock # Absent /\ lock.tok = mine[p]
               THEN [tok |-> mine[p], pid |-> p, written |-> TRUE] ELSE lock
  /\ Goto(p, "held")
  /\ UNCHANGED <<legacy, alive, nextTok, old, attempt, seen, mine, recovered, history>>

(* Mutant: recoveredOwnerPid is recorded before the pid is probed. *)
ReadExistingRecords(p) ==
  /\ pc[p] = "read"
  /\ seen' = [seen EXCEPT ![p] = Parsed(lock)]
  /\ recovered' = [recovered EXCEPT ![p] = Parsed(lock).pid]
  /\ Goto(p, "check")
  /\ UNCHANGED <<store, attempt, mine, history>>

ReadExisting(p) ==
  /\ pc[p] = "read"
  /\ seen' = [seen EXCEPT ![p] = Parsed(lock)]
  /\ Goto(p, "check")
  /\ UNCHANGED <<store, attempt, mine, recovered, history>>

(* valid && pidIsAlive(existing.pid) *)
OwnerAlive(p) ==
  /\ pc[p] = "check" /\ seen[p].pid \in alive
  /\ Goto(p, "idle")
  /\ UNCHANGED <<store, attempt, seen, mine, recovered, history>>

(* Mutant: a parsable lock that is not ours is taken for stale. *)
OwnerStaleUnprobed(p) ==
  /\ pc[p] = "check" /\ seen[p].pid # p
  /\ Goto(p, "unlink")
  /\ UNCHANGED <<store, attempt, seen, mine, recovered, history>>

OwnerStale(p) ==
  /\ pc[p] = "check" /\ seen[p].pid \notin alive
  /\ recovered' = [recovered EXCEPT ![p] = IF seen[p] = Absent THEN @ ELSE seen[p].pid]
  /\ Goto(p, "unlink")
  /\ UNCHANGED <<store, attempt, seen, mine, history>>

(* unlink(lock): whatever the path names NOW.  The loop gives up after a   *)
(* second one.                                                             *)
UnlinkStale(p) ==
  /\ pc[p] = "unlink" /\ lock # Absent
  /\ lock' = Absent
  /\ robbed' = robbed \cup Victims(p)
  /\ attempt' = [attempt EXCEPT ![p] = 1]
  /\ Goto(p, IF attempt[p] = 0 THEN "create" ELSE "idle")
  /\ UNCHANGED <<legacy, alive, nextTok, old, seen, mine, recovered,
                 strays, facing, ousted>>

(* It throws: nothing is there any more, or the directory refuses.         *)
UnlinkFails(p) ==
  /\ pc[p] = "unlink"
  /\ Goto(p, "idle")
  /\ UNCHANGED <<store, attempt, seen, mine, recovered, history>>

-----------------------------------------------------------------------------
(* Every snapshot save and event append of the manager is check-then-act:  *)
(* validateRunLease reads the lock, and the write follows if it matched.   *)

(* Mutant: any parsable lock validates, whoever's token it holds. *)
ValidateAnyToken(p) ==
  /\ pc[p] = "held" /\ Parsed(lock) # Absent
  /\ Goto(p, "save")
  /\ UNCHANGED <<store, attempt, seen, mine, recovered, history>>

Validate(p) ==
  /\ pc[p] = "held" /\ Parsed(lock).tok = mine[p]
  /\ Goto(p, "save")
  /\ UNCHANGED <<store, attempt, seen, mine, recovered, history>>

Save(p) ==
  /\ pc[p] = "save"
  /\ strays' = [strays EXCEPT ![p] = @ + IF lock.tok = mine[p] THEN 0 ELSE 1]
  /\ Goto(p, "held")
  /\ UNCHANGED <<store, attempt, seen, mine, recovered, robbed, facing, ousted>>

-----------------------------------------------------------------------------
(* releaseRunLease: read, compare tokens, unlink. *)

ReleaseStart(p) ==
  /\ pc[p] = "held"
  /\ Goto(p, "relRead")
  /\ UNCHANGED <<store, attempt, seen, mine, recovered, history>>

ReleaseRead(p) ==
  /\ pc[p] = "relRead"
  /\ seen' = [seen EXCEPT ![p] = Parsed(lock)]
  /\ Goto(p, IF Parsed(lock).tok = mine[p] THEN "relUnlink" ELSE "idle")
  /\ UNCHANGED <<store, attempt, mine, recovered, history>>

(* unlink(lock) again, of whatever is there NOW; a failure is swallowed.   *)
UnlinkLast(p) ==
  /\ \/ lock' = Absent /\ robbed' = robbed \cup Victims(p)
     \/ UNCHANGED <<lock, robbed>>
  /\ Goto(p, "idle")
  /\ UNCHANGED <<legacy, alive, nextTok, old, attempt, seen, mine, recovered,
                 strays, facing, ousted>>

ReleaseUnlink(p) == pc[p] = "relUnlink" /\ UnlinkLast(p)

(* persistence.delete under a held lease: the two lock files go last, with *)
(* no token comparison; failures are swallowed.                            *)
DeleteLegacy(p) ==
  /\ pc[p] = "held"
  /\ LegacyUnlinked(p) \/ UNCHANGED <<legacy, ousted>>
  /\ Goto(p, "delete")
  /\ UNCHANGED <<lock, alive, nextTok, old, attempt, seen, mine, recovered,
                 strays, robbed, facing>>

DeleteLock(p) == pc[p] = "delete" /\ UnlinkLast(p)

-----------------------------------------------------------------------------
(* The environment: a process dies at any point and leaves its files; an   *)
(* old-version process takes the run over at the old path, unless another  *)
(* one lives there, whatever is at the new path, and gives it up.          *)

Crash(p) ==
  /\ p \in alive
  /\ alive' = alive \ {p}
  /\ UNCHANGED <<lock, legacy, pc, attempt, seen, mine, recovered, nextTok, old, history>>

local == <<lock, alive, pc, attempt, seen, mine, recovered, nextTok, strays, robbed>>

OldCreates(o) ==
  /\ old[o] = "idle" /\ ~LegacyLive
  /\ legacy' = [there |-> TRUE, by |-> o, written |-> FALSE]
  /\ old' = [old EXCEPT ![o] = "write"]
  /\ ousted' = ousted \ {o}
  /\ UNCHANGED <<local, facing>>

OldWrites(o) ==
  /\ old[o] = "write"
  /\ legacy' = IF legacy.by = o
                 THEN [there |-> TRUE, by |-> o, written |-> TRUE] ELSE legacy
  /\ old' = [old EXCEPT ![o] = "owner"]
  /\ UNCHANGED <<local, facing, ousted>>

OldGoes(o) ==
  /\ old[o] = "owner"
  /\ legacy' = IF legacy.by = o THEN NoLegacy ELSE legacy
  /\ old' = [old EXCEPT ![o] = "idle"]
  /\ facing' = [p \in Procs |-> IF facing[p] = o THEN NoProc ELSE facing[p]]
  /\ UNCHANGED <<local, ousted>>

AcquireStep(p) ==
  \/ LegacyOwned(p) \/ LegacyStale(p) \/ LegacyUnlink(p) \/ LegacyUnlinkFails(p)
  \/ CreateOk(p) \/ CreateExists(p) \/ CreateFails(p) \/ WritePayload(p)
  \/ ReadExisting(p) \/ OwnerAlive(p) \/ OwnerStale(p) \/ UnlinkStale(p) \/ UnlinkFails(p)

ReleaseStep(p) == \/ ReleaseStart(p) \/ ReleaseRead(p) \/ ReleaseUnlink(p)
                  \/ DeleteLegacy(p) \/ DeleteLock(p)

ProcStep(p) ==
  /\ p \in alive
  /\ AcquireStart(p) \/ AcquireStep(p) \/ Validate(p) \/ Save(p) \/ ReleaseStep(p)

OldStep(o) == o \in alive /\ (OldCreates(o) \/ OldWrites(o) \/ OldGoes(o))

Next == \/ \E p \in Procs : ProcStep(p)
        \/ \E o \in OldProcs : OldStep(o)
        \/ \E p \in Procs \cup OldProcs : Crash(p)

Spec == Init /\ [][Next]_vars

-----------------------------------------------------------------------------
(* Properties *)

(* "Acquire an exclusive cross-process lease for a run": two live processes *)
(* never both hold the lease object acquireRunLease returned.               *)
Exclusive == \A p, q \in Holders : p = q

(* "run lease refuses while a legacy project lock owner is alive": no live  *)
(* old-version process owns the run at the moment a lease of it is granted. *)
RefusesLegacyOwner ==
  [][\A p \in Procs : p \in Holders' \ Holders => ~LegacyLive]_vars

(* What the probe at the old path does give: an old-version process that    *)
(* owned the run when acquireRunLease was called keeps it against that      *)
(* caller, whatever the other processes do meanwhile, until it dies or lets *)
(* go; only a call that began before its lock was complete can oust it.     *)
LegacyOwnerExcludes ==
  \A p \in Holders : facing[p] \in alive => facing[p] \in ousted

(* Exclusivity is lost in one way only: a live process's lock file is       *)
(* unlinked by a takeover that judged another file at that path, or this    *)
(* one before its JSON was there, or by a process that was robbed itself    *)
(* and does not know yet.  A complete lock of a live process is never       *)
(* judged stale.                                                            *)
RobbedByRaceOnly ==
  [][\A q \in robbed' \ robbed :
       \E p \in Running \ {q} :
          \/ pc[p] = "unlink" /\ seen[p] # lock
          \/ p \in robbed /\ pc[p] \in {"relUnlink", "delete"}]_vars

(* What check-then-act fencing buys when the lock IS replaced under a live  *)
(* owner: the displaced owner writes at most once more, the write whose     *)
(* validateRunLease had already passed.                                     *)
AtMostOneStraySave == \A p \in Procs : strays[p] <= 1

(* recoveredOwnerPid, which reconciliation treats as evidence that the run's *)
(* owner died, never names a live process, of either version.                *)
RecoveredOwnerIsDead ==
  \A p \in Procs : recovered[p] # NoProc => recovered[p] \notin alive

(* Leaving out those who were robbed, the lock file implements the          *)
(* exclusive lease, however acquisitions overlap: it is granted only while  *)
(* nobody rightfully has it.                                                *)
Abstract == INSTANCE ExclusiveLease WITH holders <- Holders \ robbed
RefinesExclusiveLease == Abstract!Spec
=============================================================================
