--------------------------- MODULE RunLeaseProofs ---------------------------
(***************************************************************************)
(* For any number of processes of both versions, with acquisitions that    *)
(* overlap and deaths at every file-system call: a process whose lock was  *)
(* not taken from it is the only holder; a lock is taken from a live       *)
(* process by a check-then-unlink race only; a displaced owner saves at    *)
(* most once more; the pid a recovery reports is dead; and an old-version  *)
(* owner is respected by every call that found it in place.                *)
(***************************************************************************)
EXTENDS RunLease, TLAPS

(* A token is used once: whoever holds a lease has one, and the lock path   *)
(* names no token that was not handed out.                                  *)
TokensIssued ==
  /\ lock.tok < nextTok
  /\ \A p \in Procs : mine[p] < nextTok
  /\ \A p \in Procs : pc[p] \in HoldPcs \cup {"write"} => mine[p] # NoTok

(* Displacement is for good: an owner that has made its stray save is not   *)
(* in the middle of another, and the lock path never names its token again. *)
StrayOwner(p) == strays[p] = 1 /\ mine[p] # NoTok /\ lock.tok # mine[p] /\ pc[p] # "save"
StraysDisplaced == \A p \in Procs : strays[p] # 0 => StrayOwner(p)

(* The lock path names the file of every live process that created one and  *)
(* was not robbed of it, with the JSON once the call has returned, and never *)
(* again that of one who was.                                               *)
OwnsLock(p) == lock.tok = mine[p] /\ lock.pid = p /\ (lock.written <=> pc[p] # "write")
UnrobbedOwn ==
  \A p \in Running : pc[p] \in HoldPcs \cup {"write"} =>
    IF p \in robbed THEN lock.tok # mine[p] ELSE OwnsLock(p)

(* A stale lock is judged by a dead pid, which stays dead.                  *)
JudgedDead == \A p \in Running : pc[p] = "unlink" => seen[p].pid \notin alive

(* A complete lock at the old path is that of an old-version owner.  An     *)
(* owner that a call found in place is an owner until it goes; while it     *)
(* lives and is not ousted its lock stays there, and the call gets nowhere. *)
LegacyOwner == legacy.written => old[legacy.by] = "owner"
FacingOwner == \A p \in Procs : facing[p] # NoProc => old[facing[p]] = "owner"
LegacyKept ==
  \A p \in Procs : facing[p] \in alive \ ousted =>
    legacy.by = facing[p] /\ legacy.written /\ pc[p] \in {"idle", "legacy"}

(* The two lock paths, each with what its steps preserve.                   *)
LockInv == /\ TypeOK /\ TokensIssued /\ StraysDisplaced /\ RecoveredOwnerIsDead
           /\ UnrobbedOwn /\ JudgedDead
LegacyInv == LegacyOwner /\ FacingOwner /\ LegacyKept
RaceInv == LockInv /\ LegacyInv

-----------------------------------------------------------------------------
(* Only an old-version process completes a lock at the old path.            *)
LEMMA WrittenByOld ==
  ASSUME legacy \in LegacyFile, legacy.written PROVE legacy.by \in OldProcs
<1>1. NoLegacy.written = FALSE /\ Leftover.written = FALSE
  BY DEF NoLegacy, Leftover
<1>2. legacy # NoLegacy /\ legacy # Leftover
  BY <1>1
<1>3. legacy \in [there : {TRUE}, by : OldProcs, written : BOOLEAN]
  BY <1>2 DEF LegacyFile
<1> QED
  BY <1>3

(* The initial state satisfies the types.                                   *)
LEMMA InitTypes == Init => TypeOK
<1> SUFFICES ASSUME Init PROVE TypeOK
  OBVIOUS
<1>1. legacy \in LegacyFile /\ alive \subseteq Procs \cup OldProcs
  BY DEF Init, LegacyFile
<1>2. old \in [OldProcs -> {"idle", "write", "owner"}]
  BY DEF Init
<1>3. lock \in LockFile /\ seen \in [Procs -> LockFile]
  BY DEF Init, LockFile
<1> QED
  BY <1>1, <1>2, <1>3, TokensAssumption DEF Init, TypeOK, Pcs, Tokens, NoTok

(* Every step preserves the types.                                          *)
LEMMA TypeStep == TypeOK /\ [Next]_vars => TypeOK'
<1> SUFFICES ASSUME TypeOK, [Next]_vars PROVE TypeOK'
  OBVIOUS
<1> USE TokensAssumption, NoProcAssumption
    DEF TypeOK, LockFile, Pcs, AcquirePcs, HoldPcs, Tokens, NoTok, Goto, Running, store,
        history, local
<1>1. ASSUME NEW p \in Running, AcquireStart(p) PROVE TypeOK'
  <2>1. legacy.written => legacy.by \in OldProcs
    BY WrittenByOld
  <2> QED
    BY <1>1, <2>1 DEF AcquireStart, LegacyLive
<1>2. ASSUME NEW p \in Running, LegacyOwned(p) PROVE TypeOK'
  BY <1>2 DEF LegacyOwned
<1>3. ASSUME NEW p \in Running, LegacyStale(p) PROVE TypeOK'
  <2>1. legacy.written => legacy.by \in OldProcs
    BY WrittenByOld
  <2> QED
    BY <1>3, <2>1 DEF LegacyStale
<1>4. ASSUME NEW p \in Running, LegacyUnlink(p) PROVE TypeOK'
  BY <1>4 DEF LegacyUnlink, LegacyUnlinked, LegacyFile
<1>5. ASSUME NEW p \in Running, LegacyUnlinkFails(p) PROVE TypeOK'
  BY <1>5 DEF LegacyUnlinkFails
<1>6. ASSUME NEW p \in Running, CreateOk(p) PROVE TypeOK'
  BY <1>6 DEF CreateOk, Absent
<1>7. ASSUME NEW p \in Running, CreateExists(p) PROVE TypeOK'
  BY <1>7 DEF CreateExists
<1>8. ASSUME NEW p \in Running, CreateFails(p) PROVE TypeOK'
  BY <1>8 DEF CreateFails
<1>9. ASSUME NEW p \in Running, WritePayload(p) PROVE TypeOK'
  BY <1>9 DEF WritePayload, Absent
<1>10. ASSUME NEW p \in Running, ReadExisting(p) PROVE TypeOK'
  BY <1>10 DEF ReadExisting, Parsed, Absent
<1>11. ASSUME NEW p \in Running, OwnerAlive(p) PROVE TypeOK'
  BY <1>11 DEF OwnerAlive
<1>12. ASSUME NEW p \in Running, OwnerStale(p) PROVE TypeOK'
  BY <1>12 DEF OwnerStale
<1>13. ASSUME NEW p \in Running, UnlinkStale(p) PROVE TypeOK'
  BY <1>13 DEF UnlinkStale, Victims
<1>14. ASSUME NEW p \in Running, UnlinkFails(p) PROVE TypeOK'
  BY <1>14 DEF UnlinkFails
<1>15. ASSUME NEW p \in Running, Validate(p) PROVE TypeOK'
  BY <1>15 DEF Validate
<1>16. ASSUME NEW p \in Running, Save(p) PROVE TypeOK'
  BY <1>16 DEF Save
<1>17. ASSUME NEW p \in Running, ReleaseStart(p) PROVE TypeOK'
  BY <1>17 DEF ReleaseStart
<1>18. ASSUME NEW p \in Running, ReleaseRead(p) PROVE TypeOK'
  BY <1>18 DEF ReleaseRead, Parsed, Absent
<1>19. ASSUME NEW p \in Running, ReleaseUnlink(p) PROVE TypeOK'
  BY <1>19 DEF ReleaseUnlink, UnlinkLast, Victims
<1>20. ASSUME NEW p \in Running, DeleteLegacy(p) PROVE TypeOK'
  BY <1>20 DEF DeleteLegacy, LegacyUnlinked, LegacyFile
<1>21. ASSUME NEW p \in Running, DeleteLock(p) PROVE TypeOK'
  BY <1>21 DEF DeleteLock, UnlinkLast, Victims
<1>22. ASSUME NEW o \in OldProcs, OldCreates(o) PROVE TypeOK'
  BY <1>22 DEF OldCreates, LegacyFile
<1>23. ASSUME NEW o \in OldProcs, OldWrites(o) PROVE TypeOK'
  BY <1>23 DEF OldWrites, LegacyFile, NoLegacy, Leftover
<1>24. ASSUME NEW o \in OldProcs, OldGoes(o) PROVE TypeOK'
  BY <1>24 DEF OldGoes, LegacyFile
<1>25. ASSUME NEW p \in Procs \cup OldProcs, Crash(p) PROVE TypeOK'
  BY <1>25 DEF Crash
<1>26. CASE UNCHANGED vars
  BY <1>26 DEF vars
<1> QED
  BY <1>1, <1>2, <1>3, <1>4, <1>5, <1>6, <1>7, <1>8, <1>9, <1>10, <1>11, <1>12,
     <1>13, <1>14, <1>15, <1>16, <1>17, <1>18, <1>19, <1>20, <1>21, <1>22, <1>23, <1>24,
     <1>25, <1>26
  DEF Next, ProcStep, AcquireStep, ReleaseStep, OldStep, Running

(* Type correctness: each lock path holds nothing, an empty file or the     *)
(* payload of one attempt, whatever the processes of both versions do.      *)
THEOREM TypeCorrect == Spec => []TypeOK
  BY InitTypes, TypeStep, PTL DEF Spec

-----------------------------------------------------------------------------
(* Initially nobody has a lock at the new path.                             *)
LEMMA InitLockInv == Init => LockInv
<1> SUFFICES ASSUME Init PROVE LockInv
  OBVIOUS
<1>1. \A p \in Procs : pc[p] = "idle" /\ mine[p] = 0 /\ strays[p] = 0 /\ recovered[p] = NoProc
  BY DEF Init, NoTok
<1>2. lock.tok = 0 /\ nextTok = 1
  BY DEF Init, Absent, NoTok
<1> QED
  BY <1>1, <1>2, InitTypes
  DEF LockInv, TokensIssued, StraysDisplaced, RecoveredOwnerIsDead, UnrobbedOwn, JudgedDead,
      HoldPcs, Running

(* Every step preserves it, with any number of processes inside             *)
(* acquireRunLease at once.                                                 *)
LEMMA LockInvStep == LockInv /\ [Next]_vars => LockInv'
<1> SUFFICES ASSUME LockInv, [Next]_vars PROVE LockInv'
  OBVIOUS
<1>0. TypeOK'
  BY TypeStep DEF LockInv
<1> USE TokensAssumption, NoProcAssumption, OldProcsAssumption, <1>0
    DEF LockInv, TypeOK, TokensIssued, StraysDisplaced, StrayOwner, RecoveredOwnerIsDead,
        UnrobbedOwn, OwnsLock, JudgedDead, AcquirePcs, HoldPcs, Pcs, LockFile, Tokens, NoTok,
        Goto, Running, store, history, local
<1>1. ASSUME NEW p \in Running, AcquireStart(p) PROVE LockInv'
  BY <1>1 DEF AcquireStart
<1>2. ASSUME NEW p \in Running, LegacyOwned(p) PROVE LockInv'
  BY <1>2 DEF LegacyOwned
<1>3. ASSUME NEW p \in Running, LegacyStale(p) PROVE LockInv'
  <2>1. legacy.written => legacy.by \in OldProcs
    BY WrittenByOld
  <2> QED
    BY <1>3, <2>1 DEF LegacyStale, LegacyLive
<1>4. ASSUME NEW p \in Running, LegacyUnlink(p) PROVE LockInv'
  BY <1>4 DEF LegacyUnlink, LegacyUnlinked
<1>5. ASSUME NEW p \in Running, LegacyUnlinkFails(p) PROVE LockInv'
  BY <1>5 DEF LegacyUnlinkFails
<1>6. ASSUME NEW p \in Running, CreateOk(p) PROVE LockInv'
  BY <1>6 DEF CreateOk, Absent
<1>7. ASSUME NEW p \in Running, CreateExists(p) PROVE LockInv'
  BY <1>7 DEF CreateExists
<1>8. ASSUME NEW p \in Running, CreateFails(p) PROVE LockInv'
  BY <1>8 DEF CreateFails
<1>9. ASSUME NEW p \in Running, WritePayload(p) PROVE LockInv'
  BY <1>9 DEF WritePayload, Absent
<1>10. ASSUME NEW p \in Running, ReadExisting(p) PROVE LockInv'
  BY <1>10 DEF ReadExisting, Parsed
<1>11. ASSUME NEW p \in Running, OwnerAlive(p) PROVE LockInv'
  BY <1>11 DEF OwnerAlive
<1>12. ASSUME NEW p \in Running, OwnerStale(p) PROVE LockInv'
  BY <1>12 DEF OwnerStale, Absent
<1>13. ASSUME NEW p \in Running, UnlinkStale(p) PROVE LockInv'
  BY <1>13 DEF UnlinkStale, Victims, Absent
<1>14. ASSUME NEW p \in Running, UnlinkFails(p) PROVE LockInv'
  BY <1>14 DEF UnlinkFails
<1>15. ASSUME NEW p \in Running, Validate(p) PROVE LockInv'
  BY <1>15 DEF Validate, Parsed, Absent
<1>16. ASSUME NEW p \in Running, Save(p) PROVE LockInv'
  BY <1>16 DEF Save
<1>17. ASSUME NEW p \in Running, ReleaseStart(p) PROVE LockInv'
  BY <1>17 DEF ReleaseStart
<1>18. ASSUME NEW p \in Running, ReleaseRead(p) PROVE LockInv'
  BY <1>18 DEF ReleaseRead, Parsed, Absent
<1>19. ASSUME NEW p \in Running, ReleaseUnlink(p) PROVE LockInv'
  BY <1>19 DEF ReleaseUnlink, UnlinkLast, Victims, Absent
<1>20. ASSUME NEW p \in Running, DeleteLegacy(p) PROVE LockInv'
  BY <1>20 DEF DeleteLegacy, LegacyUnlinked
<1>21. ASSUME NEW p \in Running, DeleteLock(p) PROVE LockInv'
  BY <1>21 DEF DeleteLock, UnlinkLast, Victims, Absent
<1>22. ASSUME NEW o \in OldProcs, OldCreates(o) PROVE LockInv'
  BY <1>22 DEF OldCreates
<1>23. ASSUME NEW o \in OldProcs, OldWrites(o) PROVE LockInv'
  BY <1>23 DEF OldWrites
<1>24. ASSUME NEW o \in OldProcs, OldGoes(o) PROVE LockInv'
  BY <1>24 DEF OldGoes
<1>25. ASSUME NEW p \in Procs \cup OldProcs, Crash(p) PROVE LockInv'
  BY <1>25 DEF Crash
<1>26. CASE UNCHANGED vars
  BY <1>26 DEF vars
<1> QED
  BY <1>1, <1>2, <1>3, <1>4, <1>5, <1>6, <1>7, <1>8, <1>9, <1>10, <1>11, <1>12,
     <1>13, <1>14, <1>15, <1>16, <1>17, <1>18, <1>19, <1>20, <1>21, <1>22, <1>23, <1>24,
     <1>25, <1>26
  DEF Next, ProcStep, AcquireStep, ReleaseStep, OldStep, Running

-----------------------------------------------------------------------------
(* Initially no call has begun, and a complete lock at the old path has its *)
(* old-version owner, dead or alive.                                        *)
LEMMA InitLegacyInv == Init => LegacyInv
<1> SUFFICES ASSUME Init PROVE LegacyInv
  OBVIOUS
<1>1. legacy.written => legacy.by \in OldProcs
  BY InitTypes, WrittenByOld DEF TypeOK
<1>2. LegacyOwner
  BY <1>1 DEF Init, LegacyOwner
<1>3. \A p \in Procs : facing[p] = NoProc /\ NoProc \notin alive
  BY NoProcAssumption DEF Init
<1> QED
  BY <1>2, <1>3 DEF LegacyInv, FacingOwner, LegacyKept

(* Every step of either version preserves it.                               *)
LEMMA LegacyInvStep == TypeOK /\ LegacyInv /\ [Next]_vars => LegacyInv'
<1> SUFFICES ASSUME TypeOK, LegacyInv, [Next]_vars PROVE LegacyInv'
  OBVIOUS
<1> USE NoProcAssumption, OldProcsAssumption
    DEF TypeOK, LegacyInv, LegacyOwner, FacingOwner, LegacyKept, LegacyLive, LegacyFile,
        NoLegacy, Leftover, Pcs, AcquirePcs, HoldPcs, Goto, Running, store, history, local
<1>1. ASSUME NEW p \in Running, AcquireStart(p) PROVE LegacyInv'
  BY <1>1 DEF AcquireStart
<1>2. ASSUME NEW p \in Running, LegacyOwned(p) PROVE LegacyInv'
  BY <1>2 DEF LegacyOwned
<1>3. ASSUME NEW p \in Running, LegacyStale(p) PROVE LegacyInv'
  BY <1>3 DEF LegacyStale
<1>4. ASSUME NEW p \in Running, LegacyUnlink(p) PROVE LegacyInv'
  BY <1>4 DEF LegacyUnlink, LegacyUnlinked
<1>5. ASSUME NEW p \in Running, LegacyUnlinkFails(p) PROVE LegacyInv'
  BY <1>5 DEF LegacyUnlinkFails
<1>6. ASSUME NEW p \in Running, CreateOk(p) PROVE LegacyInv'
  BY <1>6 DEF CreateOk
<1>7. ASSUME NEW p \in Running, CreateExists(p) PROVE LegacyInv'
  BY <1>7 DEF CreateExists
<1>8. ASSUME NEW p \in Running, CreateFails(p) PROVE LegacyInv'
  BY <1>8 DEF CreateFails
<1>9. ASSUME NEW p \in Running, WritePayload(p) PROVE LegacyInv'
  BY <1>9 DEF WritePayload
<1>10. ASSUME NEW p \in Running, ReadExisting(p) PROVE LegacyInv'
  BY <1>10 DEF ReadExisting
<1>11. ASSUME NEW p \in Running, OwnerAlive(p) PROVE LegacyInv'
  BY <1>11 DEF OwnerAlive
<1>12. ASSUME NEW p \in Running, OwnerStale(p) PROVE LegacyInv'
  BY <1>12 DEF OwnerStale
<1>13. ASSUME NEW p \in Running, UnlinkStale(p) PROVE LegacyInv'
  BY <1>13 DEF UnlinkStale
<1>14. ASSUME NEW p \in Running, UnlinkFails(p) PROVE LegacyInv'
  BY <1>14 DEF UnlinkFails
<1>15. ASSUME NEW p \in Running, Validate(p) PROVE LegacyInv'
  BY <1>15 DEF Validate
<1>16. ASSUME NEW p \in Running, Save(p) PROVE LegacyInv'
  BY <1>16 DEF Save
<1>17. ASSUME NEW p \in Running, ReleaseStart(p) PROVE LegacyInv'
  BY <1>17 DEF ReleaseStart
<1>18. ASSUME NEW p \in Running, ReleaseRead(p) PROVE LegacyInv'
  BY <1>18 DEF ReleaseRead
<1>19. ASSUME NEW p \in Running, ReleaseUnlink(p) PROVE LegacyInv'
  BY <1>19 DEF ReleaseUnlink, UnlinkLast
<1>20. ASSUME NEW p \in Running, DeleteLegacy(p) PROVE LegacyInv'
  BY <1>20 DEF DeleteLegacy, LegacyUnlinked
<1>21. ASSUME NEW p \in Running, DeleteLock(p) PROVE LegacyInv'
  BY <1>21 DEF DeleteLock, UnlinkLast
<1>22. ASSUME NEW o \in OldProcs, OldCreates(o) PROVE LegacyInv'
  BY <1>22 DEF OldCreates
<1>23. ASSUME NEW o \in OldProcs, OldWrites(o) PROVE LegacyInv'
  BY <1>23 DEF OldWrites
<1>24. ASSUME NEW o \in OldProcs, OldGoes(o) PROVE LegacyInv'
  BY <1>24 DEF OldGoes
<1>25. ASSUME NEW p \in Procs \cup OldProcs, Crash(p) PROVE LegacyInv'
  BY <1>25 DEF Crash
<1>26. CASE UNCHANGED vars
  BY <1>26 DEF vars
<1> QED
  BY <1>1, <1>2, <1>3, <1>4, <1>5, <1>6, <1>7, <1>8, <1>9, <1>10, <1>11, <1>12,
     <1>13, <1>14, <1>15, <1>16, <1>17, <1>18, <1>19, <1>20, <1>21, <1>22, <1>23, <1>24,
     <1>25, <1>26
  DEF Next, ProcStep, AcquireStep, ReleaseStep, OldStep, Running

(* The whole invariant, for every number of processes of either version.    *)
THEOREM RaceInvariance == Spec => []RaceInv
<1>1. Init => LockInv /\ LegacyInv
  BY InitLockInv, InitLegacyInv
<1>2. LockInv /\ LegacyInv /\ [Next]_vars => (LockInv /\ LegacyInv)'
  BY LockInvStep, LegacyInvStep DEF LockInv
<1> QED
  BY <1>1, <1>2, PTL DEF Spec, RaceInv

-----------------------------------------------------------------------------
(* acquireRunLease's promise, as far as the lock file keeps it: of two live *)
(* processes that both hold a lease object, through deaths at any point,    *)
(* stale files, releases in mid-flight and overlapping calls, one has been  *)
(* robbed of its lock.                                                      *)
THEOREM LeaseExclusive == Spec => [](\A p, q \in Holders \ robbed : p = q)
<1>1. RaceInv => \A p, q \in Holders \ robbed : p = q
  BY DEF RaceInv, LockInv, UnrobbedOwn, OwnsLock, Holders
<1> QED
  BY <1>1, RaceInvariance, PTL

(* And how it can have been robbed: by a takeover that had judged another   *)
(* file or an empty one, or by a process that was robbed itself.  Nobody    *)
(* unlinks a lock that he read complete from under a live process.          *)
THEOREM RobbedOnlyByRace == Spec => RobbedByRaceOnly
<1> DEFINE Robs == \A q \in robbed' \ robbed :
                     \E p \in Running \ {q} :
                        \/ pc[p] = "unlink" /\ seen[p] # lock
                        \/ p \in robbed /\ pc[p] \in {"relUnlink", "delete"}
<1>1. RaceInv /\ [Next]_vars => Robs \/ UNCHANGED vars
  <2> SUFFICES ASSUME RaceInv, [Next]_vars, NEW q \in robbed' \ robbed
               PROVE  \E p \in Running \ {q} :
                        \/ pc[p] = "unlink" /\ seen[p] # lock
                        \/ p \in robbed /\ pc[p] \in {"relUnlink", "delete"}
    OBVIOUS
  <2>1. PICK p \in Running : /\ UnlinkStale(p) \/ ReleaseUnlink(p) \/ DeleteLock(p)
                             /\ robbed' = robbed \cup Victims(p)
    BY DEF Next, ProcStep, AcquireStep, ReleaseStep, OldStep, Crash, Running, vars, store,
           history, local, AcquireStart, LegacyOwned, LegacyStale, LegacyUnlink,
           LegacyUnlinkFails, CreateOk, CreateExists, CreateFails, WritePayload, ReadExisting,
           OwnerAlive, OwnerStale, UnlinkStale, UnlinkFails, Validate, Save, ReleaseStart,
           ReleaseRead, ReleaseUnlink, DeleteLegacy, DeleteLock, UnlinkLast, OldCreates,
           OldWrites, OldGoes
  <2>2. q \in Running \ {p} /\ lock.pid = q
    BY <2>1 DEF Victims, RaceInv, LockInv, UnrobbedOwn, OwnsLock
  <2>3. CASE UnlinkStale(p)
    <3>1. pc[p] = "unlink" /\ seen[p].pid \notin alive
      BY <2>3 DEF UnlinkStale, RaceInv, LockInv, JudgedDead
    <3> QED
      BY <2>2, <3>1 DEF Running
  <2>4. CASE ReleaseUnlink(p) \/ DeleteLock(p)
    <3>1. pc[p] \in {"relUnlink", "delete"}
      BY <2>4 DEF ReleaseUnlink, DeleteLock
    <3>2. p \in robbed
      BY <2>2, <3>1 DEF RaceInv, LockInv, UnrobbedOwn, OwnsLock, HoldPcs
    <3> QED
      BY <2>2, <3>1, <3>2
  <2> QED
    BY <2>1, <2>3, <2>4
<1>2. RaceInv /\ [Next]_vars => [Robs]_vars
  BY <1>1
<1> QED
  BY <1>2, RaceInvariance, PTL DEF Spec, RobbedByRaceOnly

(* An old-version process that owned the run when acquireRunLease was       *)
(* called keeps it against that caller until it dies or lets go, unless a   *)
(* call that began before its lock was complete ousts it.                   *)
THEOREM LegacyRespected == Spec => []LegacyOwnerExcludes
<1>1. RaceInv => LegacyOwnerExcludes
  BY DEF RaceInv, LegacyInv, LockInv, LegacyKept, LegacyOwnerExcludes, Holders, HoldPcs, Running
<1> QED
  BY <1>1, RaceInvariance, PTL

(* What check-then-act fencing buys when the lock IS replaced under a live  *)
(* owner, as overlapping acquisitions can: validateRunLease stops every     *)
(* save but the one that had already passed it, since tokens are not reused *)
(* and a displaced token never comes back to the lock path.                 *)
THEOREM StraySavesBounded == Spec => []AtMostOneStraySave
<1>1. RaceInv => AtMostOneStraySave
  BY DEF RaceInv, LockInv, TypeOK, StraysDisplaced, StrayOwner, AtMostOneStraySave
<1> QED
  BY <1>1, RaceInvariance, PTL

(* recoveredOwnerPid, which reconciliation reads as evidence that a run's   *)
(* owner died, never names a live process, whoever wins the race.           *)
THEOREM RecoveredOwnerDead == Spec => []RecoveredOwnerIsDead
<1>1. RaceInv => RecoveredOwnerIsDead
  BY DEF RaceInv, LockInv
<1> QED
  BY <1>1, RaceInvariance, PTL

-----------------------------------------------------------------------------
Rightful == Holders \ robbed

(* Whoever leaves the rightful holders leaves them empty.                   *)
LEMMA LeaveIsSurrender ==
  ASSUME RaceInv, Rightful' \subseteq Rightful
  PROVE  [Abstract!Next]_Rightful
<1>1. CASE Rightful' = Rightful
  BY <1>1
<1>2. CASE Rightful' # Rightful
  <2>1. PICK p : p \in Rightful /\ p \notin Rightful'
    BY <1>2
  <2>2. \A q \in Rightful : q = p
    BY <2>1 DEF Rightful, RaceInv, LockInv, UnrobbedOwn, OwnsLock, Holders
  <2>3. p \in Procs /\ Rightful' = Rightful \ {p}
    BY <2>1, <2>2 DEF Rightful, Holders, Running
  <2> QED
    BY <2>1, <2>3 DEF Abstract!Next, Abstract!Surrender, Rightful
<1> QED
  BY <1>1, <1>2

(* Each step of the lock protocol is a grant, a surrender or a stutter of   *)
(* the abstract lease; the theft of a lock is the surrender of its owner.   *)
LEMMA RefinementStep ==
  ASSUME RaceInv, [Next]_vars PROVE [Abstract!Next]_Rightful
<1> USE DEF Holders, HoldPcs, Goto, Running, store, history, local
<1>1. ASSUME NEW p \in Running, WritePayload(p), p \notin robbed PROVE Abstract!Grant(p)
  <2>1. Rightful = {}
    BY <1>1 DEF WritePayload, RaceInv, LockInv, UnrobbedOwn, OwnsLock, Rightful
  <2>2. Rightful' = {p}
    BY <1>1, <2>1 DEF WritePayload, RaceInv, LockInv, TypeOK, Rightful
  <2> QED
    BY <2>1, <2>2 DEF Abstract!Grant, Rightful
<1>2. ASSUME NEW p \in Running, WritePayload(p), p \in robbed PROVE Rightful' \subseteq Rightful
  BY <1>2 DEF WritePayload, RaceInv, LockInv, TypeOK, Rightful
<1>3. ASSUME NEW p \in Running,
             \/ AcquireStart(p) \/ LegacyOwned(p) \/ LegacyStale(p) \/ LegacyUnlink(p)
             \/ LegacyUnlinkFails(p) \/ CreateOk(p) \/ CreateExists(p) \/ CreateFails(p)
      PROVE Rightful' \subseteq Rightful
  BY <1>3 DEF AcquireStart, LegacyOwned, LegacyStale, LegacyUnlink, LegacyUnlinkFails, CreateOk,
              CreateExists, CreateFails, RaceInv, LockInv, TypeOK, Rightful
<1>4. ASSUME NEW p \in Running,
             \/ ReadExisting(p) \/ OwnerAlive(p) \/ OwnerStale(p) \/ UnlinkStale(p)
             \/ UnlinkFails(p) \/ Validate(p) \/ Save(p) \/ ReleaseStart(p)
             \/ ReleaseRead(p) \/ ReleaseUnlink(p) \/ DeleteLegacy(p) \/ DeleteLock(p)
      PROVE Rightful' \subseteq Rightful
  BY <1>4 DEF ReadExisting, OwnerAlive, OwnerStale, UnlinkStale, UnlinkFails, Validate, Save,
              ReleaseStart, ReleaseRead, ReleaseUnlink, DeleteLegacy, DeleteLock, UnlinkLast,
              RaceInv, LockInv, TypeOK, Rightful
<1>5. ASSUME NEW o \in OldProcs, OldCreates(o) \/ OldWrites(o) \/ OldGoes(o)
      PROVE Rightful' \subseteq Rightful
  BY <1>5 DEF OldCreates, OldWrites, OldGoes, Rightful
<1>6. ASSUME NEW p \in Procs \cup OldProcs, Crash(p) PROVE Rightful' \subseteq Rightful
  BY <1>6 DEF Crash, Rightful
<1>7. CASE UNCHANGED vars
  BY <1>7 DEF vars, Rightful
<1>8. [Abstract!Next]_Rightful \/ Rightful' \subseteq Rightful
  BY <1>1, <1>2, <1>3, <1>4, <1>5, <1>6, <1>7
  DEF Next, ProcStep, AcquireStep, ReleaseStep, OldStep, Abstract!Next
<1> QED
  BY <1>8, LeaveIsSurrender

(* The lock-file protocol implements the abstract exclusive lease of those  *)
(* whose lock was not taken from them, however acquisitions overlap.        *)
THEOREM Refinement == Spec => RefinesExclusiveLease
<1>1. Init => Abstract!Init
  BY DEF Init, Abstract!Init, Holders, HoldPcs, Running
<1>2. RaceInv /\ [Next]_vars => [Abstract!Next]_(Holders \ robbed)
  BY RefinementStep DEF Rightful
<1> QED
  BY <1>1, <1>2, RaceInvariance, PTL DEF Spec, RefinesExclusiveLease, Abstract!Spec
=============================================================================
