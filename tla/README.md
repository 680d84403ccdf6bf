# agentprism-workflows: specifications, model checking and proofs

This directory is the TLA+ development for the repository: state machines for
the parts whose correctness depends on order (several processes on one run
store, deaths in the middle of a write, callbacks that outlive what they were
started for), the TLC runs that explore them on small instances, and TLAPS
proofs of the results that have to hold for every number of processes, calls
and faults. Paths below are relative to `src/packages/`.

## 1. Inventory

| Component | State it keeps | Operations | Hard behaviour | What makes it correct |
|---|---|---|---|---|
| Run lease, `workflow-engine/src/run-persistence.ts` | lock file `<runId>.lock`, the pre-migration lock | acquire, validate, release, delete | several processes, deaths between system calls, takeover of a dead owner | one owner; a takeover names only dead owners; old-version owners are respected |
| Run snapshot store, same file | `<runId>.json`, tombstones | save, load, list, delete | save is check-then-write on the lease; best effort in places | a save erases nothing that is durable |
| Run event log, `run-event-persistence.ts` | `<runId>.events.jsonl`, writer and reader caches, watchers | append, read, watch, delete | torn tail, stale caches, append and snapshot out of step | one writer, consecutive sequence numbers, a loss is final |
| Run lifecycle, `workflow-manager.ts` | `runs` map of ManagedRun, the three files above | start, continue, pause, stop, reconcile, delete, execute | managers of several processes interleave on one run; cached history; gates; retries | one executor; first writer wins; status machine; dead owners recovered |
| Prepared runs, same file | a `pending` snapshot with a revision | accept, claim, update, admit, settle | retries through several hosts, deletions, failing saves | one run per operation identity; memory is what the disk has |
| Workflow lifecycle, `mcp-server/src/workflow-lifecycle.ts`, `project-registry.ts` | drivers of runs in preparation, reservations and slots | accept, recover, respond, drive, hold, track, evict | data read before a claim and saved after it; drives that overlap answers, stops and takeovers | nothing runs unapproved; acknowledged answers are kept; no preparation gets stuck |
| Connection pool, `acp-agents/src/pool.ts`, `acp-client.ts` | connections per backend, load, reservations, idle timers, disposals | acquire, release, recycle, reap, dispose, death | awaits between selection and use, credentials that change meanwhile | load accounting, exclusive reservation, no stale credentials, nothing leaked |
| Auth and provider stores, `acp-agents/src/auth`, `provider-store.ts` | intent and generation | authenticate, logout, set, disable | races with the pool | a stamp says what the process carries |
| ACP sessions, `acp-client.ts`, `runner.ts`, `interactive.ts` | accumulators, turns, permissions | open, prompt, cancel, close | cancel against a late answer; death in a turn | one settlement per turn |
| Workflow execution, `workflow.ts` with the manager's listeners | limiter, call records, journal, rows, attempts | agent, checkpoint, retry, halt, cancel, continue | bodies of calls interleave with halting, host cancellation and continuation; attempts of former generations come back late | results are kept and not redone, a saved run has a row per call, a cancellation that was acknowledged won, nobody waits for a free slot |
| Resume matcher, `resume-matcher.ts` | journal against calls | match | reordered and changed calls | a cached result goes to the call that made it |
| Isolation, `isolation.ts`, `worktree.ts` | git worktrees | create, merge, remove | leftovers after a death | no worktree lost |
| Daemon discovery, `mcp-server/src/daemon/daemon-info.ts`, `daemon-lifecycle.ts`, `shim/ensure-daemon.ts` | pointer, instance records, spawn lock | publish, supersede, drain, exit | two daemons start; a successor dies | at most one current daemon; lame ducks leave |
| HTTP daemon, sessions, `http-daemon.ts`, `session-registry.ts`, `event-store.ts` | sessions, replay buffer | open, replay, evict, close | eviction against replay and idle timers | no gap is replayed silently |
| Run control, `mcp-server/src/daemon/run-control.ts`, `run-control-store.ts`, `workflow-stop.ts` | stop intents, acknowledgements, posts in flight, the family pointer | stop tool, post, poll, acknowledge, force, cold stop | requester and owner in different processes, with different memories of the run; checks read before an await and used after it | an acknowledged stop is durable and final; only superseded daemons are killed; no request is forgotten |
| MCP tools and shim, `mcp-server/src` | little | validate, render, relay | reconnection | requests are not lost or doubled |
| REPL broker, `repl-engine/src/broker.ts`, `store.ts`, `guest/guest-library.ts` | call ledger, guest registry and its snapshot, lanes, slots, tasks | agent, queue, steer, cancel, deliver, drain, flush, restore | ledger and snapshot are durable at different times; late answers; a restore meets turns that still run | record, settle, consume; one turn per session; the cap; nothing forgotten |
| Rest of the REPL engine | QuickJS VM, bridge, rendered results, workspace lock | eval, checkpoint, render | break while evaluating | the last checkpoint is restorable |
| `codex-acp`, `pi-acp`, `acp-server`, `agentprism-otel`, `workflows` | adapters and front ends | translate | steering queues, child processes | order kept |

Interaction: hosts (the MCP daemon, a CLI, a library user) each hold one
`WorkflowManager`. Managers of different processes share nothing but the run
store; the lease is their only mutual exclusion. A manager runs the workflow
script in its own process; the script's `agent()` calls reach the ACP runner,
which takes a session from the connection pool; results and checkpoints come
back as callbacks, which the manager turns into journal entries and events. A stop
that reaches a daemon which does not execute the run becomes an intent file that
every daemon can find. The REPL is a second host of agents, with no workflow
and no manager: its broker takes the calls of guest code to the same ACP clients.

## 2. Plan

Order: the lease, since everything rests on it; the run lifecycle, which is the
core; what is composed with it; then the components that one process keeps to
itself.

| Step | Modules | State |
|---|---|---|
| 1 | `ExclusiveLease`, `RunLease` | checked, proved |
| 2 | `RunRecord`, `RunLifecycle`; its atomic lease is `ExclusiveLease`, which `RunLease` implements for those whose lock was not taken from them | checked, proved |
| 3 | `AgentPool`: the ACP connection pool with the auth and provider generations | checked, proved |
| 4 | `RunAcceptance`: prepared runs and their driver | checked, proved |
| 5 | `WorkflowExecution`: what happens inside an execution that `RunLifecycle` sees from outside | checked, proved |
| 6 | `ReplBroker` | checked; ledger and slots proved, lanes (`OneTurnPerSession`) and `NothingForgotten` still to prove |
| 7 | `RunControl`, on top of `RunLifecycle`, which it EXTENDS and implements | checked, proved |

Next would come, in this order, and are not here (section 7 says why each can
wait): the proofs of step 6 that are left; the bytes, reader caches and watchers of the event log as an append-only
sequence that a reader sees a prefix of; the spawn lock, instance records and exit
of a superseded daemon; the replay buffer of `event-store.ts`; the resume matcher
as operators against a reference definition; turns of one ACP session.

## 3. Modules

### RunLease (abstract: ExclusiveLease)

One file-system call per step, because processes interleave between any two.
`pc` is the position inside `acquireRunLease`, `releaseRunLease` or between
`validateRunLease` and the write it guards; `attempt` is its loop variable,
`seen` what `readLock` returned, `mine` the token of the lease object.
`writeFileSync(..., {flag: "wx"})` is two steps: create an empty file, write.
A process can die in every state and leaves its files. `strays` is a history
variable: writes that landed after the lock changed hands.

`OldProcs` are processes of the version that kept its runs, and its locks, in the
project directory. They take and give up the lock at the old path (`legacy`)
whenever no other of them lives there, look at nothing else, and are external.
`removeStaleLegacyLock` probes that path once (`LegacyOwned`, `LegacyStale`), and
one step later unlinks whatever is there by then (`LegacyUnlink`).

Nothing is assumed of how calls overlap: the lock file is then no exclusive lease
(finding 1), and the old path is no barrier to an owner that comes between the
probe and the create (finding 4). What is left is said with three histories.
`robbed` are the processes whose lock file somebody else unlinked. Without them the
holders are an exclusive lease (`RefinesExclusiveLease`), and `RobbedByRaceOnly` says
how one gets robbed: by an unlink of a file that changed since it was judged, or was
judged before its JSON was there, or by somebody who was robbed before. So with
acquisitions that do not overlap nobody is. `facing` is the old-version owner that a
call found in place when it began; that owner keeps the run against this call
(`LegacyOwnerExcludes`) unless a call that began earlier unlinks its lock (`ousted`).

### RunLifecycle (abstract: RunRecord)

One run id, several managers. A manager method is one synchronous span of a
Node process, hence one action; what can happen inside is a chosen outcome `o`
of its reads and writes (which of them fail, and whether the process dies,
leaving a prefix). Disk: `snap`, `log`, `tombstone`, `lease`. Memory of manager
`m`: `run[m]` (its `ManagedRun`), `m \in own` (`managed.lease` is set),
`m \in settled` (`executionSettled`). Every action names its method in its
comment and, with line numbers, in `PROJECT.json`.

Abstractions, each with its reason:

- The lease is exclusive and atomic; `RunLease` is where it is not.
- One human checkpoint and other calls. An execution records a call at most once
  (`fresh`: it allocates each index once), but a continuation whose call has another
  hash than the durable entry, or an empty result there, runs it again and replaces
  the entry. Hashes are not in the model: any call may be run again.
- A manual and a usage-limit pause gate nothing, so both are "none".
- Log records are `stopped` or `other`: nothing else is looked for in the log.
- `Retired`: after the lease is given up only the status and the generation of a
  ManagedRun are read again, so the rest is dropped. An execution that was
  aborted and returns late has no lease, hence only changes memory (`Unwind`).
- `appendEvent` revalidates the log when its writer cache is cold; under the
  invariants the warm cache agrees, so `Appends` is the validation.
- A failed append's marker save and the save that follows it are one outcome.
- A plain start whose mandatory save throws changes nothing: a stutter.
- Not here: `pending` runs (see `RunAcceptance`), non-journaling runs, runs from
  before the event stream, `resumeFromRunId` children, agent cancellation (see
  `WorkflowExecution`), listeners that re-enter the manager.

`RunRecord` is the durable record alone, whichever process writes: the status
machine, generations, receipts that are never replaced, and entries that only a
generation recording that call for the first time replaces.

### AgentPool

One `AcpAgentPool` and one backend key, in one Node process, so an action is the
code between two awaits and anything may happen at an await: the handshake
(`shake`, `login`, `route`), `session/new`, `session/close`, an authenticate
replay, a timer, the exit of a child.

| Code | Model |
|---|---|
| `PooledConnection`: `_alive`, `_activeSessions`, `_injectedRunReserved`, `authStamp.appliedGeneration`, `providerStamp`, `recyclePending`, `disposing` | fields of `conn[c]` (`phase`, `active`, `reserved`, `auth`, `prov`, `recycle`, `disposing`) |
| `byBackend.get(key)`, `elasticIdleTimers`, `disposingConnections`, `disposed` | `pool`, `timers`, `tracked`, `closed` |
| `selectConnection` up to the first await of `openPreparedSession` | `Acquire` |
| `initialize`, `applyAuthIntent`, `applyProviderIntents` | `Shaken`, `LoggedIn`, `Routed`, `StartFails` |
| `scheduleReapply` | `Reapplied`, `ReapplyFails`; `reapply[c]` counts those in flight |
| `openReadySession`, the catch of `openPreparedSession` | `Opened`, `OpenFails` |
| `releaseSession`, then `onReleased` one await later | `Closed`, `Freed` |
| `quarantineAfterIgnoredCancel` | `Quarantine` |
| `scheduleElasticReap` and its timer | `Countdown`, `Reap` |
| `die`, the rest of `disposeOwned`, `dispose()` | `Die`, `DisposalSettles`, `Dispose`, `DisposeResolves` |
| runner: authentication, logout, provider changes, each with its `recycle` | `Authenticate`, `SetProvider` |

Abstractions: a connection is the number of its spawn, which is its place in the
list. Of the auth machine the pool reads whether it exists (`auth.known`; the
first handshake creates it), its generation, and whether the credential is
in-process; its states are not followed, so a login RPC may also succeed at once
where the code skips it. A session whose `session/close` is in flight is still
"open". A crash has not retained any descendants; a disposal has. Connections of
the runner outside the pool (authentication, interactive) and `forceKill` are left
out.

### RunAcceptance

Several daemons serve one project and share its run store; a client may send a
request, an answer, a poll, a stop or a deletion to any of them, and again to
another. The run id is computed from the request, so the run stands for it.

| Code | Model |
|---|---|
| the snapshot file; `preparation`, `preparationRevision`, `setupResponses` in it | `snap[r]`: status, revision, the backend asked about, approvals, answers |
| the lineage tombstone, the lock file | `tomb`, `lease[r]` |
| `manager.runs` of a daemon | `mem[d][r]` |
| `ActiveRunRegistry`: a reservation, `hold`, `track`, `evict` | being in `create` or `claim`; `slot[d][r]` "held", "tracked", "none" |
| `driving`, and the locals of `drive` | `drive[d][r]` |
| `accept` with `findAcceptedRun` and `prepareRun` | `Accept`, `Create`, `CreateRefused` |
| `recover` with `claimPreparedRun`, alone and inside `accept` and `respond` | `Recover`, `Look`, `Claim` |
| `respond` with `updatePreparation` or `settlePreparedRun` | `Respond`, `Save`, `Cancel` |
| `schedule` and `drive` between their awaits, `admitPreparedRun` | `DriveStarts`, `DriveAsks`, `DriveAdmits`, `DriveThrows`, `DriveFails`, `DriveEnds` |
| `stop`, `stopPersistedRun`, `deleteRun` with `persistence.delete` | `Stop`, `ColdStop`, `Delete` then `Mark`, `Unlink`, `Unlock` |

A daemon is one Node process, so a tool call is one synchronous span; another
daemon can still come between two file operations of it. `op[d]` is the call the
daemon is in, cut where that makes a difference: after each lookup, and between
the three removals of `delete`. What a daemon does under the lease is one step,
because the lease is exclusive here (`RunLease` says how far it is). The setup id
of a question is the revision that asks it. The history variables record what
happened (`created`, `starts`), what was asked, what users consented to, and which
answers were acknowledged.

Abstractions: parsing, validation and probing are the choice between
`DriveAdmits` and `DriveThrows`; a drive that has timed out does nothing more and
is dropped. The execution is one step (`Completes`): `RunLifecycle` is its model.
A stop that cannot save changes nothing. Decline and cancel are one verdict.
Events and listeners are left out.

### WorkflowExecution

One script in one process, with the manager's side of each callback. A step is one
synchronous piece of JavaScript; the asynchronous body of a call is at `pc[c]`.

| Code | Model |
|---|---|
| `state.callSeq`, `state.calls`, `attemptsRan`, `shared.pendingCheckpoint`, `signal.aborted` | `seq`, `rec`, `att`, `pending`, `aborted` |
| `createLimiter`: the count, the queue, `next()` and the waiter it wakes, which counts itself one microtask later | `active`, `queue`; `Admit`, `Leave`, `Wake` |
| `agentImplementation`: identity and journal lookup, attempt, retry, failure | `Agent`, `ReplayLands`; `Begin`, `RunnerAnswers`, `AttemptSucceeds`, `AttemptRetried`, `AttemptFails` |
| `checkpointImplementation` | `Checkpoint`, `Decided`, `Undecided` |
| the end of `runWorkflow`, with its `finally` | `ScriptReturns`, `EngineCompletes`, `EngineFails`; `end` |
| `executeRun` after its `await`, and its `catch` | `ManagerCompletes`, `ManagerFails` |
| `pause`, `stop`, `interruptUnsettledCalls` | `Halt` |
| `cancelAgentCall`, `withAgentCancellation`, `completeAgentCancellation` | `CancelAgentCall`, `CancelOld`, `Answered` |
| `continueRunInternal`, the journal it hands to the engine | `Continue`, `resume` |
| `ManagedRun.calls`, `.journal`, the saved manifest | `rows`, `journal`, `manifest` |

Abstractions: what `hashAgentCall` tells apart is a model value, and the script is
any sequence of calls (in another generation another one). Every save succeeds
here; `RunLifecycle` is where it does not. Nested workflows, prepared resume
(decision gates), worktrees, token budgets and the wording of results are left out.
`old` is what is seen of a former generation: the attempts that have not returned.

Cases that a reader may not expect, all in the model: a script that fails with
nothing unsettled does not abort, so a branch it did not await may still start
agents; after a completion, unsettled calls are interrupted without an abort, so
those in the queue still run; a replay that finishes under a pending checkpoint is
recorded as an error and done again by the continuation; a fatal error while a
checkpoint is pending makes the run "failed"; a cancellation after a continuation
may reach the attempt of the former generation, or be answered "ambiguous".

### ReplBroker

One workspace. The ledger `w.led` is fsynced by each handler, the guest registry
`w.vm` is durable up to the last flush (`snap`), the rest of `w` is memory.
Handlers call each other (`scheduleAdmissions` is called by nearly all), so they
are operators on the record `w`, and an action is one whole handler.

| Code | Model |
|---|---|
| `recordDispatched`, `recordCompletion`, `deliver`, `settleStored`, `refuse` | `Record`, `SettleAll`, `SettleStored`, `SettleDirect` |
| `onAgent`, `onQueue`, `onSteer` with `registerCall` of the guest | `NewAgent`, `NewQueue`, `NewSteer`; `Mint` |
| lanes, `markLaneFatal`, `failQueuedTurns` | `w.lane`, `Quarantine`, `FailQueued` |
| `markPersistenceFatal` | `PersistenceFatal`, in `NewQueue`, `Handoff`, `CancelSession`, `CancelQueued`, `Cut` |
| `all()` of the store, in the order of the first dispatch | `w.order`, `Pos`, `InOrder` |
| `scheduleAdmissions`, `scheduleQueueReattach`, the slots | `Schedule`, `Started`, `Reattach`, `w.slots` |
| turn, steer and reattach tasks | `OpenLands`, `Handoff`, `PromptEnds`, `LoadedTurnEnds`, `RestoredTurnEnds`, `SteerAnswers`, `ReattachLands` |
| `pumpUnlocked` | `Deliver` |
| `onSessionCancel`, `onQueueCancel`, its timeout | `CancelSession`, `CancelQueued`, `CancelTimeout` |
| `drainForDisconnect`: begin, bound, forced stop, release, abort | `StartDrain`, `DrainCut`, `StopAll`, `FinishDrain`, `AbortDrain`; `drain` |
| the snapshot writer, death, `openFor` | `Flush`, `Crash` |
| `reconcile`, `reconcileAgentCall` with its load, `rebuildQueuedTurns` | `ReconcileStep`, `RestoreLands`, `FinishReconcile` |

`drain` follows `drainForDisconnect`: "waiting" while it pumps, "cut" after the
bound (generation, cancellations), "stopped" after the forced stop, when only guest
continuations run, and "done" when all is released. Guest code that its pump resumes
issues and cancels calls all along (`Pumping`). Its deadline may expire behind a
`reconcile` that is parked on a load (`serialized`, `:6132`): then it runs beside it
from the bound on. A drained broker still drains; `onAgent` and `onQueue` lift that,
and the load of a handed-off turn clears `drained` but not `draining` ("warm", `:2124`).

A ledger write may fail where the code catches that (`markPersistenceFatal`): the calls
of the lane are rejected in the guest and nothing is recorded. `w.unsaved` remembers
these calls, `w.reused` those the guest minted although the ledger had them; both are
history, for the properties. An id that is minted again is of the same kind and
session. Elsewhere a failing write is not modelled: in the pump's `deliver` it
propagates and the outcome is delivered by the next pump; out of `markLaneFatal`,
`failQueuedTurns` or `cancelFoundingBeforeSession` it would leave a handler half done.
A line that was appended but not fsynced, and found by the next process, neither.

Abstractions: an answer is "okay", "bad" or "hold" (left pending for a later
restore); prompts, permissions, payload limits and usage are left out; the session
of a queue or steer call is a constant. Admissions with equal sequence numbers (a
process counts from 1 again) are started in the order of the code: dispatches before
queue heads, then by record; the map of lanes is taken to be in that order too. A
load that a drain disowned still lands (`late`), but the turn that waited for it has
no task any more. `reconcileAgentCall` releases a loaded session that it cannot
observe before it issues the call again (`:1629`); that await is part of
`RestoreLands`. `Flush` is any time the VM could be written. `dispose`, the VM, its
bridge, the rendering of results and the workspace lock are not modelled.

### RunControl (implements RunLifecycle)

Several daemons and hosts share one run, which is `RunLifecycle`'s. On top of it:

| Code | Model |
|---|---|
| intent file with its acknowledgement beside it | `intent[i]` |
| a posted stop on its way | `net` |
| `DaemonRunControl.control`, between its awaits; the stop tool of `server.ts` before it | `call[d]`: `StopTool`, `Load`, `LoadOwn`, `Create`, `Proceed`, `Again`, `Cold` |
| `forceOwner` | `MayForce`, `Kill`, `Died`, `Last`; `condemned` |
| `applyWholeIntent` with `requireDurableStoppedRun`; `applyLocal`; `processPendingIntents` | `ApplyWholeIntent`; `Arrive`; `Poll` |
| `stop`, `stopPersistedRun` of the manager | `StopHere`, `StopPersisted`, of `RunLifecycle`'s actions |
| the pointer file of the daemon family | `current`, `retired`, `Succeed` |
| `deleteRunControlSidecars` | `Removed` |

Pieces that call the manager more than once with no await between are cut
(`Inside`): their process does nothing else meanwhile, others do. Every daemon is
taken to have opened the project of the run; one that has not does not look for
its intents (`projects.stores()`). Signatures, the compaction of sidecars and the
forwarding of agent cancellations, permissions and setup answers are left out.

## 4. Runs

| Run | Instance | Shows |
|---|---|---|
| RunLeaseRace | 2 processes and one of the old version, 3 lock files; 3 700 000 states | `ExclusiveLease` refined by those not robbed, who is robbed how, old-version owners that were found respected, a displaced owner writes at most once more, the recovered owner is dead |
| RunLeaseExclusive | the same | **violated**: two owners |
| RunLeaseLegacy | the same, 2 lock files | **violated**: a lease is granted while an old-version owner lives |
| RunLifecycleSafety | 2 managers, 1 agent call, 1 checkpoint, 2 values, 1 operation, 1 continuation, 3 log records, 1 fault, malformed replies; 250 000 states | ownership, durability, first writer wins, loss is final, `RunRecord` refined |
| RunLifecycleLive | 2 managers, 2 continuations, 1 operation, no fault, fair inspection | cached history yields to another owner; a dead owner's run is reconciled |
| AgentPool | 2 callers, 2 processes, pool of 1, one authentication, logout or provider change, crashes, refusals, fair | accounting, reservations, disposals; the pool shrinks to its size; `dispose()` resolves |
| RunAcceptanceLife | 2 daemons of 1 slot, 1 request, 2 backends, 1 death, 1 failing save, fair | accepted once, consent, acknowledged answers kept, memory in step with the disk, slots accounted for, records go forward, the preparation advances |
| WorkflowExecution | 2 generations of 2 calls, 1 slot, 1 retry, fair; 650 000 states | dense manifest, results journaled and not redone, cancellations truthful, no idle slot, the queue drains |
| WorkflowExecutionLimit | 3 calls | **violated**: more attempts in flight than the limit |
| ReplBroker | 2 founding calls, 1 queued turn, 2 steers, cap 1; 3 calls and one of a crash, a drain, a failed write, an id minted again, or 2 calls and two of these; 1 140 000 states | ledger first, one turn per session, the cap, slots worked for, nothing forgotten |
| ReplBrokerReuse | 1 call, 1 crash | **violated**: a call that was just issued is already answered |
| RunControl | 2 daemons, 1 intent, one of a forced stop, a fault and a continuation, fair; 74 000 states | acknowledged stops durable and final, only superseded daemons killed, no stop request forgotten |

Bounds. Two managers are enough for every pair of conflicting methods, and a
dead process comes back as nothing (a process incarnation never returns), so
two already give "the other one died". Two values give a conflicting answer,
one operation gives a retry, one continuation a second generation; two are
needed for a cached generation to be overtaken twice. `MaxLog` bounds
observation events only; control events are never refused by it. `MaxFaults`
counts failing reads and writes; a death is not counted, it is bounded by one
manager surviving. Symmetry is over managers and values, and not used where
liveness is checked. Deadlock is not checked: a run may be deleted and all
bounds used up, and the system then rightly stops.

For the pool, two callers and one more process than its size give every pair of
uses of one connection and a surplus one; one new generation makes a connection
stale, and two replays can be in flight on it. With a third caller nothing new
can be told apart, except in a burst (section 5). `OneChange` and
`OthersInject` leave one change of the credential or of the routing, and let one of
the callers ask for injected runs only. `MaxConns` bounds the processes ever
spawned; deadlock is not checked because all of them may be used up.

For acceptance, two daemons give every race of two calls on one run; requests
meet only in the slots of a daemon, where the proofs are for any number of them.
One backend to approve gives a question, an answer and an admission; two give a
late answer to an earlier question and approvals that accumulate. Revisions need
no bound: a preparation asks about each backend once, so there are at most two per
backend. One death gives one takeover of a run, and the daemon comes back empty.
Deadlock is not checked: when every run has ended or was deleted, nothing is left to
do.

For an execution, two calls and one slot give a waiter; one retry gives an attempt
that is not the first; two generations give an attempt of the former one that
returns late, and a journal to answer from. The broker's `Effort` leaves every pair
of a crash, a drain, a failed write, an id minted again and a third call; an admission
limit of one is met by two calls, two steers of one session (alike: `SteersAlike`) let
one stand behind the other, and a snapshot is flushed only while a crash can still come. Run control needs two
daemons to have one that asks and one that executes; a third would only apply an
intent that one of the two can apply. One continuation gives an execution that an old
intent meets; `PlainPauses` leaves the gates to `RunLifecycle`, and `OneCall` lets
one stop call be in progress at a time, while intents that earlier ones left are
applied by polls and posts at any moment.

Fairness. `RunLease` has none: nothing there has to happen. `RunLifecycle`: hosts keep
listing and inspecting runs, and each inspection reconciles (`WF` of a
reconcile that succeeds); no fairness is assumed of owners, which may die or
never finish. With a failing final save the manager that settled the run keeps
hiding it from itself by design, hence `MaxFaults = 0` in the live run.
`AgentPool`: handshakes and sessions end (they have deadlines or die with their
process), timers fire, and a process that is being disposed of dies (SIGKILL
follows SIGTERM); nobody has to ask for a session or to dispose of the pool.
`RunAcceptance`: a call ends (`WF` of the rest of it), the event loop serves every
callback of a driver (`SF`, because other calls of the daemon come in between),
and clients keep polling a run in every daemon (`SF` of `Recover`; status and
inspect call it, `server.ts:1099`, `:1588`): without a poll nobody takes over the
run of a daemon that died, by design. No client has to answer.
`WorkflowExecution`: a resolved promise continues, and the runner settles every
prompt it was given (`WF`; the second is an assumption about `acp-agents`, whose
turns end by answer, cancellation or death of the process); scripts, humans and
hosts owe nothing. `RunControl`: a process leaves the synchronous piece it is in
(`WF`), the reaper's timer fires in every daemon (`SF` of `Poll`, because other
calls of the daemon come in between), clients keep inspecting the run (`SF` of
`Inspect`), and a dead daemon is replaced by the next client's shim (`WF` of
`Replace`). Nothing posted has to arrive and no execution has to end. Inspection
is needed: see the poll path in section 5. `ReplBroker` has no liveness property
and no fairness: `NothingForgotten` says of each state that what a waiting call
waits for is still in progress.

## 5. Findings

Each is a disagreement of the code with the repository's own words, and a run shows
it (`PROJECT.json`, "findings", quotes them).

1. The lease is not exclusive if acquisitions overlap (`run-persistence.ts:628`,
   `:654`): an empty lock file between create and write, or a stale file, makes a
   second process unlink a lock that a live process has just taken.
2. More agents run than `concurrency` allows (`workflow.ts:3196`, against
   `docs/api.md:111`): a call that arrives between `next()` and the microtask of
   the waiter it woke takes the slot as well, and the excess lasts while the queue
   is not empty.
3. Call ids are used again after a crash (`guest-library.ts:848`, against
   `persistence-and-reset.md:3`): the counter is in the VM snapshot only, the ledger
   is durable at once, so the restored guest issues an id whose answer is there.
4. A live owner of the previous version does not keep the run from a call that probed
   the old path before (`run-persistence.ts:462`, `:638`, against the test named "run
   lease refuses while a legacy project lock owner is alive"): both execute it.

Met while modelling, in the models but without a run of their own:

- `continueRunInternal` leaks the lease when `classifyCheckpointReplies` throws
  (`workflow-manager.ts:3125`). To see it: MCRunLifecycle with INVARIANT
  `LeaseOnlyWhileExecuting`, `MalformedReplies = TRUE`, two managers,
  `Calls = {ask}`, `MaxGen = 1`, `MaxLog = 1`, `MaxFaults = 0`.
- Acquires during a handshake over-spawn (`pool.ts:197`): once the backend's auth
  machine exists, a connection that is still starting counts as stale. To see it:
  MCAgentPool with INVARIANT `NeverOverSpawns`, three callers, `Size = 2`,
  `MaxConns = 4`, `MaxAuth = MaxProv = 0`, `Injected = {FALSE}`, `Faulty = FALSE`.
- Whole-stop intents name the run, not the generation, so one that is posted late or
  still pending stops a later continuation, and one that was acknowledged may act
  again (`run-control-store.ts:105`;
  `docs/archive/specs/daemon-succession-run-control.md:147` calls them
  "commutative and idempotent"). To see it: make `AcknowledgedIsSpent` a PROPERTY
  of `RunControl.cfg`.
- A continuation whose checkpoint asks something else than the durable decision at
  its index answered pauses again, and every reply to that pause is then classified
  "different" and ignored (`workflow-manager.ts:3949`: the hashes are not compared):
  only a host with a confirm callback gets the run on. In the model: `Accepts` is
  false while `journal[Checkpoint]` has a value, and `Gated` refuses without a host.
- The poll of a daemon that remembers an earlier pause does not stop a run whose
  later owner died: `stop()` finds "running" on disk and returns false, which is
  taken for another owner, and the cold path is not tried until somebody inspects
  the run.
- `forceOwner` does not repeat its checks after the probe it awaits, if the lease
  has an owner id; `OnlySupersededKilled` shows why that is harmless: the pointer
  never comes back.
- A request whose snapshot is unreadable is accepted again
  (`run-event-persistence.ts:1574`): the wrapper that every manager puts around its
  persistence does not forward `hasRunArtifact`, which is there to refuse that. And a
  deletion whose unlink fails removes the tombstone without the lease, which may be
  that of a deletion that came after it (`run-persistence.ts:577`). The disk of
  `RunAcceptance` fails less than that.
- The broker's cap is exceeded by a restore (`broker.ts:974` calls it absolute):
  `reconcile` takes slots for turns it finds running without asking
  (`CapUnlessRestored`). A queued turn restored into a lane that went fatal during
  `reconcile` is settled by nobody (`:1430`), and a founding call whose loaded
  session fails revives a fatal lane (`:2048`), which the header (`:31`) says gets no
  blank replacement session. An aborted drain does not reschedule waiting admissions
  (`:3348`) and a late load of a drained generation quarantines the fresh lane
  (`NothingForgotten` therefore says nothing once a drain has begun).
- Two leaks of a slot, both of turns that `reconcile` gave one (`SlotsWorked` excepts
  them; the theorem `NoSlotLeaks` is about all others): a `hold` under a drain that is
  then aborted; and a restored queued turn whose founding id is minted again while its
  session loads, as `onAgent` makes a new lane that does not know the turn (`:3887`),
  so that a load that fails finds nobody to settle.
- When the ledger cannot be written, `markPersistenceFatal` (`:5298`) rejects the calls of
  the lane in the guest only: no completion is recorded, which `LedgerFirst` excepts
  (`w.unsaved`), and after a crash the same calls may be open again. It frees slots and
  wakes nobody who waits for one (no `scheduleAdmissions`, unlike `markLaneFatal`), which
  `NothingForgotten` excepts. And if a load of that session is in flight, its landing
  makes the fatal lane usable again (`:2201`, before the callers look for `fatal`,
  `:5075`, `:5102`): a queued turn that comes later starts beside the restored one
  whose load it was, so `OneTurnPerSession` is about `Intact` sessions.
- A steer may stay pending for ever (`broker.ts:29` lists what rejects a lane; the
  authoring reference `steering-queueing-and-cancellation.md:23` says that transport
  and protocol failures reject). A restore finds a founding turn running, its loaded
  session fails, and the call is issued again; the lane still has its session, so two
  steers are taken meanwhile; when the new session fails to open, `failQueuedTurns`
  makes the lane fatal and settles queued turns only (`:5277`); the first steer
  returns, and `processSteeringControls` sends nothing in a fatal lane (`:4953`), so
  the second is not sent, not settled, and not seen by a later `fail`. To see it:
  take the `stranded` of the last disjunct out of `NothingForgotten`; TLC shows it
  with two steers and a crash.
- After the bound of a drain has expired, the broker can run two turns of a session at
  once (`OneTurnPerSession` therefore ends there: `forced`; without it MCReplBroker
  shows it with three agents, three queues, `MaxCrashes = 2`, `MaxDrains = 2`,
  `Cap = 1`). A re-issue that waits for a slot is not tracked: the
  forced stop of a drain settles its call (`:3530`, `:2375`), a queue call then loads
  the session lazily although the re-issue still waits (`:2097`), and a second drain
  disowns that load. The next queue call loads again while the re-issue opens; the late
  load quarantines the lane and the fresh one makes it usable (`:2201`), so that a queued
  turn starts beside the open.
- A warm stop of a paused run may append a second `stopped` (`StopPaused`;
  `workflow-manager.ts:3556`); a plain run executes although its first save failed
  (`Start`; `:1421`); if a run id is used again, `getRun` may answer with history of
  the old run (`CachedHistoryYields` is for ids that are not).
- A session may be opened on a connection that became stale after its selection
  (`Opened` does not look at the stamp); `dispose()` does not wait for the
  descendants of a connection that `releaseSession` disposed of (`Closed` does not
  add to `tracked`); a connection marked for recycling whose only session fails to
  open is never disposed of (`OpenFails`; `acp-client.ts:2143`); and of two
  authenticate replays on one connection the second may fail after the first put it
  back into use, and disposes of it with its session (`ReapplyFails`;
  `acp-client.ts:1974`).

- Between the `finally` of `runWorkflow` and the `catch` of `executeRun` lie some
  microtasks in which a branch that nobody awaits may still call `agent()`. If the
  engine failed with nothing unsettled nothing was aborted: the call is counted
  (`onResumeCallAllocated`, `workflow-manager.ts:2168`) and saved as allocated without
  a record, against `workflow.ts:957` ("preserves the dense manifest"). This is the
  exception in `DenseManifest`; without it TLC finds the property violated. The model
  lets any step happen in between, also those that need more than a microtask.
- The slot of a run that is deleted while it is pending is never given back
  (`Unlock` evicts nothing; `workflow-manager.ts:3830`, `project-registry.ts:170`),
  hence the second case of `SlotsAccounted`; and `recover` decides from the snapshot
  it read before the claim whether to schedule (`workflow-lifecycle.ts:183`), so a
  run that it took over may wait for the next poll (`op.drv`).

Each property of a passing run has a mutant: a definition next to the original
(its comment says "Mutant") with a plausible bug, under which TLC finds the
property violated.

## 6. Proofs

`RunLeaseProofs`: `RaceInv`, for any processes of both versions and any number of
lock files, however acquisitions overlap. At the new path (`LockInv`): tokens are
issued once, so a lock that was replaced never comes back (`StraysDisplaced`: whoever
saves behind a lost lock will fail its next validation, hence `AtMostOneStraySave`);
the path names the file of every live process that created one and was not robbed,
so there is one such process (`UnrobbedOwn`: hence the refinement); and a lock is
judged stale by a dead pid (`JudgedDead`), so who unlinks the lock of a live process
judged something else (`RobbedOnlyByRace`). At the old path (`LegacyInv`): an owner
that a call found in place keeps its lock there while it lives and is not ousted, and
the call gets nowhere (`LegacyKept`).

`RunLifecycleProofs`: the inductive invariant `IInv` adds to the checked
invariants that owners are alive and have a run (`OwnersLive`, `OwnersRun`), that
a log has a snapshot beside it (`LogNeedsSnapshot`) and that an owner without a
snapshot on disk is of generation 0 with an empty log (`FreshOwner`) -- without
the last two, a first save that fails could meet an old log. Writes happen in
spans of four kinds (`WriterAlone`, `ExecutingSpan`, `IdleSpan`, `RecoverySpan`);
each lemma says what such a span preserves, and each action is shown to be one.
No bound, fault count or number of managers is assumed.

`CachedHistoryYields`, in the same module, needs `~ReuseIds`: a cached
generation is never newer than the snapshot, and older than a running one that
someone else owns (`CacheOlder`). Section 5 says what happens without it.

`AgentPoolProofs`: for any finite set of callers, any size and any bounds.
Accounting (`SlotsCounted`) is what makes the other invariants inductive: a caller
that leaves a connection finds it not idle. To it `IInv` adds that the list holds
running processes only, that callers refer to processes that were spawned, that
an unspawned process is blank, and that a process that is being disposed of while
in the list is marked. Every lemma of a step also proves the step of
`DisposalSparesBusy`.

`RunAcceptanceProofs`: for any daemons, any finite set of requests, any backends,
any cap and any bounds. A step belongs to one daemon and one run, so `IInv` is
split into `Solo(r)`, what is said of a run alone, `Pair(d, r)`, of a daemon and a
run, and `Capped(d)`, of a daemon's slots; `FrameStep` shows that a step needs to
re-establish them only for its own run and daemon, because it writes a record only
while its daemon or nobody has the lease. The strengthening over the checked
invariants is: a record that is gone has a tombstone, and a tombstone is removed
only by a save of a record that is there (without this a deleted request could be
created again); the questions of a run have distinct ids, none above the current
revision (without this an answer could be taken for that of another question); and
what `respond` carries from its read to its save is something the user has
consented to. `ClaimedIsRecord` says that a claim always finds what is on disk.
The steps are of five kinds (`QuietStep`, `ClaimStep`, `KeepsClaimStep`,
`WriteStep`, `SettleStep`); each action is shown to be one of them. The invariant
holds whatever the caps and fault counts are, but rests on the exclusive lease.

`WorkflowExecutionProofs`: for any generations, calls, limit, retries and hashes.
`LimiterInv`: the count is the number of calls inside (`Counted`), the queue holds
each waiting call once (`Line`); with them, a step of the limiter can be shown to
keep `NoIdleSlot`, whatever arrives between `next()` and the waiter. `RecordInv`
relates engine and manager: nothing is known of a call that is not allocated but
the journal it starts with (`Fresh`: otherwise a continuation could meet an entry it
did not look up); a call replays exactly what the journal has (`Replays`, `Misses`:
hence `NoRework`); a run whose status moved before its script ended is aborted with
everything settled (`Quiet`: hence nothing is recorded behind the saved manifest);
an engine that ended has settled the calls it had, and after the end with a checkpoint
no call is allocated (`Ended`: what the manager may rely on when it goes on);
what the engine settled, the manager has heard and journaled (`RecRows`,
`RecJournal`); and an acknowledged cancellation is what the records say (`Told`).
The limit itself is not proved: finding 2.

`ReplBrokerProofs`: `LedgerFirst`, for any calls, sessions, cap and bounds, also when
ids are minted again and ledger writes fail (the calls it happened to are excepted in
the property, and stay so: `Durable`). Handlers are
compositions, so the argument is too: `Step(v, u)` says what an operator may do to
the ledger and the registry (records and completions stay, nothing settled opens),
steps compose (`Then`), and each operator is a step by those it calls. Lanes, slots
and tasks play no part in it: whatever they do, the ledger is right.

The second half of the module: `CapUnlessRestored`, and `NoSlotLeaks`, which is
`SlotsWorked` for the turns that did not get their slot from a restore, for any calls
(finitely or infinitely many), sessions, cap and bounds, through failed writes, drains
(also of a restore) and crashes, and whichever ids are minted again. `Good(v, X, Y)` is
said of the broker's memory in the middle of a handler, and each handler is shown to
keep it: apart from the turns `X` that a restore found running, the slots are within
the cap and each is worked for, and a task of the kinds that only a restore creates is
one of `X`; the calls `Y` that the restore has yet to look at have no slot and wait for
none. `CapUnlessRestored`
follows because `restored` and the slots outside of it cover all slots. The step that
could break the cap is `Schedule`, which starts every candidate that has fewer than
`Cap - |slots|` older ones: `RanksDiffer` shows that two candidates never have the
same rank, so at most as many are started as slots are free. For that, `Older` must
be a strict order on the candidates, so `Placed` says that whatever waits is in the
ledger, at one place of its order (`PosOf`), and in `Known(v)`, which is finite
because it is the range of a sequence.

`RunControlProofs`: `ImplementsLifecycle` shows that every step of run control is a
step of `RunLifecycle` or changes nothing of the run, so all theorems of
`RunLifecycleProofs` hold under run control. `FamilyInv` adds the daemons: whoever
has the lease or is in a call was published, the pointer never returns to a daemon,
and an owner that is being probed is retired, which is what the missing second check
relies on. `AckedStopIsDurable` needs that ids are not used again (`~ReuseIds`) and
`AckInv`: the run of an acknowledged stop is stopped for good, or it was deleted,
nobody executes it and its tombstone is there. `AbortedStays` goes through every
action of the life cycle: nobody executes an aborted run because an owner knows what
the disk knows, and no stale memory of it passes a guard.

Only model-checked: liveness (`DeadOwnerReconciles`,
`ShrinksToSize`, `DisposeEnds`, `PreparationAdvances`, `QueueDrains`,
`StopSettles`), which is out of the prover's reach; and of the broker
`OneTurnPerSession`, `NothingForgotten` and the leaks that `SlotsWorked` excepts.

## 7. Not modelled

- The bytes of the event log, the caches of its readers, file watchers: a record is
  whole or absent, and a reader sees the disk. The sequence check, the loss mark and
  the recovery of the tail are in `RunLifecycle`.
- Non-journaling runs, `resumeFromRunId` children and their lineage, retention:
  other lives of the same record.
- The resume matcher, prepared resume, discovery, validation and observability:
  functions of data with little state; `WorkflowExecution` has the lookup by call
  hash only.
- Worktrees: git commands and their leftovers; the file system is the state.
- One ACP session (turns, permissions, structured output), the auth machine's own
  states, dedicated connections: the pool sees them as a session that opens and ends.
- The spawn lock, instance records, draining and exit of a superseded daemon; HTTP
  sessions, the replay buffer, the shim; MCP tools: they carry requests to what is
  modelled. The spawn lock has the pattern of finding 1.
- The VM of the REPL, its bridge and its renderers: one synchronous interpreter.
- `codex-acp`, `pi-acp`, `acp-server`, `agentprism-otel`, the CLI and shared types:
  protocol adapters around code that is generated or outside this repository.

The map covers a small share of the repository's lines. What is mapped is the code
in which several processes, callbacks or generations interleave; the adapters,
schemas, validation, rendering and command line around it are much longer.
