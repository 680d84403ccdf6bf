------------------------- MODULE WorkflowExecution -------------------------
(***************************************************************************)
(* The execution of one workflow script (workflow.ts) under its manager    *)
(* (workflow-manager.ts), in one process: the calls the script allocates,  *)
(* the limiter in front of the agent runner, retries, checkpoints, the     *)
(* halting of a run, the cancellation of one call by the host, and the     *)
(* continuations of a paused run, which answer from the journal the calls  *)
(* that are in it.                                                         *)
(*                                                                         *)
(* A step is one synchronous piece of JavaScript; between two steps any    *)
(* other may run.  The first start and each continuation make a            *)
(* generation, with an engine of its own; the variables are those of the   *)
(* latest one.  A former generation is halted, with every call settled:    *)
(* all that is seen of it is its attempts that have not returned.          *)
(***************************************************************************)
EXTENDS Naturals, Sequences, FiniteSets

CONSTANTS MaxGens,     \* bound: the first start and MaxGens - 1 continuations
          MaxAgents,   \* options.maxAgents, which also bounds the calls
          Limit,       \* options.concurrency
          Retries,     \* options.agentRetries
          Hashes,      \* what hashAgentCall tells apart
          Ask          \* the hash of a checkpoint

ASSUME BoundsAssumption ==
    /\ MaxGens \in Nat \ {0} /\ MaxAgents \in Nat \ {0}
    /\ Limit \in Nat \ {0} /\ Retries \in Nat

None == "none"

ASSUME HashAssumption == Ask \notin Hashes /\ None \notin Hashes \cup {Ask}

Calls == 1..MaxAgents
AnyHash == Hashes \cup {Ask, None}
Outcomes == {"result", "null", "error", "limit", "cancelled", "interrupted"}

VARIABLES
    gen,         \* how many generations the run has had
    status,      \* ManagedRun.status
    pauseReason, \* "checkpoint_required" when the run waits for a decision
    script,      \* "runs", "returned" (draining), "over" for the engine, or "settled"
                 \* for the manager too
    end,         \* how the engine ended, and the calls allocated until then
    aborted,     \* signal.aborted
    pending,     \* shared.pendingCheckpoint: the call that awaits a decision
    seq,         \* state.callSeq
    hash,        \* the hash of each allocated call
    pc,          \* where the asynchronous body of each call stands
    att,         \* attemptsRan
    ans,         \* how the runner's promise of the attempt settled
    canc,        \* the cancellation of the registered attempt
    rec,         \* the outcome settled for each call (state.calls)
    active,      \* the limiter's count
    queue,       \* the limiter's queue
    old,         \* the attempts of former generations that are registered
    resume,      \* options.resumeJournal, by call index
    rows,        \* ManagedRun.calls, saved with every change
    journal,     \* ManagedRun.journal: the hash of the entry of each index
    manifest     \* how many calls were allocated when the run was saved ended

run == <<gen, status, pauseReason, resume, manifest, end>>
flow == <<script, aborted, pending>>
limiter == <<active, queue>>
body == <<pc, att, ans>>
kept == <<rec, rows, journal>>
vars == <<run, flow, seq, hash, body, canc, limiter, old, kept>>

NoRow == [hash |-> None, out |-> None]
Nowhere == [c \in Calls |-> None]
NoEnd == [code |-> None, seq |-> 0]

Init ==
    /\ gen = 1
    /\ status = "running"
    /\ pauseReason = None
    /\ script = "runs"
    /\ end = NoEnd
    /\ aborted = FALSE
    /\ pending = 0
    /\ seq = 0
    /\ hash = Nowhere
    /\ pc = Nowhere
    /\ att = [c \in Calls |-> 0]
    /\ ans = Nowhere
    /\ canc = Nowhere
    /\ rec = Nowhere
    /\ active = 0
    /\ queue = <<>>
    /\ old = {}
    /\ resume = Nowhere
    /\ rows = [c \in Calls |-> NoRow]
    /\ journal = Nowhere
    /\ manifest = 0

-----------------------------------------------------------------------------
(* Records.  settle() keeps the first outcome of a call.  The manager hears *)
(* of it only while the run is running.                                    *)

Heard == status = "running"

Settled(c, out) == [rec EXCEPT ![c] = IF @ = None THEN out ELSE @]

Recorded(c, out) ==
    IF rec[c] = None /\ Heard THEN [rows EXCEPT ![c] = [hash |-> hash[c], out |-> out]]
                              ELSE rows

\* onAgentJournal, for the call that has just settled as a result.
\* Mutant: the entry a former generation left for the index is kept.
JournaledOnce(c) ==
    IF rec[c] = None /\ Heard /\ journal[c] = None THEN [journal EXCEPT ![c] = hash[c]]
                                                  ELSE journal

Journaled(c) ==
    IF rec[c] = None /\ Heard THEN [journal EXCEPT ![c] = hash[c]] ELSE journal

\* What throwIfAborted throws on.
Halted == aborted \/ pending # 0

Unsettled == {c \in 1..seq : rec[c] = None}

\* interruptUnsettledCalls: every allocated call gets its record, and what
\* the manager hears of it: the rows, and the end events, which refuse the
\* cancellations that wait.
\* Mutant: the status is set before the abort, and the records are dropped.
InterruptedRowsLate == rows

InterruptedRows ==
    IF Heard
    THEN [c \in Calls |-> IF c \in Unsettled THEN [hash |-> hash[c], out |-> "interrupted"]
                                             ELSE rows[c]]
    ELSE rows

InterruptAll ==
    /\ rec' = [c \in Calls |-> IF c \in Unsettled THEN "interrupted" ELSE rec[c]]
    /\ canc' = [c \in Calls |->
          IF Heard /\ c \in Unsettled /\ canc[c] = "asked" THEN "refused" ELSE canc[c]]
    /\ old' = {IF Heard /\ z.call \in Unsettled /\ z.canc = "asked"
               THEN [z EXCEPT !.canc = "refused"] ELSE z : z \in old}

-----------------------------------------------------------------------------
(* The limiter.                                                            *)

\* limiter(fn), called by call c: enter, or wait for a slot.
Admit(c) ==
    IF active >= Limit
    THEN queue' = Append(queue, c) /\ pc' = [pc EXCEPT ![c] = "queued"] /\ UNCHANGED active
    ELSE active' = active + 1 /\ pc' = [pc EXCEPT ![c] = "entered"] /\ UNCHANGED queue

\* The waiter whose promise next() resolved goes on, without asking again.
Wake(c) ==
    /\ pc[c] = "woken"
    /\ active' = active + 1
    /\ pc' = [pc EXCEPT ![c] = "entered"]
    /\ UNCHANGED <<run, flow, seq, hash, att, ans, canc, queue, old, kept>>

\* The waiters left after next() has taken its head, and the calls it woke.
\* Mutant: next() peeks at the queue.
WaitersPeeked == queue

Waiters == IF queue = <<>> THEN <<>> ELSE Tail(queue)
\* Mutant: nobody is woken once the run has halted.
WokenUnlessHalted == IF queue = <<>> \/ Halted THEN {} ELSE {Head(queue)}

Woken == IF queue = <<>> THEN {} ELSE {Head(queue)}

\* next(), in the finally of the limiter.
Leave(c) ==
    /\ pc[c] = "leaving"
    /\ active' = active - 1
    /\ queue' = Waiters
    /\ pc' = [d \in Calls |->
                IF d = c THEN "done" ELSE IF d \in Woken THEN "woken" ELSE pc[d]]
    /\ UNCHANGED <<run, flow, seq, hash, att, ans, canc, old, kept>>

-----------------------------------------------------------------------------
(* agent()                                                                 *)

\* The journal answers any index on a continuation; on the first start there
\* is none.
\* Mutant: only the prefix without a miss is answered from the journal.
CachedPrefix(c, h) == resume[c] = h /\ \A d \in 1..(c - 1) : resume[d] = hash[d]

Cached(c, h) == resume[c] = h

\* agentImplementation up to runManualAgent.  A branch of the script that
\* nobody awaits may still call it when the run has ended.
Agent(h) ==
    LET c == seq + 1 IN
    /\ c <= MaxAgents /\ ~Halted
    /\ seq' = c
    /\ hash' = [hash EXCEPT ![c] = h]
    /\ IF Cached(c, h)
       THEN pc' = [pc EXCEPT ![c] = "replaying"] /\ UNCHANGED limiter
       ELSE Admit(c)
    /\ UNCHANGED <<run, flow, att, ans, canc, old, kept>>

\* replayPreparedAgent, after its await.  When it throws, its call is settled
\* by nobody before the run halts.
ReplayLands(c) ==
    /\ pc[c] = "replaying"
    /\ pc' = [pc EXCEPT ![c] = "done"]
    /\ IF Halted
       THEN UNCHANGED <<rec, rows>>
       ELSE rec' = Settled(c, "result") /\ rows' = Recorded(c, "result")
    /\ UNCHANGED <<run, flow, seq, hash, att, ans, canc, limiter, old, journal>>

\* What becomes of a cancellation that waits when the end event of call c
\* arrives: the acknowledgement needs the run to be saved.
\* Mutant: any end of the call acknowledges the cancellation.
AnsweredByEnd(out, saved) == IF saved THEN "acked" ELSE "refused"

Answered(out, saved) == IF out = "cancelled" /\ saved THEN "acked" ELSE "refused"

\* The call ends with outcome out: settle, the end event when this outcome is
\* its first, and the attempt is unregistered, which refuses a cancellation
\* that still waits.  The event answers every attempt of that index, those of
\* former generations too.
Conclude(c, out) ==
    /\ pc' = [pc EXCEPT ![c] = "leaving"]
    /\ att' = [att EXCEPT ![c] = 0]
    /\ ans' = [ans EXCEPT ![c] = None]
    /\ rec' = Settled(c, out)
    /\ rows' = Recorded(c, out)
    /\ \E saved \in BOOLEAN :
        LET new == IF rec[c] = None /\ Heard THEN Answered(out, saved) ELSE "refused" IN
        /\ canc' = [canc EXCEPT ![c] = IF @ = "asked" THEN new ELSE @]
        /\ old' = {IF rec[c] = None /\ Heard /\ z.call = c /\ z.canc = "asked"
                   THEN [z EXCEPT !.canc = new] ELSE z : z \in old}

\* The worktree is there and the first attempt starts, unless the run halted.
Begin(c) ==
    /\ pc[c] = "entered"
    /\ IF Halted
       THEN Conclude(c, "error")
       ELSE /\ pc' = [pc EXCEPT ![c] = "running"]
            /\ att' = [att EXCEPT ![c] = 1]
            /\ UNCHANGED <<ans, canc, old, rec, rows>>
    /\ UNCHANGED <<run, flow, seq, hash, limiter, journal>>

\* The runner's promise settles: a text, a recoverable failure (an empty
\* answer is one), a fatal failure, or one that pauses the run.
RunnerAnswers(c) ==
    /\ pc[c] = "running"
    /\ pc' = [pc EXCEPT ![c] = "answered"]
    /\ \E a \in {"text", "flaky", "fatal", "limit"} : ans' = [ans EXCEPT ![c] = a]
    /\ UNCHANGED <<run, flow, seq, hash, att, canc, limiter, old, kept>>

CancelledByHost(c) == canc[c] # None

Succeeds(c) == ans[c] = "text" /\ ~Halted

\* The attempt failed in a way that lets another one follow.
RetryAllowed(c) == ans[c] = "flaky" /\ att[c] <= Retries

\* The outcome of an attempt that did not succeed and is not repeated.
FailureOf(c) ==
    IF CancelledByHost(c) THEN "cancelled"
    ELSE IF aborted THEN "error"
    ELSE IF ans[c] = "flaky" /\ ~RetryAllowed(c) THEN "null"
    ELSE IF ans[c] = "limit" THEN "limit"
    ELSE "error"

AttemptSucceeds(c) ==
    /\ pc[c] = "answered" /\ Succeeds(c)
    /\ Conclude(c, "result")
    /\ journal' = Journaled(c)
    /\ UNCHANGED <<run, flow, seq, hash, limiter>>

AttemptRetried(c) ==
    /\ pc[c] = "answered" /\ RetryAllowed(c)
    /\ ~CancelledByHost(c) /\ ~Halted
    /\ pc' = [pc EXCEPT ![c] = "running"]
    /\ att' = [att EXCEPT ![c] = @ + 1]
    /\ ans' = [ans EXCEPT ![c] = None]
    /\ UNCHANGED <<run, flow, seq, hash, canc, limiter, old, kept>>

AttemptFails(c) ==
    /\ pc[c] = "answered" /\ ~Succeeds(c)
    /\ RetryAllowed(c) => CancelledByHost(c) \/ Halted
    /\ Conclude(c, FailureOf(c))
    /\ UNCHANGED <<run, flow, seq, hash, limiter, journal>>

\* An attempt of a former generation returns: its call is settled and nobody
\* listens, so it is only unregistered.
OldReturns(z) ==
    /\ z \in old
    /\ old' = old \ {z}
    /\ UNCHANGED <<run, flow, seq, hash, body, canc, limiter, kept>>

-----------------------------------------------------------------------------
(* cancelAgentCall: the one registered attempt of that index, whichever    *)
(* generation it belongs to.                                               *)

InFlight(c) == pc[c] \in {"running", "answered"}
OldOf(c) == {z \in old : z.call = c}

CancelAgentCall(c) ==
    /\ Heard /\ InFlight(c) /\ OldOf(c) = {}
    /\ canc[c] = None
    /\ canc' = [canc EXCEPT ![c] = "asked"]
    /\ ans' = [ans EXCEPT ![c] = IF pc[c] = "running" THEN "cancelled" ELSE @]
    /\ pc' = [pc EXCEPT ![c] = "answered"]
    /\ UNCHANGED <<run, flow, seq, hash, att, limiter, old, kept>>

CancelOld(z) ==
    /\ Heard /\ z \in old /\ ~InFlight(z.call) /\ OldOf(z.call) = {z}
    /\ z.canc = None
    /\ old' = (old \ {z}) \cup {[z EXCEPT !.canc = "asked"]}
    /\ UNCHANGED <<run, flow, seq, hash, body, canc, limiter, kept>>

-----------------------------------------------------------------------------
(* checkpoint(), with a confirm callback                                   *)

Checkpoint ==
    LET c == seq + 1 IN
    /\ c <= MaxAgents /\ ~Halted
    /\ seq' = c
    /\ hash' = [hash EXCEPT ![c] = Ask]
    /\ IF Cached(c, Ask)
       THEN /\ pc' = [pc EXCEPT ![c] = "done"]
            /\ rec' = [rec EXCEPT ![c] = "result"]
            /\ rows' = IF Heard THEN [rows EXCEPT ![c] = [hash |-> Ask, out |-> "result"]]
                                ELSE rows
       ELSE pc' = [pc EXCEPT ![c] = "asking"] /\ UNCHANGED <<rec, rows>>
    /\ UNCHANGED <<run, flow, att, ans, canc, limiter, old, journal>>

\* The human's answer, unless the run has halted meanwhile.
Decided(c) ==
    /\ pc[c] = "asking"
    /\ pc' = [pc EXCEPT ![c] = "done"]
    /\ LET out == IF Halted THEN "error" ELSE "result" IN
       /\ rec' = Settled(c, out)
       /\ rows' = Recorded(c, out)
       /\ journal' = IF Halted THEN journal ELSE Journaled(c)
    /\ UNCHANGED <<run, flow, seq, hash, att, ans, canc, limiter, old>>

\* No answer: a timeout, or no one to ask.  The first such checkpoint is the
\* one the run waits for.
Undecided(c) ==
    /\ pc[c] = "asking"
    /\ pc' = [pc EXCEPT ![c] = "done"]
    /\ pending' = IF Halted THEN pending ELSE c
    /\ rec' = Settled(c, "error")
    /\ rows' = Recorded(c, "error")
    /\ UNCHANGED <<run, script, aborted, seq, hash, att, ans, canc, limiter, old, journal>>

-----------------------------------------------------------------------------
(* The end of the script, and of the run                                   *)

ScriptReturns ==
    /\ script = "runs"
    /\ script' = "returned"
    /\ UNCHANGED <<run, aborted, pending, seq, hash, body, canc, limiter, old, kept>>

\* The finally of runWorkflow: what is unsettled is interrupted.
EngineEnds(code) ==
    /\ script' = "over"
    /\ end' = [code |-> code, seq |-> seq]
    /\ InterruptAll
    /\ rows' = InterruptedRows
    /\ UNCHANGED <<gen, status, pauseReason, resume, manifest, pending, seq, hash,
                   body, limiter, journal>>

\* The rejections were drained and no checkpoint waits: nothing is aborted.
EngineCompletes ==
    /\ script = "returned" /\ pending = 0
    /\ EngineEnds("completed")
    /\ UNCHANGED aborted

Errors == {"error", "limit", "checkpoint_required"}

\* The codes the script can reject with: its own error, the one of a call
\* that pauses the run, and that of the checkpoint that waits, which also
\* replaces what the script returned.
Codes ==
    {code \in Errors :
        CASE code = "error" -> script = "runs"
          [] code = "limit" -> script = "runs" /\ \E c \in Calls : rec[c] = "limit"
          [] OTHER -> script \in {"runs", "returned"} /\ pending # 0}

\* faults.abort() halts the run only when something is left unsettled.
EngineFails(code) ==
    /\ code \in Codes
    /\ EngineEnds(code)
    /\ aborted' = (aborted \/ Unsettled # {})

\* executeRun goes on some microtasks later; a branch nobody awaits may still
\* allocate calls in between.  On completion the records the engine returned
\* replace the rows, whatever the status was.
EngineRows ==
    [c \in Calls |-> IF c > end.seq THEN NoRow ELSE [hash |-> hash[c], out |-> rec[c]]]

ManagerCompletes ==
    /\ script = "over" /\ end.code = "completed"
    /\ script' = "settled"
    /\ rows' = EngineRows
    /\ status' = "completed"
    /\ manifest' = end.seq
    /\ UNCHANGED <<gen, pauseReason, resume, end, aborted, pending, seq, hash, body,
                   canc, limiter, old, rec, journal>>

\* The status a failed execution leaves: what pause or stop has set stays.
EndStatus(code) ==
    IF ~Heard THEN status ELSE IF code = "error" THEN "failed" ELSE "paused"

\* The catch of executeRun saves every call the manager heard was allocated.
ManagerFails ==
    /\ script = "over" /\ end.code \in Errors
    /\ script' = "settled"
    /\ status' = EndStatus(end.code)
    /\ pauseReason' = IF Heard /\ end.code = "checkpoint_required" THEN end.code ELSE pauseReason
    /\ manifest' = IF Heard THEN seq ELSE manifest
    /\ UNCHANGED <<gen, resume, end, aborted, pending, seq, hash, body, canc, limiter,
                   old, kept>>

\* pause and stop.  The abort comes before the status, so its records are
\* heard.
Halt(new) ==
    /\ status = "running" \/ (new = "aborted" /\ status = "paused")
    /\ aborted' = TRUE
    /\ status' = new
    /\ InterruptAll
    /\ rows' = InterruptedRows
    /\ manifest' = IF Heard THEN seq ELSE manifest
    /\ UNCHANGED <<gen, pauseReason, resume, end, script, pending, seq, hash, body,
                   limiter, journal>>

\* The attempts this generation leaves behind.
LeftBehind == {[gen |-> gen, call |-> c, canc |-> canc[c]] : c \in {d \in Calls : InFlight(d)}}

\* The journal a continuation starts from: with the reply to the checkpoint
\* the run waits for, there is an entry for it.
ReplyEntry(reply) == IF reply THEN [journal EXCEPT ![pending] = Ask] ELSE journal

\* continueRunInternal.
Continue(reply) ==
    /\ status = "paused" /\ gen < MaxGens
    /\ reply => pauseReason = "checkpoint_required"
    /\ gen' = gen + 1
    /\ status' = "running"
    /\ script' = "runs"
    /\ end' = NoEnd
    /\ aborted' = FALSE
    /\ pending' = 0
    /\ pauseReason' = None
    /\ seq' = 0
    /\ hash' = Nowhere /\ pc' = Nowhere /\ ans' = Nowhere /\ canc' = Nowhere
    /\ rec' = Nowhere /\ att' = [c \in Calls |-> 0]
    /\ active' = 0 /\ queue' = <<>>
    /\ old' = old \cup LeftBehind
    /\ journal' = ReplyEntry(reply)
    /\ resume' = ReplyEntry(reply)
    /\ rows' = IF reply THEN [rows EXCEPT ![pending] = [hash |-> Ask, out |-> "result"]]
                        ELSE rows
    /\ UNCHANGED manifest

-----------------------------------------------------------------------------
\* The continuation of a promise that is resolved.
Runs(c) ==
    \/ Wake(c) \/ Leave(c) \/ ReplayLands(c) \/ Begin(c)
    \/ AttemptSucceeds(c) \/ AttemptRetried(c) \/ AttemptFails(c)

Next ==
    \/ \E h \in Hashes : Agent(h)
    \/ Checkpoint
    \/ ScriptReturns
    \/ EngineCompletes
    \/ \E code \in Errors : EngineFails(code)
    \/ ManagerCompletes
    \/ ManagerFails
    \/ \E c \in Calls :
        \/ Runs(c)
        \/ RunnerAnswers(c)
        \/ Decided(c)
        \/ Undecided(c)
        \/ CancelAgentCall(c)
    \/ \E z \in old : OldReturns(z) \/ CancelOld(z)
    \/ \E new \in {"paused", "aborted"} : Halt(new)
    \/ \E reply \in BOOLEAN : Continue(reply)

Spec == Init /\ [][Next]_vars

\* What is resolved runs, and the runner settles every prompt it was given.
\* Scripts, humans and hosts owe nothing.
Fairness == \A c \in Calls : WF_vars(Runs(c)) /\ WF_vars(RunnerAnswers(c))

FairSpec == Spec /\ Fairness
-----------------------------------------------------------------------------
TypeOK ==
    /\ gen \in 1..MaxGens
    /\ status \in {"running", "paused", "completed", "failed", "aborted"}
    /\ pauseReason \in {None, "checkpoint_required"}
    /\ script \in {"runs", "returned", "over", "settled"}
    /\ end \in [code : Errors \cup {"completed", None}, seq : 0..MaxAgents]
    /\ aborted \in BOOLEAN
    /\ pending \in 0..MaxAgents
    /\ seq \in 0..MaxAgents
    /\ hash \in [Calls -> AnyHash]
    /\ pc \in [Calls -> {None, "replaying", "queued", "woken", "entered",
                         "running", "answered", "leaving", "asking", "done"}]
    /\ att \in [Calls -> 0..(Retries + 1)]
    /\ ans \in [Calls -> {None, "text", "flaky", "fatal", "limit", "cancelled"}]
    /\ canc \in [Calls -> {None, "asked", "acked", "refused"}]
    /\ rec \in [Calls -> Outcomes \cup {None}]
    /\ active \in Nat
    /\ queue \in Seq(Calls)
    /\ old \subseteq [gen : 1..MaxGens, call : Calls,
                      canc : {None, "asked", "acked", "refused"}]
    /\ resume \in [Calls -> AnyHash]
    /\ rows \in [Calls -> [hash : AnyHash, out : Outcomes \cup {None}]]
    /\ journal \in [Calls -> AnyHash]
    /\ manifest \in 0..MaxAgents

\* However a run ended, every call that was allocated has a row in what was
\* saved: what is unsettled is recorded while the manager still listens.  The
\* exception is a call that a branch nobody awaits allocates between the end
\* of an engine that failed with nothing unsettled and the manager's catch;
\* after a checkpoint's pause, a halt or a completion there is none.  Resume
\* and continuation read the rows as a dense manifest (workflow.ts,
\* interruptUnsettledCalls; workflow-manager.ts, pause, stop, executeRun).
DenseManifest ==
    status # "running" =>
        \A c \in 1..manifest :
            \/ rows[c].out # None
            \/ end.code \in {"error", "limit"} /\ c > end.seq

\* A row that says a call has a result comes with the journal entry of that
\* very call, so that a continuation finds every result the rows promise,
\* also when the script took another way than a former generation.
ResultsJournaled ==
    \A c \in Calls : rows[c].out = "result" => journal[c] = rows[c].hash

\* A host that was told its cancellation won sees that call settled as
\* cancelled, in the engine and in the rows, and no attempt of it goes on; for
\* an attempt of a former generation, the call its run has at that index now.
\* A completed run keeps no row of a call allocated after its engine ended
\* (registerAgentAttempt, completeAgentCancellation, cancelAgentCall).
CancelTruthful ==
    [][/\ \A c \in Calls : canc'[c] = "acked" =>
             /\ rec'[c] = "cancelled" /\ ~InFlight(c)'
             /\ rows'[c].out = "cancelled" \/ (status' = "completed" /\ c > end'.seq)
       /\ \A z \in old' \ old : z.canc = "acked" => rec'[z.call] = "cancelled"]_vars

\* Somebody waits for the limiter only when its slots are in use or handed to
\* a waiter that has not run yet: no wake-up is lost, whatever the order in
\* which calls end, are woken and arrive (createLimiter).
NoIdleSlot ==
    queue # <<>> => active + Cardinality({c \in Calls : pc[c] = "woken"}) >= Limit

\* The limit the documentation promises.  It does not hold: a call that
\* arrives between next() and the waiter it woke takes the slot as well.
WithinLimit == Cardinality({c \in Calls : InFlight(c)}) <= Limit

\* No attempt starts for a call whose result the journal holds: work that was
\* saved before a pause is not done again by the continuation.
NoRework == [][\A c \in Calls : att'[c] > att[c] => journal[c] # hash[c]]_vars

\* A call that waits for the limiter gets out of it, when runners answer:
\* also when the run halts or completes while it waits.
QueueDrains == \A c \in Calls : pc[c] = "queued" ~> pc[c] # "queued"
=============================================================================
