----------------------------- MODULE RunRecord -----------------------------
(***************************************************************************)
(* What the run store promises about one run id, whichever process writes  *)
(* it: the durable status, the continuation generation, the journal of     *)
(* results and human decisions, and the receipts of accepted continuation  *)
(* operations.  Receipts are first-writer-wins; a journal entry is         *)
(* replaced only by a generation that records its call for the first time; *)
(* a completed or aborted run only ever disappears; only a continuation    *)
(* moves a paused or failed run back to running, one generation later.     *)
(***************************************************************************)
EXTENDS Naturals

CONSTANTS Calls, Values, NoValue, Ops

VARIABLES
  st, gen, journal, receipts,
  fresh    \* the calls that this generation has recorded

vars == <<st, gen, journal, fresh, receipts>>

Statuses == {"running", "paused", "failed", "completed", "aborted"}
Journals == [Calls -> Values \cup {NoValue}]

BlankJournal  == [c \in Calls |-> NoValue]
BlankReceipts == [o \in Ops |-> 0]

(* No entry is lost, and only those of the calls in new change. *)
Keeps(j, k, new) ==
  \A c \in Calls : j[c] # NoValue => k[c] # NoValue /\ (k[c] = j[c] \/ c \in new)

Init ==
  /\ st = "absent"
  /\ gen = 0
  /\ journal = BlankJournal /\ fresh = {}
  /\ receipts = BlankReceipts

Create ==
  /\ st = "absent"
  /\ st' \in Statuses
  /\ journal' \in Journals /\ fresh' \in SUBSET Calls
  /\ UNCHANGED <<gen, receipts>>

(* The owner of a running execution records results and settles it; a      *)
(* recovering process turns a dead owner's run into a paused one.          *)
Advance ==
  /\ st = "running"
  /\ st' \in Statuses
  /\ journal' \in Journals /\ fresh' \in SUBSET Calls
  /\ fresh \subseteq fresh' /\ Keeps(journal, journal', fresh' \ fresh)
  /\ UNCHANGED <<gen, receipts>>

Stop ==
  /\ st = "paused"
  /\ st' = "aborted"
  /\ UNCHANGED <<gen, journal, fresh, receipts>>

Continue ==
  /\ st \in {"running", "paused", "failed"}
  /\ st' = "running"
  /\ gen' = gen + 1
  /\ journal' \in Journals /\ fresh' = {}
  /\ Keeps(journal, journal', {})
  /\ \/ receipts' = receipts
     \/ \E o \in Ops : receipts[o] = 0 /\ receipts' = [receipts EXCEPT ![o] = gen + 1]

Remove ==
  /\ st # "absent"
  /\ st' = "absent"
  /\ gen' = 0
  /\ journal' = BlankJournal /\ fresh' = {}
  /\ receipts' = BlankReceipts

Next == Create \/ Advance \/ Stop \/ Continue \/ Remove

Spec == Init /\ [][Next]_vars
=============================================================================
