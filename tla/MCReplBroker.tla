---------------------------- MODULE MCReplBroker ----------------------------
(* Two founding calls; a queued turn and two steers of the first session.  *)
EXTENDS ReplBroker, TLC

MCSession == [c \in Queues \cup Steers |-> CHOOSE a \in Agents : TRUE]

\* The two steers are of one session.
SteersAlike == Permutations(Steers)

\* Bound: three calls and one of: a crash, a drain, a failed write, a call minted
\* again; or two calls and two of these.
Effort ==
    Cardinality({c \in Calls : w.led[c].rec}) + Cardinality(w.reused) + crashes + drains
        + (IF w.unsaved = {} THEN 0 ELSE 1) <= 4
=============================================================================
