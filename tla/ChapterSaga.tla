----------------------------- MODULE ChapterSaga -----------------------------
(***************************************************************************)
(* What the commit of a chapter promises, whatever steps carry it out: a   *)
(* transaction over the graph store, the vector store and the chapters     *)
(* table whose effects are never taken back, that may fail and be taken up *)
(* again, and that is committed only when all three stores have it.        *)
(* ChapterCommit is shown to implement it.                                 *)
(***************************************************************************)
CONSTANT Commits  \* the transactions

Stores == {"graph", "vector", "chapter"}

VARIABLES
    outcome,   \* transaction -> none, open, failed or committed
    applied    \* transaction -> the stores that have it in full

sagaVars == <<outcome, applied>>

SagaInit ==
    /\ outcome = [t \in Commits |-> "none"]
    /\ applied = [t \in Commits |-> {}]

Open(t) ==
    /\ outcome[t] \in {"none", "failed"}
    /\ outcome' = [outcome EXCEPT ![t] = "open"]
    /\ UNCHANGED applied

Apply(t, store) ==
    /\ outcome[t] \in {"open", "failed"}
    /\ applied' = [applied EXCEPT ![t] = @ \cup {store}]
    /\ UNCHANGED outcome

Commit(t) ==
    /\ outcome[t] \in {"open", "failed"}
    /\ applied[t] = Stores
    /\ outcome' = [outcome EXCEPT ![t] = "committed"]
    /\ UNCHANGED applied

Fail(t) ==
    /\ outcome[t] = "open"
    /\ outcome' = [outcome EXCEPT ![t] = "failed"]
    /\ UNCHANGED applied

SagaNext ==
    \E t \in Commits :
        \/ Open(t)
        \/ \E store \in Stores : Apply(t, store)
        \/ Commit(t)
        \/ Fail(t)

SagaSpec == SagaInit /\ [][SagaNext]_sagaVars
=============================================================================
