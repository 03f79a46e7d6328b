---------------------------- MODULE AtomicUpsert ----------------------------
(***************************************************************************)
(* What a caller of JsonlFinancialDataStore is promised: an upsert takes   *)
(* effect at one instant between its call and its answer, on the dataset   *)
(* as it is at that instant; an upsert that was answered with a            *)
(* StoreResult has taken effect; one that raised, or whose process was     *)
(* killed, has taken effect completely or not at all.                      *)
(***************************************************************************)
EXTENDS FinancialRecords

CONSTANT Writers

VARIABLES
    store,      \* the dataset
    phase,      \* [Writers -> Phases]
    request     \* [Writers -> Batches], the batch of the call in progress

absVars == <<store, phase, request>>

Phases == {"idle", "pending", "committed", "acknowledged", "failed"}

\* A warehouse may already hold data when the first process starts.
AbsInit ==
    /\ store \in Dataset
    /\ phase = [w \in Writers |-> "idle"]
    /\ request = [w \in Writers |-> <<>>]

Submit(w) ==
    /\ phase[w] = "idle"
    /\ phase' = [phase EXCEPT ![w] = "pending"]
    /\ \E b \in Batches : request' = [request EXCEPT ![w] = b]
    /\ UNCHANGED store

Commit(w) ==
    /\ phase[w] = "pending"
    /\ ~Conflicting(request[w])
    /\ store' = Merged(store, Collapsed(request[w]))
    /\ phase' = [phase EXCEPT ![w] = "committed"]
    /\ UNCHANGED request

Acknowledge(w) ==
    /\ phase[w] = "committed"
    /\ phase' = [phase EXCEPT ![w] = "acknowledged"]
    /\ UNCHANGED <<store, request>>

Fail(w) ==
    /\ phase[w] \in {"pending", "committed"}
    /\ phase' = [phase EXCEPT ![w] = "failed"]
    /\ UNCHANGED <<store, request>>

\* The caller takes the answer, or its process dies at any point.
Forget(w) ==
    /\ phase[w] # "idle"
    /\ phase' = [phase EXCEPT ![w] = "idle"]
    /\ request' = [request EXCEPT ![w] = <<>>]
    /\ UNCHANGED store

AbsNext ==
    \E w \in Writers :
        Submit(w) \/ Commit(w) \/ Acknowledge(w) \/ Fail(w) \/ Forget(w)

AbsSpec == AbsInit /\ [][AbsNext]_absVars
=============================================================================
