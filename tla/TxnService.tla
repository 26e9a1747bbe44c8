----------------------------- MODULE TxnService -----------------------------
(***************************************************************************)
(* What the transaction processor of account/txnProcessor.go promises to   *)
(* the handler of eth_sendRawTransaction: every accepted request gets one  *)
(* final answer, and "success" is answered only for a transaction that was *)
(* executed on chain.  A failed request may still land (its last attempt   *)
(* may have been lost on the way), so failure promises nothing.            *)
(***************************************************************************)
CONSTANT Reqs

VARIABLES phase,     \* phase[r]: has r been accepted, answered
          outcome,   \* outcome[r]: the final answer, "none" until then
          landed     \* the requests whose transaction was executed

vars == <<phase, outcome, landed>>

Init == /\ phase = [r \in Reqs |-> "idle"]
        /\ outcome = [r \in Reqs |-> "none"]
        /\ landed = {}

Accept(r) == /\ phase[r] = "idle"
             /\ phase' = [phase EXCEPT ![r] = "pending"]
             /\ UNCHANGED <<outcome, landed>>

Land(r) == /\ phase[r] # "idle"
           /\ r \notin landed
           /\ landed' = landed \cup {r}
           /\ UNCHANGED <<phase, outcome>>

Answer(r) == /\ phase[r] = "pending"
             /\ phase' = [phase EXCEPT ![r] = "done"]
             /\ \E o \in {"success", "failure"} :
                   /\ o = "success" => r \in landed
                   /\ outcome' = [outcome EXCEPT ![r] = o]
             /\ UNCHANGED landed

Next == \E r \in Reqs : Accept(r) \/ Land(r) \/ Answer(r)

SafeSpec == Init /\ [][Next]_vars

Spec == SafeSpec /\ \A r \in Reqs : WF_vars(Answer(r))
=============================================================================
