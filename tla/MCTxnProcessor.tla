--------------------------- MODULE MCTxnProcessor ---------------------------
(***************************************************************************)
(* Small instances of TxnProcessor.  NonceOf and the mappings give the     *)
(* interesting order: consecutive nonces of one sender, submitted in any   *)
(* order, and a second sender on the same or on another key.               *)
(***************************************************************************)
EXTENDS TxnProcessor, TLC

CONSTANTS alice, bob, tx0, tx1, txB, key1, key2

\* tx0 and tx1 are alice's consecutive transactions, txB is bob's.
MCSenderOf == [r \in Reqs |-> IF r = txB THEN bob ELSE alice]
MCNonceOf  == [r \in Reqs |-> IF r = tx1 THEN 1 ELSE 0]

OneKey  == [s \in Senders |-> key1]
TwoKeys == [s \in Senders |-> IF s = bob THEN key2 ELSE key1]

\* Another relayer may consume alice's first nonce: tx0 has a rival, tx1 none.
Tx0Rival == {<<alice, 0>>}
=============================================================================
