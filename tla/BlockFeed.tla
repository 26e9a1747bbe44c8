------------------------------ MODULE BlockFeed ------------------------------
(***************************************************************************)
(* What the indexer of indexer/indexer.go promises to those who read its   *)
(* database and listen to its broker: the database grows from the first    *)
(* block on without a hole and never shrinks; a block is announced at most *)
(* once for every time it is stored, right after that; and unless the      *)
(* indexer is told to re-index, it stores no block again.  An announcement *)
(* may be missing: publish() is best effort and the process may be killed. *)
(***************************************************************************)
EXTENDS Integers, Sequences

VARIABLES first,    \* the first height to store
          reindex,  \* blocks may be stored again
          db,       \* the heights that are stored
          fresh,    \* the block that was stored last and may be announced
          published \* the heights that were announced, in order

vars == <<first, reindex, db, fresh, published>>

Init == /\ first \in Nat /\ reindex \in BOOLEAN
        /\ db \subseteq Nat
        /\ \A h \in db : h >= first => first .. h \subseteq db
        /\ fresh = {} /\ published = <<>>

Store(h) == /\ h >= first /\ first .. h - 1 \subseteq db
            /\ reindex \/ \A g \in db : g < h
            /\ db' = db \cup {h}
            /\ fresh' \in {{}, {h}}
            /\ UNCHANGED <<first, reindex, published>>

Announce(h) == /\ h \in fresh
               /\ published' = Append(published, h)
               /\ fresh' = {}
               /\ UNCHANGED <<first, reindex, db>>

Forget == /\ fresh' = {}
          /\ UNCHANGED <<first, reindex, db, published>>

Next == (\E h \in db' : Store(h)) \/ (\E h \in fresh : Announce(h)) \/ Forget

Spec == Init /\ [][Next]_vars
=============================================================================
