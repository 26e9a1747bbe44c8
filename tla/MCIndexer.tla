------------------------------ MODULE MCIndexer ------------------------------
(* Instances of Indexer for TLC. *)
EXTENDS Indexer

Cfg(keep, force, b, from, to) ==
  [keepFiles |-> keep, forceReindex |-> force, broker |-> b,
   fromBlock |-> from, toBlock |-> to]

\* The default, kept files, a range, and re-indexing with and without a range.
AllConfigs == {Cfg(FALSE, FALSE, TRUE, 0, 0),
               Cfg(TRUE, FALSE, TRUE, 2, 0),
               Cfg(FALSE, FALSE, FALSE, 0, 3),
               Cfg(TRUE, TRUE, FALSE, 1, 2),
               Cfg(FALSE, TRUE, TRUE, 0, 2)}

\* Empty, pre-history alone, and blocks after the genesis block.
AllDbs == {{}, {0}, {1, 2}}

RangeConfigs == {Cfg(FALSE, FALSE, FALSE, 0, 2)}
PrehistoryDbs == {{0}}
==============================================================================
