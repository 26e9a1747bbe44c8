------------------------------- MODULE Indexer -------------------------------
(***************************************************************************)
(* The block indexer of indexer/indexer.go: a goroutine that steps through *)
(* the states read, insert, publish, removeFile, removeFolder, increment   *)
(* and stop for one block height after the other.  It consumes the files   *)
(* an external refiner writes, inserts the blocks into the database and    *)
(* publishes them.  Close() runs stop() from another goroutine.            *)
(*                                                                         *)
(* The process may crash between any two steps; files, folders and the     *)
(* database survive, everything else is rebuilt by New().  A block's       *)
(* content is abstracted to its height.                                    *)
(***************************************************************************)
EXTENDS Integers, Sequences, FiniteSets

CONSTANTS
  Configs,     \* the configurations a run may be started with
  InitialDbs,  \* the database contents a run may start from, sets of heights
  Genesis,     \* GenesisBlock
  BatchSize,   \* SubFolderBatchSize
  RetryMax,    \* RetryCountOnFailure
  MaxHeight,   \* bound: the refiner writes the heights 0 .. MaxHeight
  MaxCrashes,  \* bound: how often the process may be killed
  Failing,     \* the operations that may fail
  NoBlock      \* i.s.block = nil

Operations == {"readFile", "insertBlock", "getBlock", "removeFile", "removeFolder",
               "blockNumber"}

ASSUME ConfigsAssumption ==
  Configs \subseteq [keepFiles : BOOLEAN, forceReindex : BOOLEAN, broker : BOOLEAN,
                     fromBlock : Nat, toBlock : Nat]
ASSUME BoundsAssumption ==
  /\ Genesis \in Nat /\ BatchSize \in Nat \ {0} /\ RetryMax \in Nat
  /\ MaxHeight \in Nat /\ MaxCrashes \in Nat
ASSUME FailingAssumption == Failing \subseteq Operations
ASSUME NoBlockAssumption == NoBlock \notin Nat

\* The first height a configuration is to index.
First(c) == IF c.fromBlock < Genesis THEN Genesis ELSE c.fromBlock

\* Databases hold the blocks before the genesis block (pre-history), or every
\* block from the first height on.
ASSUME DbsAssumption ==
  /\ InitialDbs \subseteq SUBSET Nat
  /\ \A d \in InitialDbs, c \in Configs : \A h \in d :
       h >= First(c) => First(c) .. h \subseteq d

VARIABLES
  config,      \* the configuration, the same after every restart
  pc,          \* the state the goroutine runs next, or what became of it
  currBlock,   \* i.s.currBlock
  toBlock,     \* i.c.ToBlock, which increment() may reset
  retryCount,  \* i.s.retryCount
  block,       \* i.s.block
  started,     \* i.s.started
  stopClosed,  \* stopCh is closed
  closing,     \* main has called Close(), which it does once
  full,        \* heights whose file is complete
  partial,     \* heights whose file is being written
  folders,     \* the sub-block folders that exist
  written,     \* how many heights the refiner has begun, in order
  db,          \* the heights in the database
  published,   \* the heights sent to the broker, in order
  crashes      \* how often the process was killed

goVars   == <<currBlock, toBlock, retryCount, block>>
stopVars == <<started, stopClosed, closing>>
diskVars == <<full, partial, folders, written>>
outVars  == <<db, published>>
vars == <<config, pc, goVars, stopVars, diskVars, outVars, crashes>>

Folder(h) == (h \div BatchSize) * BatchSize

\* db.Handler.BlockNumber: the latest block, none (nil) of an empty database.
Latest == {h \in db : \A g \in db : g <= h}

Later(x) == IF config.fromBlock < x THEN x ELSE config.fromBlock

\* Mutants of StartBlocks: New() skips a block, resumes with the block it has,
\* or does not look at the database.
StartBlocksLate ==
  IF config.forceReindex \/ db = {} THEN {Later(Genesis)}
  ELSE {Later(IF l >= Genesis THEN l + 2 ELSE Genesis) : l \in Latest}

StartBlocksAgain ==
  IF config.forceReindex \/ db = {} THEN {Later(Genesis)}
  ELSE {Later(IF l >= Genesis THEN l ELSE Genesis) : l \in Latest}

StartBlocksFixed == {Later(Genesis)}

\* Where New() starts: after the latest block, unless that is pre-history.
StartBlocks ==
  IF config.forceReindex \/ db = {} THEN {Later(Genesis)}
  ELSE {Later(IF l >= Genesis THEN l + 1 ELSE Genesis) : l \in Latest}

Init == /\ config \in Configs
        /\ db \in InitialDbs
        /\ pc = "down"
        /\ currBlock = 0 /\ toBlock = 0 /\ retryCount = 0 /\ block = NoBlock
        /\ started = FALSE /\ stopClosed = FALSE /\ closing = FALSE
        /\ full = {} /\ partial = {} /\ folders = {} /\ written = 0
        /\ published = <<>> /\ crashes = 0

-----------------------------------------------------------------------------
(* New() and Start(), and the end of the process.                          *)

Start == /\ pc = "down"
         /\ currBlock' \in StartBlocks
         /\ toBlock' = config.toBlock
         /\ retryCount' = 0 /\ block' = NoBlock
         /\ stopClosed' = FALSE /\ closing' = FALSE
         /\ IF toBlock' > 0 /\ toBlock' <= currBlock'
            THEN pc' = "refused" /\ started' = FALSE
            ELSE pc' = "read" /\ started' = TRUE
         /\ UNCHANGED <<config, diskVars, outVars, crashes>>

\* The process is killed, by a crash or for a restart.
Crash == /\ pc # "down"
         /\ crashes < MaxCrashes
         /\ crashes' = crashes + 1
         /\ pc' = "down"
         /\ UNCHANGED <<config, goVars, stopVars, diskVars, outVars>>

-----------------------------------------------------------------------------
(* The refiner writes one file after the other.                            *)

RefinerBegin == /\ written <= MaxHeight
                /\ partial = {}
                /\ partial' = {written}
                /\ folders' = folders \cup {Folder(written)}
                /\ written' = written + 1
                /\ UNCHANGED <<config, pc, goVars, stopVars, full, outVars, crashes>>

RefinerEnd == \E h \in partial :
  /\ partial' = partial \ {h}
  /\ full' = full \cup {h}
  /\ UNCHANGED <<config, pc, goVars, stopVars, folders, written, outVars, crashes>>

-----------------------------------------------------------------------------
(* The state machine.  index() looks at stopCh after every state.          *)

MachineStates == {"read", "insert", "publish", "removeFile", "removeFolder",
                  "increment", "stop", "exit"}

Goto(next) == pc' = IF stopClosed THEN "exit" ELSE next

\* Mutant of OnError: one retry too many.
OnErrorLate(onRetry, onFail) ==
  IF retryCount <= RetryMax
  THEN Goto(onRetry) /\ retryCount' = retryCount + 1
  ELSE Goto(onFail) /\ UNCHANGED retryCount

\* evalError: retry the state while retries of this block are left.
OnError(onRetry, onFail) ==
  IF retryCount < RetryMax
  THEN Goto(onRetry) /\ retryCount' = retryCount + 1
  ELSE Goto(onFail) /\ UNCHANGED retryCount

Leaves == <<config, currBlock, toBlock, stopVars, crashes>>

ReadMissing == /\ pc = "read"
               /\ currBlock \notin full \cup partial
               /\ Goto("read")
               /\ UNCHANGED <<config, goVars, stopVars, diskVars, outVars, crashes>>

\* The file cannot be read, or is not complete and cannot be parsed.
ReadFails == /\ pc = "read"
             /\ \/ currBlock \in partial
                \/ currBlock \in full /\ "readFile" \in Failing
             /\ OnError("read", "stop")
             /\ UNCHANGED <<Leaves, block, diskVars, outVars>>

Read == /\ pc = "read"
        /\ currBlock \in full
        /\ block' = currBlock
        /\ Goto("insert")
        /\ UNCHANGED <<Leaves, retryCount, diskVars, outVars>>

\* Mutant of InsertFails: insert() is made a best-effort operation.
InsertSkips == /\ pc = "insert"
               /\ "insertBlock" \in Failing
               /\ OnError("insert", "publish")
               /\ UNCHANGED <<Leaves, block, diskVars, outVars>>

InsertFails == /\ pc = "insert"
               /\ "insertBlock" \in Failing
               /\ OnError("insert", "stop")
               /\ UNCHANGED <<Leaves, block, diskVars, outVars>>

Insert == /\ pc = "insert"
          /\ db' = db \cup {block}
          /\ Goto("publish")
          /\ UNCHANGED <<Leaves, retryCount, block, diskVars, published>>

PublishBlock == /\ config.broker
                /\ published' = Append(published, block)

\* No broker, or the block cannot be read back: publishing is best effort.
PublishNothing == /\ ~config.broker \/ "getBlock" \in Failing
                  /\ UNCHANGED published

\* Mutant of Publish: it retries the whole when the logs cannot be read.
PublishAgain == /\ pc = "publish"
                /\ PublishBlock \/ PublishNothing
                /\ \/ /\ Goto(IF config.keepFiles THEN "increment" ELSE "removeFile")
                      /\ UNCHANGED retryCount
                   \/ OnError("publish", "increment")
                /\ UNCHANGED <<Leaves, block, diskVars, db>>

Publish == /\ pc = "publish"
           /\ PublishBlock \/ PublishNothing
           /\ Goto(IF config.keepFiles THEN "increment" ELSE "removeFile")
           /\ UNCHANGED <<Leaves, retryCount, block, diskVars, db>>

\* The folder f exists and holds none of the given files.
IsDirEmpty(f, files) == f \in folders /\ \A h \in files : Folder(h) # f

RemoveFileFails == /\ pc = "removeFile"
                   /\ currBlock \notin full \/ "removeFile" \in Failing
                   /\ OnError("removeFile", "increment")
                   /\ UNCHANGED <<Leaves, block, diskVars, outVars>>

\* Mutant of RemoveFile: any empty folder is removed.
RemoveFileEager ==
  /\ pc = "removeFile"
  /\ currBlock \in full
  /\ full' = full \ {currBlock}
  /\ Goto(IF IsDirEmpty(Folder(currBlock), full' \cup partial)
          THEN "removeFolder" ELSE "increment")
  /\ UNCHANGED <<Leaves, retryCount, block, partial, folders, written, outVars>>

\* The folder is looked at after the file is removed.
RemoveFile == /\ pc = "removeFile"
              /\ currBlock \in full
              /\ full' = full \ {currBlock}
              /\ Goto(IF /\ currBlock + 1 = Folder(currBlock) + BatchSize
                         /\ IsDirEmpty(Folder(currBlock), full' \cup partial)
                      THEN "removeFolder" ELSE "increment")
              /\ UNCHANGED <<Leaves, retryCount, block, partial, folders, written, outVars>>

RemoveFolderFails == /\ pc = "removeFolder"
                     /\ \/ ~IsDirEmpty(Folder(currBlock), full \cup partial)
                        \/ "removeFolder" \in Failing
                     /\ OnError("removeFolder", "increment")
                     /\ UNCHANGED <<Leaves, block, diskVars, outVars>>

RemoveFolder == /\ pc = "removeFolder"
                /\ IsDirEmpty(Folder(currBlock), full \cup partial)
                /\ folders' = folders \ {Folder(currBlock)}
                /\ Goto("increment")
                /\ UNCHANGED <<Leaves, retryCount, block, full, partial, written, outVars>>

RangeDone == toBlock > 0 /\ toBlock <= currBlock

\* The next block, from the latest one on when a range has been re-indexed.
Increment == /\ pc = "increment"
             /\ \/ ~RangeDone /\ currBlock' = currBlock + 1 /\ UNCHANGED toBlock
                \/ /\ RangeDone /\ config.forceReindex
                   /\ \E l \in Latest : currBlock' = l + 1
                   /\ toBlock' = 0
             /\ retryCount' = 0 /\ block' = NoBlock
             /\ Goto("read")
             /\ UNCHANGED <<config, stopVars, diskVars, outVars, crashes>>

Finished == /\ pc = "increment"
            /\ RangeDone
            /\ \/ ~config.forceReindex
               \/ Latest = {} \/ "blockNumber" \in Failing
            /\ Goto("stop")
            /\ UNCHANGED <<config, goVars, stopVars, diskVars, outVars, crashes>>

\* stop(): *lastBlock panics if there is no latest block or it cannot be
\* read, and close(stopCh) panics if stopCh is closed.
StopPanics == Latest = {} \/ "blockNumber" \in Failing \/ stopClosed
StopCloses == Latest # {} /\ ~stopClosed

StopPanic == /\ pc = "stop"
             /\ StopPanics
             /\ pc' = "panicked"
             /\ UNCHANGED <<config, goVars, stopVars, diskVars, outVars, crashes>>

Stop == /\ pc = "stop"
        /\ StopCloses
        /\ stopClosed' = TRUE
        /\ pc' = "exit"
        /\ UNCHANGED <<config, goVars, started, closing, diskVars, outVars, crashes>>

Exit == /\ pc = "exit"
        /\ started' = FALSE
        /\ pc' = "ended"
        /\ UNCHANGED <<config, goVars, stopClosed, closing, diskVars, outVars, crashes>>

-----------------------------------------------------------------------------
(* Close(), called by main when the process shuts down.                    *)

Close == /\ pc \in MachineStates
         /\ ~closing
         /\ closing' = TRUE
         /\ started
         /\ \/ StopPanics /\ pc' = "panicked" /\ UNCHANGED stopClosed
            \/ StopCloses /\ stopClosed' = TRUE /\ UNCHANGED pc
         /\ UNCHANGED <<config, goVars, started, diskVars, outVars, crashes>>

-----------------------------------------------------------------------------
Machine == \/ ReadMissing \/ ReadFails \/ Read
           \/ InsertFails \/ Insert
           \/ Publish
           \/ RemoveFileFails \/ RemoveFile
           \/ RemoveFolderFails \/ RemoveFolder
           \/ Increment \/ Finished
           \/ StopPanic \/ Stop \/ Exit

Refiner == RefinerBegin \/ RefinerEnd

Next == Machine \/ Refiner \/ Start \/ Crash \/ Close

Spec == Init /\ [][Next]_vars

\* The scheduler runs the goroutine, a supervisor restarts the process, and
\* the refiner finishes the file it writes.
Fairness == WF_vars(Machine) /\ WF_vars(Start) /\ WF_vars(RefinerEnd)

LiveSpec == Spec /\ Fairness

-----------------------------------------------------------------------------
(* Properties.                                                             *)

\* Type invariant of the indexer's state.  insert() and publish() dereference
\* the block read() has parsed (indexer.go:217, 301).
ControlTypes == /\ config \in Configs
                /\ pc \in MachineStates \cup {"down", "refused", "ended", "panicked"}
                /\ crashes \in 0 .. MaxCrashes
BlockTypes == /\ currBlock \in Nat /\ toBlock \in Nat
              /\ retryCount \in 0 .. RetryMax
              /\ block \in Nat \cup {NoBlock}
              /\ pc \in {"insert", "publish"} => block # NoBlock
StopTypes == started \in BOOLEAN /\ stopClosed \in BOOLEAN /\ closing \in BOOLEAN
DiskTypes == full \subseteq Nat /\ partial \subseteq Nat /\ folders \subseteq Nat
             /\ written \in Nat
OutTypes == db \subseteq Nat /\ published \in Seq(Nat)

TypeOK == ControlTypes /\ BlockTypes /\ StopTypes /\ DiskTypes /\ OutTypes

\* Over crashes and restarts, failures and re-indexing, the database never has
\* a hole after the first block to index: New() trusts the latest block alone
\* (indexer.go:66-77) and nothing would ever fill it.
NoGap == \A h \in db : h >= First(config) => First(config) .. h \subseteq db

\* A file the refiner began and that is gone has been inserted: removeFile()
\* may not destroy the only copy of a block (indexer.go:215-238).
RemovedOnlyIndexed ==
  \A h \in 0 .. written - 1 : h \notin full \cup partial => h \in db

\* The machine never goes to read a file that it has removed itself, after a
\* restart between removeFile() and the next block either: read() would wait
\* for it for ever.  Re-indexing does (indexer.go:197-200).
NeverAwaitsRemoved ==
  (~config.forceReindex /\ pc = "read" /\ currBlock < written) =>
    currBlock \in full \cup partial

\* removeFolder() does not take away a folder the refiner still has files to
\* write to, however far the indexer catches up with it (indexer.go:233-236).
FolderOutlivesItsBatch ==
  \A h \in 0 .. written - 1 :
    Folder(h) \notin folders => written >= Folder(h) + BatchSize

\* Without re-indexing, subscribers get each block at most once and in order,
\* also when the process crashes around publish() (indexer.go:296-322).
PublishedInOrder ==
  ~config.forceReindex =>
    \A i, j \in 1 .. Len(published) : i < j => published[i] < published[j]

\* The indexer implements BlockFeed: what it stores follows what is stored, and
\* each announcement belongs to a storing of its own, over crashes between
\* insert() and publish() and re-indexing (indexer.go:215-222, 296-322).
Feed == INSTANCE BlockFeed WITH
          first   <- First(config),
          reindex <- config.forceReindex,
          fresh   <- IF pc = "publish" THEN {block} ELSE {}
FeedPromise == Feed!Spec

\* A complete file the indexer is to index gets into the database, unless the
\* goroutine stops or the process refuses to start.  Re-indexing without the
\* files it needs waits for ever and is left out (indexer.go:197-200).
EveryFileIndexed ==
  \A h \in 0 .. MaxHeight :
    (h \in full /\ h >= First(config) /\ (config.forceReindex => config.keepFiles))
      ~> (h \in db \/ pc \in {"ended", "panicked", "refused"})

\* "Close gracefully stops indexer state machine" (indexer.go:147).
CloseIsGraceful == closing => pc # "panicked"

\* ToBlock is "exclusive" (config.go:43): the range that is indexed ends
\* before it.
ToBlockIsExclusive == config.toBlock > 0 => \A h \in db : h < config.toBlock
=============================================================================
