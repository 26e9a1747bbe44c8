---------------------------- MODULE IndexerProofs ----------------------------
(***************************************************************************)
(* Theorems about Indexer, for every configuration, database, batch size   *)
(* and number of retries, blocks and crashes.                              *)
(***************************************************************************)
EXTENDS Indexer, TLAPS

USE DEF vars, goVars, stopVars, diskVars, outVars, Leaves

\* The states after the insertion of the current block.
StoredStates == {"publish", "removeFile", "removeFolder", "increment"}

\* Every block before the current one is in the database, and the current one
\* is once it is inserted.
Behind == pc \in MachineStates =>
  /\ currBlock >= First(config)
  /\ First(config) .. currBlock - 1 \subseteq db
  /\ pc \in {"insert", "publish"} => block = currBlock
  /\ pc \in StoredStates => currBlock \in db

\* Files are those of heights the refiner has begun; a folder is removed after
\* the last file of its batch.
OnDisk ==
  /\ full \cup partial \subseteq 0 .. written - 1
  /\ pc = "removeFolder" =>
       currBlock + 1 = Folder(currBlock) + BatchSize /\ currBlock < written

\* What is published is in the database and, unless blocks are re-indexed,
\* not ahead of the current block.
PublishedBehind == \A i \in 1 .. Len(published) :
  /\ published[i] \in db
  /\ (~config.forceReindex /\ pc \in MachineStates) =>
       /\ published[i] <= currBlock
       /\ pc \in {"read", "insert", "publish"} => published[i] < currBlock

IInv == /\ NoGap /\ RemovedOnlyIndexed /\ FolderOutlivesItsBatch /\ PublishedInOrder
        /\ Behind /\ OnDisk /\ PublishedBehind

\* A configuration has a first height, at or after the genesis block.
LEMMA ConfigType ==
  ASSUME NEW c \in Configs
  PROVE  /\ c.fromBlock \in Nat /\ c.toBlock \in Nat
         /\ c.forceReindex \in BOOLEAN /\ c.keepFiles \in BOOLEAN
         /\ First(c) \in Nat /\ First(c) >= Genesis
BY ConfigsAssumption, BoundsAssumption DEF First

\* New() computes a height.
LEMMA StartType ==
  ASSUME TypeOK, NEW b \in StartBlocks
  PROVE  b \in Nat
<1> USE BoundsAssumption DEF TypeOK, ControlTypes, OutTypes, Later
<1>1. config.fromBlock \in Nat
  BY ConfigType
<1>2. \A x \in Nat : Later(x) \in Nat
  BY <1>1
<1>3. CASE b = Later(Genesis)
  BY <1>2, <1>3
<1>4. CASE \E l \in Latest : b = Later(IF l >= Genesis THEN l + 1 ELSE Genesis)
  BY <1>2, <1>4 DEF Latest
<1> QED BY <1>3, <1>4 DEF StartBlocks

\* The folder of a height is named by a height.
LEMMA FolderType == \A h \in Nat : Folder(h) \in Nat
BY BoundsAssumption DEF Folder

-----------------------------------------------------------------------------
LEMMA InitTypeOK == Init => TypeOK
<1> SUFFICES ASSUME Init PROVE TypeOK
  OBVIOUS
<1> USE DEF Init
<1>1. ControlTypes
  BY BoundsAssumption DEF ControlTypes
<1>2. BlockTypes
  BY BoundsAssumption DEF BlockTypes
<1>3. StopTypes
  BY DEF StopTypes
<1>4. DiskTypes
  BY DEF DiskTypes
<1>5. OutTypes
  BY DbsAssumption DEF OutTypes
<1> QED BY <1>1, <1>2, <1>3, <1>4, <1>5 DEF TypeOK

LEMMA EnvironmentTypeOK ==
  ASSUME TypeOK, Refiner \/ Start \/ Crash \/ Close
  PROVE  TypeOK'
<1> USE DEF TypeOK
<1>1. CASE RefinerBegin \/ RefinerEnd
  <2>1. DiskTypes'
    <3>1. CASE RefinerBegin
      <4>1. Folder(written) \in Nat /\ written + 1 \in Nat
        BY FolderType DEF DiskTypes
      <4> QED BY <3>1, <4>1 DEF RefinerBegin, DiskTypes
    <3>2. CASE RefinerEnd
      BY <3>2 DEF RefinerEnd, DiskTypes
    <3> QED BY <1>1, <3>1, <3>2
  <2> QED BY <1>1, <2>1 DEF RefinerBegin, RefinerEnd, ControlTypes, BlockTypes, StopTypes,
                            OutTypes
<1>2. CASE Start
  <2>1. currBlock' \in Nat
    BY <1>2, StartType DEF Start
  <2>2. toBlock' \in Nat
    BY <1>2, ConfigType DEF Start, ControlTypes
  <2>3. ControlTypes'
    BY <1>2 DEF Start, ControlTypes, MachineStates
  <2>4. BlockTypes'
    <3>1. block' = NoBlock /\ retryCount' = 0 /\ pc' \notin {"insert", "publish"}
      BY <1>2 DEF Start
    <3> QED BY <2>1, <2>2, <3>1, BoundsAssumption DEF BlockTypes
  <2>5. StopTypes'
    BY <1>2 DEF Start, StopTypes
  <2> QED BY <1>2, <2>3, <2>4, <2>5 DEF Start, DiskTypes, OutTypes
<1>3. CASE Crash
  <2>1. ControlTypes'
    BY <1>3, BoundsAssumption DEF Crash, ControlTypes
  <2> QED BY <1>3, <2>1 DEF Crash, BlockTypes, StopTypes, DiskTypes, OutTypes
<1>4. CASE Close
  <2>1. ControlTypes' /\ BlockTypes'
    BY <1>4 DEF Close, ControlTypes, BlockTypes
  <2>2. StopTypes'
    BY <1>4 DEF Close, StopTypes
  <2> QED BY <1>4, <2>1, <2>2 DEF Close, DiskTypes, OutTypes
<1> QED BY <1>1, <1>2, <1>3, <1>4 DEF Refiner

LEMMA MachineTypeOK ==
  ASSUME TypeOK, Machine
  PROVE  TypeOK'
<1> USE DEF TypeOK, Goto
<1>1. CASE ReadMissing
  BY <1>1 DEF ReadMissing, ControlTypes, BlockTypes, StopTypes, DiskTypes, OutTypes,
              MachineStates
<1>2. CASE ReadFails \/ InsertFails \/ RemoveFileFails \/ RemoveFolderFails
  <2> USE DEF ReadFails, InsertFails, RemoveFileFails, RemoveFolderFails
  <2>1. ControlTypes'
    BY <1>2 DEF OnError, ControlTypes, MachineStates
  <2>2. BlockTypes'
    BY <1>2, BoundsAssumption DEF OnError, BlockTypes
  <2> QED BY <1>2, <2>1, <2>2 DEF StopTypes, DiskTypes, OutTypes
<1>3. CASE Read
  <2>1. ControlTypes' /\ BlockTypes'
    BY <1>3, NoBlockAssumption DEF Read, ControlTypes, BlockTypes, MachineStates
  <2> QED BY <1>3, <2>1 DEF Read, StopTypes, DiskTypes, OutTypes
<1>4. CASE Insert
  <2>1. ControlTypes' /\ BlockTypes'
    BY <1>4 DEF Insert, ControlTypes, BlockTypes, MachineStates
  <2>2. OutTypes'
    BY <1>4 DEF Insert, BlockTypes, OutTypes
  <2> QED BY <1>4, <2>1, <2>2 DEF Insert, StopTypes, DiskTypes
<1>5. CASE Publish
  <2>1. ControlTypes' /\ BlockTypes'
    BY <1>5 DEF Publish, ControlTypes, BlockTypes, MachineStates
  <2>2. OutTypes'
    BY <1>5 DEF Publish, PublishBlock, PublishNothing, BlockTypes, OutTypes
  <2> QED BY <1>5, <2>1, <2>2 DEF Publish, StopTypes, DiskTypes
<1>6. CASE RemoveFile \/ RemoveFolder
  <2>1. ControlTypes' /\ BlockTypes'
    BY <1>6 DEF RemoveFile, RemoveFolder, ControlTypes, BlockTypes, MachineStates
  <2>2. DiskTypes'
    BY <1>6 DEF RemoveFile, RemoveFolder, DiskTypes
  <2> QED BY <1>6, <2>1, <2>2 DEF RemoveFile, RemoveFolder, StopTypes, OutTypes
<1>7. CASE Increment
  <2>1. currBlock' \in Nat /\ toBlock' \in Nat
    BY <1>7 DEF Increment, Latest, BlockTypes, OutTypes
  <2>2. ControlTypes'
    BY <1>7 DEF Increment, ControlTypes, MachineStates
  <2>3. BlockTypes'
    BY <1>7, <2>1, BoundsAssumption DEF Increment, BlockTypes
  <2> QED BY <1>7, <2>2, <2>3 DEF Increment, StopTypes, DiskTypes, OutTypes
<1>8. CASE Finished \/ StopPanic \/ Stop \/ Exit
  <2>1. ControlTypes' /\ BlockTypes'
    BY <1>8 DEF Finished, StopPanic, Stop, Exit, ControlTypes, BlockTypes, MachineStates
  <2>2. StopTypes'
    BY <1>8 DEF Finished, StopPanic, Stop, Exit, StopTypes
  <2> QED BY <1>8, <2>1, <2>2 DEF Finished, StopPanic, Stop, Exit, DiskTypes, OutTypes
<1> QED BY <1>1, <1>2, <1>3, <1>4, <1>5, <1>6, <1>7, <1>8 DEF Machine

\* The indexer's state keeps its type; insert() and publish() have a block
\* (indexer.go:217, 301).
THEOREM TypeCorrect == Spec => []TypeOK
<1>1. TypeOK /\ [Next]_vars => TypeOK'
  <2> SUFFICES ASSUME TypeOK, [Next]_vars PROVE TypeOK'
    OBVIOUS
  <2>1. CASE Next
    BY <2>1, EnvironmentTypeOK, MachineTypeOK DEF Next
  <2>2. CASE UNCHANGED vars
    BY <2>2 DEF TypeOK, ControlTypes, BlockTypes, StopTypes, DiskTypes, OutTypes
  <2> QED BY <2>1, <2>2
<1> QED BY InitTypeOK, <1>1, PTL DEF Spec

-----------------------------------------------------------------------------
(* What a step can change, and where a state of the machine comes from.    *)

\* Only Insert adds to the database, only Publish sends, and only the refiner
\* and the removals touch the disk.
LEMMA Frame ==
  ASSUME Next
  PROVE  /\ config' = config
         /\ Insert \/ UNCHANGED db
         /\ Publish \/ UNCHANGED published
         /\ RefinerBegin \/ RefinerEnd \/ RemoveFile \/ UNCHANGED <<full, partial, written>>
         /\ RefinerBegin \/ RemoveFolder \/ UNCHANGED folders
         /\ Start \/ Increment \/ UNCHANGED currBlock
<1>1. CASE Refiner \/ Start \/ Crash \/ Close
  BY <1>1 DEF Refiner, RefinerBegin, RefinerEnd, Start, Crash, Close
<1>2. CASE ReadMissing \/ ReadFails \/ Read \/ InsertFails \/ Insert \/ Publish
  BY <1>2 DEF ReadMissing, ReadFails, Read, InsertFails, Insert, Publish
<1>3. CASE RemoveFileFails \/ RemoveFile \/ RemoveFolderFails \/ RemoveFolder
  BY <1>3 DEF RemoveFileFails, RemoveFile, RemoveFolderFails, RemoveFolder
<1>4. CASE Increment \/ Finished \/ StopPanic \/ Stop \/ Exit
  BY <1>4 DEF Increment, Finished, StopPanic, Stop, Exit
<1> QED BY <1>1, <1>2, <1>3, <1>4 DEF Next, Machine

\* How the machine gets to a state: only Start enters it, only Insert goes on
\* to the states after the insertion, and only Read to the insertion.
LEMMA Flow ==
  ASSUME Next, ~Start
  PROVE  /\ pc' \in MachineStates => pc \in MachineStates
         /\ pc' \in StoredStates => Insert \/ (pc \in StoredStates /\ UNCHANGED currBlock)
         /\ pc' \in {"insert", "publish"} =>
              Read \/ (pc \in {"insert", "publish"} /\ UNCHANGED <<block, currBlock>>)
         /\ pc' = "removeFolder" =>
              RemoveFile \/ (pc = "removeFolder" /\ UNCHANGED currBlock)
         /\ pc' \in {"read", "insert", "publish"} =>
              Increment \/ (pc \in {"read", "insert", "publish"} /\ UNCHANGED currBlock)
         /\ pc' \in {"read", "insert"} => Increment \/ pc \in {"read", "insert"}
<1> USE DEF MachineStates, StoredStates, Goto, OnError
<1>1. CASE Refiner \/ Crash \/ Close
  BY <1>1 DEF Refiner, RefinerBegin, RefinerEnd, Crash, Close
<1>2. CASE ReadMissing \/ ReadFails \/ Read
  BY <1>2 DEF ReadMissing, ReadFails, Read
<1>3. CASE InsertFails \/ Insert \/ Publish
  BY <1>3 DEF InsertFails, Insert, Publish
<1>4. CASE RemoveFileFails \/ RemoveFile
  BY <1>4 DEF RemoveFileFails, RemoveFile
<1>5. CASE RemoveFolderFails \/ RemoveFolder
  BY <1>5 DEF RemoveFolderFails, RemoveFolder
<1>6. CASE Increment \/ Finished \/ StopPanic \/ Stop \/ Exit
  BY <1>6 DEF Increment, Finished, StopPanic, Stop, Exit
<1> QED BY <1>1, <1>2, <1>3, <1>4, <1>5, <1>6 DEF Next, Machine

\* New() starts at a block below which nothing is missing, and past
\* everything in the database unless it re-indexes.
LEMMA StartFacts ==
  ASSUME TypeOK, NoGap, NEW b \in StartBlocks
  PROVE  /\ b >= First(config)
         /\ First(config) .. b - 1 \subseteq db
         /\ ~config.forceReindex => \A h \in db : h < b
<1> USE BoundsAssumption DEF TypeOK, ControlTypes, OutTypes, Later, First
<1>1. config.fromBlock \in Nat /\ config.forceReindex \in BOOLEAN
  BY ConfigType
<1>2. CASE config.forceReindex \/ db = {}
  BY <1>1, <1>2 DEF StartBlocks
<1>3. CASE ~config.forceReindex /\ db # {}
  <2>1. PICK l \in Latest : b = Later(IF l >= Genesis THEN l + 1 ELSE Genesis)
    BY <1>3 DEF StartBlocks
  <2>2. l \in Nat /\ l \in db /\ \A h \in db : h \in Nat /\ h <= l
    BY <2>1 DEF Latest
  <2>3. CASE l < Genesis \/ config.fromBlock >= l + 1
    BY <1>1, <2>1, <2>2, <2>3
  <2>4. CASE l >= Genesis /\ config.fromBlock < l + 1
    <3>1. b = l + 1 /\ l >= First(config)
      BY <1>1, <2>1, <2>2, <2>4
    <3>2. First(config) .. l \subseteq db
      BY <2>2, <3>1 DEF NoGap
    <3> QED BY <1>1, <2>2, <3>1, <3>2
  <2> QED BY <1>1, <2>2, <2>3, <2>4
<1> QED BY <1>1, <1>2, <1>3

\* So does increment(), also when it goes on after the latest block.
LEMMA IncrementFacts ==
  ASSUME TypeOK, NoGap, Behind, Increment
  PROVE  /\ currBlock' > currBlock
         /\ First(config) .. currBlock' - 1 \subseteq db
<1>1. /\ First(config) \in Nat /\ currBlock \in Nat /\ db \subseteq Nat
      /\ currBlock >= First(config) /\ currBlock \in db
      /\ First(config) .. currBlock - 1 \subseteq db
  BY ConfigType DEF TypeOK, ControlTypes, BlockTypes, OutTypes, Behind, Increment, MachineStates,
                    StoredStates
<1>2. PICK l \in db : l >= currBlock /\ currBlock' = l + 1
  <2>1. CASE currBlock' = currBlock + 1
    BY <1>1, <2>1
  <2>2. CASE \E l \in Latest : currBlock' = l + 1
    BY <1>1, <2>2 DEF Latest
  <2> QED BY <2>1, <2>2 DEF Increment
<1>3. First(config) .. l \subseteq db
  BY <1>1, <1>2 DEF NoGap
<1> QED BY <1>1, <1>2, <1>3

-----------------------------------------------------------------------------
(* One lemma for each part of the inductive invariant.                     *)

LEMMA InitIInv == Init => IInv
<1> SUFFICES ASSUME Init PROVE IInv
  OBVIOUS
<1> USE DEF Init
<1>1. NoGap
  BY DbsAssumption DEF NoGap
<1>2. RemovedOnlyIndexed /\ FolderOutlivesItsBatch
  BY DEF RemovedOnlyIndexed, FolderOutlivesItsBatch
<1>3. PublishedInOrder /\ PublishedBehind
  BY DEF PublishedInOrder, PublishedBehind
<1>4. Behind /\ OnDisk
  BY DEF Behind, OnDisk, MachineStates
<1> QED BY <1>1, <1>2, <1>3, <1>4 DEF IInv

\* insert() adds the block that follows what is there.
LEMMA InsertFacts ==
  ASSUME TypeOK, Behind, Insert
  PROVE  /\ db' = db \cup {currBlock}
         /\ currBlock \in Nat /\ First(config) \in Nat
         /\ First(config) .. currBlock - 1 \subseteq db
BY ConfigType DEF TypeOK, ControlTypes, BlockTypes, Behind, Insert, MachineStates

LEMMA NoGapKept ==
  ASSUME TypeOK, IInv, Next
  PROVE  NoGap'
<1>1. config' = config
  BY Frame
<1>2. CASE UNCHANGED db
  BY <1>1, <1>2 DEF IInv, NoGap
<1>3. CASE Insert
  <2> SUFFICES ASSUME NEW h \in db', h >= First(config), NEW x \in First(config) .. h
               PROVE  x \in db'
    BY <1>1 DEF NoGap
  <2>1. CASE h \in db
    BY <1>3, <2>1, InsertFacts DEF IInv, NoGap
  <2>2. CASE h = currBlock
    BY <1>3, <2>2, InsertFacts DEF IInv
  <2> QED BY <1>3, <2>1, <2>2, InsertFacts DEF IInv
<1> QED BY <1>2, <1>3, Frame

LEMMA BehindKept ==
  ASSUME TypeOK, IInv, Next
  PROVE  Behind'
<1>1. config' = config /\ First(config) \in Nat /\ currBlock \in Nat
  BY Frame, ConfigType DEF TypeOK, ControlTypes, BlockTypes
<1>2. CASE Start
  <2>1. pc' \notin {"insert", "publish"} \cup StoredStates
    BY <1>2 DEF Start, StoredStates
  <2> QED BY <1>1, <1>2, <2>1, StartFacts DEF Start, IInv, Behind
<1>3. CASE ~Start /\ pc' \in MachineStates
  <2>1. pc \in MachineStates /\ Behind
    BY <1>3, Flow DEF IInv
  <2>2. db \subseteq db'
    BY Frame DEF Insert
  <2>3. /\ currBlock' >= First(config)'
        /\ First(config)' .. currBlock' - 1 \subseteq db'
    <3>1. CASE Increment
      <4>1. currBlock' \in Nat
        BY <1>1, <3>1 DEF Increment, Latest, TypeOK, OutTypes
      <4>2. currBlock' > currBlock /\ First(config) .. currBlock' - 1 \subseteq db
        BY <3>1, IncrementFacts DEF IInv
      <4>3. currBlock >= First(config)
        BY <2>1 DEF Behind
      <4> QED BY <1>1, <2>2, <4>1, <4>2, <4>3
    <3>2. CASE UNCHANGED currBlock
      BY <1>1, <2>1, <2>2, <3>2 DEF Behind
    <3> QED BY <1>3, <3>1, <3>2, Frame
  <2>4. pc' \in {"insert", "publish"} => block' = currBlock'
    BY <1>3, <2>1, Flow DEF Behind, Read
  <2>5. pc' \in StoredStates => currBlock' \in db'
    BY <1>3, <2>1, <2>2, Flow DEF Behind, Insert, MachineStates
  <2> QED BY <2>3, <2>4, <2>5 DEF Behind
<1> QED BY <1>2, <1>3 DEF Behind

LEMMA OnDiskKept ==
  ASSUME TypeOK, IInv, Next
  PROVE  OnDisk'
<1> USE DEF IInv, OnDisk
<1>1. /\ written \in Nat /\ currBlock \in Nat /\ full \subseteq Nat /\ partial \subseteq Nat
  BY DEF TypeOK, DiskTypes, BlockTypes
<1>2. full' \cup partial' \subseteq 0 .. written' - 1 /\ written' >= written
  <2>1. CASE RefinerBegin
    BY <1>1, <2>1 DEF RefinerBegin
  <2>2. CASE RefinerEnd
    BY <1>1, <2>2 DEF RefinerEnd
  <2>3. CASE RemoveFile
    BY <1>1, <2>3 DEF RemoveFile
  <2>4. CASE UNCHANGED <<full, partial, written>>
    BY <1>1, <2>4
  <2> QED BY <2>1, <2>2, <2>3, <2>4, Frame
<1>3. ASSUME pc' = "removeFolder"
      PROVE  currBlock' + 1 = Folder(currBlock') + BatchSize /\ currBlock' < written'
  <2>1. CASE RemoveFile
    <3>1. currBlock < written /\ written' = written /\ currBlock' = currBlock
      BY <1>1, <2>1 DEF RemoveFile
    <3>2. currBlock + 1 = Folder(currBlock) + BatchSize
      BY <1>3, <2>1 DEF RemoveFile, Goto
    <3> QED BY <3>1, <3>2
  <2>2. CASE pc = "removeFolder" /\ UNCHANGED currBlock
    <3>1. written' \in Nat
      BY <1>1, Frame DEF RefinerBegin, RefinerEnd, RemoveFile
    <3> QED BY <1>1, <1>2, <2>2, <3>1
  <2> QED BY <1>3, <2>1, <2>2, Flow DEF Start
<1> QED BY <1>2, <1>3

LEMMA RemovedOnlyIndexedKept ==
  ASSUME TypeOK, IInv, Next
  PROVE  RemovedOnlyIndexed'
<1> USE DEF IInv, RemovedOnlyIndexed
<1>1. db \subseteq db' /\ written \in Nat
  BY Frame DEF Insert, TypeOK, DiskTypes
<1>2. CASE RefinerBegin
  BY <1>1, <1>2 DEF RefinerBegin
<1>3. CASE RefinerEnd
  BY <1>1, <1>3 DEF RefinerEnd
<1>4. CASE RemoveFile
  <2>1. currBlock \in db
    BY <1>4 DEF RemoveFile, Behind, StoredStates, MachineStates
  <2> QED BY <1>1, <1>4, <2>1 DEF RemoveFile
<1> QED BY <1>1, <1>2, <1>3, <1>4, Frame

LEMMA FolderOutlivesItsBatchKept ==
  ASSUME TypeOK, IInv, Next
  PROVE  FolderOutlivesItsBatch'
<1> USE DEF IInv, FolderOutlivesItsBatch
<1>1. written \in Nat /\ BatchSize \in Nat /\ \A h \in Nat : Folder(h) \in Nat
  BY FolderType, BoundsAssumption DEF TypeOK, DiskTypes
<1>2. CASE RefinerBegin
  BY <1>1, <1>2 DEF RefinerBegin
<1>3. CASE RemoveFolder
  <2>1. written >= Folder(currBlock) + BatchSize
    BY <1>1, <1>3 DEF RemoveFolder, OnDisk, TypeOK, BlockTypes
  <2> QED BY <1>1, <1>3, <2>1 DEF RemoveFolder
<1>4. CASE UNCHANGED <<folders, written>>
  BY <1>4
<1> QED BY <1>2, <1>3, <1>4, Frame DEF RefinerEnd, RemoveFile

\* What Publish appends is the current block.
LEMMA PublishFacts ==
  ASSUME TypeOK, Behind, Publish
  PROVE  /\ published \in Seq(Nat) /\ currBlock \in Nat /\ currBlock \in db
         /\ db' = db /\ currBlock' = currBlock /\ pc' \notin {"read", "insert", "publish"}
         /\ published' = published \/ published' = Append(published, currBlock)
<1>1. /\ published \in Seq(Nat) /\ currBlock \in Nat /\ block = currBlock
      /\ currBlock \in db
  BY DEF TypeOK, OutTypes, BlockTypes, Behind, Publish, MachineStates, StoredStates
<1>2. published' = published \/ published' = Append(published, currBlock)
  BY <1>1 DEF Publish, PublishBlock, PublishNothing
<1> QED BY <1>1, <1>2 DEF Publish, Goto

LEMMA PublishedBehindKept ==
  ASSUME TypeOK, IInv, Next
  PROVE  PublishedBehind'
<1>1. /\ config' = config /\ published \in Seq(Nat) /\ db \subseteq Nat /\ db \subseteq db'
      /\ currBlock \in Nat
  BY Frame DEF TypeOK, OutTypes, BlockTypes, Insert
<1>2. CASE Publish
  <2>1. pc \in MachineStates /\ pc \in {"read", "insert", "publish"}
    BY <1>2 DEF Publish, MachineStates
  <2>2. \A i \in 1 .. Len(published) :
          /\ published[i] \in db
          /\ ~config.forceReindex => published[i] < currBlock
    BY <2>1 DEF IInv, PublishedBehind
  <2>3. \A i \in 1 .. Len(published') :
          published'[i] = currBlock \/ \E j \in 1 .. Len(published) : published'[i] = published[j]
    BY <1>2, PublishFacts DEF IInv
  <2>4. \A i \in 1 .. Len(published') :
          /\ published'[i] \in db
          /\ ~config.forceReindex => published'[i] <= currBlock
    <3> DEFINE Past(h) == h \in db /\ (~config.forceReindex => h <= currBlock)
    <3>1. \A i \in 1 .. Len(published) : Past(published[i])
      <4>1. \A i \in 1 .. Len(published) : published[i] \in db /\ published[i] \in Nat
        BY <1>1, <2>2
      <4> QED BY <1>1, <2>2, <4>1
    <3>2. Past(currBlock)
      BY <1>1, <1>2, PublishFacts DEF IInv
    <3>3. \A i \in 1 .. Len(published') : Past(published'[i])
      <4> HIDE DEF Past
      <4> QED BY <2>3, <3>1, <3>2
    <3> QED BY <3>3
  <2> QED BY <1>1, <1>2, <2>4, PublishFacts DEF IInv, PublishedBehind
<1>3. CASE Start
  <2>1. ~config.forceReindex => \A h \in db : h < currBlock'
    BY <1>3, StartFacts DEF Start, IInv
  <2>2. currBlock' \in Nat
    BY <1>3, StartType DEF Start
  <2> QED BY <1>1, <1>3, <2>1, <2>2 DEF Start, IInv, PublishedBehind
<1>4. CASE Increment
  <2>1. currBlock' > currBlock /\ currBlock' \in Nat
    BY <1>1, <1>4, IncrementFacts DEF Increment, Latest, IInv
  <2>2. pc \in MachineStates /\ published' = published /\ db' = db
    BY <1>4 DEF Increment, MachineStates
  <2> QED BY <1>1, <1>4, <2>1, <2>2 DEF IInv, PublishedBehind
<1>5. CASE ~Start /\ UNCHANGED <<published, currBlock>>
  <2>1. \A i \in 1 .. Len(published) :
          /\ published[i] \in db'
          /\ (~config.forceReindex /\ pc' \in MachineStates) =>
               /\ published[i] <= currBlock
               /\ pc' \in {"read", "insert", "publish"} /\ ~Increment =>
                    published[i] < currBlock
    BY <1>1, <1>5, Flow DEF IInv, PublishedBehind
  <2> QED BY <1>1, <1>4, <1>5, <2>1 DEF PublishedBehind
<1> QED BY <1>2, <1>3, <1>4, <1>5, Frame

LEMMA PublishedInOrderKept ==
  ASSUME TypeOK, IInv, Next
  PROVE  PublishedInOrder'
<1>1. config' = config /\ published \in Seq(Nat)
  BY Frame DEF TypeOK, OutTypes
<1>2. CASE Publish
  <2> SUFFICES ASSUME ~config.forceReindex,
                      NEW i \in 1 .. Len(published'), NEW j \in 1 .. Len(published'), i < j
               PROVE  published'[i] < published'[j]
    BY <1>1 DEF PublishedInOrder
  <2>1. \A n \in 1 .. Len(published) : published[n] < currBlock
    BY <1>2 DEF Publish, MachineStates, IInv, PublishedBehind
  <2>2. CASE published' = published
    BY <1>1, <2>2 DEF IInv, PublishedInOrder
  <2>3. CASE published' = Append(published, currBlock)
    <3>1. /\ i \in 1 .. Len(published) /\ published'[i] = published[i]
          /\ j \in 1 .. Len(published) \/ j = Len(published) + 1
      BY <1>1, <2>3
    <3>2. CASE j \in 1 .. Len(published)
      <4>1. published'[j] = published[j]
        BY <1>1, <2>3, <3>2
      <4> QED BY <1>1, <3>1, <3>2, <4>1 DEF IInv, PublishedInOrder
    <3>3. CASE j = Len(published) + 1
      <4>1. published'[j] = currBlock
        BY <1>1, <2>3, <3>3, PublishFacts, <1>2 DEF IInv
      <4> QED BY <2>1, <3>1, <4>1
    <3> QED BY <3>1, <3>2, <3>3
  <2> QED BY <1>2, <2>2, <2>3, PublishFacts DEF IInv
<1>3. CASE UNCHANGED published
  BY <1>1, <1>3 DEF IInv, PublishedInOrder
<1> QED BY <1>2, <1>3, Frame

-----------------------------------------------------------------------------
\* The inductive invariant holds in every reachable state.
LEMMA Invariant == Spec => [](TypeOK /\ IInv)
<1>1. TypeOK /\ IInv /\ [Next]_vars => IInv'
  <2> SUFFICES ASSUME TypeOK, IInv, [Next]_vars PROVE IInv'
    OBVIOUS
  <2>1. CASE Next
    BY <2>1, NoGapKept, BehindKept, OnDiskKept, RemovedOnlyIndexedKept, PublishedBehindKept,
       FolderOutlivesItsBatchKept, PublishedInOrderKept DEF IInv
  <2>2. CASE UNCHANGED vars
    BY <2>2 DEF IInv, NoGap, RemovedOnlyIndexed, FolderOutlivesItsBatch, PublishedInOrder,
                Behind, OnDisk, PublishedBehind
  <2> QED BY <2>1, <2>2
<1> QED BY InitIInv, <1>1, TypeCorrect, PTL DEF Spec

\* The database never has a hole after the first block, over any number of
\* restarts, failures and re-indexed ranges (indexer.go:63-82, 257-273).
THEOREM DatabaseHasNoGap == Spec => []NoGap
<1>1. IInv => NoGap
  BY DEF IInv
<1> QED BY <1>1, Invariant, PTL

\* removeFile() and removeFolder() destroy nothing that is still needed: a file
\* that is gone is in the database, a folder that is gone has had all its files
\* (indexer.go:227-250).
THEOREM RemovalIsSafe == Spec => [](RemovedOnlyIndexed /\ FolderOutlivesItsBatch)
<1>1. IInv => RemovedOnlyIndexed /\ FolderOutlivesItsBatch
  BY DEF IInv
<1> QED BY <1>1, Invariant, PTL

\* Catching up with the refiner does not make the indexer remove a folder to
\* which files will still be added (indexer.go:233-250).
THEOREM FolderIsComplete == Spec => []FolderOutlivesItsBatch
BY RemovalIsSafe, PTL

\* Subscribers see the blocks in order and none of them twice
\* (indexer.go:296-322).
THEOREM PublishingIsInOrder == Spec => []PublishedInOrder
<1>1. IInv => PublishedInOrder
  BY DEF IInv
<1> QED BY <1>1, Invariant, PTL

-----------------------------------------------------------------------------
(* The indexer implements BlockFeed.                                       *)

\* Unless it re-indexes, nothing is stored ahead of the machine.
Ahead == (~config.forceReindex /\ pc \in MachineStates) =>
  \A h \in db : /\ pc \in {"read", "insert"} => h < currBlock
                /\ pc \in StoredStates => h <= currBlock

LEMMA AheadKept ==
  ASSUME TypeOK, IInv, Ahead, Next
  PROVE  Ahead'
<1> SUFFICES ASSUME ~config.forceReindex, pc' \in MachineStates, NEW h \in db'
             PROVE  /\ pc' \in {"read", "insert"} => h < currBlock'
                    /\ pc' \in StoredStates => h <= currBlock'
  BY Frame DEF Ahead
<1>1. currBlock \in Nat /\ db \subseteq Nat
  BY DEF TypeOK, BlockTypes, OutTypes
<1>2. CASE Start
  <2>1. pc' = "read" /\ db' = db
    BY <1>2 DEF Start, MachineStates
  <2> QED BY <1>2, <2>1, StartFacts DEF Start, IInv, StoredStates
<1>3. CASE Insert
  <2>1. /\ pc = "insert" /\ pc' \notin {"read", "insert"}
        /\ currBlock' = currBlock /\ db' = db \cup {currBlock}
    BY <1>3, InsertFacts DEF Insert, Goto, IInv
  <2>2. \A g \in db : g < currBlock
    BY <2>1 DEF Ahead, MachineStates
  <2> QED BY <1>1, <2>1, <2>2
<1>4. CASE Increment
  <2>1. pc = "increment" /\ db' = db /\ currBlock' = currBlock + 1
    BY <1>4 DEF Increment
  <2>2. h <= currBlock
    BY <2>1 DEF Ahead, MachineStates, StoredStates
  <2> QED BY <1>1, <2>1, <2>2
<1>5. CASE ~Start /\ UNCHANGED <<db, currBlock>>
  <2>1. pc \in MachineStates
    BY <1>5, Flow
  <2>2. /\ pc' \in {"read", "insert"} => Increment \/ pc \in {"read", "insert"}
        /\ pc' \in StoredStates => Insert \/ pc \in StoredStates
    BY <1>5, Flow
  <2> QED BY <1>3, <1>4, <1>5, <2>1, <2>2 DEF Ahead
<1> QED BY <1>2, <1>3, <1>4, <1>5, Frame

LEMMA AlwaysAhead == Spec => []Ahead
<1>1. Init => Ahead
  BY DEF Init, Ahead, MachineStates
<1>2. TypeOK /\ IInv /\ Ahead /\ [Next]_vars => Ahead'
  BY AheadKept DEF Ahead
<1> QED BY <1>1, <1>2, Invariant, PTL DEF Spec

\* Unless it re-indexes, the machine never waits for a file it has removed
\* itself: a removed file is in the database, and what read() is to read next
\* lies beyond the database, after any number of restarts (indexer.go:63-82,
\* 194-200, 227-238).
THEOREM NothingRemovedIsAwaited == Spec => []NeverAwaitsRemoved
<1>1. TypeOK /\ IInv /\ Ahead => NeverAwaitsRemoved
  <2> SUFFICES ASSUME TypeOK, IInv, Ahead, ~config.forceReindex,
                      pc = "read", currBlock < written
               PROVE  currBlock \in full \cup partial
    BY DEF NeverAwaitsRemoved
  <2>1. currBlock \in 0 .. written - 1 /\ db \subseteq Nat
    BY DEF TypeOK, BlockTypes, DiskTypes, OutTypes
  <2>2. currBlock \notin full \cup partial => currBlock \in db
    BY <2>1 DEF IInv, RemovedOnlyIndexed
  <2>3. \A h \in db : h < currBlock
    BY DEF Ahead, MachineStates
  <2> QED BY <2>1, <2>2, <2>3
<1> QED BY <1>1, AlwaysAhead, Invariant, PTL

\* insert() stores the next block; if stopCh is closed it is not announced.
LEMMA InsertIsStore ==
  ASSUME TypeOK, IInv, Ahead, Insert
  PROVE  Feed!Next
<1>1. /\ pc = "insert" /\ config' = config /\ published' = published
      /\ pc' = "publish" => block' = currBlock
      /\ currBlock >= First(config)
  BY DEF Insert, IInv, Behind, MachineStates
<1>2. /\ db' = db \cup {currBlock}
      /\ First(config) .. currBlock - 1 \subseteq db
  BY InsertFacts DEF IInv
<1>3. config.forceReindex \/ \A g \in db : g < currBlock
  BY <1>1 DEF Ahead, MachineStates
<1>4. Feed!Store(currBlock)
  BY <1>1, <1>2, <1>3 DEF Feed!Store
<1> QED BY <1>2, <1>4 DEF Feed!Next

\* publish() announces the block that was just stored, or nothing.
LEMMA PublishIsAnnounce ==
  ASSUME Publish
  PROVE  Feed!Next
<1>1. pc = "publish" /\ pc' # "publish" /\ UNCHANGED <<config, db>>
  BY DEF Publish, Goto
<1>2. CASE PublishBlock
  <2>1. Feed!Announce(block)
    BY <1>1, <1>2 DEF PublishBlock, Feed!Announce
  <2> QED BY <1>1, <2>1 DEF Feed!Next
<1>3. CASE PublishNothing
  BY <1>1, <1>3 DEF PublishNothing, Feed!Next, Feed!Forget
<1> QED BY <1>2, <1>3 DEF Publish

LEMMA NextIsFeed ==
  ASSUME TypeOK, IInv, Ahead, [Next]_vars
  PROVE  [Feed!Next]_Feed!vars
<1>1. CASE Insert
  BY <1>1, InsertIsStore
<1>2. CASE Publish
  BY <1>2, PublishIsAnnounce
<1>3. CASE Next /\ ~Insert /\ ~Publish
  <2>1. UNCHANGED <<config, db, published>>
    BY <1>3, Frame
  <2>2. CASE pc' # "publish"
    BY <2>1, <2>2 DEF Feed!Next, Feed!Forget
  <2>3. CASE pc' = "publish"
    <3>1. ~Start /\ ~Read
      BY <2>3 DEF Start, Read, Goto
    <3>2. pc = "publish" /\ block' = block
      BY <1>3, <2>3, <3>1, Flow DEF StoredStates
    <3> QED BY <2>1, <2>3, <3>2 DEF Feed!vars
  <2> QED BY <2>2, <2>3
<1>4. CASE UNCHANGED vars
  BY <1>4 DEF Feed!vars
<1> QED BY <1>1, <1>2, <1>3, <1>4

\* The indexer does what BlockFeed promises, step for step: whatever crashes,
\* fails or is re-indexed, insert() stores the block that follows the database
\* and publish() announces each storing at most once, directly after it
\* (indexer.go:215-222, 252-282, 296-322).
THEOREM ImplementsFeed == Spec => FeedPromise
<1>1. Init => Feed!Init
  <2> SUFFICES ASSUME Init PROVE Feed!Init
    OBVIOUS
  <2>1. First(config) \in Nat /\ config.forceReindex \in BOOLEAN
    BY ConfigType DEF Init
  <2>2. \A h \in db : h >= First(config) => First(config) .. h \subseteq db
    BY DbsAssumption DEF Init
  <2>3. db \subseteq Nat
    BY DbsAssumption DEF Init
  <2> QED BY <2>1, <2>2, <2>3 DEF Init, Feed!Init
<1>2. TypeOK /\ IInv /\ Ahead /\ [Next]_vars => [Feed!Next]_Feed!vars
  BY NextIsFeed
<1> QED BY <1>1, <1>2, AlwaysAhead, Invariant, PTL DEF Spec, FeedPromise, Feed!Spec
=============================================================================
