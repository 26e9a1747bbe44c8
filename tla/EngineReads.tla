---------------------------- MODULE EngineReads ----------------------------
(***************************************************************************)
(* The read path: middleware/proxy.go, endpoint/engineEth.go and           *)
(* account/account.go.  A query is relayed to a remote server or finds its *)
(* block number, chooses between the regular and the archival NEAR node by *)
(* the height of the relayer's own database, asks that node, and turns     *)
(* some of its errors into a zero answer.  Meanwhile the chain grows, the  *)
(* indexer follows, and the regular node forgets old blocks.               *)
(***************************************************************************)
EXTENDS Integers

CONSTANTS
  Queries,    \* the queries clients make
  Proxied,    \* the methods in ProxyEndpoints
  Epoch,      \* epochDurationToUseArchivalNode
  Kept,       \* how many blocks the regular node keeps
  MaxLag,     \* how far the chain can be ahead of the height a query has read
  AuroraFrom, \* the first block the Aurora account exists in
  FirstHead,  \* the head of the chain when the process starts
  MaxHeight   \* bound on the height of the chain

ASSUME HeightsAssumption == /\ {Epoch, Kept, MaxLag, AuroraFrom} \subseteq Nat
                            /\ {FirstHead, MaxHeight} \subseteq Nat
\* NEAR nodes keep five epochs, the code asks for one.
ASSUME KeptAssumption == Epoch + MaxLag <= Kept /\ Kept > 0

Latest == -1    \* common.LatestBlockNumber
NoHeight == -2  \* no height was read

\* Methods with a zero answer, and those without.
ZeroMethods == {"eth_getBalance", "eth_getCode", "eth_getStorageAt",
                "eth_getTransactionCount"}
Methods == ZeroMethods \cup {"eth_call", "eth_chainId"}

VARIABLES
  chainHead,  \* the head of the NEAR nodes
  dbHeight,   \* the last block of the relayer's database, or NoHeight
  step,       \* step[q]: how far the query is
  method,     \* method[q]
  block,      \* block[q]: bn
  height,     \* height[q]: the database height shouldUseArchival read
  node,       \* node[q]: the node to be asked
  answer,     \* answer[q]
  headThen    \* headThen[q]: the head when the node answered (history)
heightVars == <<chainHead, dbHeight>>
readsVars == <<heightVars, step, method, block, height, node, answer, headThen>>

ReadsInit ==
  /\ chainHead = FirstHead /\ dbHeight \in {FirstHead, NoHeight}
  /\ step = [q \in Queries |-> "new"] /\ method = [q \in Queries |-> "none"]
  /\ block = [q \in Queries |-> Latest] /\ height = [q \in Queries |-> NoHeight]
  /\ node = [q \in Queries |-> "none"] /\ answer = [q \in Queries |-> "none"]
  /\ headThen = [q \in Queries |-> 0]

Conclude(q, a) == /\ answer' = [answer EXCEPT ![q] = a]
                 /\ step' = [step EXCEPT ![q] = "done"]

\* The Proxy middleware; what is not proxied goes on to the endpoint.
Relay(q) == \E m \in Methods :
  /\ step[q] = "new"
  /\ method' = [method EXCEPT ![q] = m]
  /\ IF m \in Proxied
     THEN \E a \in {"remote", "error"} : Conclude(q, a)
     ELSE /\ step' = [step EXCEPT ![q] = "resolve"]
          /\ UNCHANGED answer
  /\ UNCHANGED <<heightVars, block, height, node, headThen>>

\* blockNumberByNumberOrHash: no argument or "latest", a number (the client's,
\* so it may be in the future), or a hash the database knows; anything else
\* is an error.
Resolve(q) ==
  /\ step[q] = "resolve"
  /\ \/ /\ \E n \in {Latest} \cup (IF method[q] = "eth_chainId" THEN {} ELSE 0 .. MaxHeight) :
             block' = [block EXCEPT ![q] = n]
        /\ step' = [step EXCEPT ![q] = "choose"]
        /\ UNCHANGED answer
     \/ /\ method[q] # "eth_chainId"
        /\ Conclude(q, "error")
        /\ UNCHANGED block
  /\ UNCHANGED <<heightVars, method, height, node, headThen>>

\* Mutant of UseArchival: the archival node only for what is surely forgotten.
UseArchivalLate(bn, bh) == bn # Latest /\ bn <= bh - Kept - 1

\* shouldUseArchival, for a height that was read.
UseArchival(bn, bh) == bn # Latest /\ bn <= bh - Epoch

\* The database may fail; an empty one returns no height, which the code
\* dereferences: the handler panics.
ChooseNode(q) ==
  /\ step[q] = "choose"
  /\ \/ /\ block[q] = Latest \/ dbHeight # NoHeight
        /\ height' = [height EXCEPT ![q] = IF block[q] = Latest THEN NoHeight ELSE dbHeight]
        /\ node' = [node EXCEPT ![q] = IF UseArchival(block[q], dbHeight) THEN "archival"
                                       ELSE "regular"]
        /\ step' = [step EXCEPT ![q] = "ask"]
        /\ UNCHANGED answer
     \/ /\ block[q] # Latest
        /\ node' = [node EXCEPT ![q] = "archival"]
        /\ step' = [step EXCEPT ![q] = "ask"]
        /\ UNCHANGED <<height, answer>>
     \/ /\ block[q] # Latest /\ dbHeight = NoHeight
        /\ Conclude(q, "panic")
        /\ UNCHANGED <<height, node>>
  /\ UNCHANGED <<heightVars, method, block, headThen>>

Asked(q) == IF block[q] = Latest THEN chainHead ELSE block[q]

\* What a node makes of a view call at a block.
NodeSays(q) ==
  IF Asked(q) > chainHead \/ (node[q] = "regular" /\ Asked(q) <= chainHead - Kept)
  THEN "DB Not Found Error"
  ELSE IF Asked(q) < AuroraFrom THEN "does not exist while viewing"
  ELSE "value"

\* The error handling of the methods of Account.
AnswerTo(m, says) ==
  CASE says = "value" -> "value"
    [] says \in {"DB Not Found Error", "does not exist while viewing"}
       /\ m \in ZeroMethods -> "zero"
    [] says = "429" /\ m = "eth_getTransactionCount" -> "tooManyRequests"
    [] OTHER -> "error"

Ask(q) == /\ step[q] = "ask"
          /\ \E says \in {NodeSays(q), "429", "other"} : Conclude(q, AnswerTo(method[q], says))
          /\ headThen' = [headThen EXCEPT ![q] = chainHead]
          /\ UNCHANGED <<heightVars, method, block, height, node>>

-----------------------------------------------------------------------------
(* The chain and the indexer.                                              *)

\* MaxLag bounds the blocks between the height a query has read and the chain
\* when the node answers: the indexer's lag and the duration of the query.
ChainGrows ==
  /\ chainHead < MaxHeight
  /\ dbHeight # NoHeight => chainHead + 1 - dbHeight <= MaxLag
  /\ \A q \in Queries : step[q] = "ask" /\ height[q] # NoHeight
                        => chainHead + 1 - height[q] <= MaxLag
  /\ chainHead' = chainHead + 1
  /\ UNCHANGED <<dbHeight, step, method, block, height, node, answer, headThen>>

DbFollows == /\ dbHeight < chainHead
             /\ IF dbHeight = NoHeight
                THEN dbHeight' \in {h \in 0 .. chainHead : chainHead - h <= MaxLag}
                ELSE dbHeight' = dbHeight + 1
             /\ UNCHANGED <<chainHead, step, method, block, height, node, answer, headThen>>

ReadsEnd == /\ \A q \in Queries : step[q] = "done"
            /\ UNCHANGED readsVars

ReadsNext == \/ \E q \in Queries : Relay(q) \/ Resolve(q) \/ ChooseNode(q) \/ Ask(q)
             \/ ChainGrows \/ DbFollows \/ ReadsEnd

ReadsSpec == ReadsInit /\ [][ReadsNext]_readsVars

-----------------------------------------------------------------------------
\* "Return 0x0 for the blocks before Aurora account or before Genesis": a zero
\* is never the answer for a block in which the account existed, that is, the
\* regular node is never asked for a block it has forgotten, although the choice
\* is made by a height that may be stale when the node answers.
ZeroOnlyBeforeAurora ==
  \A q \in Queries : answer[q] = "zero" =>
    LET b == IF block[q] = Latest THEN headThen[q] ELSE block[q]
    IN  b < AuroraFrom \/ b > headThen[q]
=============================================================================
