----------------------------- MODULE TxnSubmit -----------------------------
(***************************************************************************)
(* The client's side of a transaction: SendRawTransaction() and Get() of   *)
(* the handler against the goroutine Submit() starts.  Both use the same   *)
(* TxnResp: the goroutine replaces its content with every message and      *)
(* fills done after the last; a handler that has waited too long writes an *)
(* error into whatever the content then is.  How the request fares between *)
(* the messages is the matter of TxnProcessor.                             *)
(***************************************************************************)
EXTENDS Integers

CONSTANTS
  Txns,       \* the raw transactions clients send
  TxnSender,  \* TxnSender[t]: the Ethereum account that signed it
  Mapper,     \* FunctionKeyMapper: "CRC32" or "RoundRobin"
  Crc32,      \* Crc32[s]: the checksum of a sender's address
  NumKeys,    \* len(tp.keys)
  AsyncModes  \* the values of AsyncSendRawTxs

ASSUME SubmitAssumption == /\ NumKeys \in Nat \ {0}
                           /\ \A t \in Txns : Crc32[TxnSender[t]] \in Nat

\* A message: the engine's success or failure, or an error.
Messages == {"success", "failure", "error"}

VARIABLES
  async,    \* AsyncSendRawTxs
  offset,   \* the counter of RoundRobinMapper
  index,    \* index[t]: req.processorIndex, or -1
  handler,  \* handler[t]: where the handler is
  waiting,  \* waiting[t]: where the goroutine is
  resp,     \* resp[t]: the message resp.txnResp holds
  stamped,  \* stamped[t]: its error is the one a timed-out Get has written
  done,     \* done[t]: the channel of one slot is filled
  told      \* told[t]: the result of the call
submitVars == <<async, offset, index, handler, waiting, resp, stamped, done, told>>

SubmitInit ==
  /\ async \in AsyncModes /\ offset = 0
  /\ index = [t \in Txns |-> -1] /\ handler = [t \in Txns |-> "new"]
  /\ waiting = [t \in Txns |-> "none"] /\ resp = [t \in Txns |-> "none"]
  /\ stamped = [t \in Txns |-> FALSE] /\ done = [t \in Txns |-> FALSE]
  /\ told = [t \in Txns |-> "none"]

\* Mutant of Counted: the receiver is a pointer.
CountedOnce(o) == o + 1

\* The counter after a call of Map(), whose value receiver makes rrMap()
\* increment a copy.
Counted(o) == o

MapTo(s) == (IF Mapper = "RoundRobin" THEN offset ELSE Crc32[s]) % NumKeys

\* NewTxnReq refuses what it cannot decode, whose sender it cannot recover, or
\* that offers too little gas or too low a price.
Refuse(t) == /\ handler[t] = "new"
             /\ handler' = [handler EXCEPT ![t] = "ended"]
             /\ told' = [told EXCEPT ![t] = "invalidParams"]
             /\ UNCHANGED <<async, offset, index, waiting, resp, stamped, done>>

\* In asynchronous mode the hash is the answer.
Accept(t) == /\ handler[t] = "new"
             /\ index' = [index EXCEPT ![t] = MapTo(TxnSender[t])]
             /\ offset' = IF Mapper = "RoundRobin" THEN Counted(offset) ELSE offset
             /\ waiting' = [waiting EXCEPT ![t] = "receive"]
             /\ handler' = [handler EXCEPT ![t] = IF async THEN "ended" ELSE "get"]
             /\ told' = [told EXCEPT ![t] = IF async THEN "hash" ELSE @]
             /\ UNCHANGED <<async, resp, stamped, done>>

-----------------------------------------------------------------------------
(* The goroutine of Submit.                                                *)

SetResp(t) == \E m \in Messages :
  /\ waiting[t] = "receive"
  /\ resp' = [resp EXCEPT ![t] = m] /\ stamped' = [stamped EXCEPT ![t] = FALSE]
  /\ waiting' = [waiting EXCEPT ![t] = "eval"]
  /\ UNCHANGED <<async, offset, index, handler, done, told>>

\* eval() may retry whatever carries an error, a stamped success included; it
\* may end the request in every case.
MayRetry(t) == resp[t] # "success" \/ stamped[t]

\* Mutant of Retried: Notify is called for every message.
RetriedNotify(t) == /\ waiting[t] = "eval" /\ MayRetry(t)
                    /\ waiting' = [waiting EXCEPT ![t] = "receive"]
                    /\ done' = [done EXCEPT ![t] = TRUE]
                    /\ UNCHANGED <<async, offset, index, handler, resp, stamped, told>>

Retried(t) == /\ waiting[t] = "eval" /\ MayRetry(t)
              /\ waiting' = [waiting EXCEPT ![t] = "receive"]
              /\ UNCHANGED <<async, offset, index, handler, resp, stamped, done, told>>

NotifyGet(t) == /\ waiting[t] = "eval"
                /\ waiting' = [waiting EXCEPT ![t] = "ended"]
                /\ done' = [done EXCEPT ![t] = TRUE]
                /\ UNCHANGED <<async, offset, index, handler, resp, stamped, told>>

-----------------------------------------------------------------------------
(* Get() of the handler.                                                   *)

GetTimesOut(t) == /\ handler[t] = "get"
                  /\ handler' = [handler EXCEPT ![t] = "late"]
                  /\ stamped' = [stamped EXCEPT ![t] = TRUE]
                  /\ UNCHANGED <<async, offset, index, waiting, resp, done, told>>

GetDone(t) == /\ handler[t] = "get" /\ done[t]
              /\ handler' = [handler EXCEPT ![t] = "read"]
              /\ done' = [done EXCEPT ![t] = FALSE]
              /\ UNCHANGED <<async, offset, index, waiting, resp, stamped, told>>

\* What Get returns it reads in two steps, of which the content may be replaced
\* in between; without an answer of the engine the handler makes an error of it.
GetReads(t) == /\ handler[t] \in {"late", "read"}
               /\ told' = [told EXCEPT ![t] = IF resp[t] = "none" THEN "error" ELSE resp[t]]
               /\ handler' = [handler EXCEPT ![t] = IF @ = "late" THEN "lateReply"
                                                    ELSE "reply"]
               /\ UNCHANGED <<async, offset, index, waiting, resp, stamped, done>>

GetReturns(t) ==
  /\ handler[t] \in {"lateReply", "reply"}
  /\ told' = [told EXCEPT ![t] = IF stamped[t] \/ resp[t] = "error" THEN "error" ELSE @]
  /\ handler' = [handler EXCEPT ![t] = IF @ = "lateReply" THEN "gaveUp" ELSE "ended"]
  /\ UNCHANGED <<async, offset, index, waiting, resp, stamped, done>>

SubmitEnd == /\ \A t \in Txns : /\ handler[t] \in {"ended", "gaveUp"}
                                /\ waiting[t] \in {"none", "ended"}
             /\ UNCHANGED submitVars

SubmitNext == \/ \E t \in Txns : \/ Refuse(t) \/ Accept(t) \/ SetResp(t) \/ Retried(t)
                                 \/ NotifyGet(t) \/ GetTimesOut(t) \/ GetDone(t)
                                 \/ GetReads(t) \/ GetReturns(t)
              \/ SubmitEnd

SubmitSpec == SubmitInit /\ [][SubmitNext]_submitVars

-----------------------------------------------------------------------------
\* A synchronous client that did not wait too long is told the final message,
\* never one in between: a transaction is not reported failed and then executed
\* by a retry.  (After a timeout the answer may be an intermediate one.)
ToldTheLast ==
  \A t \in Txns : handler[t] \in {"read", "reply", "ended"}
                  /\ told[t] \notin {"hash", "invalidParams"}
    => waiting[t] = "ended" /\ ~stamped[t] /\ (handler[t] # "read" => told[t] = resp[t])

\* "This ensures that same signers are mapped to same key": the cache entry of a
\* sender is written under one key's mutex only.  RoundRobinMapper has the
\* property because it does not count.
OneKeyPerSender ==
  \A t, u \in Txns : TxnSender[t] = TxnSender[u] /\ index[t] # -1 /\ index[u] # -1
                     => index[t] = index[u]
=============================================================================
