---------------------------- MODULE TxnProcessor ----------------------------
(***************************************************************************)
(* The transaction processor of account/txnProcessor.go.                   *)
(*                                                                         *)
(* For every function-call key the processor keeps an unordered queue, an  *)
(* ordered queue, one sort worker, one send worker, a mutex (retryMutex)   *)
(* and a circuit breaker.  sort() moves a request to the ordered queue     *)
(* when its Ethereum nonce is the next one of its sender; send() hands it  *)
(* to NEAR in a goroutine of its own; the goroutine that Submit() started  *)
(* for the request evaluates the answer and either retries the request or  *)
(* finishes it.  The mutex is a boolean without an owner, as in Go, so     *)
(* mutual exclusion is a property of the model and not of its shape.       *)
(*                                                                         *)
(* NEAR, the Aurora engine behind it and the clock are the environment:    *)
(* they execute, refuse, lose or delay an attempt, and answer view calls.  *)
(* Near access-key nonces are abstracted to whether one is cached.         *)
(***************************************************************************)
EXTENDS Integers, Sequences, FiniteSets

CONSTANTS
  Reqs,       \* the transaction requests clients may submit
  Senders,    \* the Ethereum accounts that sign them
  Keys,       \* the function-call keys, one processor index each
  SenderOf,   \* SenderOf[r]: req.sender
  NonceOf,    \* NonceOf[r]: req.nonce
  KeyOf,      \* KeyOf[s]: the key TxnMapper maps the sender to
  QCap,       \* qCap, the capacity of each queue
  InitNonce,  \* the nonce of each sender when the process starts
  Rivals,     \* <<sender, nonce>> pairs another relayer may consume
  Faults,     \* the faults the environment may inject in this instance
  NoReq       \* the worker holds no request

RpcRefusals == {"InvalidNonce", "NonceTooLarge", "Panicked", "OtherFailure"}
RpcLosses   == {"Timeout", "OtherError"}
ViewFaults  == {"ViewError", "StaleView"}

ASSUME SendersAssumption == SenderOf \in [Reqs -> Senders]
ASSUME NoncesAssumption  == NonceOf \in [Reqs -> Nat] /\ InitNonce \in Nat
ASSUME KeysAssumption    == KeyOf \in [Senders -> Keys]
ASSUME QCapAssumption    == QCap \in Nat \ {0}
ASSUME RivalsAssumption  == Rivals \subseteq Senders \X Nat
ASSUME NoReqAssumption   == NoReq \notin Reqs
ASSUME FaultsAssumption  ==
  Faults \subseteq RpcRefusals \cup RpcLosses \cup ViewFaults \cup {"Expire"}

Key(r) == KeyOf[SenderOf[r]]

NoEntry == -1      \* the sender has no entry in ethNonceCache

VARIABLES
  unordered,   \* unordered[k]: the channel of the sort worker
  ordered,     \* ordered[k]: the channel of the send worker
  sortAt,      \* sortAt[k]: where the sort worker is
  sortReq,     \* sortReq[k]: the request it holds
  sendAt,      \* sendAt[k]: where the send worker is
  sendReq,     \* sendReq[k]: the request it holds
  locked,      \* locked[k]: retryMutex[k] is held
  breaker,     \* circuitBreaker[k]
  ethNonce,    \* ethNonceCache[s].nonce, or NoEntry
  recent,      \* recent[s]: the entry was refreshed less than 2s ago
  nearKnown,   \* nearKnown[k]: nearNonceCache has an entry for the key
  timers,      \* requests held by a time.AfterFunc of sort()
  rpc,         \* rpc[r]: the call in flight, with NEAR's verdict once there is one
  stray,       \* requests with an abandoned attempt NEAR may still execute
  chainNonce,  \* chainNonce[s]: the sender's nonce on chain
  executed,    \* requests whose transaction was executed
  respChan,    \* respChan[r]: the channel of capacity 1, or "Empty"
  waiter,      \* waiter[r]: where the goroutine started by Submit is
  status,      \* status[r]: resp.status as eval classified it
  again,       \* again[r]: the result of eval
  retransmit,  \* retransmit[r]: req.retransmit
  expired      \* expired[r]: req.Expired()

queueVars  == <<unordered, ordered, timers>>
workerVars == <<sortAt, sortReq, sendAt, sendReq>>
cacheVars  == <<ethNonce, recent, nearKnown>>
guardVars  == <<locked, breaker>>
chainVars  == <<stray, chainNonce, executed>>
evalVars   == <<waiter, status, again, retransmit>>
vars == <<queueVars, workerVars, cacheVars, guardVars, chainVars, evalVars,
          rpc, respChan, expired>>

-----------------------------------------------------------------------------
(* Answers and what eval() makes of them.                                  *)

\* What the goroutine of send() can find: NEAR's answers, with an empty status.
Answers == {"Success", "EthNonceError"} \cup RpcRefusals \cup RpcLosses
\* What RespondWithStatus is called with: the status is already known.
OwnStatuses == {"Any", "Reorder", "NearNonceError", "EthNonceTooLow",
                "Exhausted", "TimeOutError3"}
Statuses == OwnStatuses \cup
            {"Success", "SuccessRetransmit", "EthNonceError", "Panicked",
             "NearNonceTooLarge", "NearTimeOutError", "UnhandledError"}

\* The classification at the head of eval().
StatusOf(m) == CASE m = "InvalidNonce"  -> "NearNonceError"
                 [] m = "NonceTooLarge" -> "NearNonceTooLarge"
                 [] m = "Timeout"       -> "NearTimeOutError"
                 [] m = "OtherError"    -> "UnhandledError"
                 [] m = "OtherFailure"  -> "Any"
                 [] OTHER               -> m

\* The answers after which the request counts as sent once already.
SetsRetransmit == {"NearNonceError", "Timeout"}

\* Mutant of Retries: a low nonce is final, as a comment in sort() suggests.
RetriesNotLow == {"EthNonceError", "NearNonceError", "NearNonceTooLarge", "Reorder",
                  "NearTimeOutError"}

\* statusActions: which statuses retry, which refresh the Ethereum nonce.
Retries   == {"EthNonceError", "EthNonceTooLow", "NearNonceError",
              "NearNonceTooLarge", "Reorder", "NearTimeOutError"}
Refreshes == {"EthNonceError", "EthNonceTooLow", "NearNonceError",
              "NearNonceTooLarge", "UnhandledError", "Panicked"}

Init ==
  /\ unordered = [k \in Keys |-> <<>>] /\ ordered = [k \in Keys |-> <<>>]
  /\ timers = {}
  /\ sortAt = [k \in Keys |-> "idle"] /\ sortReq = [k \in Keys |-> NoReq]
  /\ sendAt = [k \in Keys |-> "idle"] /\ sendReq = [k \in Keys |-> NoReq]
  /\ locked = [k \in Keys |-> FALSE] /\ breaker = [k \in Keys |-> FALSE]
  /\ ethNonce = [s \in Senders |-> NoEntry]
  /\ recent = [s \in Senders |-> FALSE]
  /\ nearKnown = [k \in Keys |-> FALSE]
  /\ rpc = [r \in Reqs |-> "idle"]
  /\ stray = {} /\ executed = {}
  /\ chainNonce = [s \in Senders |-> InitNonce]
  /\ respChan = [r \in Reqs |-> "Empty"]
  /\ waiter = [r \in Reqs |-> "new"] /\ status = [r \in Reqs |-> "Any"]
  /\ again = [r \in Reqs |-> FALSE] /\ retransmit = [r \in Reqs |-> FALSE]
  /\ expired = [r \in Reqs |-> FALSE]

-----------------------------------------------------------------------------
(* Helpers shared by the handlers.                                         *)

\* Mutant of Full: off by one.
FullLate(q) == Len(q) > QCap

Full(q) == Len(q) >= QCap

Enqueue(qs, k, r) == [qs EXCEPT ![k] = Append(@, r)]

\* RespondWithStatus and Respond: the channel has room for one message, so a
\* second message blocks its sender.
Respond(r, m) == /\ respChan[r] = "Empty"
                 /\ respChan' = [respChan EXCEPT ![r] = m]

\* What a view of get_nonce can return: nodes may lag behind the chain.
ViewedNonces(s) == IF "StaleView" \in Faults THEN InitNonce .. chainNonce[s]
                                             ELSE {chainNonce[s]}

\* Mutant of RefreshEthNonce: a refresh skipped within the interval counts.
RefreshAssumed(s, updated) ==
  /\ updated
  /\ \/ recent[s] /\ UNCHANGED <<ethNonce, recent>>
     \/ /\ ~recent[s]
        /\ \E n \in ViewedNonces(s) : ethNonce' = [ethNonce EXCEPT ![s] = n]
        /\ recent' = [recent EXCEPT ![s] = TRUE]

\* updateEthNonceCache: nothing within two seconds of the last refresh or when
\* the view call fails, otherwise the cache takes the nonce that was viewed.
RefreshEthNonce(s, updated) ==
  \/ /\ ~updated
     /\ recent[s] \/ "ViewError" \in Faults
     /\ UNCHANGED <<ethNonce, recent>>
  \/ /\ updated
     /\ ~recent[s]
     /\ \E n \in ViewedNonces(s) : ethNonce' = [ethNonce EXCEPT ![s] = n]
     /\ recent' = [recent EXCEPT ![s] = TRUE]

-----------------------------------------------------------------------------
(* Submit(): the waiter goroutine starts and the request is enqueued.      *)

Submit(r) == /\ waiter[r] = "new"
             /\ ~Full(unordered[Key(r)])
             /\ waiter' = [waiter EXCEPT ![r] = "wait"]
             /\ unordered' = Enqueue(unordered, Key(r), r)
             /\ UNCHANGED <<ordered, timers, workerVars, cacheVars, guardVars,
                            chainVars, status, again, retransmit, rpc, respChan,
                            expired>>

-----------------------------------------------------------------------------
(* The sort worker of key k: the channel receive, then sort().             *)

SortTake(k) == /\ sortAt[k] = "idle"
               /\ unordered[k] # <<>>
               /\ sortAt' = [sortAt EXCEPT ![k] = "lock"]
               /\ sortReq' = [sortReq EXCEPT ![k] = Head(unordered[k])]
               /\ unordered' = [unordered EXCEPT ![k] = Tail(@)]
               /\ UNCHANGED <<ordered, timers, sendAt, sendReq, cacheVars,
                              guardVars, chainVars, evalVars, rpc, respChan, expired>>

SortDone(k) == /\ sortAt' = [sortAt EXCEPT ![k] = "idle"]
               /\ sortReq' = [sortReq EXCEPT ![k] = NoReq]

\* sort() holds retryMutex while it blocks on the ordered queue ("push") or on
\* the view call ("refresh"); its other branches lock and unlock in one step.
SortStay(k, at) == /\ sortAt' = [sortAt EXCEPT ![k] = at]
                   /\ locked' = [locked EXCEPT ![k] = TRUE]
                   /\ UNCHANGED sortReq

\* Mutant of SortReady: sort() does not lock.
SortUnguarded(k, r) == sortAt[k] = "lock" /\ r = sortReq[k]

SortReady(k, r) == /\ sortAt[k] = "lock"
                   /\ ~locked[k]
                   /\ r = sortReq[k]

SortExpired(k) == \E r \in Reqs :
  /\ SortReady(k, r)
  /\ expired[r]
  /\ Respond(r, "TimeOutError3")
  /\ SortDone(k)
  /\ UNCHANGED <<queueVars, sendAt, sendReq, cacheVars, guardVars, chainVars,
                 evalVars, rpc, expired>>

\* On a cache miss the first nonce received is taken to be the right one.
SortAdmit(k) == \E r \in Reqs :
  /\ SortReady(k, r)
  /\ ~expired[r]
  /\ ethNonce[SenderOf[r]] \in {NoEntry, NonceOf[r]}
  /\ ethNonce' = [ethNonce EXCEPT ![SenderOf[r]] = NonceOf[r] + 1]
  /\ SortStay(k, "push")
  /\ UNCHANGED <<queueVars, sendAt, sendReq, recent, nearKnown, breaker, chainVars,
                 evalVars, rpc, respChan, expired>>

SortRetransmit(k) == \E r \in Reqs :
  /\ SortReady(k, r)
  /\ ~expired[r]
  /\ ethNonce[SenderOf[r]] \notin {NoEntry, NonceOf[r]}
  /\ retransmit[r]
  /\ SortStay(k, "push")
  /\ UNCHANGED <<queueVars, sendAt, sendReq, cacheVars, breaker, chainVars,
                 evalVars, rpc, respChan, expired>>

SortPush(k) == /\ sortAt[k] = "push"
               /\ ~Full(ordered[k])
               /\ ordered' = Enqueue(ordered, k, sortReq[k])
               /\ locked' = [locked EXCEPT ![k] = FALSE]
               /\ SortDone(k)
               /\ UNCHANGED <<unordered, timers, sendAt, sendReq, cacheVars, breaker,
                              chainVars, evalVars, rpc, respChan, expired>>

SortTooLow(k) == \E r \in Reqs :
  /\ SortReady(k, r)
  /\ ~expired[r]
  /\ ~retransmit[r]
  /\ ethNonce[SenderOf[r]] > NonceOf[r]
  /\ Respond(r, "EthNonceTooLow")
  /\ SortDone(k)
  /\ UNCHANGED <<queueVars, sendAt, sendReq, cacheVars, guardVars, chainVars,
                 evalVars, rpc, expired>>

\* The timer is armed first, so the request may be enqueued again while the
\* worker still waits for the view call.
SortTooHigh(k) == \E r \in Reqs :
  /\ SortReady(k, r)
  /\ ~expired[r]
  /\ ~retransmit[r]
  /\ ethNonce[SenderOf[r]] # NoEntry
  /\ ethNonce[SenderOf[r]] < NonceOf[r]
  /\ timers' = timers \cup {r}
  /\ SortStay(k, "refresh")
  /\ UNCHANGED <<unordered, ordered, sendAt, sendReq, cacheVars, breaker, chainVars,
                 evalVars, rpc, respChan, expired>>

SortRefresh(k) ==
  /\ sortAt[k] = "refresh"
  /\ \E updated \in BOOLEAN : RefreshEthNonce(SenderOf[sortReq[k]], updated)
  /\ locked' = [locked EXCEPT ![k] = FALSE]
  /\ SortDone(k)
  /\ UNCHANGED <<queueVars, sendAt, sendReq, nearKnown, breaker, chainVars, evalVars,
                 rpc, respChan, expired>>

\* Mutant of TimerFire: nobody answers when the queue is full.
TimerDrops(r) ==
  /\ r \in timers
  /\ timers' = timers \ {r}
  /\ unordered' = IF Full(unordered[Key(r)]) THEN unordered
                                             ELSE Enqueue(unordered, Key(r), r)
  /\ UNCHANGED <<ordered, workerVars, cacheVars, guardVars, chainVars, evalVars,
                 rpc, respChan, expired>>

\* Mutant of TimerFire: the callback blocks on a full queue, as Submit() does.
TimerBlocks(r) ==
  /\ r \in timers
  /\ timers' = timers \ {r}
  /\ ~Full(unordered[Key(r)])
  /\ unordered' = Enqueue(unordered, Key(r), r)
  /\ UNCHANGED <<ordered, workerVars, cacheVars, guardVars, chainVars, evalVars,
                 rpc, respChan, expired>>

\* The callback of time.AfterFunc.
TimerFire(r) ==
  /\ r \in timers
  /\ timers' = timers \ {r}
  /\ \/ /\ ~Full(unordered[Key(r)])
        /\ unordered' = Enqueue(unordered, Key(r), r)
        /\ UNCHANGED respChan
     \/ /\ Full(unordered[Key(r)])
        /\ Respond(r, "Exhausted")
        /\ UNCHANGED unordered
  /\ UNCHANGED <<ordered, workerVars, cacheVars, guardVars, chainVars, evalVars,
                 rpc, expired>>

-----------------------------------------------------------------------------
(* The send worker of key k.  It does not take retryMutex: the breaker is  *)
(* read once ("check"), and the Near nonce is taken later ("armed").       *)

SendTake(k) == /\ sendAt[k] = "idle"
               /\ ordered[k] # <<>>
               /\ sendAt' = [sendAt EXCEPT ![k] = "check"]
               /\ sendReq' = [sendReq EXCEPT ![k] = Head(ordered[k])]
               /\ ordered' = [ordered EXCEPT ![k] = Tail(@)]
               /\ UNCHANGED <<unordered, timers, sortAt, sortReq, cacheVars,
                              guardVars, chainVars, evalVars, rpc, respChan, expired>>

SendDone(k) == /\ sendAt' = [sendAt EXCEPT ![k] = "idle"]
               /\ sendReq' = [sendReq EXCEPT ![k] = NoReq]

SendRespond(k, at, m) == /\ sendAt[k] = at
                         /\ Respond(sendReq[k], m)
                         /\ SendDone(k)
                         /\ UNCHANGED <<queueVars, sortAt, sortReq, cacheVars,
                                        guardVars, chainVars, evalVars, rpc, expired>>

SendReorder(k) == breaker[k] /\ SendRespond(k, "check", "Reorder")

SendExpired(k) == /\ sendAt[k] = "check"
                  /\ ~breaker[k]
                  /\ expired[sendReq[k]]
                  /\ SendRespond(k, "check", "TimeOutError3")

SendPass(k) == /\ sendAt[k] = "check"
               /\ ~breaker[k]
               /\ ~expired[sendReq[k]]
               /\ sendAt' = [sendAt EXCEPT ![k] = "armed"]
               /\ UNCHANGED <<queueVars, sortAt, sortReq, sendReq, cacheVars, guardVars,
                              chainVars, evalVars, rpc, respChan, expired>>

\* nextNearNonce calls NEAR only when the key has no cache entry yet.
SendNonceError(k) == /\ ~nearKnown[k]
                     /\ "ViewError" \in Faults
                     /\ SendRespond(k, "armed", "NearNonceError")

SendLaunch(k) == /\ sendAt[k] = "armed"
                 /\ nearKnown' = [nearKnown EXCEPT ![k] = TRUE]
                 /\ rpc' = [rpc EXCEPT ![sendReq[k]] = "sent"]
                 /\ SendDone(k)
                 /\ UNCHANGED <<queueVars, sortAt, sortReq, ethNonce, recent, guardVars,
                                chainVars, evalVars, respChan, expired>>

-----------------------------------------------------------------------------
(* NEAR and the Aurora engine: an attempt executes exactly when it carries *)
(* the sender's next nonce.                                                *)

Execute(r) == /\ chainNonce[SenderOf[r]] = NonceOf[r]
              /\ chainNonce' = [chainNonce EXCEPT ![SenderOf[r]] = @ + 1]
              /\ executed' = executed \cup {r}

NearRun(r) ==
  /\ rpc[r] = "sent"
  /\ \/ /\ Execute(r)
        /\ rpc' = [rpc EXCEPT ![r] = "Success"]
     \/ /\ chainNonce[SenderOf[r]] # NonceOf[r]
        /\ rpc' = [rpc EXCEPT ![r] = "EthNonceError"]
        /\ UNCHANGED <<chainNonce, executed>>
  /\ UNCHANGED <<queueVars, workerVars, cacheVars, guardVars, stray, evalVars,
                 respChan, expired>>

NearReply(r) == /\ rpc[r] \in {"Success", "EthNonceError"}
                /\ Respond(r, rpc[r])
                /\ rpc' = [rpc EXCEPT ![r] = "idle"]
                /\ UNCHANGED <<queueVars, workerVars, cacheVars, guardVars, chainVars,
                               evalVars, expired>>

NearRefuse(r) == /\ rpc[r] = "sent"
                 /\ \E o \in RpcRefusals \cap Faults : Respond(r, o)
                 /\ rpc' = [rpc EXCEPT ![r] = "idle"]
                 /\ UNCHANGED <<queueVars, workerVars, cacheVars, guardVars,
                                chainVars, evalVars, expired>>

\* The caller gives up on the attempt without learning its fate: it has been
\* executed, or it may still be, or it never will.
NearLose(r) == /\ rpc[r] # "idle"
               /\ \E o \in RpcLosses \cap Faults : Respond(r, o)
               /\ stray' = IF rpc[r] = "sent" THEN stray \cup {r} ELSE stray
               /\ rpc' = [rpc EXCEPT ![r] = "idle"]
               /\ UNCHANGED <<queueVars, workerVars, cacheVars, guardVars, chainNonce,
                              executed, evalVars, expired>>

StrayRun(r) == /\ r \in stray
               /\ Execute(r)
               /\ stray' = stray \ {r}
               /\ UNCHANGED <<queueVars, workerVars, cacheVars, guardVars, evalVars,
                              rpc, respChan, expired>>

RivalRun(s) == /\ <<s, chainNonce[s]>> \in Rivals
               /\ chainNonce' = [chainNonce EXCEPT ![s] = @ + 1]
               /\ UNCHANGED <<queueVars, workerVars, cacheVars, guardVars, stray,
                              executed, evalVars, rpc, respChan, expired>>

-----------------------------------------------------------------------------
(* The waiter goroutine of r: receive, eval(), retry or finish.            *)

EvalTake(r) ==
  /\ waiter[r] = "wait"
  /\ respChan[r] # "Empty"
  /\ LET st == StatusOf(respChan[r]) IN
     /\ status' = [status EXCEPT ![r] = st]
     /\ again' = [again EXCEPT ![r] = st \in Retries]
     /\ waiter' = [waiter EXCEPT ![r] = IF st \in Refreshes THEN "lock" ELSE "decide"]
  /\ retransmit' = [retransmit EXCEPT ![r] = @ \/ respChan[r] \in SetsRetransmit]
  /\ respChan' = [respChan EXCEPT ![r] = "Empty"]
  /\ UNCHANGED <<queueVars, workerVars, cacheVars, guardVars, chainVars, rpc, expired>>

EvalStep(r, from, to) == /\ waiter[r] = from
                         /\ waiter' = [waiter EXCEPT ![r] = to]

EvalLock(r) == /\ EvalStep(r, "lock", "eth")
               /\ ~locked[Key(r)]
               /\ locked' = [locked EXCEPT ![Key(r)] = TRUE]
               /\ breaker' = [breaker EXCEPT ![Key(r)] = TRUE]
               /\ UNCHANGED <<queueVars, workerVars, cacheVars, chainVars, status, again,
                              retransmit, rpc, respChan, expired>>

\* No refresh forces a retry.  After a refresh that shows the nonce consumed,
\* an ERR_INCORRECT_NONCE after a retransmission is reported as a success, any
\* other status as it is.
EvalRefresh(r) ==
  /\ EvalStep(r, "eth", "unlock")
  /\ \E updated \in BOOLEAN :
       /\ RefreshEthNonce(SenderOf[r], updated)
       /\ LET spent == updated /\ ethNonce'[SenderOf[r]] > NonceOf[r]
              landed == spent /\ retransmit[r] /\ status[r] = "EthNonceError"
          IN /\ again' = [again EXCEPT ![r] = ~updated \/ (@ /\ ~spent)]
             /\ status' = [status EXCEPT ![r] = IF landed THEN "SuccessRetransmit" ELSE @]
             /\ IF landed THEN Respond(r, "Any") ELSE UNCHANGED respChan
  /\ UNCHANGED <<queueVars, workerVars, nearKnown, guardVars, chainVars, retransmit,
                 rpc, expired>>

\* Mutant of EvalUnlock: the deferred function only resets the breaker.
EvalNoUnlock(r) == /\ EvalStep(r, "unlock", "clear")
                   /\ UNCHANGED <<queueVars, workerVars, cacheVars, guardVars, chainVars,
                                  status, again, retransmit, rpc, respChan, expired>>

\* The deferred function unlocks first and resets the breaker afterwards.
EvalUnlock(r) == /\ EvalStep(r, "unlock", "clear")
                 /\ locked' = [locked EXCEPT ![Key(r)] = FALSE]
                 /\ UNCHANGED <<queueVars, workerVars, cacheVars, breaker, chainVars,
                                status, again, retransmit, rpc, respChan, expired>>

\* Mutant of EvalClear: the deferred function only unlocks.
EvalNoClear(r) == /\ EvalStep(r, "clear", "decide")
                  /\ UNCHANGED <<queueVars, workerVars, cacheVars, guardVars, chainVars,
                                 status, again, retransmit, rpc, respChan, expired>>

EvalClear(r) == /\ EvalStep(r, "clear", "decide")
                /\ breaker' = [breaker EXCEPT ![Key(r)] = FALSE]
                /\ UNCHANGED <<queueVars, workerVars, cacheVars, locked, chainVars,
                               status, again, retransmit, rpc, respChan, expired>>

\* The content of resp is dead until the next message replaces it whole (Set).
Retry(r) == /\ again[r]
            /\ ~Full(unordered[Key(r)])
            /\ EvalStep(r, "decide", "wait")
            /\ unordered' = Enqueue(unordered, Key(r), r)
            /\ status' = [status EXCEPT ![r] = "Any"]
            /\ again' = [again EXCEPT ![r] = FALSE]
            /\ UNCHANGED <<ordered, timers, workerVars, cacheVars, guardVars, chainVars,
                           retransmit, rpc, respChan, expired>>

\* resp.Notify: eval asked for no retry, or the unordered queue is full.
Finish(r) == /\ again[r] => Full(unordered[Key(r)])
             /\ EvalStep(r, "decide", "done")
             /\ UNCHANGED <<queueVars, workerVars, cacheVars, guardVars, chainVars,
                            status, again, retransmit, rpc, respChan, expired>>

-----------------------------------------------------------------------------
(* Time.                                                                   *)

\* 60 seconds have passed since NewTxnReq.
Expire(r) == /\ "Expire" \in Faults
             /\ waiter[r] \notin {"new", "done"}
             /\ ~expired[r]
             /\ expired' = [expired EXCEPT ![r] = TRUE]
             /\ UNCHANGED <<queueVars, workerVars, cacheVars, guardVars, chainVars,
                            evalVars, rpc, respChan>>

\* Two seconds have passed since the last refresh.
CacheCools(s) == /\ recent[s]
                 /\ recent' = [recent EXCEPT ![s] = FALSE]
                 /\ UNCHANGED <<queueVars, workerVars, ethNonce, nearKnown, guardVars,
                                chainVars, evalVars, rpc, respChan, expired>>

Terminating == /\ \A r \in Reqs : waiter[r] = "done"
               /\ UNCHANGED vars

-----------------------------------------------------------------------------
SortSettle(k) == \/ SortExpired(k) \/ SortAdmit(k) \/ SortRetransmit(k)
                 \/ SortTooLow(k) \/ SortTooHigh(k)
SortStep(k) == SortTake(k) \/ SortSettle(k) \/ SortPush(k) \/ SortRefresh(k)

SendStep(k) == \/ SendTake(k) \/ SendReorder(k) \/ SendExpired(k) \/ SendPass(k)
               \/ SendNonceError(k) \/ SendLaunch(k)

NearStep(r) == NearRun(r) \/ NearReply(r) \/ NearRefuse(r) \/ NearLose(r)

EvalEnds(r) == Retry(r) \/ Finish(r)
EvalMoves(r) == EvalTake(r) \/ EvalRefresh(r) \/ EvalUnlock(r) \/ EvalClear(r)

Next == \/ \E k \in Keys : SortStep(k) \/ SendStep(k)
        \/ \E r \in Reqs : \/ Submit(r) \/ TimerFire(r) \/ NearStep(r) \/ StrayRun(r)
                           \/ EvalMoves(r) \/ EvalLock(r) \/ EvalEnds(r) \/ Expire(r)
        \/ \E s \in Senders : RivalRun(s) \/ CacheCools(s)
        \/ Terminating

Spec == Init /\ [][Next]_vars

\* Goroutines are scheduled, sync.Mutex hands over to the longest waiter, timers
\* fire, every call to NEAR returns (the RPC client times out), time passes.
\* Nothing makes a stray attempt or a rival run, nor a client submit.
Fairness ==
  /\ \A k \in Keys : /\ WF_vars(SortTake(k) \/ SortPush(k) \/ SortRefresh(k))
                     /\ SF_vars(SortSettle(k))
                     /\ WF_vars(SendStep(k))
  /\ \A r \in Reqs : /\ WF_vars(TimerFire(r)) /\ WF_vars(NearStep(r))
                     /\ WF_vars(EvalMoves(r)) /\ SF_vars(EvalLock(r))
                     /\ WF_vars(EvalEnds(r)) /\ WF_vars(Expire(r))
  /\ \A s \in Senders : WF_vars(CacheCools(s))

LiveSpec == Spec /\ Fairness

-----------------------------------------------------------------------------
(* Properties.                                                             *)

QueueTypes ==
  /\ unordered \in [Keys -> Seq(Reqs)] /\ ordered \in [Keys -> Seq(Reqs)]
  /\ \A k \in Keys : Len(unordered[k]) <= QCap /\ Len(ordered[k]) <= QCap
  /\ timers \subseteq Reqs
WorkerTypes ==
  /\ sortAt \in [Keys -> {"idle", "lock", "push", "refresh"}]
  /\ sortReq \in [Keys -> Reqs \cup {NoReq}]
  /\ \A k \in Keys : sortReq[k] = NoReq <=> sortAt[k] = "idle"
  /\ sendAt \in [Keys -> {"idle", "check", "armed"}]
  /\ sendReq \in [Keys -> Reqs \cup {NoReq}]
  /\ \A k \in Keys : sendReq[k] = NoReq <=> sendAt[k] = "idle"
CacheTypes ==
  /\ ethNonce \in [Senders -> Nat \cup {NoEntry}]
  /\ recent \in [Senders -> BOOLEAN]
  /\ nearKnown \in [Keys -> BOOLEAN]
GuardTypes == locked \in [Keys -> BOOLEAN] /\ breaker \in [Keys -> BOOLEAN]
ChainTypes ==
  /\ stray \subseteq Reqs /\ executed \subseteq Reqs
  /\ chainNonce \in [Senders -> Nat]
EvalTypes ==
  /\ waiter \in [Reqs -> {"new", "wait", "lock", "eth", "unlock", "clear", "decide",
                          "done"}]
  /\ status \in [Reqs -> Statuses]
  /\ again \in [Reqs -> BOOLEAN] /\ retransmit \in [Reqs -> BOOLEAN]
OtherTypes ==
  /\ rpc \in [Reqs -> {"idle", "sent", "Success", "EthNonceError"}]
  /\ respChan \in [Reqs -> Answers \cup OwnStatuses \cup {"Empty"}]
  /\ expired \in [Reqs -> BOOLEAN]

\* Every variable keeps its type, a worker holds a request exactly while it is
\* busy, and the queues never exceed the capacity of their channels.
TypeOK == /\ QueueTypes /\ WorkerTypes /\ CacheTypes /\ GuardTypes
          /\ ChainTypes /\ EvalTypes /\ OtherTypes

\* Where a request, or the answer to it, can be while it is being processed.
Places == {"unordered", "sort", "timer", "ordered", "send", "rpc", "resp"}

IsAt(r, p) == CASE p = "unordered" -> \E i \in DOMAIN unordered[Key(r)] :
                                         unordered[Key(r)][i] = r
                [] p = "sort"      -> /\ sortReq[Key(r)] = r
                                      /\ sortAt[Key(r)] \in {"lock", "push"}
                [] p = "timer"     -> r \in timers
                [] p = "ordered"   -> \E i \in DOMAIN ordered[Key(r)] :
                                         ordered[Key(r)][i] = r
                [] p = "send"      -> sendReq[Key(r)] = r
                [] p = "rpc"       -> rpc[r] # "idle"
                [] p = "resp"      -> respChan[r] # "Empty"

\* A request that is waited for is in exactly one place, once: it is never lost
\* (its waiter would wait for ever) nor processed twice (a second answer would
\* block its sender for ever).  A request its waiter evaluates or has finished
\* is nowhere, but for the answer nobody reads that eval() puts into respChan.
Custody ==
  /\ \A r \in Reqs :
       /\ waiter[r] = "wait" => \E p \in Places : /\ IsAt(r, p)
                                                  /\ \A q \in Places \ {p} : ~IsAt(r, q)
       /\ waiter[r] # "wait" => \A p \in Places \ {"resp"} : ~IsAt(r, p)
       /\ waiter[r] # "wait" /\ respChan[r] # "Empty" => status[r] = "SuccessRetransmit"
  /\ \A k \in Keys : \A i, j \in 1 .. QCap :
       /\ {i, j} \subseteq DOMAIN unordered[k] /\ unordered[k][i] = unordered[k][j] => i = j
       /\ {i, j} \subseteq DOMAIN ordered[k] /\ ordered[k][i] = ordered[k][j] => i = j

Successes == {"Success", "SuccessRetransmit"}

\* "ERR_INCORRECT_NONCE response shows that first operation succeeded": a client
\* that is told "success" has its transaction on chain.
SuccessMeansExecuted ==
  \A r \in Reqs : waiter[r] = "done" /\ status[r] \in Successes => r \in executed

\* No other transaction can consume the nonce of r.
OwnNonce(r) == /\ NonceOf[r] >= InitNonce
               /\ <<SenderOf[r], NonceOf[r]>> \notin Rivals
               /\ \A q \in Reqs : SenderOf[q] = SenderOf[r] /\ NonceOf[q] = NonceOf[r]
                                  => q = r

\* The same of a nonce that is the request's own, whatever was lost, refused or
\* retransmitted on the way.
OwnSuccessMeansExecuted ==
  \A r \in Reqs : /\ OwnNonce(r)
                  /\ waiter[r] = "done" /\ status[r] \in Successes
                  => r \in executed

\* The final statuses that blame a nonce.
NonceVerdicts == {"EthNonceError", "EthNonceTooLow", "NearNonceError",
                  "NearNonceTooLarge"}

\* A request is given up for its nonce (not for a full queue) only when the
\* chain has consumed that nonce; a nonce cache that sort() merely ran ahead
\* with is no reason.
GivenUpMeansSpent ==
  \A r \in Reqs :
    /\ waiter[r] = "done" /\ ~again[r]
    /\ status[r] \in NonceVerdicts
    => chainNonce[SenderOf[r]] > NonceOf[r]

\* retryMutex is held by exactly one party, and by someone whenever it is held.
InSort(k) == sortAt[k] \in {"push", "refresh"}
InEval(k) == {r \in Reqs : Key(r) = k /\ waiter[r] \in {"eth", "unlock"}}
MutexHeldByOne ==
  \A k \in Keys : /\ locked[k] <=> InSort(k) \/ InEval(k) # {}
                  /\ InSort(k) => InEval(k) = {}
                  /\ \A r1, r2 \in InEval(k) : r1 = r2

\* The breaker is open only while some evaluation that opened it will still
\* close it: send() never rejects requests for ever.
BreakerNotStuck ==
  \A k \in Keys : breaker[k] =>
    \E r \in Reqs : Key(r) = k /\ waiter[r] \in {"eth", "unlock", "clear"}

\* respChan has room for one message and Respond does not give up: whoever still
\* has to answer r (eval() itself for a retransmitted request) finds it empty.
RoomForAnswers ==
  \A r \in Reqs : respChan[r] # "Empty" =>
    /\ r \notin timers /\ rpc[r] = "idle"
    /\ \A k \in Keys : sendReq[k] # r /\ (sortReq[k] = r => sortAt[k] = "refresh")
    /\ waiter[r] \notin {"lock", "eth"}

\* Who does not wait for the mutex, for room in a queue or for something to do.
SortGoes(k) == \/ sortAt[k] = "idle" /\ unordered[k] # <<>>
               \/ sortAt[k] = "lock" /\ ~locked[k]
               \/ sortAt[k] = "push" /\ ~Full(ordered[k])
               \/ sortAt[k] = "refresh"
SendGoes(k) == sendAt[k] # "idle" \/ ordered[k] # <<>>
RequestGoes(r) == \/ r \in timers \/ rpc[r] # "idle"
                  \/ waiter[r] = "wait" /\ respChan[r] # "Empty"
                  \/ waiter[r] = "lock" /\ ~locked[Key(r)]
                  \/ waiter[r] \in {"eth", "unlock", "clear", "decide"}

\* sort() blocks on the ordered queue with the mutex held, evaluations wait for
\* the mutex, and every answer goes through a channel of capacity one: still, as
\* long as a request of a key has no final answer, somebody of that key goes on,
\* whatever the other keys do.
NobodyIsStuck ==
  /\ RoomForAnswers
  /\ \A r \in Reqs : waiter[r] \notin {"new", "done"} =>
       \/ SortGoes(Key(r)) \/ SendGoes(Key(r))
       \/ \E q \in Reqs : Key(q) = Key(r) /\ RequestGoes(q)

\* Nothing else makes anybody wait: no answer, no timer and no step of eval()
\* behind the mutex blocks.
NothingElseBlocks ==
  /\ \A k \in Keys : /\ SortGoes(k) <=> ENABLED SortStep(k)
                     /\ SendGoes(k) <=> ENABLED SendStep(k)
  /\ \A r \in Reqs :
       RequestGoes(r) <=> ENABLED (\/ TimerFire(r) \/ NearStep(r) \/ EvalMoves(r)
                                   \/ EvalLock(r) \/ EvalEnds(r))

\* "Since retry flow is not useful for these error cases": a request whose
\* answer could not be understood is not sent again.
UnhandledIsNotRetried ==
  [][\A r \in Reqs : status[r] = "UnhandledError" => waiter'[r] # "wait"]_vars

\* Every submitted request is answered.
EveryRequestAnswered == \A r \in Reqs : waiter[r] # "new" ~> waiter[r] = "done"

\* The promise to the RPC handler: an accepted request gets one final answer,
\* and success is answered only after the transaction was executed.
Service == INSTANCE TxnService WITH
  phase   <- [r \in Reqs |-> CASE waiter[r] = "new"  -> "idle"
                               [] waiter[r] = "done" -> "done"
                               [] OTHER              -> "pending"],
  outcome <- [r \in Reqs |-> IF waiter[r] # "done" THEN "none"
                             ELSE IF status[r] \in Successes THEN "success"
                             ELSE "failure"],
  landed  <- executed
ServicePromise == Service!Spec
=============================================================================
