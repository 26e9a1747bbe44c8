------------------------- MODULE TxnProcessorProofs -------------------------
(***************************************************************************)
(* Theorems about TxnProcessor, for every set of requests, senders, keys,  *)
(* every queue capacity and every combination of faults.                   *)
(***************************************************************************)
EXTENDS TxnProcessor, TLAPS

USE DEF vars, queueVars, workerVars, cacheVars, guardVars, chainVars, evalVars

\* eval() classifies every answer, and as a success only a success.
LEMMA StatusType ==
  ASSUME NEW m \in Answers \cup OwnStatuses
  PROVE  /\ StatusOf(m) \in Statuses
         /\ StatusOf(m) = "Success" => m = "Success"
         /\ StatusOf(m) # "SuccessRetransmit"
BY DEF StatusOf, Answers, OwnStatuses, Statuses, RpcRefusals, RpcLosses

\* Every request has a sender and a key.
LEMMA KeyType == \A r \in Reqs : SenderOf[r] \in Senders /\ Key(r) \in Keys
BY SendersAssumption, KeysAssumption DEF Key

\* Enqueueing keeps the type of the queues and, with room left, their bound.
LEMMA EnqueueType ==
  ASSUME NEW qs \in [Keys -> Seq(Reqs)], NEW k \in Keys, NEW r \in Reqs,
         \A x \in Keys : Len(qs[x]) <= QCap,
         ~Full(qs[k])
  PROVE  /\ Enqueue(qs, k, r) \in [Keys -> Seq(Reqs)]
         /\ \A x \in Keys : Len(Enqueue(qs, k, r)[x]) <= QCap
BY QCapAssumption DEF Enqueue, Full

\* So does taking the head of a queue.
LEMMA DequeueType ==
  ASSUME NEW qs \in [Keys -> Seq(Reqs)], NEW k \in Keys,
         \A x \in Keys : Len(qs[x]) <= QCap,
         qs[k] # <<>>
  PROVE  /\ Head(qs[k]) \in Reqs
         /\ [qs EXCEPT ![k] = Tail(@)] \in [Keys -> Seq(Reqs)]
         /\ \A x \in Keys : Len([qs EXCEPT ![k] = Tail(@)][x]) <= QCap
BY QCapAssumption

\* A refresh puts a nonce into the cache that the chain has reached.
LEMMA RefreshFacts ==
  ASSUME TypeOK, NEW s \in Senders, NEW updated \in BOOLEAN,
         RefreshEthNonce(s, updated)
  PROVE  /\ ethNonce' \in [Senders -> Nat \cup {NoEntry}]
         /\ recent' \in [Senders -> BOOLEAN]
         /\ updated => ethNonce'[s] \in Nat /\ ethNonce'[s] <= chainNonce[s]
<1> USE DEF TypeOK, CacheTypes, ChainTypes
<1>1. CASE ~updated
  BY <1>1 DEF RefreshEthNonce
<1>2. CASE updated
  <2>1. PICK n \in ViewedNonces(s) : ethNonce' = [ethNonce EXCEPT ![s] = n]
    BY <1>2 DEF RefreshEthNonce
  <2>2. n \in Nat /\ n <= chainNonce[s]
    BY NoncesAssumption DEF ViewedNonces
  <2> QED BY <1>2, <2>1, <2>2 DEF RefreshEthNonce
<1> QED BY <1>1, <1>2

LEMMA InitTypeOK == Init => TypeOK
BY QCapAssumption, NoncesAssumption, NoReqAssumption
DEF Init, TypeOK, QueueTypes, WorkerTypes, CacheTypes, GuardTypes, ChainTypes, EvalTypes,
    OtherTypes, NoEntry, Statuses, OwnStatuses, Answers

LEMMA SortTypeOK ==
  ASSUME TypeOK, NEW k \in Keys, SortStep(k)
  PROVE  TypeOK'
<1> USE KeyType, NoReqAssumption
    DEF TypeOK, WorkerTypes, GuardTypes, SortDone, SortStay, SortReady, Respond
<1>1. CASE SortTake(k)
  <2>1. Head(unordered[k]) \in Reqs /\ QueueTypes'
    BY <1>1, DequeueType DEF SortTake, QueueTypes
  <2> QED BY <1>1, <2>1 DEF SortTake, CacheTypes, ChainTypes, EvalTypes, OtherTypes
<1>2. CASE SortExpired(k)
  BY <1>2 DEF SortExpired, QueueTypes, CacheTypes, ChainTypes, EvalTypes, OtherTypes,
              OwnStatuses
<1>3. CASE SortAdmit(k)
  <2>1. CacheTypes'
    BY <1>3, NoncesAssumption DEF SortAdmit, CacheTypes
  <2> QED BY <1>3, <2>1 DEF SortAdmit, QueueTypes, ChainTypes, EvalTypes, OtherTypes
<1>4. CASE SortRetransmit(k)
  BY <1>4 DEF SortRetransmit, QueueTypes, CacheTypes, ChainTypes, EvalTypes, OtherTypes
<1>5. CASE SortTooLow(k)
  BY <1>5 DEF SortTooLow, QueueTypes, CacheTypes, ChainTypes, EvalTypes, OtherTypes,
              OwnStatuses
<1>6. CASE SortTooHigh(k)
  BY <1>6 DEF SortTooHigh, QueueTypes, CacheTypes, ChainTypes, EvalTypes, OtherTypes
<1>7. CASE SortPush(k)
  <2>1. sortReq[k] \in Reqs /\ ~Full(ordered[k])
    BY <1>7 DEF SortPush
  <2>2. /\ Enqueue(ordered, k, sortReq[k]) \in [Keys -> Seq(Reqs)]
        /\ \A x \in Keys : Len(Enqueue(ordered, k, sortReq[k])[x]) <= QCap
    BY <2>1, EnqueueType DEF QueueTypes
  <2>3. QueueTypes'
    BY <1>7, <2>2 DEF SortPush, QueueTypes
  <2> QED BY <1>7, <2>1, <2>3 DEF SortPush, CacheTypes, ChainTypes, EvalTypes,
                                  OtherTypes
<1>8. CASE SortRefresh(k)
  <2>1. sortReq[k] \in Reqs
    BY <1>8 DEF SortRefresh
  <2>2. CacheTypes'
    BY <1>8, <2>1, RefreshFacts DEF SortRefresh, CacheTypes
  <2> QED BY <1>8, <2>2 DEF SortRefresh, QueueTypes, ChainTypes, EvalTypes, OtherTypes
<1> QED BY <1>1, <1>2, <1>3, <1>4, <1>5, <1>6, <1>7, <1>8 DEF SortStep, SortSettle

LEMMA SendTypeOK ==
  ASSUME TypeOK, NEW k \in Keys, SendStep(k)
  PROVE  TypeOK'
<1> USE KeyType, NoReqAssumption
    DEF TypeOK, WorkerTypes, GuardTypes, SendDone, SendRespond, Respond
<1>1. CASE SendTake(k)
  <2>1. Head(ordered[k]) \in Reqs /\ QueueTypes'
    BY <1>1, DequeueType DEF SendTake, QueueTypes
  <2> QED BY <1>1, <2>1 DEF SendTake, CacheTypes, ChainTypes, EvalTypes, OtherTypes
<1>2. CASE SendReorder(k) \/ SendExpired(k) \/ SendNonceError(k)
  <2>1. OtherTypes'
    BY <1>2 DEF SendReorder, SendExpired, SendNonceError, OtherTypes, OwnStatuses
  <2>2. WorkerTypes'
    BY <1>2 DEF SendReorder, SendExpired, SendNonceError
  <2> QED BY <1>2, <2>1, <2>2 DEF SendReorder, SendExpired, SendNonceError, QueueTypes,
                                  CacheTypes, ChainTypes, EvalTypes
<1>3. CASE SendPass(k)
  BY <1>3 DEF SendPass, QueueTypes, CacheTypes, ChainTypes, EvalTypes, OtherTypes
<1>4. CASE SendLaunch(k)
  BY <1>4 DEF SendLaunch, QueueTypes, CacheTypes, ChainTypes, EvalTypes, OtherTypes
<1> QED BY <1>1, <1>2, <1>3, <1>4 DEF SendStep

LEMMA ChainTypeOK ==
  ASSUME TypeOK, NEW r \in Reqs, NearStep(r) \/ StrayRun(r)
  PROVE  TypeOK'
<1> USE KeyType DEF TypeOK, Respond
<1>1. CASE NearRun(r) \/ StrayRun(r)
  <2>1. ChainTypes'
    BY <1>1 DEF NearRun, StrayRun, Execute, ChainTypes
  <2>2. OtherTypes'
    BY <1>1 DEF NearRun, StrayRun, OtherTypes
  <2>3. QueueTypes' /\ WorkerTypes'
    BY <1>1 DEF NearRun, StrayRun, QueueTypes, WorkerTypes
  <2>4. CacheTypes' /\ GuardTypes' /\ EvalTypes'
    BY <1>1 DEF NearRun, StrayRun, CacheTypes, GuardTypes, EvalTypes
  <2> QED BY <2>1, <2>2, <2>3, <2>4
<1>2. CASE NearReply(r) \/ NearRefuse(r) \/ NearLose(r)
  <2>1. ChainTypes' /\ OtherTypes'
    BY <1>2 DEF NearReply, NearRefuse, NearLose, ChainTypes, OtherTypes, Answers
  <2> QED BY <1>2, <2>1 DEF NearReply, NearRefuse, NearLose, QueueTypes, WorkerTypes,
                            CacheTypes, GuardTypes, EvalTypes
<1> QED BY <1>1, <1>2 DEF NearStep

LEMMA WaiterTypeOK ==
  ASSUME TypeOK, NEW r \in Reqs,
         \/ Submit(r) \/ TimerFire(r) \/ EvalMoves(r) \/ EvalLock(r) \/ EvalEnds(r)
         \/ Expire(r)
  PROVE  TypeOK'
<1> USE KeyType DEF TypeOK, Respond, EvalStep
<1>1. CASE Submit(r) \/ TimerFire(r) \/ Retry(r)
  <2>1. QueueTypes'
    <3>1. CASE ~Full(unordered[Key(r)]) /\ unordered' = Enqueue(unordered, Key(r), r)
      <4>1. /\ Enqueue(unordered, Key(r), r) \in [Keys -> Seq(Reqs)]
            /\ \A x \in Keys : Len(Enqueue(unordered, Key(r), r)[x]) <= QCap
        BY <3>1, EnqueueType DEF QueueTypes
      <4> QED BY <1>1, <3>1, <4>1 DEF Submit, TimerFire, Retry, QueueTypes
    <3>2. CASE UNCHANGED unordered
      BY <1>1, <3>2 DEF Submit, TimerFire, Retry, QueueTypes
    <3> QED BY <1>1, <3>1, <3>2 DEF Submit, TimerFire, Retry
  <2>2. EvalTypes' /\ OtherTypes'
    BY <1>1 DEF Submit, TimerFire, Retry, EvalTypes, OtherTypes, Statuses, OwnStatuses
  <2> QED BY <1>1, <2>1, <2>2 DEF Submit, TimerFire, Retry, WorkerTypes, CacheTypes,
                                  GuardTypes, ChainTypes
<1>2. CASE EvalTake(r)
  <2>1. respChan[r] \in Answers \cup OwnStatuses
    BY <1>2 DEF EvalTake, OtherTypes
  <2>2. EvalTypes' /\ OtherTypes'
    BY <1>2, <2>1, StatusType DEF EvalTake, EvalTypes, OtherTypes
  <2> QED BY <1>2, <2>2 DEF EvalTake, QueueTypes, WorkerTypes, CacheTypes, GuardTypes,
                            ChainTypes
<1>3. CASE EvalRefresh(r)
  <2>1. CacheTypes'
    BY <1>3, RefreshFacts DEF EvalRefresh, CacheTypes
  <2>2. EvalTypes' /\ OtherTypes'
    BY <1>3 DEF EvalRefresh, EvalTypes, OtherTypes, Statuses, OwnStatuses
  <2>3. QueueTypes' /\ WorkerTypes'
    BY <1>3 DEF EvalRefresh, QueueTypes, WorkerTypes
  <2>4. GuardTypes' /\ ChainTypes'
    BY <1>3 DEF EvalRefresh, GuardTypes, ChainTypes
  <2> QED BY <2>1, <2>2, <2>3, <2>4
<1>4. CASE EvalLock(r) \/ EvalUnlock(r) \/ EvalClear(r)
  <2>1. EvalTypes' /\ OtherTypes'
    BY <1>4 DEF EvalLock, EvalUnlock, EvalClear, EvalTypes, OtherTypes
  <2>2. GuardTypes'
    BY <1>4 DEF EvalLock, EvalUnlock, EvalClear, GuardTypes
  <2>3. QueueTypes' /\ WorkerTypes'
    BY <1>4 DEF EvalLock, EvalUnlock, EvalClear, QueueTypes, WorkerTypes
  <2>4. CacheTypes' /\ ChainTypes'
    BY <1>4 DEF EvalLock, EvalUnlock, EvalClear, CacheTypes, ChainTypes
  <2> QED BY <2>1, <2>2, <2>3, <2>4
<1>5. CASE Finish(r) \/ Expire(r)
  <2>1. EvalTypes' /\ OtherTypes'
    BY <1>5 DEF Finish, Expire, EvalTypes, OtherTypes
  <2>2. QueueTypes' /\ WorkerTypes'
    BY <1>5 DEF Finish, Expire, QueueTypes, WorkerTypes
  <2>3. CacheTypes' /\ GuardTypes' /\ ChainTypes'
    BY <1>5 DEF Finish, Expire, CacheTypes, GuardTypes, ChainTypes
  <2> QED BY <2>1, <2>2, <2>3
<1> QED BY <1>1, <1>2, <1>3, <1>4, <1>5 DEF EvalMoves, EvalEnds

LEMMA NextTypeOK == TypeOK /\ [Next]_vars => TypeOK'
<1> SUFFICES ASSUME TypeOK, [Next]_vars PROVE TypeOK'
  OBVIOUS
<1> USE DEF TypeOK, QueueTypes, WorkerTypes, CacheTypes, GuardTypes, EvalTypes, OtherTypes
<1>1. ASSUME NEW s \in Senders, RivalRun(s) PROVE TypeOK'
  <2>1. ChainTypes'
    BY <1>1 DEF RivalRun, ChainTypes
  <2> QED BY <1>1, <2>1 DEF RivalRun
<1>2. ASSUME NEW s \in Senders, CacheCools(s) PROVE TypeOK'
  BY <1>2 DEF CacheCools, ChainTypes
<1>3. CASE UNCHANGED vars
  BY <1>3 DEF ChainTypes
<1> QED
  BY <1>1, <1>2, <1>3, SortTypeOK, SendTypeOK, ChainTypeOK, WaiterTypeOK
  DEF Next, Terminating

\* Every variable keeps its type and no queue exceeds its capacity, in every
\* run of the processor.
THEOREM TypeCorrect == Spec => []TypeOK
<1>1. Init => TypeOK
  BY InitTypeOK
<1>2. TypeOK /\ [Next]_vars => TypeOK'
  BY NextTypeOK
<1> QED BY <1>1, <1>2, PTL DEF Spec

-----------------------------------------------------------------------------
(* Success is answered only for an executed transaction.  The inductive    *)
(* invariant follows the verdict along the way from NEAR to the client and *)
(* adds why a nonce the chain has passed proves execution: nobody else     *)
(* could have consumed it.                                                 *)

SpentMeansExecuted ==
  \A r \in Reqs : OwnNonce(r) /\ NonceOf[r] < chainNonce[SenderOf[r]] => r \in executed

VerdictsAreTrue ==
  /\ \A r \in Reqs : rpc[r] = "Success" => r \in executed
  /\ \A r \in Reqs : respChan[r] = "Success" => r \in executed
  /\ \A r \in Reqs : status[r] \in Successes /\ OwnNonce(r) => r \in executed

Truth == TypeOK /\ SpentMeansExecuted /\ VerdictsAreTrue

LEMMA InitTruth == Init => SpentMeansExecuted /\ VerdictsAreTrue
BY SendersAssumption, NoncesAssumption
DEF Init, SpentMeansExecuted, VerdictsAreTrue, Successes, OwnNonce

\* An execution consumes the nonce of one request only.
LEMMA ExecuteTruth ==
  ASSUME Truth, NEW r \in Reqs, Execute(r)
  PROVE  SpentMeansExecuted'
<1> SUFFICES ASSUME NEW q \in Reqs, OwnNonce(q), NonceOf[q] < chainNonce'[SenderOf[q]]
             PROVE  q \in executed'
  BY DEF SpentMeansExecuted, OwnNonce
<1> USE SendersAssumption, NoncesAssumption DEF Truth, TypeOK, ChainTypes, Execute
<1>1. CASE NonceOf[q] < chainNonce[SenderOf[q]]
  BY <1>1 DEF SpentMeansExecuted
<1>2. CASE ~(NonceOf[q] < chainNonce[SenderOf[q]])
  <2>1. SenderOf[q] = SenderOf[r] /\ NonceOf[q] = NonceOf[r]
    BY <1>2
  <2> QED BY <2>1 DEF OwnNonce
<1> QED BY <1>1, <1>2

LEMMA ChainTruth ==
  ASSUME Truth, NEW r \in Reqs, NearStep(r) \/ StrayRun(r)
  PROVE  SpentMeansExecuted' /\ VerdictsAreTrue'
<1> USE DEF Truth, Respond
<1>1. CASE NearRun(r)
  <2>1. SpentMeansExecuted'
    BY <1>1, ExecuteTruth DEF NearRun, SpentMeansExecuted, OwnNonce
  <2>2. VerdictsAreTrue'
    BY <1>1 DEF NearRun, Execute, VerdictsAreTrue, OwnNonce, TypeOK, OtherTypes
  <2> QED BY <2>1, <2>2
<1>2. CASE StrayRun(r)
  <2>1. VerdictsAreTrue'
    BY <1>2 DEF StrayRun, Execute, VerdictsAreTrue, OwnNonce
  <2> QED BY <1>2, <2>1, ExecuteTruth DEF StrayRun
<1>3. CASE NearReply(r) \/ NearRefuse(r) \/ NearLose(r)
  BY <1>3 DEF NearReply, NearRefuse, NearLose, SpentMeansExecuted, VerdictsAreTrue,
              OwnNonce, TypeOK, OtherTypes, RpcRefusals, RpcLosses
<1> QED BY <1>1, <1>2, <1>3 DEF NearStep

\* eval() turns ERR_INCORRECT_NONCE into a success only on a refreshed cache.
LEMMA EvalTruth ==
  ASSUME Truth, NEW r \in Reqs, EvalMoves(r) \/ EvalLock(r) \/ EvalEnds(r)
  PROVE  SpentMeansExecuted' /\ VerdictsAreTrue'
<1> USE DEF Truth, TypeOK, EvalStep
<1>1. CASE EvalTake(r)
  <2>1. respChan[r] \in Answers \cup OwnStatuses
    BY <1>1 DEF EvalTake, OtherTypes
  <2>2. status'[r] \in Successes => respChan[r] = "Success"
    BY <1>1, <2>1, StatusType DEF EvalTake, EvalTypes, Successes
  <2> QED BY <1>1, <2>2 DEF EvalTake, EvalTypes, OtherTypes, SpentMeansExecuted,
                            VerdictsAreTrue, OwnNonce
<1>2. CASE EvalRefresh(r)
  <2>1. PICK updated \in BOOLEAN :
          /\ RefreshEthNonce(SenderOf[r], updated)
          /\ LET spent == updated /\ ethNonce'[SenderOf[r]] > NonceOf[r]
                 landed == spent /\ retransmit[r] /\ status[r] = "EthNonceError"
             IN /\ status' = [status EXCEPT
                                ![r] = IF landed THEN "SuccessRetransmit" ELSE @]
                /\ IF landed THEN Respond(r, "Any") ELSE UNCHANGED respChan
    BY <1>2 DEF EvalRefresh
  <2>2. status'[r] # status[r] => NonceOf[r] < chainNonce[SenderOf[r]]
    <3>1. updated => ethNonce'[SenderOf[r]] \in Nat
                     /\ ethNonce'[SenderOf[r]] <= chainNonce[SenderOf[r]]
      BY <2>1, KeyType, RefreshFacts
    <3>2. ASSUME status'[r] # status[r]
          PROVE  updated /\ ethNonce'[SenderOf[r]] > NonceOf[r]
      BY <2>1, <3>2 DEF EvalTypes
    <3> QED BY <3>1, <3>2, KeyType, NoncesAssumption DEF ChainTypes
  <2>3. \A q \in Reqs : status'[q] \in Successes /\ OwnNonce(q) => q \in executed
    BY <2>1, <2>2 DEF EvalTypes, SpentMeansExecuted, VerdictsAreTrue
  <2> QED BY <1>2, <2>1, <2>3 DEF EvalRefresh, Respond, OtherTypes, SpentMeansExecuted,
                                  VerdictsAreTrue, OwnNonce
<1>3. CASE EvalUnlock(r) \/ EvalClear(r) \/ EvalLock(r) \/ Finish(r)
  BY <1>3 DEF EvalUnlock, EvalClear, EvalLock, Finish, SpentMeansExecuted,
              VerdictsAreTrue, OwnNonce
<1>4. CASE Retry(r)
  BY <1>4 DEF Retry, EvalTypes, SpentMeansExecuted, VerdictsAreTrue, OwnNonce, Successes
<1> QED BY <1>1, <1>2, <1>3, <1>4 DEF EvalMoves, EvalEnds

\* The workers only write answers that are no verdict of NEAR.
LEMMA WorkerTruth ==
  ASSUME Truth, NEW k \in Keys, SortStep(k) \/ SendStep(k)
  PROVE  SpentMeansExecuted' /\ VerdictsAreTrue'
<1> USE DEF Truth, TypeOK, OtherTypes, WorkerTypes, SpentMeansExecuted, VerdictsAreTrue,
            OwnNonce, Respond
<1>1. CASE SortTake(k) \/ SortPush(k) \/ SortRefresh(k)
  BY <1>1 DEF SortTake, SortPush, SortRefresh
<1>2. CASE SortSettle(k)
  BY <1>2 DEF SortSettle, SortExpired, SortAdmit, SortRetransmit, SortTooLow, SortTooHigh
<1>3. CASE SendTake(k) \/ SendPass(k) \/ SendLaunch(k)
  BY <1>3 DEF SendTake, SendPass, SendLaunch
<1>4. CASE SendReorder(k) \/ SendExpired(k) \/ SendNonceError(k)
  BY <1>4 DEF SendReorder, SendExpired, SendNonceError, SendRespond
<1> QED BY <1>1, <1>2, <1>3, <1>4 DEF SortStep, SendStep

LEMMA NextTruth == Truth /\ [Next]_vars => Truth'
<1> SUFFICES ASSUME Truth, [Next]_vars PROVE SpentMeansExecuted' /\ VerdictsAreTrue'
  BY NextTypeOK DEF Truth
<1> USE DEF Truth, SpentMeansExecuted, VerdictsAreTrue, OwnNonce
<1>1. ASSUME NEW r \in Reqs, Submit(r) \/ TimerFire(r) \/ Expire(r)
      PROVE  SpentMeansExecuted' /\ VerdictsAreTrue'
  BY <1>1 DEF Submit, TimerFire, Expire, Respond, TypeOK, OtherTypes
<1>2. ASSUME NEW s \in Senders, RivalRun(s)
      PROVE  SpentMeansExecuted' /\ VerdictsAreTrue'
  BY <1>2, SendersAssumption, NoncesAssumption DEF RivalRun, TypeOK, ChainTypes
<1>3. ASSUME NEW s \in Senders, CacheCools(s)
      PROVE  SpentMeansExecuted' /\ VerdictsAreTrue'
  BY <1>3 DEF CacheCools
<1>4. CASE UNCHANGED vars
  BY <1>4
<1> QED
  BY <1>1, <1>2, <1>3, <1>4, WorkerTruth, ChainTruth, EvalTruth DEF Next, Terminating

\* A client that is told "success" has its transaction on chain, for every
\* request whose nonce nobody else can consume.
THEOREM SuccessIsTrue == Spec => []OwnSuccessMeansExecuted
<1>1. Init => Truth
  BY InitTypeOK, InitTruth DEF Truth
<1>2. Truth /\ [Next]_vars => Truth'
  BY NextTruth
<1>3. Truth => OwnSuccessMeansExecuted
  BY DEF Truth, VerdictsAreTrue, OwnSuccessMeansExecuted
<1> QED BY <1>1, <1>2, <1>3, PTL DEF Spec

-----------------------------------------------------------------------------
(* A nonce is blamed for a failure only when the chain has consumed it:    *)
(* while eval() is at work the table's verdict is still to be confirmed by *)
(* a refresh, and the chain's nonces never decrease.                       *)

ChainGrows ==
  \A s \in Senders : chainNonce'[s] \in Nat /\ chainNonce[s] <= chainNonce'[s]

BlameIsConfirmed ==
  \A r \in Reqs :
    /\ waiter[r] \in {"lock", "eth"} => (again[r] <=> status[r] \in Retries)
    /\ /\ waiter[r] \in {"unlock", "clear", "decide", "done"}
       /\ ~again[r]
       /\ status[r] \in NonceVerdicts
       => chainNonce[SenderOf[r]] > NonceOf[r]

LEMMA NextChainGrows == TypeOK /\ [Next]_vars => ChainGrows
<1> SUFFICES ASSUME TypeOK, [Next]_vars PROVE ChainGrows
  OBVIOUS
<1> USE DEF TypeOK, ChainTypes, ChainGrows
<1>1. CASE UNCHANGED chainNonce
  BY <1>1
<1>2. ASSUME NEW r \in Reqs, Execute(r) PROVE ChainGrows
  BY <1>2, SendersAssumption DEF Execute
<1>3. ASSUME NEW s \in Senders, RivalRun(s) PROVE ChainGrows
  BY <1>3 DEF RivalRun
<1>4. ASSUME NEW k \in Keys, SortStep(k) \/ SendStep(k) PROVE UNCHANGED chainNonce
  BY <1>4 DEF SortStep, SortTake, SortSettle, SortExpired, SortAdmit, SortRetransmit,
              SortTooLow, SortTooHigh, SortPush, SortRefresh, SendStep, SendTake,
              SendReorder, SendExpired, SendPass, SendNonceError, SendLaunch, SendRespond
<1>5. ASSUME NEW r \in Reqs, NearStep(r) \/ StrayRun(r)
      PROVE  Execute(r) \/ UNCHANGED chainNonce
  BY <1>5 DEF NearStep, NearRun, NearReply, NearRefuse, NearLose, StrayRun
<1>6. ASSUME NEW r \in Reqs,
             \/ Submit(r) \/ TimerFire(r) \/ EvalMoves(r) \/ EvalLock(r) \/ EvalEnds(r)
             \/ Expire(r)
      PROVE  UNCHANGED chainNonce
  BY <1>6 DEF Submit, TimerFire, EvalMoves, EvalTake, EvalRefresh, EvalUnlock, EvalClear,
              EvalLock, EvalEnds, Retry, Finish, Expire
<1> QED
  BY <1>1, <1>2, <1>3, <1>4, <1>5, <1>6 DEF Next, CacheCools, Terminating

LEMMA EvalBlame ==
  ASSUME TypeOK, BlameIsConfirmed, NEW r \in Reqs,
         EvalMoves(r) \/ EvalLock(r) \/ EvalEnds(r)
  PROVE  BlameIsConfirmed'
<1> USE DEF TypeOK, EvalTypes, BlameIsConfirmed, EvalStep
<1>1. CASE EvalTake(r)
  <2>1. waiter'[r] = "decide" => (again'[r] <=> status'[r] \in Retries)
    BY <1>1 DEF EvalTake
  <2>2. waiter'[r] = "lock" => (again'[r] <=> status'[r] \in Retries)
    BY <1>1 DEF EvalTake
  <2>3. waiter'[r] \in {"decide", "lock"}
    BY <1>1 DEF EvalTake
  <2> QED BY <1>1, <2>1, <2>2, <2>3 DEF EvalTake, NonceVerdicts, Retries
<1>2. CASE EvalRefresh(r)
  <2>1. PICK updated \in BOOLEAN :
          /\ RefreshEthNonce(SenderOf[r], updated)
          /\ LET spent == updated /\ ethNonce'[SenderOf[r]] > NonceOf[r]
                 landed == spent /\ retransmit[r] /\ status[r] = "EthNonceError"
             IN /\ again' = [again EXCEPT ![r] = ~updated \/ (@ /\ ~spent)]
                /\ status' = [status EXCEPT
                                ![r] = IF landed THEN "SuccessRetransmit" ELSE @]
    BY <1>2 DEF EvalRefresh
  <2>2. updated => ethNonce'[SenderOf[r]] \in Nat
                   /\ ethNonce'[SenderOf[r]] <= chainNonce[SenderOf[r]]
    BY <2>1, KeyType, RefreshFacts
  <2>3. ASSUME ~again'[r], status'[r] \in NonceVerdicts
        PROVE  chainNonce[SenderOf[r]] > NonceOf[r]
    <3>1. status[r] \in Retries
      BY <2>1, <2>3 DEF NonceVerdicts, Retries
    <3>2. again[r]
      BY <1>2, <3>1 DEF EvalRefresh
    <3>3. updated /\ ethNonce'[SenderOf[r]] > NonceOf[r]
      BY <2>1, <2>3, <3>2
    <3> QED BY <2>2, <3>3, KeyType, NoncesAssumption DEF ChainTypes
  <2> QED BY <1>2, <2>1, <2>3 DEF EvalRefresh
<1>3. CASE EvalUnlock(r) \/ EvalClear(r) \/ EvalLock(r) \/ Finish(r)
  BY <1>3 DEF EvalUnlock, EvalClear, EvalLock, Finish
<1>4. CASE Retry(r)
  BY <1>4 DEF Retry
<1> QED BY <1>1, <1>2, <1>3, <1>4 DEF EvalMoves, EvalEnds

LEMMA NextBlame == TypeOK /\ BlameIsConfirmed /\ [Next]_vars => BlameIsConfirmed'
<1> SUFFICES ASSUME TypeOK, BlameIsConfirmed, [Next]_vars PROVE BlameIsConfirmed'
  OBVIOUS
<1>1. CASE \E r \in Reqs : EvalMoves(r) \/ EvalLock(r) \/ EvalEnds(r)
  BY <1>1, EvalBlame
<1>2. CASE UNCHANGED <<status, again>> /\
           \A r \in Reqs : waiter'[r] # waiter[r] => waiter'[r] = "wait"
  <2>1. ChainGrows
    BY NextChainGrows
  <2> QED BY <1>2, <2>1, SendersAssumption, NoncesAssumption
          DEF BlameIsConfirmed, ChainGrows, TypeOK, ChainTypes
<1>3. ASSUME NEW k \in Keys, SortStep(k) \/ SendStep(k) PROVE UNCHANGED evalVars
  BY <1>3 DEF SortStep, SortTake, SortSettle, SortExpired, SortAdmit, SortRetransmit,
              SortTooLow, SortTooHigh, SortPush, SortRefresh, SendStep, SendTake,
              SendReorder, SendExpired, SendPass, SendNonceError, SendLaunch, SendRespond
<1>4. ASSUME NEW r \in Reqs, TimerFire(r) \/ NearStep(r) \/ StrayRun(r) \/ Expire(r)
      PROVE  UNCHANGED evalVars
  BY <1>4 DEF TimerFire, NearStep, NearRun, NearReply, NearRefuse, NearLose, StrayRun,
              Expire
<1>5. ASSUME NEW r \in Reqs, Submit(r)
      PROVE  UNCHANGED <<status, again>> /\
             \A q \in Reqs : waiter'[q] # waiter[q] => waiter'[q] = "wait"
  BY <1>5 DEF Submit, TypeOK, EvalTypes
<1> QED
  BY <1>1, <1>2, <1>3, <1>4, <1>5 DEF Next, RivalRun, CacheCools, Terminating

\* The request is given up for its nonce only when the chain has consumed that
\* nonce; that the local cache ran ahead is never enough.
THEOREM BlameIsTrue == Spec => []GivenUpMeansSpent
<1>1. Init => TypeOK /\ BlameIsConfirmed
  BY InitTypeOK DEF Init, BlameIsConfirmed
<1>2. TypeOK /\ BlameIsConfirmed /\ [Next]_vars => TypeOK' /\ BlameIsConfirmed'
  BY NextTypeOK, NextBlame
<1>3. BlameIsConfirmed => GivenUpMeansSpent
  BY DEF BlameIsConfirmed, GivenUpMeansSpent
<1> QED BY <1>1, <1>2, <1>3, PTL DEF Spec

-----------------------------------------------------------------------------
(* The mutex and the circuit breaker.  Both invariants are inductive next  *)
(* to TypeOK.                                                              *)

\* Steps that touch neither the critical sections nor the breaker.
OutsideStep ==
  /\ UNCHANGED guardVars
  /\ \A k \in Keys : InSort(k)' <=> InSort(k)
  /\ \A r \in Reqs : \A at \in {"eth", "unlock", "clear"} : waiter'[r] = at <=> waiter[r] = at

Guarded == MutexHeldByOne /\ BreakerNotStuck

LEMMA OutsideGuarded == TypeOK /\ Guarded /\ OutsideStep => Guarded'
<1> SUFFICES ASSUME TypeOK, Guarded, OutsideStep PROVE Guarded'
  OBVIOUS
<1>1. \A k \in Keys : InEval(k)' = InEval(k)
  BY DEF OutsideStep, InEval, Key
<1>2. MutexHeldByOne'
  BY <1>1 DEF OutsideStep, Guarded, MutexHeldByOne
<1>3. BreakerNotStuck'
  BY DEF OutsideStep, Guarded, BreakerNotStuck, Key
<1> QED BY <1>2, <1>3 DEF Guarded

LEMMA SortGuarded ==
  ASSUME TypeOK, Guarded, NEW k \in Keys, SortStep(k)
  PROVE  Guarded'
<1> USE DEF TypeOK, WorkerTypes, GuardTypes, SortDone, SortStay, SortReady
<1>1. CASE SortTake(k) \/ SortExpired(k) \/ SortTooLow(k)
  <2>1. OutsideStep
    BY <1>1 DEF SortTake, SortExpired, SortTooLow, OutsideStep, InSort
  <2> QED BY <2>1, OutsideGuarded
<1>2. CASE SortAdmit(k) \/ SortRetransmit(k) \/ SortTooHigh(k)
  <2>1. /\ ~locked[k] /\ locked' = [locked EXCEPT ![k] = TRUE]
        /\ InSort(k)' /\ \A x \in Keys \ {k} : InSort(x)' <=> InSort(x)
        /\ UNCHANGED <<waiter, breaker>>
    BY <1>2 DEF SortAdmit, SortRetransmit, SortTooHigh, InSort
  <2> QED BY <2>1 DEF Guarded, MutexHeldByOne, BreakerNotStuck, InEval, Key
<1>3. CASE SortPush(k) \/ SortRefresh(k)
  <2>1. /\ InSort(k) /\ locked' = [locked EXCEPT ![k] = FALSE]
        /\ ~InSort(k)' /\ \A x \in Keys \ {k} : InSort(x)' <=> InSort(x)
        /\ UNCHANGED <<waiter, breaker>>
    BY <1>3 DEF SortPush, SortRefresh, InSort
  <2> QED BY <2>1 DEF Guarded, MutexHeldByOne, BreakerNotStuck, InEval, Key
<1> QED BY <1>1, <1>2, <1>3 DEF SortStep, SortSettle

LEMMA EvalGuarded ==
  ASSUME TypeOK, Guarded, NEW r \in Reqs, EvalMoves(r) \/ EvalLock(r) \/ EvalEnds(r)
  PROVE  Guarded'
<1> USE KeyType DEF TypeOK, GuardTypes, EvalTypes, EvalStep
<1>1. CASE EvalTake(r) \/ EvalEnds(r)
  <2>1. OutsideStep
    BY <1>1 DEF EvalTake, EvalEnds, Retry, Finish, OutsideStep, InSort
  <2> QED BY <2>1, OutsideGuarded
<1>2. CASE EvalLock(r)
  <2>1. /\ InEval(Key(r)) = {} /\ ~InSort(Key(r))
        /\ InEval(Key(r))' = {r}
        /\ \A k \in Keys \ {Key(r)} : InEval(k)' = InEval(k)
        /\ \A k \in Keys : InSort(k)' <=> InSort(k)
    BY <1>2 DEF EvalLock, Guarded, MutexHeldByOne, InEval, InSort, Key
  <2>2. MutexHeldByOne'
    <3> SUFFICES ASSUME NEW k \in Keys
                 PROVE  /\ locked'[k] <=> InSort(k)' \/ InEval(k)' # {}
                        /\ InSort(k)' => InEval(k)' = {}
                        /\ \A r1, r2 \in InEval(k)' : r1 = r2
      BY DEF MutexHeldByOne
    <3>1. CASE k = Key(r)
      BY <1>2, <2>1, <3>1 DEF EvalLock
    <3>2. CASE k # Key(r)
      BY <1>2, <2>1, <3>2 DEF EvalLock, Guarded, MutexHeldByOne
    <3> QED BY <3>1, <3>2
  <2>3. BreakerNotStuck'
    BY <1>2 DEF EvalLock, Guarded, BreakerNotStuck, Key
  <2> QED BY <2>2, <2>3 DEF Guarded
<1>3. CASE EvalRefresh(r)
  <2>1. /\ \A k \in Keys : InEval(k)' = InEval(k)
        /\ \A k \in Keys : InSort(k)' <=> InSort(k)
    BY <1>3 DEF EvalRefresh, InEval, InSort, Key
  <2>2. MutexHeldByOne'
    BY <1>3, <2>1 DEF EvalRefresh, Guarded, MutexHeldByOne
  <2>3. BreakerNotStuck'
    BY <1>3 DEF EvalRefresh, Guarded, BreakerNotStuck, Key
  <2> QED BY <2>2, <2>3 DEF Guarded
<1>4. CASE EvalUnlock(r)
  <2>1. InEval(Key(r)) = {r} /\ ~InSort(Key(r))
    BY <1>4 DEF EvalUnlock, Guarded, MutexHeldByOne, InEval
  <2>2. /\ InEval(Key(r))' = {}
        /\ \A k \in Keys \ {Key(r)} : InEval(k)' = InEval(k)
        /\ \A k \in Keys : InSort(k)' <=> InSort(k)
    BY <1>4, <2>1 DEF EvalUnlock, InEval, InSort, Key
  <2>3. MutexHeldByOne'
    BY <1>4, <2>1, <2>2 DEF EvalUnlock, Guarded, MutexHeldByOne
  <2>4. BreakerNotStuck'
    BY <1>4 DEF EvalUnlock, Guarded, BreakerNotStuck, Key
  <2> QED BY <2>3, <2>4 DEF Guarded
<1>5. CASE EvalClear(r)
  <2>1. /\ \A k \in Keys : InEval(k)' = InEval(k)
        /\ \A k \in Keys : InSort(k)' <=> InSort(k)
    BY <1>5 DEF EvalClear, InEval, InSort, Key
  <2>2. MutexHeldByOne'
    BY <1>5, <2>1 DEF EvalClear, Guarded, MutexHeldByOne
  <2>3. BreakerNotStuck'
    BY <1>5 DEF EvalClear, Guarded, BreakerNotStuck, Key
  <2> QED BY <2>2, <2>3 DEF Guarded
<1> QED BY <1>1, <1>2, <1>3, <1>4, <1>5 DEF EvalMoves

LEMMA NextGuarded == TypeOK /\ Guarded /\ [Next]_vars => Guarded'
<1> SUFFICES ASSUME TypeOK, Guarded, [Next]_vars PROVE Guarded'
  OBVIOUS
<1>1. ASSUME NEW k \in Keys, SendStep(k) PROVE OutsideStep
  BY <1>1 DEF SendStep, SendTake, SendReorder, SendExpired, SendPass, SendNonceError,
              SendLaunch, SendRespond, OutsideStep, InSort
<1>2. ASSUME NEW r \in Reqs, Submit(r) PROVE OutsideStep
  BY <1>2 DEF Submit, OutsideStep, InSort, TypeOK, EvalTypes
<1>3. ASSUME NEW r \in Reqs, TimerFire(r) \/ NearStep(r) \/ StrayRun(r) \/ Expire(r)
      PROVE  OutsideStep
  BY <1>3 DEF TimerFire, NearStep, NearRun, NearReply, NearRefuse, NearLose, StrayRun,
              Expire, OutsideStep, InSort
<1>4. ASSUME NEW s \in Senders, RivalRun(s) \/ CacheCools(s) PROVE OutsideStep
  BY <1>4 DEF RivalRun, CacheCools, OutsideStep, InSort
<1>5. ASSUME UNCHANGED vars PROVE OutsideStep
  BY <1>5 DEF OutsideStep, InSort
<1>6. \/ OutsideStep
      \/ \E k \in Keys : SortStep(k)
      \/ \E r \in Reqs : EvalMoves(r) \/ EvalLock(r) \/ EvalEnds(r)
  BY <1>1, <1>2, <1>3, <1>4, <1>5 DEF Next, Terminating
<1> QED BY <1>6, SortGuarded, EvalGuarded, OutsideGuarded

\* retryMutex has exactly one holder whenever it is held, and the breaker is
\* open only while an evaluation will still close it.
THEOREM GuardsAreSound == Spec => [](MutexHeldByOne /\ BreakerNotStuck)
<1>1. Init => TypeOK /\ Guarded
  BY InitTypeOK DEF Init, Guarded, MutexHeldByOne, BreakerNotStuck, InSort, InEval
<1>2. TypeOK /\ Guarded /\ [Next]_vars => TypeOK' /\ Guarded'
  BY NextTypeOK, NextGuarded
<1>3. Guarded => MutexHeldByOne /\ BreakerNotStuck
  BY DEF Guarded
<1> QED BY <1>1, <1>2, <1>3, PTL DEF Spec

\* The deferred call of eval() that resets the breaker after it has unlocked
\* the mutex (txnProcessor.go:307-310) is never missed.
THEOREM BreakerIsReset == Spec => []BreakerNotStuck
  BY GuardsAreSound, PTL
=============================================================================
