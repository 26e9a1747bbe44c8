---------------------------- MODULE TxnEdgeProofs ----------------------------
(***************************************************************************)
(* Theorems about the two edges of the transaction processor: what the RPC *)
(* handler of a submitted transaction is told, and which Near nonces the   *)
(* attempts to send it carry.                                              *)
(***************************************************************************)
EXTENDS TxnSubmit, NearNonce, TLAPS

-----------------------------------------------------------------------------
(***************************************************************************)
(* What a synchronous client is told, for every number of transactions and *)
(* of retries, and the key of a sender.                                    *)
(***************************************************************************)

HandlerPlaces == {"new", "get", "late", "read", "lateReply", "reply", "gaveUp", "ended"}
WaiterPlaces == {"none", "receive", "eval", "ended"}
Results == Messages \cup {"none", "hash", "invalidParams"}

SubmitTypeOK ==
  /\ offset = 0
  /\ index \in [Txns -> Int]
  /\ handler \in [Txns -> HandlerPlaces] /\ waiting \in [Txns -> WaiterPlaces]
  /\ resp \in [Txns -> Messages \cup {"none"}] /\ told \in [Txns -> Results]
  /\ stamped \in [Txns -> BOOLEAN] /\ done \in [Txns -> BOOLEAN]

\* done is filled after the last message, and only a handler that does not wait
\* any longer stamps the response.
AfterTheLast == \A t \in Txns :
  /\ done[t] => waiting[t] = "ended"
  /\ waiting[t] \in {"eval", "ended"} => resp[t] # "none"
  /\ handler[t] \in {"new", "get", "late", "read"} => told[t] = "none"
  /\ handler[t] = "new" => waiting[t] = "none"
  /\ handler[t] = "reply" => told[t] \in Messages
  /\ stamped[t] => handler[t] \in {"late", "lateReply", "gaveUp"}

\* The key of a transaction follows from its sender.
KeyOfSender == \A t \in Txns : index[t] \in {-1, MapTo(TxnSender[t])}

SubmitInv == SubmitTypeOK /\ AfterTheLast /\ KeyOfSender /\ ToldTheLast

LEMMA SubmitInitially == SubmitInit => SubmitInv
<1> SUFFICES ASSUME SubmitInit PROVE SubmitInv
  OBVIOUS
<1>1. SubmitTypeOK
  BY DEF SubmitInit, SubmitTypeOK, HandlerPlaces, WaiterPlaces, Results
<1>2. AfterTheLast
  BY DEF SubmitInit, AfterTheLast
<1>3. KeyOfSender /\ ToldTheLast
  BY DEF SubmitInit, KeyOfSender, ToldTheLast
<1> QED BY <1>1, <1>2, <1>3 DEF SubmitInv

\* RoundRobinMapper does not count, so that Map() is a function of the sender.
LEMMA SameKey ==
  ASSUME SubmitTypeOK, offset' = 0
  PROVE  \A s : MapTo(s)' = MapTo(s)
BY DEF SubmitTypeOK, MapTo

LEMMA HandlerBegins ==
  ASSUME SubmitInv, NEW t \in Txns, Refuse(t) \/ Accept(t)
  PROVE  SubmitInv'
<1> USE DEF SubmitInv, SubmitTypeOK
<1>1. offset' = 0
  BY DEF Refuse, Accept, Counted
<1>2. MapTo(TxnSender[t]) \in Int
  BY SubmitAssumption DEF MapTo
<1>3. SubmitTypeOK'
  <2>1. CASE Refuse(t)
    BY <1>1, <2>1 DEF Refuse, HandlerPlaces, Results
  <2>2. CASE Accept(t)
    <3>1. /\ index' \in [Txns -> Int] /\ waiting' \in [Txns -> WaiterPlaces]
          /\ UNCHANGED <<resp, stamped, done>>
      BY <1>2, <2>2 DEF Accept, WaiterPlaces
    <3>2. handler' \in [Txns -> HandlerPlaces]
      BY <2>2 DEF Accept, HandlerPlaces
    <3>3. told' \in [Txns -> Results]
      BY <2>2 DEF Accept, Results
    <3> QED BY <1>1, <3>1, <3>2, <3>3
  <2> QED BY <2>1, <2>2
<1>4. AfterTheLast'
  BY DEF Refuse, Accept, AfterTheLast
<1>5. KeyOfSender'
  BY <1>1, SameKey DEF Refuse, Accept, KeyOfSender
<1>6. ToldTheLast'
  BY DEF Refuse, Accept, AfterTheLast, ToldTheLast
<1> QED BY <1>3, <1>4, <1>5, <1>6

\* The goroutine: only its last step concerns a handler that waits.
LEMMA WaiterKeeps ==
  ASSUME SubmitInv, NEW t \in Txns, SetResp(t) \/ Retried(t) \/ NotifyGet(t)
  PROVE  SubmitInv'
<1> USE DEF SubmitInv, SubmitTypeOK
<1>1. UNCHANGED <<offset, index, handler, told>>
  BY DEF SetResp, Retried, NotifyGet
<1>2. SubmitTypeOK'
  <2>1. waiting' \in [Txns -> WaiterPlaces]
    BY DEF SetResp, Retried, NotifyGet, WaiterPlaces
  <2>2. resp' \in [Txns -> Messages \cup {"none"}]
    BY DEF SetResp, Retried, NotifyGet
  <2>3. stamped' \in [Txns -> BOOLEAN] /\ done' \in [Txns -> BOOLEAN]
    BY DEF SetResp, Retried, NotifyGet
  <2> QED BY <1>1, <2>1, <2>2, <2>3
<1>3. KeyOfSender'
  BY <1>1, SameKey DEF KeyOfSender
<1>4. AfterTheLast'
  BY DEF SetResp, Retried, NotifyGet, AfterTheLast, Messages
<1>5. ToldTheLast'
  BY DEF SetResp, Retried, NotifyGet, ToldTheLast
<1> QED BY <1>2, <1>3, <1>4, <1>5

LEMMA GetKeeps ==
  ASSUME SubmitInv, NEW t \in Txns,
         GetTimesOut(t) \/ GetDone(t) \/ GetReads(t) \/ GetReturns(t)
  PROVE  SubmitInv'
<1> USE DEF SubmitInv, SubmitTypeOK
<1>1. UNCHANGED <<offset, index, waiting, resp>>
  BY DEF GetTimesOut, GetDone, GetReads, GetReturns
<1>2. SubmitTypeOK'
  <2>1. handler' \in [Txns -> HandlerPlaces]
    BY DEF GetTimesOut, GetDone, GetReads, GetReturns, HandlerPlaces
  <2>2. stamped' \in [Txns -> BOOLEAN] /\ done' \in [Txns -> BOOLEAN]
    BY DEF GetTimesOut, GetDone, GetReads, GetReturns
  <2>3. told' \in [Txns -> Results]
    BY DEF GetTimesOut, GetDone, GetReads, GetReturns, Results, Messages
  <2> QED BY <1>1, <2>1, <2>2, <2>3
<1>3. KeyOfSender'
  BY <1>1, SameKey DEF KeyOfSender
<1>4. AfterTheLast'
  BY DEF GetTimesOut, GetDone, GetReads, GetReturns, AfterTheLast, Messages
<1>5. ToldTheLast'
  <2>1. CASE GetTimesOut(t)
    BY <2>1 DEF GetTimesOut, ToldTheLast
  <2>2. CASE GetDone(t)
    BY <2>2 DEF GetDone, AfterTheLast, ToldTheLast
  <2>3. CASE GetReads(t)
    BY <2>3 DEF GetReads, AfterTheLast, ToldTheLast
  <2>4. CASE GetReturns(t)
    <3>1. /\ UNCHANGED <<stamped, done>>
          /\ \A u \in Txns \ {t} : handler'[u] = handler[u] /\ told'[u] = told[u]
      BY <2>4 DEF GetReturns
    <3>2. CASE handler[t] = "lateReply"
      BY <1>1, <2>4, <3>1, <3>2 DEF GetReturns, ToldTheLast
    <3>3. CASE handler[t] = "reply"
      <4>1. ~stamped[t]
        BY <3>3 DEF AfterTheLast
      <4>2. handler'[t] = "ended"
            /\ told'[t] = IF resp[t] = "error" THEN "error" ELSE told[t]
        BY <2>4, <3>3, <4>1 DEF GetReturns
      <4>3. told[t] \notin {"hash", "invalidParams"} =>
              waiting[t] = "ended" /\ told[t] = resp[t]
        BY <3>3 DEF ToldTheLast
      <4>4. told[t] \notin {"hash", "invalidParams"}
        BY <3>3 DEF AfterTheLast, Messages
      <4> QED BY <1>1, <3>1, <4>1, <4>2, <4>3, <4>4 DEF ToldTheLast
    <3> QED BY <2>4, <3>2, <3>3 DEF GetReturns
  <2> QED BY <2>1, <2>2, <2>3, <2>4
<1> QED BY <1>2, <1>3, <1>4, <1>5

LEMMA SubmitInvariant == SubmitSpec => []SubmitInv
<1>1. SubmitInv /\ [SubmitNext]_submitVars => SubmitInv'
  <2>1. ASSUME SubmitInv, UNCHANGED submitVars PROVE SubmitInv'
    BY <2>1 DEF submitVars, SubmitInv, SubmitTypeOK, AfterTheLast, KeyOfSender, MapTo,
                ToldTheLast
  <2> QED BY <2>1, HandlerBegins, WaiterKeeps, GetKeeps DEF SubmitNext, SubmitEnd
<1> QED BY <1>1, SubmitInitially, PTL DEF SubmitSpec

\* A client that did not wait too long is told the message after which eval()
\* ended the request (txnProcessor.go:149-165, txnReqResp.go:65-78).
THEOREM ClientIsToldTheLast == SubmitSpec => []ToldTheLast
<1>1. SubmitInv => ToldTheLast
  BY DEF SubmitInv
<1> QED BY <1>1, SubmitInvariant, PTL

\* "This ensures that same signers are mapped to same key" (txnMapper.go:13), for
\* both mappers and every number of keys.
THEOREM SendersKeepTheirKey == SubmitSpec => []OneKeyPerSender
<1>1. SubmitInv => OneKeyPerSender
  BY DEF SubmitInv, KeyOfSender, OneKeyPerSender
<1> QED BY <1>1, SubmitInvariant, PTL

-----------------------------------------------------------------------------
(***************************************************************************)
(* The Near nonces of attempts differ, for every number of attempts, queue *)
(* capacity and limit.  What matters is not how the cache entry compares   *)
(* with the nonces in use, for a refresh may be overwritten by an older    *)
(* value, but how the value send() continues from does: the entry itself,  *)
(* or what it has loaded from it.                                          *)
(***************************************************************************)

USE DEF NoNonce, sendVars, refreshVars, chainNonces

Nonces == Nat \cup {NoNonce}

NearTypeOK ==
  /\ cached \in Nonces /\ cooling \in BOOLEAN
  /\ sendsAt \in {"idle", "store", "return"} /\ loaded \in Nonces
  /\ evalAt \in {"idle", "view", "store"} /\ viewed \in Nonces
  /\ nonceOf \in [Tries -> Nonces] /\ pending \subseteq Tries
  /\ keyNonce \in Nat /\ limit \in Nat /\ rewound \in BOOLEAN
  /\ sendsAt = "store" => loaded \in Nat
  /\ evalAt = "store" => viewed \in Nat

\* send() continues above every nonce in use.
Ahead == ~rewound => \A a \in Tries :
  /\ sendsAt = "idle" => nonceOf[a] <= cached
  /\ sendsAt = "store" => nonceOf[a] <= loaded
  /\ sendsAt = "return" => nonceOf[a] < cached

NearInv == NearTypeOK /\ Ahead /\ NoncesDiffer

\* A new nonce that is above those in use differs from them.
LEMMA LaunchDiffers ==
  ASSUME NearTypeOK, NoncesDiffer, UNCHANGED rewound, NEW n \in Nat, Launch(n),
         ~rewound => \A a \in Tries : nonceOf[a] < n
  PROVE  NoncesDiffer' /\ nonceOf' \in [Tries -> Nonces] /\ pending' \subseteq Tries
         /\ (~rewound => \A a \in Tries : nonceOf'[a] <= n)
<1>1. PICK b \in Tries : /\ nonceOf[b] = NoNonce
                         /\ nonceOf' = [nonceOf EXCEPT ![b] = n]
                         /\ pending' = pending \cup {b}
  BY DEF Launch
<1>2. \A a \in Tries : nonceOf'[a] = IF a = b THEN n ELSE nonceOf[a]
  BY <1>1 DEF NearTypeOK
<1>3. \A a \in Tries : nonceOf[a] \in Nonces
  BY DEF NearTypeOK
<1>4. NoncesDiffer'
  BY <1>2, <1>3 DEF NoncesDiffer, Nonces
<1>5. ~rewound => \A a \in Tries : nonceOf'[a] <= n
  BY <1>2, <1>3 DEF Nonces
<1> QED BY <1>1, <1>4, <1>5 DEF NearTypeOK, Nonces

LEMMA NearInitially == NearInit => NearInv
<1> SUFFICES ASSUME NearInit PROVE NearInv
  OBVIOUS
<1>1. NearTypeOK
  BY NearAssumption DEF NearInit, NearTypeOK, Nonces
<1>2. \A a \in Tries : nonceOf[a] = NoNonce
  BY DEF NearInit
<1>3. Ahead /\ NoncesDiffer
  BY <1>2 DEF NearInit, Ahead, NoncesDiffer
<1> QED BY <1>1, <1>3 DEF NearInv

\* nextNearNonce(): a miss, or the three parts of an increment.
LEMMA SendKeeps ==
  ASSUME NearInv, FirstNonce \/ LoadNonce \/ StoreNonce \/ ReturnNonce
  PROVE  NearInv'
<1> USE DEF NearInv
<1>1. CASE FirstNonce
  <2>1. keyNonce + 1 \in Nat /\ (~rewound => \A a \in Tries : nonceOf[a] < keyNonce + 1)
    BY <1>1 DEF FirstNonce, NearTypeOK, Ahead, Nonces
  <2>2. /\ NoncesDiffer' /\ nonceOf' \in [Tries -> Nonces] /\ pending' \subseteq Tries
        /\ (~rewound => \A a \in Tries : nonceOf'[a] <= keyNonce + 1)
    BY <1>1, <2>1, LaunchDiffers DEF FirstNonce
  <2> QED BY <1>1, <2>1, <2>2 DEF FirstNonce, NearTypeOK, Ahead, Nonces
<1>2. CASE LoadNonce
  BY <1>2 DEF LoadNonce, NearTypeOK, Ahead, NoncesDiffer, Nonces
<1>3. CASE StoreNonce
  BY <1>3 DEF StoreNonce, Incremented, NearTypeOK, Ahead, NoncesDiffer, Nonces
<1>4. CASE ReturnNonce
  <2>1. CASE cached \in Nat
    <3>1. ~rewound => \A a \in Tries : nonceOf[a] < cached
      BY <1>4 DEF ReturnNonce, Ahead
    <3>2. /\ NoncesDiffer' /\ nonceOf' \in [Tries -> Nonces] /\ pending' \subseteq Tries
          /\ (~rewound => \A a \in Tries : nonceOf'[a] <= cached)
      BY <1>4, <2>1, <3>1, LaunchDiffers DEF ReturnNonce
    <3> QED BY <1>4, <2>1, <3>2 DEF ReturnNonce, NearTypeOK, Ahead, Nonces
  <2>2. CASE cached = NoNonce
    <3>1. rewound \/ Tries = {}
      BY <1>4, <2>2 DEF ReturnNonce, NearTypeOK, Ahead, Nonces
    <3> QED BY <1>4, <2>2, <3>1
            DEF ReturnNonce, Launch, NearTypeOK, Ahead, NoncesDiffer, Nonces
  <2> QED BY <2>1, <2>2 DEF NearTypeOK, Nonces
<1> QED BY <1>1, <1>2, <1>3, <1>4

\* updateNearNonceCache() and NEAR: the entry only grows while ~rewound.
LEMMA RefreshKeeps ==
  ASSUME NearInv,
         \/ ViewNonce \/ StoreView \/ CoolsDown \/ LimitGrows
         \/ \E a \in Tries : FindTooLarge(a) \/ Judge(a)
  PROVE  NearInv'
<1> USE DEF NearInv
<1>1. UNCHANGED <<sendsAt, loaded, nonceOf>>
  BY DEF ViewNonce, StoreView, CoolsDown, LimitGrows, FindTooLarge, Judge
<1>2. NearTypeOK'
  <2>1. CASE ViewNonce \/ CoolsDown
    BY <2>1 DEF ViewNonce, CoolsDown, NearTypeOK, Nonces
  <2>2. CASE StoreView
    BY <2>2, NearAssumption DEF StoreView, Refreshed, NearTypeOK, Nonces
  <2>3. ASSUME NEW a \in Tries, FindTooLarge(a) PROVE NearTypeOK'
    BY <2>3 DEF FindTooLarge, NearTypeOK, Nonces
  <2>4. ASSUME NEW a \in Tries, Judge(a) PROVE NearTypeOK'
    <3>1. keyNonce' \in Nat
      BY <2>4 DEF Judge, NearTypeOK, Nonces
    <3> QED BY <2>4, <3>1 DEF Judge, NearTypeOK, Nonces
  <2>5. CASE LimitGrows
    <3>1. limit' \in Nat
      BY <2>5 DEF LimitGrows, NearTypeOK
    <3> QED BY <2>5, <3>1 DEF LimitGrows, NearTypeOK, Nonces
  <2> QED BY <2>1, <2>2, <2>3, <2>4, <2>5
<1>3. (rewound => rewound') /\ (~rewound' => cached' >= cached)
  <2>1. CASE StoreView
    <3>1. rewound' <=> rewound \/ cached > viewed + Capacity
      BY <2>1 DEF StoreView
    <3>2. cached' = viewed + Capacity /\ cached' \in Int /\ cached \in Int
      BY <2>1, NearAssumption DEF StoreView, Refreshed, NearTypeOK, Nonces
    <3> QED BY <3>1, <3>2
  <2>2. CASE ~StoreView
    <3>1. UNCHANGED <<cached, rewound>>
      BY <2>2 DEF ViewNonce, CoolsDown, LimitGrows, FindTooLarge, Judge
    <3> QED BY <3>1 DEF NearTypeOK, Nonces
  <2> QED BY <2>1, <2>2
<1>4. Ahead' /\ NoncesDiffer'
  BY <1>1, <1>2, <1>3 DEF NearTypeOK, Ahead, NoncesDiffer, Nonces
<1> QED BY <1>2, <1>4

\* No nonce is used twice as long as no refresh finds the entry more than qCap
\* ahead of the chain (txnProcessor.go:354-366 without the mutex, 371-391 with it).
THEOREM NoNonceTwice == NearSpec => []NoncesDiffer
<1>1. NearInv /\ [NearNext]_nearVars => NearInv'
  <2>1. ASSUME NearInv, UNCHANGED nearVars PROVE NearInv'
    BY <2>1 DEF nearVars, NearInv, NearTypeOK, Ahead, NoncesDiffer
  <2> QED BY <2>1, SendKeeps, RefreshKeeps DEF NearNext, NearEnd
<1>2. NearInv => NoncesDiffer
  BY DEF NearInv
<1> QED BY <1>1, <1>2, NearInitially, PTL DEF NearSpec
=============================================================================
