--------------------------- MODULE TxnCustodyProofs ---------------------------
(***************************************************************************)
(* Custody: no request is lost and none is processed twice, for every set  *)
(* of requests, senders and keys, every capacity and every fault.          *)
(*                                                                         *)
(* Custody alone is not inductive.  It needs that a worker and a queue     *)
(* only hold requests of their own key (Disciplined, OwnWorkers), for the  *)
(* queue a request is looked for in is that of its key, and that an answer *)
(* nobody waits for belongs to an evaluation which will not retry          *)
(* (Placed), for a retry would then find two answers.                      *)
(***************************************************************************)
EXTENDS TxnProcessorProofs

USE DEF vars, queueVars, workerVars, cacheVars, guardVars, chainVars, evalVars

In(queue, r) == \E i \in DOMAIN queue : queue[i] = r

\* A queue holds requests of its own key, each of them once.
Disciplined(qs) ==
  \A k \in Keys :
    /\ \A i \in DOMAIN qs[k] : Key(qs[k][i]) = k
    /\ \A i, j \in DOMAIN qs[k] : qs[k][i] = qs[k][j] => i = j

\* A worker holds a request of its own key.
OwnWorkers ==
  \A k \in Keys : /\ sortReq[k] # NoReq => Key(sortReq[k]) = k
                  /\ sendReq[k] # NoReq => Key(sendReq[k]) = k

Alone(r) == \E p \in Places : IsAt(r, p) /\ \A q \in Places \ {p} : ~IsAt(r, q)

Placed(r) ==
  /\ waiter[r] = "wait" => Alone(r)
  /\ waiter[r] # "wait" => \A p \in Places \ {"resp"} : ~IsAt(r, p)
  /\ waiter[r] # "wait" /\ IsAt(r, "resp") =>
       /\ waiter[r] \in {"unlock", "clear", "decide", "done"}
       /\ status[r] = "SuccessRetransmit" /\ ~again[r]

Cared == /\ Disciplined(unordered) /\ Disciplined(ordered) /\ OwnWorkers
         /\ \A r \in Reqs : Placed(r)

-----------------------------------------------------------------------------
(* What the queue operations do to membership.                             *)

\* Enqueueing a request that is not there puts it, once, into its own queue.
LEMMA PutIn ==
  ASSUME NEW qs \in [Keys -> Seq(Reqs)], Disciplined(qs),
         NEW r \in Reqs, ~In(qs[Key(r)], r)
  PROVE  /\ Disciplined(Enqueue(qs, Key(r), r))
         /\ \A q \in Reqs : In(Enqueue(qs, Key(r), r)[Key(q)], q)
                            <=> In(qs[Key(q)], q) \/ q = r
<1> DEFINE k == Key(r)
           old == qs[k]
           qt == Enqueue(qs, k, r)
<1>1. k \in Keys /\ old \in Seq(Reqs)
  BY KeyType
<1>2. /\ qt[k] = Append(old, r)
      /\ \A x \in Keys \ {k} : qt[x] = qs[x]
  BY <1>1 DEF Enqueue
<1>3. /\ DOMAIN Append(old, r) = DOMAIN old \cup {Len(old) + 1}
      /\ Len(old) + 1 \notin DOMAIN old
      /\ \A i \in DOMAIN old : Append(old, r)[i] = old[i]
      /\ Append(old, r)[Len(old) + 1] = r
  BY <1>1
<1> HIDE DEF qt, old
<1>4. \A q \in Reqs : In(qt[k], q) <=> In(old, q) \/ q = r
  BY <1>2, <1>3 DEF In
<1>5. Disciplined(qt)
  <2>1. ASSUME NEW i \in DOMAIN qt[k] PROVE Key(qt[k][i]) = k
    BY <1>1, <1>2, <1>3, <2>1 DEF Disciplined, old
  <2>2. ASSUME NEW i \in DOMAIN qt[k], NEW j \in DOMAIN qt[k], qt[k][i] = qt[k][j]
        PROVE  i = j
    BY <1>1, <1>2, <1>3, <2>2 DEF Disciplined, In, old
  <2> QED BY <1>1, <1>2, <2>1, <2>2 DEF Disciplined
<1>6. \A q \in Reqs : In(qt[Key(q)], q) <=> In(qs[Key(q)], q) \/ q = r
  BY <1>2, <1>4, KeyType DEF old
<1> QED BY <1>5, <1>6 DEF qt

\* Taking the head removes that request and no other.
LEMMA TakeOut ==
  ASSUME NEW qs \in [Keys -> Seq(Reqs)], Disciplined(qs),
         NEW k \in Keys, qs[k] # <<>>
  PROVE  /\ Head(qs[k]) \in Reqs /\ Key(Head(qs[k])) = k
         /\ In(qs[k], Head(qs[k]))
         /\ Disciplined([qs EXCEPT ![k] = Tail(@)])
         /\ \A q \in Reqs : In([qs EXCEPT ![k] = Tail(@)][Key(q)], q)
                            <=> In(qs[Key(q)], q) /\ q # Head(qs[k])
<1> DEFINE old == qs[k]
           qt == [qs EXCEPT ![k] = Tail(@)]
<1>1. old \in Seq(Reqs) /\ old # <<>>
  OBVIOUS
<1>2. /\ qt[k] = Tail(old)
      /\ \A x \in Keys \ {k} : qt[x] = qs[x]
  OBVIOUS
<1>3. /\ Len(old) \in Nat \ {0} /\ DOMAIN old = 1 .. Len(old)
      /\ DOMAIN Tail(old) = 1 .. Len(old) - 1
      /\ \A i \in 1 .. Len(old) - 1 : Tail(old)[i] = old[i + 1]
      /\ Head(old) = old[1] /\ Head(old) \in Reqs
  BY <1>1
<1>4. /\ \A i \in DOMAIN old : Key(old[i]) = k
      /\ \A i, j \in DOMAIN old : old[i] = old[j] => i = j
  BY DEF Disciplined
<1> HIDE DEF qt, old
<1>5. \A q : In(Tail(old), q) <=> In(old, q) /\ q # Head(old)
  <2>1. ASSUME NEW q, In(Tail(old), q) PROVE In(old, q) /\ q # Head(old)
    <3>1. PICK i \in DOMAIN Tail(old) : Tail(old)[i] = q
      BY <2>1 DEF In
    <3>2. i + 1 \in DOMAIN old /\ old[i + 1] = q /\ i + 1 # 1 /\ 1 \in DOMAIN old
      BY <1>3, <3>1
    <3>3. q # old[1]
      BY <1>4, <3>2
    <3> QED BY <1>3, <3>2, <3>3 DEF In
  <2>2. ASSUME NEW q, In(old, q), q # Head(old) PROVE In(Tail(old), q)
    <3>1. PICK i \in DOMAIN old : old[i] = q
      BY <2>2 DEF In
    <3>2. i - 1 \in DOMAIN Tail(old) /\ Tail(old)[i - 1] = q
      BY <1>3, <2>2, <3>1
    <3> QED BY <3>2 DEF In
  <2> QED BY <2>1, <2>2
<1>6. Disciplined(qt)
  <2>1. ASSUME NEW i \in DOMAIN qt[k] PROVE Key(qt[k][i]) = k
    BY <1>2, <1>3, <1>4, <2>1
  <2>2. ASSUME NEW i \in DOMAIN qt[k], NEW j \in DOMAIN qt[k], qt[k][i] = qt[k][j]
        PROVE  i = j
    BY <1>2, <1>3, <1>4, <2>2
  <2> QED BY <1>2, <2>1, <2>2 DEF Disciplined
<1>7. \A q \in Reqs : In(qt[Key(q)], q) <=> In(qs[Key(q)], q) /\ q # Head(old)
  <2> SUFFICES ASSUME NEW q \in Reqs
               PROVE  In(qt[Key(q)], q) <=> In(qs[Key(q)], q) /\ q # Head(old)
    OBVIOUS
  <2>1. Key(Head(old)) = k
    BY <1>3, <1>4
  <2> QED BY <1>2, <1>5, <2>1, KeyType DEF old
<1>8. In(old, Head(old)) /\ Key(Head(old)) = k
  BY <1>3, <1>4 DEF In
<1> QED BY <1>3, <1>6, <1>7, <1>8 DEF qt, old

-----------------------------------------------------------------------------
(* Every handler moves one request from one place to another and leaves    *)
(* the others where they are.                                              *)

\* The places, one by one, before and after a step.
LEMMA PlacesOf ==
  ASSUME NEW r
  PROVE  /\ IsAt(r, "unordered") <=> In(unordered[Key(r)], r)
         /\ IsAt(r, "sort") <=> /\ sortReq[Key(r)] = r
                                /\ sortAt[Key(r)] \in {"lock", "push"}
         /\ IsAt(r, "timer") <=> r \in timers
         /\ IsAt(r, "ordered") <=> In(ordered[Key(r)], r)
         /\ IsAt(r, "send") <=> sendReq[Key(r)] = r
         /\ IsAt(r, "rpc") <=> rpc[r] # "idle"
         /\ IsAt(r, "resp") <=> respChan[r] # "Empty"
BY DEF IsAt, In

LEMMA PlacesAfter ==
  ASSUME NEW r
  PROVE  /\ IsAt(r, "unordered")' <=> In(unordered'[Key(r)], r)
         /\ IsAt(r, "sort")' <=> /\ sortReq'[Key(r)] = r
                                 /\ sortAt'[Key(r)] \in {"lock", "push"}
         /\ IsAt(r, "timer")' <=> r \in timers'
         /\ IsAt(r, "ordered")' <=> In(ordered'[Key(r)], r)
         /\ IsAt(r, "send")' <=> sendReq'[Key(r)] = r
         /\ IsAt(r, "rpc")' <=> rpc'[r] # "idle"
         /\ IsAt(r, "resp")' <=> respChan'[r] # "Empty"
BY DEF IsAt, In, Key

\* r may have gone to another place, but is at no third one.
Passes(r, from, to) ==
  /\ IsAt(r, from) /\ IsAt(r, to)'
  /\ \A p \in Places \ {to} : IsAt(r, p)' => IsAt(r, p) /\ p # from
  /\ UNCHANGED <<waiter, status, again>>
Stays(r) == \A p \in Places : IsAt(r, p)' <=> IsAt(r, p)
OnlyPasses(r, from, to) == /\ Passes(r, from, to)
                           /\ \A q \in Reqs \ {r} : Stays(q)

\* A request whose place, waiter and evaluation stay is placed as before.
LEMMA StaysPlaced ==
  ASSUME NEW r \in Reqs, Placed(r), Stays(r),
         waiter'[r] = waiter[r], status'[r] = status[r], again'[r] = again[r]
  PROVE  Placed(r)'
BY DEF Placed, Alone, Stays, Places

LEMMA PassesPlaced ==
  ASSUME \A q \in Reqs : Placed(q),
         NEW r \in Reqs, NEW from \in Places \ {"resp"}, NEW to \in Places,
         OnlyPasses(r, from, to)
  PROVE  \A q \in Reqs : Placed(q)'
<1>1. waiter[r] = "wait" /\ IsAt(r, from)
  BY DEF OnlyPasses, Passes, Placed
<1>2. \A p \in Places \ {from} : ~IsAt(r, p)
  BY <1>1 DEF Placed, Alone
<1>3. Alone(r)'
  <2>1. \A p \in Places \ {to} : ~IsAt(r, p)'
    BY <1>2 DEF OnlyPasses, Passes
  <2> QED BY <2>1 DEF OnlyPasses, Passes, Alone, Places
<1>4. Placed(r)'
  BY <1>1, <1>3 DEF OnlyPasses, Passes, Placed
<1> QED BY <1>4, StaysPlaced DEF OnlyPasses, Passes

\* Only the queues and the workers matter to the rest of the invariant.
LEMMA SameHolders ==
  ASSUME Cared, UNCHANGED <<unordered, ordered, sortReq, sendReq>>
  PROVE  Disciplined(unordered)' /\ Disciplined(ordered)' /\ OwnWorkers'
BY DEF Cared, Disciplined, OwnWorkers, Key

LEMMA StaySteps ==
  ASSUME Cared, \A r \in Reqs : Stays(r),
         UNCHANGED <<unordered, ordered, sortReq, sendReq, waiter, status, again>>
  PROVE  Cared'
BY SameHolders, StaysPlaced DEF Cared

\* A step of a queue or a worker that moves one request.
LEMMA PassSteps ==
  ASSUME Cared, NEW r \in Reqs, NEW from \in Places \ {"resp"}, NEW to \in Places,
         OnlyPasses(r, from, to),
         Disciplined(unordered)', Disciplined(ordered)', OwnWorkers'
  PROVE  Cared'
BY PassesPlaced DEF Cared

LEMMA SortCared ==
  ASSUME TypeOK, Cared, NEW k \in Keys, SortStep(k)
  PROVE  Cared'
<1> USE KeyType, NoReqAssumption, PlacesOf, PlacesAfter
<1>1. CASE SortTake(k)
  <2>1. unordered \in [Keys -> Seq(Reqs)] /\ unordered[k] # <<>>
    BY <1>1 DEF SortTake, TypeOK, QueueTypes
  <2> PICK r \in Reqs : r = Head(unordered[k])
    BY <2>1
  <2>2. /\ Key(r) = k /\ In(unordered[k], r)
        /\ Disciplined(unordered)'
        /\ \A q \in Reqs : In(unordered'[Key(q)], q)
                           <=> In(unordered[Key(q)], q) /\ q # r
    BY <1>1, <2>1, TakeOut DEF SortTake, Cared
  <2>3. /\ sortAt[k] = "idle" /\ sortReq[k] = NoReq
        /\ sortAt'[k] = "lock" /\ sortReq'[k] = r
        /\ \A x \in Keys \ {k} : sortAt'[x] = sortAt[x] /\ sortReq'[x] = sortReq[x]
    BY <1>1 DEF SortTake, TypeOK, WorkerTypes
  <2>4. UNCHANGED <<timers, ordered, sendReq, rpc, respChan, waiter, status, again>>
    BY <1>1 DEF SortTake
  <2>5. OnlyPasses(r, "unordered", "sort")
    <3>1. Passes(r, "unordered", "sort")
      BY <2>2, <2>3, <2>4 DEF Passes, Places
    <3>2. ASSUME NEW q \in Reqs \ {r} PROVE Stays(q)
      BY <2>2, <2>3, <2>4 DEF Stays, Places
    <3> QED BY <3>1, <3>2 DEF OnlyPasses
  <2>6. Disciplined(ordered)' /\ OwnWorkers'
    BY <2>2, <2>3, <2>4 DEF Cared, Disciplined, OwnWorkers, Key
  <2> QED BY <2>2, <2>5, <2>6, PassSteps DEF Places
<1>2. ASSUME NEW r \in Reqs, SortReady(k, r)
      PROVE  Key(r) = k /\ IsAt(r, "sort") /\ sortReq[k] = r
  BY <1>2 DEF SortReady, Cared, OwnWorkers
<1>3. CASE SortExpired(k) \/ SortTooLow(k)
  <2>1. PICK r \in Reqs, m \in OwnStatuses :
             /\ SortReady(k, r) /\ Respond(r, m) /\ SortDone(k)
             /\ UNCHANGED <<unordered, ordered, timers, sendReq, rpc, waiter, status,
                            again>>
    BY <1>3 DEF SortExpired, SortTooLow, OwnStatuses
  <2>2. Key(r) = k /\ IsAt(r, "sort") /\ sortReq[k] = r
    BY <1>2, <2>1
  <2>3. /\ respChan[r] = "Empty" /\ respChan'[r] # "Empty"
        /\ \A q \in Reqs \ {r} : respChan'[q] = respChan[q]
    BY <2>1 DEF Respond, OwnStatuses, TypeOK, OtherTypes
  <2>4. /\ sortReq'[k] = NoReq
        /\ \A x \in Keys \ {k} : sortAt'[x] = sortAt[x] /\ sortReq'[x] = sortReq[x]
    BY <2>1 DEF SortDone, TypeOK, WorkerTypes
  <2>5. OnlyPasses(r, "sort", "resp")
    BY <2>1, <2>2, <2>3, <2>4 DEF OnlyPasses, Passes, Stays, Places
  <2>6. Disciplined(unordered)' /\ Disciplined(ordered)' /\ OwnWorkers'
    BY <2>1, <2>4 DEF Cared, Disciplined, OwnWorkers, Key
  <2> QED BY <2>5, <2>6, PassSteps DEF Places
<1>4. CASE SortAdmit(k) \/ SortRetransmit(k)
  <2>1. /\ sortAt[k] = "lock" /\ sortAt' = [sortAt EXCEPT ![k] = "push"]
        /\ UNCHANGED <<sortReq, unordered, ordered, timers, sendReq, rpc, respChan,
                       waiter, status, again>>
    BY <1>4 DEF SortAdmit, SortRetransmit, SortReady, SortStay
  <2>2. \A q \in Reqs : Stays(q)
    BY <2>1 DEF Stays, Places, TypeOK, WorkerTypes
  <2> QED BY <2>1, <2>2, StaySteps
<1>5. CASE SortTooHigh(k)
  <2>1. PICK r \in Reqs :
             /\ SortReady(k, r) /\ timers' = timers \cup {r} /\ SortStay(k, "refresh")
             /\ UNCHANGED <<unordered, ordered, sendReq, rpc, respChan, waiter, status,
                            again>>
    BY <1>5 DEF SortTooHigh
  <2>2. Key(r) = k /\ IsAt(r, "sort") /\ sortReq[k] = r
    BY <1>2, <2>1
  <2>3. /\ sortAt'[k] = "refresh" /\ UNCHANGED sortReq
        /\ \A x \in Keys \ {k} : sortAt'[x] = sortAt[x]
    BY <2>1 DEF SortStay, TypeOK, WorkerTypes
  <2>4. OnlyPasses(r, "sort", "timer")
    BY <2>1, <2>2, <2>3 DEF OnlyPasses, Passes, Stays, Places
  <2> QED BY <2>1, <2>3, <2>4, PassSteps, SameHolders DEF Places
<1>6. CASE SortPush(k)
  <2> PICK r \in Reqs : r = sortReq[k]
    BY <1>6 DEF SortPush, TypeOK, WorkerTypes
  <2>1. Key(r) = k /\ IsAt(r, "sort")
    BY <1>6 DEF SortPush, TypeOK, WorkerTypes, Cared, OwnWorkers
  <2>2. /\ ordered \in [Keys -> Seq(Reqs)] /\ ordered' = Enqueue(ordered, k, r)
        /\ UNCHANGED <<unordered, timers, sendReq, rpc, respChan, waiter, status, again>>
    BY <1>6 DEF SortPush, TypeOK, QueueTypes
  <2>3. ~In(ordered[k], r)
    BY <2>1 DEF Cared, Placed, Alone, Places
  <2>4. /\ Disciplined(ordered)'
        /\ \A q \in Reqs : In(ordered'[Key(q)], q) <=> In(ordered[Key(q)], q) \/ q = r
    BY <2>1, <2>2, <2>3, PutIn DEF Cared
  <2>5. /\ sortReq'[k] = NoReq
        /\ \A x \in Keys \ {k} : sortAt'[x] = sortAt[x] /\ sortReq'[x] = sortReq[x]
    BY <1>6 DEF SortPush, SortDone, TypeOK, WorkerTypes
  <2>6. \A q \in Reqs \ {r} : sortReq[Key(q)] = q => Key(q) # k
    OBVIOUS
  <2>7. OnlyPasses(r, "sort", "ordered")
    <3>1. Passes(r, "sort", "ordered")
      BY <2>1, <2>2, <2>4, <2>5 DEF Passes, Places
    <3>2. ASSUME NEW q \in Reqs \ {r} PROVE Stays(q)
      <4>1. IsAt(q, "sort")' <=> IsAt(q, "sort")
        BY <2>5, <2>6
      <4>2. IsAt(q, "ordered")' <=> IsAt(q, "ordered")
        BY <2>4
      <4>3. /\ IsAt(q, "unordered")' <=> IsAt(q, "unordered")
            /\ IsAt(q, "timer")' <=> IsAt(q, "timer")
            /\ IsAt(q, "send")' <=> IsAt(q, "send")
        BY <2>2
      <4>4. /\ IsAt(q, "rpc")' <=> IsAt(q, "rpc")
            /\ IsAt(q, "resp")' <=> IsAt(q, "resp")
        BY <2>2
      <4> QED BY <4>1, <4>2, <4>3, <4>4 DEF Stays, Places
    <3> QED BY <3>1, <3>2 DEF OnlyPasses
  <2>8. Disciplined(unordered)'
    BY <2>2 DEF Cared, Disciplined, Key
  <2>9. OwnWorkers'
    BY <2>2, <2>5 DEF Cared, OwnWorkers, Key
  <2> QED BY <2>1, <2>4, <2>7, <2>8, <2>9, PassSteps DEF Places
<1>7. CASE SortRefresh(k)
  <2>1. /\ sortAt[k] = "refresh" /\ sortAt'[k] = "idle" /\ sortReq'[k] = NoReq
        /\ \A x \in Keys \ {k} : sortAt'[x] = sortAt[x] /\ sortReq'[x] = sortReq[x]
        /\ UNCHANGED <<unordered, ordered, timers, sendReq, rpc, respChan, waiter, status,
                       again>>
    BY <1>7 DEF SortRefresh, SortDone, TypeOK, WorkerTypes
  <2>2. \A q \in Reqs : Stays(q)
    BY <2>1 DEF Stays, Places
  <2>3. Disciplined(unordered)' /\ Disciplined(ordered)' /\ OwnWorkers'
    BY <2>1 DEF Cared, Disciplined, OwnWorkers, Key
  <2> QED BY <2>1, <2>2, <2>3, StaysPlaced DEF Cared
<1> QED BY <1>1, <1>3, <1>4, <1>5, <1>6, <1>7 DEF SortStep, SortSettle

LEMMA SendCared ==
  ASSUME TypeOK, Cared, NEW k \in Keys, SendStep(k)
  PROVE  Cared'
<1> USE KeyType, NoReqAssumption, PlacesOf, PlacesAfter
<1>1. CASE SendTake(k)
  <2>1. ordered \in [Keys -> Seq(Reqs)] /\ ordered[k] # <<>>
    BY <1>1 DEF SendTake, TypeOK, QueueTypes
  <2> PICK r \in Reqs : r = Head(ordered[k])
    BY <2>1
  <2>2. /\ Key(r) = k /\ In(ordered[k], r)
        /\ Disciplined(ordered)'
        /\ \A q \in Reqs : In(ordered'[Key(q)], q) <=> In(ordered[Key(q)], q) /\ q # r
    BY <1>1, <2>1, TakeOut DEF SendTake, Cared
  <2>3. /\ sendReq[k] = NoReq /\ sendReq'[k] = r
        /\ \A x \in Keys \ {k} : sendReq'[x] = sendReq[x]
    BY <1>1 DEF SendTake, TypeOK, WorkerTypes
  <2>4. UNCHANGED <<timers, unordered, sortAt, sortReq, rpc, respChan, waiter, status,
                    again>>
    BY <1>1 DEF SendTake
  <2>5. Passes(r, "ordered", "send")
    BY <2>2, <2>3, <2>4 DEF Passes, Places
  <2>6. ASSUME NEW q \in Reqs \ {r} PROVE Stays(q)
    BY <2>2, <2>3, <2>4 DEF Stays, Places
  <2>7. Disciplined(unordered)' /\ OwnWorkers'
    BY <2>2, <2>3, <2>4 DEF Cared, Disciplined, OwnWorkers, Key
  <2> QED BY <2>2, <2>5, <2>6, <2>7, PassSteps DEF Places, OnlyPasses
<1>2. ASSUME sendAt[k] # "idle"
      PROVE  \E r \in Reqs : r = sendReq[k] /\ Key(r) = k /\ IsAt(r, "send")
  BY <1>2 DEF TypeOK, WorkerTypes, Cared, OwnWorkers
<1>3. CASE SendReorder(k) \/ SendExpired(k) \/ SendNonceError(k)
  <2>1. /\ sendAt[k] # "idle" /\ SendDone(k)
        /\ \E m \in OwnStatuses : Respond(sendReq[k], m)
        /\ UNCHANGED <<unordered, ordered, timers, sortAt, sortReq, rpc, waiter, status,
                       again>>
    BY <1>3 DEF SendReorder, SendExpired, SendNonceError, SendRespond, OwnStatuses
  <2>2. PICK r \in Reqs : r = sendReq[k] /\ Key(r) = k /\ IsAt(r, "send")
    BY <1>2, <2>1
  <2>3. /\ respChan[r] = "Empty" /\ respChan'[r] # "Empty"
        /\ \A q \in Reqs \ {r} : respChan'[q] = respChan[q]
    BY <2>1, <2>2 DEF Respond, OwnStatuses, TypeOK, OtherTypes
  <2>4. sendReq'[k] = NoReq /\ \A x \in Keys \ {k} : sendReq'[x] = sendReq[x]
    BY <2>1 DEF SendDone, TypeOK, WorkerTypes
  <2>5. Passes(r, "send", "resp")
    BY <2>1, <2>2, <2>3, <2>4 DEF Passes, Places
  <2>6. ASSUME NEW q \in Reqs \ {r} PROVE Stays(q)
    BY <2>1, <2>2, <2>3, <2>4 DEF Stays, Places
  <2>7. Disciplined(unordered)' /\ Disciplined(ordered)' /\ OwnWorkers'
    BY <2>1, <2>4 DEF Cared, Disciplined, OwnWorkers, Key
  <2> QED BY <2>5, <2>6, <2>7, PassSteps DEF Places, OnlyPasses
<1>4. CASE SendPass(k)
  <2>1. UNCHANGED <<unordered, ordered, timers, sortAt, sortReq, sendReq, rpc, respChan,
                    waiter, status, again>>
    BY <1>4 DEF SendPass
  <2>2. \A q \in Reqs : Stays(q)
    BY <2>1 DEF Stays, Places
  <2> QED BY <2>1, <2>2, StaySteps
<1>5. CASE SendLaunch(k)
  <2>1. /\ sendAt[k] # "idle" /\ SendDone(k)
        /\ rpc' = [rpc EXCEPT ![sendReq[k]] = "sent"]
        /\ UNCHANGED <<unordered, ordered, timers, sortAt, sortReq, respChan, waiter,
                       status, again>>
    BY <1>5 DEF SendLaunch
  <2>2. PICK r \in Reqs : r = sendReq[k] /\ Key(r) = k /\ IsAt(r, "send")
    BY <1>2, <2>1
  <2>3. rpc'[r] = "sent" /\ \A q \in Reqs \ {r} : rpc'[q] = rpc[q]
    BY <2>1, <2>2 DEF TypeOK, OtherTypes
  <2>4. sendReq'[k] = NoReq /\ \A x \in Keys \ {k} : sendReq'[x] = sendReq[x]
    BY <2>1 DEF SendDone, TypeOK, WorkerTypes
  <2>5. Passes(r, "send", "rpc")
    BY <2>1, <2>2, <2>3, <2>4 DEF Passes, Places
  <2>6. ASSUME NEW q \in Reqs \ {r} PROVE Stays(q)
    BY <2>1, <2>2, <2>3, <2>4 DEF Stays, Places
  <2>7. Disciplined(unordered)' /\ Disciplined(ordered)' /\ OwnWorkers'
    BY <2>1, <2>4 DEF Cared, Disciplined, OwnWorkers, Key
  <2> QED BY <2>5, <2>6, <2>7, PassSteps DEF Places, OnlyPasses
<1> QED BY <1>1, <1>3, <1>4, <1>5 DEF SendStep

\* NEAR's verdict stays with the call until it is delivered or lost.
LEMMA NearCared ==
  ASSUME TypeOK, Cared, NEW r \in Reqs, NearStep(r) \/ StrayRun(r)
  PROVE  Cared'
<1> USE PlacesOf, PlacesAfter
<1>1. CASE NearRun(r) \/ StrayRun(r)
  <2>1. /\ UNCHANGED <<unordered, ordered, timers, sortAt, sortReq, sendReq, respChan,
                       waiter, status, again>>
        /\ \A q \in Reqs : rpc'[q] # "idle" <=> rpc[q] # "idle"
    BY <1>1 DEF NearRun, StrayRun, TypeOK, OtherTypes
  <2>2. \A q \in Reqs : Stays(q)
    BY <2>1 DEF Stays, Places
  <2> QED BY <2>1, <2>2, StaySteps
<1>2. CASE NearReply(r) \/ NearRefuse(r) \/ NearLose(r)
  <2>1. /\ UNCHANGED <<unordered, ordered, timers, sortAt, sortReq, sendReq, waiter,
                       status, again>>
        /\ rpc[r] # "idle" /\ rpc' = [rpc EXCEPT ![r] = "idle"]
        /\ \E m \in Answers : Respond(r, m)
    BY <1>2 DEF NearReply, NearRefuse, NearLose, Answers
  <2>2. /\ respChan[r] = "Empty" /\ respChan'[r] # "Empty"
        /\ \A q \in Reqs \ {r} : respChan'[q] = respChan[q] /\ rpc'[q] = rpc[q]
        /\ rpc'[r] = "idle"
    BY <2>1 DEF Respond, Answers, RpcRefusals, RpcLosses, TypeOK, OtherTypes
  <2>3. Passes(r, "rpc", "resp")
    BY <2>1, <2>2 DEF Passes, Places
  <2>4. ASSUME NEW q \in Reqs \ {r} PROVE Stays(q)
    BY <2>1, <2>2 DEF Stays, Places
  <2> QED BY <2>1, <2>3, <2>4, PassSteps, SameHolders DEF Places, OnlyPasses
<1> QED BY <1>1, <1>2 DEF NearStep

\* Submit() and a retry put a request that is nowhere into the unordered queue.
LEMMA EnterCared ==
  ASSUME TypeOK, Cared, NEW r \in Reqs, Submit(r) \/ Retry(r)
  PROVE  Cared'
<1> USE KeyType, PlacesOf, PlacesAfter
<1>1. waiter[r] # "wait" /\ ~IsAt(r, "resp")
  BY DEF Submit, Retry, EvalStep, Cared, Placed
<1>2. \A p \in Places : ~IsAt(r, p)
  BY <1>1 DEF Cared, Placed, Places
<1>3. /\ unordered \in [Keys -> Seq(Reqs)] /\ ~In(unordered[Key(r)], r)
      /\ unordered' = Enqueue(unordered, Key(r), r)
  BY <1>2 DEF Submit, Retry, TypeOK, QueueTypes, Places
<1>4. /\ Disciplined(unordered)'
      /\ \A q \in Reqs : In(unordered'[Key(q)], q) <=> In(unordered[Key(q)], q) \/ q = r
  BY <1>3, PutIn DEF Cared
<1>5. /\ UNCHANGED <<ordered, timers, sortAt, sortReq, sendReq, rpc, respChan>>
      /\ waiter'[r] = "wait"
      /\ \A q \in Reqs \ {r} : /\ waiter'[q] = waiter[q] /\ status'[q] = status[q]
                               /\ again'[q] = again[q]
  BY DEF Submit, Retry, EvalStep, TypeOK, EvalTypes
<1>6. IsAt(r, "unordered")' /\ \A p \in Places \ {"unordered"} : ~IsAt(r, p)'
  BY <1>2, <1>4, <1>5 DEF Places
<1>7. Placed(r)'
  BY <1>5, <1>6 DEF Placed, Alone, Places
<1>8. ASSUME NEW q \in Reqs \ {r} PROVE Placed(q)'
  <2>1. Stays(q)
    BY <1>4, <1>5 DEF Stays, Places
  <2> QED BY <1>5, <2>1, StaysPlaced DEF Cared
<1>9. Disciplined(ordered)' /\ OwnWorkers'
  BY <1>5 DEF Cared, Disciplined, OwnWorkers, Key
<1> QED BY <1>4, <1>7, <1>8, <1>9 DEF Cared

\* A timer enqueues its request or, with the queue full, answers it.
LEMMA TimerCared ==
  ASSUME TypeOK, Cared, NEW r \in Reqs, TimerFire(r)
  PROVE  Cared'
<1> USE KeyType, PlacesOf, PlacesAfter
<1>1. /\ r \in timers /\ timers' = timers \ {r}
      /\ UNCHANGED <<ordered, sortAt, sortReq, sendReq, rpc, waiter, status, again>>
  BY DEF TimerFire
<1>2. ~In(unordered[Key(r)], r)
  BY <1>1 DEF Cared, Placed, Alone, Places
<1>3. CASE unordered' = Enqueue(unordered, Key(r), r) /\ UNCHANGED respChan
  <2>1. /\ Disciplined(unordered)'
        /\ \A q \in Reqs : In(unordered'[Key(q)], q)
                           <=> In(unordered[Key(q)], q) \/ q = r
    BY <1>2, <1>3, PutIn DEF Cared, TypeOK, QueueTypes
  <2>2. Passes(r, "timer", "unordered")
    BY <1>1, <1>3, <2>1 DEF Passes, Places
  <2>3. ASSUME NEW q \in Reqs \ {r} PROVE Stays(q)
    BY <1>1, <1>3, <2>1 DEF Stays, Places
  <2>4. Disciplined(ordered)' /\ OwnWorkers'
    BY <1>1 DEF Cared, Disciplined, OwnWorkers, Key
  <2> QED BY <2>1, <2>2, <2>3, <2>4, PassSteps DEF Places, OnlyPasses
<1>4. CASE Respond(r, "Exhausted") /\ UNCHANGED unordered
  <2>1. /\ respChan[r] = "Empty" /\ respChan'[r] # "Empty"
        /\ \A q \in Reqs \ {r} : respChan'[q] = respChan[q]
    BY <1>4 DEF Respond, TypeOK, OtherTypes
  <2>2. Passes(r, "timer", "resp")
    BY <1>1, <1>4, <2>1 DEF Passes, Places
  <2>3. ASSUME NEW q \in Reqs \ {r} PROVE Stays(q)
    BY <1>1, <1>4, <2>1 DEF Stays, Places
  <2> QED BY <1>1, <1>4, <2>2, <2>3, PassSteps, SameHolders DEF Places, OnlyPasses
<1> QED BY <1>3, <1>4 DEF TimerFire

\* The evaluation touches respChan only: it takes the answer and, for a request
\* found to have succeeded before, puts one in that nobody waits for.
LEMMA EvalCared ==
  ASSUME TypeOK, Cared, NEW r \in Reqs, EvalMoves(r) \/ EvalLock(r) \/ Finish(r)
  PROVE  Cared'
<1> USE PlacesOf, PlacesAfter
<1>1. /\ UNCHANGED <<unordered, ordered, timers, sortAt, sortReq, sendReq, rpc>>
      /\ \A q \in Reqs \ {r} : /\ waiter'[q] = waiter[q] /\ status'[q] = status[q]
                               /\ again'[q] = again[q] /\ respChan'[q] = respChan[q]
  BY DEF EvalMoves, EvalTake, EvalRefresh, EvalUnlock, EvalClear, EvalLock, Finish,
         EvalStep, Respond, TypeOK, EvalTypes, OtherTypes
<1>2. \A p \in Places \ {"resp"} : IsAt(r, p)' <=> IsAt(r, p)
  BY <1>1 DEF Places
<1>3. ASSUME NEW q \in Reqs \ {r} PROVE Placed(q)'
  <2>1. Stays(q)
    BY <1>1 DEF Stays, Places
  <2> QED BY <1>1, <2>1, StaysPlaced DEF Cared
<1>4. Placed(r)'
  <2>1. CASE EvalTake(r)
    <3>1. waiter'[r] # "wait" /\ ~IsAt(r, "resp")'
      BY <2>1 DEF EvalTake, TypeOK, EvalTypes, OtherTypes
    <3>2. \A p \in Places \ {"resp"} : ~IsAt(r, p)
      BY <2>1 DEF EvalTake, Cared, Placed, Alone, Places
    <3> QED BY <1>2, <3>1, <3>2 DEF Placed
  <2>2. CASE EvalRefresh(r)
    <3>1. /\ waiter[r] = "eth" /\ waiter'[r] = "unlock" /\ respChan[r] = "Empty"
      BY <2>2 DEF EvalRefresh, EvalStep, TypeOK, EvalTypes, Cared, Placed
    <3>2. IsAt(r, "resp")' => status'[r] = "SuccessRetransmit" /\ ~again'[r]
      <4>1. PICK updated \in BOOLEAN :
              LET spent == updated /\ ethNonce'[SenderOf[r]] > NonceOf[r]
                  landed == spent /\ retransmit[r] /\ status[r] = "EthNonceError"
              IN /\ again' = [again EXCEPT ![r] = ~updated \/ (@ /\ ~spent)]
                 /\ status' = [status EXCEPT
                                 ![r] = IF landed THEN "SuccessRetransmit" ELSE @]
                 /\ ~landed => UNCHANGED respChan
        BY <2>2 DEF EvalRefresh
      <4>2. IsAt(r, "resp")' => respChan' # respChan
        BY <3>1
      <4>3. respChan' # respChan => ~again'[r]
        BY <4>1 DEF TypeOK, EvalTypes
      <4>4. respChan' # respChan => status'[r] = "SuccessRetransmit"
        BY <4>1 DEF TypeOK, EvalTypes
      <4> QED BY <4>2, <4>3, <4>4
    <3> QED BY <1>2, <3>1, <3>2 DEF Cared, Placed
  <2>3. CASE EvalUnlock(r) \/ EvalClear(r) \/ EvalLock(r) \/ Finish(r)
    <3>1. /\ UNCHANGED <<respChan, status, again>> /\ waiter[r] # "wait"
          /\ \/ waiter[r] = "lock" /\ waiter'[r] = "eth"
             \/ waiter'[r] \in {"clear", "decide", "done"}
      BY <2>3 DEF EvalUnlock, EvalClear, EvalLock, Finish, EvalStep, TypeOK, EvalTypes
    <3> QED BY <1>2, <3>1 DEF Cared, Placed
  <2> QED BY <2>1, <2>2, <2>3 DEF EvalMoves
<1> QED BY <1>1, <1>3, <1>4, SameHolders DEF Cared

LEMMA NextCared == TypeOK /\ Cared /\ [Next]_vars => Cared'
<1> SUFFICES ASSUME TypeOK, Cared, [Next]_vars PROVE Cared'
  OBVIOUS
<1>1. ASSUME UNCHANGED <<unordered, ordered, timers, sortAt, sortReq, sendReq, rpc,
                         respChan, waiter, status, again>>
      PROVE  Cared'
  <2>1. \A r \in Reqs : Stays(r)
    BY <1>1, PlacesOf, PlacesAfter DEF Stays, Places
  <2> QED BY <1>1, <2>1, StaySteps
<1>2. ASSUME NEW s \in Senders, RivalRun(s) \/ CacheCools(s) PROVE Cared'
  BY <1>1, <1>2 DEF RivalRun, CacheCools
<1>3. ASSUME NEW r \in Reqs, Expire(r) PROVE Cared'
  BY <1>1, <1>3 DEF Expire
<1> QED
  BY <1>1, <1>2, <1>3, SortCared, SendCared, NearCared, EnterCared, TimerCared, EvalCared
  DEF Next, EvalEnds, Terminating

LEMMA InitCared == Init => Cared
<1> SUFFICES ASSUME Init PROVE Cared
  OBVIOUS
<1>1. Disciplined(unordered) /\ Disciplined(ordered) /\ OwnWorkers
  BY DEF Init, Disciplined, OwnWorkers
<1>2. ASSUME NEW r \in Reqs PROVE Placed(r)
  BY KeyType, NoReqAssumption, PlacesOf DEF Init, In, Placed, Places
<1> QED BY <1>1, <1>2 DEF Cared

\* Every request that is waited for is in exactly one place, once, so that its
\* waiter is answered once; one that is not waited for is in none.
THEOREM NothingLostOrDoubled == Spec => []Custody
<1>1. Init => TypeOK /\ Cared
  BY InitTypeOK, InitCared
<1>2. TypeOK /\ Cared /\ [Next]_vars => TypeOK' /\ Cared'
  BY NextTypeOK, NextCared
<1>3. TypeOK /\ Cared => Custody
  BY PlacesOf DEF TypeOK, QueueTypes, Cared, Placed, Alone, Disciplined, Custody, Places
<1> QED BY <1>1, <1>2, <1>3, PTL DEF Spec

-----------------------------------------------------------------------------
(* Nobody waits in a circle.  An answer finds room, for the request is in  *)
(* one place only.  Whoever waits for the mutex waits for an evaluation,   *)
(* which goes on, or for a sort() that refreshes or pushes; a full ordered *)
(* queue has something for the send worker to do.                          *)

LEMMA CaredHasRoom == TypeOK /\ Cared => RoomForAnswers
<1> SUFFICES ASSUME TypeOK, Cared, NEW r \in Reqs, respChan[r] # "Empty"
             PROVE  /\ r \notin timers /\ rpc[r] = "idle"
                    /\ \A k \in Keys : /\ sendReq[k] # r
                                       /\ sortReq[k] = r => sortAt[k] = "refresh"
                    /\ waiter[r] \notin {"lock", "eth"}
  BY DEF RoomForAnswers
<1>1. \A p \in Places \ {"resp"} : ~IsAt(r, p)
  BY PlacesOf DEF Cared, Placed, Alone, Places
<1>2. r \notin timers /\ rpc[r] = "idle" /\ sendReq[Key(r)] # r
  BY <1>1, PlacesOf DEF Places
<1>3. ASSUME NEW k \in Keys
      PROVE  sendReq[k] # r /\ (sortReq[k] = r => sortAt[k] = "refresh")
  <2>1. r # NoReq /\ sortAt[k] \in {"idle", "lock", "push", "refresh"}
    BY NoReqAssumption DEF TypeOK, WorkerTypes
  <2>2. sendReq[k] = r \/ sortReq[k] = r => Key(r) = k
    BY <2>1 DEF Cared, OwnWorkers
  <2>3. sortReq[k] = r => sortAt[k] # "idle"
    BY <2>1 DEF TypeOK, WorkerTypes
  <2>4. ~IsAt(r, "sort")
    BY <1>1 DEF Places
  <2> QED BY <1>2, <2>1, <2>2, <2>3, <2>4, PlacesOf
<1>4. waiter[r] \notin {"lock", "eth"}
  BY PlacesOf DEF Cared, Placed
<1> QED BY <1>2, <1>3, <1>4

\* Whoever holds the mutex goes on, or the send worker it waits for does.
LEMMA HolderGoes ==
  ASSUME TypeOK, MutexHeldByOne, NEW k \in Keys, locked[k]
  PROVE  \/ SortGoes(k) \/ SendGoes(k)
         \/ \E q \in Reqs : Key(q) = k /\ RequestGoes(q)
<1>1. CASE sortAt[k] = "refresh"
  BY <1>1 DEF SortGoes
<1>2. CASE sortAt[k] = "push"
  <2>1. Full(ordered[k]) => ordered[k] # <<>>
    BY QCapAssumption DEF Full, TypeOK, QueueTypes
  <2> QED BY <1>2, <2>1 DEF SortGoes, SendGoes
<1>3. CASE InEval(k) # {}
  BY <1>3 DEF InEval, RequestGoes
<1> QED BY <1>1, <1>2, <1>3 DEF MutexHeldByOne, InSort

LEMMA SomebodyGoes ==
  ASSUME TypeOK, Cared, MutexHeldByOne, NEW r \in Reqs, waiter[r] \notin {"new", "done"}
  PROVE  \/ SortGoes(Key(r)) \/ SendGoes(Key(r))
         \/ \E q \in Reqs : Key(q) = Key(r) /\ RequestGoes(q)
<1> DEFINE k == Key(r)
<1>1. k \in Keys
  BY KeyType
<1>2. /\ locked[k] \in BOOLEAN /\ sortAt[k] \in {"idle", "lock", "push", "refresh"}
      /\ waiter[r] \in {"wait", "lock", "eth", "unlock", "clear", "decide"}
  BY <1>1 DEF TypeOK, GuardTypes, WorkerTypes, EvalTypes
<1>3. CASE locked[k]
  BY <1>1, <1>3, HolderGoes
<1>4. CASE ~locked[k]
  <2>1. sortAt[k] \notin {"push", "refresh"}
    BY <1>1, <1>4 DEF MutexHeldByOne, InSort
  <2>2. CASE waiter[r] # "wait"
    BY <1>2, <1>4, <2>2 DEF RequestGoes
  <2>3. CASE waiter[r] = "wait"
    <3>1. PICK p \in Places : IsAt(r, p)
      BY <2>3 DEF Cared, Placed, Alone
    <3>2. CASE p \in {"unordered", "sort"}
      <4>1. sortAt[k] = "lock" \/ unordered[k] # <<>>
        BY <2>1, <3>1, <3>2, PlacesOf DEF In
      <4> QED BY <1>2, <1>4, <2>1, <4>1 DEF SortGoes
    <3>3. CASE p \in {"ordered", "send"}
      <4>1. sendReq[k] = r \/ ordered[k] # <<>>
        BY <3>1, <3>3, PlacesOf DEF In
      <4>2. sendReq[k] = r => sendAt[k] # "idle"
        BY <1>1, NoReqAssumption DEF TypeOK, WorkerTypes
      <4> QED BY <4>1, <4>2 DEF SendGoes
    <3>4. CASE p \in {"timer", "rpc", "resp"}
      BY <2>3, <3>1, <3>4, PlacesOf DEF RequestGoes
    <3> QED BY <3>2, <3>3, <3>4 DEF Places
  <2> QED BY <2>2, <2>3
<1> QED BY <1>2, <1>3, <1>4

\* The processor cannot come to a standstill: the pieces of txnProcessor.go that
\* block (Enqueue in sort(), retryMutex, Respond) never block in a circle, for
\* any number of keys and requests, any capacity and all faults of the chain.
THEOREM NeverStuck == Spec => []NobodyIsStuck
<1>1. Init => TypeOK /\ Cared /\ Guarded
  BY InitTypeOK, InitCared DEF Init, Guarded, MutexHeldByOne, BreakerNotStuck, InSort, InEval
<1>2. TypeOK /\ Cared /\ Guarded /\ [Next]_vars => TypeOK' /\ Cared' /\ Guarded'
  BY NextTypeOK, NextCared, NextGuarded
<1>3. TypeOK /\ Cared /\ Guarded => NobodyIsStuck
  BY CaredHasRoom, SomebodyGoes DEF Guarded, NobodyIsStuck
<1> QED BY <1>1, <1>2, <1>3, PTL DEF Spec

-----------------------------------------------------------------------------
(* The processor implements TxnService: an accepted request gets one final *)
(* answer, and the answer is "success" only for a transaction that was     *)
(* executed.  Submit() is Accept, an execution is Land, the end of the     *)
(* waiter is Answer; every other step is invisible to the client.          *)

\* An attempt NEAR may still execute is one of a request that was accepted.
StraysAccepted == \A r \in stray : waiter[r] # "new"

Promising == Truth /\ Cared /\ StraysAccepted

\* What a step does that the client cannot see.
Silent ==
  /\ UNCHANGED executed
  /\ \A r \in Reqs : /\ waiter'[r] = "new" <=> waiter[r] = "new"
                     /\ waiter'[r] = "done" <=> waiter[r] = "done"
                     /\ waiter[r] = "done" => status'[r] = status[r]

LEMMA WorkersSilent ==
  ASSUME TypeOK, NEW k \in Keys, SortStep(k) \/ SendStep(k)
  PROVE  Silent /\ UNCHANGED <<stray, waiter>>
BY DEF Silent, SortStep, SortTake, SortSettle, SortExpired, SortAdmit, SortRetransmit,
       SortTooLow, SortTooHigh, SortPush, SortRefresh, SendStep, SendTake, SendReorder,
       SendExpired, SendPass, SendNonceError, SendLaunch, SendRespond

LEMMA EvalSilent ==
  ASSUME TypeOK, NEW r \in Reqs, EvalMoves(r) \/ EvalLock(r) \/ Retry(r)
  PROVE  Silent /\ UNCHANGED stray
BY DEF Silent, EvalMoves, EvalTake, EvalRefresh, EvalUnlock, EvalClear, EvalLock, Retry,
       EvalStep, TypeOK, EvalTypes

LEMMA RestSilent ==
  ASSUME \/ \E r \in Reqs : TimerFire(r) \/ Expire(r)
         \/ \E s \in Senders : RivalRun(s) \/ CacheCools(s)
         \/ UNCHANGED vars
  PROVE  Silent /\ UNCHANGED <<stray, waiter>>
BY DEF Silent, TimerFire, Expire, RivalRun, CacheCools

\* NEAR executes accepted requests only.
LEMMA NearLands ==
  ASSUME TypeOK, Cared, StraysAccepted, NEW r \in Reqs, NearStep(r) \/ StrayRun(r)
  PROVE  /\ UNCHANGED <<waiter, status>>
         /\ \/ UNCHANGED executed
            \/ executed' = executed \cup {r} /\ waiter[r] # "new"
         /\ stray' \subseteq stray \cup {q \in Reqs : waiter[q] # "new"}
<1>1. rpc[r] # "idle" => waiter[r] # "new"
  BY PlacesOf DEF Cared, Placed, Places
<1>2. CASE NearRun(r) \/ NearReply(r) \/ NearRefuse(r)
  BY <1>1, <1>2 DEF NearRun, NearReply, NearRefuse, Execute, StraysAccepted
<1>3. CASE NearLose(r)
  BY <1>1, <1>3 DEF NearLose, StraysAccepted
<1>4. CASE StrayRun(r)
  BY <1>4 DEF StrayRun, Execute, StraysAccepted
<1> QED BY <1>2, <1>3, <1>4 DEF NearStep

LEMMA NextStrays == TypeOK /\ Cared /\ StraysAccepted /\ [Next]_vars => StraysAccepted'
<1> SUFFICES ASSUME TypeOK, Cared, StraysAccepted, [Next]_vars PROVE StraysAccepted'
  OBVIOUS
<1> USE DEF TypeOK, ChainTypes, StraysAccepted
<1>1. ASSUME Silent /\ UNCHANGED stray PROVE StraysAccepted'
  BY <1>1 DEF Silent
<1>2. ASSUME NEW r \in Reqs, Submit(r) \/ Finish(r) PROVE StraysAccepted'
  BY <1>2 DEF Submit, Finish, EvalStep, EvalTypes
<1>3. ASSUME NEW r \in Reqs, NearStep(r) \/ StrayRun(r) PROVE StraysAccepted'
  BY <1>3, NearLands
<1> QED
  BY <1>1, <1>2, <1>3, WorkersSilent, EvalSilent, RestSilent
  DEF Next, EvalEnds, Terminating

LEMMA NextPromising == Promising /\ [Next]_vars => Promising'
BY NextTruth, NextCared, NextStrays DEF Promising, Truth

LEMMA SilentIsStutter == Silent => UNCHANGED Service!vars
BY DEF Silent, Service!vars, Successes

LEMMA SubmitIsAccept ==
  ASSUME TypeOK, NEW r \in Reqs, Submit(r)
  PROVE  Service!Accept(r)
BY DEF Submit, Service!Accept, TypeOK, EvalTypes

\* The only step that needs the invariant of the verdicts.
LEMMA FinishIsAnswer ==
  ASSUME Truth, NEW r \in Reqs, OwnNonce(r), Finish(r)
  PROVE  Service!Answer(r)
<1> USE DEF Truth, TypeOK, EvalTypes, Finish, EvalStep
<1> DEFINE o == IF status[r] \in Successes THEN "success" ELSE "failure"
<1>1. o = "success" => r \in executed
  BY DEF VerdictsAreTrue
<1>2. /\ waiter[r] = "decide" /\ waiter' = [waiter EXCEPT ![r] = "done"]
      /\ UNCHANGED <<status, executed>>
  OBVIOUS
<1> QED BY <1>1, <1>2 DEF Service!Answer

LEMMA NextImplements ==
  ASSUME \A r \in Reqs : OwnNonce(r), Promising, [Next]_vars
  PROVE  [Service!Next]_Service!vars
<1> USE DEF Promising, Truth
<1>1. ASSUME NEW r \in Reqs, Submit(r) PROVE Service!Next
  BY <1>1, SubmitIsAccept DEF Service!Next
<1>2. ASSUME NEW r \in Reqs, Finish(r) PROVE Service!Next
  BY <1>2, FinishIsAnswer DEF Service!Next
<1>3. ASSUME NEW r \in Reqs, NearStep(r) \/ StrayRun(r)
      PROVE  Silent \/ Service!Next
  <2>1. CASE UNCHANGED executed
    BY <1>3, <2>1, NearLands DEF Silent
  <2>2. CASE executed' # executed
    <3>1. /\ UNCHANGED <<waiter, status>> /\ waiter[r] # "new"
          /\ executed' = executed \cup {r} /\ r \notin executed
      BY <1>3, <2>2, NearLands
    <3>2. Service!Land(r)
      BY <3>1 DEF Service!Land
    <3> QED BY <3>2 DEF Service!Next
  <2> QED BY <2>1, <2>2
<1> QED
  BY <1>1, <1>2, <1>3, WorkersSilent, EvalSilent, RestSilent, SilentIsStutter
  DEF Next, EvalEnds, Terminating

\* The processor implements the promise to the RPC handler (without its
\* liveness) when each request's nonce is its own.
THEOREM ImplementsService ==
  ASSUME \A r \in Reqs : OwnNonce(r)
  PROVE  Spec => Service!SafeSpec
<1>1. Init => Service!Init
  BY DEF Init, Service!Init
<1>2. Init => Promising
  BY InitTypeOK, InitTruth, InitCared DEF Promising, Truth, StraysAccepted, Init
<1>3. Promising /\ [Next]_vars => Promising'
  BY NextPromising
<1>4. Promising /\ [Next]_vars => [Service!Next]_Service!vars
  BY NextImplements
<1> QED BY <1>1, <1>2, <1>3, <1>4, PTL DEF Spec, Service!SafeSpec
=============================================================================
