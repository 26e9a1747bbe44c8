--------------------------- MODULE ShutdownProofs ---------------------------
(***************************************************************************)
(* Close() drains the queues, and in an order in which sort() never meets  *)
(* a closed queue, for every number of keys, capacity and load: the queues *)
(* below the one being closed have no worker any more, and a worker leaves *)
(* only a closed and empty queue, to which nothing can be added.           *)
(***************************************************************************)
EXTENDS Shutdown, TLAPS

USE ProcsAssumption DEF Queues

Places == {"new", "queued", "held", "timer", "rpc", "answer", "done"}

ShutdownTypeOK ==
  /\ main \in {"serve", "close", "wait", "closed", "exited"}
  /\ closing \in Queues /\ shut \subseteq Queues
  /\ queue \in [Queues -> Seq(Pending)]
  /\ worker \in [Queues -> {"starting", "idle", "busy", "push", "exited"}]
  /\ held \in [Queues -> SUBSET Pending]
  /\ whereabouts \in [Pending -> Places]

\* How far Close() is.
CloseOrder ==
  /\ main = "serve" => closing = 1
  /\ main \in {"serve", "close"} => shut = 1 .. closing - 1
  /\ main = "wait" => shut = 1 .. closing
  /\ main \in {"closed", "exited"} => shut = Queues
  /\ main \in {"close", "wait"} => \A i \in 1 .. closing - 1 : worker[i] = "exited"
  /\ main \in {"closed", "exited"} => \A i \in Queues : worker[i] = "exited"
  /\ main # "serve" => \A i \in Queues : worker[i] # "starting"

\* What a worker leaves behind, and what it holds.
Workers == \A i \in Queues :
  /\ worker[i] = "exited" => i \in shut /\ queue[i] = <<>>
  /\ worker[i] \notin {"busy", "push"} => held[i] = {}
  /\ \A r, s \in held[i] : r = s
  /\ worker[i] = "push" => i <= NumProcs

InQueue(r) == \E i \in Queues : \E n \in 1 .. Len(queue[i]) : queue[i][n] = r
InHands(r) == \E i \in Queues : r \in held[i]

\* No transaction is lost on the way, unless a panic ends the process.
Whereabouts == panicked = "nobody" => \A r \in Pending :
  /\ whereabouts[r] = "queued" => InQueue(r)
  /\ whereabouts[r] = "held" => InHands(r)

ShutdownInv == ShutdownTypeOK /\ CloseOrder /\ Workers /\ Whereabouts /\ SortFindsItsQueueOpen

LEMMA ShutdownInitially == ShutdownInit => ShutdownInv
  BY DEF ShutdownInit, ShutdownInv, ShutdownTypeOK, CloseOrder, Workers, Whereabouts,
         SortFindsItsQueueOpen, Places

\* What is behind the head of a queue is still there when the head is taken.
LEMMA BehindTheHead ==
  ASSUME NEW S, NEW q \in Seq(S), q # <<>>, NEW n \in 1 .. Len(q), n # 1
  PROVE  n - 1 \in 1 .. Len(Tail(q)) /\ Tail(q)[n - 1] = q[n]
<1>1. Len(q) \in Nat /\ Len(Tail(q)) = Len(q) - 1
  OBVIOUS
<1>2. n - 1 \in 1 .. Len(Tail(q))
  BY <1>1
<1>3. \A m \in 1 .. Len(Tail(q)) : Tail(q)[m] = q[m + 1]
  OBVIOUS
<1>4. (n - 1) + 1 = n
  OBVIOUS
<1> QED BY <1>2, <1>3, <1>4

\* Sending on an open queue loses nothing; sending on a closed one panics.
LEMMA SendsKeeps ==
  ASSUME ShutdownInv, panicked = "nobody",
         NEW who, NEW r \in Pending, NEW i \in Queues, Sends(who, r, i)
  PROVE  /\ queue' \in [Queues -> Seq(Pending)] /\ whereabouts' \in [Pending -> Places]
         /\ \A j \in shut : queue'[j] = queue[j]
         /\ \/ panicked' = who
            \/ /\ panicked' = "nobody" /\ InQueue(r)'
               /\ \A s \in Pending : /\ InQueue(s) => InQueue(s)'
                                     /\ s # r => whereabouts'[s] = whereabouts[s]
               /\ whereabouts'[r] = "queued"
<1> USE DEF ShutdownInv, ShutdownTypeOK
<1>1. CASE i \in shut
  BY <1>1 DEF Sends
<1>2. CASE i \notin shut
  <2>1. /\ queue' = [queue EXCEPT ![i] = Append(@, r)]
        /\ whereabouts' = [whereabouts EXCEPT ![r] = "queued"]
        /\ UNCHANGED panicked
    BY <1>2 DEF Sends
  <2>2. queue[i] \in Seq(Pending) /\ Append(queue[i], r) \in Seq(Pending)
    OBVIOUS
  <2>3. /\ Len(queue'[i]) = Len(queue[i]) + 1
        /\ queue'[i][Len(queue[i]) + 1] = r
        /\ \A n \in 1 .. Len(queue[i]) : queue'[i][n] = queue[i][n]
        /\ \A j \in Queues \ {i} : queue'[j] = queue[j]
    BY <2>1, <2>2
  <2>4. Len(queue[i]) \in Nat /\ Len(queue[i]) + 1 \in 1 .. Len(queue'[i])
    BY <2>2, <2>3
  <2>5. InQueue(r)'
    BY <2>3, <2>4 DEF InQueue
  <2>6. ASSUME NEW s \in Pending, InQueue(s) PROVE InQueue(s)'
    <3>1. PICK j \in Queues : \E n \in 1 .. Len(queue[j]) : queue[j][n] = s
      BY <2>6 DEF InQueue
    <3>2. PICK n \in 1 .. Len(queue[j]) : queue[j][n] = s
      BY <3>1
    <3>3. CASE j = i
      <4>1. n \in 1 .. Len(queue'[i]) /\ queue'[i][n] = s
        BY <2>3, <2>4, <3>2, <3>3
      <4> QED BY <4>1 DEF InQueue
    <3>4. CASE j # i
      <4>1. queue'[j] = queue[j]
        BY <2>3, <3>4
      <4> QED BY <3>2, <4>1 DEF InQueue
    <3> QED BY <3>3, <3>4
  <2> QED BY <1>2, <2>1, <2>2, <2>5, <2>6 DEF Places
<1> QED BY <1>1, <1>2

\* A request moves by itself to another place than a queue or a worker.
LEMMA MoveKeeps ==
  ASSUME ShutdownInv, UNCHANGED <<main, closing, shut, queue, worker, held, panicked>>,
         NEW r \in Pending, NEW to \in {"timer", "rpc", "answer", "done"},
         whereabouts' = [whereabouts EXCEPT ![r] = to]
  PROVE  ShutdownInv'
<1>1. ShutdownTypeOK' /\ CloseOrder'
  BY DEF ShutdownInv, ShutdownTypeOK, CloseOrder, Places
<1>2. Workers' /\ SortFindsItsQueueOpen'
  BY DEF ShutdownInv, Workers, SortFindsItsQueueOpen
<1>3. \A s \in Pending : whereabouts'[s] = IF s = r THEN to ELSE whereabouts[s]
  BY DEF ShutdownInv, ShutdownTypeOK
<1>4. Whereabouts'
  BY <1>3 DEF ShutdownInv, Whereabouts, InQueue, InHands
<1> QED BY <1>1, <1>2, <1>4 DEF ShutdownInv

LEMMA RequestSendsKeeps ==
  ASSUME ShutdownInv, panicked = "nobody", UNCHANGED <<main, closing, shut, worker, held>>,
         NEW who \in {"handler", "timer", "waiter"}, NEW r \in Pending, NEW i \in Queues,
         Sends(who, r, i)
  PROVE  ShutdownInv'
<1>1. /\ queue' \in [Queues -> Seq(Pending)] /\ whereabouts' \in [Pending -> Places]
      /\ \A j \in shut : queue'[j] = queue[j]
      /\ \/ panicked' = who
         \/ /\ panicked' = "nobody" /\ InQueue(r)'
            /\ \A s \in Pending : /\ InQueue(s) => InQueue(s)'
                                  /\ s # r => whereabouts'[s] = whereabouts[s]
            /\ whereabouts'[r] = "queued"
  BY SendsKeeps
<1>2. ShutdownTypeOK' /\ CloseOrder' /\ SortFindsItsQueueOpen'
  BY <1>1 DEF ShutdownInv, ShutdownTypeOK, CloseOrder, SortFindsItsQueueOpen
<1>3. Workers'
  BY <1>1 DEF ShutdownInv, Workers
<1>4. Whereabouts'
  BY <1>1 DEF ShutdownInv, Whereabouts, InHands
<1> QED BY <1>2, <1>3, <1>4 DEF ShutdownInv

LEMMA RequestKeeps ==
  ASSUME ShutdownInv, NEW r \in Pending, Arrive(r) \/ RequestStep(r)
  PROVE  ShutdownInv'
<1>1. ProcOf[r] \in Queues
  BY ProcOfAssumption
<1>2. CASE Arrive(r)
  BY <1>1, <1>2, RequestSendsKeeps DEF Arrive, Running
<1>3. CASE TimerSends(r)
  BY <1>1, <1>3, RequestSendsKeeps, MoveKeeps DEF TimerSends, TrySends, Running
<1>4. CASE Evaluated(r)
  BY <1>1, <1>4, RequestSendsKeeps, MoveKeeps DEF Evaluated, TrySends, Running
<1>5. CASE RpcReturns(r)
  BY <1>5, MoveKeeps DEF RpcReturns
<1> QED BY <1>2, <1>3, <1>4, <1>5 DEF RequestStep

LEMMA WorkerTakesKeeps ==
  ASSUME ShutdownInv, NEW i \in Queues, WorkerTakes(i)
  PROVE  ShutdownInv'
<1> USE DEF ShutdownInv, ShutdownTypeOK
<1>0. worker[i] = "idle" /\ queue[i] # <<>> /\ queue[i] \in Seq(Pending)
  BY DEF WorkerTakes
<1> PICK r \in Pending : r = Head(queue[i])
  BY <1>0
<1>1. /\ worker' = [worker EXCEPT ![i] = "busy"]
      /\ held' = [held EXCEPT ![i] = {r}]
      /\ queue' = [queue EXCEPT ![i] = Tail(@)]
      /\ whereabouts' = [whereabouts EXCEPT ![r] = "held"]
      /\ UNCHANGED <<main, closing, shut, panicked>>
  BY DEF WorkerTakes
<1>2. /\ Tail(queue[i]) \in Seq(Pending)
      /\ Len(queue[i]) \in Nat \ {0} /\ r = queue[i][1]
      /\ Len(Tail(queue[i])) = Len(queue[i]) - 1
      /\ \A n \in 1 .. Len(queue[i]) - 1 : Tail(queue[i])[n] = queue[i][n + 1]
  BY <1>0
<1>3. ShutdownTypeOK' /\ CloseOrder' /\ SortFindsItsQueueOpen'
  <2>1. whereabouts' \in [Pending -> Places] /\ queue' \in [Queues -> Seq(Pending)]
    BY <1>1, <1>2 DEF Places
  <2>2. ShutdownTypeOK'
    BY <1>1, <2>1
  <2>3. CloseOrder' /\ SortFindsItsQueueOpen'
    BY <1>0, <1>1 DEF CloseOrder, SortFindsItsQueueOpen
  <2> QED BY <2>2, <2>3
<1>4. Workers'
  <2> SUFFICES ASSUME NEW j \in Queues
               PROVE  /\ worker'[j] = "exited" => j \in shut /\ queue'[j] = <<>>
                      /\ worker'[j] \notin {"busy", "push"} => held'[j] = {}
                      /\ \A p, q \in held'[j] : p = q
                      /\ worker'[j] = "push" => j <= NumProcs
    BY <1>1 DEF Workers
  <2>1. CASE j = i
    BY <1>1, <2>1
  <2>2. CASE j # i
    <3>1. worker'[j] = worker[j] /\ queue'[j] = queue[j] /\ held'[j] = held[j]
      BY <1>1, <2>2
    <3> QED BY <3>1 DEF Workers
  <2> QED BY <2>1, <2>2
<1>5. ASSUME NEW s \in Pending, s # r, InQueue(s) PROVE InQueue(s)'
  <2>1. PICK j \in Queues : \E n \in 1 .. Len(queue[j]) : queue[j][n] = s
    BY <1>5 DEF InQueue
  <2>2. PICK n \in 1 .. Len(queue[j]) : queue[j][n] = s
    BY <2>1
  <2>3. CASE j # i
    BY <1>1, <2>2, <2>3 DEF InQueue
  <2>4. CASE j = i
    <3>1. n # 1
      BY <1>2, <1>5, <2>2, <2>4
    <3>2. queue'[i] = Tail(queue[i]) /\ n \in 1 .. Len(queue[i])
      BY <1>1, <2>2, <2>4
    <3>3. n - 1 \in 1 .. Len(queue'[i]) /\ queue'[i][n - 1] = s
      BY <1>0, <2>2, <2>4, <3>1, <3>2, BehindTheHead
    <3> QED BY <3>3 DEF InQueue
  <2> QED BY <2>3, <2>4
<1>6. ASSUME NEW s \in Pending, s # r, InHands(s) PROVE InHands(s)'
  <2>1. PICK j \in Queues : s \in held[j]
    BY <1>6 DEF InHands
  <2>2. j # i
    <3>1. held[i] = {}
      BY <1>0 DEF Workers
    <3> QED BY <2>1, <3>1
  <2>3. held'[j] = held[j]
    BY <1>1, <2>2
  <2> QED BY <2>1, <2>3 DEF InHands
<1>7. InHands(r)'
  BY <1>1 DEF InHands
<1>8. Whereabouts'
  <2> SUFFICES ASSUME panicked = "nobody", NEW s \in Pending
               PROVE  /\ whereabouts'[s] = "queued" => InQueue(s)'
                      /\ whereabouts'[s] = "held" => InHands(s)'
    BY <1>1 DEF Whereabouts
  <2>1. CASE s = r
    BY <1>1, <1>7, <2>1
  <2>2. CASE s # r
    <3>1. whereabouts'[s] = whereabouts[s]
      BY <1>1, <2>2
    <3> QED BY <1>5, <1>6, <2>2, <3>1 DEF Whereabouts
  <2> QED BY <2>1, <2>2
<1> QED BY <1>3, <1>4, <1>8

\* A worker that is done with its only transaction.
LEMMA ReleaseKeeps ==
  ASSUME ShutdownInv, NEW i \in Queues, NEW r \in held[i], Released(i), worker[i] = "busy",
         UNCHANGED <<main, closing, shut, queue, panicked>>,
         NEW to \in {"timer", "rpc", "answer", "done"},
         whereabouts' = [whereabouts EXCEPT ![r] = to]
  PROVE  ShutdownInv'
<1> USE DEF ShutdownInv, ShutdownTypeOK
<1>1. ShutdownTypeOK' /\ CloseOrder' /\ SortFindsItsQueueOpen'
  BY DEF Released, CloseOrder, SortFindsItsQueueOpen, Places
<1>2. Workers'
  BY DEF Released, Workers
<1>3. \A s \in Pending : s # r /\ InHands(s) => InHands(s)'
  BY DEF Released, InHands, Workers
<1>4. Whereabouts'
  BY <1>3 DEF Whereabouts, InQueue
<1> QED BY <1>1, <1>2, <1>4

\* The worker of an unordered queue is there only until Close() turns to the
\* ordered ones.
LEMMA SortPushesKeeps ==
  ASSUME ShutdownInv, NEW i \in Queues, SortPushes(i)
  PROVE  ShutdownInv'
<1>1. PICK r \in held[i] :
        /\ Running /\ worker[i] = "push"
        /\ Sends("sort", r, NumProcs + i)
        /\ Released(i)
        /\ UNCHANGED <<main, closing, shut>>
  BY DEF SortPushes
<1>2. r \in Pending /\ i <= NumProcs /\ NumProcs + i \in Queues
  <2>1. i <= NumProcs /\ i \in 1 .. 2 * NumProcs
    BY <1>1 DEF ShutdownInv, Workers
  <2> QED BY <2>1 DEF ShutdownInv, ShutdownTypeOK
<1>3. Sends("sort", r, NumProcs + i)
  BY <1>1
<1> QED
  <2> USE DEF ShutdownInv, ShutdownTypeOK
  <2>1. NumProcs + i \notin shut
    BY <1>1, <1>2 DEF CloseOrder
  <2>2. UNCHANGED panicked /\ panicked = "nobody"
    BY <1>1, <1>3, <2>1 DEF Sends, Running
  <2>3. /\ queue' \in [Queues -> Seq(Pending)] /\ whereabouts' \in [Pending -> Places]
        /\ \A j \in shut : queue'[j] = queue[j]
        /\ InQueue(r)'
        /\ \A s \in Pending : /\ InQueue(s) => InQueue(s)'
                              /\ s # r => whereabouts'[s] = whereabouts[s]
        /\ whereabouts'[r] = "queued"
    <3>1. \/ panicked' = "sort"
          \/ /\ panicked' = "nobody" /\ InQueue(r)'
             /\ \A s \in Pending : /\ InQueue(s) => InQueue(s)'
                                   /\ s # r => whereabouts'[s] = whereabouts[s]
             /\ whereabouts'[r] = "queued"
      BY <1>2, <1>3, <2>2, SendsKeeps
    <3>2. /\ queue' \in [Queues -> Seq(Pending)] /\ whereabouts' \in [Pending -> Places]
          /\ \A j \in shut : queue'[j] = queue[j]
      BY <1>2, <1>3, <2>2, SendsKeeps
    <3> QED BY <2>2, <3>1, <3>2
  <2>4. ShutdownTypeOK' /\ CloseOrder' /\ SortFindsItsQueueOpen'
    <3>1. ShutdownTypeOK'
      BY <1>1, <2>2, <2>3 DEF Released
    <3>2. \A j \in Queues : worker'[j] = IF j = i THEN "idle" ELSE worker[j]
      BY <1>1 DEF Released
    <3>3. CloseOrder' /\ SortFindsItsQueueOpen'
      BY <1>1, <2>2, <3>2 DEF CloseOrder, SortFindsItsQueueOpen
    <3> QED BY <3>1, <3>3
  <2>5. Workers'
    BY <1>1, <2>3 DEF Released, Workers
  <2>6. \A s \in Pending : s # r /\ InHands(s) => InHands(s)'
    BY <1>1 DEF Released, InHands, Workers
  <2>7. Whereabouts'
    BY <2>2, <2>3, <2>6 DEF Whereabouts
  <2> QED BY <2>4, <2>5, <2>7

LEMMA SortPassesKeeps ==
  ASSUME ShutdownInv, NEW i \in Queues, SortPasses(i)
  PROVE  ShutdownInv'
<1> USE DEF ShutdownInv, ShutdownTypeOK
<1>1. /\ worker' = [worker EXCEPT ![i] = "push"] /\ worker[i] = "busy" /\ i <= NumProcs
      /\ UNCHANGED <<main, closing, shut, queue, held, whereabouts, panicked>>
  BY DEF SortPasses
<1>2. ShutdownTypeOK' /\ CloseOrder' /\ SortFindsItsQueueOpen'
  BY <1>1 DEF CloseOrder, SortFindsItsQueueOpen
<1>3. Workers'
  <2>1. \A j \in Queues : worker'[j] = IF j = i THEN "push" ELSE worker[j]
    BY <1>1
  <2> QED BY <1>1, <2>1 DEF Workers
<1>4. Whereabouts'
  BY <1>1 DEF Whereabouts, InQueue, InHands
<1> QED BY <1>2, <1>3, <1>4

LEMMA WorkerKeeps ==
  ASSUME ShutdownInv, NEW i \in Queues, WorkerStep(i)
  PROVE  ShutdownInv'
<1>1. CASE WorkerStarts(i)
  <2> USE DEF ShutdownInv, ShutdownTypeOK
  <2>1. /\ worker[i] = "starting" /\ worker' = [worker EXCEPT ![i] = "idle"]
        /\ UNCHANGED <<main, closing, shut, queue, held, whereabouts, panicked>>
    BY <1>1 DEF WorkerStarts
  <2>2. \A j \in Queues : worker'[j] = IF j = i THEN "idle" ELSE worker[j]
    BY <2>1
  <2>3. ShutdownTypeOK' /\ SortFindsItsQueueOpen'
    BY <2>1 DEF SortFindsItsQueueOpen
  <2>4. CloseOrder'
    BY <2>1, <2>2 DEF CloseOrder
  <2>5. Workers'
    BY <2>1, <2>2 DEF Workers
  <2>6. Whereabouts'
    BY <2>1 DEF Whereabouts, InQueue, InHands
  <2> QED BY <2>3, <2>4, <2>5, <2>6
<1>2. CASE SortEnds(i) \/ SendEnds(i)
  <2>1. PICK r \in held[i] :
          /\ worker[i] = "busy" /\ Released(i)
          /\ UNCHANGED <<main, closing, shut, queue, panicked>>
          /\ \E to \in {"timer", "rpc", "answer", "done"} :
               whereabouts' = [whereabouts EXCEPT ![r] = to]
    BY <1>2 DEF SortEnds, SendEnds
  <2> QED BY <2>1, ReleaseKeeps
<1>3. CASE WorkerExits(i)
  <2>1. Workers'
    BY <1>3 DEF WorkerExits, ShutdownInv, ShutdownTypeOK, Workers
  <2>2. ShutdownTypeOK' /\ CloseOrder'
    <3>1. ShutdownTypeOK'
      BY <1>3 DEF WorkerExits, ShutdownInv, ShutdownTypeOK
    <3>2. \A j \in Queues : worker[j] = "exited" => worker'[j] = "exited"
      BY <1>3 DEF WorkerExits, ShutdownInv, ShutdownTypeOK
    <3>3. \A j \in Queues : worker[j] # "starting" => worker'[j] # "starting"
      BY <1>3 DEF WorkerExits, ShutdownInv, ShutdownTypeOK
    <3>4. \A j \in 1 .. closing - 1 : j \in Queues
      BY DEF ShutdownInv, ShutdownTypeOK
    <3>5. CloseOrder'
      BY <1>3, <3>2, <3>3, <3>4 DEF WorkerExits, ShutdownInv, CloseOrder
    <3> QED BY <3>1, <3>5
  <2>3. Whereabouts' /\ SortFindsItsQueueOpen'
    BY <1>3 DEF WorkerExits, ShutdownInv, Whereabouts, InQueue, InHands, SortFindsItsQueueOpen
  <2> QED BY <2>1, <2>2, <2>3 DEF ShutdownInv
<1> QED BY <1>1, <1>2, <1>3, WorkerTakesKeeps, SortPassesKeeps, SortPushesKeeps
    DEF WorkerStep

LEMMA MainKeeps == ASSUME ShutdownInv, BeginClose \/ MainStep PROVE ShutdownInv'
<1>1. UNCHANGED <<queue, worker, held, whereabouts, panicked>>
  BY DEF BeginClose, MainStep, CloseQueue, WaitDone, Exit
<1>2. ShutdownTypeOK'
  <2> USE <1>1 DEF ShutdownInv, ShutdownTypeOK
  <2>1. CASE BeginClose \/ Exit
    BY <2>1 DEF BeginClose, Exit
  <2>2. CASE CloseQueue
    BY <2>2 DEF CloseQueue
  <2>3. CASE WaitDone
    <3>1. closing' \in Queues
      BY <2>3 DEF WaitDone
    <3> QED BY <2>3, <3>1 DEF WaitDone
  <2> QED BY <2>1, <2>2, <2>3 DEF MainStep
<1>3. CloseOrder'
  <2> USE <1>1 DEF ShutdownInv, ShutdownTypeOK, CloseOrder
  <2>1. CASE BeginClose
    BY <2>1 DEF BeginClose
  <2>2. CASE CloseQueue
    BY <2>2 DEF CloseQueue
  <2>3. CASE WaitDone
    <3>1. main = "wait" /\ worker[closing] = "exited"
      BY <2>3 DEF WaitDone
    <3>2. CASE closing = 2 * NumProcs
      <4>1. main' = "closed" /\ UNCHANGED <<closing, shut>>
        BY <2>3, <3>2 DEF WaitDone
      <4>2. shut = Queues
        BY <3>1, <3>2
      <4>3. \A i \in 1 .. closing - 1 : worker[i] = "exited"
        BY <3>1
      <4>4. \A i \in Queues : i = closing \/ i \in 1 .. closing - 1
        BY <3>2
      <4>5. \A i \in Queues : worker[i] = "exited"
        BY <3>1, <4>3, <4>4
      <4> QED BY <3>1, <4>1, <4>2, <4>5
    <3>3. CASE closing # 2 * NumProcs
      BY <2>3, <3>1, <3>3 DEF WaitDone
    <3> QED BY <3>2, <3>3
  <2>4. CASE Exit
    BY <2>4 DEF Exit
  <2> QED BY <2>1, <2>2, <2>3, <2>4 DEF MainStep
<1>4. shut \subseteq shut'
  BY DEF BeginClose, MainStep, CloseQueue, WaitDone, Exit
<1>5. Workers' /\ Whereabouts' /\ SortFindsItsQueueOpen'
  BY <1>1, <1>4 DEF ShutdownInv, Workers, Whereabouts, InQueue, InHands, SortFindsItsQueueOpen
<1> QED BY <1>2, <1>3, <1>5 DEF ShutdownInv

LEMMA ShutdownInvariant == ShutdownSpec => []ShutdownInv
<1>1. ShutdownInv /\ [ShutdownNext]_shutdownVars => ShutdownInv'
  <2>1. ASSUME ShutdownInv, UNCHANGED shutdownVars PROVE ShutdownInv'
    BY <2>1 DEF shutdownVars, ShutdownInv, ShutdownTypeOK, CloseOrder, Workers, Whereabouts,
                InQueue, InHands, SortFindsItsQueueOpen
  <2> QED BY <2>1, RequestKeeps, WorkerKeeps, MainKeeps DEF ShutdownNext, ShutdownEnd
<1> QED BY <1>1, ShutdownInitially, PTL DEF ShutdownSpec

\* Waiting for a worker is no deadlock: it goes on, or it is in sort() and the
\* worker of the full ordered queue goes on, for every number of keys, capacity
\* and load (the safety part of CloseReturns).
THEOREM CloseGoesOn == ShutdownSpec => []CloseIsNotStuck
<1>1. ShutdownInv => CloseIsNotStuck
  <2> SUFFICES ASSUME ShutdownInv, Running, main = "wait", worker[closing] # "exited"
               PROVE  \/ WorkerGoes(closing)
                      \/ closing <= NumProcs /\ WorkerGoes(NumProcs + closing)
    BY DEF CloseIsNotStuck
  <2> USE DEF ShutdownInv, ShutdownTypeOK
  <2>1. /\ closing \in Queues /\ shut = 1 .. closing
        /\ worker[closing] \in {"starting", "idle", "busy", "push"}
    BY DEF CloseOrder
  <2>2. CASE worker[closing] # "push"
    BY <2>1, <2>2 DEF WorkerGoes
  <2>3. CASE worker[closing] = "push"
    <3> DEFINE j == NumProcs + closing
    <3>1. closing <= NumProcs /\ j \in Queues /\ j > NumProcs /\ j \notin shut
      BY <2>1, <2>3 DEF Workers
    <3>2. CASE Len(queue[j]) < Cap
      BY <2>3, <3>2 DEF WorkerGoes
    <3>3. CASE ~(Len(queue[j]) < Cap)
      <4>1. queue[j] # <<>>
        BY <3>1, <3>3
      <4>2. worker[j] \in {"starting", "idle", "busy", "push", "exited"}
        BY <3>1
      <4>3. worker[j] \notin {"push", "exited"}
        <5>1. worker[j] = "push" => j <= NumProcs
          BY <3>1 DEF Workers
        <5>2. worker[j] = "exited" => j \in shut
          BY <3>1 DEF Workers
        <5>3. ~(j <= NumProcs)
          BY <2>1, <3>1
        <5> QED BY <3>1, <5>1, <5>2, <5>3
      <4>4. WorkerGoes(j)
        BY <4>1, <4>2, <4>3 DEF WorkerGoes
      <4> QED BY <3>1, <4>4
    <3> QED BY <3>2, <3>3
  <2> QED BY <2>2, <2>3
<1> QED BY <1>1, ShutdownInvariant, PTL

\* Close() closes the unordered queues first (txnProcessor.go:175-180), so that
\* sort() never sends on a closed channel.
THEOREM SortNeverPanics == ShutdownSpec => []SortFindsItsQueueOpen
<1>1. ShutdownInv => SortFindsItsQueueOpen
  BY DEF ShutdownInv
<1> QED BY <1>1, ShutdownInvariant, PTL

\* "Close closes the underlying Q but waits for workers to drain the Q"
\* (txnQ.go:40): no queue and no worker holds a transaction when it returns.
THEOREM CloseDrains == ShutdownSpec => []QueuesAreDrained
<1>1. ShutdownInv => QueuesAreDrained
  <2> SUFFICES ASSUME ShutdownInv, main \in {"closed", "exited"}, panicked = "nobody"
               PROVE  /\ \A i \in Queues : queue[i] = <<>> /\ worker[i] = "exited"
                      /\ \A r \in Pending : whereabouts[r] \notin {"queued", "held"}
    BY DEF QueuesAreDrained
  <2>1. \A i \in Queues : worker[i] = "exited"
    BY DEF ShutdownInv, CloseOrder
  <2>2. \A i \in Queues : queue[i] = <<>> /\ held[i] = {}
    BY <2>1 DEF ShutdownInv, Workers
  <2>3. \A r \in Pending : ~InQueue(r) /\ ~InHands(r)
    BY <2>2 DEF InQueue, InHands
  <2> QED BY <2>1, <2>2, <2>3 DEF ShutdownInv, Whereabouts
<1> QED BY <1>1, ShutdownInvariant, PTL
=============================================================================
