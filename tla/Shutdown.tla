------------------------------ MODULE Shutdown ------------------------------
(***************************************************************************)
(* The end of the process: the deferred calls of main.go, of which         *)
(* engineEth.Close() closes the queues of the transaction processor        *)
(* (txnProcessor.go, txnQ.go) while transactions are still on their way.   *)
(* Key i has the unordered queue i and the ordered queue NumProcs + i;     *)
(* Close() closes the queues in this order and waits for the worker of     *)
(* each.  What sort(), send() and eval() decide is left open here (see     *)
(* TxnProcessor).  A send on a closed channel ends the process.            *)
(***************************************************************************)
EXTENDS Integers, Sequences

CONSTANTS
  Pending,   \* the transactions clients may submit
  NumProcs,  \* the number of keys
  ProcOf,    \* ProcOf[r]: req.processorIndex
  Cap        \* qCap

ASSUME ProcsAssumption == NumProcs \in Nat \ {0} /\ Cap \in Nat \ {0}
ASSUME ProcOfAssumption == ProcOf \in [Pending -> 1 .. NumProcs]

Queues == 1 .. 2 * NumProcs

VARIABLES
  main,      \* what main() does: "serve", "close" or "wait" (in q.Close),
             \* "closed" (engineEth.Close has returned) or "exited"
  closing,   \* the queue it closes or waits for
  shut,      \* the queues whose channel is closed
  queue,     \* queue[i]: the buffered transactions
  worker,    \* worker[i]: "starting", "idle", "busy", "push" (sort() enqueues)
             \* or "exited"
  held,      \* held[i]: the transaction a worker holds
  whereabouts, \* whereabouts[r]: "new", "queued", "held", "timer", "rpc", "answer", "done"
  panicked   \* who sent on a closed channel, or "nobody"
shutdownVars == <<main, closing, shut, queue, worker, held, whereabouts, panicked>>

ShutdownInit ==
  /\ main = "serve" /\ closing = 1 /\ shut = {}
  /\ queue = [i \in Queues |-> <<>>] /\ worker = [i \in Queues |-> "starting"]
  /\ held = [i \in Queues |-> {}]
  /\ whereabouts = [r \in Pending |-> "new"] /\ panicked = "nobody"

Running == panicked = "nobody" /\ main # "exited"

-----------------------------------------------------------------------------
(* Sending on a channel.                                                   *)

\* Enqueue: blocks while the queue is full, panics when it is closed.
Sends(who, r, i) ==
  /\ \/ i \in shut
     \/ Len(queue[i]) < Cap
  /\ IF i \in shut
     THEN panicked' = who /\ UNCHANGED <<queue, whereabouts>>
     ELSE /\ queue' = [queue EXCEPT ![i] = Append(@, r)]
          /\ whereabouts' = [whereabouts EXCEPT ![r] = "queued"]
          /\ UNCHANGED panicked

\* TryEnqueue: whoever finds the queue full sends the transaction elsewhere.
TrySends(who, r, i, elsewhere) ==
  \/ Sends(who, r, i)
  \/ /\ i \notin shut /\ Len(queue[i]) = Cap
     /\ whereabouts' = [whereabouts EXCEPT ![r] = elsewhere]
     /\ UNCHANGED <<queue, panicked>>

\* A handler submits (whether rpcNode.Close() ends all handlers before
\* engineEth.Close() is up to it: external, so it is left open).
Arrive(r) == /\ Running /\ whereabouts[r] = "new"
             /\ Sends("handler", r, ProcOf[r])
             /\ UNCHANGED <<main, closing, shut, worker, held>>

\* The callback of sort()'s timer.
TimerSends(r) == /\ Running /\ whereabouts[r] = "timer"
                 /\ TrySends("timer", r, ProcOf[r], "answer")
                 /\ UNCHANGED <<main, closing, shut, worker, held>>

\* The goroutine of Submit() retries or ends the request.
Evaluated(r) == /\ Running /\ whereabouts[r] = "answer"
                /\ \/ TrySends("waiter", r, ProcOf[r], "done")
                   \/ /\ whereabouts' = [whereabouts EXCEPT ![r] = "done"]
                      /\ UNCHANGED <<queue, panicked>>
                /\ UNCHANGED <<main, closing, shut, worker, held>>

\* The goroutine of send().
RpcReturns(r) == /\ Running /\ whereabouts[r] = "rpc"
                 /\ whereabouts' = [whereabouts EXCEPT ![r] = "answer"]
                 /\ UNCHANGED <<main, closing, shut, queue, worker, held, panicked>>

-----------------------------------------------------------------------------
(* StartWorker: the loop of the worker of queue i.                         *)

\* wg.Add(1) is a statement of the goroutine itself.
WorkerStarts(i) == /\ Running /\ worker[i] = "starting"
                   /\ worker' = [worker EXCEPT ![i] = "idle"]
                   /\ UNCHANGED <<main, closing, shut, queue, held, whereabouts, panicked>>

WorkerTakes(i) == /\ worker[i] = "idle" /\ queue[i] # <<>>
                  /\ Running
                  /\ whereabouts' = [whereabouts EXCEPT ![Head(queue[i])] = "held"]
                  /\ worker' = [worker EXCEPT ![i] = "busy"]
                  /\ held' = [held EXCEPT ![i] = {Head(queue[i])}]
                  /\ queue' = [queue EXCEPT ![i] = Tail(@)]
                  /\ UNCHANGED <<main, closing, shut, panicked>>

Released(i) == /\ worker' = [worker EXCEPT ![i] = "idle"]
               /\ held' = [held EXCEPT ![i] = {}]

\* sort() delays or refuses the transaction.
SortEnds(i) == \E r \in held[i] :
  /\ Running /\ worker[i] = "busy" /\ i <= NumProcs
  /\ \E to \in {"timer", "answer"} : whereabouts' = [whereabouts EXCEPT ![r] = to]
  /\ Released(i)
  /\ UNCHANGED <<main, closing, shut, queue, panicked>>

\* Or it passes the transaction on, and waits for room to do so.
SortPasses(i) ==
  /\ Running /\ worker[i] = "busy" /\ i <= NumProcs
  /\ worker' = [worker EXCEPT ![i] = "push"]
  /\ UNCHANGED <<main, closing, shut, queue, held, whereabouts, panicked>>

SortPushes(i) == \E r \in held[i] :
  /\ Running /\ worker[i] = "push"
  /\ Sends("sort", r, NumProcs + i)
  /\ Released(i)
  /\ UNCHANGED <<main, closing, shut>>

\* send() starts an attempt or refuses the transaction.
SendEnds(i) == \E r \in held[i] :
  /\ Running /\ worker[i] = "busy" /\ i > NumProcs
  /\ \E to \in {"rpc", "answer"} : whereabouts' = [whereabouts EXCEPT ![r] = to]
  /\ Released(i)
  /\ UNCHANGED <<main, closing, shut, queue, panicked>>

\* Mutant of WorkerExits: the worker leaves what is buffered.
WorkerExitsEarly(i) ==
  /\ Running /\ worker[i] = "idle" /\ i \in shut
  /\ worker' = [worker EXCEPT ![i] = "exited"]
  /\ UNCHANGED <<main, closing, shut, queue, held, whereabouts, panicked>>

\* Mutant of WorkerExits: a nil is not passed on, but the loop goes on.
WorkerExitsNot(i) ==
  /\ Running /\ worker[i] = "idle" /\ i \in shut /\ queue[i] = <<>>
  /\ UNCHANGED shutdownVars

\* A closed channel yields nil once it is empty.
WorkerExits(i) ==
  /\ Running /\ worker[i] = "idle" /\ i \in shut /\ queue[i] = <<>>
  /\ worker' = [worker EXCEPT ![i] = "exited"]
  /\ UNCHANGED <<main, closing, shut, queue, held, whereabouts, panicked>>

-----------------------------------------------------------------------------
(* main().                                                                 *)

\* A signal ends main(): the deferred calls run in reverse order, those of the
\* indexers and of the RPC node before engineEth.Close().  All workers have been
\* scheduled by then (assumed: nothing in the code waits for it).
BeginClose == /\ Running /\ main = "serve"
              /\ \A i \in Queues : worker[i] # "starting"
              /\ main' = "close"
              /\ UNCHANGED <<closing, shut, queue, worker, held, whereabouts, panicked>>

\* Mutant of CloseQueue: the channel stays open.
CloseNothing == /\ Running /\ main = "close"
                /\ main' = "wait"
                /\ UNCHANGED <<closing, shut, queue, worker, held, whereabouts, panicked>>

CloseQueue == /\ Running /\ main = "close"
              /\ shut' = shut \cup {closing}
              /\ main' = "wait"
              /\ UNCHANGED <<closing, queue, worker, held, whereabouts, panicked>>

\* Mutant of WaitDone: Close() does not wait for the worker, as Cancel().
WaitNot == /\ Running /\ main = "wait"
           /\ closing' = IF closing = 2 * NumProcs THEN closing ELSE closing + 1
           /\ main' = IF closing = 2 * NumProcs THEN "closed" ELSE "close"
           /\ UNCHANGED <<shut, queue, worker, held, whereabouts, panicked>>

\* wg.Wait() counts the workers that have run wg.Add(1).
WaitDone == /\ Running /\ main = "wait"
            /\ worker[closing] \in {"starting", "exited"}
            /\ closing' = IF closing = 2 * NumProcs THEN closing ELSE closing + 1
            /\ main' = IF closing = 2 * NumProcs THEN "closed" ELSE "close"
            /\ UNCHANGED <<shut, queue, worker, held, whereabouts, panicked>>

\* The remaining deferred calls: the proxy and the database are closed.
Exit == /\ Running /\ main = "closed"
        /\ main' = "exited"
        /\ UNCHANGED <<closing, shut, queue, worker, held, whereabouts, panicked>>

ShutdownEnd == ~Running /\ UNCHANGED shutdownVars

WorkerStep(i) == WorkerStarts(i) \/ WorkerTakes(i) \/ SortEnds(i) \/ SortPasses(i)
                 \/ SortPushes(i) \/ SendEnds(i) \/ WorkerExits(i)
RequestStep(r) == TimerSends(r) \/ Evaluated(r) \/ RpcReturns(r)
MainStep == CloseQueue \/ WaitDone \/ Exit

ShutdownNext == \/ \E r \in Pending : Arrive(r) \/ RequestStep(r)
                \/ \E i \in Queues : WorkerStep(i)
                \/ BeginClose \/ MainStep \/ ShutdownEnd

ShutdownSpec == ShutdownInit /\ [][ShutdownNext]_shutdownVars

\* Goroutines are scheduled and calls to NEAR return; no signal need come.
ShutdownFairness == /\ \A i \in Queues : WF_shutdownVars(WorkerStep(i))
                    /\ \A r \in Pending : WF_shutdownVars(RequestStep(r))
                    /\ WF_shutdownVars(MainStep)

-----------------------------------------------------------------------------
\* The queues are closed in an order in which sort() never meets a closed
\* ordered queue: by then its own worker has drained its queue and exited.
SortFindsItsQueueOpen == panicked # "sort"

\* "Close closes the underlying Q but waits for workers to drain the Q": when
\* Close() has returned no transaction is in a queue or with a worker.  (Those at
\* NEAR, with a timer or before a retry are not waited for.)
QueuesAreDrained == main \in {"closed", "exited"} /\ panicked = "nobody" =>
  /\ \A i \in Queues : queue[i] = <<>> /\ worker[i] = "exited"
  /\ \A r \in Pending : whereabouts[r] \notin {"queued", "held"}

\* Why Close() returns: the worker it waits for goes on or has exited, and if that
\* worker is in sort(), blocked on a full ordered queue, the worker of the ordered
\* queue goes on, for its queue is closed later.
WorkerGoes(i) == \/ worker[i] \in {"starting", "busy"}
                 \/ worker[i] = "idle" /\ (queue[i] # <<>> \/ i \in shut)
                 \/ /\ worker[i] = "push"
                    /\ NumProcs + i \in shut \/ Len(queue[NumProcs + i]) < Cap
CloseIsNotStuck ==
  Running /\ main = "wait" /\ worker[closing] # "exited" =>
    \/ WorkerGoes(closing)
    \/ closing <= NumProcs /\ WorkerGoes(NumProcs + closing)

\* A shutdown that has begun ends: waiting for the workers is no deadlock, not
\* even when sort() is blocked on a full ordered queue.
CloseReturns == main = "close" ~> main = "exited" \/ panicked # "nobody"
=============================================================================
