------------------------------ MODULE RpcClient ------------------------------
(***************************************************************************)
(* The client of standaloneproxy/proxy.go: handlers of the RPC server share *)
(* one stream to the refiner, write a length and a request to it and read  *)
(* a length and a reply from it.  The mutex covers the exchange but not    *)
(* the test whether there is a connection, nor the first dial.  Every use  *)
(* of rc.conn reads the field anew; a read that blocks stays on the        *)
(* connection it began with.                                               *)
(*                                                                         *)
(* The refiner answers the requests of a connection in order, as late as   *)
(* it likes, and may be restarted.  The connection is a unix socket: a     *)
(* write to one the refiner has closed fails with EPIPE at once.           *)
(***************************************************************************)
EXTENDS Integers, Sequences

CONSTANTS
  Callers,     \* goroutines that handle an RPC call
  NoCaller,    \* the mutex is free
  MaxCalls,    \* bound: how many calls each of them handles
  MaxRestarts, \* bound: how often the refiner goes down
  MaxConns     \* bound: how many connections are made

ASSUME CallersAssumption == NoCaller \notin Callers
ASSUME BoundsAssumption  == {MaxCalls, MaxRestarts, MaxConns} \subseteq Nat

Conns == 1 .. MaxConns
NoConn == 0

\* Whose request a piece belongs to.
Pieces == Callers \X {"len", "body"}

VARIABLES
  conn,      \* rc.conn, or NoConn
  dialed,    \* how many connections were made, 1 .. dialed
  holder,    \* who holds rc.lock
  at,        \* at[r]: where request() is
  on,        \* on[r]: the connection a read has begun on
  result,    \* result[r]: how the last call of r ended
  calls,     \* calls[r]: how many calls r has begun
  deadline,  \* the connections with a deadline
  shut,      \* the connections closed by Close()
  abandoned, \* history: the connections on which a call was given up
  up,        \* the refiner listens
  restarts,  \* how often it went down
  open,      \* the connections it has not closed
  to,        \* to[c]: the pieces sent to it and not read yet
  from       \* from[c]: the pieces of its replies not read yet

callVars == <<at, on, result, calls>>
connVars == <<conn, dialed, deadline, shut, abandoned>>
peerVars == <<up, restarts, open, to, from>>
vars == <<callVars, connVars, peerVars, holder>>

Init == /\ conn = NoConn /\ dialed = 0
        /\ holder = NoCaller
        /\ at = [r \in Callers |-> "idle"]
        /\ on = [r \in Callers |-> NoConn]
        /\ result = [r \in Callers |-> "none"]
        /\ calls = [r \in Callers |-> 0]
        /\ deadline = {} /\ shut = {} /\ abandoned = {}
        /\ up \in BOOLEAN /\ restarts = 0
        /\ open = {}
        /\ to = [c \in Conns |-> <<>>] /\ from = [c \in Conns |-> <<>>]

-----------------------------------------------------------------------------
(* request(), run by caller r.                                             *)

Goto(r, next) == at' = [at EXCEPT ![r] = next]

\* Mutant of Return: the lock is not released.
ReturnLocked(r, x) == /\ Goto(r, "idle")
                      /\ result' = [result EXCEPT ![r] = x]
                      /\ UNCHANGED <<on, calls, holder>>

\* The call returns and the deferred Unlock runs.
Return(r, x) == /\ Goto(r, "idle")
                /\ result' = [result EXCEPT ![r] = x]
                /\ holder' = NoCaller
                /\ UNCHANGED <<on, calls>>

Call(r) == /\ at[r] = "idle"
           /\ calls[r] < MaxCalls
           /\ calls' = [calls EXCEPT ![r] = @ + 1]
           /\ result' = [result EXCEPT ![r] = "none"]
           /\ Goto(r, IF conn = NoConn THEN "dial" ELSE "lock")
           /\ UNCHANGED <<on, connVars, peerVars, holder>>

\* reconnect(): a new connection replaces rc.conn, if the refiner listens.
Reconnect == \/ /\ up /\ dialed < MaxConns
                /\ dialed' = dialed + 1
                /\ conn' = dialed + 1
                /\ open' = open \cup {dialed + 1}
             \/ /\ ~up
                /\ UNCHANGED <<dialed, conn, open>>

Dial(r) == /\ at[r] = "dial"
           /\ Reconnect
           /\ IF up THEN Goto(r, "lock") /\ UNCHANGED result
                    ELSE Goto(r, "idle") /\ result' = [result EXCEPT ![r] = "error"]
           /\ UNCHANGED <<on, calls, deadline, shut, abandoned, up, restarts, to, from, holder>>

\* Mutant of Lock: there is no mutex.
LockNothing(r) == /\ at[r] = "lock"
                  /\ holder' = r
                  /\ Goto(r, "deadline")
                  /\ UNCHANGED <<on, result, calls, connVars, peerVars>>

Lock(r) == /\ at[r] = "lock"
           /\ holder = NoCaller
           /\ holder' = r
           /\ Goto(r, "deadline")
           /\ UNCHANGED <<on, result, calls, connVars, peerVars>>

\* Mutant of SetDeadline: no timeout is configured.
SetNoDeadline(r) == /\ at[r] = "deadline"
                    /\ conn \notin shut
                    /\ Goto(r, "header")
                    /\ UNCHANGED <<on, result, calls, connVars, peerVars, holder>>

SetDeadline(r) == /\ at[r] = "deadline"
                  /\ conn \notin shut
                  /\ deadline' = deadline \cup {conn}
                  /\ Goto(r, "header")
                  /\ UNCHANGED <<on, result, calls, conn, dialed, shut, abandoned, peerVars,
                                 holder>>

Send(r, part) == /\ conn \in open \ shut
                 /\ to' = [to EXCEPT ![conn] = Append(@, <<r, part>>)]
                 /\ UNCHANGED <<up, restarts, open, from, connVars, on, result, calls, holder>>

WriteHeader(r) == at[r] = "header" /\ Send(r, "len") /\ Goto(r, "body")
WriteBody(r)   == at[r] = "body" /\ Send(r, "body") /\ Goto(r, "toLen")

\* Mutant of BrokenPipe: the call goes on with the new connection.
BrokenPipeRetried(r) ==
  /\ at[r] = "header"
  /\ conn \notin open \cup shut
  /\ Reconnect
  /\ IF up THEN UNCHANGED <<callVars, holder>> ELSE Return(r, "error")
  /\ UNCHANGED <<deadline, shut, abandoned, up, restarts, to, from>>

\* EPIPE: reconnect for the calls to come; this one fails in any case.
BrokenPipe(r) == /\ at[r] = "header"
                 /\ conn \notin open \cup shut
                 /\ Reconnect
                 /\ Return(r, "error")
                 /\ UNCHANGED <<deadline, shut, abandoned, up, restarts, to, from>>

\* Every other failure of an operation on rc.conn.
ConnFails(r) == /\ \/ at[r] \in {"deadline", "header", "toLen", "toBody"} /\ conn \in shut
                   \/ at[r] = "body" /\ conn \notin open \ shut
                   \/ at[r] \in {"inLen", "inBody"} /\ on[r] \in shut
                   \/ /\ at[r] \in {"inLen", "inBody"}
                      /\ on[r] \notin open /\ from[on[r]] = <<>>
                /\ Return(r, "error")
                /\ UNCHANGED <<connVars, peerVars>>

BeginRead(r) == /\ \/ at[r] = "toLen" /\ Goto(r, "inLen")
                   \/ at[r] = "toBody" /\ Goto(r, "inBody")
                /\ conn \notin shut
                /\ on' = [on EXCEPT ![r] = conn]
                /\ UNCHANGED <<result, calls, connVars, peerVars, holder>>

Receive(r, part) == /\ on[r] \notin shut
                    /\ from[on[r]] # <<>>
                    /\ Head(from[on[r]])[2] = part
                    /\ from' = [from EXCEPT ![on[r]] = Tail(@)]
                    /\ UNCHANGED <<up, restarts, open, to, connVars>>

ReadLen(r) == /\ at[r] = "inLen"
              /\ Receive(r, "len")
              /\ Goto(r, "toBody")
              /\ UNCHANGED <<on, result, calls, holder>>

ReadBody(r) == /\ at[r] = "inBody"
               /\ Receive(r, "body")
               /\ Return(r, Head(from[on[r]])[1])

\* A piece of a reply is taken for a length, or a length for a reply.
ReadRubbish(r) == /\ \/ at[r] = "inLen" /\ Receive(r, "body")
                     \/ at[r] = "inBody" /\ Receive(r, "len")
                  /\ Return(r, "rubbish")

\* A read ends with the deadline of its connection, if that has one.
Timeout(r) == /\ at[r] \in {"inLen", "inBody"}
              /\ on[r] \in deadline \ shut
              /\ abandoned' = abandoned \cup {on[r]}
              /\ Return(r, "timeout")
              /\ UNCHANGED <<conn, dialed, deadline, shut, peerVars>>

\* Close(), once at shutdown and without the lock.
Close == /\ conn # NoConn
         /\ shut = {}
         /\ shut' = shut \cup {conn}
         /\ UNCHANGED <<callVars, conn, dialed, deadline, abandoned, peerVars, holder>>

-----------------------------------------------------------------------------
(* The refiner.                                                            *)

IsFrame(s) == /\ Len(s) >= 2
              /\ s[1][2] = "len" /\ s[2] = <<s[1][1], "body">>

Serve(c) == /\ c \in open
            /\ IsFrame(to[c])
            /\ from' = [from EXCEPT ![c] = @ \o SubSeq(to[c], 1, 2)]
            /\ to' = [to EXCEPT ![c] = SubSeq(@, 3, Len(@))]
            /\ UNCHANGED <<callVars, connVars, up, restarts, open, holder>>

\* What is no frame makes it close the connection.
Reject(c) == /\ c \in open
             /\ to[c] # <<>> /\ ~IsFrame(to[c])
             /\ to[c][1][2] = "body" \/ Len(to[c]) > 1
             /\ open' = open \ {c}
             /\ UNCHANGED <<callVars, connVars, up, restarts, to, from, holder>>

GoDown == /\ up /\ restarts < MaxRestarts
          /\ up' = FALSE /\ open' = {}
          /\ restarts' = restarts + 1
          /\ UNCHANGED <<callVars, connVars, to, from, holder>>

ComeUp == /\ ~up
          /\ up' = TRUE
          /\ UNCHANGED <<callVars, connVars, restarts, open, to, from, holder>>

-----------------------------------------------------------------------------
Request(r) == \/ Dial(r) \/ Lock(r) \/ SetDeadline(r) \/ WriteHeader(r) \/ WriteBody(r)
              \/ BrokenPipe(r) \/ ConnFails(r) \/ BeginRead(r) \/ ReadLen(r) \/ ReadBody(r)
              \/ ReadRubbish(r) \/ Timeout(r)

Next == \/ \E r \in Callers : Call(r) \/ Request(r)
        \/ Close
        \/ \E c \in Conns : Serve(c) \/ Reject(c)
        \/ GoDown \/ ComeUp

Spec == Init /\ [][Next]_vars

\* Goroutines run, the mutex is handed to the longest waiter and deadlines
\* expire; nothing is assumed of the refiner.
Fairness == \A r \in Callers : WF_vars(Request(r)) /\ SF_vars(Lock(r))

LiveSpec == Spec /\ Fairness

\* The same with a refiner that answers every request it receives.
PromptSpec == LiveSpec /\ \A c \in Conns : WF_vars(Serve(c) \/ Reject(c))

-----------------------------------------------------------------------------
(* Properties.                                                             *)

Critical == {"deadline", "header", "body", "toLen", "inLen", "toBody", "inBody"}

\* Type invariant; a caller is in the exchange exactly while it has the lock.
TypeOK ==
  /\ conn \in 0 .. dialed /\ dialed \in Conns \cup {0}
  /\ holder \in Callers \cup {NoCaller}
  /\ at \in [Callers -> Critical \cup {"idle", "dial", "lock"}]
  /\ on \in [Callers -> 0 .. dialed]
  /\ result \in [Callers -> Callers \cup {"none", "error", "timeout", "rubbish"}]
  /\ calls \in [Callers -> 0 .. MaxCalls]
  /\ deadline \subseteq Conns /\ shut \subseteq Conns /\ abandoned \subseteq Conns
  /\ up \in BOOLEAN /\ restarts \in 0 .. MaxRestarts
  /\ open \subseteq Conns
  /\ to \in [Conns -> Seq(Pieces)] /\ from \in [Conns -> Seq(Pieces)]
  /\ \A r \in Callers : at[r] \in Critical <=> holder = r

\* The requests carry no usable id (every one has "id":1, proxy.go:307), so
\* that a reply is the caller's own rests on the order of the stream alone.  It
\* is, over restarts, Close and overlapping dials, as long as no call on that
\* connection was given up at its deadline.
AnswersOwnRequest ==
  \A r \in Callers :
    (at[r] = "idle" /\ on[r] \notin abandoned) =>
      result[r] \in {r, "none", "error", "timeout"}

\* "Please try again" (proxy.go:257, 261): a call that is tried again returns,
\* with an answer or with an error.
EveryCallReturns == \A r \in Callers : at[r] # "idle" ~> at[r] = "idle"

\* Every call returns if no two callers find rc.conn empty at the same time:
\* whatever the refiner does, a read has a deadline (proxy.go:276).
OneDials == \A q, r \in Callers : at[q] = "dial" /\ at[r] = "dial" => q = r
CallsReturn == []OneDials => EveryCallReturns

\* Why they do: as long as no two callers have found rc.conn empty at the same
\* time, whoever reads does so on the connection that line 276 has given a
\* deadline, though the field is read anew at each use and replaced on EPIPE.
ReadsAreTimed ==
  []OneDials => [](\A r \in Callers : at[r] \in {"inLen", "inBody"} => on[r] \in deadline)
=============================================================================
