--------------------------- MODULE RpcClientProofs ---------------------------
(***************************************************************************)
(* The client of the refiner, for every number of callers, calls and       *)
(* restarts: a caller that is answered is answered with the reply to its   *)
(* own request, unless a call on that connection was given up.             *)
(*                                                                         *)
(* The replies carry no usable id, so that the invariant must say what may *)
(* be on the stream at each place of request(): Streams.  It uses that a   *)
(* connection is settled (nothing on it is read any more, or nothing is on *)
(* it) whenever the mutex is free and whenever a new one replaces it.      *)
(***************************************************************************)
EXTENDS RpcClient, SequenceTheorems, TLAPS

USE DEF Goto

\* A connection that was not made yet is as new.
Unused == \A c \in Conns : c > dialed => /\ c \notin open \cup shut \cup abandoned
                                         /\ to[c] = <<>> /\ from[c] = <<>>

\* rc.conn is the connection made last, and whoever has left the test for nil
\* has one.
Connected ==
  /\ conn = dialed
  /\ \A r \in Callers :
       /\ at[r] \in Critical \cup {"lock"} => conn # NoConn
       /\ at[r] \in {"inLen", "inBody"} => on[r] # NoConn
       /\ at[r] # "idle" => result[r] = "none"

\* Nothing can be read from the connection before something is written to it.
Quiet(c) == \/ c \in shut
            \/ from[c] = <<>> /\ (c \notin open \/ to[c] = <<>>)
Settled(c) == c \in abandoned \/ Quiet(c)

Header(h) == <<<<h, "len">>>>
Body(h)   == <<<<h, "body">>>>
Frame(h)  == <<<<h, "len">>, <<h, "body">>>>
Sent(c, pieces)    == from[c] = <<>> /\ to[c] = pieces
Replied(c, pieces) == to[c] = <<>> /\ from[c] = pieces

\* What caller h may have put on a connection after each of its operations.
\* A body alone was written to a connection made after the header was sent.
Begun(h, c)    == Settled(c) \/ Sent(c, Header(h))
Asked(h, c)    == Settled(c) \/ Sent(c, Body(h)) \/ Sent(c, Frame(h)) \/ Replied(c, Frame(h))
HalfRead(h, c) == Settled(c) \/ Replied(c, Body(h))

InStep(h) ==
  /\ at[h] \in {"deadline", "header"} => Settled(conn)
  /\ at[h] = "body" => Begun(h, conn)
  /\ at[h] = "toLen" => Asked(h, conn)
  /\ at[h] = "inLen" => Asked(h, on[h]) /\ (on[h] # conn => Settled(conn))
  /\ at[h] = "toBody" => HalfRead(h, conn)
  /\ at[h] = "inBody" => HalfRead(h, on[h]) /\ (on[h] # conn => Settled(conn))

Streams == /\ holder = NoCaller /\ conn # NoConn => Settled(conn)
           /\ \A h \in Callers : InStep(h)

RpcInv == TypeOK /\ Unused /\ Connected /\ Streams /\ AnswersOwnRequest

-----------------------------------------------------------------------------
(* Types.                                                                  *)

LEMMA ConnsType == Conns \subseteq Nat /\ MaxConns \in Nat /\ NoConn \notin Conns
BY BoundsAssumption DEF Conns, NoConn

\* A connection that is in use is one of Conns.
LEMMA ConnType ==
  ASSUME TypeOK
  PROVE  /\ conn # NoConn => conn \in Conns
         /\ \A h \in Callers : on[h] # NoConn => on[h] \in Conns
<1>1. MaxConns \in Nat /\ dialed \in 0 .. MaxConns
  BY BoundsAssumption DEF TypeOK, Conns
<1>2. conn \in 0 .. dialed /\ on \in [Callers -> 0 .. dialed]
  BY DEF TypeOK
<1>3. \A c \in 0 .. dialed : c # 0 => c \in 1 .. MaxConns
  BY <1>1
<1> QED BY <1>2, <1>3 DEF Conns, NoConn

LEMMA InitTypeOK == Init => TypeOK
BY CallersAssumption, BoundsAssumption DEF Init, TypeOK, Conns, NoConn, Critical

\* A new connection gets the next number.
LEMMA ReconnectType ==
  ASSUME TypeOK, Reconnect
  PROVE  /\ dialed' \in Conns \cup {0} /\ conn' \in 0 .. dialed' /\ dialed <= dialed'
         /\ open' \subseteq Conns /\ 0 .. dialed \subseteq 0 .. dialed'
<1>1. /\ MaxConns \in Nat /\ dialed \in 0 .. MaxConns
      /\ conn \in 0 .. dialed /\ open \subseteq Conns
  BY BoundsAssumption DEF TypeOK, Conns
<1>2. \/ /\ dialed < MaxConns /\ dialed' = dialed + 1
         /\ conn' = dialed + 1 /\ open' = open \cup {dialed + 1}
      \/ UNCHANGED <<dialed, conn, open>>
  BY Zenon DEF Reconnect
<1>3. dialed' \in 0 .. MaxConns /\ conn' \in 0 .. dialed' /\ dialed <= dialed'
  BY <1>1, <1>2
<1>4. open' \subseteq Conns
  <2>1. dialed < MaxConns => dialed + 1 \in Conns
    BY <1>1 DEF Conns
  <2> QED BY <1>1, <1>2, <2>1
<1> QED BY <1>1, <1>3, <1>4 DEF Conns

LEMMA OneMoreCall == \A n \in 0 .. MaxCalls : n < MaxCalls => n + 1 \in 0 .. MaxCalls
BY BoundsAssumption

LEMMA RequestTypeOK ==
  ASSUME TypeOK, Connected, NEW r \in Callers, Call(r) \/ Request(r)
  PROVE  TypeOK'
<1> USE CallersAssumption, BoundsAssumption
    DEF TypeOK, Return, Critical, callVars, connVars, peerVars
<1>1. CASE Call(r)
  <2>1. /\ at[r] = "idle" /\ calls[r] \in 0 .. MaxCalls /\ calls[r] < MaxCalls
        /\ calls' = [calls EXCEPT ![r] = @ + 1]
        /\ result' = [result EXCEPT ![r] = "none"]
        /\ \E next \in {"dial", "lock"} : at' = [at EXCEPT ![r] = next]
        /\ UNCHANGED <<on, connVars, peerVars, holder>>
    BY <1>1 DEF Call
  <2>2. calls' \in [Callers -> 0 .. MaxCalls]
    <3>1. calls[r] + 1 \in 0 .. MaxCalls
      BY <2>1, OneMoreCall
    <3> QED BY <2>1, <3>1
  <2>3. \A q \in Callers : at'[q] \in Critical <=> holder' = q
    BY <2>1
  <2>4. at' \in [Callers -> Critical \cup {"idle", "dial", "lock"}]
    BY <2>1
  <2> QED BY <2>1, <2>2, <2>3, <2>4
<1>2. CASE Dial(r)
  BY <1>2, ReconnectType DEF Dial
<1>3. CASE Lock(r)
  BY <1>3 DEF Lock
<1>4. CASE SetDeadline(r)
  BY <1>4 DEF SetDeadline, Connected, Conns, NoConn
<1>5. CASE WriteHeader(r) \/ WriteBody(r)
  <2>1. conn \in Conns
    BY <1>5 DEF Connected, Conns, NoConn, WriteHeader, WriteBody
  <2>2. \A part \in {"len", "body"} : Append(to[conn], <<r, part>>) \in Seq(Pieces)
    <3>1. to[conn] \in Seq(Pieces)
      BY <2>1
    <3>2. \A part \in {"len", "body"} : <<r, part>> \in Pieces
      BY DEF Pieces
    <3> QED BY <3>1, <3>2, AppendProperties
  <2>3. to' \in [Conns -> Seq(Pieces)]
    BY <1>5, <2>1, <2>2 DEF WriteHeader, WriteBody, Send
  <2> QED BY <1>5, <2>3 DEF WriteHeader, WriteBody, Send
<1>6. CASE BrokenPipe(r)
  BY <1>6, ReconnectType DEF BrokenPipe
<1>7. CASE ConnFails(r)
  BY <1>7 DEF ConnFails
<1>8. CASE BeginRead(r)
  BY <1>8 DEF BeginRead
<1>9. CASE ReadLen(r) \/ ReadBody(r) \/ ReadRubbish(r)
  <2>1. on[r] \in Conns /\ from[on[r]] # <<>>
    BY <1>9 DEF Connected, Conns, NoConn, ReadLen, ReadBody, ReadRubbish, Receive
  <2>2. Tail(from[on[r]]) \in Seq(Pieces) /\ Head(from[on[r]])[1] \in Callers
    <3>1. from[on[r]] \in Seq(Pieces)
      BY <2>1
    <3>2. Tail(from[on[r]]) \in Seq(Pieces) /\ Head(from[on[r]]) \in Pieces
      BY <2>1, <3>1, HeadTailProperties
    <3> QED BY <3>2 DEF Pieces
  <2>3. from' = [from EXCEPT ![on[r]] = Tail(@)]
    BY <1>9 DEF ReadLen, ReadBody, ReadRubbish, Receive
  <2>4. from' \in [Conns -> Seq(Pieces)]
    BY <2>1, <2>2, <2>3
  <2>5. UNCHANGED <<connVars, up, restarts, open, to, on, calls>>
    BY <1>9 DEF ReadLen, ReadBody, ReadRubbish, Receive
  <2>6. /\ at[r] \in Critical
        /\ \/ at' = [at EXCEPT ![r] = "toBody"] /\ UNCHANGED <<result, holder>>
           \/ \E x \in Callers \cup {"rubbish"} : Return(r, x)
    BY <1>9, <2>2 DEF ReadLen, ReadBody, ReadRubbish
  <2>7. /\ at' \in [Callers -> Critical \cup {"idle", "dial", "lock"}]
        /\ result' \in [Callers -> Callers \cup {"none", "error", "timeout", "rubbish"}]
    <3>1. \E next \in {"toBody", "idle"} : at' = [at EXCEPT ![r] = next]
      BY <2>6
    <3>2. UNCHANGED result \/ \E x \in Callers \cup {"rubbish"} : result' = [result EXCEPT ![r] = x]
      BY <2>6
    <3>3. at' \in [Callers -> Critical \cup {"idle", "dial", "lock"}]
      BY <3>1
    <3>4. result' \in [Callers -> Callers \cup {"none", "error", "timeout", "rubbish"}]
      BY <3>2
    <3> QED BY <3>3, <3>4
  <2>8. /\ holder' \in Callers \cup {NoCaller}
        /\ \A q \in Callers : at'[q] \in Critical <=> holder' = q
    <3>1. holder = r /\ \A q \in Callers \ {r} : at[q] \notin Critical /\ at'[q] = at[q]
      <4>1. \E next : at' = [at EXCEPT ![r] = next]
        BY <2>6
      <4>2. holder = r
        BY <2>6
      <4> QED BY <4>1, <4>2
    <3>2. CASE at' = [at EXCEPT ![r] = "toBody"] /\ UNCHANGED holder
      <4>1. at'[r] \in Critical
        BY <3>2
      <4> QED BY <3>1, <3>2, <4>1
    <3>3. CASE \E x \in Callers \cup {"rubbish"} : Return(r, x)
      <4>1. at'[r] \notin Critical /\ holder' = NoCaller
        BY <3>3
      <4> QED BY <3>1, <4>1
    <3> QED BY <2>6, <3>2, <3>3
  <2> QED BY <2>4, <2>5, <2>7, <2>8
<1>10. CASE Timeout(r)
  BY <1>10 DEF Timeout, Connected, Conns, NoConn
<1> QED BY <1>1, <1>2, <1>3, <1>4, <1>5, <1>6, <1>7, <1>8, <1>9, <1>10 DEF Request

LEMMA CutType ==
  ASSUME NEW s \in Seq(Pieces), Len(s) >= 2
  PROVE  SubSeq(s, 1, 2) \in Seq(Pieces) /\ SubSeq(s, 3, Len(s)) \in Seq(Pieces)
OBVIOUS

LEMMA PeerTypeOK ==
  ASSUME TypeOK, Close \/ GoDown \/ ComeUp \/ \E c \in Conns : Serve(c) \/ Reject(c)
  PROVE  TypeOK'
<1> USE BoundsAssumption DEF TypeOK, callVars, connVars, peerVars
<1>1. CASE Close
  <2>1. conn \in Conns
    BY <1>1 DEF Close, Conns, NoConn
  <2> QED BY <1>1, <2>1 DEF Close
<1>2. CASE GoDown \/ ComeUp
  <2>1. up' \in BOOLEAN
    BY <1>2 DEF GoDown, ComeUp
  <2>2. open' \subseteq Conns /\ restarts' \in 0 .. MaxRestarts
    BY <1>2 DEF GoDown, ComeUp
  <2> QED BY <1>2, <2>1, <2>2 DEF GoDown, ComeUp
<1>3. ASSUME NEW c \in Conns, Reject(c) PROVE TypeOK'
  BY <1>3 DEF Reject
<1>4. ASSUME NEW c \in Conns, Serve(c) PROVE TypeOK'
  <2>1. Len(to[c]) >= 2 /\ to[c] \in Seq(Pieces) /\ from[c] \in Seq(Pieces)
    BY <1>4 DEF Serve, IsFrame
  <2>2. /\ SubSeq(to[c], 1, 2) \in Seq(Pieces)
        /\ SubSeq(to[c], 3, Len(to[c])) \in Seq(Pieces)
    BY <2>1, CutType
  <2>3. from[c] \o SubSeq(to[c], 1, 2) \in Seq(Pieces)
    BY <2>1, <2>2
  <2> QED BY <1>4, <2>2, <2>3 DEF Serve
<1> QED BY <1>1, <1>2, <1>3, <1>4

-----------------------------------------------------------------------------
(* The pieces on a stream.                                                 *)

LEMMA OnePiece ==
  ASSUME NEW p \in Pieces
  PROVE  /\ Append(<<>>, p) = <<p>> /\ <<p>> # <<>> /\ Len(<<p>>) = 1
         /\ Head(<<p>>) = p /\ Tail(<<p>>) = <<>>
OBVIOUS

LEMMA TwoPieces ==
  ASSUME NEW p \in Pieces, NEW q \in Pieces
  PROVE  /\ Append(<<p>>, q) = <<p, q>> /\ <<p, q>> # <<>> /\ Len(<<p, q>>) = 2
         /\ <<p, q>>[1] = p /\ <<p, q>>[2] = q
         /\ Head(<<p, q>>) = p /\ Tail(<<p, q>>) = <<q>>
         /\ SubSeq(<<p, q>>, 1, 2) = <<p, q>> /\ SubSeq(<<p, q>>, 3, 2) = <<>>
         /\ <<>> \o <<p, q>> = <<p, q>>
<1>1. <<p, q>> \in Seq(Pieces)
  OBVIOUS
<1>2. <<>> \o <<p, q>> = <<p, q>>
  BY <1>1, ConcatEmptySeq
<1>3. SubSeq(<<p, q>>, 1, 2) = <<p, q>>
  <2>1. Len(<<p, q>>) = 2
    OBVIOUS
  <2> QED BY <1>1, <2>1, SubSeqFull
<1>4. SubSeq(<<p, q>>, 3, 2) = <<>>
  BY <1>1
<1>5. Append(<<p>>, q) = <<p, q>>
  <2>1. <<p>> \in Seq(Pieces) /\ Append(<<p>>, q) \in Seq(Pieces)
    OBVIOUS
  <2>2. Len(Append(<<p>>, q)) = Len(<<p, q>>)
    OBVIOUS
  <2>3. \A i \in 1 .. 2 : Append(<<p>>, q)[i] = <<p, q>>[i]
    BY <2>1, AppendProperties
  <2>4. Len(<<p, q>>) = 2
    OBVIOUS
  <2> QED BY <1>1, <2>1, <2>2, <2>3, <2>4, SeqEqual
<1>6. Head(<<p, q>>) = p /\ Len(<<p, q>>) = 2 /\ <<p, q>> # <<>>
  OBVIOUS
<1>7. Tail(<<p, q>>) = <<q>>
  OBVIOUS
<1> QED BY <1>2, <1>3, <1>4, <1>5, <1>6, <1>7

LEMMA NothingIsNoFrame == ~IsFrame(<<>>)
BY DEF IsFrame

LEMMA FrameFacts ==
  ASSUME NEW h \in Callers
  PROVE  /\ Append(<<>>, <<h, "len">>) = Header(h)
         /\ Append(<<>>, <<h, "body">>) = Body(h)
         /\ Append(Header(h), <<h, "body">>) = Frame(h)
         /\ Header(h) # <<>> /\ Body(h) # <<>> /\ Frame(h) # <<>>
         /\ ~IsFrame(Header(h)) /\ ~IsFrame(Body(h))
         /\ Head(Frame(h)) = <<h, "len">> /\ Tail(Frame(h)) = Body(h)
         /\ Head(Body(h)) = <<h, "body">> /\ Tail(Body(h)) = <<>>
         /\ <<>> \o SubSeq(Frame(h), 1, 2) = Frame(h)
         /\ SubSeq(Frame(h), 3, Len(Frame(h))) = <<>>
<1>1. <<h, "len">> \in Pieces /\ <<h, "body">> \in Pieces
  BY DEF Pieces
<1> QED BY <1>1, OnePiece, TwoPieces DEF Header, Body, Frame, IsFrame

\* A step that leaves the pieces of a connection and reopens nothing.
Same(c) == /\ from'[c] = from[c] /\ to'[c] = to[c]
           /\ c \in open' => c \in open
           /\ c \in abandoned => c \in abandoned'
           /\ c \in shut => c \in shut'

\* What was known of a connection is still known.
Kept(c) == /\ Settled(c) => Settled(c)'
           /\ \A h \in Callers : /\ Begun(h, c) => Begun(h, c)'
                                 /\ Asked(h, c) => Asked(h, c)'
                                 /\ HalfRead(h, c) => HalfRead(h, c)'

LEMMA SameIsKept ==
  ASSUME NEW c, Same(c)
  PROVE  Kept(c)
BY DEF Same, Kept, Settled, Quiet, Begun, Asked, HalfRead, Sent, Replied, Header, Body, Frame

\* An answer moves a whole frame from one direction to the other.
LEMMA ServeKeeps ==
  ASSUME TypeOK, NEW d \in Conns, Serve(d), NEW c \in Conns
  PROVE  Kept(c)
<1> USE DEF TypeOK
<1>1. CASE c # d
  <2>1. Same(c)
    BY <1>1 DEF Serve, Same, connVars
  <2> QED BY <2>1, SameIsKept
<1>2. CASE c = d
  <2>1. /\ c \in open /\ IsFrame(to[c])
        /\ from'[c] = from[c] \o SubSeq(to[c], 1, 2)
        /\ to'[c] = SubSeq(to[c], 3, Len(to[c]))
        /\ UNCHANGED <<abandoned, shut>>
    BY <1>2 DEF Serve, connVars
  <2>2. Settled(c) => Settled(c)'
    BY <2>1, NothingIsNoFrame DEF Settled, Quiet
  <2>3. \A h \in Callers : ~Sent(c, Header(h)) /\ ~Sent(c, Body(h))
    BY <2>1, FrameFacts DEF Sent
  <2>4. \A pieces : ~Replied(c, pieces)
    BY <2>1, NothingIsNoFrame DEF Replied
  <2>5. \A h \in Callers : Sent(c, Frame(h)) => Replied(c, Frame(h))'
    BY <2>1, FrameFacts DEF Sent, Replied, Frame
  <2> QED BY <2>2, <2>3, <2>4, <2>5 DEF Kept, Begun, Asked, HalfRead
<1> QED BY <1>1, <1>2

-----------------------------------------------------------------------------
(* Every step keeps the invariant.                                         *)

\* A caller that does not move is where it was on its stream, if knowledge of
\* the connections made so far is kept and a new one is settled.
LEMMA KeptInStep ==
  ASSUME RpcInv, NEW h \in Callers, at'[h] = at[h], on'[h] = on[h],
         \A c \in Conns : c <= dialed => Kept(c),
         conn' = conn \/ Settled(conn)'
  PROVE  InStep(h)'
<1> USE DEF RpcInv
<1>1. CASE at[h] \notin Critical
  BY <1>1 DEF InStep, Critical
<1>2. CASE at[h] \in Critical
  <2>1. PICK c \in Conns : c = conn
    BY <1>2, ConnType DEF Connected
  <2>2. Kept(c)
    BY <2>1 DEF Connected, Conns
  <2>3. Settled(conn)' \/ conn' = c
    BY <2>1
  <2>4. CASE at[h] \in {"inLen", "inBody"}
    <3>1. PICK d \in Conns : d = on[h]
      BY <2>4, ConnType DEF Connected
    <3>2. Kept(d) /\ on'[h] = d
      <4>1. on[h] \in 0 .. dialed
        BY DEF TypeOK
      <4>2. d <= dialed
        BY <3>1, <4>1
      <4> QED BY <3>1, <4>2
    <3>3. CASE at[h] = "inLen"
      <4>1. Asked(h, on[h])'
        BY <3>1, <3>2, <3>3 DEF InStep, Streams, Kept
      <4>2. on'[h] # conn' => Settled(conn)'
        BY <2>1, <2>2, <2>3, <3>1, <3>2, <3>3 DEF InStep, Streams, Kept
      <4> QED BY <3>3, <4>1, <4>2 DEF InStep
    <3>4. CASE at[h] = "inBody"
      <4>1. HalfRead(h, on[h])'
        BY <3>1, <3>2, <3>4 DEF InStep, Streams, Kept
      <4>2. on'[h] # conn' => Settled(conn)'
        BY <2>1, <2>2, <2>3, <3>1, <3>2, <3>4 DEF InStep, Streams, Kept
      <4> QED BY <3>4, <4>1, <4>2 DEF InStep
    <3> QED BY <2>4, <3>3, <3>4
  <2>5. CASE at[h] \notin {"inLen", "inBody"}
    <3>1. CASE Settled(conn)'
      BY <2>5, <3>1 DEF InStep, Begun, Asked, HalfRead
    <3>2. CASE conn' = c
      BY <2>1, <2>2, <2>5, <3>2 DEF InStep, Streams, Kept
    <3> QED BY <2>3, <3>1, <3>2
  <2> QED BY <2>4, <2>5
<1> QED BY <1>1, <1>2

LEMMA KeptSettled ==
  ASSUME RpcInv, \A c \in Conns : c <= dialed => Kept(c), UNCHANGED conn,
         holder = NoCaller, conn # NoConn
  PROVE  Settled(conn)'
<1>1. PICK c \in Conns : c = conn
  BY ConnType DEF RpcInv
<1>2. Settled(c) /\ Kept(c)
  BY <1>1 DEF RpcInv, Connected, Streams, Conns
<1> QED BY <1>1, <1>2 DEF Kept

\* The refiner and Close() touch no place, and lose no knowledge.
LEMMA PeerKeeps ==
  ASSUME RpcInv, Close \/ GoDown \/ ComeUp \/ \E c \in Conns : Serve(c) \/ Reject(c)
  PROVE  Streams' /\ Unused' /\ Connected' /\ AnswersOwnRequest'
<1> USE DEF RpcInv
<1>1. UNCHANGED <<conn, dialed, on, at, result, holder, abandoned>>
  BY DEF Close, GoDown, ComeUp, Serve, Reject, callVars, connVars
<1>2. \A c \in Conns : Kept(c)
  <2>1. CASE \E d \in Conns : Serve(d)
    BY <2>1, ServeKeeps
  <2>2. CASE ~\E d \in Conns : Serve(d)
    <3>1. \A c \in Conns : Same(c)
      BY <2>2 DEF Same, Close, GoDown, ComeUp, Reject, connVars, peerVars
    <3> QED BY <3>1, SameIsKept
  <2> QED BY <2>1, <2>2
<1>3. Streams'
  BY <1>1, <1>2, KeptInStep, KeptSettled DEF Streams
<1>4. Unused'
  <2>1. CASE Close
    BY <2>1 DEF Close, Unused, Connected, peerVars, TypeOK
  <2>2. CASE GoDown \/ ComeUp \/ \E c \in Conns : Reject(c)
    BY <2>2 DEF GoDown, ComeUp, Reject, Unused, connVars
  <2>3. ASSUME NEW d \in Conns, Serve(d) PROVE Unused'
    BY <2>3 DEF Serve, Unused, connVars, TypeOK
  <2> QED BY <2>1, <2>2, <2>3
<1>5. Connected' /\ AnswersOwnRequest'
  BY <1>1 DEF Connected, AnswersOwnRequest
<1> QED BY <1>3, <1>4, <1>5

\* Of the other callers none is in the exchange.
LEMMA OthersOutside ==
  ASSUME TypeOK, NEW r \in Callers, at[r] \in Critical,
         NEW q \in Callers \ {r}, at'[q] = at[q]
  PROVE  InStep(q)'
BY DEF TypeOK, InStep, Critical

\* A dial leaves rc.conn alone or replaces it by a connection that is as new.
LEMMA ReconnectFacts ==
  ASSUME RpcInv, Reconnect, UNCHANGED <<to, from, abandoned, shut>>
  PROVE  /\ conn' = dialed' /\ (conn # NoConn => conn' # NoConn)
         /\ conn' = conn \/ Settled(conn)'
         /\ \A c \in Conns : c <= dialed => Kept(c)
         /\ Unused' /\ dialed <= dialed'
<1> USE DEF RpcInv
<1>1. /\ MaxConns \in Nat /\ dialed \in 0 .. MaxConns /\ conn = dialed
  BY BoundsAssumption DEF TypeOK, Conns, Connected
<1>2. \/ /\ dialed < MaxConns /\ dialed' = dialed + 1
         /\ conn' = dialed + 1 /\ open' = open \cup {dialed + 1}
      \/ UNCHANGED <<dialed, conn, open>>
  BY Zenon DEF Reconnect
<1>3. CASE UNCHANGED <<dialed, conn, open>>
  <2>1. \A c \in Conns : Same(c)
    BY <1>3 DEF Same
  <2> QED BY <1>1, <1>3, <2>1, SameIsKept DEF Unused, NoConn
<1>4. CASE /\ dialed < MaxConns /\ dialed' = dialed + 1
           /\ conn' = dialed + 1 /\ open' = open \cup {dialed + 1}
  <2>1. PICK n \in Conns : n = dialed + 1
    BY <1>1, <1>4 DEF Conns
  <2>2. from[n] = <<>> /\ to[n] = <<>> /\ n > dialed
    BY <1>1, <2>1 DEF Unused
  <2>3. Settled(n)'
    BY <2>2 DEF Settled, Quiet
  <2>4. \A c \in Conns : c <= dialed => Same(c)
    BY <1>1, <1>4 DEF Same, Conns
  <2>5. Unused'
    BY <1>1, <1>4 DEF Unused, Conns
  <2> QED BY <1>1, <1>4, <2>1, <2>3, <2>4, <2>5, SameIsKept DEF NoConn
<1> QED BY <1>2, <1>3, <1>4

\* Before the exchange: the test for nil, the dial and the lock.
LEMMA EntryKeeps ==
  ASSUME RpcInv, NEW r \in Callers, Call(r) \/ Dial(r) \/ Lock(r)
  PROVE  Streams' /\ Unused' /\ Connected' /\ AnswersOwnRequest'
<1> USE DEF RpcInv
<1>1. CASE Call(r)
  <2>1. UNCHANGED <<conn, dialed, on, holder, abandoned, shut, open, to, from>>
    BY <1>1 DEF Call, connVars, peerVars
  <2>2. \A c \in Conns : Kept(c)
    BY <2>1, SameIsKept DEF Same
  <2>3. \A q \in Callers \ {r} : at'[q] = at[q] /\ result'[q] = result[q]
    BY <1>1 DEF Call, TypeOK
  <2>4. /\ at[r] = "idle" /\ at'[r] \in {"dial", "lock"} /\ result'[r] = "none"
        /\ at'[r] = "lock" => conn # NoConn
    BY <1>1 DEF Call, TypeOK
  <2>5. InStep(r)'
    BY <2>4 DEF InStep
  <2>6. Streams'
    BY <2>1, <2>2, <2>3, <2>5, KeptInStep, KeptSettled DEF Streams
  <2>7. Connected'
    BY <2>1, <2>3, <2>4 DEF Connected, Critical
  <2>8. Unused' /\ AnswersOwnRequest'
    BY <2>1, <2>3, <2>4 DEF Unused, AnswersOwnRequest
  <2> QED BY <2>6, <2>7, <2>8
<1>2. CASE Dial(r)
  <2>1. /\ conn' = dialed' /\ (conn # NoConn => conn' # NoConn)
        /\ conn' = conn \/ Settled(conn)'
        /\ \A c \in Conns : c <= dialed => Kept(c)
        /\ Unused'
    BY <1>2, ReconnectFacts DEF Dial
  <2>2. UNCHANGED <<on, holder, abandoned>>
    BY <1>2 DEF Dial
  <2>3. \A q \in Callers \ {r} : at'[q] = at[q] /\ result'[q] = result[q]
    BY <1>2 DEF Dial, TypeOK
  <2>4. /\ at[r] = "dial"
        /\ \/ at'[r] = "lock" /\ result'[r] = "none"
           \/ at'[r] = "idle" /\ result'[r] = "error"
    BY <1>2 DEF Dial, TypeOK, Connected
  <2>5. at'[r] = "lock" => conn' # NoConn
    BY <1>2, ConnsType DEF Dial, Reconnect, TypeOK, NoConn, Conns
  <2>6. InStep(r)'
    BY <2>4 DEF InStep
  <2>7. holder' = NoCaller /\ conn' # NoConn => Settled(conn)'
    BY <2>1, <2>2, KeptSettled
  <2>8. Streams'
    BY <2>1, <2>2, <2>3, <2>6, <2>7, KeptInStep DEF Streams
  <2>9. Connected'
    BY <2>1, <2>2, <2>3, <2>4, <2>5 DEF Connected, Critical
  <2>10. AnswersOwnRequest'
    BY <2>2, <2>3, <2>4 DEF AnswersOwnRequest
  <2> QED BY <2>1, <2>8, <2>9, <2>10
<1>3. CASE Lock(r)
  <2>1. /\ UNCHANGED <<conn, dialed, on, abandoned, shut, open, to, from, result>>
        /\ at[r] = "lock" /\ at'[r] = "deadline" /\ holder = NoCaller /\ holder' = r
        /\ \A q \in Callers \ {r} : at'[q] = at[q]
    BY <1>3 DEF Lock, connVars, peerVars, TypeOK
  <2>2. \A c \in Conns : Kept(c)
    BY <2>1, SameIsKept DEF Same
  <2>3. conn # NoConn
    BY <2>1 DEF Connected
  <2>4. Settled(conn)'
    BY <2>1, <2>2, <2>3, KeptSettled
  <2>5. InStep(r)'
    BY <2>1, <2>4 DEF InStep
  <2>6. Streams'
    BY <2>1, <2>2, <2>5, CallersAssumption, KeptInStep DEF Streams
  <2>7. Unused' /\ Connected' /\ AnswersOwnRequest'
    BY <2>1, <2>3 DEF Unused, Connected, AnswersOwnRequest, Critical
  <2> QED BY <2>6, <2>7
<1> QED BY <1>1, <1>2, <1>3

\* In the exchange only the caller that has the lock moves.
OthersStand(r) == \A q \in Callers \ {r} : /\ at'[q] = at[q] /\ on'[q] = on[q]
                                           /\ result'[q] = result[q]

LEMMA MoverStreams ==
  ASSUME TypeOK, NEW r \in Callers, at[r] \in Critical, OthersStand(r), InStep(r)',
         holder' # NoCaller \/ Settled(conn)'
  PROVE  Streams'
BY OthersOutside DEF Streams, OthersStand

\* A call that ends leaves a settled connection behind.
LEMMA ReturnKeeps ==
  ASSUME RpcInv, NEW r \in Callers, NEW x \in Callers \cup {"error", "timeout", "rubbish"},
         at[r] \in Critical, Return(r, x), abandoned \subseteq abandoned',
         Settled(conn)', Unused', conn' = dialed', conn' = NoConn => conn = NoConn,
         x \in {r, "error", "timeout"} \/ on[r] \in abandoned'
  PROVE  Streams' /\ Unused' /\ Connected' /\ AnswersOwnRequest'
<1>1. /\ at'[r] = "idle" /\ result'[r] = x /\ on' = on /\ holder' = NoCaller
      /\ OthersStand(r)
  BY DEF Return, RpcInv, TypeOK, OthersStand
<1>2. Streams'
  BY <1>1, MoverStreams DEF RpcInv, InStep
<1>3. \A q \in Callers \ {r} : at[q] \notin Critical
  BY DEF RpcInv, TypeOK
<1>4. Connected'
  BY <1>1, <1>3 DEF RpcInv, Connected, OthersStand, Critical
<1>5. AnswersOwnRequest'
  BY <1>1 DEF RpcInv, AnswersOwnRequest, OthersStand
<1> QED BY <1>2, <1>4, <1>5

LEMMA SetDeadlineKeeps ==
  ASSUME RpcInv, NEW r \in Callers, SetDeadline(r)
  PROVE  Streams' /\ Unused' /\ Connected' /\ AnswersOwnRequest'
<1> USE DEF RpcInv
<1>1. /\ UNCHANGED <<conn, dialed, on, abandoned, shut, open, to, from, result, holder>>
      /\ at[r] = "deadline" /\ at'[r] = "header"
      /\ \A q \in Callers \ {r} : at'[q] = at[q]
  BY DEF SetDeadline, peerVars, TypeOK
<1>2. holder = r /\ at[r] \in Critical /\ Settled(conn)
  BY <1>1 DEF TypeOK, Critical, Streams, InStep
<1>3. Settled(conn)'
  BY <1>1, <1>2 DEF Settled, Quiet
<1>4. InStep(r)'
  BY <1>1, <1>3 DEF InStep
<1>5. Streams'
  BY <1>1, <1>2, <1>3, <1>4, MoverStreams DEF OthersStand
<1> QED BY <1>1, <1>2, <1>5 DEF Unused, Connected, AnswersOwnRequest, Critical

\* What is written to a settled connection is all there is on it; a body is
\* either written behind its header or, alone, to a connection made meanwhile.
LEMMA WriteKeeps ==
  ASSUME RpcInv, NEW r \in Callers, WriteHeader(r) \/ WriteBody(r)
  PROVE  Streams' /\ Unused' /\ Connected' /\ AnswersOwnRequest'
<1> USE DEF RpcInv
<1>1. /\ UNCHANGED <<conn, dialed, on, abandoned, shut, open, from, result, holder>>
      /\ conn \in open \ shut
      /\ \A q \in Callers \ {r} : at'[q] = at[q]
  BY DEF WriteHeader, WriteBody, Send, connVars, TypeOK
<1>2. PICK c \in Conns : c = conn
  BY <1>1 DEF TypeOK
<1>3. at[r] \in Critical
  BY DEF WriteHeader, WriteBody, Critical
<1>4. holder = r /\ c = dialed
  BY <1>2, <1>3 DEF TypeOK, Connected
<1>5. ASSUME \A d \in Conns \ {c} : to'[d] = to[d] PROVE Unused'
  <2>1. \A d \in Conns : d > dialed => d # c
    BY <1>2, <1>4, ConnsType
  <2>2. Unused
    OBVIOUS
  <2> QED BY <1>1, <1>5, <2>1, <2>2 DEF Unused
<1>6. CASE WriteHeader(r)
  <2>1. /\ at[r] = "header" /\ at'[r] = "body"
        /\ to'[c] = Append(to[c], <<r, "len">>)
        /\ \A d \in Conns \ {c} : to'[d] = to[d]
    BY <1>2, <1>6 DEF WriteHeader, Send, TypeOK
  <2>2. c \in abandoned \/ Sent(c, <<>>)
    BY <1>1, <1>2, <2>1 DEF Streams, InStep, Settled, Quiet, Sent
  <2>3. Begun(r, c)'
    BY <1>1, <2>1, <2>2, FrameFacts DEF Begun, Settled, Sent, Header
  <2>4. InStep(r)'
    BY <1>1, <1>2, <2>1, <2>3 DEF InStep
  <2>5. Unused'
    BY <1>5, <2>1
  <2> QED BY <1>1, <1>2, <1>3, <1>4, <2>1, <2>4, <2>5, MoverStreams, CallersAssumption
          DEF OthersStand, Connected, AnswersOwnRequest, Critical
<1>7. CASE WriteBody(r)
  <2>1. /\ at[r] = "body" /\ at'[r] = "toLen"
        /\ to'[c] = Append(to[c], <<r, "body">>)
        /\ \A d \in Conns \ {c} : to'[d] = to[d]
    BY <1>2, <1>7 DEF WriteBody, Send, TypeOK
  <2>2. c \in abandoned \/ Sent(c, <<>>) \/ Sent(c, Header(r))
    BY <1>1, <1>2, <2>1 DEF Streams, InStep, Begun, Settled, Quiet, Sent
  <2>3. Asked(r, c)'
    BY <1>1, <2>1, <2>2, FrameFacts DEF Asked, Settled, Sent, Body, Frame
  <2>4. InStep(r)'
    BY <1>1, <1>2, <2>1, <2>3 DEF InStep
  <2>5. Unused'
    BY <1>5, <2>1
  <2> QED BY <1>1, <1>2, <1>3, <1>4, <2>1, <2>4, <2>5, MoverStreams, CallersAssumption
          DEF OthersStand, Connected, AnswersOwnRequest, Critical
<1> QED BY <1>6, <1>7

LEMMA BrokenPipeKeeps ==
  ASSUME RpcInv, NEW r \in Callers, BrokenPipe(r)
  PROVE  Streams' /\ Unused' /\ Connected' /\ AnswersOwnRequest'
<1> USE DEF RpcInv
<1>1. /\ conn' = dialed' /\ (conn # NoConn => conn' # NoConn)
      /\ conn' = conn \/ Settled(conn)'
      /\ \A c \in Conns : c <= dialed => Kept(c)
      /\ Unused'
  BY ReconnectFacts DEF BrokenPipe
<1>2. at[r] = "header" /\ Return(r, "error") /\ UNCHANGED abandoned
  BY DEF BrokenPipe
<1>3. conn # NoConn /\ Settled(conn) /\ at[r] \in Critical
  BY <1>2 DEF Connected, Critical, Streams, InStep
<1>4. PICK c \in Conns : c = conn
  BY <1>3, ConnType
<1>5. Settled(c)'
  BY <1>1, <1>3, <1>4 DEF Kept, Connected, Conns
<1>6. Settled(conn)'
  BY <1>1, <1>4, <1>5
<1> QED BY <1>1, <1>2, <1>3, <1>6, ReturnKeeps

LEMMA FailureKeeps ==
  ASSUME RpcInv, NEW r \in Callers, ConnFails(r) \/ Timeout(r)
  PROVE  Streams' /\ Unused' /\ Connected' /\ AnswersOwnRequest'
<1> USE DEF RpcInv
<1>1. /\ UNCHANGED <<conn, dialed, shut, open, to, from>> /\ abandoned \subseteq abandoned'
      /\ at[r] \in Critical /\ \E x \in {"error", "timeout"} : Return(r, x)
  BY DEF ConnFails, Timeout, connVars, peerVars, Critical
<1>2. CASE Timeout(r)
  <2>1. conn \in abandoned' \/ Settled(conn)
    BY <1>2 DEF Timeout, Streams, InStep
  <2>2. Settled(conn)'
    BY <1>1, <2>1 DEF Settled, Quiet
  <2>3. Unused'
    <3>1. abandoned' = abandoned \cup {on[r]} /\ on[r] \in 0 .. dialed
      BY <1>2 DEF Timeout, TypeOK
    <3>2. \A c \in Conns : c > dialed => c # on[r]
      <4>1. dialed \in Nat /\ Conns \subseteq Nat
        BY ConnsType DEF TypeOK
      <4> QED BY <3>1, <4>1
    <3>3. Unused
      OBVIOUS
    <3> QED BY <1>1, <3>1, <3>2, <3>3 DEF Unused
  <2> QED BY <1>1, <2>2, <2>3, ReturnKeeps DEF Connected
<1>3. CASE ConnFails(r)
  <2>1. Settled(conn)
    <3>1. CASE at[r] \in {"deadline", "header", "toLen", "toBody"}
      BY <1>3, <3>1 DEF ConnFails, Settled, Quiet
    <3>2. CASE at[r] = "body"
      BY <1>3, <3>2, FrameFacts DEF ConnFails, Streams, InStep, Begun, Settled, Quiet, Sent
    <3>3. CASE at[r] \in {"inLen", "inBody"}
      BY <1>3, <3>3 DEF ConnFails, Streams, InStep, Settled, Quiet
    <3> QED BY <1>1, <3>1, <3>2, <3>3 DEF Critical
  <2>2. UNCHANGED abandoned
    BY <1>3 DEF ConnFails, connVars
  <2>3. Settled(conn)' /\ Unused'
    BY <1>1, <2>1, <2>2 DEF Settled, Quiet, Unused
  <2> QED BY <1>1, <2>2, <2>3, ReturnKeeps DEF Connected
<1> QED BY <1>2, <1>3

LEMMA BeginReadKeeps ==
  ASSUME RpcInv, NEW r \in Callers, BeginRead(r)
  PROVE  Streams' /\ Unused' /\ Connected' /\ AnswersOwnRequest'
<1> USE DEF RpcInv
<1>1. /\ UNCHANGED <<conn, dialed, abandoned, shut, open, to, from, result, holder>>
      /\ \/ at[r] = "toLen" /\ at'[r] = "inLen"
         \/ at[r] = "toBody" /\ at'[r] = "inBody"
      /\ on'[r] = conn
      /\ \A q \in Callers \ {r} : at'[q] = at[q] /\ on'[q] = on[q]
  BY DEF BeginRead, connVars, peerVars, TypeOK
<1>2. at[r] \in Critical /\ holder = r /\ conn # NoConn
  BY <1>1 DEF Critical, TypeOK, Connected
<1>3. InStep(r)'
  <2>1. at[r] = "toLen" => Asked(r, conn)'
    BY <1>1 DEF Streams, InStep, Asked, Settled, Quiet, Sent, Replied, Body, Frame
  <2>2. at[r] = "toBody" => HalfRead(r, conn)'
    BY <1>1 DEF Streams, InStep, HalfRead, Settled, Quiet, Replied, Body
  <2> QED BY <1>1, <2>1, <2>2 DEF InStep, Asked, HalfRead, Sent, Replied
<1>4. Streams'
  BY <1>1, <1>2, <1>3, MoverStreams, CallersAssumption DEF OthersStand
<1> QED BY <1>1, <1>2, <1>4 DEF Unused, Connected, AnswersOwnRequest, Critical

\* Who reads something reads from the reply to its own request, or from a
\* connection on which a call was given up; the other connections stand.
LEMMA ReadFacts ==
  ASSUME RpcInv, NEW r \in Callers, NEW c \in Conns, c = on[r],
         at[r] \in {"inLen", "inBody"}, Receive(r, "len") \/ Receive(r, "body")
  PROVE  /\ UNCHANGED <<conn, dialed, abandoned, shut, open, to>>
         /\ from'[c] = Tail(from[c]) /\ from[c] \in Seq(Pieces) /\ from[c] # <<>>
         /\ at[r] = "inLen" => c \in abandoned \/ Replied(c, Frame(r))
         /\ at[r] = "inBody" => c \in abandoned \/ Replied(c, Body(r))
         /\ conn # c => Settled(conn)'
         /\ Unused' /\ conn # NoConn /\ at[r] \in Critical
<1> USE DEF RpcInv
<1>1. /\ UNCHANGED <<conn, dialed, abandoned, shut, open, to>>
      /\ c \notin shut /\ from[c] # <<>> /\ from[c] \in Seq(Pieces)
      /\ from'[c] = Tail(from[c])
      /\ \A d \in Conns \ {c} : from'[d] = from[d]
  BY DEF Receive, connVars, TypeOK
<1>2. at[r] \in Critical /\ conn # NoConn
  BY DEF Critical, Connected
<1>3. Settled(c) => c \in abandoned
  BY <1>1 DEF Settled, Quiet
<1>4. at[r] = "inLen" => c \in abandoned \/ Replied(c, Frame(r))
  BY <1>1, <1>3 DEF Streams, InStep, Asked, Sent
<1>5. at[r] = "inBody" => c \in abandoned \/ Replied(c, Body(r))
  BY <1>1, <1>3 DEF Streams, InStep, HalfRead
<1>6. ASSUME conn # c PROVE Settled(conn)'
  <2>1. PICK d \in Conns : d = conn
    BY <1>2, ConnType
  <2>2. Settled(d)
    BY <1>6, <2>1 DEF Streams, InStep
  <2>3. from'[d] = from[d]
    BY <1>1, <1>6, <2>1
  <2> QED BY <1>1, <2>1, <2>2, <2>3 DEF Settled, Quiet
<1>7. Unused'
  <2>1. dialed \in Nat /\ c <= dialed
    BY ConnsType DEF TypeOK, Conns
  <2>2. \A d \in Conns : d > dialed => d # c
    BY <2>1, ConnsType
  <2>3. Unused
    OBVIOUS
  <2> QED BY <1>1, <2>2, <2>3 DEF Unused
<1> QED BY <1>1, <1>2, <1>4, <1>5, <1>6, <1>7

LEMMA ReadLenKeeps ==
  ASSUME RpcInv, NEW r \in Callers, ReadLen(r)
  PROVE  Streams' /\ Unused' /\ Connected' /\ AnswersOwnRequest'
<1> USE DEF RpcInv
<1>1. /\ at[r] = "inLen" /\ at'[r] = "toBody" /\ Receive(r, "len")
      /\ UNCHANGED <<on, result, holder>>
      /\ \A q \in Callers \ {r} : at'[q] = at[q]
  BY DEF ReadLen, TypeOK
<1>2. PICK c \in Conns : c = on[r]
  BY <1>1, ConnType DEF Connected
<1>3. /\ UNCHANGED <<conn, dialed, abandoned, shut, open, to>>
      /\ from'[c] = Tail(from[c])
      /\ c \in abandoned \/ Replied(c, Frame(r))
      /\ conn # c => Settled(conn)'
      /\ Unused' /\ conn # NoConn /\ at[r] \in Critical
  BY <1>1, <1>2, ReadFacts
<1>4. HalfRead(r, c)'
  BY <1>3, FrameFacts DEF HalfRead, Settled, Replied, Body
<1>5. HalfRead(r, conn)'
  BY <1>3, <1>4 DEF HalfRead, Settled, Quiet, Replied
<1>6. InStep(r)'
  BY <1>1, <1>5 DEF InStep
<1>7. holder' # NoCaller
  BY <1>1, <1>3, CallersAssumption DEF TypeOK
<1>8. Streams'
  BY <1>1, <1>3, <1>6, <1>7, MoverStreams DEF OthersStand
<1> QED BY <1>1, <1>3, <1>8 DEF Connected, AnswersOwnRequest, Critical

LEMMA ReadEndKeeps ==
  ASSUME RpcInv, NEW r \in Callers, ReadBody(r) \/ ReadRubbish(r)
  PROVE  Streams' /\ Unused' /\ Connected' /\ AnswersOwnRequest'
<1> USE DEF RpcInv
<1>1. at[r] \in {"inLen", "inBody"} /\ (Receive(r, "len") \/ Receive(r, "body"))
  BY DEF ReadBody, ReadRubbish
<1>2. PICK c \in Conns : c = on[r]
  BY <1>1, ConnType DEF Connected
<1>3. /\ UNCHANGED <<conn, dialed, abandoned, shut, open, to>>
      /\ from'[c] = Tail(from[c]) /\ from[c] \in Seq(Pieces) /\ from[c] # <<>>
      /\ at[r] = "inLen" => c \in abandoned \/ Replied(c, Frame(r))
      /\ at[r] = "inBody" => c \in abandoned \/ Replied(c, Body(r))
      /\ conn # c => Settled(conn)'
      /\ Unused' /\ conn # NoConn /\ at[r] \in Critical
  BY <1>1, <1>2, ReadFacts
<1>4. PICK x \in Callers \cup {"rubbish"} :
        /\ Return(r, x)
        /\ (x = r /\ at[r] = "inBody" /\ Replied(c, Body(r))) \/ c \in abandoned
  <2>1. CASE ReadBody(r)
    <3>1. Head(from[c])[1] \in Callers
      BY <1>3 DEF Pieces
    <3>2. Replied(c, Body(r)) => Head(from[c])[1] = r
      BY FrameFacts DEF Replied
    <3> QED BY <1>2, <1>3, <2>1, <3>1, <3>2 DEF ReadBody
  <2>2. CASE ReadRubbish(r)
    <3>1. Replied(c, Frame(r)) => Head(from[c])[2] = "len"
      BY FrameFacts DEF Replied
    <3>2. Replied(c, Body(r)) => Head(from[c])[2] = "body"
      BY FrameFacts DEF Replied
    <3>3. c \in abandoned
      BY <1>2, <1>3, <2>2, <3>1, <3>2 DEF ReadRubbish, Receive
    <3> QED BY <2>2, <3>3 DEF ReadRubbish
  <2> QED BY <2>1, <2>2
<1>5. Settled(c)'
  BY <1>3, <1>4, FrameFacts DEF Settled, Quiet, Replied
<1>6. Settled(conn)'
  BY <1>3, <1>5 DEF Settled, Quiet
<1>7. conn' = dialed'
  BY <1>3 DEF Connected
<1> QED BY <1>2, <1>3, <1>4, <1>6, <1>7, ReturnKeeps

-----------------------------------------------------------------------------
(* The theorems.                                                           *)

LEMMA InitRpcInv == Init => RpcInv
<1> SUFFICES ASSUME Init PROVE RpcInv
  OBVIOUS
<1>1. TypeOK
  BY InitTypeOK
<1>2. Unused /\ Connected /\ AnswersOwnRequest
  <2>1. /\ conn = NoConn /\ dialed = 0 /\ open = {} /\ shut = {} /\ abandoned = {}
        /\ \A c \in Conns : to[c] = <<>> /\ from[c] = <<>>
        /\ \A r \in Callers : at[r] = "idle" /\ result[r] = "none"
    BY DEF Init
  <2> QED BY <2>1 DEF Unused, Connected, AnswersOwnRequest, Critical, NoConn
<1>3. Streams
  BY DEF Init, Streams, InStep
<1> QED BY <1>1, <1>2, <1>3 DEF RpcInv

LEMMA NextRpcInv == RpcInv /\ [Next]_vars => RpcInv'
<1> SUFFICES ASSUME RpcInv, [Next]_vars PROVE RpcInv'
  OBVIOUS
<1>1. TypeOK /\ Connected
  BY DEF RpcInv
<1>2. ASSUME NEW r \in Callers, Call(r) \/ Request(r) PROVE RpcInv'
  <2>1. TypeOK'
    BY <1>1, <1>2, RequestTypeOK
  <2>2. Streams' /\ Unused' /\ Connected' /\ AnswersOwnRequest'
    BY <1>2, EntryKeeps, SetDeadlineKeeps, WriteKeeps, BrokenPipeKeeps, FailureKeeps,
       BeginReadKeeps, ReadLenKeeps, ReadEndKeeps DEF Request
  <2> QED BY <2>1, <2>2 DEF RpcInv
<1>3. CASE Close \/ GoDown \/ ComeUp \/ \E c \in Conns : Serve(c) \/ Reject(c)
  BY <1>1, <1>3, PeerTypeOK, PeerKeeps DEF RpcInv
<1>4. CASE UNCHANGED vars
  <2>1. UNCHANGED <<conn, dialed, holder, at, on, result, calls, deadline, shut, abandoned,
                    up, restarts, open, to, from>>
    BY <1>4 DEF vars, callVars, connVars, peerVars
  <2>2. TypeOK'
    BY <1>1, <2>1 DEF TypeOK
  <2>3. Unused' /\ Connected' /\ AnswersOwnRequest'
    BY <2>1 DEF RpcInv, Unused, Connected, AnswersOwnRequest
  <2>4. Streams'
    BY <2>1 DEF RpcInv, Streams, InStep, Begun, Asked, HalfRead, Settled, Quiet, Sent,
                Replied, Header, Body, Frame
  <2> QED BY <2>2, <2>3, <2>4 DEF RpcInv
<1> QED BY <1>2, <1>3, <1>4 DEF Next

LEMMA RpcInvHolds == Spec => []RpcInv
BY InitRpcInv, NextRpcInv, PTL DEF Spec

\* While the dials do not overlap, rc.conn is replaced only when nobody is in
\* the exchange, or by the caller that leaves it.
Timed ==
  \A r \in Callers : /\ at[r] = "dial" => conn = NoConn
                     /\ at[r] \in Critical \ {"deadline"} => conn \in deadline
                     /\ at[r] \in {"inLen", "inBody"} => on[r] = conn

\* A step of r that keeps the connection and its deadline, and begins no read.
LEMMA SameConnTimed ==
  ASSUME TypeOK, Timed, NEW r \in Callers, UNCHANGED <<conn, deadline, on>>,
         \E next : at' = [at EXCEPT ![r] = next],
         at'[r] \notin {"dial", "inLen", "inBody"},
         at'[r] \in Critical \ {"deadline"} => conn \in deadline
  PROVE  Timed'
<1>1. \A q \in Callers \ {r} : at'[q] = at[q]
  BY DEF TypeOK
<1> QED BY <1>1 DEF Timed, Critical

LEMMA RequestTimed ==
  ASSUME RpcInv, OneDials, Timed, NEW r \in Callers, Call(r) \/ Request(r)
  PROVE  Timed'
<1>1. /\ TypeOK /\ Connected
      /\ \A q \in Callers : at[q] \in Critical <=> holder = q
  BY DEF RpcInv, TypeOK
<1>2. CASE Call(r)
  <2>1. /\ UNCHANGED <<conn, deadline, on>> /\ \A q \in Callers \ {r} : at'[q] = at[q]
        /\ at'[r] = IF conn = NoConn THEN "dial" ELSE "lock"
    BY <1>1, <1>2 DEF Call, connVars, TypeOK
  <2> QED BY <2>1 DEF Timed, Critical
<1>3. CASE Dial(r)
  <2>1. /\ at[r] = "dial" /\ conn = NoConn /\ at'[r] \in {"lock", "idle"}
        /\ \A q \in Callers \ {r} : at'[q] = at[q]
    BY <1>1, <1>3 DEF Dial, Timed, TypeOK
  <2>2. \A q \in Callers : at[q] \notin Critical
    BY <1>1, <2>1 DEF Connected
  <2>3. \A q \in Callers \ {r} : at[q] # "dial"
    BY <2>1 DEF OneDials
  <2> QED BY <2>1, <2>2, <2>3 DEF Timed, Critical
<1>4. CASE Lock(r)
  BY <1>1, <1>4, SameConnTimed DEF Lock, connVars, TypeOK
<1>5. CASE SetDeadline(r)
  <2>1. /\ UNCHANGED <<conn, on>> /\ deadline' = deadline \cup {conn} /\ at'[r] = "header"
        /\ \A q \in Callers \ {r} : at'[q] = at[q]
    BY <1>1, <1>5 DEF SetDeadline, TypeOK
  <2> QED BY <2>1 DEF Timed, Critical
<1>6. CASE WriteHeader(r) \/ WriteBody(r)
  <2>1. /\ UNCHANGED <<conn, deadline, on>> /\ at[r] \in Critical \ {"deadline"}
        /\ \E next \in {"body", "toLen"} : at' = [at EXCEPT ![r] = next]
    BY <1>6 DEF WriteHeader, WriteBody, Send, connVars, Critical
  <2>2. at'[r] \in {"body", "toLen"}
    BY <1>1, <2>1 DEF TypeOK
  <2> QED BY <1>1, <2>1, <2>2, SameConnTimed DEF Timed
<1>7. CASE BrokenPipe(r)
  <2>1. /\ at[r] \in Critical /\ at'[r] = "idle" /\ UNCHANGED <<on, deadline>>
        /\ \A q \in Callers \ {r} : at'[q] = at[q]
    BY <1>1, <1>7 DEF BrokenPipe, Return, Critical, TypeOK
  <2>2. \A q \in Callers \ {r} : at[q] \notin Critical
    BY <1>1, <2>1
  <2>3. \A q \in Callers : at[q] # "dial"
    BY <1>1, <2>1 DEF Connected, Timed
  <2> QED BY <2>1, <2>2, <2>3 DEF Timed, Critical
<1>8. CASE ConnFails(r) \/ ReadLen(r) \/ ReadBody(r) \/ ReadRubbish(r) \/ Timeout(r)
  <2>1. /\ UNCHANGED <<conn, deadline, on>>
        /\ \E next \in {"toBody", "idle"} :
             /\ at' = [at EXCEPT ![r] = next]
             /\ next = "toBody" => at[r] = "inLen"
    BY <1>8 DEF ConnFails, ReadLen, ReadBody, ReadRubbish, Timeout, Receive, Return, connVars
  <2>2. at'[r] \in {"toBody", "idle"} /\ (at'[r] = "toBody" => at[r] = "inLen")
    BY <1>1, <2>1 DEF TypeOK
  <2>3. at'[r] \in Critical \ {"deadline"} => conn \in deadline
    BY <2>2 DEF Timed, Critical
  <2> QED BY <1>1, <2>1, <2>2, <2>3, SameConnTimed
<1>9. CASE BeginRead(r)
  <2>1. /\ UNCHANGED <<conn, deadline>> /\ on'[r] = conn
        /\ at[r] \in {"toLen", "toBody"} /\ at'[r] \in {"inLen", "inBody"}
        /\ \A q \in Callers \ {r} : at'[q] = at[q] /\ on'[q] = on[q]
    BY <1>1, <1>9 DEF BeginRead, connVars, TypeOK
  <2>2. conn \in deadline
    BY <2>1 DEF Timed, Critical
  <2> QED BY <2>1, <2>2 DEF Timed, Critical
<1> QED BY <1>2, <1>3, <1>4, <1>5, <1>6, <1>7, <1>8, <1>9 DEF Request

LEMMA NextTimed == RpcInv /\ OneDials /\ Timed /\ [Next]_vars => Timed'
<1>1. ASSUME Timed, \/ Close \/ GoDown \/ ComeUp \/ UNCHANGED vars
                    \/ \E c \in Conns : Serve(c) \/ Reject(c)
      PROVE  Timed'
  <2>1. UNCHANGED <<at, on, conn, deadline>>
    BY <1>1 DEF Close, GoDown, ComeUp, vars, Serve, Reject, callVars, connVars
  <2> QED BY <1>1, <2>1 DEF Timed
<1> QED BY <1>1, RequestTimed DEF Next

\* "whatever the refiner does, a read has a deadline": why a call returns (the
\* safety part of CallsReturn), for any number of callers and restarts.
THEOREM EveryReadIsTimed == Spec => ReadsAreTimed
<1> DEFINE OnTime == \A r \in Callers : at[r] \in {"inLen", "inBody"} => on[r] \in deadline
<1>1. Init => Timed
  BY DEF Init, Timed, Critical
<1>2. Timed => OnTime
  BY DEF Timed, Critical
<1>3. ReadsAreTimed <=> ([]OneDials => []OnTime)
  BY DEF ReadsAreTimed
<1> HIDE DEF OnTime
<1> QED BY <1>1, <1>2, <1>3, RpcInvHolds, NextTimed, PTL DEF Spec

\* request() (proxy.go:268) never has two callers in the exchange, and every
\* caller in it is the one that holds rc.lock: the deferred Unlock runs on each
\* of its ways out, and a dial happens outside or gives up the call.
THEOREM OneExchangeAtATime == Spec => []TypeOK
<1>1. RpcInv => TypeOK
  BY DEF RpcInv
<1> QED BY <1>1, RpcInvHolds, PTL

\* A caller that is answered is answered with the reply to its own request,
\* although no id ties the two together (proxy.go:307): across restarts of the
\* refiner, overlapping dials and Close(), for any number of callers, unless a
\* call on the connection it read from was given up at its deadline.
THEOREM RepliesReachTheirCaller == Spec => []AnswersOwnRequest
<1>1. RpcInv => AnswersOwnRequest
  BY DEF RpcInv
<1> QED BY <1>1, RpcInvHolds, PTL
=============================================================================
