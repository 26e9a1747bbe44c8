---------------------------- MODULE ServerProofs ----------------------------
(***************************************************************************)
(* Theorems about what the RPC server is made of: the event subscriptions, *)
(* the client filter and the reads of the engine endpoint.                 *)
(***************************************************************************)
EXTENDS EventsEth, FilterIP, EngineReads, SequenceTheorems, TLAPS

-----------------------------------------------------------------------------
(***************************************************************************)
(* A log subscription gets every event the broker sends it, once and in    *)
(* order, for every number of subscriptions and channel size: its channel  *)
(* is its own.  (Of newHeads subscriptions this does not hold, see the run *)
(* events_heads.)                                                          *)
(***************************************************************************)

\* A goroutine that has not registered has been sent nothing.
NothingYet == \A s \in LogSubs : sub[s] \in {"none", "starting"} =>
                chan[s] = <<>> /\ owed[s] = <<>> /\ notified[s] = <<>>

EventsInv == EventsTypeOK /\ NothingYet /\ LogSubscribersGetAll

\* Taking the head of what waits and putting it behind what was read changes
\* nothing of the whole.
LEMMA ForwardHead ==
  ASSUME NEW S, NEW r \in Seq(S), NEW c \in Seq(S), c # <<>>
  PROVE  Append(r, Head(c)) \o Tail(c) = r \o c
<1>1. Head(c) \in S /\ Tail(c) \in Seq(S) /\ <<Head(c)>> \in Seq(S)
  BY HeadTailProperties
<1>2. <<Head(c)>> \o Tail(c) = c
  <2>1. Len(<<Head(c)>> \o Tail(c)) = Len(c)
    BY <1>1, ConcatProperties, HeadTailProperties
  <2>2. \A i \in 1 .. Len(c) : (<<Head(c)>> \o Tail(c))[i] = c[i]
    BY <1>1, ConcatProperties, HeadTailProperties
  <2> QED BY <1>1, <2>1, <2>2, ConcatProperties, SeqEqual
<1>3. Append(r, Head(c)) = r \o <<Head(c)>>
  BY <1>1, AppendIsConcat
<1> QED BY <1>1, <1>2, <1>3, ConcatAssociative

LEMMA AppendBehind ==
  ASSUME NEW r \in Seq(Nat), NEW c \in Seq(Nat), NEW e \in Nat
  PROVE  r \o Append(c, e) = Append(r \o c, e)
<1>1. <<e>> \in Seq(Nat) /\ r \o c \in Seq(Nat)
  BY ConcatProperties
<1>2. Append(c, e) = c \o <<e>> /\ Append(r \o c, e) = (r \o c) \o <<e>>
  BY <1>1, AppendIsConcat
<1>3. r \o (c \o <<e>>) = (r \o c) \o <<e>>
  BY <1>1, ConcatAssociative
<1> QED BY <1>2, <1>3

LEMMA EventsInitially == EventsInit => EventsInv
<1> SUFFICES ASSUME EventsInit PROVE EventsInv
  OBVIOUS
<1>1. <<>> \in Seq(Nat)
  OBVIOUS
<1>2. chan \in [Chans -> Seq(Nat)] /\ owed \in [Subs -> Seq(Nat)]
      /\ notified \in [Subs -> Seq(Nat)]
  BY <1>1 DEF EventsInit
<1>3. sub \in [Subs -> {"none", "starting", "live", "gone"}]
  BY DEF EventsInit
<1>4. published \in Nat /\ sendTo \subseteq {s \in Subs : sub[s] = "live"}
  BY DEF EventsInit
<1>5. NothingYet
  BY DEF EventsInit, NothingYet, Subs, Chans
<1>6. LogSubscribersGetAll
  BY DEF EventsInit, LogSubscribersGetAll, Gets, Subs
<1> QED BY <1>2, <1>3, <1>4, <1>5, <1>6 DEF EventsInv, EventsTypeOK

LEMMA ChanOfLog ==
  /\ \A s \in LogSubs : s \in Subs /\ s \in Chans /\ ChanOf(s) = s
  /\ \A s \in Subs : ChanOf(s) \in Chans
  /\ \A s \in HeadSubs : ChanOf(s) \notin LogSubs
BY SubsAssumption DEF Subs, Chans, ChanOf

\* The goroutines begin, and the broker takes up an event.
LEMMA BeginKeepsEvents ==
  ASSUME EventsInv, Publish \/ \E s \in Subs : Subscribe(s) \/ Register(s) \/ Unsubscribe(s)
  PROVE  EventsInv'
<1> USE DEF EventsInv, EventsTypeOK
<1>1. UNCHANGED <<chan, owed, notified>>
  BY DEF Publish, Subscribe, Register, Unsubscribe
<1>2. EventsTypeOK'
  <2>1. CASE Publish
    BY <2>1 DEF Publish
  <2>2. CASE \E s \in Subs : Subscribe(s) \/ Register(s) \/ Unsubscribe(s)
    BY <2>2 DEF Subscribe, Register, Unsubscribe, Move
  <2> QED BY <2>1, <2>2
<1>3. \A s \in LogSubs : /\ sub'[s] \in {"none", "starting"} => sub[s] \in {"none", "starting"}
                         /\ sub'[s] = "live" => sub[s] \in {"starting", "live"}
  BY ChanOfLog DEF Publish, Subscribe, Register, Unsubscribe, Move
<1>4. NothingYet'
  BY <1>1, <1>3 DEF NothingYet
<1>5. LogSubscribersGetAll'
  <2> SUFFICES ASSUME NEW s \in LogSubs, sub'[s] = "live"
               PROVE  notified'[s] \o chan'[s] = owed'[s]
    BY ChanOfLog DEF LogSubscribersGetAll, Gets
  <2>1. CASE sub[s] = "live"
    BY <1>1, <2>1, ChanOfLog DEF LogSubscribersGetAll, Gets
  <2>2. CASE sub[s] = "starting"
    <3>1. chan[s] = <<>> /\ owed[s] = <<>> /\ notified[s] = <<>>
      BY <2>2 DEF NothingYet
    <3>2. <<>> \o <<>> = <<>>
      BY ConcatEmptySeq
    <3> QED BY <1>1, <3>1, <3>2
  <2> QED BY <1>3, <2>1, <2>2
<1> QED BY <1>2, <1>4, <1>5

LEMMA BrokerSendsKeeps == ASSUME EventsInv, NEW s \in Subs, BrokerSends(s) PROVE EventsInv'
<1> USE DEF EventsInv, EventsTypeOK
<1>1. /\ sub[s] = "live" /\ sendTo' = sendTo \ {s} /\ UNCHANGED <<sub, published, notified>>
      /\ \/ UNCHANGED <<chan, owed>>
         \/ /\ chan' = [chan EXCEPT ![ChanOf(s)] = Append(@, published)]
            /\ owed' = [owed EXCEPT ![s] = Append(@, published)]
  BY DEF BrokerSends
<1>2. CASE UNCHANGED <<chan, owed>>
  BY <1>1, <1>2 DEF NothingYet, LogSubscribersGetAll, Gets
<1>3. CASE /\ chan' = [chan EXCEPT ![ChanOf(s)] = Append(@, published)]
           /\ owed' = [owed EXCEPT ![s] = Append(@, published)]
  <2>1. ChanOf(s) \in Chans /\ chan[ChanOf(s)] \in Seq(Nat) /\ owed[s] \in Seq(Nat)
    BY ChanOfLog
  <2>2. EventsTypeOK'
    BY <1>1, <1>3, <2>1
  <2>3. \A l \in LogSubs \ {s} : chan'[l] = chan[l] /\ owed'[l] = owed[l]
    BY <1>3, ChanOfLog DEF Subs
  <2>4. NothingYet'
    BY <1>1, <2>3 DEF NothingYet
  <2>5. ASSUME s \in LogSubs PROVE notified'[s] \o chan'[s] = owed'[s]
    <3>1. notified[s] \o chan[s] = owed[s] /\ ChanOf(s) = s
      BY <1>1, <2>5, ChanOfLog DEF LogSubscribersGetAll, Gets
    <3>2. chan'[s] = Append(chan[s], published) /\ owed'[s] = Append(owed[s], published)
      BY <1>3, <2>5, <3>1, ChanOfLog
    <3>3. chan[s] \in Seq(Nat) /\ notified[s] \in Seq(Nat) /\ published \in Nat
      BY <2>1, <3>1
    <3>4. notified[s] \o Append(chan[s], published) = Append(notified[s] \o chan[s], published)
      <4> HIDE DEF EventsInv, EventsTypeOK
      <4> QED BY <3>3, AppendBehind
    <3> QED BY <1>1, <3>1, <3>2, <3>4
  <2>6. LogSubscribersGetAll'
    <3> SUFFICES ASSUME NEW l \in LogSubs, sub'[l] = "live"
                 PROVE  notified'[l] \o chan'[l] = owed'[l]
      BY ChanOfLog DEF LogSubscribersGetAll, Gets
    <3>1. CASE l = s
      BY <2>5, <3>1
    <3>2. CASE l # s
      <4>1. chan'[l] = chan[l] /\ owed'[l] = owed[l] /\ notified'[l] = notified[l]
        BY <1>1, <2>3, <3>2
      <4>2. notified[l] \o chan[l] = owed[l]
        BY <1>1, ChanOfLog DEF LogSubscribersGetAll, Gets
      <4> QED BY <4>1, <4>2
    <3> QED BY <3>1, <3>2
  <2> QED BY <2>2, <2>4, <2>6
<1> QED BY <1>1, <1>2, <1>3

LEMMA NotifyKeeps == ASSUME EventsInv, NEW s \in Subs, Notify(s) PROVE EventsInv'
<1> USE DEF EventsInv, EventsTypeOK
<1>1. /\ sub[s] = "live" /\ chan[ChanOf(s)] # <<>> /\ UNCHANGED <<sub, published, sendTo, owed>>
      /\ notified' = [notified EXCEPT ![s] = Append(@, Head(chan[ChanOf(s)]))]
      /\ chan' = [chan EXCEPT ![ChanOf(s)] = Tail(@)]
  BY DEF Notify
<1>2. /\ ChanOf(s) \in Chans /\ chan[ChanOf(s)] \in Seq(Nat) /\ notified[s] \in Seq(Nat)
      /\ Head(chan[ChanOf(s)]) \in Nat /\ Tail(chan[ChanOf(s)]) \in Seq(Nat)
  BY <1>1, ChanOfLog, HeadTailProperties
<1>3. EventsTypeOK'
  BY <1>1, <1>2
<1>4. \A l \in LogSubs \ {s} : chan'[l] = chan[l] /\ notified'[l] = notified[l]
  BY <1>1, ChanOfLog DEF Subs
<1>5. NothingYet'
  BY <1>1, <1>4 DEF NothingYet
<1>6. ASSUME s \in LogSubs PROVE notified'[s] \o chan'[s] = owed'[s]
  <2>1. notified[s] \o chan[s] = owed[s] /\ ChanOf(s) = s
    BY <1>1, <1>6, ChanOfLog DEF LogSubscribersGetAll, Gets
  <2>2. notified'[s] = Append(notified[s], Head(chan[s])) /\ chan'[s] = Tail(chan[s])
    BY <1>1, <1>6, <2>1, ChanOfLog
  <2>3. chan[s] \in Seq(Nat) /\ notified[s] \in Seq(Nat) /\ chan[s] # <<>>
    BY <1>1, <1>2, <2>1
  <2>4. Append(notified[s], Head(chan[s])) \o Tail(chan[s]) = notified[s] \o chan[s]
    BY <2>3, ForwardHead
  <2> QED BY <1>1, <2>1, <2>2, <2>4
<1>7. LogSubscribersGetAll'
  BY <1>1, <1>4, <1>6, ChanOfLog DEF LogSubscribersGetAll, Gets
<1> QED BY <1>3, <1>5, <1>7

\* "Logs send a notification each time logs included in new imported block"
\* (eventsEth.go:62): what the broker sends a log subscription is what its client
\* is notified of, followed by what waits in its channel.
THEOREM LogsAreDelivered == EventsSpec => []LogSubscribersGetAll
<1>1. EventsInv /\ [EventsNext]_eventsVars => EventsInv'
  <2>1. ASSUME EventsInv, UNCHANGED eventsVars PROVE EventsInv'
    BY <2>1 DEF eventsVars, EventsInv, EventsTypeOK, NothingYet, LogSubscribersGetAll, Gets
  <2> QED BY <2>1, BeginKeepsEvents, BrokerSendsKeeps, NotifyKeeps DEF EventsNext, EventsEnd
<1>2. EventsInv => LogSubscribersGetAll
  BY DEF EventsInv
<1> QED BY <1>1, <1>2, EventsInitially, PTL DEF EventsSpec

-----------------------------------------------------------------------------
(***************************************************************************)
(* The client filter, for every set of requests, every configuration and   *)
(* every assignment of clients to entries.  The invariant has to say of a  *)
(* handler under way that, unless setConfig() ran beside it, what it has   *)
(* read so far is still what the filter object holds (StillCurrent).       *)
(***************************************************************************)

\* What setConfig() has still to append comes from the configuration.
RestOfConfig == /\ rest \in Seq(EntriesOf(config))
                /\ setAt \in {"policy", "list"} => rest = <<>>

StillCurrent ==
  \A q \in Asks : at[q] \in {"policy", "walk"} =>
    /\ ClientOf[q] # NoClient
    /\ q \notin disturbed => /\ setAt = "idle" /\ list # {}
                             /\ at[q] = "walk" => mode[q] = policy

FilterInv == FilterTypeOK /\ RestOfConfig /\ StillCurrent

\* No entry is left when none is to be appended.
LEMMA ParsableOfNone == Parsable(<<>>) = {}
BY DEF Parsable

\* Parsable takes the entries of a sequence one by one.
LEMMA ParsableStep ==
  ASSUME NEW S, NEW es \in Seq(S), es # <<>>
  PROVE  Parsable(es) = ({Head(es)} \cap DOMAIN NetOf) \cup Parsable(Tail(es))
<1>1. \A e \in {es[i] : i \in DOMAIN es} :
        e = Head(es) \/ e \in {Tail(es)[i] : i \in DOMAIN Tail(es)}
  <2> SUFFICES ASSUME NEW i \in DOMAIN es
               PROVE  es[i] = Head(es) \/ \E j \in DOMAIN Tail(es) : Tail(es)[j] = es[i]
    OBVIOUS
  <2>1. CASE i = 1
    BY <2>1
  <2>2. CASE i # 1
    <3>1. i - 1 \in DOMAIN Tail(es) /\ Tail(es)[i - 1] = es[i]
      BY <2>2
    <3> QED BY <3>1
  <2> QED BY <2>1, <2>2
<1>2. Head(es) \in {es[i] : i \in DOMAIN es}
  <2>1. 1 \in DOMAIN es /\ Head(es) = es[1]
    OBVIOUS
  <2> QED BY <2>1
<1>3. \A e \in {Tail(es)[i] : i \in DOMAIN Tail(es)} : e \in {es[i] : i \in DOMAIN es}
  <2> SUFFICES ASSUME NEW j \in DOMAIN Tail(es)
               PROVE  \E i \in DOMAIN es : es[i] = Tail(es)[j]
    OBVIOUS
  <2>1. j + 1 \in DOMAIN es /\ es[j + 1] = Tail(es)[j]
    OBVIOUS
  <2> QED BY <2>1
<1> QED BY <1>1, <1>2, <1>3 DEF Parsable

LEMMA FilterInitially == FilterInit => FilterInv
<1> SUFFICES ASSUME FilterInit PROVE FilterInv
  OBVIOUS
<1>1. rest \in Seq(EntriesOf(config))
  BY DEF FilterInit
<1> QED BY <1>1, ParsableOfNone
    DEF FilterInit, FilterInv, FilterTypeOK, RestOfConfig, StillCurrent, PolicyOf

\* setConfig() puts every request under way among the disturbed ones.
LEMMA SetConfigKeeps ==
  ASSUME FilterInv,
         \/ \E c \in Configs : Reload(c)
         \/ SetPolicy \/ EmptyList \/ AppendNet \/ SetDone
  PROVE  FilterInv'
<1> USE DEF FilterInv, FilterTypeOK, RestOfConfig
<1>1. StillCurrent'
  <2>1. ASSUME Disturb PROVE StillCurrent'
    <3>1. \A q \in Asks : at'[q] \in {"policy", "walk"} => q \in disturbed'
      BY <2>1 DEF Disturb, InFlight
    <3> QED BY <2>1, <3>1 DEF Disturb, StillCurrent
  <2>2. CASE SetDone
    BY <2>2 DEF SetDone, StillCurrent
  <2> QED BY <2>1, <2>2 DEF Reload, SetPolicy, EmptyList, AppendNet
<1>2. CASE \E c \in Configs : Reload(c)
  <2>1. rest' = <<>> /\ rest' \in Seq(EntriesOf(config'))
    BY <1>2 DEF Reload
  <2> QED BY <1>1, <1>2, <2>1 DEF Reload, Disturb, InFlight
<1>3. CASE SetPolicy
  BY <1>1, <1>3 DEF SetPolicy, Disturb, InFlight, PolicyOf, EntriesOf
<1>4. CASE EmptyList
  BY <1>1, <1>4, ConfigsAssumption DEF EmptyList, Disturb, InFlight
<1>5. CASE AppendNet
  <2>1. /\ Parsable(rest) = ({Head(rest)} \cap DOMAIN NetOf) \cup Parsable(Tail(rest))
        /\ Tail(rest) \in Seq(EntriesOf(config))
    BY <1>5, ParsableStep DEF AppendNet
  <2>2. list' \cup Parsable(rest') = Parsable(config'.entries)
    BY <1>5, <2>1 DEF AppendNet
  <2> QED BY <1>1, <1>5, <2>1, <2>2 DEF AppendNet, Disturb, InFlight
<1>6. CASE SetDone
  BY <1>1, <1>6 DEF SetDone
<1> QED BY <1>2, <1>3, <1>4, <1>5, <1>6

LEMMA AskKeepsFilter ==
  ASSUME FilterInv, NEW q \in Asks, AskSize(q) \/ AskPolicy(q) \/ AskWalk(q)
  PROVE  FilterInv'
<1> USE DEF FilterInv, FilterTypeOK, RestOfConfig, StillCurrent, confVars
<1>1. CASE AskSize(q)
  BY <1>1 DEF AskSize
<1>2. CASE AskPolicy(q)
  BY <1>2 DEF AskPolicy
<1>3. CASE AskWalk(q)
  BY <1>3 DEF AskWalk
<1> QED BY <1>1, <1>2, <1>3

LEMMA FilterKeeps == FilterInv /\ [FilterNext]_filterVars => FilterInv'
<1> SUFFICES ASSUME FilterInv, [FilterNext]_filterVars PROVE FilterInv'
  OBVIOUS
<1>1. CASE UNCHANGED filterVars
  BY <1>1 DEF filterVars, confVars, FilterInv, FilterTypeOK, RestOfConfig, StillCurrent
<1> QED BY <1>1, SetConfigKeeps, AskKeepsFilter DEF FilterNext, FilterEnd

\* Whenever setConfig() is not running the filter object holds the
\* configuration loaded last, however often it was reloaded.
THEOREM FilterIsTheConfig == FilterSpec => []FilterTypeOK
<1>1. FilterInit => FilterInv
  BY FilterInitially
<1>2. FilterInv /\ [FilterNext]_filterVars => FilterInv'
  BY FilterKeeps
<1>3. FilterInv => FilterTypeOK
  BY DEF FilterInv
<1> QED BY <1>1, <1>2, <1>3, PTL DEF FilterSpec

\* With setConfig() at rest, the walk asks what Admitted asks.
LEMMA WalkIsAdmission ==
  ASSUME FilterInv, setAt = "idle", NEW client
  PROVE  /\ list = {} => Admitted(config, client)
         /\ list # {} => (Admitted(config, client) <=>
                          client # NoClient /\ (Contains(list, client) <=> policy = "allow"))
<1>1. list = Parsable(config.entries) /\ policy = PolicyOf(config)
  BY ParsableOfNone DEF FilterInv, FilterTypeOK
<1>2. list = {} <=> \A i \in DOMAIN config.entries : config.entries[i] \notin DOMAIN NetOf
  BY <1>1 DEF Parsable
<1>3. Contains(list, client) <=> \E i \in DOMAIN config.entries :
                                   /\ config.entries[i] \in DOMAIN NetOf
                                   /\ client \in NetOf[config.entries[i]]
  BY <1>1 DEF Parsable, Contains
<1>4. policy = "allow" <=> config.policy = "allow"
  BY <1>1 DEF PolicyOf
<1> QED BY <1>2, <1>3, <1>4 DEF Admitted

LEMMA VerdictOfAsk ==
  ASSUME FilterInv, NEW q \in Asks, AskSize(q) \/ AskPolicy(q) \/ AskWalk(q),
         at'[q] \in {"passed", "refused"}, q \notin disturbed'
  PROVE  at'[q] = "passed" <=> Admitted(config, ClientOf[q])
<1> USE DEF FilterInv, FilterTypeOK
<1>1. CASE AskSize(q)
  <2>1. setAt = "idle"
    BY <1>1 DEF AskSize
  <2> QED BY <1>1, <2>1, WalkIsAdmission DEF AskSize
<1>2. CASE AskWalk(q)
  <2>1. /\ setAt = "idle" /\ list # {} /\ mode[q] = policy /\ ClientOf[q] # NoClient
    BY <1>2 DEF AskWalk, StillCurrent, confVars
  <2> QED BY <1>2, <2>1, WalkIsAdmission DEF AskWalk
<1>3. CASE AskPolicy(q)
  BY <1>3 DEF AskPolicy
<1> QED BY <1>1, <1>2, <1>3

\* A request that no reload ran beside is judged by the configuration loaded
\* last.
THEOREM JudgedByTheLastConfig == FilterSpec => JudgedByLastConfig
<1> DEFINE Judged ==
      \A q \in Asks :
        /\ at[q] \in {"new", "policy", "walk"} /\ at'[q] \in {"passed", "refused"}
        /\ q \notin disturbed'
        => (at'[q] = "passed" <=> Admitted(config, ClientOf[q]))
<1>1. FilterInit => FilterInv
  BY FilterInitially
<1>2. FilterInv /\ [FilterNext]_filterVars => FilterInv'
  BY FilterKeeps
<1>3. FilterInv /\ [FilterNext]_filterVars => [Judged]_filterVars
  <2> SUFFICES ASSUME FilterInv, FilterNext, NEW q \in Asks,
                      at[q] \in {"new", "policy", "walk"},
                      at'[q] \in {"passed", "refused"}, q \notin disturbed'
               PROVE  at'[q] = "passed" <=> Admitted(config, ClientOf[q])
    OBVIOUS
  <2>1. at'[q] # at[q]
    OBVIOUS
  <2>2. AskSize(q) \/ AskPolicy(q) \/ AskWalk(q)
    BY <2>1 DEF FilterNext, Reload, SetPolicy, EmptyList, AppendNet, SetDone, Disturb,
                AskSize, AskPolicy, AskWalk, FilterEnd, filterVars, FilterInv, FilterTypeOK
  <2> QED BY <2>2, VerdictOfAsk
<1> QED BY <1>1, <1>2, <1>3, PTL DEF FilterSpec, JudgedByLastConfig

-----------------------------------------------------------------------------
(***************************************************************************)
(* A zero is never the answer for a block in which Aurora existed.  The    *)
(* invariant follows the height shouldUseArchival has read until the node  *)
(* answers: the regular node is only asked for a block that is less than   *)
(* Epoch below that height, and the chain is at most MaxLag ahead of it.   *)
(***************************************************************************)

Steps == {"new", "resolve", "choose", "ask", "done"}

ReadsTypeOK ==
  /\ chainHead \in Nat /\ dbHeight \in Nat \cup {NoHeight}
  /\ step \in [Queries -> Steps] /\ method \in [Queries -> Methods \cup {"none"}]
  /\ block \in [Queries -> Nat \cup {Latest}]
  /\ height \in [Queries -> Nat \cup {NoHeight}]
  /\ node \in [Queries -> {"none", "regular", "archival"}]
  /\ answer \in [Queries -> {"none", "remote", "error", "panic", "value", "zero",
                             "tooManyRequests"}]
  /\ headThen \in [Queries -> Nat]

\* The database is at most MaxLag behind.
DbIsClose == dbHeight # NoHeight => chainHead - dbHeight <= MaxLag

\* The node chosen still has the block, whatever the chain did meanwhile.
NodeFits == \A q \in Queries :
  step[q] = "ask" /\ block[q] # Latest /\ node[q] = "regular" =>
    /\ height[q] # NoHeight
    /\ block[q] > height[q] - Epoch
    /\ chainHead - height[q] <= MaxLag

AnsweredIsDone == \A q \in Queries : answer[q] = "zero" => step[q] = "done"

ReadsInv == ReadsTypeOK /\ DbIsClose /\ NodeFits /\ AnsweredIsDone /\ ZeroOnlyBeforeAurora

USE DEF NoHeight, Latest

LEMMA ReadsInitially == ReadsInit => ReadsInv
  BY HeightsAssumption
  DEF ReadsInit, ReadsInv, ReadsTypeOK, DbIsClose, NodeFits, AnsweredIsDone,
      ZeroOnlyBeforeAurora, Steps

LEMMA RelayKeeps == ASSUME ReadsInv, NEW q \in Queries, Relay(q) PROVE ReadsInv'
<1> USE DEF heightVars
<1>1. PICK m \in Methods : 
        /\ step[q] = "new"
        /\ method' = [method EXCEPT ![q] = m]
        /\ IF m \in Proxied
           THEN \E a \in {"remote", "error"} : Conclude(q, a)
           ELSE /\ step' = [step EXCEPT ![q] = "resolve"]
                /\ UNCHANGED answer
        /\ UNCHANGED <<heightVars, block, height, node, headThen>>
  BY DEF Relay
<1>2. PICK a \in {"remote", "error"} : 
        \/ Conclude(q, a)
        \/ step' = [step EXCEPT ![q] = "resolve"] /\ UNCHANGED answer
  BY <1>1
<1>3. ReadsTypeOK'
  BY <1>1, <1>2 DEF ReadsInv, ReadsTypeOK, Conclude, Steps
<1>4. /\ \A p \in Queries \ {q} : step'[p] = step[p] /\ answer'[p] = answer[p]
      /\ step'[q] # "ask" /\ answer'[q] # "zero"
  BY <1>1, <1>2 DEF ReadsInv, ReadsTypeOK, Conclude, AnsweredIsDone
<1>5. DbIsClose' /\ NodeFits' /\ AnsweredIsDone' /\ ZeroOnlyBeforeAurora'
  BY <1>1, <1>4
  DEF ReadsInv, ReadsTypeOK, DbIsClose, NodeFits, AnsweredIsDone, ZeroOnlyBeforeAurora
<1> QED BY <1>3, <1>5 DEF ReadsInv

LEMMA ResolveKeeps == ASSUME ReadsInv, NEW q \in Queries, Resolve(q) PROVE ReadsInv'
<1> USE DEF heightVars
<1>1. \/ /\ \E n \in Nat \cup {Latest} : block' = [block EXCEPT ![q] = n]
         /\ step' = [step EXCEPT ![q] = "choose"] /\ UNCHANGED answer
      \/ Conclude(q, "error") /\ UNCHANGED block
  BY HeightsAssumption DEF Resolve
<1>2. ReadsTypeOK'
  BY <1>1 DEF Resolve, ReadsInv, ReadsTypeOK, Conclude, Steps
<1>3. /\ \A p \in Queries \ {q} :
           step'[p] = step[p] /\ answer'[p] = answer[p] /\ block'[p] = block[p]
      /\ step'[q] # "ask" /\ answer'[q] # "zero"
  BY <1>1 DEF Resolve, ReadsInv, ReadsTypeOK, Conclude, AnsweredIsDone
<1>4. DbIsClose' /\ NodeFits' /\ AnsweredIsDone' /\ ZeroOnlyBeforeAurora'
  BY <1>3
  DEF Resolve, ReadsInv, ReadsTypeOK, DbIsClose, NodeFits, AnsweredIsDone,
      ZeroOnlyBeforeAurora
<1> QED BY <1>2, <1>4 DEF ReadsInv

\* The choice of the node: block[q] is compared with the height read now.
LEMMA ChooseNodeKeeps == ASSUME ReadsInv, NEW q \in Queries, ChooseNode(q) PROVE ReadsInv'
<1> USE DEF heightVars
<1>1. ReadsTypeOK'
  BY HeightsAssumption DEF ChooseNode, ReadsInv, ReadsTypeOK, Conclude, Steps
<1>2. UNCHANGED <<chainHead, dbHeight, method, block, headThen>>
  BY DEF ChooseNode
<1>3. /\ \A p \in Queries \ {q} : /\ step'[p] = step[p] /\ answer'[p] = answer[p]
                                  /\ height'[p] = height[p] /\ node'[p] = node[p]
      /\ answer'[q] # "zero"
  BY DEF ChooseNode, ReadsInv, ReadsTypeOK, Conclude, AnsweredIsDone
<1>4. ASSUME step'[q] = "ask", block'[q] # Latest, node'[q] = "regular"
      PROVE  /\ height'[q] # NoHeight
             /\ block'[q] > height'[q] - Epoch
             /\ chainHead' - height'[q] <= MaxLag
  <2>1. /\ dbHeight # NoHeight /\ height'[q] = dbHeight
        /\ ~UseArchival(block[q], dbHeight)
    BY <1>2, <1>4 DEF ChooseNode, ReadsInv, ReadsTypeOK, Conclude
  <2>2. block[q] > dbHeight - Epoch
    BY <1>2, <1>4, <2>1, HeightsAssumption DEF UseArchival, ReadsInv, ReadsTypeOK
  <2> QED BY <1>2, <2>1, <2>2 DEF ReadsInv, DbIsClose
<1>5. DbIsClose' /\ NodeFits' /\ AnsweredIsDone' /\ ZeroOnlyBeforeAurora'
  BY <1>2, <1>3, <1>4
  DEF ReadsInv, DbIsClose, NodeFits, AnsweredIsDone, ZeroOnlyBeforeAurora
<1> QED BY <1>1, <1>5 DEF ReadsInv

\* The node asked has the block, so that an error of it means what the code
\* takes it to mean.
LEMMA AskKeeps == ASSUME ReadsInv, NEW q \in Queries, Ask(q) PROVE ReadsInv'
<1> USE DEF heightVars
<1>1. PICK says \in {NodeSays(q), "429", "other"} : Conclude(q, AnswerTo(method[q], says))
  BY DEF Ask
<1>2. AnswerTo(method[q], says) \in {"value", "zero", "tooManyRequests", "error"}
  BY DEF AnswerTo
<1>3. ReadsTypeOK'
  BY <1>1, <1>2 DEF Ask, ReadsInv, ReadsTypeOK, Conclude, Steps
<1>4. \A p \in Queries \ {q} : /\ step'[p] = step[p] /\ answer'[p] = answer[p]
                               /\ headThen'[p] = headThen[p]
  BY <1>1 DEF Ask, ReadsInv, ReadsTypeOK, Conclude
<1>5. step'[q] = "done" /\ headThen'[q] = chainHead /\ UNCHANGED block
  BY <1>1 DEF Ask, ReadsInv, ReadsTypeOK, Conclude
<1>6. ASSUME answer'[q] = "zero"
      PROVE  Asked(q) < AuroraFrom \/ Asked(q) > chainHead
  <2>1. answer'[q] = AnswerTo(method[q], says)
    BY <1>1 DEF ReadsInv, ReadsTypeOK, Conclude
  <2>2. says \in {"DB Not Found Error", "does not exist while viewing"}
    BY <1>6, <2>1 DEF AnswerTo
  <2>3. says = NodeSays(q)
    BY <1>1, <2>2
  <2>4. CASE node[q] # "regular"
    BY <2>2, <2>3, <2>4 DEF NodeSays
  <2>5. CASE node[q] = "regular"
    <3>1. Asked(q) > chainHead - Kept
      BY <2>5, HeightsAssumption, KeptAssumption
      DEF Ask, ReadsInv, ReadsTypeOK, NodeFits, Asked
    <3>2. Asked(q) \in Nat /\ chainHead \in Nat /\ Kept \in Nat
      BY HeightsAssumption DEF ReadsInv, ReadsTypeOK, Asked
    <3>3. ~(Asked(q) <= chainHead - Kept)
      BY <3>1, <3>2
    <3>4. CASE Asked(q) > chainHead
      BY <3>4
    <3>5. CASE ~(Asked(q) > chainHead)
      BY <2>2, <2>3, <3>3, <3>5 DEF NodeSays
    <3> QED BY <3>4, <3>5
  <2> QED BY <2>4, <2>5
<1>7. ZeroOnlyBeforeAurora'
  BY <1>4, <1>5, <1>6 DEF ReadsInv, ZeroOnlyBeforeAurora, Asked
<1>8. DbIsClose' /\ NodeFits' /\ AnsweredIsDone'
  BY <1>4, <1>5 DEF Ask, ReadsInv, DbIsClose, NodeFits, AnsweredIsDone
<1> QED BY <1>3, <1>7, <1>8 DEF ReadsInv

\* Neither the chain nor the database can outrun a query.
LEMMA HeightsKeep == ASSUME ReadsInv, ChainGrows \/ DbFollows PROVE ReadsInv'
<1>1. UNCHANGED <<step, method, block, height, node, answer, headThen>>
  BY DEF ChainGrows, DbFollows
<1>2. ReadsTypeOK' /\ DbIsClose'
  BY <1>1, HeightsAssumption DEF ChainGrows, DbFollows, ReadsInv, ReadsTypeOK, DbIsClose
<1>3. NodeFits'
  BY <1>1, HeightsAssumption DEF ChainGrows, DbFollows, ReadsInv, ReadsTypeOK, NodeFits
<1>4. AnsweredIsDone' /\ ZeroOnlyBeforeAurora'
  BY <1>1 DEF ReadsInv, AnsweredIsDone, ZeroOnlyBeforeAurora
<1> QED BY <1>2, <1>3, <1>4 DEF ReadsInv

\* "Return 0x0 for the blocks before Aurora account or before Genesis"
\* (account.go:117), for every chain and every number of queries, provided the
\* regular node keeps Epoch + MaxLag blocks.
THEOREM NoFalseZero == ReadsSpec => []ZeroOnlyBeforeAurora
<1>1. ReadsInit => ReadsInv
  BY ReadsInitially
<1>2. ReadsInv /\ [ReadsNext]_readsVars => ReadsInv'
  <2>1. ASSUME ReadsInv, UNCHANGED readsVars PROVE ReadsInv'
    BY <2>1 DEF readsVars, heightVars, ReadsInv, ReadsTypeOK, DbIsClose, NodeFits,
                AnsweredIsDone, ZeroOnlyBeforeAurora
  <2> QED BY <2>1, RelayKeeps, ResolveKeeps, ChooseNodeKeeps, AskKeeps, HeightsKeep
          DEF ReadsNext, ReadsEnd
<1>3. ReadsInv => ZeroOnlyBeforeAurora
  BY DEF ReadsInv
<1> QED BY <1>1, <1>2, <1>3, PTL DEF ReadsSpec
=============================================================================
