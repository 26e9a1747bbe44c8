------------------------------ MODULE EventsEth ------------------------------
(***************************************************************************)
(* The event subscriptions of endpoint/eventsEth.go.                       *)
(*                                                                         *)
(* Every subscription is a goroutine that registers a channel with the     *)
(* broker, forwards what it reads from it to its client, and ends when the *)
(* client is gone.  Logs() makes a channel per subscription; NewHeads()    *)
(* uses the one channel of the EventsEth object.  The broker is external:  *)
(* it sends an event to the registered subscriptions one after the other   *)
(* and passes over a channel that is full.  An event is its block.         *)
(***************************************************************************)
EXTENDS Integers, Sequences

CONSTANTS
  HeadSubs,   \* the subscriptions made by NewHeads
  LogSubs,    \* the subscriptions made by Logs
  newHeadsCh, \* the channel all of the former share
  ChSize,     \* NewHeadsChSize and LogsChSize
  MaxEvents   \* bound on the number of events published

Subs == HeadSubs \cup LogSubs
Chans == {newHeadsCh} \cup LogSubs

ASSUME SubsAssumption == newHeadsCh \notin LogSubs /\ HeadSubs \cap LogSubs = {}
ASSUME EventsAssumption == ChSize \in Nat \ {0} /\ MaxEvents \in Nat

VARIABLES
  sub,       \* sub[s]: where the goroutine of the subscription is
  chan,      \* chan[c]: what is buffered in the channel
  published, \* the last event published
  sendTo,    \* the subscriptions it has not been sent to yet
  owed,      \* owed[s]: the events the broker sent to s, in order (history)
  notified   \* notified[s]: the events passed on to its client, in order
eventsVars == <<sub, chan, published, sendTo, owed, notified>>

EventsInit == /\ sub = [s \in Subs |-> "none"]
              /\ chan = [c \in Chans |-> <<>>]
              /\ published = 0 /\ sendTo = {}
              /\ owed = [s \in Subs |-> <<>>] /\ notified = [s \in Subs |-> <<>>]

\* Mutant of ChanOf: Logs uses the shared channel as NewHeads does.
ChanOfObject(s) == newHeadsCh

\* The channel the goroutine of s registers and reads.
ChanOf(s) == IF s \in HeadSubs THEN newHeadsCh ELSE s

Move(s, from, to) == /\ sub[s] = from
                     /\ sub' = [sub EXCEPT ![s] = to]

\* The client gets the subscription's id while the goroutine only starts.
Subscribe(s) == /\ Move(s, "none", "starting")
                /\ UNCHANGED <<chan, published, sendTo, owed, notified>>

\* SubscribeNewHeads and SubscribeLogs.
Register(s) == /\ Move(s, "starting", "live")
               /\ UNCHANGED <<chan, published, sendTo, owed, notified>>

Publish == /\ sendTo = {}
           /\ published < MaxEvents
           /\ published' = published + 1
           /\ sendTo' = {s \in Subs : sub[s] = "live"}
           /\ UNCHANGED <<sub, chan, owed, notified>>

BrokerSends(s) ==
  /\ s \in sendTo
  /\ sendTo' = sendTo \ {s}
  /\ IF Len(chan[ChanOf(s)]) < ChSize
     THEN /\ chan' = [chan EXCEPT ![ChanOf(s)] = Append(@, published)]
          /\ owed' = [owed EXCEPT ![s] = Append(@, published)]
     ELSE UNCHANGED <<chan, owed>>
  /\ UNCHANGED <<sub, published, notified>>

\* Mutant of Notify: the goroutine forwards its oldest event but drops the rest.
NotifyDrops(s) ==
  /\ sub[s] = "live"
  /\ chan[ChanOf(s)] # <<>>
  /\ notified' = [notified EXCEPT ![s] = Append(@, Head(chan[ChanOf(s)]))]
  /\ chan' = [chan EXCEPT ![ChanOf(s)] = <<>>]
  /\ UNCHANGED <<sub, published, sendTo, owed>>

Notify(s) ==
  /\ sub[s] = "live"
  /\ chan[ChanOf(s)] # <<>>
  /\ notified' = [notified EXCEPT ![s] = Append(@, Head(chan[ChanOf(s)]))]
  /\ chan' = [chan EXCEPT ![ChanOf(s)] = Tail(@)]
  /\ UNCHANGED <<sub, published, sendTo, owed>>

\* rpcSub.Err(): the client is gone.  What is left in the channel stays there,
\* in the shared one for whoever reads it next.
Unsubscribe(s) == /\ Move(s, "live", "gone")
                  /\ sendTo' = sendTo \ {s}
                  /\ UNCHANGED <<chan, published, owed, notified>>

EventsEnd == /\ published = MaxEvents /\ sendTo = {}
             /\ \A s \in Subs : sub[s] = "gone"
             /\ UNCHANGED eventsVars

EventsNext == \/ \E s \in Subs : \/ Subscribe(s) \/ Register(s) \/ BrokerSends(s)
                                 \/ Notify(s) \/ Unsubscribe(s)
              \/ Publish
              \/ EventsEnd

EventsSpec == EventsInit /\ [][EventsNext]_eventsVars

\* Goroutines are scheduled; nothing makes a client subscribe or leave.
EventsFairness == \A s \in Subs : /\ WF_eventsVars(Register(s))
                                  /\ WF_eventsVars(BrokerSends(s))
                                  /\ WF_eventsVars(Notify(s))

-----------------------------------------------------------------------------
EventsTypeOK ==
  /\ sub \in [Subs -> {"none", "starting", "live", "gone"}]
  /\ chan \in [Chans -> Seq(Nat)] /\ published \in Nat
  /\ sendTo \subseteq {s \in Subs : sub[s] = "live"}
  /\ owed \in [Subs -> Seq(Nat)] /\ notified \in [Subs -> Seq(Nat)]

\* What its client was notified of and what waits in its channel is, for a live
\* subscription s, all the broker sent to s, once and in order.
Gets(s) == sub[s] = "live" => notified[s] \o chan[ChanOf(s)] = owed[s]

\* "Logs send a notification each time logs included in new imported block":
\* whatever other subscriptions come, go and do.
LogSubscribersGetAll == \A s \in LogSubs : Gets(s)

\* "NewHeads send a notification each time a new block is appended to the chain".
HeadSubscribersGetAll == \A s \in HeadSubs : Gets(s)

\* A live log subscription is notified in the end of all that was sent to it.
LogsArrive == \A s \in LogSubs : \A n \in 1 .. MaxEvents :
                Len(owed[s]) = n ~> Len(notified[s]) >= n \/ sub[s] = "gone"
=============================================================================
