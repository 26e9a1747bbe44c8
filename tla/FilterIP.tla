------------------------------ MODULE FilterIP ------------------------------
(***************************************************************************)
(* The client filter of middleware/filterIP.go: one filter object that all *)
(* request handlers read and that setConfig(), run by the watcher of the   *)
(* configuration file, rewrites field by field.  Nothing synchronises the  *)
(* two; each read or write of a field is a step.  What a handler ranges    *)
(* over is the slice it found when it began, as in Go.  The list is        *)
(* modelled as the set of the entries in it: a walk asks only whether one  *)
(* of them contains the client, and setConfig() only empties or extends it.*)
(***************************************************************************)
EXTENDS Integers, Sequences

CONSTANTS
  Asks,      \* the requests to be judged
  ClientOf,  \* ClientOf[q]: the client of the request, or NoClient
  NoClient,  \* the context carries no client address
  Configs,   \* the configurations the file may hold: a policy and entries
  NetOf      \* NetOf[e]: the clients entry e contains, if it can be parsed

EntriesOf(c) == {c.entries[i] : i \in DOMAIN c.entries}

ASSUME ConfigsAssumption == \A c \in Configs : c.entries \in Seq(EntriesOf(c))

VARIABLES
  config,    \* the configuration viper has read last
  policy,    \* filter.policy
  list,      \* filter.list
  setAt,     \* where setConfig() is, or "idle"
  rest,      \* the entries it has still to append
  at,        \* at[q]: where the handler of the request is, or its verdict
  mode,      \* mode[q]: the policy it found
  disturbed  \* the requests that setConfig() ran beside (history)
confVars == <<config, policy, list, setAt, rest>>
filterVars == <<confVars, at, mode, disturbed>>

\* Mutant of PolicyOf: an unknown policy is kept as it is.
PolicyOfAny(c) == IF c.policy = "deny" THEN "deny" ELSE "allow"

PolicyOf(c) == IF c.policy = "allow" THEN "allow" ELSE "deny"
Parsable(es) == {es[i] : i \in DOMAIN es} \cap DOMAIN NetOf

\* FilterIP() runs setConfig() itself before it returns the middleware.
FilterInit == /\ config \in Configs
              /\ policy = PolicyOf(config) /\ list = Parsable(config.entries)
              /\ setAt = "idle" /\ rest = <<>>
              /\ at = [q \in Asks |-> "new"] /\ mode = [q \in Asks |-> "none"]
              /\ disturbed = {}

-----------------------------------------------------------------------------
(* setConfig(), on every change of the file.                               *)

InFlight == {q \in Asks : at[q] \in {"policy", "walk"}}
Disturb == /\ disturbed' = disturbed \cup InFlight
           /\ UNCHANGED <<at, mode>>

Reload(c) == /\ setAt = "idle"
             /\ config' = c
             /\ setAt' = "policy"
             /\ UNCHANGED <<policy, list, rest>>
             /\ Disturb

SetPolicy == /\ setAt = "policy"
             /\ policy' = PolicyOf(config)
             /\ setAt' = "list"
             /\ UNCHANGED <<config, list, rest>>
             /\ Disturb

\* Mutant of EmptyList: the new entries are appended to the old ones.
KeepList == /\ setAt = "list"
            /\ rest' = config.entries
            /\ setAt' = "append"
            /\ UNCHANGED <<config, policy, list>>
            /\ Disturb

EmptyList == /\ setAt = "list"
             /\ list' = {} /\ rest' = config.entries
             /\ setAt' = "append"
             /\ UNCHANGED <<config, policy>>
             /\ Disturb

AppendNet == /\ setAt = "append" /\ rest # <<>>
             /\ list' = list \cup ({Head(rest)} \cap DOMAIN NetOf)
             /\ rest' = Tail(rest)
             /\ UNCHANGED <<config, policy, setAt>>
             /\ Disturb

SetDone == /\ setAt = "append" /\ rest = <<>>
           /\ setAt' = "idle"
           /\ UNCHANGED <<config, policy, list, rest, at, mode, disturbed>>

-----------------------------------------------------------------------------
(* The handler of a request.                                               *)

AskSize(q) == /\ at[q] = "new"
              /\ at' = [at EXCEPT ![q] = IF list = {} THEN "passed"
                                         ELSE IF ClientOf[q] = NoClient THEN "refused"
                                         ELSE "policy"]
              /\ disturbed' = IF setAt = "idle" THEN disturbed ELSE disturbed \cup {q}
              /\ UNCHANGED <<confVars, mode>>

AskPolicy(q) == /\ at[q] = "policy"
                /\ mode' = [mode EXCEPT ![q] = policy]
                /\ at' = [at EXCEPT ![q] = "walk"]
                /\ UNCHANGED <<confVars, disturbed>>

Contains(nets, client) == \E e \in nets : client \in NetOf[e]

AskWalk(q) ==
  /\ at[q] = "walk"
  /\ at' = [at EXCEPT ![q] = IF Contains(list, ClientOf[q]) <=> (mode[q] = "allow")
                             THEN "passed" ELSE "refused"]
  /\ UNCHANGED <<confVars, mode, disturbed>>

FilterEnd == /\ setAt = "idle" /\ \A q \in Asks : at[q] \in {"passed", "refused"}
             /\ UNCHANGED filterVars

FilterNext == \/ \E c \in Configs : Reload(c)
              \/ SetPolicy \/ EmptyList \/ AppendNet \/ SetDone
              \/ \E q \in Asks : AskSize(q) \/ AskPolicy(q) \/ AskWalk(q)
              \/ FilterEnd

FilterSpec == FilterInit /\ [][FilterNext]_filterVars

-----------------------------------------------------------------------------
\* The verdict the configuration asks for: with no usable entry everybody
\* passes; otherwise "allow" admits the clients listed, anything else the others.
Admitted(c, client) ==
  LET listed == \E i \in DOMAIN c.entries :
                  /\ c.entries[i] \in DOMAIN NetOf
                  /\ client \in NetOf[c.entries[i]]
  IN  \/ \A i \in DOMAIN c.entries : c.entries[i] \notin DOMAIN NetOf
      \/ client # NoClient /\ (listed <=> c.policy = "allow")

\* Between two reloads a request is judged by the configuration loaded last,
\* however many reloads there were before: nothing of an older one is left.
\* (The property is about the step in which the handler decides, since the
\* configuration may change afterwards.)
JudgedByLastConfig ==
  [][\A q \in Asks :
       /\ at[q] \in {"new", "policy", "walk"} /\ at'[q] \in {"passed", "refused"}
       /\ q \notin disturbed'
       => (at'[q] = "passed" <=> Admitted(config, ClientOf[q]))]_filterVars

\* The filter object is the configuration whenever setConfig() is not running;
\* while the list is rebuilt, what it holds and what is still to be appended are
\* together the usable entries of the configuration.
FilterTypeOK ==
  /\ config \in Configs /\ policy \in {"allow", "deny"}
  /\ setAt \in {"idle", "policy", "list", "append"}
  /\ setAt \in {"idle", "list", "append"} => policy = PolicyOf(config)
  /\ setAt \in {"idle", "append"} => list \cup Parsable(rest) = Parsable(config.entries)
  /\ setAt = "idle" => rest = <<>>
  /\ at \in [Asks -> {"new", "policy", "walk", "passed", "refused"}]
  /\ mode \in [Asks -> {"none", "allow", "deny"}]
  /\ disturbed \subseteq Asks
=============================================================================
