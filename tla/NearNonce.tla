----------------------------- MODULE NearNonce -----------------------------
(***************************************************************************)
(* The Near nonces of one function-call key: nextNearNonce(), which send() *)
(* calls without the mutex, against updateNearNonceCache(), which eval()   *)
(* calls under it after NEAR found a nonce too large.  The two share one   *)
(* cache entry; a load and a store of its nonce are separate steps, and so *)
(* are a view call and the use of its result.  The circuit breaker is      *)
(* disregarded: send() reads it once, and another evaluation may reset it. *)
(***************************************************************************)
EXTENDS Integers

CONSTANTS
  Tries,     \* the attempts that may be made, each with a nonce
  Capacity,  \* qCap, the distance a refresh leaves for attempts in flight
  KeyNonce,  \* the access key's nonce when the process starts
  TooLarge,  \* nonces from here on are too large at first
  MaxNonce   \* bound on that limit, which grows with the chain

ASSUME NearAssumption == {Capacity, KeyNonce, TooLarge, MaxNonce} \subseteq Nat

NoNonce == -1

VARIABLES
  cached,    \* nearNonceCache[key].nonce, or NoNonce without an entry
  cooling,   \* the entry was refreshed less than two seconds ago
  sendsAt,   \* where send() is: "idle", "store" or "return"
  loaded,    \* the nonce it has loaded
  evalAt,    \* where the evaluation with the mutex is: "idle", "view" or "store"
  viewed,    \* the nonce its view call returned
  nonceOf,   \* nonceOf[a]: the nonce of attempt a, or NoNonce
  pending,   \* the attempts NEAR has not judged yet
  keyNonce,  \* the access key's nonce
  limit,     \* the first nonce too large
  rewound    \* some refresh found the entry more than Capacity ahead (history)
nearVars == <<cached, cooling, sendsAt, loaded, evalAt, viewed, nonceOf, pending,
              keyNonce, limit, rewound>>

NearInit == /\ cached = NoNonce /\ cooling = FALSE
            /\ sendsAt = "idle" /\ loaded = NoNonce
            /\ evalAt = "idle" /\ viewed = NoNonce
            /\ nonceOf = [a \in Tries |-> NoNonce] /\ pending = {}
            /\ keyNonce = KeyNonce /\ limit = TooLarge /\ rewound = FALSE

sendVars == <<sendsAt, loaded, nonceOf>>
refreshVars == <<cooling, evalAt, viewed, rewound>>
chainNonces == <<keyNonce, limit>>

-----------------------------------------------------------------------------
(* send(), one worker per key.                                             *)

Launch(n) == \E a \in Tries : /\ nonceOf[a] = NoNonce
                              /\ nonceOf' = [nonceOf EXCEPT ![a] = n]
                              /\ pending' = pending \cup {a}

\* The first send views the nonce (a view that fails ends the attempt).
FirstNonce == /\ sendsAt = "idle" /\ cached = NoNonce
              /\ cached' = keyNonce + 1
              /\ Launch(keyNonce + 1)
              /\ UNCHANGED <<sendsAt, loaded, refreshVars, chainNonces>>

LoadNonce == /\ sendsAt = "idle" /\ cached # NoNonce
             /\ \E a \in Tries : nonceOf[a] = NoNonce
             /\ loaded' = cached /\ sendsAt' = "store"
             /\ UNCHANGED <<cached, refreshVars, nonceOf, pending, chainNonces>>

\* Mutant of Incremented: the nonce is taken as it is.
IncrementedNot(n) == n

Incremented(n) == n + 1

StoreNonce == /\ sendsAt = "store"
              /\ cached' = Incremented(loaded) /\ sendsAt' = "return"
              /\ loaded' = NoNonce
              /\ UNCHANGED <<refreshVars, nonceOf, pending, chainNonces>>

\* The result is loaded once more.
ReturnNonce == /\ sendsAt = "return"
               /\ Launch(cached)
               /\ sendsAt' = "idle"
               /\ UNCHANGED <<cached, loaded, refreshVars, chainNonces>>

-----------------------------------------------------------------------------
(* updateNearNonceCache(), one evaluation at a time.                       *)

\* NEAR finds the nonce of an attempt too large.
FindTooLarge(a) == /\ a \in pending /\ nonceOf[a] >= limit
                   /\ evalAt = "idle"
                   /\ pending' = pending \ {a}
                   /\ evalAt' = IF cooling THEN "idle" ELSE "view"
                   /\ UNCHANGED <<cached, cooling, viewed, rewound, sendVars, chainNonces>>

ViewNonce == /\ evalAt = "view"
             /\ \/ viewed' = keyNonce /\ evalAt' = "store"
                \/ UNCHANGED viewed /\ evalAt' = "idle"
             /\ UNCHANGED <<cached, cooling, rewound, sendVars, pending, chainNonces>>

\* Mutant of Refreshed: the attempts in flight are forgotten.
RefreshedExactly(v) == v

\* "Nonce is incremented based on the queue capacity."
Refreshed(v) == v + Capacity

StoreView == /\ evalAt = "store"
             /\ cached' = Refreshed(viewed)
             /\ cooling' = TRUE
             /\ rewound' = (rewound \/ cached > viewed + Capacity)
             /\ evalAt' = "idle" /\ viewed' = NoNonce
             /\ UNCHANGED <<sendVars, pending, chainNonces>>

CoolsDown == /\ cooling /\ cooling' = FALSE
             /\ UNCHANGED <<cached, evalAt, viewed, rewound, sendVars, pending, chainNonces>>

-----------------------------------------------------------------------------
(* NEAR: attempts arrive in any order, and the limit grows.                *)

Judge(a) == /\ a \in pending /\ nonceOf[a] < limit
            /\ pending' = pending \ {a}
            /\ keyNonce' = IF nonceOf[a] > keyNonce THEN nonceOf[a] ELSE keyNonce
            /\ UNCHANGED <<cached, refreshVars, sendVars, limit>>

LimitGrows == /\ limit < MaxNonce
              /\ limit' = limit + 1
              /\ UNCHANGED <<cached, refreshVars, sendVars, pending, keyNonce>>

NearEnd == /\ \A a \in Tries : nonceOf[a] # NoNonce
           /\ pending = {} /\ evalAt = "idle" /\ ~cooling /\ limit = MaxNonce
           /\ UNCHANGED nearVars

NearNext == \/ FirstNonce \/ LoadNonce \/ StoreNonce \/ ReturnNonce
            \/ ViewNonce \/ StoreView \/ CoolsDown \/ LimitGrows
            \/ \E a \in Tries : FindTooLarge(a) \/ Judge(a)
            \/ NearEnd

NearSpec == NearInit /\ [][NearNext]_nearVars

-----------------------------------------------------------------------------
\* No two attempts carry the same Near nonce, although send() and a refresh race
\* for the entry, as long as no refresh found it more than qCap ahead of the
\* chain: a refresh that is overwritten, or comes between store and return, costs
\* or skips nonces but repeats none.
NoncesDiffer ==
  ~rewound => \A a, b \in Tries : nonceOf[a] # NoNonce /\ nonceOf[a] = nonceOf[b] => a = b
=============================================================================
