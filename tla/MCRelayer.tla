----------------------------- MODULE MCRelayer -----------------------------
(***************************************************************************)
(* The parts of the process that share no state with one another, checked  *)
(* in one run: in each behaviour one part runs and the others stand still. *)
(***************************************************************************)
EXTENDS EventsEth, FilterIP, EngineReads, TxnSubmit, Shutdown, NearNonce, KeyCommands,
        TLC

CONSTANTS
  Parts,  \* the parts to be run
  h1, h2, l1, l2, a1, a2, a3, q1, t1, t2, r1, r2, r3, n1, n2, n3, n4, k1, k2, k3, k4

VARIABLE part
allVars == <<part, eventsVars, filterVars, readsVars, submitVars, shutdownVars,
             nearVars, keysVars>>

MCClientOf == (a1 :> "inside" @@ a2 :> "outside" @@ a3 :> "unknown")
MCNetOf == ("net" :> {"inside"} @@ "all" :> {"inside", "outside"})
MCConfigs == {[policy |-> "deny", entries |-> <<"net", "bad">>],
              [policy |-> "allow", entries |-> <<"bad", "net">>],
              [policy |-> "block", entries |-> <<"all">>],
              [policy |-> "allow", entries |-> <<"bad">>]}
MCTxnSender == (t1 :> "alice" @@ t2 :> "alice")
MCCrc32 == [s \in {"alice"} |-> 3]
MCProcOf == (r1 :> 1 @@ r2 :> 1 @@ r3 :> 2)

\* A part that does not run starts in one state.
MCInit == /\ part \in Parts
          /\ EventsInit /\ FilterInit /\ ReadsInit /\ SubmitInit
          /\ ShutdownInit /\ NearInit /\ KeysInit
          /\ part # "filter" => config = CHOOSE c \in Configs : TRUE
          /\ part # "reads" => dbHeight = NoHeight
          /\ part # "submit" => async
          /\ part # "keys" => signer = Absent

OnlyEvents == /\ part = "events" /\ EventsNext
              /\ UNCHANGED <<part, filterVars, readsVars, submitVars, shutdownVars,
                             nearVars, keysVars>>
OnlyFilter == /\ part = "filter" /\ FilterNext
              /\ UNCHANGED <<part, eventsVars, readsVars, submitVars, shutdownVars,
                             nearVars, keysVars>>
OnlyReads == /\ part = "reads" /\ ReadsNext
             /\ UNCHANGED <<part, eventsVars, filterVars, submitVars, shutdownVars,
                            nearVars, keysVars>>
OnlySubmit == /\ part = "submit" /\ SubmitNext
              /\ UNCHANGED <<part, eventsVars, filterVars, readsVars, shutdownVars,
                             nearVars, keysVars>>
OnlyShutdown == /\ part = "shutdown" /\ ShutdownNext
                /\ UNCHANGED <<part, eventsVars, filterVars, readsVars, submitVars,
                               nearVars, keysVars>>
OnlyNear == /\ part = "near" /\ NearNext
            /\ UNCHANGED <<part, eventsVars, filterVars, readsVars, submitVars,
                           shutdownVars, keysVars>>
OnlyKeys == /\ part = "keys" /\ KeysNext
            /\ UNCHANGED <<part, eventsVars, filterVars, readsVars, submitVars,
                           shutdownVars, nearVars>>

MCNext == OnlyEvents \/ OnlyFilter \/ OnlyReads \/ OnlySubmit \/ OnlyShutdown
          \/ OnlyNear \/ OnlyKeys

MCSpec == /\ MCInit /\ [][MCNext]_allVars
          /\ part = "events" => EventsFairness
          /\ part = "shutdown" => ShutdownFairness
=============================================================================
