------------------------- MODULE KeyCommandsProofs -------------------------
(***************************************************************************)
(* No key the account accepts is without a file, for every number of keys  *)
(* and every sequence of commands, failures and late transactions.  A key  *)
(* is in one place only on its way to the account (the memory of add-keys, *)
(* a late transaction, the account), has its file all that time, and is in *)
(* none of them when delete-keys removes the file.                         *)
(***************************************************************************)
EXTENDS KeyCommands, TLAPS

HasFile(k) == \E i \in Files : file[i] = k

\* Whatever may still add k, other than a command in progress.
LateAdds(k) == \E t \in late : t.kind = "add" /\ k \in t.keys

LateOnce ==
  /\ \A t, u \in late : \A k \in t.keys \cap u.keys : t.kind = "add" /\ u.kind = "add" => t = u
  /\ \A k \in AccessKeys : LateAdds(k) => HasFile(k) /\ k \notin account

\* add-keys and delete-keys do not share keys with what is pending.
PubKeysApart == \A k \in pubKeys :
  /\ command = "write" => HasFile(k) /\ k \notin account /\ ~LateAdds(k)
  /\ command = "remove" => k \notin account /\ ~LateAdds(k)

BornFirst ==
  /\ account \subseteq born
  /\ \A k \in AccessKeys : LateAdds(k) => k \in born
  /\ command = "write" => pubKeys \subseteq born
  /\ command = "none" => pubKeys = {} /\ next = 0

KeysInv == KeysTypeOK /\ NoKeyWithoutFile /\ LateOnce /\ PubKeysApart /\ BornFirst

USE DEF Files, Contents, Absent, Broken, SignerKey

LEMMA KeysInitially == KeysInit => KeysInv
  BY MaxKeysAssumption
  DEF KeysInit, KeysInv, KeysTypeOK, NoKeyWithoutFile, LateOnce, LateAdds, PubKeysApart,
      BornFirst

\* A step that leaves files, account and transactions alone, and a command that
\* holds no new key, keep the invariant.
LEMMA QuietKeeps ==
  ASSUME KeysInv, UNCHANGED <<file, account, late>>, born \subseteq born',
         KeysTypeOK',
         \/ command' = "none" /\ pubKeys' = {} /\ next' = 0
         \/ command' = "delete"
         \/ command' = "write" /\ pubKeys' = {}
         \/ UNCHANGED <<command, pubKeys, next>>
  PROVE  KeysInv'
BY DEF KeysInv, KeysTypeOK, NoKeyWithoutFile, LateOnce, LateAdds, HasFile, PubKeysApart,
       BornFirst

LEMMA BeginKeeps ==
  ASSUME KeysInv,
         GenerateKey \/ DeleteKeys \/ Interrupted \/ \E n \in 0 .. MaxKeys : AddKeys(n)
  PROVE  KeysInv'
<1>1. CASE GenerateKey
  <2>1. KeysTypeOK'
    BY <1>1 DEF GenerateKey, Dumped, KeysInv, KeysTypeOK
  <2> QED BY <1>1, <2>1, QuietKeeps DEF GenerateKey
<1>2. CASE DeleteKeys
  <2>1. KeysTypeOK'
    BY <1>2 DEF DeleteKeys, KeysInv, KeysTypeOK
  <2> QED BY <1>2, <2>1, QuietKeeps DEF DeleteKeys
<1>3. CASE Interrupted
  <2>1. KeysTypeOK'
    BY <1>3, MaxKeysAssumption DEF Interrupted, Leave, KeysInv, KeysTypeOK
  <2> QED BY <1>3, <2>1, QuietKeeps DEF Interrupted, Leave
<1>4. ASSUME NEW n \in 0 .. MaxKeys, AddKeys(n) PROVE KeysInv'
  <2>1. pubKeys = {} /\ next = 0
    BY <1>4 DEF AddKeys, KeysInv, BornFirst
  <2>2. KeysTypeOK'
    BY <1>4, <2>1, MaxKeysAssumption DEF AddKeys, KeysInv, KeysTypeOK
  <2> QED BY <1>4, <2>1, <2>2, QuietKeeps DEF AddKeys
<1> QED BY <1>1, <1>2, <1>3, <1>4

\* A new key differs from all in use, and dumpJson overwrites no file.
LEMMA DumpKeyKeeps == ASSUME KeysInv, DumpKey PROVE KeysInv'
<1>1. PICK k \in AccessKeys \ born :
        /\ command = "write" /\ next < number
        /\ born' = born \cup {k}
        /\ \E content \in Dumped(file[next], k) :
             /\ file' = [file EXCEPT ![next] = content]
             /\ IF content = k
                THEN /\ next' = next + 1 /\ pubKeys' = pubKeys \cup {k}
                     /\ UNCHANGED <<command, number>>
                ELSE Leave
        /\ UNCHANGED <<signer, account, late>>
  BY DEF DumpKey
<1>2. PICK content \in Dumped(file[next], k) :
        /\ file' = [file EXCEPT ![next] = content]
        /\ IF content = k
           THEN /\ next' = next + 1 /\ pubKeys' = pubKeys \cup {k}
                /\ UNCHANGED <<command, number>>
           ELSE Leave
  BY <1>1
<1>3. next \in Files /\ content \in Contents /\ (file[next] # Absent => content = file[next])
  BY <1>1, <1>2, MaxKeysAssumption DEF KeysInv, KeysTypeOK, Dumped
<1>4. KeysTypeOK'
  BY <1>1, <1>2, <1>3, MaxKeysAssumption DEF KeysInv, KeysTypeOK, Leave
<1>5. \A x \in AccessKeys : HasFile(x) => HasFile(x)'
  BY <1>2, <1>3, AccessKeysAssumption DEF KeysInv, KeysTypeOK, HasFile
<1>6. k \notin account /\ ~LateAdds(k) /\ (content = k => HasFile(k)')
  BY <1>1, <1>2, <1>3 DEF KeysInv, KeysTypeOK, BornFirst, HasFile
<1>7. \A x \in AccessKeys : LateAdds(x)' <=> LateAdds(x)
  BY <1>1 DEF LateAdds
<1>8. NoKeyWithoutFile' /\ LateOnce'
  BY <1>1, <1>5, <1>7 DEF KeysInv, KeysTypeOK, NoKeyWithoutFile, HasFile, LateOnce
<1>9. PubKeysApart' /\ BornFirst'
  <2>1. CASE content = k
    BY <1>1, <1>2, <1>5, <1>6, <1>7, <2>1 DEF KeysInv, KeysTypeOK, PubKeysApart, BornFirst
  <2>2. CASE content # k
    BY <1>1, <1>2, <1>7, <2>2 DEF KeysInv, KeysTypeOK, PubKeysApart, BornFirst, Leave
  <2> QED BY <2>1, <2>2
<1> QED BY <1>4, <1>8, <1>9 DEF KeysInv

LEMMA SubmitAddKeeps == ASSUME KeysInv, SubmitAdd PROVE KeysInv'
<1> DEFINE t == [kind |-> "add", keys |-> pubKeys]
<1>1. /\ command = "write"
      /\ \/ account' = account \cup pubKeys /\ UNCHANGED late
         \/ UNCHANGED <<account, late>>
         \/ late' = late \cup {t} /\ UNCHANGED account
      /\ command' = "none" /\ number' = 0 /\ next' = 0 /\ pubKeys' = {}
      /\ UNCHANGED <<file, signer, born>>
  BY DEF SubmitAdd, Succeeds, Fails, Result, Leave
<1>2. pubKeys \subseteq AccessKeys /\ t.kind = "add" /\ t.keys = pubKeys
  BY DEF KeysInv, KeysTypeOK
<1>3. KeysTypeOK'
  BY <1>1, <1>2, MaxKeysAssumption DEF KeysInv, KeysTypeOK
<1>4. CASE account' = account \cup pubKeys /\ UNCHANGED late
  BY <1>1, <1>2, <1>3, <1>4
  DEF KeysInv, NoKeyWithoutFile, LateOnce, LateAdds, HasFile, PubKeysApart, BornFirst
<1>5. CASE UNCHANGED <<account, late>>
  BY <1>1, <1>3, <1>5, QuietKeeps
<1>6. CASE late' = late \cup {t} /\ UNCHANGED account
  <2>1. \A k \in AccessKeys : LateAdds(k)' <=> LateAdds(k) \/ k \in pubKeys
    BY <1>2, <1>6 DEF LateAdds
  <2>2. \A k \in pubKeys : HasFile(k) /\ k \notin account /\ ~LateAdds(k) /\ k \in born
    BY <1>1 DEF KeysInv, PubKeysApart, BornFirst
  <2>3. LateOnce'
    <3>1. \A u, v \in late' : \A k \in u.keys \cap v.keys :
            u.kind = "add" /\ v.kind = "add" => u = v
      <4> SUFFICES ASSUME NEW u \in late', NEW v \in late', NEW k \in u.keys \cap v.keys,
                          u.kind = "add", v.kind = "add"
                   PROVE  u = v
        OBVIOUS
      <4>1. CASE u \in late /\ v \in late
        BY <4>1 DEF KeysInv, LateOnce
      <4>2. CASE u \notin late \/ v \notin late
        BY <1>2, <1>6, <2>2, <4>2 DEF LateAdds
      <4> QED BY <4>1, <4>2
    <3>2. \A k \in AccessKeys : LateAdds(k)' => HasFile(k)' /\ k \notin account'
      BY <1>1, <1>6, <2>1, <2>2 DEF KeysInv, LateOnce, HasFile
    <3> QED BY <3>1, <3>2 DEF LateOnce
  <2>4. NoKeyWithoutFile' /\ PubKeysApart' /\ BornFirst'
    BY <1>1, <1>6, <2>1, <2>2 DEF KeysInv, NoKeyWithoutFile, PubKeysApart, BornFirst
  <2> QED BY <1>3, <2>3, <2>4 DEF KeysInv
<1> QED BY <1>1, <1>4, <1>5, <1>6

\* Files are removed only of keys the account has just given up.
LEMMA SubmitDeleteKeeps == ASSUME KeysInv, SubmitDelete PROVE KeysInv'
<1> DEFINE t == [kind |-> "delete", keys |-> pubKeys]
<1>1. /\ command = "delete"
      /\ \/ /\ pubKeys \subseteq account /\ account' = account \ pubKeys /\ UNCHANGED late
            /\ command' = "remove" /\ UNCHANGED <<number, next, pubKeys>>
         \/ /\ UNCHANGED account /\ late' \in {late, late \cup {t}}
            /\ command' = "none" /\ number' = 0 /\ next' = 0 /\ pubKeys' = {}
      /\ UNCHANGED <<file, signer, born>>
  BY DEF SubmitDelete, Succeeds, Fails, Valid, Result, Leave
<1>2. t.kind = "delete" /\ t \in [kind : {"add", "delete"}, keys : SUBSET AccessKeys]
  BY DEF KeysInv, KeysTypeOK
<1>3. KeysTypeOK'
  BY <1>1, <1>2, MaxKeysAssumption DEF KeysInv, KeysTypeOK
<1>4. CASE /\ pubKeys \subseteq account /\ account' = account \ pubKeys /\ UNCHANGED late
           /\ command' = "remove" /\ UNCHANGED <<number, next, pubKeys>>
  <2>1. \A k \in AccessKeys : LateAdds(k)' <=> LateAdds(k)
    BY <1>4 DEF LateAdds
  <2>2. LateOnce' /\ PubKeysApart'
    BY <1>1, <1>4, <2>1 DEF KeysInv, KeysTypeOK, LateOnce, HasFile, PubKeysApart
  <2>3. NoKeyWithoutFile' /\ BornFirst'
    BY <1>1, <1>4, <2>1 DEF KeysInv, NoKeyWithoutFile, BornFirst
  <2> QED BY <1>3, <2>2, <2>3 DEF KeysInv
<1>5. CASE /\ UNCHANGED account /\ late' \in {late, late \cup {t}}
           /\ command' = "none" /\ number' = 0 /\ next' = 0 /\ pubKeys' = {}
  <2>1. \A k \in AccessKeys : LateAdds(k)' <=> LateAdds(k)
    BY <1>2, <1>5 DEF LateAdds
  <2>2. LateOnce'
    BY <1>1, <1>2, <1>5, <2>1 DEF KeysInv, LateOnce, HasFile
  <2>3. NoKeyWithoutFile' /\ PubKeysApart' /\ BornFirst'
    BY <1>1, <1>5, <2>1 DEF KeysInv, NoKeyWithoutFile, PubKeysApart, BornFirst
  <2> QED BY <1>3, <2>2, <2>3 DEF KeysInv
<1> QED BY <1>1, <1>4, <1>5

LEMMA RemoveKeyFileKeeps == ASSUME KeysInv, RemoveKeyFile PROVE KeysInv'
<1>1. PICK i \in Files :
        /\ command = "remove" /\ file[i] \in pubKeys
        /\ file' = [file EXCEPT ![i] = Absent]
        /\ IF \A j \in Files \ {i} : file[j] \notin pubKeys
           THEN Leave
           ELSE UNCHANGED <<command, number, next, pubKeys>>
        /\ UNCHANGED <<signer, account, late, born>>
  BY DEF RemoveKeyFile
<1>2. KeysTypeOK'
  BY <1>1, MaxKeysAssumption DEF KeysInv, KeysTypeOK, Leave
<1>3. \A k \in AccessKeys : HasFile(k) /\ k \notin pubKeys => HasFile(k)'
  BY <1>1 DEF KeysInv, KeysTypeOK, HasFile
<1>4. \A k \in AccessKeys : LateAdds(k)' <=> LateAdds(k)
  BY <1>1 DEF LateAdds
<1>5. NoKeyWithoutFile'
  BY <1>1, <1>3 DEF KeysInv, KeysTypeOK, NoKeyWithoutFile, HasFile, PubKeysApart
<1>6. LateOnce'
  BY <1>1, <1>3, <1>4 DEF KeysInv, KeysTypeOK, LateOnce, PubKeysApart
<1>7. PubKeysApart' /\ BornFirst'
  BY <1>1, <1>4 DEF KeysInv, KeysTypeOK, PubKeysApart, BornFirst, Leave
<1> QED BY <1>2, <1>5, <1>6, <1>7 DEF KeysInv

\* A transaction that takes effect late adds keys whose files still exist.
LEMMA LateRunKeeps == ASSUME KeysInv, LateRun PROVE KeysInv'
<1>1. PICK t \in late : /\ late' = late \ {t}
                        /\ account' = IF Valid(t) THEN Result(t) ELSE account
                        /\ UNCHANGED <<file, signer, born, command, number, next, pubKeys>>
  BY DEF LateRun
<1>2. t \in [kind : {"add", "delete"}, keys : SUBSET AccessKeys]
  BY DEF KeysInv, KeysTypeOK
<1>3. account' \subseteq account \cup (IF t.kind = "add" THEN t.keys ELSE {})
  BY <1>1 DEF Result
<1>4. KeysTypeOK'
  BY <1>1, <1>2, <1>3 DEF KeysInv, KeysTypeOK
<1>5. \A k \in AccessKeys : HasFile(k)' <=> HasFile(k)
  BY <1>1 DEF HasFile
<1>6. \A k \in AccessKeys : LateAdds(k)' => LateAdds(k)
  BY <1>1 DEF LateAdds
<1>7. t.kind = "add" => \A k \in t.keys : k \in AccessKeys /\ LateAdds(k) /\ ~LateAdds(k)'
  BY <1>1, <1>2 DEF KeysInv, LateOnce, LateAdds
<1>8. NoKeyWithoutFile'
  BY <1>3, <1>5, <1>7 DEF KeysInv, KeysTypeOK, NoKeyWithoutFile, LateOnce, HasFile
<1>9. LateOnce'
  BY <1>1, <1>3, <1>5, <1>6, <1>7 DEF KeysInv, LateOnce
<1>10. PubKeysApart' /\ BornFirst'
  BY <1>1, <1>3, <1>5, <1>6, <1>7 DEF KeysInv, KeysTypeOK, PubKeysApart, BornFirst
<1> QED BY <1>4, <1>8, <1>9, <1>10 DEF KeysInv

\* The secret of every key add-keys has put on the account is in a key file, over
\* all failures, interrupts and late transactions (cmd/keys.go:83-198).
THEOREM NoKeyIsLost == KeysSpec => []NoKeyWithoutFile
<1>1. KeysInv /\ [KeysNext]_keysVars => KeysInv'
  <2>1. ASSUME KeysInv, UNCHANGED keysVars PROVE KeysInv'
    BY <2>1 DEF keysVars, KeysInv, KeysTypeOK, NoKeyWithoutFile, LateOnce, LateAdds,
                HasFile, PubKeysApart, BornFirst
  <2> QED BY <2>1, BeginKeeps, DumpKeyKeeps, SubmitAddKeeps, SubmitDeleteKeeps,
             RemoveKeyFileKeeps, LateRunKeeps
          DEF KeysNext
<1>2. KeysInv => NoKeyWithoutFile
  BY DEF KeysInv
<1> QED BY <1>1, <1>2, KeysInitially, PTL DEF KeysSpec
=============================================================================
