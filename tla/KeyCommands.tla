---------------------------- MODULE KeyCommands ----------------------------
(***************************************************************************)
(* The commands of cmd/keys.go: add-keys writes a key file for each new    *)
(* key and then adds all keys to the account in one transaction;           *)
(* delete-keys deletes the keys of all key files from the account in one   *)
(* transaction and then removes the files; generate-key writes the key     *)
(* file of the signer.  A command may be interrupted anywhere; the answer  *)
(* to a transaction may be lost, in which case it takes effect later or    *)
(* never.  One command runs at a time.                                     *)
(***************************************************************************)
EXTENDS Integers

CONSTANTS
  AccessKeys, \* the keys newKey() may generate, each once
  MaxKeys     \* the largest number of keys a command is asked for

ASSUME MaxKeysAssumption == MaxKeys \in Nat

Absent == "absent"       \* there is no such file
Broken == "broken"       \* its content is incomplete
SignerKey == "signerKey" \* a key of the signer
ASSUME AccessKeysAssumption == {Absent, Broken, SignerKey} \cap AccessKeys = {}

Files == 0 .. MaxKeys - 1
Contents == AccessKeys \cup {Absent, Broken}

VARIABLES
  file,     \* file[i]: what fk<i>.<signer key file> contains
  signer,   \* what the signer key file contains
  account,  \* the access keys add-keys has put on the account
  late,     \* the transactions whose answer was lost
  born,     \* the keys generated so far
  command,  \* what the command does: "none", "write", "add", "delete", "remove"
  number,   \* numberOfKeys
  next,     \* the index of the next file to write
  pubKeys   \* the keys it has collected
keysVars == <<file, signer, account, late, born, command, number, next, pubKeys>>

KeysInit == /\ file = [i \in Files |-> Absent] /\ signer \in {Absent, SignerKey}
            /\ account = {} /\ late = {} /\ born = {}
            /\ command = "none" /\ number = 0 /\ next = 0 /\ pubKeys = {}

\* os.Exit, the end of the command, or an interrupt: its memory is gone.
Leave == command' = "none" /\ number' = 0 /\ next' = 0 /\ pubKeys' = {}

Interrupted == /\ command # "none" /\ Leave
               /\ UNCHANGED <<file, signer, account, late, born>>

\* dumpJson: what a file may contain afterwards; an existing one is kept.
Dumped(content, k) == IF content = Absent THEN {k, Broken, Absent} ELSE {content}

\* generate-key disregards the error of dumpJson.
GenerateKey == /\ command = "none"
               /\ signer' \in Dumped(signer, SignerKey)
               /\ UNCHANGED <<file, account, late, born, command, number, next, pubKeys>>

-----------------------------------------------------------------------------
\* Both commands load the account, with the key of the signer.
AddKeys(n) == /\ command = "none" /\ signer = SignerKey /\ n > 0
              /\ command' = "write" /\ number' = n
              /\ UNCHANGED <<file, signer, account, late, born, next, pubKeys>>

\* Without the file the command ends.
DumpKey == \E k \in AccessKeys \ born :
  /\ command = "write" /\ next < number
  /\ born' = born \cup {k}
  /\ \E content \in Dumped(file[next], k) :
       /\ file' = [file EXCEPT ![next] = content]
       /\ IF content = k
          THEN /\ next' = next + 1 /\ pubKeys' = pubKeys \cup {k}
               /\ UNCHANGED <<command, number>>
          ELSE Leave
  /\ UNCHANGED <<signer, account, late>>

\* getFunctionCallKeyPairFilePaths and LoadKeyPairFromPath.
DeleteKeys == /\ command = "none" /\ signer = SignerKey
              /\ \A i \in Files : file[i] # Broken
              /\ command' = "delete"
              /\ pubKeys' = {file[i] : i \in Files} \ {Absent}
              /\ UNCHANGED <<file, signer, account, late, born, number, next>>

\* A transaction changes all its keys or none, if one of them cannot change.
Valid(t) == IF t.kind = "add" THEN t.keys \cap account = {} ELSE t.keys \subseteq account
Result(t) == IF t.kind = "add" THEN account \cup t.keys ELSE account \ t.keys

\* A transaction succeeds, it fails, or its answer is lost.
Succeeds(t) == Valid(t) /\ account' = Result(t) /\ UNCHANGED late
Fails(t) == \/ UNCHANGED <<account, late>>
            \/ late' = late \cup {t} /\ UNCHANGED account

SubmitAdd == LET t == [kind |-> "add", keys |-> pubKeys] IN
  /\ command = "write" /\ next = number
  /\ Succeeds(t) \/ Fails(t)
  /\ Leave
  /\ UNCHANGED <<file, signer, born>>

\* Mutant of SubmitDelete: the error is only printed.
SubmitDeleteAnyway == LET t == [kind |-> "delete", keys |-> pubKeys] IN
  /\ command = "delete"
  /\ Succeeds(t) \/ Fails(t)
  /\ command' = "remove"
  /\ UNCHANGED <<file, signer, born, number, next, pubKeys>>

SubmitDelete == LET t == [kind |-> "delete", keys |-> pubKeys] IN
  /\ command = "delete"
  /\ \/ /\ Succeeds(t)
        /\ command' = "remove" /\ UNCHANGED <<number, next, pubKeys>>
     \/ Fails(t) /\ Leave
  /\ UNCHANGED <<file, signer, born>>

\* os.Remove of the files one by one; the command ends after the last of them
\* (or at the first it cannot remove, as if interrupted).
RemoveKeyFile == \E i \in Files :
  /\ command = "remove" /\ file[i] \in pubKeys
  /\ file' = [file EXCEPT ![i] = Absent]
  /\ IF \A j \in Files \ {i} : file[j] \notin pubKeys
     THEN Leave
     ELSE UNCHANGED <<command, number, next, pubKeys>>
  /\ UNCHANGED <<signer, account, late, born>>

\* A transaction whose answer was lost takes effect.
LateRun == \E t \in late :
  /\ late' = late \ {t}
  /\ account' = IF Valid(t) THEN Result(t) ELSE account
  /\ UNCHANGED <<file, signer, born, command, number, next, pubKeys>>

KeysNext == \/ GenerateKey \/ (\E n \in 0 .. MaxKeys : AddKeys(n)) \/ DumpKey
            \/ SubmitAdd \/ DeleteKeys \/ SubmitDelete \/ RemoveKeyFile
            \/ LateRun \/ Interrupted

KeysSpec == KeysInit /\ [][KeysNext]_keysVars

-----------------------------------------------------------------------------
KeysTypeOK ==
  /\ file \in [Files -> Contents] /\ signer \in {Absent, Broken, SignerKey}
  /\ account \subseteq AccessKeys /\ born \subseteq AccessKeys
  /\ late \subseteq [kind : {"add", "delete"}, keys : SUBSET AccessKeys]
  /\ command \in {"none", "write", "delete", "remove"}
  /\ number \in 0 .. MaxKeys /\ next \in 0 .. number
  /\ pubKeys \subseteq AccessKeys

\* Whatever fails, is interrupted or takes effect late: the secret of every key on
\* the account is in a key file, so no key is lost that the account accepts.
NoKeyWithoutFile == \A k \in account : \E i \in Files : file[i] = k
=============================================================================
