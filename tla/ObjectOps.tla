------------------------------ MODULE ObjectOps ------------------------------
(***************************************************************************)
(* What one run of s3rdmaput or s3rdmaget promises, with no sessions, no   *)
(* tokens and no memory regions: the operation takes effect once, at one   *)
(* moment, and is reported as a success only if it did.  A program that    *)
(* reports a failure promises nothing: the operation may have taken effect *)
(* or not, or may still do so.  A get saves the object it has seen; the    *)
(* promise ends where the writing of the file does, and that is not always *)
(* reported.                                                               *)
(***************************************************************************)
EXTENDS SequencesExt

CONSTANTS Client, Receivers, Key, KeyOf, File, InitStore, Absent

VARIABLES
  store,    \* the objects
  applied,  \* has the operation taken effect?
  value,    \* the object a get has seen
  result,   \* what the program has reported
  file      \* the file a get leaves

opVars == <<store, applied, value, result, file>>

OpsInit ==
  /\ store   = InitStore
  /\ applied = [c \in Client |-> FALSE]
  /\ value   = [c \in Client |-> Absent]
  /\ result  = [c \in Client |-> "running"]
  /\ file    = [c \in Client |-> Absent]

\* A put replaces the object by the whole file.
ApplyPut(c) ==
  /\ c \notin Receivers
  /\ ~applied[c] /\ result[c] # "ok"
  /\ applied' = [applied EXCEPT ![c] = TRUE]
  /\ store' = [store EXCEPT ![KeyOf[c]] = File[c]]
  /\ UNCHANGED <<value, result, file>>

\* A get sees the whole object as it is at one moment.
ApplyGet(c) ==
  /\ c \in Receivers
  /\ ~applied[c] /\ result[c] # "ok"
  /\ applied' = [applied EXCEPT ![c] = TRUE]
  /\ value' = [value EXCEPT ![c] = store[KeyOf[c]]]
  /\ UNCHANGED <<store, result, file>>

Succeed(c) ==
  /\ result[c] = "running" /\ applied[c]
  /\ result' = [result EXCEPT ![c] = "ok"]
  /\ file' = [file EXCEPT ![c] = value[c]]
  /\ UNCHANGED <<store, applied, value>>

\* The file holds a beginning of what the get has seen.
CutFile(c) ==
  /\ c \in Receivers /\ applied[c]
  /\ \E bytes \in Prefixes(value[c]) : file' = [file EXCEPT ![c] = bytes]

\* The last of the file is lost, and nobody looks.
SucceedCut(c) ==
  /\ result[c] = "running"
  /\ result' = [result EXCEPT ![c] = "ok"]
  /\ CutFile(c)
  /\ UNCHANGED <<store, applied, value>>

Fail(c) ==
  /\ result[c] = "running"
  /\ result' = [result EXCEPT ![c] = "failed"]
  /\ UNCHANGED file \/ CutFile(c)
  /\ UNCHANGED <<store, applied, value>>

OpsNext ==
  \E c \in Client : \/ ApplyPut(c) \/ ApplyGet(c)
                   \/ Succeed(c) \/ SucceedCut(c) \/ Fail(c)

OpsSpec == OpsInit /\ [][OpsNext]_opVars

=============================================================================
