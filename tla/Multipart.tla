------------------------------ MODULE Multipart ------------------------------
(***************************************************************************)
(* The multipart programs s3rdmamultipart.{c,go,java,py}: processes that   *)
(* each run one -action against a bucket's multipart uploads, concurrently *)
(* and in any order.  A part travels as RdmaTransfer describes; here one   *)
(* UploadPart is one step with the outcomes a request can have: done, or   *)
(* failed for the client and done, not done, or done by the server later.  *)
(*                                                                         *)
(* The four programs have the same actions and differ in a few decisions,  *)
(* which the ...Main and ...UploadPart definitions hold side by side.  The *)
(* server's multipart state is external.                                   *)
(*                                                                         *)
(* A file is a sequence of bytes that may be truncated while it is being   *)
(* uploaded.  An upload is named after the process that created it.        *)
(***************************************************************************)
EXTENDS Integers, Sequences, SequencesExt

CONSTANTS
  Proc,       \* the processes
  Worlds,     \* what they may find themselves in, one of a set of records
  PartSize,   \* -partsize
  IntBits,    \* the width of an int in C and Java
  MaxPart,    \* the last part number the server accepts
  MaxRetries, \* how often the AWS SDK repeats an UploadPart
  None        \* no upload; nothing stored

Lang   == {"c", "go", "java", "python"}
Action == {"none", "all", "create", "upload", "list", "list-uploads", "complete",
           "abort"}

World == [job : [Proc -> [lang : Lang, action : Action, part : Int]],
          file : [Proc -> Seq(Nat)], truncates : SUBSET Proc,
          etags : BOOLEAN, page : Nat \ {0}]

ASSUME WorldsAssumption == Worlds \subseteq World
ASSUME PartSizeAssumption == PartSize \in Nat \ {0}
ASSUME IntBitsAssumption == IntBits \in Nat \ {0}
ASSUME MaxPartAssumption == MaxPart \in Nat \ {0}
ASSUME MaxRetriesAssumption == MaxRetries \in Nat
ASSUME NoneAssumption == None \notin Proc /\ None \notin Seq(Nat)

VARIABLES
  world,     \* the record of Worlds this behaviour is in; never changed
  pc,        \* what each process does next
  uid,       \* the upload id it works on
  file,      \* its file
  size,      \* the file size it works with
  bytes,     \* the copy of the file the Java program makes; Go's mapped part
  next,      \* the next part number to upload
  last,      \* the last part number to upload
  tries,     \* how often the SDK has repeated the present UploadPart
  parts,     \* the parts it has collected: number and ETag
  result,    \* how it ended
  aborted,   \* has it sent an AbortMultipartUpload?
  due,       \* the parts known to be stored when it asked for the list
  state,     \* server: the state of each upload
  stored,    \* server: the parts of each upload
  content,   \* server: what each completed upload was completed with
  late,      \* server: parts it was sent and has not stored yet
  acked      \* the part numbers whose upload was confirmed to some process

procVars   == <<pc, uid, size, bytes, next, last, tries, parts, result, aborted, due>>
serverVars == <<state, stored, content, late>>
vars == <<world, procVars, file, serverVars, acked>>

Job        == world.job        \* the command lines
InitFile   == world.file       \* the files at the start
Truncates  == world.truncates  \* the processes whose file may be truncated
CheckEtags == world.etags      \* does the server compare ETags at completion?
Page       == world.page       \* the longest list of parts the server sends

----------------------------------------------------------------------------
(* Splitting the file.                                                     *)

\* What a conversion to int leaves of a number.
AsInt(x) ==
  LET m == x % 2^IntBits IN IF m < 2^(IntBits - 1) THEN m ELSE m - 2^IntBits

\* C and Java count the parts in an int; Go's int has 64 bits, Python's no end.
NumParts(lang, sz) ==
  LET n == (sz + PartSize - 1) \div PartSize
  IN  IF lang \in {"c", "java"} THEN AsInt(n) ELSE n

FirstPart(only) == IF only > 0 THEN only ELSE 1

\* Bytes from .. from + len - 1 of a file, 0-based, as far as they exist.
Slice(f, from, len) ==
  SubSeq(f, from + 1, IF from + len < Len(f) THEN from + len ELSE Len(f))

PartLen(sz, n) ==
  LET offset == (n - 1) * PartSize
  IN  IF sz - offset < PartSize THEN sz - offset ELSE PartSize

PartNumbers == 1 .. MaxPart

Init ==
  /\ world   \in Worlds
  /\ pc      = [p \in Proc |-> IF Job[p].action = "none" THEN "exit" ELSE "start"]
  /\ uid     = [p \in Proc |-> None]
  /\ file    = InitFile
  /\ size    = [p \in Proc |-> 0]
  /\ bytes   = [p \in Proc |-> << >>]
  /\ next    = [p \in Proc |-> 0]
  /\ last    = [p \in Proc |-> 0]
  /\ tries   = [p \in Proc |-> 0]
  /\ parts   = [p \in Proc |-> << >>]
  /\ result  = [p \in Proc |-> "none"]
  /\ aborted = [p \in Proc |-> FALSE]
  /\ due     = [p \in Proc |-> {}]
  /\ state   = [u \in Proc |-> "none"]
  /\ stored  = [u \in Proc |-> [n \in PartNumbers |-> None]]
  /\ content = [u \in Proc |-> None]
  /\ late    = {}
  /\ acked   = [u \in Proc |-> {}]

----------------------------------------------------------------------------
(* How the four main functions differ: the -part they pass on, whether the *)
(* file is looked at before the upload is created, and the failures after  *)
(* which `all' aborts the upload.                                          *)

\* Fault: a failed part does not make the program abort.
CMain_NoAbort(job) ==
  [part |-> job.part, statFirst |-> FALSE, abortsOn |-> {}]

CMain(job) ==
  [part |-> job.part, statFirst |-> FALSE, abortsOn |-> {"upload"}]

GoMain(job) ==
  [part |-> IF job.action = "all" THEN 0 ELSE job.part,
   statFirst |-> TRUE, abortsOn |-> {"upload"}]

JavaMain(job) ==
  [part |-> job.part, statFirst |-> FALSE, abortsOn |-> {"upload", "complete"}]

PythonMain(job) ==
  [part |-> job.part, statFirst |-> FALSE, abortsOn |-> {"upload", "complete"}]

Main(p) ==
  CASE Job[p].lang = "c"      -> CMain(Job[p])
    [] Job[p].lang = "go"     -> GoMain(Job[p])
    [] Job[p].lang = "java"   -> JavaMain(Job[p])
    [] Job[p].lang = "python" -> PythonMain(Job[p])

----------------------------------------------------------------------------
(* Building blocks.                                                        *)

Does(p, step, actions) == pc[p] = step /\ Job[p].action \in actions

Goto(p, step) == pc' = [pc EXCEPT ![p] = step]

Exit(p, how) == Goto(p, "exit") /\ result' = [result EXCEPT ![p] = how]

\* A failure of the given phase: `all' may still abort the upload.
GiveUp(p, phase) ==
  IF Job[p].action = "all" /\ phase \in Main(p).abortsOn
  THEN Goto(p, "abort") /\ UNCHANGED result
  ELSE Exit(p, "failed")

----------------------------------------------------------------------------
(* The operations.                                                         *)

\* CreateMultipartUpload.  Go has looked at the file before.
CreateMultipart(p) ==
  /\ Does(p, "start", {"create", "all"})
  /\ size' = [size EXCEPT ![p] = Len(file[p])]
  /\ \/ /\ ~(Job[p].action = "all" /\ Main(p).statFirst /\ size'[p] = 0)
        /\ state' = [state EXCEPT ![p] = "open"]
        /\ \/ /\ uid' = [uid EXCEPT ![p] = p]
              /\ IF Job[p].action = "all" THEN Goto(p, "plan") /\ UNCHANGED result
                 ELSE Exit(p, "ok")
           \/ Exit(p, "failed") /\ UNCHANGED uid
     \/ Exit(p, "failed") /\ UNCHANGED <<uid, state>>
  /\ UNCHANGED <<file, bytes, next, last, tries, parts, aborted, due, stored, content,
                 late, acked>>

\* -uploadid: the operator passes the id of some upload that was created.
TakeUploadId(p) ==
  /\ Does(p, "start", {"upload", "list", "complete", "abort"})
  /\ \E u \in Proc : state[u] # "none" /\ uid' = [uid EXCEPT ![p] = u]
  /\ size' = [size EXCEPT ![p] = Len(file[p])]
  /\ Goto(p, CASE Job[p].action = "upload" -> "plan"
               [] Job[p].action = "abort"  -> "abort"
               [] OTHER -> "list")
  /\ UNCHANGED <<file, bytes, next, last, tries, parts, result, aborted, due,
                 serverVars, acked>>

\* Fault: the size is noted although stat failed.
PlanParts_StatUnchecked(p) ==
  /\ pc[p] = "plan"
  /\ size' = [size EXCEPT ![p] = -1]
  /\ GiveUp(p, "upload")
  /\ UNCHANGED <<uid, file, bytes, next, last, tries, parts, aborted, due, serverVars, acked>>

\* All parts are uploaded.
PartsDone(p) ==
  IF Job[p].action = "all" THEN Goto(p, "complete") /\ UNCHANGED result
  ELSE Exit(p, "ok")

\* The head of upload_parts: size, number of parts, range of part numbers.  It
\* fails on an empty file and on a part number out of range, and when the file
\* cannot be opened.  No part is a success too, where the count wraps to 0.
PlanParts(p) ==
  LET sz == IF Main(p).statFirst THEN size[p] ELSE Len(file[p])
      only == Main(p).part
      count == NumParts(Job[p].lang, sz)
  IN
  /\ pc[p] = "plan"
  /\ \/ /\ sz > 0 /\ 0 <= only /\ only <= count
        /\ size' = [size EXCEPT ![p] = sz]
        /\ next' = [next EXCEPT ![p] = FirstPart(only)]
        /\ last' = [last EXCEPT ![p] = IF only > 0 THEN only ELSE count]
        /\ IF Job[p].lang = "java" THEN Goto(p, "read") /\ UNCHANGED result
           ELSE IF count = 0 THEN PartsDone(p)
           ELSE Goto(p, "part") /\ UNCHANGED result
     \/ GiveUp(p, "upload") /\ UNCHANGED <<size, next, last>>
  /\ UNCHANGED <<uid, file, bytes, tries, parts, aborted, due, serverVars, acked>>

\* Java copies the whole file into memory, after it looked at the size.  An
\* array has no more bytes than an int can count; beyond that readAllBytes
\* throws an Error, which the catch clause of `all' does not see.
ReadAllBytes(p) ==
  /\ pc[p] = "read"
  /\ IF Len(file[p]) >= 2^(IntBits - 1) THEN Exit(p, "killed") /\ UNCHANGED bytes
     ELSE \/ /\ bytes' = [bytes EXCEPT ![p] = file[p]]
             /\ IF last[p] = 0 THEN PartsDone(p)
                ELSE Goto(p, "part") /\ UNCHANGED result
          \/ GiveUp(p, "upload") /\ UNCHANGED bytes
  /\ UNCHANGED <<uid, file, size, next, last, tries, parts, aborted, due, serverVars, acked>>

Store(u, n, data) ==
  /\ state[u] = "open" /\ n \in PartNumbers
  /\ stored' = [stored EXCEPT ![u][n] = data]

\* An UploadPart whose answer is an error or is lost: the server has stored the
\* part, or has not, or is still busy with it.
PartUncertain(p, data) ==
  \/ Store(uid[p], next[p], data) /\ UNCHANGED late
  \/ UNCHANGED <<stored, late>>
  \/ /\ next[p] \in PartNumbers
     /\ late' = late \cup {[u |-> uid[p], n |-> next[p], data |-> data]}
     /\ UNCHANGED stored

\* One UploadPart of the given data; etag is what the program notes for it.
UploadPart(p, data, etag) ==
  LET n == next[p]
      u == uid[p]
  IN
  /\ \/ /\ Store(u, n, data) /\ UNCHANGED late
        /\ acked' = [acked EXCEPT ![u] = @ \cup {n}]
        /\ parts' = [parts EXCEPT ![p] = Append(@, [n |-> n, etag |-> etag])]
        /\ IF n < last[p]
           THEN /\ next' = [next EXCEPT ![p] = n + 1]
                /\ Goto(p, "part") /\ UNCHANGED result
           ELSE PartsDone(p) /\ UNCHANGED next
     \/ PartUncertain(p, data) /\ GiveUp(p, "upload") /\ UNCHANGED <<next, parts, acked>>
  /\ tries' = [tries EXCEPT ![p] = 0]
  /\ UNCHANGED <<uid, file, size, bytes, last, aborted, due, state, content>>

\* The part cannot be read, and the upload fails before anything is sent.
ReadFails(p) ==
  /\ GiveUp(p, "upload")
  /\ UNCHANGED <<uid, file, size, bytes, next, last, tries, parts, aborted, due,
                 serverVars, acked>>

ServerEtag(data) == [by |-> "server", of |-> data]
MadeEtag(n)      == [by |-> "client", of |-> <<n>>]

\* The bytes of the next part, read from f.
PartOf(p, f) == Slice(f, (next[p] - 1) * PartSize, PartLen(size[p], next[p]))

\* Fault: a short fread is taken for the part.
CUploadPart_ShortRead(p) ==
  /\ pc[p] = "part" /\ Job[p].lang = "c"
  /\ UploadPart(p, PartOf(p, file[p]), MadeEtag(next[p]))

\* C: a short fread fails; the ETag is made up from the part number.
CUploadPart(p) ==
  /\ pc[p] = "part" /\ Job[p].lang = "c"
  /\ IF Len(PartOf(p, file[p])) = PartLen(size[p], next[p])
     THEN UploadPart(p, PartOf(p, file[p]), MadeEtag(next[p]))
     ELSE ReadFails(p)

\* Go: mmapPart copies the part; a short read fails.
GoMapPart(p) ==
  /\ pc[p] = "part" /\ Job[p].lang = "go"
  /\ IF Len(PartOf(p, file[p])) = PartLen(size[p], next[p])
     THEN /\ bytes' = [bytes EXCEPT ![p] = PartOf(p, file[p])]
          /\ Goto(p, "send")
          /\ UNCHANGED <<result, uid, file, size, next, last, tries, parts, aborted,
                         due, serverVars, acked>>
     ELSE ReadFails(p)

\* The AWS SDK repeats an UploadPart that failed, with the request id and the
\* memory of the first attempt.
GoRetryPart(p) ==
  /\ pc[p] = "send" /\ tries[p] < MaxRetries
  /\ PartUncertain(p, bytes[p])
  /\ tries' = [tries EXCEPT ![p] = @ + 1]
  /\ UNCHANGED <<pc, uid, file, size, bytes, next, last, parts, result, aborted, due,
                 state, content, acked>>

\* The last attempt; the ETag is the server's.
GoUploadPart(p) ==
  /\ pc[p] = "send"
  /\ UploadPart(p, bytes[p], ServerEtag(bytes[p]))

\* Java: the part is cut from the copy, which may be shorter than the size, with
\* an offset and a length that are ints.  A negative one, of a part that begins
\* after the end of the copy or whose offset has wrapped, is an exception; an
\* offset that wraps to a place in the copy is not noticed.
JavaUploadPart(p) ==
  LET offset == AsInt((next[p] - 1) * PartSize)
      rest   == AsInt(Len(bytes[p]) - offset)
      len    == AsInt(IF PartSize < rest THEN PartSize ELSE rest)
  IN
  /\ pc[p] = "part" /\ Job[p].lang = "java"
  /\ IF offset >= 0 /\ len >= 0
     THEN UploadPart(p, Slice(bytes[p], offset, len), MadeEtag(next[p]))
     ELSE ReadFails(p)

\* Fault: the part is read one part further on.
PythonUploadPart_OnePartOn(p) ==
  /\ pc[p] = "part" /\ Job[p].lang = "python"
  /\ UploadPart(p, Slice(file[p], next[p] * PartSize, PartSize), MadeEtag(next[p]))

\* Python: f.read gives as much as there is.
PythonUploadPart(p) ==
  /\ pc[p] = "part" /\ Job[p].lang = "python"
  /\ UploadPart(p, Slice(file[p], (next[p] - 1) * PartSize, PartSize),
                MadeEtag(next[p]))

\* The numbers of a set in their order: the i-th is not less than i of them.
Ascending(numbers) ==
  [i \in 1 .. Cardinality(numbers) |->
     CHOOSE n \in numbers : Cardinality({m \in numbers : m <= n}) = i]

Stored(u) == {n \in PartNumbers : stored[u][n] # None}

\* Fault: the last <Part> element is lost.
Listed_AllButLast(u) ==
  [i \in 1 .. Cardinality(Stored(u)) - 1 |->
     LET n == Ascending(Stored(u))[i] IN [n |-> n, etag |-> ServerEtag(stored[u][n])]]

\* The <Part> elements of a ListParts answer.  Nobody asks for a second page.
Listed(u) ==
  LET numbers == Ascending(Stored(u))
      shown == IF Len(numbers) < Page THEN Len(numbers) ELSE Page
  IN  [i \in 1 .. shown |->
         [n |-> numbers[i], etag |-> ServerEtag(stored[u][numbers[i]])]]

\* ListParts, for `list' and for `complete', which wants at least one part.
ListParts(p) ==
  LET u == uid[p]
      found == Listed(u)
  IN
  /\ Does(p, "list", {"list", "complete"})
  /\ \/ /\ state[u] = "open"
        /\ due' = [due EXCEPT ![p] = acked[u]]
        /\ parts' = [parts EXCEPT ![p] = found]
        /\ IF Job[p].action = "complete"
           THEN IF found = << >> THEN Exit(p, "failed")
                ELSE Goto(p, "complete") /\ UNCHANGED result
           ELSE Exit(p, "ok")
     \/ Exit(p, "failed") /\ UNCHANGED <<due, parts>>
  /\ UNCHANGED <<uid, file, size, bytes, next, last, tries, aborted, serverVars, acked>>

\* ListMultipartUploads: its answer is printed, and that is all.
ListUploads(p) ==
  /\ Does(p, "start", {"list-uploads"})
  /\ Exit(p, "ok") \/ Exit(p, "failed")
  /\ UNCHANGED <<uid, file, size, bytes, next, last, tries, parts, aborted, due,
                 serverVars, acked>>

\* The parts a CompleteMultipartUpload names are there, with these ETags.
Acceptable(u, list) ==
  \A i \in DOMAIN list :
    /\ stored[u][list[i].n] # None
    /\ CheckEtags => list[i].etag = ServerEtag(stored[u][list[i].n])

CompleteMultipart(p) ==
  LET u == uid[p] IN
  /\ Does(p, "complete", {"complete", "all"})
  /\ \/ /\ state[u] = "open" /\ Acceptable(u, parts[p])
        /\ state' = [state EXCEPT ![u] = "completed"]
        /\ content' = [content EXCEPT ![u] =
                         [i \in DOMAIN parts[p] |-> stored[u][parts[p][i].n]]]
        /\ Exit(p, "ok") \/ GiveUp(p, "complete")
     \/ GiveUp(p, "complete") /\ UNCHANGED <<state, content>>
  /\ UNCHANGED <<uid, file, size, bytes, next, last, tries, parts, aborted, due, stored,
                 late, acked>>

\* AbortMultipartUpload; after a failed `all' its own outcome changes nothing.
AbortMultipart(p) ==
  LET u == uid[p] IN
  /\ Does(p, "abort", {"abort", "all"})
  /\ aborted' = [aborted EXCEPT ![p] = TRUE]
  /\ \/ /\ state[u] = "open"
        /\ state' = [state EXCEPT ![u] = "aborted"]
        /\ \/ Exit(p, "failed")
           \/ Job[p].action = "abort" /\ Exit(p, "ok")
     \/ Exit(p, "failed") /\ UNCHANGED state
  /\ UNCHANGED <<uid, file, size, bytes, next, last, tries, parts, due, stored, content,
                 late, acked>>

\* A process can be killed at any moment (an operator, SIGPIPE in the session
\* library, an OutOfMemoryError, which no catch clause sees).
Killed(p) ==
  /\ pc[p] # "exit"
  /\ Exit(p, "killed")
  /\ UNCHANGED <<uid, file, size, bytes, next, last, tries, parts, aborted, due,
                 serverVars, acked>>

\* Someone truncates the file of a process that has still to read from it.
Truncate(p) ==
  /\ p \in Truncates
  /\ pc[p] \in {"start", "plan", "read", "part"} /\ file[p] # << >>
  /\ file' = [file EXCEPT ![p] = Front(@)]
  /\ UNCHANGED <<procVars, serverVars, acked>>

\* The server comes to the end of a part nobody waits for any more.
LateStore(x) ==
  /\ late' = late \ {x}
  /\ IF state[x.u] = "open" THEN Store(x.u, x.n, x.data) ELSE UNCHANGED stored
  /\ UNCHANGED <<procVars, file, state, content, acked>>

Step(p) ==
  \/ CreateMultipart(p) \/ TakeUploadId(p) \/ PlanParts(p) \/ ReadAllBytes(p)
  \/ CUploadPart(p) \/ GoMapPart(p) \/ GoRetryPart(p) \/ GoUploadPart(p)
  \/ JavaUploadPart(p) \/ PythonUploadPart(p)
  \/ ListParts(p) \/ ListUploads(p) \/ CompleteMultipart(p) \/ AbortMultipart(p)

\* Nothing is left to do, or only for processes that wait for an upload id
\* nobody created.
Quiescent ==
  /\ late = {}
  /\ \A p \in Proc :
       \/ pc[p] = "exit"
       \/ /\ Does(p, "start", {"upload", "list", "complete", "abort"})
          /\ \A u \in Proc : state[u] = "none"
  /\ UNCHANGED vars

Next ==
  /\ \/ \E p \in Proc : Step(p) \/ Killed(p) \/ Truncate(p)
     \/ \E x \in late : LateStore(x)
     \/ Quiescent
  /\ UNCHANGED world

Spec == Init /\ [][Next]_vars

----------------------------------------------------------------------------
(* Properties.                                                             *)

Etag == [by : {"server", "client"}, of : Seq(Nat)]

\* Type correctness of the processes and of the server's uploads.
TypeOK ==
  /\ world \in Worlds
  /\ pc \in [Proc -> {"start", "plan", "read", "part", "send", "list", "complete",
                      "abort", "exit"}]
  /\ uid \in [Proc -> Proc \cup {None}]
  /\ file \in [Proc -> Seq(Nat)] /\ bytes \in [Proc -> Seq(Nat)]
  /\ size \in [Proc -> Nat] /\ next \in [Proc -> Nat] /\ last \in [Proc -> Nat]
  /\ tries \in [Proc -> 0 .. MaxRetries]
  /\ parts \in [Proc -> Seq([n : PartNumbers, etag : Etag])]
  /\ result \in [Proc -> {"none", "ok", "failed", "killed"}]
  /\ aborted \in [Proc -> BOOLEAN]
  /\ due \in [Proc -> SUBSET PartNumbers]
  /\ state \in [Proc -> {"none", "open", "completed", "aborted"}]
  /\ stored \in [Proc -> [PartNumbers -> Seq(Nat) \cup {None}]]
  /\ content \in [Proc -> Seq(Seq(Nat)) \cup {None}]
  /\ late \subseteq [u : Proc, n : PartNumbers, data : Seq(Nat)]
  /\ acked \in [Proc -> SUBSET PartNumbers]

\* The file of p, cut into parts, as it was when p looked at its size.
Planned(p) ==
  [n \in 1 .. NumParts("python", size[p]) |->
     Slice(InitFile[p], (n - 1) * PartSize, PartLen(size[p], n))]

\* An `all' in C or Go, whose parts can be counted in an int.
Checked(p) ==
  /\ Job[p].lang \in {"c", "go"} /\ Job[p].action = "all"
  /\ NumParts(Job[p].lang, size[p]) = NumParts("python", size[p])

\* When `all' in C or Go reports success, the object is the whole file in the
\* right order, as long as it was when the program looked: nothing was dropped
\* or damaged by a failed or repeated part, a truncation of the file or another
\* process's abort.
AllStoresWholeFile ==
  \A p \in Proc :
    Checked(p) /\ result[p] = "ok" => content[uid[p]] = Planned(p)

\* An `all' that ends with an error has aborted its upload, or tried to, or the
\* upload is not open any more.  C and Go do not abort when the completion
\* fails; then they leave every part stored, so that `complete' can be run.
FailedAllIsRecoverable ==
  \A p \in Proc :
    /\ Job[p].action = "all" /\ result[p] = "failed" /\ uid[p] # None
    /\ state[uid[p]] = "open" /\ ~aborted[p]
    => /\ Job[p].lang \in {"c", "go"}
       /\ Checked(p) =>
            \A n \in DOMAIN Planned(p) : stored[uid[p]][n] = Planned(p)[n]

\* The ETags sent with CompleteMultipartUpload are those the server gave.
CollectsServerEtags ==
  \A p \in Proc :
    pc[p] = "complete" =>
      \A i \in DOMAIN parts[p] : parts[p][i].etag.by = "server"

\* The offset of the last part fits the int that Java puts it in.
OffsetsFit(p) ==
  Job[p].lang = "java" => (last[p] - 1) * PartSize < 2^(IntBits - 1)

\* The object an `all' without -part makes has no hole and nothing out of
\* order, in any of the languages, even where a program does not notice that
\* its file shrinks, or where the number of parts does not fit its int and
\* wraps: it is the beginning of the file.  Not promised of a file that Java
\* cannot address with an int: it is larger than an array, and if it has shrunk
\* by the time it is read, a wrapped offset takes bytes from the wrong place.
AllStoresPrefix ==
  \A p \in Proc :
    Job[p].action = "all" /\ OffsetsFit(p) /\ result[p] = "ok" =>
      IsPrefix(FlattenSeq(content[uid[p]]), InitFile[p])

\* The object `complete' makes contains every part whose upload was confirmed,
\* to any process, before it asked for the list of parts, or those the server
\* put on the first page; and each of them with the contents that were listed,
\* although parts are uploaded again, arrive late and are added while it works.
AckedPartsSurvive ==
  \A p \in Proc :
    LET listed == {parts[p][i].n : i \in DOMAIN parts[p]} IN
    Job[p].action = "complete" /\ result[p] = "ok" =>
      /\ \A n \in due[p] \ listed :
           Len(parts[p]) = Page /\ \A m \in listed : m < n
      /\ CheckEtags =>
           content[uid[p]] = [i \in DOMAIN parts[p] |-> parts[p][i].etag.of]

=============================================================================
