---------------------------- MODULE MCMultipart ----------------------------
(***************************************************************************)
(* Small instances of Multipart: the command lines that run together,      *)
(* their files and the server's ways, for each question.                   *)
(***************************************************************************)
EXTENDS Multipart, TLC

CONSTANTS p1, p2, p3, p4, p5

Cmd(lang, action, part) == [lang |-> lang, action |-> action, part |-> part]

\* The given command lines; the other processes do nothing.
Jobs(cmds) == cmds @@ [p \in Proc |-> Cmd("c", "none", 0)]

\* A file of n bytes.  Three bytes make a full part and a short one.
Bytes(n) == [p \in Proc |-> [i \in 1 .. n |-> i]]

\* Another process has another file, of the same length.
OwnBytes == [p \in Proc |-> IF p = p1 THEN <<1, 2, 3>> ELSE <<4, 5, 6>>]

\* `all' in C and in Go, the latter with a -part, which it ignores, while
\* someone aborts uploads by hand.
Whole ==
  [job |-> Jobs(p1 :> Cmd("c", "all", 0) @@ p2 :> Cmd("go", "all", 1)
                @@ p3 :> Cmd("c", "abort", 0)),
   file |-> Bytes(3), truncates |-> {}, etags |-> FALSE, page |-> 3]

\* `all' in Java and in Python, and the manual abort.
Managed ==
  [job |-> Jobs(p1 :> Cmd("java", "all", 0) @@ p2 :> Cmd("python", "all", 0)
                @@ p3 :> Cmd("python", "abort", 0)),
   file |-> Bytes(3), truncates |-> {}, etags |-> FALSE, page |-> 3]

\* `all' of a file that is being truncated, and the manual abort.
Shrinking(lang) ==
  [job |-> Jobs(p1 :> Cmd(lang, "all", 0) @@ p3 :> Cmd("go", "abort", 0)),
   file |-> Bytes(3), truncates |-> {p1}, etags |-> FALSE, page |-> 3]

\* The same in Java, of a file that is too large for an array until it has
\* shrunk, and whose third part begins where an int ends.
Oversized ==
  [job |-> Jobs(p1 :> Cmd("java", "all", 0)),
   file |-> Bytes(5), truncates |-> {p1}, etags |-> FALSE, page |-> 3]

\* The manual flow: one process creates the upload, others upload its parts,
\* list and complete.
Manual ==
  [job |-> Jobs(p1 :> Cmd("go", "create", 0) @@ p2 :> Cmd("c", "upload", 1)
                @@ p3 :> Cmd("java", "upload", 0) @@ p4 :> Cmd("go", "complete", 0)
                @@ p5 :> Cmd("python", "list", 0)),
   file |-> OwnBytes, truncates |-> {}, etags |-> TRUE, page |-> 3]

\* The parts do not fit one page of the server's list; Go repeats its parts.
Paged ==
  [job |-> Jobs(p1 :> Cmd("c", "create", 0) @@ p2 :> Cmd("go", "upload", 0)
                @@ p3 :> Cmd("python", "upload", 1) @@ p4 :> Cmd("c", "complete", 0)
                @@ p5 :> Cmd("c", "list-uploads", 0)),
   file |-> OwnBytes, truncates |-> {}, etags |-> TRUE, page |-> 1]

\* As many bytes as make 5, 8 and 9 parts, of which an int of three bits
\* leaves -3, 0 and 1; one part more than the server accepts; and a -part
\* below zero.
ManyParts(lang, n, part) ==
  [job |-> Jobs(p1 :> Cmd(lang, "all", part)),
   file |-> Bytes(n), truncates |-> {}, etags |-> FALSE, page |-> 3]

PassWorlds ==
  {Whole, Managed, Manual, Paged, Oversized}
  \cup {Shrinking(lang) : lang \in Lang}
  \cup {ManyParts(lang, n, 0) : lang \in {"c", "java"}, n \in {9, 15, 17}}
  \cup {ManyParts("go", 3, -1), ManyParts("go", 7, 0)}

\* `all' in C with -part.
OnePartWorlds ==
  {[job |-> Jobs(p1 :> Cmd("c", "all", 1)),
    file |-> Bytes(3), truncates |-> {}, etags |-> FALSE, page |-> 3]}

\* `all' in C.
CAllWorlds ==
  {[job |-> Jobs(p1 :> Cmd("c", "all", 0)),
    file |-> Bytes(3), truncates |-> {}, etags |-> FALSE, page |-> 3]}

=============================================================================
