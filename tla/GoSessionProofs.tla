-------------------------- MODULE GoSessionProofs --------------------------
(***************************************************************************)
(* Proofs about GoSession, for any set of clients, any mix of the three    *)
(* programs and any number of parts.                                       *)
(*                                                                         *)
(* What keeps the sessions of a process apart is the stack of deferred     *)
(* calls.  The invariant says that it is always the first part of one      *)
(* fixed list per program, how much of it each step has pushed, and that   *)
(* exactly the things whose release is on the stack are held.              *)
(***************************************************************************)
EXTENDS GoSession, RdmaSessionProofs

----------------------------------------------------------------------------
(* The inductive invariant.                                                *)

\* The place of each deferred call: uploadPartRDMA has its buffer first, the
\* main functions of the other programs just before the region.
RankPart == [munmap |-> 1, ws |-> 2, ctx |-> 3, pd |-> 4, cq |-> 5, qp |-> 6, mr |-> 7]
RankMain == [ws |-> 1, ctx |-> 2, pd |-> 3, cq |-> 4, qp |-> 5, munmap |-> 6, mr |-> 7]

Rank(k, h) == IF k = "part" THEN RankPart[h] ELSE RankMain[h]

\* The release of h is on the stack.
Deferred(c, h) == Rank(kind[c], h) <= Len(stack[c])

GoTokenSent == {"close", "ready", "save"}

\* The stack is an initial part of the list.
GoStack(c) == \A i \in 1 .. Len(stack[c]) : Rank(kind[c], stack[c][i]) = i

\* How much each step has deferred.
GoDepth(c) ==
  LET n == Len(stack[c]) IN
  /\ pc[c] \in {"start", "returned", "exit"} => n = 0
  /\ pc[c] \in {"buf", "save"} => ~IsPart(c)
  /\ IsPart(c) =>
       /\ pc[c] \in {"dial", "register", "registered"} => n = 1
       /\ pc[c] = "open" => n = 2
       /\ pc[c] = "pd" => n = 3
       /\ pc[c] = "cq" => n = 4
       /\ pc[c] = "qp" => n = 5
       /\ pc[c] \in {"init", "query", "qpinfo", "paired", "rtr", "rts", "mr"} => n = 6
       /\ pc[c] \in {"token"} \cup GoTokenSent => n = 7
  /\ ~IsPart(c) =>
       /\ pc[c] = "dial" => n = 0
       /\ pc[c] \in {"register", "registered", "open"} => n = 1
       /\ pc[c] = "pd" => n = 2
       /\ pc[c] = "cq" => n = 3
       /\ pc[c] = "qp" => n = 4
       /\ pc[c] \in {"init", "query", "qpinfo", "paired", "rtr", "rts", "buf"} => n = 5
       /\ pc[c] = "mr" => n = 6
       /\ pc[c] \in {"token"} \cup GoTokenSent => n = 7

\* What is held is what will be released.
GoHeld(c) ==
  /\ \A h \in Handle \ {"s"} : h \in res[c] <=> Deferred(c, h)
  /\ buf[c] = "mapped" <=> Deferred(c, "munmap")
  /\ ws[c] = "open" => pc[c] \in {"register", "registered"} \/ Deferred(c, "ws")

GoQp(c) ==
  /\ qp[c] \in {"RTR", "RTS"} => Deferred(c, "qp")
  /\ pc[c] \in {"buf", "mr", "token"} \cup GoTokenSent => qp[c] = "RTS"
  /\ pc[c] \in {"token"} \cup GoTokenSent =>
       access[c] = IF kind[c] = "get" THEN Right ELSE {"remote_read"}

GoToken(c) ==
  srv[c] = "armed" \/ In("token", up[c]) =>
    pc[c] \in GoTokenSent \cup {"unwind", "returned", "exit"}

\* Every session starts on a connection of its own.
GoPeer(c) ==
  /\ pc[c] \in {"start", "dial"} =>
       srv[c] = "none" /\ up[c] = << >> /\ down[c] = << >>
  /\ (\/ In("qpinfo_server", down[c])
      \/ pc[c] \in {"rtr", "rts", "buf", "mr", "token"} \cup GoTokenSent
      \/ qp[c] \in {"RTR", "RTS"}) => srv[c] \in Answered

GoCInv(c) ==
  /\ GoStack(c) /\ GoDepth(c) /\ GoHeld(c) /\ GoQp(c) /\ GoToken(c) /\ GoPeer(c)

GoInv == GoTypeOK /\ \A c \in Client : GoCInv(c)

----------------------------------------------------------------------------
(* The frame of a step of one process.                                     *)

\* Only the state of client d changes, and no table of the server.
GoOnly(d) ==
  /\ pc' = [pc EXCEPT ![d] = pc'[d]]       /\ res' = [res EXCEPT ![d] = res'[d]]
  /\ access' = [access EXCEPT ![d] = access'[d]]
  /\ buf' = [buf EXCEPT ![d] = buf'[d]]    /\ qp' = [qp EXCEPT ![d] = qp'[d]]
  /\ ws' = [ws EXCEPT ![d] = ws'[d]]       /\ up' = [up EXCEPT ![d] = up'[d]]
  /\ down' = [down EXCEPT ![d] = down'[d]] /\ srv' = [srv EXCEPT ![d] = srv'[d]]
  /\ stack' = [stack EXCEPT ![d] = stack'[d]]
  /\ ok' = [ok EXCEPT ![d] = ok'[d]]       /\ left' = [left EXCEPT ![d] = left'[d]]
  /\ owner' = owner /\ kind' = kind

\* A step of a process touches no other process.
LEMMA GoFrame ==
  ASSUME GoTypeOK, NEW d \in Client, GoProcess(d)
  PROVE  GoOnly(d)
<1> USE DEF GoTypeOK, GoOnly, Goto, Succeed, serverVars, goOnly, Put, CloseConn
<1>1. CASE ReadFile(d) \/ HeadObject(d) \/ mmapPart(d) \/ Dial(d)
  BY <1>1 DEF ReadFile, HeadObject, mmapPart, Dial
<1>2. CASE OpenVerbs(d) \/ QueryPort(d) \/ ModifyQP(d) \/ Mmap(d) \/ RegMR(d)
  BY <1>2 DEF OpenVerbs, QueryPort, ModifyQP, Mmap, RegMR
<1>3. ASSUME NEW at, NEW m, NEW next, sendJSON(d, at, m, next) PROVE GoOnly(d)
  BY <1>3 DEF sendJSON
<1>4. ASSUME NEW at, NEW m, NEW next, recvJSON(d, at, m, next) PROVE GoOnly(d)
  BY <1>4 DEF recvJSON, Fail, ReturnError, Fatal
<1>5. CASE CloseEarly(d) \/ closeControlAfterToken(d) \/ PutReturned(d) \/ GetReturned(d)
  BY <1>5 DEF CloseEarly, closeControlAfterToken, PutReturned, GetReturned
<1>6. CASE CallFails(d)
  BY <1>6 DEF CallFails, Fail, ReturnError, Fatal
<1>7. CASE RunDeferred(d)
  BY <1>7 DEF RunDeferred
<1>8. CASE Returned(d) \/ PartLoop(d)
  BY <1>8 DEF Returned, PartLoop
<1> QED BY <1>1, <1>2, <1>3, <1>4, <1>5, <1>6, <1>7, <1>8
        DEF GoProcess, connectRDMAControl, ExchangeQPInfo, SendToken

\* The types of one process's state.
GoCType(c) ==
  /\ pc[c] \in GoStep /\ res[c] \subseteq Handle \ {"s"}
  /\ access[c] \subseteq Right /\ buf[c] \in {"none", "mapped"}
  /\ qp[c] \in {"none", "RESET", "INIT", "RTR", "RTS"}
  /\ ws[c] \in {"none", "open", "closed"}
  /\ up[c] \in Seq(UpMsg) /\ down[c] \in Seq(DownMsg)
  /\ srv[c] \in {"none", "connected", "registered", "paired", "armed", "gone"}
  /\ kind[c] \in {"put", "get", "part"} /\ stack[c] \in Seq(Deferrable)
  /\ ok[c] \in BOOLEAN /\ left[c] \in 0 .. PartsPerFile - 1

\* GoTypeOK has the endpoint's types and those of each process.
LEMMA GoParts ==
  ASSUME GoTypeOK
  PROVE  EndpointTypeOK /\ \A c \in Client : GoCType(c)
BY DEF GoTypeOK, EndpointTypeOK, GoCType

\* The types of the other processes are kept.
LEMMA GoTypeStep ==
  ASSUME GoTypeOK, NEW d \in Client, GoOnly(d), GoCType(d)'
  PROVE  GoTypeOK'
<1>1. pc' \in [Client -> GoStep]
  BY DEF GoTypeOK, GoOnly, GoCType
<1>2. res' \in [Client -> SUBSET (Handle \ {"s"})]
  <2>1. res'[d] \in SUBSET (Handle \ {"s"})
    BY DEF GoCType
  <2> QED BY <2>1 DEF GoTypeOK, GoOnly
<1>3. access' \in [Client -> SUBSET Right]
  <2>1. access'[d] \in SUBSET Right
    BY DEF GoCType
  <2> QED BY <2>1 DEF GoTypeOK, GoOnly
<1>4. buf' \in [Client -> {"none", "mapped"}]
  BY DEF GoTypeOK, GoOnly, GoCType
<1>5. qp' \in [Client -> {"none", "RESET", "INIT", "RTR", "RTS"}]
  BY DEF GoTypeOK, GoOnly, GoCType
<1>6. ws' \in [Client -> {"none", "open", "closed"}]
  BY DEF GoTypeOK, GoOnly, GoCType
<1>7. /\ up' \in [Client -> Seq(UpMsg)] /\ down' \in [Client -> Seq(DownMsg)]
      /\ stack' \in [Client -> Seq(Deferrable)]
  BY DEF GoTypeOK, GoOnly, GoCType
<1>8. srv' \in [Client -> {"none", "connected", "registered", "paired",
                          "armed", "gone"}]
  BY DEF GoTypeOK, GoOnly, GoCType
<1>9. ok' \in [Client -> BOOLEAN] /\ left' \in [Client -> 0 .. PartsPerFile - 1]
  BY DEF GoTypeOK, GoOnly, GoCType
<1> QED BY <1>1, <1>2, <1>3, <1>4, <1>5, <1>6, <1>7, <1>8, <1>9 DEF GoTypeOK, GoOnly

GoSame(c) == /\ Same(c) /\ kind'[c] = kind[c] /\ stack'[c] = stack[c]

\* A process whose state does not change keeps its invariant.
LEMMA GoSameInv ==
  ASSUME NEW c \in Client, GoCInv(c), GoSame(c)
  PROVE  GoCInv(c)'
BY DEF GoSame, Same, GoCInv, GoStack, GoDepth, GoHeld, GoQp, GoToken, GoPeer,
       Deferred, Rank, IsPart

----------------------------------------------------------------------------
(* The stack.                                                              *)

\* The places in the list, one by one.
LEMMA Ranks ==
  ASSUME NEW k
  PROVE  /\ k = "part" =>
              /\ Rank(k, "munmap") = 1 /\ Rank(k, "ws") = 2 /\ Rank(k, "ctx") = 3
              /\ Rank(k, "pd") = 4 /\ Rank(k, "cq") = 5 /\ Rank(k, "qp") = 6
         /\ k # "part" =>
              /\ Rank(k, "ws") = 1 /\ Rank(k, "ctx") = 2 /\ Rank(k, "pd") = 3
              /\ Rank(k, "cq") = 4 /\ Rank(k, "qp") = 5 /\ Rank(k, "munmap") = 6
         /\ Rank(k, "mr") = 7
BY DEF Rank, RankPart, RankMain

\* What is deferred after each call.
LEMMA DefersValues ==
  ASSUME NEW c \in Client
  PROVE  /\ Defers(c, "open") = <<"ctx">> /\ Defers(c, "pd") = <<"pd">>
         /\ Defers(c, "cq") = <<"cq">> /\ Defers(c, "qp") = <<"qp">>
         /\ Defers(c, "mr") = <<"mr">>
         /\ Defers(c, "start") = IF IsPart(c) THEN <<"munmap">> ELSE << >>
         /\ Defers(c, "buf") = IF IsPart(c) THEN << >> ELSE <<"munmap">>
         /\ Defers(c, "registered") = IF IsPart(c) THEN <<"ws">> ELSE << >>
         /\ Defers(c, "dial") = IF IsPart(c) THEN << >> ELSE <<"ws">>
         /\ \A at \in {"register", "init", "query", "qpinfo", "paired", "rtr", "rts",
                       "token", "close", "ready", "save"} : Defers(c, at) = << >>
BY DEF Defers, Obtains

\* Deferring one call more.
Pushed(d, x) ==
  /\ stack'[d] \in Seq(Deferrable) /\ Len(stack'[d]) = Len(stack[d]) + 1
  /\ stack'[d][Len(stack[d]) + 1] = x
  /\ \A i \in 1 .. Len(stack[d]) : stack'[d][i] = stack[d][i]

\* A successful call defers nothing or one call.
LEMMA SucceedEffect ==
  ASSUME GoTypeOK, NEW d \in Client, NEW at, NEW next, Succeed(d, at, next)
  PROVE  /\ pc[d] = at /\ pc'[d] = next /\ kind'[d] = kind[d]
         /\ ok'[d] = ok[d] /\ left'[d] = left[d]
         /\ Defers(d, at) = << >> => stack'[d] = stack[d]
         /\ \A x \in Deferrable : Defers(d, at) = <<x>> => Pushed(d, x)
<1>1. /\ pc[d] = at /\ pc'[d] = next /\ kind'[d] = kind[d]
      /\ ok'[d] = ok[d] /\ left'[d] = left[d]
      /\ stack'[d] = stack[d] \o Defers(d, at)
  BY DEF Succeed, Goto, GoTypeOK
<1>2. stack[d] \in Seq(Deferrable)
  BY DEF GoTypeOK
<1>3. stack[d] \o << >> = stack[d]
  BY <1>2
<1>4. ASSUME NEW x \in Deferrable, Defers(d, at) = <<x>> PROVE Pushed(d, x)
  <2>1. stack'[d] = Append(stack[d], x)
    BY <1>1, <1>2, <1>4
  <2> QED BY <1>2, <2>1 DEF Pushed
<1> QED BY <1>1, <1>3, <1>4

\* Popping the stack.
LEMMA Popped ==
  ASSUME NEW s \in Seq(Deferrable), s # << >>
  PROVE  LET t == SubSeq(s, 1, Len(s) - 1) IN
         /\ Len(s) \in Nat \ {0} /\ s[Len(s)] \in Deferrable
         /\ t \in Seq(Deferrable) /\ Len(t) = Len(s) - 1
         /\ \A i \in 1 .. Len(t) : t[i] = s[i]
<1>1. Len(s) \in Nat \ {0}
  BY EmptySeq
<1>2. \A i \in 1 .. Len(s) : s[i] \in Deferrable
  BY ElementOfSeq
<1>3. Len(s) - 1 \in Int /\ \A i \in 1 .. Len(s) - 1 : s[i] \in Deferrable
  BY <1>1, <1>2
<1> DEFINE t == SubSeq(s, 1, Len(s) - 1)
<1>4. /\ t \in Seq(Deferrable)
      /\ Len(t) = IF 1 <= Len(s) - 1 THEN (Len(s) - 1) - 1 + 1 ELSE 0
      /\ \A i \in 1 .. (Len(s) - 1) - 1 + 1 : t[i] = s[1 + i - 1]
  BY <1>3, 1 \in Int, SubSeqProperties
<1> HIDE DEF t
<1>5. Len(t) = Len(s) - 1
  <2>1. CASE Len(s) = 1
    BY <1>4, <2>1
  <2>2. CASE Len(s) # 1
    <3>1. 1 <= Len(s) - 1 /\ (Len(s) - 1) - 1 + 1 = Len(s) - 1
      BY <1>1, <2>2
    <3>2. Len(t) = (Len(s) - 1) - 1 + 1
      BY <1>4, <3>1
    <3> QED BY <3>1, <3>2
  <2> QED BY <2>1, <2>2
<1>6. ASSUME NEW i \in 1 .. Len(t) PROVE t[i] = s[i]
  <2>1. i \in 1 .. (Len(s) - 1) - 1 + 1 /\ 1 + i - 1 = i
    BY <1>1, <1>5
  <2> QED BY <1>4, <2>1
<1>7. s[Len(s)] \in Deferrable
  BY <1>1, <1>2
<1>8. /\ Len(s) \in Nat \ {0} /\ s[Len(s)] \in Deferrable
      /\ t \in Seq(Deferrable) /\ Len(t) = Len(s) - 1
      /\ \A i \in 1 .. Len(t) : t[i] = s[i]
  BY <1>1, <1>4, <1>5, <1>6, <1>7
<1> QED BY <1>8 DEF t

\* Pushing the next call of the list, or none, leaves a part of the list.
LEMMA StackKept ==
  ASSUME NEW d \in Client, GoStack(d), stack[d] \in Seq(Deferrable),
         kind'[d] = kind[d],
         \/ stack'[d] = stack[d]
         \/ \E x : Pushed(d, x) /\ Rank(kind[d], x) = Len(stack[d]) + 1
  PROVE  GoStack(d)' /\ stack'[d] \in Seq(Deferrable)
<1>1. CASE stack'[d] = stack[d]
  BY <1>1 DEF GoStack
<1>2. CASE \E x : Pushed(d, x) /\ Rank(kind[d], x) = Len(stack[d]) + 1
  <2>1. PICK x : Pushed(d, x) /\ Rank(kind[d], x) = Len(stack[d]) + 1
    BY <1>2
  <2>2. ASSUME NEW i \in 1 .. Len(stack'[d]) PROVE Rank(kind[d], stack'[d][i]) = i
    <3>1. CASE i = Len(stack[d]) + 1
      BY <2>1, <3>1 DEF Pushed
    <3>2. CASE i # Len(stack[d]) + 1
      BY <2>1, <3>2 DEF Pushed, GoStack
    <3> QED BY <3>1, <3>2
  <2> QED BY <2>1, <2>2 DEF GoStack, Pushed
<1> QED BY <1>1, <1>2

\* The places are different.
LEMMA RankInj ==
  ASSUME NEW k
  PROVE  /\ \A h \in Deferrable : Rank(k, h) \in 1 .. 7
         /\ \A h, g \in Deferrable : Rank(k, h) = Rank(k, g) => h = g
<1>1. CASE k = "part"
  <2>1. /\ Rank(k, "munmap") = 1 /\ Rank(k, "ws") = 2 /\ Rank(k, "ctx") = 3
        /\ Rank(k, "pd") = 4 /\ Rank(k, "cq") = 5 /\ Rank(k, "qp") = 6
        /\ Rank(k, "mr") = 7
    BY <1>1, Ranks
  <2> QED BY <2>1 DEF Deferrable
<1>2. CASE k # "part"
  <2>1. /\ Rank(k, "ws") = 1 /\ Rank(k, "ctx") = 2 /\ Rank(k, "pd") = 3
        /\ Rank(k, "cq") = 4 /\ Rank(k, "qp") = 5 /\ Rank(k, "munmap") = 6
        /\ Rank(k, "mr") = 7
    BY <1>2, Ranks
  <2> QED BY <2>1 DEF Deferrable
<1> QED BY <1>1, <1>2

\* When one thing more is obtained and its release deferred, what is held is
\* still what will be released.
LEMMA HeldPush ==
  ASSUME GoTypeOK, NEW d \in Client, GoHeld(d), NEW x \in Deferrable,
         kind'[d] = kind[d], Rank(kind[d], x) = Len(stack[d]) + 1,
         Len(stack'[d]) = Len(stack[d]) + 1,
         \A h \in Handle \ {"s"} : h \in res'[d] <=> h \in res[d] \/ h = x,
         buf'[d] = "mapped" <=> buf[d] = "mapped" \/ x = "munmap",
         ws'[d] = "open" =>
           pc'[d] \in {"register", "registered"} \/ Deferred(d, "ws") \/ x = "ws"
  PROVE  GoHeld(d)'
<1>1. Len(stack[d]) \in Nat
  BY DEF GoTypeOK
<1>2. \A h \in Deferrable : Rank(kind[d], h) \in 1 .. 7
  BY RankInj
<1>3. \A h \in Deferrable : Rank(kind[d], h) = Rank(kind[d], x) => h = x
  BY RankInj
<1>4. \A h \in Deferrable : Rank(kind[d], h) <= Len(stack[d]) + 1 <=>
                              Rank(kind[d], h) <= Len(stack[d]) \/ h = x
  BY <1>1, <1>2, <1>3
<1>5. \A h \in Deferrable : Deferred(d, h)' <=> Deferred(d, h) \/ h = x
  BY <1>4 DEF Deferred
<1>6. Handle \ {"s"} \subseteq Deferrable /\ {"munmap", "ws"} \subseteq Deferrable
  BY DEF Handle, Deferrable
<1> QED BY <1>5, <1>6 DEF GoHeld

\* When nothing is obtained or released, nothing about it changes.
LEMMA HeldKept ==
  ASSUME GoTypeOK, NEW d \in Client, GoHeld(d), kind'[d] = kind[d],
         Len(stack'[d]) = Len(stack[d]), res'[d] = res[d], buf'[d] = buf[d],
         ws'[d] = "open" =>
           pc'[d] \in {"register", "registered"} \/ Deferred(d, "ws")
  PROVE  GoHeld(d)'
<1>1. \A h : Deferred(d, h)' <=> Deferred(d, h)
  BY DEF Deferred
<1> QED BY <1>1 DEF GoHeld

\* At each call, the release of what it obtains is the next of the list.
LEMMA NextRank ==
  ASSUME GoTypeOK, NEW d \in Client, GoDepth(d)
  PROVE  /\ pc[d] = "start" /\ IsPart(d) => Rank(kind[d], "munmap") = Len(stack[d]) + 1
         /\ pc[d] = "buf" => Rank(kind[d], "munmap") = Len(stack[d]) + 1
         /\ pc[d] = "registered" /\ IsPart(d) => Rank(kind[d], "ws") = Len(stack[d]) + 1
         /\ pc[d] = "dial" /\ ~IsPart(d) => Rank(kind[d], "ws") = Len(stack[d]) + 1
         /\ pc[d] = "open" => Rank(kind[d], "ctx") = Len(stack[d]) + 1
         /\ pc[d] = "pd" => Rank(kind[d], "pd") = Len(stack[d]) + 1
         /\ pc[d] = "cq" => Rank(kind[d], "cq") = Len(stack[d]) + 1
         /\ pc[d] = "qp" => Rank(kind[d], "qp") = Len(stack[d]) + 1
         /\ pc[d] = "mr" => Rank(kind[d], "mr") = Len(stack[d]) + 1
<1>0. /\ Len(stack[d]) = 0 => Len(stack[d]) + 1 = 1
      /\ Len(stack[d]) = 1 => Len(stack[d]) + 1 = 2
      /\ Len(stack[d]) = 2 => Len(stack[d]) + 1 = 3
      /\ Len(stack[d]) = 3 => Len(stack[d]) + 1 = 4
      /\ Len(stack[d]) = 4 => Len(stack[d]) + 1 = 5
      /\ Len(stack[d]) = 5 => Len(stack[d]) + 1 = 6
      /\ Len(stack[d]) = 6 => Len(stack[d]) + 1 = 7
  <2>1. \A n \in Nat :
          /\ (n = 0 => n + 1 = 1) /\ (n = 1 => n + 1 = 2) /\ (n = 2 => n + 1 = 3)
          /\ (n = 3 => n + 1 = 4) /\ (n = 4 => n + 1 = 5) /\ (n = 5 => n + 1 = 6)
          /\ (n = 6 => n + 1 = 7)
    OBVIOUS
  <2>2. Len(stack[d]) \in Nat
    BY DEF GoTypeOK
  <2> QED BY <2>1, <2>2, Zenon
<1>1. CASE kind[d] = "part"
  <2>1. /\ Rank(kind[d], "munmap") = 1 /\ Rank(kind[d], "ws") = 2
        /\ Rank(kind[d], "ctx") = 3 /\ Rank(kind[d], "pd") = 4
        /\ Rank(kind[d], "cq") = 5 /\ Rank(kind[d], "qp") = 6
        /\ Rank(kind[d], "mr") = 7
    BY <1>1, Ranks
  <2> QED BY <1>0, <1>1, <2>1, Zenon DEF GoDepth, IsPart
<1>2. CASE kind[d] # "part"
  <2>1. /\ Rank(kind[d], "ws") = 1 /\ Rank(kind[d], "ctx") = 2
        /\ Rank(kind[d], "pd") = 3 /\ Rank(kind[d], "cq") = 4
        /\ Rank(kind[d], "qp") = 5 /\ Rank(kind[d], "munmap") = 6
        /\ Rank(kind[d], "mr") = 7
    BY <1>2, Ranks
  <2> QED BY <1>0, <1>2, <2>1, Zenon DEF GoDepth, IsPart
<1> QED BY <1>1, <1>2

----------------------------------------------------------------------------
(* What the building blocks do to the process that calls them.             *)

\* The call at `at` has succeeded, and n calls more are deferred.
Advanced(d, at, next, n) ==
  /\ pc[d] = at /\ pc'[d] = next /\ kind'[d] = kind[d]
  /\ ok'[d] = ok[d] /\ left'[d] = left[d]
  /\ GoStack(d)' /\ stack'[d] \in Seq(Deferrable)
  /\ Len(stack'[d]) = Len(stack[d]) + n

\* A call after which nothing is deferred.
LEMMA AdvanceNone ==
  ASSUME GoTypeOK, NEW d \in Client, GoStack(d), NEW at, NEW next,
         Succeed(d, at, next), Defers(d, at) = << >>
  PROVE  Advanced(d, at, next, 0)
<1>1. stack[d] \in Seq(Deferrable) /\ Len(stack[d]) \in Nat
  BY DEF GoTypeOK
<1>2. stack'[d] = stack[d]
  BY SucceedEffect
<1>3. GoStack(d)' /\ stack'[d] \in Seq(Deferrable)
  BY <1>1, <1>2, SucceedEffect, StackKept
<1>4. Len(stack'[d]) = Len(stack[d]) + 0
  BY <1>1, <1>2
<1> QED BY <1>3, <1>4, SucceedEffect DEF Advanced

\* A call whose defer statement is the next of the list.
LEMMA AdvanceOne ==
  ASSUME GoTypeOK, NEW d \in Client, GoStack(d), NEW at, NEW next,
         NEW x \in Deferrable, Succeed(d, at, next), Defers(d, at) = <<x>>,
         Rank(kind[d], x) = Len(stack[d]) + 1
  PROVE  Advanced(d, at, next, 1)
<1>1. stack[d] \in Seq(Deferrable)
  BY DEF GoTypeOK
<1>2. Pushed(d, x)
  BY SucceedEffect
<1>3. GoStack(d)' /\ stack'[d] \in Seq(Deferrable)
  BY <1>1, <1>2, SucceedEffect, StackKept
<1>4. Len(stack'[d]) = Len(stack[d]) + 1
  BY <1>2 DEF Pushed
<1> QED BY <1>3, <1>4, SucceedEffect DEF Advanced

\* Nothing is sent, received, opened or closed.
Quiet(d) == /\ ws'[d] = ws[d] /\ up'[d] = up[d] /\ down'[d] = down[d]
            /\ srv'[d] = srv[d]

\* A close frame is the only thing that can have been sent.
Closing(d) == /\ up'[d] \in Seq(UpMsg)
              /\ In("token", up'[d]) => In("token", up[d])

\* Closing the connection sends no token.
LEMMA CloseEffect ==
  ASSUME GoTypeOK, NEW d \in Client, CloseConn(d)
  PROVE  /\ ws'[d] = IF ws[d] = "open" THEN "closed" ELSE ws[d]
         /\ Closing(d)
<1>1. EndpointTypeOK /\ "closeframe" \in UpMsg
  BY GoParts DEF UpMsg
<1>2. /\ ws'[d] = IF ws[d] = "open" THEN "closed" ELSE ws[d]
      /\ up'[d] \in {up[d], Append(up[d], "closeframe")}
  BY DEF CloseConn, Put, GoTypeOK
<1>3. up[d] \in Seq(UpMsg) /\ Append(up[d], "closeframe") \in Seq(UpMsg)
  BY <1>1 DEF EndpointTypeOK
<1> QED BY <1>1, <1>2, <1>3, ChannelFacts DEF Closing

\* uploadPartRDMA returns an error: what is deferred stays so.
ReturnedError(d) ==
  /\ kind[d] = "part" /\ pc'[d] = "unwind" /\ ok'[d] = FALSE
  /\ \/ pc[d] \in {"register", "registered"} /\ ws'[d] # "open"
     \/ pc[d] \notin {"register", "registered"} /\ ws'[d] = ws[d]
  /\ ws'[d] \in {"none", "open", "closed"} /\ Closing(d)
  /\ res'[d] = res[d] /\ access'[d] = access[d] /\ buf'[d] = buf[d]
  /\ qp'[d] = qp[d] /\ stack'[d] = stack[d]

\* log.Fatal: everything is gone.
Died(d) ==
  /\ kind[d] # "part" /\ pc'[d] = "exit" /\ ok'[d] = ok[d]
  /\ res'[d] = {} /\ access'[d] = {} /\ buf'[d] = "none" /\ qp'[d] = "none"
  /\ stack'[d] = << >>
  /\ ws'[d] \in {"none", "closed"} /\ Closing(d)

\* A failure ends the part or the program.
LEMMA FailEffect ==
  ASSUME GoTypeOK, NEW d \in Client, Fail(d)
  PROVE  /\ kind'[d] = kind[d] /\ left'[d] = left[d]
         /\ ReturnedError(d) \/ Died(d)
<1>1. kind'[d] = kind[d] /\ left'[d] = left[d]
  BY DEF Fail
<1>2. up[d] \in Seq(UpMsg) /\ ws[d] \in {"none", "open", "closed"}
  BY DEF GoTypeOK
<1>3. CASE IsPart(d)
  <2>1. /\ kind[d] = "part" /\ pc'[d] = "unwind" /\ ok'[d] = FALSE
        /\ res'[d] = res[d] /\ access'[d] = access[d] /\ buf'[d] = buf[d]
        /\ qp'[d] = qp[d] /\ stack'[d] = stack[d]
        /\ \/ pc[d] \in {"register", "registered"} /\ CloseConn(d)
           \/ /\ pc[d] \notin {"register", "registered"}
              /\ ws'[d] = ws[d] /\ up'[d] = up[d]
    BY <1>3 DEF Fail, ReturnError, IsPart, GoTypeOK
  <2> QED BY <1>1, <1>2, <2>1, CloseEffect DEF ReturnedError, Closing
<1>4. CASE ~IsPart(d)
  <2>1. /\ kind[d] # "part" /\ pc'[d] = "exit" /\ ok'[d] = ok[d]
        /\ res'[d] = {} /\ access'[d] = {} /\ buf'[d] = "none" /\ qp'[d] = "none"
        /\ stack'[d] = << >> /\ CloseConn(d)
    BY <1>4 DEF Fail, Fatal, IsPart, GoTypeOK
  <2> QED BY <1>1, <1>2, <2>1, CloseEffect DEF Died
<1> QED BY <1>3, <1>4

----------------------------------------------------------------------------
(* Every step of a process keeps its invariant.                            *)

\* A failed call, wherever it happens and whatever was received before it.
LEMMA GoFailInv ==
  ASSUME GoTypeOK, NEW d \in Client, GoCInv(d), Fail(d),
         pc[d] \in CallStep \cup {"registered", "paired"},
         srv'[d] = srv[d], down'[d] \in Seq(DownMsg),
         In("qpinfo_server", down'[d]) => In("qpinfo_server", down[d])
  PROVE  GoCInv(d)' /\ GoCType(d)'
<1>0. GoCType(d) /\ Len(stack[d]) \in Nat
  BY GoParts DEF GoCType
<1>r. /\ kind[d] = "part" =>
           /\ Rank(kind[d], "munmap") = 1 /\ Rank(kind[d], "ws") = 2
           /\ Rank(kind[d], "ctx") = 3 /\ Rank(kind[d], "pd") = 4
           /\ Rank(kind[d], "cq") = 5 /\ Rank(kind[d], "qp") = 6
      /\ kind[d] # "part" =>
           /\ Rank(kind[d], "ws") = 1 /\ Rank(kind[d], "ctx") = 2
           /\ Rank(kind[d], "pd") = 3 /\ Rank(kind[d], "cq") = 4
           /\ Rank(kind[d], "qp") = 5 /\ Rank(kind[d], "munmap") = 6
      /\ Rank(kind[d], "mr") = 7
  BY Ranks
<1>s. GoStack(d)
  BY DEF GoCInv
<1> USE <1>0, <1>r DEF GoCInv, GoDepth, GoHeld, GoQp, GoToken, GoPeer, GoCType,
      GoTokenSent, Deferred, IsPart, Answered, GoStep, Handle
<1>1. kind'[d] = kind[d] /\ left'[d] = left[d]
  BY FailEffect
<1>2. CASE ReturnedError(d)
  <2>1. GoStack(d)'
    BY <1>1, <1>2, <1>s, StackKept DEF ReturnedError
  <2>2. GoDepth(d)' /\ GoHeld(d)'
    BY <1>1, <1>2 DEF ReturnedError
  <2>3. GoQp(d)' /\ GoToken(d)' /\ GoPeer(d)'
    BY <1>1, <1>2 DEF ReturnedError, Closing, CallStep
  <2>4. GoCType(d)'
    BY <1>1, <1>2 DEF ReturnedError, Closing
  <2> QED BY <2>1, <2>2, <2>3, <2>4
<1>3. CASE Died(d)
  <2>1. stack'[d] = << >> /\ Len(stack'[d]) = 0 /\ stack'[d] \in Seq(Deferrable)
    BY <1>3 DEF Died
  <2>2. GoStack(d)'
    BY <2>1 DEF GoStack
  <2>3. GoDepth(d)' /\ GoHeld(d)'
    BY <1>1, <1>3, <2>1 DEF Died
  <2>4. GoQp(d)' /\ GoToken(d)' /\ GoPeer(d)'
    BY <1>1, <1>3, <2>1 DEF Died, Closing, CallStep
  <2>5. GoCType(d)'
    BY <1>1, <1>3, <2>1 DEF Died, Closing
  <2> QED BY <2>2, <2>3, <2>4, <2>5
<1> QED BY <1>2, <1>3, FailEffect

\* The message is sent, or lost at a server that is gone.
LEMMA GoPut ==
  ASSUME GoTypeOK, NEW d \in Client, NEW m \in UpMsg, Put(d, m)
  PROVE  /\ up'[d] \in Seq(UpMsg)
         /\ In("token", up'[d]) => In("token", up[d]) \/ m = "token"
<1>1. EndpointTypeOK
  BY GoParts
<1>2. up'[d] \in {up[d], Append(up[d], m)} /\ up[d] \in Seq(UpMsg)
  BY DEF Put, GoTypeOK
<1>3. Append(up[d], m) \in Seq(UpMsg)
  BY <1>2
<1> QED BY <1>1, <1>2, <1>3, ChannelFacts

\* The calls before the session's own connection: the file, the size of the
\* object, or the part's buffer.  Then the connection.
LEMMA GoStartInv ==
  ASSUME GoTypeOK, NEW d \in Client, GoCInv(d),
         ReadFile(d) \/ HeadObject(d) \/ mmapPart(d) \/ Dial(d)
  PROVE  GoCInv(d)' /\ GoCType(d)'
<1>0. GoCType(d) /\ Len(stack[d]) \in Nat
  BY GoParts DEF GoCType
<1>r. /\ kind[d] = "part" =>
           /\ Rank(kind[d], "munmap") = 1 /\ Rank(kind[d], "ws") = 2
           /\ Rank(kind[d], "ctx") = 3 /\ Rank(kind[d], "pd") = 4
           /\ Rank(kind[d], "cq") = 5 /\ Rank(kind[d], "qp") = 6
      /\ kind[d] # "part" =>
           /\ Rank(kind[d], "ws") = 1 /\ Rank(kind[d], "ctx") = 2
           /\ Rank(kind[d], "pd") = 3 /\ Rank(kind[d], "cq") = 4
           /\ Rank(kind[d], "qp") = 5 /\ Rank(kind[d], "munmap") = 6
      /\ Rank(kind[d], "mr") = 7
  BY Ranks
<1>s. GoStack(d)
  BY DEF GoCInv
<1> USE <1>0, <1>r DEF GoCInv, GoDepth, GoHeld, GoQp, GoToken, GoPeer, GoCType,
      GoTokenSent, Deferred, IsPart, Answered, GoStep, Handle
<1>1. CASE ReadFile(d) \/ HeadObject(d)
  <2>1. Advanced(d, "start", "dial", 0)
    BY <1>1, <1>s, AdvanceNone, DefersValues DEF ReadFile, HeadObject
  <2>2. /\ kind[d] # "part" /\ res'[d] = res[d] /\ access'[d] = access[d]
        /\ buf'[d] = buf[d] /\ qp'[d] = qp[d] /\ Quiet(d)
    BY <1>1 DEF ReadFile, HeadObject, Quiet, serverVars
  <2> QED BY <2>1, <2>2 DEF Advanced, Quiet
<1>2. CASE mmapPart(d)
  <2>1. Advanced(d, "start", "dial", 1)
    <3>1. pc[d] = "start" /\ Defers(d, "start") = <<"munmap">> /\ kind[d] = "part"
      BY <1>2, DefersValues DEF mmapPart, Succeed, Goto
    <3> QED BY <1>2, <1>s, <3>1, AdvanceOne DEF mmapPart, Deferrable
  <2>2. /\ kind[d] = "part" /\ res'[d] = res[d] /\ access'[d] = access[d]
        /\ buf'[d] = "mapped" /\ qp'[d] = qp[d] /\ Quiet(d)
    BY <1>2 DEF mmapPart, Quiet, serverVars, GoTypeOK
  <2> QED BY <2>1, <2>2 DEF Advanced, Quiet
<1>3. CASE Dial(d)
  <2>1. /\ res'[d] = res[d] /\ access'[d] = access[d] /\ buf'[d] = buf[d]
        /\ qp'[d] = qp[d] /\ up'[d] = up[d] /\ down'[d] = down[d]
        /\ ws'[d] = "open" /\ srv'[d] = "connected" /\ pc[d] = "dial"
    BY <1>3 DEF Dial, Succeed, Goto, GoTypeOK
  <2>2. CASE kind[d] = "part"
    <3>1. Advanced(d, "dial", "register", 0)
      BY <1>3, <1>s, <2>2, AdvanceNone, DefersValues DEF Dial
    <3> QED BY <2>1, <2>2, <3>1, InEmpty DEF Advanced
  <2>3. CASE kind[d] # "part"
    <3>1. Defers(d, "dial") = <<"ws">>
      BY <2>3, DefersValues
    <3>2. Advanced(d, "dial", "register", 1)
      BY <1>3, <1>s, <2>1, <2>3, <3>1, AdvanceOne DEF Dial, Deferrable
    <3> QED BY <2>1, <2>3, <3>2, InEmpty DEF Advanced
  <2> QED BY <2>2, <2>3
<1> QED BY <1>1, <1>2, <1>3

GoSent(d, at, m, next) ==
  /\ Advanced(d, at, next, 0)
  /\ up'[d] \in Seq(UpMsg)
  /\ In("token", up'[d]) => In("token", up[d]) \/ m = "token"
  /\ res'[d] = res[d] /\ access'[d] = access[d] /\ buf'[d] = buf[d]
  /\ qp'[d] = qp[d] /\ ws'[d] = ws[d] /\ down'[d] = down[d] /\ srv'[d] = srv[d]

\* A message that is sent changes the channel and the step.
LEMMA GoSendEffect ==
  ASSUME GoTypeOK, NEW d \in Client, GoStack(d), NEW m \in UpMsg, NEW next,
         NEW at \in {"register", "qpinfo", "token"}, sendJSON(d, at, m, next)
  PROVE  GoSent(d, at, m, next)
<1>1. Advanced(d, at, next, 0)
  BY AdvanceNone, DefersValues DEF sendJSON
<1>2. Put(d, m)
  BY DEF sendJSON
<1> QED BY <1>1, <1>2, GoPut DEF GoSent, sendJSON, serverVars

GoReceived(d, at, m, next) ==
  /\ Succeed(d, at, next) /\ In(m, down[d])
  /\ res'[d] = res[d] /\ access'[d] = access[d] /\ buf'[d] = buf[d]
  /\ qp'[d] = qp[d] /\ ws'[d] = ws[d] /\ up'[d] = up[d]

\* The expected message is received, or the call fails.
LEMMA GoRecvEffect ==
  ASSUME GoTypeOK, NEW d \in Client, NEW at, NEW m, NEW next, recvJSON(d, at, m, next)
  PROVE  /\ pc[d] = at /\ srv'[d] = srv[d] /\ down'[d] \in Seq(DownMsg)
         /\ In("qpinfo_server", down'[d]) => In("qpinfo_server", down[d])
         /\ Fail(d) \/ GoReceived(d, at, m, next)
<1>1. /\ pc[d] = at /\ down[d] # << >> /\ down'[d] = Tail(down[d])
      /\ srv'[d] = srv[d] /\ down[d] \in Seq(DownMsg)
      /\ \/ Fail(d)
         \/ /\ Succeed(d, at, next) /\ Head(down[d]) = m
            /\ res'[d] = res[d] /\ access'[d] = access[d]
            /\ buf'[d] = buf[d] /\ qp'[d] = qp[d] /\ ws'[d] = ws[d]
            /\ up'[d] = up[d]
  BY DEF recvJSON, serverVars, GoTypeOK
<1>2. /\ Tail(down[d]) \in Seq(DownMsg) /\ In(Head(down[d]), down[d])
      /\ \A x : In(x, Tail(down[d])) => In(x, down[d])
  BY <1>1, HeadTailProperties, InHead, InTail
<1> QED BY <1>1, <1>2 DEF GoReceived

\* What is deferred when the device is opened.
LEMMA OpenDepth ==
  ASSUME NEW d, pc'[d] = "open", kind'[d] = kind[d],
         Len(stack'[d]) = IF kind[d] = "part" THEN 2 ELSE 1
  PROVE  GoDepth(d)'
BY DEF GoDepth, IsPart, GoTokenSent

\* The messages of the control connection.
LEMMA GoMessageInv ==
  ASSUME GoTypeOK, NEW d \in Client, GoCInv(d),
         \/ sendJSON(d, "register", "register_request", "registered")
         \/ recvJSON(d, "registered", "register_ok", "open")
         \/ ExchangeQPInfo(d) \/ SendToken(d)
  PROVE  GoCInv(d)' /\ GoCType(d)'
<1>0. GoCType(d) /\ Len(stack[d]) \in Nat
  BY GoParts DEF GoCType
<1>r. /\ kind[d] = "part" =>
           /\ Rank(kind[d], "munmap") = 1 /\ Rank(kind[d], "ws") = 2
           /\ Rank(kind[d], "ctx") = 3 /\ Rank(kind[d], "pd") = 4
           /\ Rank(kind[d], "cq") = 5 /\ Rank(kind[d], "qp") = 6
      /\ kind[d] # "part" =>
           /\ Rank(kind[d], "ws") = 1 /\ Rank(kind[d], "ctx") = 2
           /\ Rank(kind[d], "pd") = 3 /\ Rank(kind[d], "cq") = 4
           /\ Rank(kind[d], "qp") = 5 /\ Rank(kind[d], "munmap") = 6
      /\ Rank(kind[d], "mr") = 7
  BY Ranks
<1>s. GoStack(d)
  BY DEF GoCInv
<1>n. pc[d] = "registered" => Len(stack[d]) = 1
  BY DEF GoCInv, GoDepth, IsPart
<1> USE <1>0, <1>r DEF GoCInv, GoDepth, GoHeld, GoQp, GoToken, GoPeer, GoCType,
      GoTokenSent, Deferred, IsPart, Answered, GoStep, Handle
<1>m. {"register_request", "qpinfo_client", "token"} \subseteq UpMsg
  BY DEF UpMsg
<1>2. CASE sendJSON(d, "register", "register_request", "registered")
  <2>1. GoSent(d, "register", "register_request", "registered")
    BY <1>2, <1>m, <1>s, GoSendEffect
  <2> QED BY <2>1 DEF GoSent, Advanced
<1>3. CASE sendJSON(d, "qpinfo", "qpinfo_client", "paired")
  <2>1. GoSent(d, "qpinfo", "qpinfo_client", "paired")
    BY <1>3, <1>m, <1>s, GoSendEffect
  <2> QED BY <2>1 DEF GoSent, Advanced
<1>4. CASE sendJSON(d, "token", "token", "close")
  <2>1. GoSent(d, "token", "token", "close")
    BY <1>4, <1>m, <1>s, GoSendEffect
  <2> QED BY <2>1 DEF GoSent, Advanced
<1>6. CASE recvJSON(d, "registered", "register_ok", "open")
  <2>0. /\ pc[d] = "registered" /\ srv'[d] = srv[d] /\ down'[d] \in Seq(DownMsg)
        /\ In("qpinfo_server", down'[d]) => In("qpinfo_server", down[d])
        /\ Fail(d) \/ GoReceived(d, "registered", "register_ok", "open")
    BY <1>6, GoRecvEffect
  <2>1. CASE Fail(d)
    BY <2>0, <2>1, GoFailInv
  <2>2. CASE GoReceived(d, "registered", "register_ok", "open")
    <3>1. Succeed(d, "registered", "open")
      BY <2>2 DEF GoReceived
    <3>2. CASE kind[d] = "part"
      <4>1. Defers(d, "registered") = <<"ws">> /\ "ws" \in Deferrable
        BY <3>2, DefersValues DEF Deferrable
      <4>2. Rank(kind[d], "ws") = Len(stack[d]) + 1
        BY <2>0, <3>2, NextRank
      <4>3. Advanced(d, "registered", "open", 1)
        BY <1>s, <3>1, <4>1, <4>2, AdvanceOne
      <4>4. Len(stack'[d]) = 1 + 1
        BY <1>n, <2>0, <4>3 DEF Advanced
      <4>5. GoDepth(d)'
        <5>1. pc'[d] = "open" /\ kind'[d] = kind[d]
          BY <4>3 DEF Advanced
        <5> HIDE <1>0, <1>r DEF GoCInv, GoDepth, GoHeld, GoQp, GoToken, GoPeer,
              GoCType, GoTokenSent, Deferred, IsPart, Answered, GoStep, Handle
        <5>2. Len(stack'[d]) = IF kind[d] = "part" THEN 2 ELSE 1
          BY <3>2, <4>4
        <5> QED BY <5>1, <5>2, OpenDepth
      <4>a. GoHeld(d)'
        <5>1. GoHeld(d) /\ "ws" \notin Handle
          OBVIOUS
        <5>2. /\ res'[d] = res[d] /\ buf'[d] = buf[d] /\ kind'[d] = kind[d]
              /\ Len(stack'[d]) = Len(stack[d]) + 1
          BY <2>2, <4>3 DEF GoReceived, Advanced
        <5> HIDE DEF GoHeld, GoCInv, Handle
        <5> QED BY <4>1, <4>2, <5>1, <5>2, HeldPush
      <4>6. GoQp(d)' /\ GoToken(d)' /\ GoPeer(d)' /\ GoCType(d)'
        BY <2>0, <2>2, <3>2, <4>3, <4>4 DEF Advanced, GoReceived
      <4> QED BY <4>3, <4>5, <4>a, <4>6 DEF Advanced
    <3>3. CASE kind[d] # "part"
      <4>1. Advanced(d, "registered", "open", 0)
        BY <1>s, <3>1, <3>3, AdvanceNone, DefersValues
      <4>4. Len(stack'[d]) = 1 + 0
        BY <1>n, <2>0, <4>1 DEF Advanced
      <4>5. GoDepth(d)'
        <5>1. pc'[d] = "open" /\ kind'[d] = kind[d]
          BY <4>1 DEF Advanced
        <5> HIDE <1>0, <1>r DEF GoCInv, GoDepth, GoHeld, GoQp, GoToken, GoPeer,
              GoCType, GoTokenSent, Deferred, IsPart, Answered, GoStep, Handle
        <5>2. Len(stack'[d]) = IF kind[d] = "part" THEN 2 ELSE 1
          BY <3>3, <4>4
        <5> QED BY <5>1, <5>2, OpenDepth
      <4>a. GoHeld(d)'
        <5>1. Len(stack'[d]) = Len(stack[d]) /\ kind'[d] = kind[d]
          BY <1>n, <2>0, <4>1, <4>4 DEF Advanced
        <5>2. Rank(kind[d], "ws") = 1 /\ Len(stack[d]) = 1
          BY <1>n, <1>r, <2>0, <3>3
        <5> QED BY <2>2, <5>1, <5>2 DEF GoReceived
      <4>6. GoQp(d)' /\ GoToken(d)' /\ GoPeer(d)' /\ GoCType(d)'
        BY <2>0, <2>2, <3>3, <4>1, <4>4 DEF Advanced, GoReceived
      <4> QED BY <4>1, <4>5, <4>a, <4>6 DEF Advanced
    <3> QED BY <3>2, <3>3
  <2> QED BY <2>0, <2>1, <2>2
<1>7. CASE recvJSON(d, "paired", "qpinfo_server", "rtr")
  <2>0. /\ pc[d] = "paired" /\ srv'[d] = srv[d] /\ down'[d] \in Seq(DownMsg)
        /\ In("qpinfo_server", down'[d]) => In("qpinfo_server", down[d])
        /\ Fail(d) \/ GoReceived(d, "paired", "qpinfo_server", "rtr")
    BY <1>7, GoRecvEffect
  <2>1. CASE Fail(d)
    BY <2>0, <2>1, GoFailInv
  <2>2. CASE GoReceived(d, "paired", "qpinfo_server", "rtr")
    <3>1. Advanced(d, "paired", "rtr", 0)
      BY <1>s, <2>2, AdvanceNone, DefersValues DEF GoReceived
    <3> QED BY <2>0, <2>2, <3>1 DEF Advanced, GoReceived
  <2> QED BY <2>0, <2>1, <2>2
<1> QED BY <1>2, <1>3, <1>4, <1>6, <1>7 DEF ExchangeQPInfo, SendToken

\* OpenDevice, AllocPD, CreateCQ and CreateRC: each obtains one thing and
\* defers its release.
LEMMA GoVerbsInv ==
  ASSUME GoTypeOK, NEW d \in Client, GoCInv(d), OpenVerbs(d)
  PROVE  GoCInv(d)' /\ GoCType(d)'
<1>0. GoCType(d) /\ Len(stack[d]) \in Nat
  BY GoParts DEF GoCType
<1>r. /\ kind[d] = "part" =>
           /\ Rank(kind[d], "munmap") = 1 /\ Rank(kind[d], "ws") = 2
           /\ Rank(kind[d], "ctx") = 3 /\ Rank(kind[d], "pd") = 4
           /\ Rank(kind[d], "cq") = 5 /\ Rank(kind[d], "qp") = 6
      /\ kind[d] # "part" =>
           /\ Rank(kind[d], "ws") = 1 /\ Rank(kind[d], "ctx") = 2
           /\ Rank(kind[d], "pd") = 3 /\ Rank(kind[d], "cq") = 4
           /\ Rank(kind[d], "qp") = 5 /\ Rank(kind[d], "munmap") = 6
      /\ Rank(kind[d], "mr") = 7
  BY Ranks
<1>s. GoStack(d)
  BY DEF GoCInv
<1> USE <1>0, <1>r DEF GoCInv, GoDepth, GoHeld, GoQp, GoToken, GoPeer, GoCType,
      GoTokenSent, Deferred, IsPart, Answered, GoStep, Handle
<1>1. /\ access'[d] = access[d] /\ buf'[d] = buf[d] /\ Quiet(d)
      /\ res'[d] = res[d] \cup {Obtains[pc[d]]}
      /\ qp'[d] = IF pc[d] = "qp" THEN "RESET" ELSE qp[d]
  BY DEF OpenVerbs, Quiet, serverVars, GoTypeOK
<1>2. /\ Obtains["open"] = "ctx" /\ Obtains["pd"] = "pd" /\ Obtains["cq"] = "cq"
      /\ Obtains["qp"] = "qp"
  BY DEF Obtains
<1>3. ASSUME NEW at \in {"open", "pd", "cq", "qp"}, NEW next, Succeed(d, at, next)
      PROVE  /\ Advanced(d, at, next, 1) /\ GoHeld(d)' /\ res'[d] \subseteq Handle \ {"s"}
             /\ Len(stack'[d]) = Rank(kind[d], Obtains[at])
  <2>1. /\ pc[d] = at /\ Defers(d, at) = <<Obtains[at]>>
        /\ Obtains[at] \in {"ctx", "pd", "cq", "qp"}
    BY <1>2, <1>3, DefersValues DEF Succeed, Goto
  <2>2. Rank(kind[d], Obtains[at]) = Len(stack[d]) + 1
    <3> HIDE DEF GoDepth
    <3> QED BY <1>2, <2>1, NextRank, Zenon
  <2>3. Obtains[at] \in Deferrable
    BY <2>1 DEF Deferrable
  <2>4. Advanced(d, at, next, 1)
    BY <1>3, <1>s, <2>1, <2>2, <2>3, AdvanceOne
  <2>5. GoHeld(d)'
    <3>1. GoHeld(d) /\ Obtains[at] # "munmap" /\ (ws[d] = "open" => Deferred(d, "ws"))
      BY <2>1
    <3>2. /\ \A h \in Handle \ {"s"} : h \in res'[d] <=> h \in res[d] \/ h = Obtains[at]
          /\ buf'[d] = buf[d] /\ ws'[d] = ws[d] /\ kind'[d] = kind[d]
          /\ Len(stack'[d]) = Len(stack[d]) + 1
      BY <1>1, <2>1, <2>4 DEF Quiet, Advanced
    <3> HIDE DEF GoHeld, GoCInv, Handle, Deferred
    <3> QED BY <2>2, <2>3, <3>1, <3>2, HeldPush
  <2>6. res'[d] \subseteq Handle \ {"s"}
    BY <1>1, <2>1
  <2>7. Len(stack'[d]) = Rank(kind[d], Obtains[at])
    BY <2>2, <2>4 DEF Advanced
  <2> QED BY <2>4, <2>5, <2>6, <2>7
<1> HIDE DEF GoHeld, Deferred, Handle
<1>4. CASE Succeed(d, "open", "pd")
  <2>1. Advanced(d, "open", "pd", 1) /\ GoHeld(d)' /\ res'[d] \subseteq Handle \ {"s"}
    BY <1>3, <1>4
  <2>2. GoDepth(d)'
    <3>1. Len(stack'[d]) = Rank(kind[d], Obtains["open"])
      BY <1>3, <1>4
    <3> QED BY <1>2, <2>1, <3>1 DEF Advanced
  <2>3. GoQp(d)' /\ GoToken(d)' /\ GoPeer(d)' /\ GoCType(d)'
    BY <1>1, <2>1 DEF Advanced, Quiet, Deferred
  <2> QED BY <2>1, <2>2, <2>3 DEF Advanced
<1>5. CASE Succeed(d, "pd", "cq")
  <2>1. Advanced(d, "pd", "cq", 1) /\ GoHeld(d)' /\ res'[d] \subseteq Handle \ {"s"}
    BY <1>3, <1>5
  <2>2. GoDepth(d)'
    <3>1. Len(stack'[d]) = Rank(kind[d], Obtains["pd"])
      BY <1>3, <1>5
    <3> QED BY <1>2, <2>1, <3>1 DEF Advanced
  <2>3. GoQp(d)' /\ GoToken(d)' /\ GoPeer(d)' /\ GoCType(d)'
    BY <1>1, <2>1 DEF Advanced, Quiet, Deferred
  <2> QED BY <2>1, <2>2, <2>3 DEF Advanced
<1>6. CASE Succeed(d, "cq", "qp")
  <2>1. Advanced(d, "cq", "qp", 1) /\ GoHeld(d)' /\ res'[d] \subseteq Handle \ {"s"}
    BY <1>3, <1>6
  <2>2. GoDepth(d)'
    <3>1. Len(stack'[d]) = Rank(kind[d], Obtains["cq"])
      BY <1>3, <1>6
    <3> QED BY <1>2, <2>1, <3>1 DEF Advanced
  <2>3. GoQp(d)' /\ GoToken(d)' /\ GoPeer(d)' /\ GoCType(d)'
    BY <1>1, <2>1 DEF Advanced, Quiet, Deferred
  <2> QED BY <2>1, <2>2, <2>3 DEF Advanced
<1>7. CASE Succeed(d, "qp", "init")
  <2>1. Advanced(d, "qp", "init", 1) /\ GoHeld(d)' /\ res'[d] \subseteq Handle \ {"s"}
    BY <1>3, <1>7
  <2>2. GoDepth(d)'
    <3>1. Len(stack'[d]) = Rank(kind[d], Obtains["qp"])
      BY <1>3, <1>7
    <3> QED BY <1>2, <2>1, <3>1 DEF Advanced
  <2>3. GoQp(d)' /\ GoToken(d)' /\ GoPeer(d)' /\ GoCType(d)'
    BY <1>1, <2>1 DEF Advanced, Quiet, Deferred
  <2> QED BY <2>1, <2>2, <2>3 DEF Advanced
<1> QED BY <1>4, <1>5, <1>6, <1>7 DEF OpenVerbs

\* The buffer of the put and get programs, and the region.
LEMMA GoMemoryInv ==
  ASSUME GoTypeOK, NEW d \in Client, GoCInv(d), Mmap(d) \/ RegMR(d)
  PROVE  GoCInv(d)' /\ GoCType(d)'
<1>0. GoCType(d) /\ Len(stack[d]) \in Nat
  BY GoParts DEF GoCType
<1>r. /\ kind[d] = "part" =>
           /\ Rank(kind[d], "munmap") = 1 /\ Rank(kind[d], "ws") = 2
           /\ Rank(kind[d], "ctx") = 3 /\ Rank(kind[d], "pd") = 4
           /\ Rank(kind[d], "cq") = 5 /\ Rank(kind[d], "qp") = 6
      /\ kind[d] # "part" =>
           /\ Rank(kind[d], "ws") = 1 /\ Rank(kind[d], "ctx") = 2
           /\ Rank(kind[d], "pd") = 3 /\ Rank(kind[d], "cq") = 4
           /\ Rank(kind[d], "qp") = 5 /\ Rank(kind[d], "munmap") = 6
      /\ Rank(kind[d], "mr") = 7
  BY Ranks
<1>s. GoStack(d)
  BY DEF GoCInv
<1> USE <1>0, <1>r DEF GoCInv, GoDepth, GoHeld, GoQp, GoToken, GoPeer, GoCType,
      GoTokenSent, Deferred, IsPart, Answered, GoStep, Handle
<1>1. CASE Mmap(d)
  <2>1. /\ Succeed(d, "buf", "mr") /\ pc[d] = "buf" /\ kind[d] # "part"
        /\ res'[d] = res[d] /\ access'[d] = access[d] /\ buf'[d] = "mapped"
        /\ qp'[d] = qp[d] /\ Quiet(d)
    BY <1>1 DEF Mmap, Succeed, Goto, Quiet, serverVars, GoTypeOK
  <2>2. Defers(d, "buf") = <<"munmap">> /\ "munmap" \in Deferrable
    BY <2>1, DefersValues DEF Deferrable
  <2>3. Rank(kind[d], "munmap") = Len(stack[d]) + 1
    <3> HIDE DEF GoDepth
    <3> QED BY <2>1, NextRank, Zenon
  <2>4. Advanced(d, "buf", "mr", 1)
    BY <1>s, <2>1, <2>2, <2>3, AdvanceOne
  <2>5. GoHeld(d)'
    <3>1. GoHeld(d) /\ "munmap" \notin Handle /\ (ws[d] = "open" => Deferred(d, "ws"))
      BY <2>1
    <3>2. /\ ws'[d] = ws[d] /\ kind'[d] = kind[d]
          /\ Len(stack'[d]) = Len(stack[d]) + 1
      BY <2>1, <2>4 DEF Quiet, Advanced
    <3> HIDE DEF GoHeld, GoCInv, Handle, Deferred
    <3> QED BY <2>1, <2>2, <2>3, <3>1, <3>2, HeldPush
  <2>6. GoDepth(d)'
    <3>1. Len(stack'[d]) = Rank(kind[d], "munmap")
      BY <2>3, <2>4 DEF Advanced
    <3> HIDE DEF GoHeld, Deferred, Handle
    <3> QED BY <2>1, <2>4, <3>1 DEF Advanced
  <2>7. GoQp(d)' /\ GoToken(d)' /\ GoPeer(d)' /\ GoCType(d)'
    <3> HIDE DEF GoHeld, Handle
    <3> QED BY <2>1, <2>4 DEF Advanced, Quiet
  <2> QED BY <2>4, <2>5, <2>6, <2>7 DEF Advanced
<1>2. CASE RegMR(d)
  <2>1. /\ Succeed(d, "mr", "token") /\ pc[d] = "mr"
        /\ res'[d] = res[d] \cup {"mr"} /\ buf'[d] = buf[d]
        /\ access'[d] = IF kind[d] = "get" THEN Right ELSE {"remote_read"}
        /\ qp'[d] = qp[d] /\ Quiet(d)
    BY <1>2 DEF RegMR, Succeed, Goto, Quiet, serverVars, GoTypeOK
  <2>2. Defers(d, "mr") = <<"mr">> /\ "mr" \in Deferrable
    BY DefersValues DEF Deferrable
  <2>3. Rank(kind[d], "mr") = Len(stack[d]) + 1
    <3> HIDE DEF GoDepth
    <3> QED BY <2>1, NextRank, Zenon
  <2>4. Advanced(d, "mr", "token", 1)
    BY <1>s, <2>1, <2>2, <2>3, AdvanceOne
  <2>5. GoHeld(d)'
    <3>1. GoHeld(d) /\ (ws[d] = "open" => Deferred(d, "ws"))
      BY <2>1
    <3>2. /\ \A h \in Handle \ {"s"} : h \in res'[d] <=> h \in res[d] \/ h = "mr"
          /\ buf'[d] = buf[d] /\ ws'[d] = ws[d] /\ kind'[d] = kind[d]
          /\ Len(stack'[d]) = Len(stack[d]) + 1
      BY <2>1, <2>4 DEF Quiet, Advanced
    <3> HIDE DEF GoHeld, GoCInv, Handle, Deferred
    <3> QED BY <2>2, <2>3, <3>1, <3>2, HeldPush
  <2>6. GoDepth(d)'
    <3>1. Len(stack'[d]) = Rank(kind[d], "mr")
      BY <2>3, <2>4 DEF Advanced
    <3> HIDE DEF GoHeld, Deferred, Handle
    <3> QED BY <2>1, <2>4, <3>1 DEF Advanced
  <2>7. GoQp(d)' /\ GoToken(d)' /\ GoPeer(d)'
    <3> HIDE DEF GoHeld, Handle
    <3> QED BY <2>1, <2>4 DEF Advanced, Quiet
  <2>8. GoCType(d)'
    BY <2>1, <2>4 DEF Advanced, Quiet, Right
  <2> QED BY <2>4, <2>5, <2>6, <2>7, <2>8 DEF Advanced
<1> QED BY <1>1, <1>2

\* A call after which nothing is deferred, and nothing is obtained, keeps what
\* is held; its step and the one after it have the same depth.
LEMMA GoPlainStep ==
  ASSUME GoTypeOK, NEW d \in Client, GoCInv(d), NEW at, NEW next,
         Advanced(d, at, next, 0), res'[d] = res[d], buf'[d] = buf[d],
         ws'[d] \in {ws[d], "closed"},
         at \notin {"register", "registered"},
         \/ at \in {"init", "query", "qpinfo", "paired", "rtr"} /\
              next \in {"query", "qpinfo", "paired", "rtr", "rts"}
         \/ at = "rts" /\ next = IF IsPart(d) THEN "mr" ELSE "buf"
         \/ at = "close" /\ next = "ready"
         \/ at \in {"ready", "save"} /\ next = "unwind"
         \/ at = "ready" /\ next = "save" /\ ~IsPart(d)
  PROVE  GoStack(d)' /\ GoDepth(d)' /\ GoHeld(d)' /\ Len(stack'[d]) = Len(stack[d])
<1>1. GoStack(d)' /\ kind'[d] = kind[d] /\ pc[d] = at /\ pc'[d] = next
  BY DEF Advanced
<1>2. Len(stack'[d]) = Len(stack[d])
  <2>1. Len(stack[d]) \in Nat
    BY DEF GoTypeOK
  <2> QED BY <2>1 DEF Advanced
<1>3. GoDepth(d)'
  BY <1>1, <1>2 DEF GoCInv, GoDepth, IsPart, GoTokenSent
<1>4. GoHeld(d)'
  <2>1. ws'[d] = "open" => Deferred(d, "ws")
    BY <1>1 DEF GoCInv, GoHeld
  <2> QED BY <1>1, <1>2, <2>1, HeldKept DEF GoCInv
<1> QED BY <1>1, <1>2, <1>3, <1>4

\* The queries, the three transitions of the queue pair, the close of the
\* control connection, and the return of the request.
LEMMA GoPlainInv ==
  ASSUME GoTypeOK, NEW d \in Client, GoCInv(d),
         \/ QueryPort(d) \/ ModifyQP(d) \/ CloseEarly(d)
         \/ closeControlAfterToken(d) \/ PutReturned(d) \/ GetReturned(d)
  PROVE  GoCInv(d)' /\ GoCType(d)'
<1>0. GoCType(d) /\ GoStack(d)
  BY GoParts DEF GoCInv
<1>d. \A at \in {"init", "query", "rtr", "rts", "close", "ready", "save"} :
        Defers(d, at) = << >>
  BY DefersValues
<1>e. Deferred(d, "qp") /\ Len(stack'[d]) = Len(stack[d]) /\ kind'[d] = kind[d]
        => Deferred(d, "qp")'
  BY DEF Deferred
<1>q. pc[d] \in {"init", "rtr", "rts"} => Deferred(d, "qp")
  <2>1. CASE kind[d] = "part"
    <3>1. Rank(kind[d], "qp") = 6
      BY <2>1, Ranks
    <3>2. pc[d] \in {"init", "rtr", "rts"} => Len(stack[d]) = 6
      BY <2>1 DEF GoCInv, GoDepth, IsPart
    <3>3. 6 <= 6
      OBVIOUS
    <3> QED BY <3>1, <3>2, <3>3, Zenon DEF Deferred
  <2>2. CASE kind[d] # "part"
    <3>1. Rank(kind[d], "qp") = 5
      BY <2>2, Ranks
    <3>2. pc[d] \in {"init", "rtr", "rts"} => Len(stack[d]) = 5
      BY <2>2 DEF GoCInv, GoDepth, IsPart
    <3>3. 5 <= 5
      OBVIOUS
    <3> QED BY <3>1, <3>2, <3>3, Zenon DEF Deferred
  <2> QED BY <2>1, <2>2
<1> USE DEF GoQp, GoToken, GoPeer, GoCType, GoTokenSent, Answered, GoStep
<1>1. CASE QueryPort(d)
  <2>1. /\ Succeed(d, "query", "qpinfo") /\ res'[d] = res[d] /\ buf'[d] = buf[d]
        /\ access'[d] = access[d] /\ qp'[d] = qp[d] /\ Quiet(d)
    BY <1>1 DEF QueryPort, Quiet, serverVars
  <2>2. Advanced(d, "query", "qpinfo", 0)
    BY <1>0, <1>d, <2>1, AdvanceNone
  <2>3. GoStack(d)' /\ GoDepth(d)' /\ GoHeld(d)' /\ Len(stack'[d]) = Len(stack[d])
    BY <2>1, <2>2, GoPlainStep DEF Quiet
  <2> QED BY <1>0, <1>e, <2>1, <2>2, <2>3 DEF Advanced, Quiet, GoCInv
<1>2. CASE ModifyQP(d)
  <2>1. /\ res'[d] = res[d] /\ buf'[d] = buf[d]
        /\ access'[d] = access[d] /\ Quiet(d)
        /\ \/ Succeed(d, "init", "query") /\ qp'[d] = "INIT"
           \/ Succeed(d, "rtr", "rts") /\ qp'[d] = "RTR"
           \/ /\ Succeed(d, "rts", IF IsPart(d) THEN "mr" ELSE "buf")
              /\ qp'[d] = "RTS"
    BY <1>2 DEF ModifyQP, Quiet, serverVars, GoTypeOK
  <2>2. CASE Succeed(d, "init", "query") /\ qp'[d] = "INIT"
    <3>1. Advanced(d, "init", "query", 0)
      BY <1>0, <1>d, <2>2, AdvanceNone
    <3>2. GoStack(d)' /\ GoDepth(d)' /\ GoHeld(d)' /\ Len(stack'[d]) = Len(stack[d])
      BY <2>1, <3>1, GoPlainStep DEF Quiet
    <3> QED BY <1>0, <2>1, <2>2, <3>1, <3>2 DEF Advanced, Quiet, GoCInv
  <2>3. CASE Succeed(d, "rtr", "rts") /\ qp'[d] = "RTR"
    <3>1. Advanced(d, "rtr", "rts", 0)
      BY <1>0, <1>d, <2>3, AdvanceNone
    <3>2. GoStack(d)' /\ GoDepth(d)' /\ GoHeld(d)' /\ Len(stack'[d]) = Len(stack[d])
      BY <2>1, <3>1, GoPlainStep DEF Quiet
    <3> QED BY <1>0, <1>e, <1>q, <2>1, <2>3, <3>1, <3>2 DEF Advanced, Quiet, GoCInv
  <2>4. CASE /\ Succeed(d, "rts", IF IsPart(d) THEN "mr" ELSE "buf")
             /\ qp'[d] = "RTS"
    <3>1. Advanced(d, "rts", IF IsPart(d) THEN "mr" ELSE "buf", 0)
      BY <1>0, <1>d, <2>4, AdvanceNone
    <3>2. GoStack(d)' /\ GoDepth(d)' /\ GoHeld(d)' /\ Len(stack'[d]) = Len(stack[d])
      BY <2>1, <3>1, GoPlainStep DEF Quiet
    <3> QED BY <1>0, <1>e, <1>q, <2>1, <2>4, <3>1, <3>2 DEF Advanced, Quiet, GoCInv
  <2> QED BY <2>1, <2>2, <2>3, <2>4
<1>3. CASE CloseEarly(d) \/ closeControlAfterToken(d)
  <2>1. /\ Succeed(d, "close", "ready") /\ res'[d] = res[d] /\ buf'[d] = buf[d]
        /\ access'[d] = access[d] /\ qp'[d] = qp[d] /\ down'[d] = down[d]
        /\ srv'[d] = srv[d]
    BY <1>3 DEF CloseEarly, closeControlAfterToken, serverVars
  <2>2. ws'[d] \in {ws[d], "closed"} /\ Closing(d)
    <3>1. CASE CloseEarly(d)
      BY <3>1, CloseEffect DEF CloseEarly
    <3>2. CASE closeControlAfterToken(d)
      <4>1. ws'[d] = ws[d] /\ (Put(d, "closeframe") \/ up'[d] = up[d]) /\ "closeframe" \in UpMsg
        BY <3>2 DEF closeControlAfterToken, UpMsg
      <4>2. up[d] \in Seq(UpMsg)
        BY DEF GoTypeOK
      <4> QED BY <4>1, <4>2, GoPut DEF Closing
    <3> QED BY <1>3, <3>1, <3>2
  <2>3. Advanced(d, "close", "ready", 0)
    BY <1>0, <1>d, <2>1, AdvanceNone
  <2>4. GoStack(d)' /\ GoDepth(d)' /\ GoHeld(d)' /\ Len(stack'[d]) = Len(stack[d])
    BY <2>1, <2>2, <2>3, GoPlainStep
  <2> QED BY <1>0, <1>e, <2>1, <2>2, <2>3, <2>4 DEF Advanced, Closing, GoCInv
<1>4. CASE PutReturned(d) \/ GetReturned(d)
  <2>1. /\ res'[d] = res[d] /\ buf'[d] = buf[d]
        /\ access'[d] = access[d] /\ qp'[d] = qp[d] /\ Quiet(d)
        /\ \/ Succeed(d, "ready", "unwind") \/ Succeed(d, "save", "unwind")
           \/ Succeed(d, "ready", "save") /\ ~IsPart(d)
    BY <1>4 DEF PutReturned, GetReturned, Quiet, serverVars, IsPart
  <2>2. ASSUME NEW at \in {"ready", "save"}, Succeed(d, at, "unwind")
        PROVE  GoCInv(d)' /\ GoCType(d)'
    <3>1. Advanced(d, at, "unwind", 0)
      BY <1>0, <1>d, <2>2, AdvanceNone
    <3>2. GoStack(d)' /\ GoDepth(d)' /\ GoHeld(d)' /\ Len(stack'[d]) = Len(stack[d])
      BY <2>1, <3>1, GoPlainStep DEF Quiet
    <3> QED BY <1>0, <1>e, <2>1, <3>1, <3>2 DEF Advanced, Quiet, GoCInv
  <2>3. CASE Succeed(d, "ready", "save") /\ ~IsPart(d)
    <3>1. Advanced(d, "ready", "save", 0)
      BY <1>0, <1>d, <2>3, AdvanceNone
    <3>2. GoStack(d)' /\ GoDepth(d)' /\ GoHeld(d)' /\ Len(stack'[d]) = Len(stack[d])
      BY <2>1, <2>3, <3>1, GoPlainStep DEF Quiet
    <3> QED BY <1>0, <1>e, <2>1, <3>1, <3>2 DEF Advanced, Quiet, GoCInv
  <2> QED BY <2>1, <2>2, <2>3
<1> QED BY <1>1, <1>2, <1>3, <1>4

\* A deferred call releases what was obtained last, and only that.
LEMMA GoDeferredInv ==
  ASSUME GoTypeOK, NEW d \in Client, GoCInv(d), RunDeferred(d)
  PROVE  GoCInv(d)' /\ GoCType(d)'
<1> DEFINE n == Len(stack[d])
           h == stack[d][n]
<1>1. /\ pc[d] = "unwind" /\ pc'[d] = "unwind" /\ kind'[d] = kind[d]
      /\ ok'[d] = ok[d] /\ left'[d] = left[d]
      /\ down'[d] = down[d] /\ srv'[d] = srv[d]
      /\ stack[d] # << >> /\ stack'[d] = SubSeq(stack[d], 1, n - 1)
      /\ res'[d] = res[d] \ {h}
      /\ access'[d] = IF h = "mr" THEN {} ELSE access[d]
      /\ qp'[d] = IF h = "qp" THEN "none" ELSE qp[d]
      /\ buf'[d] = IF h = "munmap" THEN "none" ELSE buf[d]
      /\ IF h = "ws" THEN CloseConn(d) ELSE ws'[d] = ws[d] /\ up'[d] = up[d]
  BY DEF RunDeferred, serverVars, GoTypeOK
<1>2. GoCType(d) /\ stack[d] \in Seq(Deferrable)
  BY GoParts DEF GoCType
<1>3. /\ n \in Nat \ {0} /\ h \in Deferrable
      /\ stack'[d] \in Seq(Deferrable) /\ Len(stack'[d]) = n - 1
      /\ \A i \in 1 .. Len(stack'[d]) : stack'[d][i] = stack[d][i]
  BY <1>1, <1>2, Popped
<1>4. Rank(kind[d], h) = n
  BY <1>3 DEF GoCInv, GoStack
<1>5. GoStack(d)'
  BY <1>1, <1>3 DEF GoCInv, GoStack
<1>6. /\ \A g \in Deferrable : Rank(kind[d], g) \in 1 .. 7
      /\ \A g \in Deferrable : Rank(kind[d], g) = Rank(kind[d], h) => g = h
  BY <1>3, RankInj
<1>c. /\ ws'[d] = IF h = "ws" /\ ws[d] = "open" THEN "closed" ELSE ws[d]
      /\ Closing(d)
  <2>1. up[d] \in Seq(UpMsg)
    BY DEF GoTypeOK
  <2> HIDE DEF h
  <2> QED BY <1>1, <2>1, CloseEffect DEF Closing
<1> HIDE DEF n, h
<1>7. \A g \in Deferrable : Rank(kind[d], g) <= n - 1 <=> Rank(kind[d], g) <= n /\ g # h
  BY <1>3, <1>4, <1>6
<1>8. \A g \in Deferrable : Deferred(d, g)' <=> Deferred(d, g) /\ g # h
  BY <1>1, <1>3, <1>7 DEF Deferred, n
<1>9. /\ Handle \ {"s"} \subseteq Deferrable
      /\ "munmap" \in Deferrable /\ "ws" \in Deferrable /\ "qp" \in Deferrable
  BY DEF Handle, Deferrable
<1>10. GoDepth(d)'
  BY <1>1 DEF GoDepth, GoTokenSent
<1>11. GoHeld(d)'
  BY <1>1, <1>c, <1>8, <1>9 DEF GoCInv, GoHeld
<1>12. GoQp(d)' /\ GoToken(d)' /\ GoPeer(d)'
  BY <1>1, <1>c, <1>8, <1>9 DEF GoCInv, GoQp, GoToken, GoPeer, GoTokenSent, Closing
<1>13. GoCType(d)'
  BY <1>1, <1>2, <1>3, <1>c DEF GoCType, Closing
<1> QED BY <1>5, <1>10, <1>11, <1>12, <1>13 DEF GoCInv

\* With nothing deferred, nothing is held.
LEMMA NothingHeld ==
  ASSUME GoTypeOK, NEW c \in Client, GoCInv(c), Len(stack[c]) = 0
  PROVE  /\ res[c] = {} /\ buf[c] = "none"
         /\ pc[c] \notin {"register", "registered"} => ws[c] # "open"
<1>1. \A h \in Deferrable : ~Deferred(c, h)
  <2>1. \A h \in Deferrable : Rank(kind[c], h) \in 1 .. 7
    BY RankInj
  <2> QED BY <2>1 DEF Deferred
<1>2. Handle \ {"s"} \subseteq Deferrable /\ "munmap" \in Deferrable /\ "ws" \in Deferrable
  BY DEF Handle, Deferrable
<1>3. res[c] \subseteq Handle \ {"s"} /\ buf[c] \in {"none", "mapped"}
  BY GoParts DEF GoCType
<1> QED BY <1>1, <1>2, <1>3 DEF GoCInv, GoHeld

\* The function has returned, and the next part starts afresh.
LEMMA GoReturnInv ==
  ASSUME GoTypeOK, NEW d \in Client, GoCInv(d), Returned(d) \/ PartLoop(d)
  PROVE  GoCInv(d)' /\ GoCType(d)'
<1>1. /\ res'[d] = res[d] /\ access'[d] = access[d] /\ buf'[d] = buf[d]
      /\ qp'[d] = qp[d] /\ ws'[d] = ws[d] /\ kind'[d] = kind[d]
      /\ stack'[d] = stack[d] /\ ok'[d] = ok[d]
      /\ \/ /\ pc[d] = "unwind" /\ stack[d] = << >>
            /\ pc'[d] = IF IsPart(d) THEN "returned" ELSE "exit"
         \/ pc[d] = "returned" /\ pc'[d] \in {"exit", "start"}
      /\ \/ pc'[d] # "start" /\ left'[d] = left[d] /\ Quiet(d)
         \/ /\ left[d] > 0 /\ left'[d] = left[d] - 1
            /\ up'[d] = << >> /\ down'[d] = << >> /\ srv'[d] = "none"
  BY DEF Returned, PartLoop, Goto, Quiet, serverVars, goOnly, GoTypeOK
<1>2. GoCType(d)
  BY GoParts
<1>3. Len(stack[d]) = 0
  <2>1. CASE pc[d] = "unwind"
    BY <1>1, <2>1
  <2>2. CASE pc[d] = "returned"
    BY <2>2 DEF GoCInv, GoDepth
  <2> QED BY <1>1, <2>1, <2>2
<1>4. left'[d] \in 0 .. PartsPerFile - 1
  BY <1>1, <1>2, PartsAssumption DEF GoCType
<1>5. GoCType(d)'
  <2>1. << >> \in Seq(UpMsg) /\ << >> \in Seq(DownMsg)
    OBVIOUS
  <2> QED BY <1>1, <1>2, <1>4, <2>1 DEF GoCType, Quiet, GoStep
<1>6. GoStack(d)' /\ GoDepth(d)'
  BY <1>1, <1>3 DEF GoCInv, GoStack, GoDepth, GoTokenSent
<1>7. GoHeld(d)'
  <2>1. ws[d] # "open"
    BY <1>1, <1>3, NothingHeld
  <2> QED BY <1>1, <2>1, HeldKept DEF GoCInv
<1>8. ~Deferred(d, "qp")
  <2>1. Rank(kind[d], "qp") \in 1 .. 7
    BY RankInj DEF Deferrable
  <2> QED BY <1>3, <2>1 DEF Deferred
<1>9. GoQp(d)' /\ GoToken(d)' /\ GoPeer(d)'
  BY <1>1, <1>8, InEmpty DEF GoCInv, GoQp, GoToken, GoPeer, GoTokenSent, Quiet
<1> QED BY <1>5, <1>6, <1>7, <1>9 DEF GoCInv

----------------------------------------------------------------------------
(* The invariant.                                                          *)

\* A step of the control endpoint keeps the invariant of its client.
LEMMA GoControlInv ==
  ASSUME GoTypeOK, NEW d \in Client, GoCInv(d),
         Control(d) \/ SrvHangup(d), UNCHANGED goOnly
  PROVE  GoCInv(d)'
<1>1. EndpointTypeOK
  BY GoParts
<1>2. /\ pc'[d] = pc[d] /\ res'[d] = res[d] /\ access'[d] = access[d]
      /\ buf'[d] = buf[d] /\ qp'[d] = qp[d] /\ ws'[d] = ws[d]
      /\ stack'[d] = stack[d] /\ kind'[d] = kind[d]
  BY <1>1, ControlEffect DEF clientVars, goOnly
<1>3. GoStack(d)' /\ GoDepth(d)' /\ GoHeld(d)' /\ GoQp(d)'
  BY <1>2 DEF GoCInv, GoStack, GoDepth, GoHeld, GoQp, Deferred, IsPart
<1>4. GoToken(d)'
  BY <1>1, <1>2, ControlEffect DEF GoCInv, GoToken
<1>5. GoPeer(d)'
  BY <1>1, <1>2, ControlEffect DEF GoCInv, GoPeer
<1> QED BY <1>3, <1>4, <1>5 DEF GoCInv

\* Every step of a process keeps its own invariant and types.
LEMMA GoProcessInv ==
  ASSUME GoTypeOK, NEW d \in Client, GoCInv(d), GoProcess(d)
  PROVE  GoCInv(d)' /\ GoCType(d)'
<1>1. CASE CallFails(d)
  <2>1. /\ pc[d] \in CallStep /\ Fail(d) /\ srv'[d] = srv[d] /\ down'[d] = down[d]
        /\ down[d] \in Seq(DownMsg)
    BY <1>1 DEF CallFails, serverVars, GoTypeOK
  <2> QED BY <2>1, GoFailInv
<1>2. CASE ReadFile(d) \/ HeadObject(d) \/ mmapPart(d) \/ Dial(d)
  BY <1>2, GoStartInv
<1>3. CASE \/ sendJSON(d, "register", "register_request", "registered")
           \/ recvJSON(d, "registered", "register_ok", "open")
           \/ ExchangeQPInfo(d) \/ SendToken(d)
  BY <1>3, GoMessageInv
<1>4. CASE OpenVerbs(d)
  BY <1>4, GoVerbsInv
<1>5. CASE Mmap(d) \/ RegMR(d)
  BY <1>5, GoMemoryInv
<1>6. CASE \/ QueryPort(d) \/ ModifyQP(d) \/ CloseEarly(d)
           \/ closeControlAfterToken(d) \/ PutReturned(d) \/ GetReturned(d)
  BY <1>6, GoPlainInv
<1>7. CASE RunDeferred(d)
  BY <1>7, GoDeferredInv
<1>8. CASE Returned(d) \/ PartLoop(d)
  BY <1>8, GoReturnInv
<1> QED BY <1>1, <1>2, <1>3, <1>4, <1>5, <1>6, <1>7, <1>8
        DEF GoProcess, connectRDMAControl

\* GoInv is inductive: it holds at the start, and every step of a program and
\* of the server keeps it.
THEOREM GoInvariance == GoSpec => []GoInv
<1>1. GoInit => GoInv
  <2> SUFFICES ASSUME GoInit PROVE GoInv
    OBVIOUS
  <2>1. GoTypeOK
    <3>1. left \in [Client -> 0 .. PartsPerFile - 1]
      BY PartsAssumption DEF GoInit
    <3> QED BY <3>1, EmptySeq DEF GoInit, Init, GoTypeOK, GoStep, Handle, Right
  <2>2. ASSUME NEW c \in Client PROVE GoCInv(c)
    <3>1. /\ pc[c] = "start" /\ res[c] = {} /\ buf[c] = "none" /\ qp[c] = "none"
          /\ ws[c] = "none" /\ up[c] = << >> /\ down[c] = << >> /\ srv[c] = "none"
          /\ stack[c] = << >> /\ Len(stack[c]) = 0
      BY DEF GoInit, Init
    <3>2. GoStack(c) /\ GoDepth(c)
      BY <3>1 DEF GoStack, GoDepth, GoTokenSent
    <3>3. \A h \in Deferrable : ~Deferred(c, h)
      <4>1. \A h \in Deferrable : Rank(kind[c], h) \in 1 .. 7
        BY RankInj
      <4> QED BY <3>1, <4>1 DEF Deferred
    <3>4. GoHeld(c)
      BY <3>1, <3>3 DEF GoHeld, Handle, Deferrable
    <3>5. GoQp(c) /\ GoToken(c) /\ GoPeer(c)
      BY <3>1, InEmpty DEF GoQp, GoToken, GoPeer, GoTokenSent
    <3> QED BY <3>2, <3>4, <3>5 DEF GoCInv
  <2> QED BY <2>1, <2>2 DEF GoInv
<1>2. GoInv /\ [GoNext]_goVars => GoInv'
  <2> SUFFICES ASSUME GoInv, [GoNext]_goVars PROVE GoInv'
    OBVIOUS
  <2>0. GoTypeOK /\ \A c \in Client : GoCInv(c)
    BY DEF GoInv
  <2>1. ASSUME NEW d \in Client, GoProcess(d) PROVE GoInv'
    <3>1. GoOnly(d)
      BY <2>0, <2>1, GoFrame
    <3>2. GoCInv(d)' /\ GoCType(d)'
      BY <2>0, <2>1, GoProcessInv
    <3>3. ASSUME NEW c \in Client, c # d PROVE GoCInv(c)'
      <4>1. GoSame(c)
        BY <2>0, <3>1, <3>3 DEF GoOnly, GoSame, Same, GoTypeOK
      <4> QED BY <2>0, <4>1, GoSameInv
    <3> QED BY <2>0, <3>1, <3>2, <3>3, GoTypeStep DEF GoInv
  <2>2. ASSUME NEW d \in Client, Control(d) \/ SrvHangup(d), UNCHANGED goOnly
        PROVE  GoInv'
    <3>1. EndpointTypeOK
      BY <2>0, GoParts
    <3>2. UNCHANGED clientVars /\ EndpointTypeOK'
      BY <2>2, <3>1, ControlEffect
    <3>3. GoTypeOK'
      BY <2>0, <2>2, <3>2 DEF GoTypeOK, EndpointTypeOK, clientVars, goOnly
    <3>4. GoCInv(d)'
      BY <2>0, <2>2, GoControlInv
    <3>5. ASSUME NEW c \in Client, c # d PROVE GoCInv(c)'
      <4>1. GoSame(c)
        BY <2>2, <3>1, <3>2, <3>5, ControlEffect DEF GoSame, Same, clientVars, goOnly
      <4> QED BY <2>0, <4>1, GoSameInv
    <3> QED BY <3>3, <3>4, <3>5 DEF GoInv
  <2>3. CASE UNCHANGED goVars
    <3>1. GoTypeOK'
      BY <2>0, <2>3 DEF GoTypeOK, goVars, vars, goOnly
    <3>2. ASSUME NEW c \in Client PROVE GoCInv(c)'
      <4>1. GoSame(c)
        BY <2>3 DEF goVars, vars, goOnly, GoSame, Same
      <4> QED BY <2>0, <4>1, GoSameInv
    <3> QED BY <3>1, <3>2 DEF GoInv
  <2> QED BY <2>1, <2>2, <2>3 DEF GoNext, Terminated, goVars
<1> QED BY <1>1, <1>2, PTL DEF GoSpec

----------------------------------------------------------------------------
(* What the invariant gives.                                               *)

\* The state of the Go sessions stays within its types.
THEOREM GoTypes == GoSpec => []GoTypeOK
<1>1. GoInv => GoTypeOK
  BY DEF GoInv
<1> QED BY <1>1, GoInvariance, PTL

\* From wherever a function returns, its deferred calls release children
\* before parents and the region before the memory under it.
THEOREM GoDeferredOrder == GoSpec => []DeferredInOrder
<1>1. ASSUME GoInv, NEW c \in Client, NEW h \in res[c]
      PROVE  /\ Parents[h] \ {"s"} \subseteq res[c]
             /\ h = "mr" => buf[c] = "mapped"
  <2>1. GoTypeOK /\ GoCInv(c) /\ Len(stack[c]) \in Nat
    BY <1>1 DEF GoInv, GoTypeOK
  <2>2. h \in Handle \ {"s"} /\ res[c] \subseteq Handle \ {"s"}
    BY <1>1, <2>1, GoParts DEF GoCType
  <2>3. Deferred(c, h)
    BY <1>1, <2>1, <2>2 DEF GoCInv, GoHeld
  <2>4. ASSUME NEW g \in Deferrable, Rank(kind[c], g) < Rank(kind[c], h)
        PROVE  Deferred(c, g)
    <3>1. Rank(kind[c], g) \in 1 .. 7 /\ Rank(kind[c], h) \in 1 .. 7
      BY <2>2, RankInj DEF Handle, Deferrable
    <3> QED BY <2>1, <2>3, <2>4, <3>1 DEF Deferred
  <2>5. \A g \in Parents[h] \ {"s"} :
          /\ g \in Handle \ {"s"} /\ g \in Deferrable
          /\ Rank(kind[c], g) < Rank(kind[c], h)
    <3>1. CASE kind[c] = "part"
      <4>1. /\ Rank(kind[c], "ctx") = 3 /\ Rank(kind[c], "pd") = 4
            /\ Rank(kind[c], "cq") = 5 /\ Rank(kind[c], "qp") = 6
            /\ Rank(kind[c], "mr") = 7
        BY <3>1, Ranks
      <4> QED BY <2>2, <4>1 DEF Parents, Handle, Deferrable
    <3>2. CASE kind[c] # "part"
      <4>1. /\ Rank(kind[c], "ctx") = 2 /\ Rank(kind[c], "pd") = 3
            /\ Rank(kind[c], "cq") = 4 /\ Rank(kind[c], "qp") = 5
            /\ Rank(kind[c], "mr") = 7
        BY <3>2, Ranks
      <4> QED BY <2>2, <4>1 DEF Parents, Handle, Deferrable
    <3> QED BY <3>1, <3>2
  <2>6. Rank(kind[c], "munmap") < Rank(kind[c], "mr")
    BY Ranks
  <2>7. h = "mr" => Deferred(c, "munmap")
    BY <2>4, <2>6 DEF Deferrable
  <2>8. buf[c] = "mapped" <=> Deferred(c, "munmap")
    BY <2>1 DEF GoCInv, GoHeld
  <2>9. \A g \in Handle \ {"s"} : g \in res[c] <=> Deferred(c, g)
    BY <2>1 DEF GoCInv, GoHeld
  <2> QED BY <2>4, <2>5, <2>7, <2>8, <2>9
<1>2. GoInv => DeferredInOrder
  BY <1>1 DEF DeferredInOrder
<1> QED BY <1>2, GoInvariance, PTL

\* The first i entries of the stack are the releases of the first i places.
LEMMA OnStack ==
  ASSUME GoTypeOK, NEW c \in Client, GoStack(c), NEW h \in Deferrable
  PROVE  Deferred(c, h) <=> \E i \in 1 .. Len(stack[c]) : stack[c][i] = h
<1>1. /\ Len(stack[c]) \in Nat /\ Rank(kind[c], h) \in 1 .. 7
      /\ \A i \in 1 .. Len(stack[c]) : stack[c][i] \in Deferrable
  BY RankInj, ElementOfSeq DEF GoTypeOK
<1>2. ASSUME Deferred(c, h) PROVE \E i \in 1 .. Len(stack[c]) : stack[c][i] = h
  <2>1. Rank(kind[c], h) \in 1 .. Len(stack[c])
    BY <1>1, <1>2 DEF Deferred
  <2>2. stack[c][Rank(kind[c], h)] = h
    BY <1>1, <2>1, RankInj DEF GoStack
  <2> QED BY <2>1, <2>2
<1>3. ASSUME NEW i \in 1 .. Len(stack[c]), stack[c][i] = h PROVE Deferred(c, h)
  BY <1>1, <1>3 DEF GoStack, Deferred
<1> QED BY <1>2, <1>3

\* The deferred calls are the right ones: each thing held is released exactly
\* once, and nothing is released that is not held.
THEOREM GoReleasedOnce == GoSpec => []ReleasedOnce
<1>1. ASSUME GoInv, NEW c \in Client
      PROVE  /\ \A i, k \in 1 .. Len(stack[c]) : stack[c][i] = stack[c][k] => i = k
             /\ {stack[c][i] : i \in 1 .. Len(stack[c])} \ {"ws"} =
                  res[c] \cup (IF buf[c] = "mapped" THEN {"munmap"} ELSE {})
  <2>1. GoTypeOK /\ GoCInv(c) /\ GoStack(c) /\ GoHeld(c)
    BY <1>1 DEF GoInv, GoCInv
  <2>2. \A i, k \in 1 .. Len(stack[c]) : stack[c][i] = stack[c][k] => i = k
    BY <2>1 DEF GoStack
  <2>3. /\ res[c] \subseteq Handle \ {"s"}
        /\ \A i \in 1 .. Len(stack[c]) : stack[c][i] \in Deferrable
    BY <2>1, ElementOfSeq DEF GoTypeOK
  <2>4. \A h \in Deferrable :
          Deferred(c, h) <=> \E i \in 1 .. Len(stack[c]) : stack[c][i] = h
    BY <2>1, OnStack
  <2>5. Deferrable = (Handle \ {"s"}) \cup {"munmap", "ws"}
        /\ "ws" \notin Handle /\ "munmap" \notin Handle
    BY DEF Deferrable, Handle
  <2>6. ASSUME NEW h
        PROVE  h \in {stack[c][i] : i \in 1 .. Len(stack[c])} \ {"ws"} <=>
               h \in res[c] \cup (IF buf[c] = "mapped" THEN {"munmap"} ELSE {})
    BY <2>1, <2>3, <2>4, <2>5 DEF GoHeld
  <2> QED BY <2>2, <2>6
<1>2. GoInv => ReleasedOnce
  BY <1>1 DEF ReleasedOnce
<1> QED BY <1>2, GoInvariance, PTL

\* uploadPartRDMA returns with nothing held, whatever it failed at.
THEOREM GoPartClean == GoSpec => []PartReturnsClean
<1>1. ASSUME GoInv, NEW c \in Client, pc[c] \in {"returned", "start"}
      PROVE  res[c] = {} /\ buf[c] = "none" /\ ws[c] # "open"
  <2>1. GoTypeOK /\ GoCInv(c)
    BY <1>1 DEF GoInv
  <2>2. Len(stack[c]) = 0
    BY <1>1, <2>1 DEF GoCInv, GoDepth
  <2> QED BY <1>1, <2>1, <2>2, NothingHeld
<1>2. GoInv => PartReturnsClean
  BY <1>1 DEF PartReturnsClean
<1> QED BY <1>2, GoInvariance, PTL

\* A Go program that has ended holds nothing, whether main returned or log.Fatal
\* was called.
THEOREM GoNoLeak == GoSpec => []NoLeakAtExit
<1>1. ASSUME GoInv, NEW c \in Client, pc[c] = "exit"
      PROVE  res[c] = {} /\ buf[c] = "none" /\ ws[c] # "open"
  <2>1. GoTypeOK /\ GoCInv(c)
    BY <1>1 DEF GoInv
  <2>2. Len(stack[c]) = 0
    BY <1>1, <2>1 DEF GoCInv, GoDepth
  <2> QED BY <1>1, <2>1, <2>2, NothingHeld
<1>2. GoInv => NoLeakAtExit
  BY <1>1 DEF NoLeakAtExit
<1> QED BY <1>2, GoInvariance, PTL

\* When the server has the token, the region is registered for the transfer
\* and the queue pair is ready, until the function returns or the program ends.
THEOREM GoTokens == GoSpec => []GoTokenUsable
<1>1. ASSUME GoInv, NEW c \in Client, srv[c] = "armed",
             pc[c] \notin {"unwind", "returned", "exit"}
      PROVE  /\ "mr" \in res[c] /\ qp[c] = "RTS"
             /\ (IF kind[c] = "get" THEN "remote_write" ELSE "remote_read") \in access[c]
  <2>1. GoCInv(c) /\ pc[c] \in GoTokenSent
    BY <1>1 DEF GoInv, GoCInv, GoToken
  <2>2. Rank(kind[c], "mr") = 7 /\ Len(stack[c]) = 7
    BY <2>1, Ranks DEF GoCInv, GoDepth, IsPart
  <2>3. "mr" \in res[c]
    BY <2>1, <2>2 DEF GoCInv, GoHeld, Deferred, Handle
  <2> QED BY <2>1, <2>3 DEF GoCInv, GoQp, Right
<1>2. GoInv => GoTokenUsable
  BY <1>1 DEF GoTokenUsable
<1> QED BY <1>2, GoInvariance, PTL

\* The queue pair is driven to RTR only towards a peer that has answered on the
\* session's own connection.
THEOREM GoPeerAnswered == GoSpec => []PeerBeforeRtr
<1>1. GoInv => PeerBeforeRtr
  BY DEF GoInv, GoCInv, GoPeer, PeerBeforeRtr, Answered
<1> QED BY <1>1, GoInvariance, PTL

=============================================================================
