---------------------------- MODULE S3CallProofs ----------------------------
(***************************************************************************)
(* Proofs about S3Call, for every list of parts, every set of options and  *)
(* every answer of the server: what is signed is what the server verifies, *)
(* success is never reported for what was not done, and a call that        *)
(* succeeds leaks nothing.                                                 *)
(***************************************************************************)
EXTENDS S3Call, SequenceLemmas, FiniteSetTheorems

----------------------------------------------------------------------------
(* The inductive invariant.                                                *)

\* What is held at each step.
Held ==
  /\ pc = "call" => mem = {}
  /\ pc = "open" => op = "complete" /\ mem = {"body"}
  /\ pc \in {"perform", "close"} =>
       mem \subseteq {"slist", "curl", "lost"} \cup (IF op \in MultiOp THEN {"resp"} ELSE {})
                       \cup (IF op = "complete" THEN {"body"} ELSE {})
  /\ pc = "parse" => op \in {"create", "list"} /\ mem \subseteq {"resp", "lost"} /\ ret = 0
  /\ pc = "free" =>
       /\ op \in MultiOp
       /\ mem \subseteq {"resp", "body", "lost"}
                          \cup (IF op = "list" /\ ret = 0 THEN {"parts"} ELSE {})
  /\ ReturnsClean

HasStatus(a) == "http" \in DOMAIN a /\ a.http \in {200, 201, 204, 307, 403, 500}

\* What is so where the server has done what was asked: the header list is whole
\* but for the Host that libcurl adds as well.
Done == executed /\ "lost" \notin mem

\* An answer with a status of success has been preceded by the work.
Truthful == HasStatus(answer) /\ (answer.http < 300 => Done)

\* Success is reported on the ground of such an answer only.
Reported ==
  /\ pc \in {"call", "open"} => answer = NoValue
  /\ answer # NoValue => Truthful
  /\ rc = "ok" => Truthful
  /\ pc \in {"call", "open", "perform"} => rc = "none"
  /\ pc \in {"parse", "free", "returned"} /\ ret = 0 => Done

\* The request of a call, as Open makes it where the k-th append fails.
List(k) == SubSeq(headers(op), k + 1, Len(headers(op)))

Sent(k) == [signed |-> sign_request(op), method |-> method(op), target |-> target(op),
            query |-> query(op), headers |-> Transmitted(method(op), List(k)),
            unsent |-> k, body |-> op = "complete"]

\* Where a list was lost, headers are missing from the request.
Requested ==
  /\ pc \in {"call", "open"} => request = NoValue
  /\ request # NoValue \/ pc = "perform" =>
       \E k \in 0 .. Len(headers(op)) : request = Sent(k) /\ ("lost" \in mem => k > 1)

CallInv ==
  /\ pc \in Step /\ op \in Op /\ ret \in {0, -1} /\ rc \in {"none", "ok", "error"}
  /\ Held /\ Reported /\ Requested

----------------------------------------------------------------------------
(* The signature.                                                          *)

\* Three lists, one after another.
LEMMA ThreeLists ==
  ASSUME NEW S, NEW u \in Seq(S), NEW v \in Seq(S), NEW w \in Seq(S), NEW h, h = u \o v \o w
  PROVE  /\ h \in Seq(S) /\ Len(h) = Len(u) + Len(v) + Len(w)
         /\ \A i \in 1 .. Len(u) : h[i] = u[i]
         /\ \A i \in 1 .. Len(v) : h[Len(u) + i] = v[i]
         /\ \A i \in 1 .. Len(w) : h[Len(u) + Len(v) + i] = w[i]
<1>1. /\ u \o v \in Seq(S) /\ Len(u \o v) = Len(u) + Len(v)
      /\ Len(u) \in Nat /\ Len(v) \in Nat /\ Len(w) \in Nat
  OBVIOUS
<1>2. h \in Seq(S) /\ Len(h) = Len(u) + Len(v) + Len(w)
  BY <1>1
<1>3. ASSUME NEW i \in 1 .. Len(u) PROVE h[i] = u[i]
  <2>1. (u \o v)[i] = u[i]
    OBVIOUS
  <2> QED BY <1>1, <2>1
<1>4. ASSUME NEW i \in 1 .. Len(v) PROVE h[Len(u) + i] = v[i]
  <2>1. (u \o v)[Len(u) + i] = v[i] /\ Len(u) + i \in 1 .. Len(u \o v)
    BY <1>1
  <2> QED BY <1>1, <2>1
<1>5. ASSUME NEW i \in 1 .. Len(w) PROVE h[Len(u) + Len(v) + i] = w[i]
  <2> DEFINE x == u \o v
  <2> HIDE DEF x
  <2>1. x \in Seq(S) /\ Len(x) = Len(u) + Len(v)
    BY <1>1 DEF x
  <2>2. (x \o w)[Len(x) + i] = w[i]
    BY <2>1
  <2> QED BY <2>1, <2>2 DEF x
<1> QED BY <1>2, <1>3, <1>4, <1>5

\* The header lists, item by item.
LEMMA HeaderLists ==
  ASSUME op \in Op
  PROVE  LET h == headers(op)
             n == Len(h)
         IN  /\ n \in {4, 5, 6} /\ \E S : h \in Seq(S)
             /\ h[1] = "host" /\ h[2] = "x-amz-date" /\ h[3] = "authorization"
             /\ h[4] = "accept:" /\ \A i \in 3 .. n : h[i] # "x-amz-date"
             /\ op \in MultiOp => n > 4 /\ h[5] = "content-type:"
             /\ op \in ClientOp => n < 6 /\ (n = 5 => h[5] = "x-rdma-request-id")
             /\ op \in MultiOp /\ n = 6 => h[6] = "x-rdma-request-id"
             /\ op \in {"get", "put", "part"} => h[n] = "x-rdma-request-id"
<1> DEFINE h == headers(op)
           u == <<"host", "x-amz-date", "authorization">>
           v == Suppressed(op)
           w == IF op \in {"get", "put", "part"} THEN <<"x-rdma-request-id">> ELSE << >>
           S == {"host", "x-amz-date", "authorization", "accept:", "content-type:",
                 "x-rdma-request-id"}
<1>1. ClientOp = {"head", "get", "put"} /\ op \in ClientOp \cup MultiOp
      /\ MultiOp = {"create", "part", "list", "complete", "abort", "list-uploads"}
  BY DEF ClientOp, MultiOp, Op
<1>2. h = u \o v \o w
  BY DEF headers
<1>3. u \in Seq(S) /\ Len(u) = 3 /\ u[1] = "host" /\ u[2] = "x-amz-date" /\ u[3] = "authorization"
  OBVIOUS
<1>4. /\ v \in Seq(S) /\ v[1] = "accept:"
      /\ op \in MultiOp => Len(v) = 2 /\ v[2] = "content-type:"
      /\ op \notin MultiOp => Len(v) = 1
  <2>1. CASE op \in MultiOp
    BY <2>1 DEF Suppressed
  <2>2. CASE op \notin MultiOp
    BY <2>2 DEF Suppressed
  <2> QED BY <2>1, <2>2
<1>5. /\ w \in Seq(S)
      /\ op \in {"get", "put", "part"} => Len(w) = 1 /\ w[1] = "x-rdma-request-id"
      /\ op \notin {"get", "put", "part"} => Len(w) = 0
  <2>1. CASE op \in {"get", "put", "part"}
    BY <2>1
  <2>2. CASE op \notin {"get", "put", "part"}
    BY <2>2
  <2> QED BY <2>1, <2>2
<1>6. \E R : h \in Seq(R)
  <2> HIDE DEF h, u, v, w, S
  <2>1. h \in Seq(S)
    BY <1>2, <1>3, <1>4, <1>5, ThreeLists
  <2> QED BY <2>1
<1> HIDE DEF h, u, v, w, S
<1>7. /\ Len(h) = Len(u) + Len(v) + Len(w)
      /\ \A i \in 1 .. Len(u) : h[i] = u[i]
      /\ \A i \in 1 .. Len(v) : h[Len(u) + i] = v[i]
      /\ \A i \in 1 .. Len(w) : h[Len(u) + Len(v) + i] = w[i]
  <2>1. u \in Seq(S) /\ v \in Seq(S) /\ w \in Seq(S)
    BY <1>3, <1>4, <1>5
  <2> QED BY <1>2, <2>1, ThreeLists
<1>8. h[1] = "host" /\ h[2] = "x-amz-date" /\ h[3] = "authorization" /\ h[4] = "accept:"
  <2>1. h[3 + 1] = v[1]
    BY <1>3, <1>4, <1>7
  <2> QED BY <1>3, <1>4, <1>7, <2>1
<1>9. CASE op \in ClientOp
  <2>1. op \notin MultiOp /\ Len(v) = 1
    BY <1>1, <1>4, <1>9
  <2>2. Len(h) = 4 + Len(w) /\ (Len(w) = 1 => h[4 + 1] = w[1])
    BY <1>3, <1>7, <2>1
  <2>3. op \in {"get", "put", "part"} => Len(w) = 1
    BY <1>5
  <2>4. Len(w) = 1 \/ Len(w) = 0
    BY <1>5
  <2>5. Len(w) = 1 => w[1] = "x-rdma-request-id"
    BY <1>5
  <2>6. Len(w) = 1 => Len(h) = 5
    BY <2>2
  <2>7. Len(w) = 0 => Len(h) = 4
    BY <2>2
  <2>8. Len(h) \in {4, 5} /\ (Len(h) = 5 => h[5] = "x-rdma-request-id")
    BY <2>2, <2>4, <2>5, <2>6, <2>7
  <2>9. op \in {"get", "put", "part"} => Len(h) = 5
    BY <2>3, <2>6
  <2>10. \A i \in 3 .. Len(h) : h[i] # "x-amz-date"
    BY <1>8, <2>8
  <2> QED BY <1>6, <1>8, <2>1, <2>8, <2>9, <2>10 DEF h
<1>10. CASE op \in MultiOp
  <2>1. op \notin ClientOp /\ Len(v) = 2 /\ v[2] = "content-type:"
    BY <1>1, <1>4, <1>10
  <2>2. /\ Len(h) = 5 + Len(w) /\ (Len(w) = 1 => h[5 + 1] = w[1])
        /\ h[3 + 2] = v[2]
    BY <1>3, <1>7, <2>1
  <2>3. op \in {"get", "put", "part"} => Len(w) = 1
    BY <1>5
  <2>4. Len(w) = 1 \/ Len(w) = 0
    BY <1>5
  <2>5. Len(w) = 1 => w[1] = "x-rdma-request-id"
    BY <1>5
  <2>6. Len(w) = 1 => Len(h) = 6
    BY <2>2
  <2>7. Len(w) = 0 => Len(h) = 5
    BY <2>2
  <2>8. /\ Len(h) \in {5, 6} /\ (Len(h) = 6 => h[6] = "x-rdma-request-id")
        /\ h[5] = "content-type:"
    BY <2>1, <2>2, <2>4, <2>5, <2>6, <2>7
  <2>9. op \in {"get", "put", "part"} => Len(h) = 6
    BY <2>3, <2>6
  <2>10. \A i \in 3 .. Len(h) : h[i] # "x-amz-date"
    BY <1>8, <2>8
  <2> QED BY <1>6, <1>8, <2>1, <2>8, <2>9, <2>10 DEF h
<1> QED BY <1>1, <1>9, <1>10

\* What is on a list of which the beginning is missing.
LEMMA ListItems ==
  ASSUME op \in Op, NEW k \in 0 .. Len(headers(op))
  PROVE  ToSet(List(k)) = {headers(op)[i] : i \in k + 1 .. Len(headers(op))}
<1> DEFINE h == headers(op)
<1>1. PICK S : h \in Seq(S)
  BY HeaderLists
<1> HIDE DEF h
<1>2. ASSUME k \in 0 .. Len(h)
      PROVE  LET s == SubSeq(h, k + 1, Len(h))
             IN  DOMAIN s = 1 .. Len(h) - k /\ \A i \in 1 .. Len(h) - k : s[i] = h[i + k]
  BY <1>1, <1>2
<1>3. k \in 0 .. Len(h) /\ List(k) = SubSeq(h, k + 1, Len(h))
  BY DEF h, List
<1>4. ToSet(List(k)) = {h[i + k] : i \in 1 .. Len(h) - k}
  BY <1>2, <1>3 DEF ToSet
<1>5. {h[i + k] : i \in 1 .. Len(h) - k} = {h[i] : i \in k + 1 .. Len(h)}
  <2>1. ASSUME NEW i \in k + 1 .. Len(h) PROVE i - k \in 1 .. Len(h) - k /\ (i - k) + k = i
    BY <1>1, <1>3
  <2>2. ASSUME NEW i \in 1 .. Len(h) - k PROVE i + k \in k + 1 .. Len(h)
    BY <1>1, <1>3
  <2> QED BY <2>1, <2>2
<1> QED BY <1>4, <1>5 DEF h

\* The headers the server takes into the signature are those that were signed:
\* libcurl adds none by itself.
LEMMA HeadersAgree ==
  ASSUME op \in Op
  PROVE  Recomputed(Sent(0)).headers = sign_request(op).headers
<1> DEFINE h == headers(op)
           L == ToSet(List(0))
<1>1. L = {h[i] : i \in 1 .. Len(h)}
  BY HeaderLists, ListItems
<1>2. CASE op \in ClientOp
  <2>1. /\ {"host", "x-amz-date", "authorization", "accept:"} \subseteq L
        /\ L \subseteq {"host", "x-amz-date", "authorization", "accept:", "x-rdma-request-id"}
    <3> DEFINE n == Len(h)
    <3>1. /\ n \in {4, 5} /\ h[1] = "host" /\ h[2] = "x-amz-date" /\ h[3] = "authorization"
          /\ h[4] = "accept:" /\ (n > 4 => h[5] = "x-rdma-request-id")
      BY <1>2, HeaderLists
    <3> HIDE DEF h, n
    <3>2. L = {h[i] : i \in 1 .. n}
      BY <1>1 DEF n
    <3>3. 1 .. n = {1, 2, 3, 4} \/ (n = 5 /\ 1 .. n = {1, 2, 3, 4, 5})
      BY <3>1
    <3> HIDE DEF L
    <3> QED BY <3>1, <3>2, <3>3
  <2>2. method(op) # "POST" /\ op # "complete"
        /\ Recomputed(Sent(0)).headers =
             ((Transmitted(method(op), List(0)) \ {"authorization", "x-rdma-request-id"})
                \ {"content-length"})
    BY <1>2 DEF Recomputed, Sent, method, ClientOp
  <2> HIDE DEF L
  <2>3. Recomputed(Sent(0)).headers = {"host", "x-amz-date"}
    BY <2>1, <2>2 DEF Transmitted, CurlAdds, L
  <2> QED BY <2>2, <2>3 DEF sign_request
<1>3. CASE op \in MultiOp
  <2>1. /\ {"host", "x-amz-date", "authorization", "accept:", "content-type:"} \subseteq L
        /\ L \subseteq {"host", "x-amz-date", "authorization", "accept:", "content-type:",
                        "x-rdma-request-id"}
    <3> DEFINE n == Len(h)
    <3>1. /\ n \in {5, 6} /\ h[1] = "host" /\ h[2] = "x-amz-date" /\ h[3] = "authorization"
          /\ h[4] = "accept:" /\ h[5] = "content-type:"
          /\ n > 5 => h[6] = "x-rdma-request-id"
      BY <1>3, HeaderLists
    <3> HIDE DEF h, n
    <3>2. L = {h[i] : i \in 1 .. n}
      BY <1>1 DEF n
    <3>3. 1 .. n = {1, 2, 3, 4, 5} \/ (n = 6 /\ 1 .. n = {1, 2, 3, 4, 5, 6})
      BY <3>1
    <3> HIDE DEF L
    <3> QED BY <3>1, <3>2, <3>3
  <2>2. /\ op = "complete" => method(op) = "POST"
        /\ Recomputed(Sent(0)).headers =
             ((Transmitted(method(op), List(0)) \ {"authorization", "x-rdma-request-id"})
                \ (IF op = "complete" THEN {} ELSE {"content-length"}))
    BY <1>3 DEF Recomputed, Sent, method, ClientOp, MultiOp
  <2> HIDE DEF L
  <2>3. Recomputed(Sent(0)).headers =
          {"host", "x-amz-date"} \cup (IF op = "complete" THEN {"content-length"} ELSE {})
    BY <2>1, <2>2 DEF Transmitted, CurlAdds, L
  <2> QED BY <2>3 DEF sign_request
<1> QED BY <1>2, <1>3 DEF Op

\* A request that the server takes has lost no header of the list but the Host, and
\* is done.
LEMMA AuthenticWhole ==
  ASSUME op \in Op, NEW k \in 0 .. Len(headers(op)), request = Sent(k), Authentic
  PROVE  k < 2 /\ Obeyed
<1> DEFINE h == headers(op)
<1>1. ToSet(List(k)) = {h[i] : i \in k + 1 .. Len(h)} /\ k \in 0 .. Len(h)
  BY ListItems
<1>2. /\ Len(h) \in {4, 5, 6} /\ \A i \in 3 .. Len(h) : h[i] # "x-amz-date"
      /\ op \in {"get", "put", "part"} => h[Len(h)] = "x-rdma-request-id"
  BY HeaderLists
<1>3. request.headers = Transmitted(method(op), List(k))
  BY DEF Sent
<1> HIDE DEF h
<1>4. k < 2
  <2> SUFFICES ASSUME k >= 2 PROVE FALSE
    OBVIOUS
  <2>1. "x-amz-date" \notin ToSet(List(k))
    BY <1>1, <1>2
  <2>2. "x-amz-date" \notin Recomputed(request).headers
    BY <1>3, <2>1 DEF Recomputed, Transmitted, CurlAdds
  <2>3. "x-amz-date" \in request.signed.headers
    BY DEF Sent, sign_request
  <2> QED BY <2>2, <2>3 DEF Authentic
<1>5. Obeyed
  <2> SUFFICES ASSUME op \in {"get", "put", "part"}
               PROVE  "x-rdma-request-id" \in request.headers
    BY DEF Obeyed
  <2>1. Len(h) \in k + 1 .. Len(h) /\ h[Len(h)] = "x-rdma-request-id"
    BY <1>1, <1>2, <1>4
  <2>2. "x-rdma-request-id" \in ToSet(List(k))
    BY <1>1, <2>1
  <2> QED BY <1>3, <2>2 DEF Transmitted
<1> QED BY <1>4, <1>5

\* The order of the two parameters that are ever sent together by name.
LEMMA ParamsBefore ==
  /\ Before("partNumber", "uploadId") /\ ~Before("uploadId", "partNumber")
  /\ \A p \in {"partNumber", "uploadId", "uploads"} : ~Before(p, p)
<1>1. /\ ParamOrder[4] = "partNumber" /\ ParamOrder[7] = "uploadId"
      /\ ParamOrder[8] = "uploads" /\ DOMAIN ParamOrder = 1 .. 8
  BY DEF ParamOrder
<1>2. \A i \in 1 .. 8 : /\ ParamOrder[i] = "partNumber" => i = 4
                        /\ ParamOrder[i] = "uploadId" => i = 7
                        /\ ParamOrder[i] = "uploads" => i = 8
  BY DEF ParamOrder
<1>3. Before("partNumber", "uploadId")
  BY <1>1 DEF Before
<1>4. ~Before("uploadId", "partNumber")
  BY <1>1, <1>2 DEF Before
<1>5. \A p \in {"partNumber", "uploadId", "uploads"} : ~Before(p, p)
  BY <1>1, <1>2 DEF Before
<1> QED BY <1>3, <1>4, <1>5

\* At most two parameters, in order, stay as they are.
LEMMA SortedShort ==
  /\ Sorted(<< >>) = << >>
  /\ \A p \in {"uploads", "uploadId"} : Sorted(<<p>>) = <<p>>
  /\ Sorted(<<"partNumber", "uploadId">>) = <<"partNumber", "uploadId">>
<1>1. Cardinality({}) = 0 /\ \A x : Cardinality({x}) = 1
  BY FS_EmptySet, FS_Singleton
<1>2. Sorted(<< >>) = << >>
  BY DEF Sorted
<1>3. ASSUME NEW p \in {"uploads", "uploadId"} PROVE Sorted(<<p>>) = <<p>>
  <2>1. ToSet(<<p>>) = {p} /\ DOMAIN <<p>> = {1}
    BY DEF ToSet
  <2>2. {q \in {p} : Before(q, p)} = {}
    BY ParamsBefore
  <2>3. (CHOOSE x \in {p} : Cardinality({q \in {p} : Before(q, x)}) = 1 - 1) = p
    BY <1>1, <2>2
  <2>4. Sorted(<<p>>) = [i \in {1} |-> p]
    BY <2>1, <2>3 DEF Sorted
  <2> QED BY <2>4
<1>4. Sorted(<<"partNumber", "uploadId">>) = <<"partNumber", "uploadId">>
  <2> DEFINE S == {"partNumber", "uploadId"}
  <2>1. ToSet(<<"partNumber", "uploadId">>) = S /\ DOMAIN <<"partNumber", "uploadId">> = {1, 2}
    BY DEF ToSet
  <2>2. {q \in S : Before(q, "partNumber")} = {} /\ {q \in S : Before(q, "uploadId")} = {"partNumber"}
    BY ParamsBefore
  <2>3. /\ Cardinality({q \in S : Before(q, "partNumber")}) = 0
        /\ Cardinality({q \in S : Before(q, "uploadId")}) = 1
    BY <1>1, <2>2
  <2>4. /\ (CHOOSE x \in S : Cardinality({q \in S : Before(q, x)}) = 1 - 1) = "partNumber"
        /\ (CHOOSE x \in S : Cardinality({q \in S : Before(q, x)}) = 2 - 1) = "uploadId"
    BY <2>3
  <2>5. Sorted(<<"partNumber", "uploadId">>) =
          [i \in {1, 2} |-> IF i = 1 THEN "partNumber" ELSE "uploadId"]
    BY <2>1, <2>4 DEF Sorted
  <2> QED BY <2>5
<1> QED BY <1>2, <1>3, <1>4

\* The server sorts the parameters, which are signed as they are sent.
LEMMA QueryAgrees ==
  ASSUME op \in Op, op # "list-uploads"
  PROVE  Sorted(query(op)) = query(op)
<1>1. query(op) \in {<< >>, <<"uploads">>, <<"uploadId">>, <<"partNumber", "uploadId">>}
  BY DEF query, Op, ClientOp, MultiOp
<1> QED BY <1>1, SortedShort

\* The invariant gives the property.
LEMMA SignatureFromInv == CallInv => SignatureAgrees
<1> SUFFICES ASSUME CallInv, request # NoValue, request.unsent = 0
             PROVE  /\ request.signed.headers = Recomputed(request).headers
                    /\ op # "list-uploads" => request.signed = Recomputed(request)
  BY DEF SignatureAgrees
<1>1. op \in Op /\ request = Sent(0)
  BY DEF CallInv, Requested, Sent
<1>2. request.signed = sign_request(op)
  BY <1>1 DEF Sent
<1>3. Recomputed(Sent(0)).headers = sign_request(op).headers
  BY <1>1, HeadersAgree
<1>4. CASE op # "list-uploads"
  <2>1. Sorted(query(op)) = query(op)
    BY <1>1, <1>4, QueryAgrees
  <2> DEFINE H == sign_request(op).headers
  <2>2. Recomputed(Sent(0)) = [method |-> method(op), target |-> target(op),
                               query |-> Sorted(query(op)),
                               headers |-> Recomputed(Sent(0)).headers]
    BY DEF Recomputed, Sent
  <2>3. sign_request(op) = [method |-> method(op), target |-> target(op),
                            query |-> query(op), headers |-> H]
    BY DEF sign_request
  <2> QED BY <1>1, <1>2, <1>3, <2>1, <2>2, <2>3
<1> QED BY <1>1, <1>2, <1>3, <1>4

----------------------------------------------------------------------------
(* The invariant.                                                          *)

\* The call is never renamed and its options never change, so its request stays
\* what it is.
LEMMA SameSent ==
  ASSUME op' = op, opts' = opts
  PROVE  headers(op)' = headers(op) /\ \A k : Sent(k)' = Sent(k)
BY DEF Sent, List, sign_request, method, target, query, headers, Transmitted, CurlAdds,
       Suppressed

\* What Open makes.
LEMMA OpenMakes ==
  ASSUME CallInv, Open
  PROVE  /\ pc = (IF op = "complete" THEN "open" ELSE "call")
         /\ UNCHANGED <<op, opts, answer, executed>>
         /\ \/ /\ pc' = "perform" /\ UNCHANGED <<rc, ret>>
               /\ \E k \in 0 .. Len(headers(op)) :
                    request' = Sent(k) /\ ("lost" \in mem' => k > 1)
               /\ mem' \subseteq mem \cup {"slist", "curl", "lost"}
            \/ /\ op \in MultiOp /\ pc' = "free" /\ ret' = -1 /\ UNCHANGED <<request, rc>>
               /\ mem' \subseteq mem \cup {"lost"}
            \/ /\ op \in ClientOp /\ pc' = "close" /\ rc' = "error"
               /\ UNCHANGED <<request, ret>>
               /\ mem' \subseteq mem \cup {"slist", "lost"}
<1>1. "lost" \notin mem
  BY DEF CallInv, Held, Open
<1>2. PICK k \in 0 .. Len(headers(op)), lost \in SUBSET {"lost"} :
        LET list == List(k)
            held == mem \cup lost \cup (IF list = << >> THEN {} ELSE {"slist"})
        IN
        /\ lost # {} => k > 1
        /\ \/ /\ mem' = held \cup {"curl"} /\ request' = Sent(k)
              /\ pc' = "perform" /\ UNCHANGED <<rc, ret>>
           \/ /\ op \in MultiOp /\ mem' = held \ {"slist"}
              /\ pc' = "free" /\ ret' = -1 /\ UNCHANGED <<request, rc>>
           \/ /\ op \in ClientOp /\ mem' = held
              /\ pc' = "close" /\ rc' = "error" /\ UNCHANGED <<request, ret>>
  BY DEF Open, List, Sent
<1>3. /\ pc = (IF op = "complete" THEN "open" ELSE "call")
      /\ UNCHANGED <<op, opts, answer, executed>>
  BY DEF Open
<1> QED BY <1>1, <1>2, <1>3

\* The request stays the one that belongs to the call.
LEMMA RequestedKept ==
  ASSUME CallInv, Next
  PROVE  op' = op /\ Requested'
<1>1. op' = op /\ opts' = opts
  BY DEF Next, Call, MakeBody, Open, write_response, Performed, Closed, Parse, Free,
         Serve, Lost, Cut, Terminated, vars
<1>2. headers(op)' = headers(op) /\ \A k : Sent(k)' = Sent(k)
  BY <1>1, SameSent
<1>3. CASE Open
  <2>1. pc \in {"call", "open"}
    BY <1>3, OpenMakes
  <2>2. \/ request' = request /\ pc' # "perform"
        \/ \E k \in 0 .. Len(headers(op)) :
             request' = Sent(k) /\ ("lost" \in mem' => k > 1)
    BY <1>3, OpenMakes
  <2>3. request = NoValue
    BY <2>1 DEF CallInv, Requested
  <2>4. pc' \notin {"call", "open"}
    BY <1>3, OpenMakes
  <2> QED BY <1>1, <1>2, <2>2, <2>3, <2>4 DEF Requested
<1>4. CASE ~Open
  <2>1. /\ request' = request /\ ("lost" \in mem' => "lost" \in mem)
        /\ pc' \in {"call", "open"} => pc \in {"call", "open"}
        /\ pc' = "perform" => pc = "perform"
    BY <1>4 DEF Next, Call, MakeBody, write_response, Performed, Closed, Parse, Free,
                Serve, Lost, Cut, Terminated, vars
  <2> QED BY <1>1, <1>2, <2>1 DEF CallInv, Requested
<1> QED BY <1>1, <1>3, <1>4

\* Where the server takes a request, what it does is what was asked.
LEMMA TakenIsDone ==
  ASSUME CallInv, pc = "perform", Authentic
  PROVE  Obeyed /\ "lost" \notin mem
<1>1. PICK k \in 0 .. Len(headers(op)) : request = Sent(k) /\ ("lost" \in mem => k > 1)
  BY DEF CallInv, Requested
<1>2. k < 2 /\ Obeyed
  BY <1>1, AuthenticWhole DEF CallInv
<1>3. k \in Nat
  BY HeaderLists DEF CallInv
<1> QED BY <1>1, <1>2, <1>3

\* The server does its work before it answers with a success.
LEMMA ServeTruthful ==
  ASSUME CallInv, Serve
  PROVE  /\ HasStatus(answer') /\ (answer'.http < 300 => executed' /\ "lost" \notin mem)
         /\ pc = "perform" /\ answer = NoValue
         /\ UNCHANGED <<pc, op, mem, rc, ret>>
<1>1. PICK b \in Bodies, known \in BOOLEAN :
        \/ \E http \in {200, 201, 204} :
             /\ answer' = [http |-> http, known |-> known, id |-> b.id, parts |-> b.parts,
                           complete |-> TRUE]
             /\ Authentic /\ executed' = Obeyed
        \/ \E http \in {307, 403, 500} :
             answer' = [http |-> http, known |-> known, id |-> << >>, parts |-> << >>,
                        complete |-> TRUE]
  BY DEF Serve
<1>2. pc = "perform" /\ answer = NoValue /\ UNCHANGED <<pc, op, mem, rc, ret>>
  BY DEF Serve
<1>3. CASE \E http \in {200, 201, 204} :
             /\ answer' = [http |-> http, known |-> known, id |-> b.id, parts |-> b.parts,
                           complete |-> TRUE]
             /\ Authentic /\ executed' = Obeyed
  <2>1. PICK http \in {200, 201, 204} :
          /\ answer' = [http |-> http, known |-> known, id |-> b.id, parts |-> b.parts,
                        complete |-> TRUE]
          /\ Authentic /\ executed' = Obeyed
    BY <1>3
  <2>2. executed' /\ "lost" \notin mem
    BY <1>2, <2>1, TakenIsDone
  <2> QED BY <1>2, <2>1, <2>2 DEF HasStatus
<1>4. CASE \E http \in {307, 403, 500} :
             answer' = [http |-> http, known |-> known, id |-> << >>, parts |-> << >>,
                        complete |-> TRUE]
  <2>1. PICK http \in {307, 403, 500} :
          answer' = [http |-> http, known |-> known, id |-> << >>, parts |-> << >>,
                     complete |-> TRUE]
    BY <1>4
  <2> QED BY <1>2, <2>1 DEF HasStatus
<1> QED BY <1>1, <1>3, <1>4

\* An answer that is cut off keeps its status.
LEMMA CutAnswer ==
  ASSUME NEW a, HasStatus(a)
  PROVE  LET b == [a EXCEPT !.complete = FALSE] IN HasStatus(b) /\ b.http = a.http
BY DEF HasStatus

\* Every step of the program keeps the invariant.
LEMMA CallStepInv ==
  ASSUME CallInv, Call, op' = op, Requested'
  PROVE  CallInv'
<1> USE DEF CallInv, Held, Reported, Truthful, Done, Step, ReturnsClean, Op, ClientOp, MultiOp
<1>1. CASE MakeBody
  BY <1>1 DEF MakeBody
<1>2. CASE Open
  <2>1. /\ pc = (IF op = "complete" THEN "open" ELSE "call")
        /\ op' = op /\ answer' = answer /\ executed' = executed
        /\ \/ /\ pc' = "perform" /\ rc' = rc /\ ret' = ret
              /\ mem' \subseteq mem \cup {"slist", "curl", "lost"}
           \/ /\ op \in MultiOp /\ pc' = "free" /\ ret' = -1 /\ rc' = rc
              /\ mem' \subseteq mem \cup {"lost"}
           \/ /\ op \in ClientOp /\ pc' = "close" /\ rc' = "error" /\ ret' = ret
              /\ mem' \subseteq mem \cup {"slist", "lost"}
    BY <1>2, OpenMakes
  <2>2. answer = NoValue /\ rc = "none"
    BY <2>1
  <2>3. Held'
    BY <2>1
  <2>4. Reported'
    BY <2>1, <2>2
  <2> QED BY <2>1, <2>3, <2>4
<1>3. CASE write_response
  <2>1. /\ pc = "perform" /\ op' = op /\ answer' = answer /\ executed' = executed /\ ret' = ret
        /\ \/ op \in MultiOp /\ mem' = mem \cup {"resp"} /\ pc' = pc /\ rc' = rc
           \/ pc' = "close" /\ rc' = "error" /\ mem' = mem
           \/ pc' = pc /\ rc' = rc /\ mem' = mem
    BY <1>3 DEF write_response
  <2> QED BY <2>1
<1>4. CASE Performed
  <2>1. /\ pc = "perform" /\ pc' = "close" /\ answer # NoValue /\ op' = op /\ mem' = mem
        /\ answer' = answer /\ executed' = executed /\ ret' = ret /\ rc' \in {"ok", "error"}
    BY <1>4 DEF Performed
  <2> QED BY <2>1
<1>5. CASE Closed
  <2>1. /\ pc = "close" /\ op' = op /\ mem' = mem \ {"slist", "curl"}
        /\ answer' = answer /\ executed' = executed /\ rc' = rc
        /\ ret' = IF rc = "ok" /\ Accepted(op, answer.http) THEN 0 ELSE -1
        /\ pc' = IF op \in ClientOp THEN "returned"
                 ELSE IF ret' = 0 /\ op \in {"create", "list"} THEN "parse" ELSE "free"
    BY <1>5 DEF Closed
  <2>2. ret' = 0 => Done
    <3>1. CASE rc = "ok"
      <4>1. answer.http \in {200, 201, 204, 307, 403, 500}
        BY <3>1 DEF HasStatus
      <4>2. Accepted(op, answer.http) => answer.http < 300
        <5>1. CASE op \in {"head", "get"}
          <6>1. Accepted(op, answer.http) <=> answer.http = 200
            BY <5>1 DEF Accepted
          <6> QED BY <6>1
        <5>2. CASE op = "put"
          BY <4>1, <5>2 DEF Accepted
        <5>3. CASE op \in MultiOp
          <6>1. op \notin {"head", "get"} /\ op # "put"
            BY <5>3 DEF MultiOp
          <6> DEFINE http == answer.http
          <6> HIDE DEF http
          <6>2. Accepted(op, http) => http < 300
            BY <5>3, <6>1 DEF Accepted
          <6> QED BY <6>2 DEF http
        <5> QED BY <5>1, <5>2, <5>3
      <4> QED BY <2>1, <3>1, <4>2
    <3> QED BY <2>1, <3>1
  <2>3. Held'
    BY <2>1, <2>2
  <2>4. Reported'
    BY <2>1, <2>2
  <2> QED BY <2>1, <2>3, <2>4
<1>6. CASE Parse
  <2>1. /\ pc = "parse" /\ pc' = "free" /\ op' = op /\ answer' = answer
        /\ executed' = executed /\ rc' = rc
        /\ \/ mem' = mem /\ ret' \in {0, -1}
           \/ op = "list" /\ mem' = mem \cup {"parts"} /\ ret' = ret
    BY <1>6 DEF Parse
  <2> QED BY <2>1
<1>7. CASE Free
  BY <1>7 DEF Free
<1> QED BY <1>1, <1>2, <1>3, <1>4, <1>5, <1>6, <1>7 DEF Call

\* Steps of the server and of the connection keep it.
LEMMA NetworkStepInv ==
  ASSUME CallInv, Serve \/ Lost \/ Cut, op' = op, Requested'
  PROVE  CallInv'
<1> USE DEF CallInv, Held, Reported, Truthful, Done, Step, ReturnsClean
<1>1. CASE Serve
  BY <1>1, ServeTruthful
<1>2. CASE Lost
  BY <1>2 DEF Lost
<1>3. CASE Cut
  <2>1. /\ pc = "perform" /\ HasStatus(answer)
        /\ answer' = [answer EXCEPT !.complete = FALSE]
        /\ UNCHANGED <<pc, op, mem, rc, ret, executed>>
    BY <1>3 DEF Cut
  <2>2. HasStatus(answer') /\ answer'.http = answer.http
    BY <2>1, CutAnswer
  <2>3. answer'.http < 300 => Done'
    BY <2>1, <2>2, <1>3 DEF Cut
  <2>4. Held'
    BY <2>1
  <2>5. Reported'
    BY <2>1, <2>2, <2>3
  <2> QED BY <2>1, <2>4, <2>5
<1> QED BY <1>1, <1>2, <1>3

\* CallInv is inductive, whatever the server and the network do.
THEOREM CallInvariance == Spec => []CallInv
<1>1. Init => CallInv
  BY DEF Init, CallInv, Held, Reported, Requested, ReturnsClean, Step
<1>2. CallInv /\ [Next]_vars => CallInv'
  <2> SUFFICES ASSUME CallInv, [Next]_vars PROVE CallInv'
    OBVIOUS
  <2>1. CASE Next
    <3>1. op' = op /\ Requested'
      BY <2>1, RequestedKept
    <3>2. CASE Terminated
      BY <3>1, <3>2 DEF Terminated, vars, CallInv, Held, Reported, Truthful, Done, ReturnsClean
    <3> QED BY <2>1, <3>1, <3>2, CallStepInv, NetworkStepInv DEF Next
  <2>2. CASE UNCHANGED vars
    <3>1. headers(op)' = headers(op) /\ \A k : Sent(k)' = Sent(k)
      BY <2>2, SameSent DEF vars
    <3>2. Requested'
      BY <2>2, <3>1 DEF vars, CallInv, Requested
    <3> QED BY <2>2, <3>2 DEF vars, CallInv, Held, Reported, Truthful, Done, ReturnsClean
  <2> QED BY <2>1, <2>2
<1> QED BY <1>1, <1>2, PTL DEF Spec

----------------------------------------------------------------------------
(* The buffers.                                                            *)

\* What is written for one part.
LEMMA PartFits ==
  ASSUME NEW x \in EtagLens
  PROVE  PartLen(x) \in Nat /\ PartLen(x) <= 317
<1>1. x \in Nat /\ x <= 255
  BY EtagLensAssumption
<1> QED BY <1>1 DEF PartLen

\* The running total of the first k of the numbers c, counted from a.
Total(c, a, k, f) ==
  /\ f \in [0 .. k -> Nat] /\ f[0] = a /\ f[k] <= a + 317 * k
  /\ \A i \in 1 .. k : f[i] = f[i - 1] + c[i]

\* A running total of numbers up to 317 exists, and is bounded.
LEMMA RunningTotal ==
  ASSUME NEW n \in Nat, NEW a \in Nat, NEW c \in [1 .. n -> Nat],
         \A i \in 1 .. n : c[i] <= 317
  PROVE  \E g : Total(c, a, n, g)
<1> DEFINE Upto(k, f) == /\ f \in [0 .. k -> Nat] /\ f[0] = a /\ f[k] <= a + 317 * k
                         /\ \A i \in 1 .. k : f[i] = f[i - 1] + c[i]
           T == {k \in Nat : k <= n => \E f : Upto(k, f)}
<1>1. 0 \in T
  <2> DEFINE g == [i \in 0 .. 0 |-> a]
  <2>1. Upto(0, g)
    OBVIOUS
  <2> HIDE DEF Upto, g
  <2> QED BY <2>1
<1>2. ASSUME NEW k \in Nat, k \in T PROVE k + 1 \in T
  <2>1. CASE k + 1 <= n
    <3>1. PICK f : Upto(k, f)
      <4> HIDE DEF Upto
      <4> QED BY <1>2, <2>1
    <3> DEFINE g == [i \in 0 .. k + 1 |-> IF i <= k THEN f[i] ELSE f[k] + c[k + 1]]
    <3>2. f[k] \in Nat /\ c[k + 1] \in Nat /\ c[k + 1] <= 317
      BY <2>1, <3>1
    <3>3. /\ \A i \in 0 .. k : g[i] = f[i]
          /\ g[k + 1] = f[k] + c[k + 1]
      OBVIOUS
    <3>4. g \in [0 .. k + 1 -> Nat] /\ g[0] = a
      BY <3>1, <3>2
    <3> HIDE DEF g
    <3>a. f[k] <= a + 317 * k /\ \A i \in 1 .. k : f[i] = f[i - 1] + c[i]
      BY <3>1
    <3>5. g[k + 1] <= a + 317 * (k + 1)
      <4>1. ASSUME NEW y \in Nat, NEW z \in Nat, y <= a + 317 * k, z <= 317
            PROVE  y + z <= a + 317 * (k + 1)
        BY <4>1
      <4> HIDE DEF Upto
      <4> QED BY <3>2, <3>3, <3>a, <4>1
    <3>6. ASSUME NEW i \in 1 .. k + 1 PROVE g[i] = g[i - 1] + c[i]
      <4>1. CASE i <= k
        <5>1. i \in 1 .. k /\ i \in 0 .. k /\ i - 1 \in 0 .. k
          BY <4>1
        <5> HIDE DEF Upto
        <5> QED BY <3>3, <3>a, <5>1
      <4>2. CASE i = k + 1
        BY <3>3, <4>2
      <4> QED BY <4>1, <4>2
    <3>7. Upto(k + 1, g)
      BY <3>4, <3>5, <3>6
    <3> HIDE DEF Upto
    <3> QED BY <3>7
  <2>2. CASE ~(k + 1 <= n)
    <3> HIDE DEF Upto
    <3> QED BY <2>2
  <2> QED BY <2>1, <2>2
<1> HIDE DEF T
<1>3. Nat \subseteq T
  BY <1>1, <1>2, SetInduction
<1>4. \E f : Upto(n, f)
  <2> HIDE DEF Upto
  <2> QED BY <1>3 DEF T
<1> QED BY <1>4 DEF Total

\* The body of complete fits its buffer, however many parts there are.
LEMMA BodyFits ==
  ASSUME NEW lens \in Seq(EtagLens)
  PROVE  BodyLen(lens) < BodyCap(Len(lens))
<1> DEFINE n == Len(lens)
           c == [i \in 1 .. n |-> PartLen(lens[i])]
           F == CHOOSE f : f = [i \in 0 .. n |->
                                  IF i = 0 THEN 51 ELSE f[i - 1] + PartLen(lens[i])]
<1>1. n \in Nat /\ \A i \in 1 .. n : lens[i] \in EtagLens
  OBVIOUS
<1>2. BodyLen(lens) = F[n]
  BY DEF BodyLen
<1>3. /\ c \in [1 .. n -> Nat]
      /\ \A i \in 1 .. n : c[i] = PartLen(lens[i]) /\ c[i] <= 317
  BY <1>1, PartFits
<1> HIDE DEF n, c
<1>4. PICK g \in [0 .. n -> Nat] : /\ g[0] = 51 /\ g[n] <= 51 + 317 * n
                                   /\ \A i \in 1 .. n : g[i] = g[i - 1] + c[i]
  <2> DEFINE a == 51
  <2>1. a \in Nat
    OBVIOUS
  <2>2. n \in Nat
    BY <1>1 DEF n
  <2>3. c \in [1 .. n -> Nat]
    BY <1>3
  <2>4. \A i \in 1 .. n : c[i] <= 317
    BY <1>3
  <2> HIDE DEF a, F
  <2>5. PICK g : Total(c, a, n, g)
    BY <2>1, <2>2, <2>3, <2>4, RunningTotal
  <2> QED BY <2>5 DEF a, Total
<1>5. \A i \in 0 .. n : g[i] = IF i = 0 THEN 51 ELSE g[i - 1] + PartLen(lens[i])
  <2> SUFFICES ASSUME NEW i \in 0 .. n
               PROVE  g[i] = IF i = 0 THEN 51 ELSE g[i - 1] + PartLen(lens[i])
    OBVIOUS
  <2>1. CASE i # 0
    <3>1. i \in 1 .. n
      BY <1>1, <2>1
    <3> QED BY <1>3, <1>4, <2>1, <3>1
  <2> QED BY <1>4, <2>1
<1>6. g = [i \in 0 .. n |-> IF i = 0 THEN 51 ELSE g[i - 1] + PartLen(lens[i])]
  BY <1>4, <1>5
<1>7. F = [i \in 0 .. n |-> IF i = 0 THEN 51 ELSE F[i - 1] + PartLen(lens[i])]
  BY <1>6
<1> HIDE DEF F
<1>8. \A i \in 0 .. n : F[i] = IF i = 0 THEN 51 ELSE F[i - 1] + PartLen(lens[i])
  BY <1>7, Zenon
<1> DEFINE T == {i \in Nat : i <= n => F[i] = g[i]}
<1>9. 0 \in T
  BY <1>1, <1>4, <1>8
<1>10. ASSUME NEW i \in Nat, i \in T PROVE i + 1 \in T
  <2>1. CASE i + 1 <= n
    <3>1. /\ i + 1 \in 0 .. n /\ i + 1 # 0 /\ (i + 1) - 1 = i
      BY <1>1, <2>1
    <3>2. F[i] = g[i]
      BY <1>1, <1>10, <2>1
    <3>3. F[i + 1] = g[i + 1]
      BY <1>5, <1>8, <3>1, <3>2
    <3> QED BY <3>3
  <2> QED BY <2>1
<1> HIDE DEF T
<1>11. Nat \subseteq T
  BY <1>9, <1>10, SetInduction
<1>12. F[n] = g[n]
  BY <1>1, <1>11 DEF T
<1>13. g[n] \in Nat /\ g[n] <= 51 + 317 * n
  BY <1>1, <1>4
<1> QED BY <1>1, <1>2, <1>12, <1>13 DEF BodyCap, n

\* The function that NewCap is defined with exists: it is put together from the
\* capacities that are enough downwards.
LEMMA GrownExists ==
  ASSUME NEW need \in Nat
  PROVE  \E f : f = [c \in Nat |-> IF c >= need THEN c ELSE f[2 * c]]
<1> DEFINE Down(n, f) == /\ f \in [Nat -> Nat]
                         /\ \A c \in Nat : c + n >= need =>
                              f[c] = IF c >= need THEN c ELSE f[2 * c]
           T == {n \in Nat : \E f : Down(n, f)}
<1>1. 0 \in T
  <2> DEFINE g == [c \in Nat |-> c]
  <2>1. Down(0, g)
    OBVIOUS
  <2> HIDE DEF Down, g
  <2> QED BY <2>1
<1>2. ASSUME NEW n \in Nat, n \in T PROVE n + 1 \in T
  <2>1. PICK f : Down(n, f)
    BY <1>2
  <2> DEFINE g == [c \in Nat |-> IF c + n >= need \/ c = 0 THEN f[c] ELSE f[2 * c]]
  <2>2. g \in [Nat -> Nat]
    BY <2>1
  <2>3. ASSUME NEW c \in Nat, c + (n + 1) >= need
        PROVE  g[c] = IF c >= need THEN c ELSE g[2 * c]
    <3>1. CASE c = 0
      <4>1. g[0] = f[0] /\ 2 * c = 0
        BY <3>1
      <4>2. CASE need = 0
        <5>1. f[0] = 0
          BY <2>1, <4>2
        <5> QED BY <3>1, <4>1, <4>2, <5>1
      <4>3. CASE need # 0
        BY <3>1, <4>1, <4>3
      <4> QED BY <4>2, <4>3
    <3>2. CASE c # 0
      <4>1. 2 * c \in Nat /\ 2 * c + n >= need
        BY <2>3, <3>2
      <4>2. g[2 * c] = f[2 * c]
        BY <4>1
      <4>3. CASE c + n >= need
        <5>1. g[c] = f[c]
          BY <4>3
        <5>2. f[c] = IF c >= need THEN c ELSE f[2 * c]
          BY <2>1, <4>3
        <5> QED BY <4>2, <5>1, <5>2
      <4>4. CASE ~(c + n >= need)
        <5>1. g[c] = f[2 * c] /\ ~(c >= need)
          BY <3>2, <4>4
        <5> QED BY <4>2, <5>1
      <4> QED BY <4>3, <4>4
    <3> QED BY <3>1, <3>2
  <2>4. Down(n + 1, g)
    <3> HIDE DEF g
    <3> QED BY <2>2, <2>3
  <2> HIDE DEF Down, g
  <2> QED BY <2>4
<1> HIDE DEF T
<1>3. Nat \subseteq T
  BY <1>1, <1>2, SetInduction
<1>4. PICK f : Down(need, f)
  <2> HIDE DEF Down
  <2> QED BY <1>3 DEF T
<1>5. \A c \in Nat : f[c] = IF c >= need THEN c ELSE f[2 * c]
  BY <1>4
<1>6. f = [c \in Nat |-> IF c >= need THEN c ELSE f[2 * c]]
  BY <1>4, <1>5
<1> QED BY <1>6

\* Doubled often enough, every capacity but zero reaches what is needed.
LEMMA GrownEnough ==
  ASSUME NEW need \in Nat, NEW F,
         \A c \in Nat : F[c] = IF c >= need THEN c ELSE F[2 * c],
         NEW c0 \in Nat \ {0}
  PROVE  F[c0] \in Nat /\ F[c0] >= need
<1> DEFINE T == {n \in Nat : \A c \in Nat \ {0} :
                               c + n >= need => F[c] \in Nat /\ F[c] >= need}
<1>1. 0 \in T
  OBVIOUS
<1>2. ASSUME NEW n \in Nat, n \in T PROVE n + 1 \in T
  <2> SUFFICES ASSUME NEW c \in Nat \ {0}, c + (n + 1) >= need
               PROVE  F[c] \in Nat /\ F[c] >= need
    OBVIOUS
  <2>1. CASE c >= need
    BY <2>1
  <2>2. CASE ~(c >= need)
    <3>1. 2 * c \in Nat \ {0} /\ 2 * c + n >= need
      OBVIOUS
    <3>2. F[2 * c] \in Nat /\ F[2 * c] >= need
      BY <1>2, <3>1
    <3>3. F[c] = F[2 * c]
      BY <2>2
    <3> QED BY <3>2, <3>3
  <2> QED BY <2>1, <2>2
<1> HIDE DEF T
<1>3. Nat \subseteq T
  BY <1>1, <1>2, SetInduction
<1>4. need \in T /\ c0 + need >= need
  BY <1>3
<1> QED BY <1>4 DEF T

\* A buffer that grows is large enough.
LEMMA NewCapEnough ==
  ASSUME NEW need \in Nat, cap \in Nat
  PROVE  NewCap(need) \in Nat /\ NewCap(need) >= need
<1> DEFINE F == CHOOSE f : f = [c \in Nat |-> IF c >= need THEN c ELSE f[2 * c]]
           c0 == IF cap = 0 THEN Cap0 ELSE 2 * cap
<1>1. F = [c \in Nat |-> IF c >= need THEN c ELSE F[2 * c]]
  BY GrownExists
<1>2. NewCap(need) = F[c0]
  BY DEF NewCap
<1>3. c0 \in Nat \ {0}
  BY Cap0Assumption
<1> HIDE DEF F, c0
<1>4. \A c \in Nat : F[c] = IF c >= need THEN c ELSE F[2 * c]
  BY <1>1, Zenon
<1>5. F[c0] \in Nat /\ F[c0] >= need
  BY <1>3, <1>4, GrownEnough
<1> QED BY <1>2, <1>5

\* What a call has received and what it still will, and the room for it.
Room ==
  /\ cap \in Nat /\ wire \in Seq(Token) /\ resp \in Seq(Token)
  /\ etags \in Seq(EtagLens)
  /\ "resp" \in mem => Len(resp) < cap

\* A text between two tags is a text.
LEMMA TaggedType ==
  ASSUME NEW tag \in DOMAIN OpenTag, NEW text \in Seq(Token)
  PROVE  Tagged(tag, text) \in Seq(Token)
<1>1. tag \in {"UploadId", "Part", "PartNumber", "ETag"}
  BY DEF OpenTag
<1>2. OpenTag[tag] \in Token /\ CloseTag[tag] \in Token
  BY <1>1 DEF Token, Tag, OpenTag, CloseTag
<1> QED BY <1>2 DEF Tagged

\* So is the text of an answer of no interest.
LEMMA NoiseType == << >> \in Seq(Token) /\ <<"x", "x">> \in Seq(Token)
<1>1. "x" \in Token
  BY CharAssumption DEF Token
<1> QED BY <1>1

\* So is the answer to a list of parts, and every other one.
LEMMA BodiesType ==
  ASSUME op \in Op, NEW b \in Bodies
  PROVE  b.xml \in Seq(Token)
<1>0. "UploadId" \in DOMAIN OpenTag /\ "Part" \in DOMAIN OpenTag
      /\ "PartNumber" \in DOMAIN OpenTag /\ "ETag" \in DOMAIN OpenTag
  BY DEF OpenTag
<1>1. Seq(Char) \subseteq Seq(Token)
  BY DEF Token
<1>2. CASE op = "create"
  <2>1. PICK u \in UploadIds : b.xml = Tagged("UploadId", u)
    BY <1>2 DEF Bodies
  <2> QED BY <1>0, <1>1, <2>1, TaggedType, UploadIdsAssumption
<1>3. CASE op = "list"
  <2>1. PICK ps \in PartLists : b.xml = FlattenSeq([i \in DOMAIN ps |-> PartXml(ps[i])])
    BY <1>3 DEF Bodies
  <2>2. ps \in Seq([num : Seq(Char), etag : Seq(Char)])
    BY PartListsAssumption
  <2>3. ASSUME NEW p \in [num : Seq(Char), etag : Seq(Char)]
        PROVE  PartXml(p) \in Seq(Token)
    <3>1. p.num \in Seq(Token) /\ p.etag \in Seq(Token)
      BY <1>1
    <3> DEFINE x == IF p.num = << >> THEN << >> ELSE Tagged("PartNumber", p.num)
               y == IF p.etag = << >> THEN << >> ELSE Tagged("ETag", p.etag)
    <3>2. x \in Seq(Token) /\ y \in Seq(Token)
      BY <1>0, <3>1, TaggedType
    <3>3. PartXml(p) = Tagged("Part", x \o y)
      BY DEF PartXml
    <3> HIDE DEF x, y
    <3>4. x \o y \in Seq(Token)
      BY <3>2
    <3> QED BY <1>0, <3>3, <3>4, TaggedType
  <2> DEFINE s == [i \in DOMAIN ps |-> PartXml(ps[i])]
  <2>4. s \in Seq(Seq(Token))
    <3> DEFINE P == [num : Seq(Char), etag : Seq(Char)]
               S == Seq(Token)
    <3>1. ps \in Seq(P) /\ \A p \in P : PartXml(p) \in S
      BY <2>2, <2>3
    <3> HIDE DEF P, S
    <3>2. /\ DOMAIN ps = 1 .. Len(ps) /\ Len(ps) \in Nat
          /\ \A i \in 1 .. Len(ps) : PartXml(ps[i]) \in S
      BY <3>1
    <3>3. s \in Seq(S)
      BY <3>2
    <3> QED BY <3>3 DEF S
  <2> HIDE DEF s
  <2>5. FlattenSeq(s) \in Seq(Token)
    BY <2>4, FlattenType
  <2> QED BY <2>1, <2>5 DEF s
<1>4. CASE op \notin {"create", "list"}
  <2>1. PICK xml \in {<< >>, <<"x", "x">>} : b = [xml |-> xml, id |-> << >>, parts |-> << >>]
    BY <1>4 DEF Bodies
  <2>2. b.xml = << >> \/ b.xml = <<"x", "x">>
    BY <2>1
  <2> QED BY <2>2, NoiseType
<1> QED BY <1>2, <1>3, <1>4

\* A piece that is appended fits, where the buffer grows and where it does not.
LEMMA PieceFits ==
  ASSUME cap \in Nat, NEW len \in Nat, NEW n \in Nat,
         NEW c, c = IF Fits(len, n) THEN cap ELSE NewCap(len + n + 1)
  PROVE  c \in Nat /\ len + n < c
<1>1. NewCap(len + n + 1) \in Nat /\ NewCap(len + n + 1) >= len + n + 1
  <2>1. len + n + 1 \in Nat
    OBVIOUS
  <2> QED BY <2>1, NewCapEnough
<1> QED BY <1>1 DEF Fits

\* Every step keeps the room.
LEMMA RoomKept ==
  ASSUME CallInv, Room, Next
  PROVE  Room'
<1> USE DEF Room
<1>1. CASE write_response
  <2>1. PICK n \in 1 .. Len(wire) :
          \/ /\ resp' = resp \o SubSeq(wire, 1, n)
             /\ cap' = IF Fits(Len(resp), n) THEN cap ELSE NewCap(Len(resp) + n + 1)
             /\ wire' = SubSeq(wire, n + 1, Len(wire))
          \/ UNCHANGED <<resp, cap, wire, mem>>
          \/ /\ wire' = SubSeq(wire, n + 1, Len(wire))
             /\ UNCHANGED <<resp, cap, mem>>
    BY <1>1 DEF write_response
  <2>2. etags' = etags
    BY <1>1 DEF write_response
  <2>3. CASE /\ resp' = resp \o SubSeq(wire, 1, n)
             /\ cap' = IF Fits(Len(resp), n) THEN cap ELSE NewCap(Len(resp) + n + 1)
             /\ wire' = SubSeq(wire, n + 1, Len(wire))
    <3>1. Len(resp) \in Nat /\ n \in Nat
      OBVIOUS
    <3>2. cap' \in Nat /\ Len(resp) + n < cap'
      BY <2>3, <3>1, PieceFits
    <3>3. Len(resp') = Len(resp) + n /\ resp' \in Seq(Token) /\ wire' \in Seq(Token)
      BY <2>3
    <3> QED BY <2>2, <3>2, <3>3
  <2>4. CASE UNCHANGED <<resp, cap, wire, mem>>
    BY <2>2, <2>4
  <2>5. CASE wire' = SubSeq(wire, n + 1, Len(wire)) /\ UNCHANGED <<resp, cap, mem>>
    <3>1. wire' \in Seq(Token)
      BY <2>5
    <3> QED BY <2>2, <2>5, <3>1
  <2> QED BY <2>1, <2>3, <2>4, <2>5
<1>2. CASE Serve
  <2>1. PICK b \in Bodies : wire' \in {<< >>, b.xml, <<"x", "x">>}
    BY <1>2 DEF Serve
  <2>2. b.xml \in Seq(Token)
    BY BodiesType DEF CallInv
  <2>3. wire' \in Seq(Token)
    BY <2>1, <2>2, NoiseType
  <2> QED BY <1>2, <2>3 DEF Serve
<1>3. CASE Cut
  BY <1>3 DEF Cut
<1>4. CASE MakeBody \/ Open \/ Performed \/ Closed \/ Parse \/ Free \/ Lost
  BY <1>4 DEF MakeBody, Open, Performed, Closed, Parse, Free, Lost
<1>5. CASE Terminated
  BY <1>5 DEF Terminated, vars
<1> QED BY <1>1, <1>2, <1>3, <1>4, <1>5 DEF Next, Call

\* Nothing has arrived at first.
LEMMA InitRoom == Init => Room
<1> SUFFICES ASSUME Init PROVE Room
  OBVIOUS
<1>1. CASE op = "complete"
  <2>1. PICK n \in 0 .. MaxParts : etags \in [1 .. n -> EtagLens]
    BY <1>1 DEF Init
  <2>2. etags \in Seq(EtagLens)
    BY <2>1, MaxPartsAssumption
  <2> QED BY <2>2 DEF Init, Room
<1>2. CASE op # "complete"
  <2>1. etags = << >>
    BY <1>2 DEF Init
  <2> QED BY <2>1 DEF Init, Room
<1> QED BY <1>1, <1>2

\* Type correctness: a response always fits its buffer with its terminating zero,
\* however it is cut into pieces, and the body of complete fits the room
\* s3_complete_multipart has reserved, however many parts there are.
THEOREM CallTypes == Spec => []CallTypeOK
<1>1. Init => Room
  BY InitRoom
<1>2. CallInv /\ Room /\ [Next]_vars => Room'
  BY RoomKept DEF Room, vars
<1>3. CallInv /\ Room => CallTypeOK
  <2> SUFFICES ASSUME CallInv, Room PROVE CallTypeOK
    OBVIOUS
  <2>1. BodyLen(etags) < BodyCap(Len(etags))
    BY BodyFits DEF Room
  <2>2. mem \subseteq {"body", "slist", "curl", "resp", "parts", "lost"}
    BY DEF CallInv, Held, ReturnsClean, Step
  <2> QED BY <2>1, <2>2 DEF CallInv, Room, CallTypeOK
<1> QED BY <1>1, <1>2, <1>3, CallInvariance, PTL DEF Spec

----------------------------------------------------------------------------
(* What is taken from an answer.                                           *)

\* strstr: the first occurrence, or 0.
LEMMA StrstrFound ==
  ASSUME NEW xml, Len(xml) \in Nat, NEW p \in Nat, NEW tok, NEW i \in p .. Len(xml),
         xml[i] = tok, \A j \in p .. i - 1 : xml[j] # tok
  PROVE  strstr(xml, p, tok) = i
<1> DEFINE at == {j \in p .. Len(xml) : xml[j] = tok}
<1>1. i \in at /\ \A j \in at : i <= j
  OBVIOUS
<1>2. \A x \in at : (\A j \in at : x <= j) => x = i
  BY <1>1
<1>3. Min(at) = i
  <2> HIDE DEF at
  <2> QED BY <1>1, <1>2 DEF Min
<1> QED BY <1>1, <1>3 DEF strstr

LEMMA StrstrNone ==
  ASSUME NEW xml, NEW p, NEW tok, \A j \in p .. Len(xml) : xml[j] # tok
  PROVE  strstr(xml, p, tok) = 0
BY DEF strstr

LEMMA StrstrRange ==
  ASSUME NEW xml, Len(xml) \in Nat, NEW p \in Nat, NEW tok
  PROVE  \/ strstr(xml, p, tok) = 0
         \/ /\ strstr(xml, p, tok) \in p .. Len(xml)
            /\ xml[strstr(xml, p, tok)] = tok
<1> DEFINE at == {j \in p .. Len(xml) : xml[j] = tok}
<1>1. CASE at = {}
  BY <1>1 DEF strstr
<1>2. CASE at # {}
  <2>1. at \in SUBSET Nat
    OBVIOUS
  <2>2. \E x \in at : \A j \in at : x <= j
    <3> HIDE DEF at
    <3> QED BY <1>2, <2>1, LeastNat
  <2>3. Min(at) \in at
    <3> HIDE DEF at
    <3> QED BY <2>2 DEF Min
  <2> QED BY <1>2, <2>3 DEF strstr
<1> QED BY <1>1, <1>2

\* The text between two tags is found if it holds no closing tag and nothing
\* before it is the opening one.
LEMMA TextFound ==
  ASSUME NEW xml \in Seq(Token), NEW tag, NEW outlen, NEW p \in 1 .. Len(xml), NEW q \in p + 1 .. Len(xml),
         xml[p] = OpenTag[tag], \A j \in 1 .. p - 1 : xml[j] # OpenTag[tag],
         xml[q] = CloseTag[tag], \A j \in p + 1 .. q - 1 : xml[j] # CloseTag[tag]
  PROVE  find_tag_text(xml, tag, outlen) = Clipped(SubSeq(xml, p + 1, q - 1), outlen)
<1>1. Len(xml) \in Nat /\ 1 \in Nat /\ p + 1 \in Nat /\ p # 0 /\ q # 0
  OBVIOUS
<1>2. strstr(xml, 1, OpenTag[tag]) = p
  BY <1>1, StrstrFound
<1>3. strstr(xml, p + 1, CloseTag[tag]) = q
  <2> DEFINE r == p + 1
  <2>1. r \in Nat /\ q \in r .. Len(xml) /\ \A j \in r .. q - 1 : xml[j] # CloseTag[tag]
    OBVIOUS
  <2> HIDE DEF r
  <2>2. strstr(xml, r, CloseTag[tag]) = q
    BY <1>1, <2>1, StrstrFound
  <2> QED BY <2>2 DEF r
<1> QED BY <1>1, <1>2, <1>3 DEF find_tag_text

\* Nothing is found without an opening or without a closing tag.
LEMMA TextMissing ==
  ASSUME NEW xml \in Seq(Token), NEW tag, NEW outlen,
         \/ \A j \in 1 .. Len(xml) : xml[j] # OpenTag[tag]
         \/ \A j \in 1 .. Len(xml) : xml[j] # CloseTag[tag]
  PROVE  find_tag_text(xml, tag, outlen) = NoValue
<1>1. CASE \A j \in 1 .. Len(xml) : xml[j] # OpenTag[tag]
  <2>1. strstr(xml, 1, OpenTag[tag]) = 0
    BY <1>1, StrstrNone
  <2> QED BY <2>1 DEF find_tag_text
<1>2. CASE \A j \in 1 .. Len(xml) : xml[j] # CloseTag[tag]
  <2> DEFINE p == strstr(xml, 1, OpenTag[tag])
  <2>1. p = 0 \/ p \in 1 .. Len(xml)
    <3>1. Len(xml) \in Nat /\ 1 \in Nat
      OBVIOUS
    <3> QED BY <3>1, StrstrRange
  <2> HIDE DEF p
  <2>2. \A j \in p + 1 .. Len(xml) : xml[j] # CloseTag[tag]
    BY <1>2, <2>1
  <2>3. strstr(xml, p + 1, CloseTag[tag]) = 0
    BY <2>2, StrstrNone
  <2> QED BY <2>3 DEF find_tag_text, p
<1> QED BY <1>1, <1>2

\* The tags, all different, and none of them a character.
LEMMA TagFacts ==
  /\ OpenTag["UploadId"] = "<UploadId>" /\ CloseTag["UploadId"] = "</UploadId>"
  /\ OpenTag["Part"] = "<Part>" /\ CloseTag["Part"] = "</Part>"
  /\ OpenTag["PartNumber"] = "<PartNumber>" /\ CloseTag["PartNumber"] = "</PartNumber>"
  /\ OpenTag["ETag"] = "<ETag>" /\ CloseTag["ETag"] = "</ETag>"
  /\ \A c \in Char : c \notin {"<UploadId>", "</UploadId>", "<Part>", "</Part>",
                               "<PartNumber>", "</PartNumber>", "<ETag>", "</ETag>"}
<1>1. /\ OpenTag["UploadId"] = "<UploadId>" /\ CloseTag["UploadId"] = "</UploadId>"
      /\ OpenTag["Part"] = "<Part>" /\ CloseTag["Part"] = "</Part>"
      /\ OpenTag["PartNumber"] = "<PartNumber>" /\ CloseTag["PartNumber"] = "</PartNumber>"
      /\ OpenTag["ETag"] = "<ETag>" /\ CloseTag["ETag"] = "</ETag>"
      /\ DOMAIN OpenTag = {"UploadId", "Part", "PartNumber", "ETag"}
      /\ DOMAIN CloseTag = {"UploadId", "Part", "PartNumber", "ETag"}
  BY DEF OpenTag, CloseTag
<1>2. {"<UploadId>", "</UploadId>", "<Part>", "</Part>",
       "<PartNumber>", "</PartNumber>", "<ETag>", "</ETag>"} \subseteq Tag
  BY <1>1 DEF Tag
<1> QED BY <1>1, <1>2, CharAssumption

\* What a buffer holds of a text is a beginning of it, and all of it if it fits.
LEMMA ClippedIs ==
  ASSUME NEW S, NEW text \in Seq(S), NEW outlen \in Nat \ {0}
  PROVE  /\ Clipped(text, outlen) \in Seq(S) /\ IsPrefix(Clipped(text, outlen), text)
         /\ Len(text) < outlen => Clipped(text, outlen) = text
<1> DEFINE n == IF Len(text) < outlen THEN Len(text) ELSE outlen - 1
<1>1. Len(text) \in Nat /\ n \in 0 .. Len(text)
  OBVIOUS
<1> HIDE DEF n
<1>2. Clipped(text, outlen) = SubSeq(text, 1, n)
  BY DEF Clipped, n
<1>3. SubSeq(text, 1, n) \in Seq(S) /\ Len(SubSeq(text, 1, n)) = n
  BY <1>1
<1>4. IsPrefix(SubSeq(text, 1, n), text)
  <2> DEFINE u == SubSeq(text, 1, n)
  <2>1. SubSeq(u, 1, n) = SubSeq(text, 1, n)
    BY <1>1
  <2> QED BY <1>1, <1>3, <2>1 DEF IsPrefix
<1>5. Len(text) < outlen => SubSeq(text, 1, n) = text
  BY <1>1 DEF n
<1> QED BY <1>2, <1>3, <1>4, <1>5

\* From a beginning of the answer to CreateMultipartUpload, as much of the upload id
\* is taken as fits, or nothing.
LEMMA UploadIdWhole ==
  ASSUME NEW id \in Seq(Char), NEW outlen,
         NEW r \in Seq(Token), NEW x, x = Tagged("UploadId", id),
         Len(r) <= Len(x), \A k \in 1 .. Len(r) : r[k] = x[k],
         find_tag_text(r, "UploadId", outlen) # NoValue
  PROVE  find_tag_text(r, "UploadId", outlen) = Clipped(id, outlen)
<1> DEFINE n == Len(id)
<1>1. n \in Nat /\ id \in Seq(Char) /\ \A i \in 1 .. n : id[i] \in Char
  OBVIOUS
<1>2. /\ Len(x) = n + 2 /\ x[1] = "<UploadId>" /\ x[n + 2] = "</UploadId>"
      /\ \A k \in 2 .. n + 1 : x[k] = id[k - 1]
  BY <1>1, TagFacts DEF Tagged
<1>3. \A k \in 1 .. n + 1 : x[k] # "</UploadId>"
  <2> SUFFICES ASSUME NEW k \in 1 .. n + 1 PROVE x[k] # "</UploadId>"
    OBVIOUS
  <2>1. CASE k = 1
    BY <1>2, <2>1
  <2>2. CASE k # 1
    <3>1. k - 1 \in 1 .. n /\ x[k] = id[k - 1]
      BY <1>1, <1>2, <2>2
    <3> QED BY <1>1, <3>1, TagFacts
  <2> QED BY <2>1, <2>2
<1>4. Len(r) = n + 2
  <2> SUFFICES ASSUME Len(r) # n + 2 PROVE FALSE
    OBVIOUS
  <2>1. \A j \in 1 .. Len(r) : r[j] # CloseTag["UploadId"]
    BY <1>1, <1>2, <1>3, TagFacts
  <2> QED BY <2>1, TextMissing
<1>5. find_tag_text(r, "UploadId", outlen) = Clipped(SubSeq(r, 1 + 1, (n + 2) - 1), outlen)
  <2> DEFINE p == 1
             q == n + 2
             tag == "UploadId"
  <2>1. p \in 1 .. Len(r) /\ q \in p + 1 .. Len(r)
    BY <1>1, <1>4
  <2>2. r[p] = OpenTag[tag] /\ r[q] = CloseTag[tag]
    BY <1>1, <1>2, <1>4, TagFacts
  <2>3. /\ \A j \in 1 .. p - 1 : r[j] # OpenTag[tag]
        /\ \A j \in p + 1 .. q - 1 : r[j] # CloseTag[tag]
    BY <1>1, <1>3, <1>4, TagFacts
  <2> HIDE DEF p, q, tag, n
  <2>4. find_tag_text(r, tag, outlen) = Clipped(SubSeq(r, p + 1, q - 1), outlen)
    BY <2>1, <2>2, <2>3, TextFound
  <2> QED BY <2>4 DEF p, q, tag, n
<1>6. SubSeq(r, 1 + 1, (n + 2) - 1) = id
  BY <1>1, <1>2, <1>4
<1> QED BY <1>5, <1>6

PartRecord == [num : Seq(Char), etag : Seq(Char)]

\* What is taken of a part.
Read(p) == [num |-> atoi(Clipped(p.num, NumSize)), etag |-> Clipped(p.etag, EtagSize)]

ReadRecord == {Read(p) : p \in PartRecord}

ReadAll(ps) == [i \in DOMAIN ps |-> Read(ps[i])]

\* A value in its tags, or nothing where there is no value.
ValueXml(tag, v) == IF v = << >> THEN << >> ELSE Tagged(tag, v)

LEMMA ValueShape ==
  ASSUME NEW tag \in {"PartNumber", "ETag"}, NEW v \in Seq(Char)
  PROVE  LET y == ValueXml(tag, v)
         IN  /\ y \in Seq(Token) /\ Len(y) = IF v = << >> THEN 0 ELSE Len(v) + 2
             /\ v # << >> => /\ y[1] = OpenTag[tag] /\ y[Len(v) + 2] = CloseTag[tag]
                             /\ \A k \in 2 .. Len(v) + 1 : y[k] = v[k - 1]
             /\ \A k \in 1 .. Len(y) : y[k] \in Char \cup {OpenTag[tag], CloseTag[tag]}
<1> DEFINE y == ValueXml(tag, v)
<1>1. CASE v = << >>
  BY <1>1 DEF ValueXml
<1>2. CASE v # << >>
  <2>1. y = <<OpenTag[tag]>> \o v \o <<CloseTag[tag]>>
    BY <1>2 DEF ValueXml, Tagged
  <2>2. OpenTag[tag] \in Token /\ CloseTag[tag] \in Token /\ v \in Seq(Token)
    <3>1. tag \in DOMAIN OpenTag /\ tag \in DOMAIN CloseTag
      BY DEF OpenTag, CloseTag
    <3> QED BY <3>1 DEF Token, Tag
  <2> DEFINE o == OpenTag[tag]
             c == CloseTag[tag]
  <2>3. y = <<o>> \o v \o <<c>> /\ o \in Token /\ c \in Token
    BY <2>1, <2>2
  <2> HIDE DEF y, o, c
  <2>4. y \in Seq(Token)
    BY <2>2, <2>3
  <2>5. /\ Len(y) = Len(v) + 2 /\ Len(v) \in Nat /\ y[1] = o /\ y[Len(v) + 2] = c
        /\ \A k \in 2 .. Len(v) + 1 : y[k] = v[k - 1]
    BY <2>3
  <2>6. ASSUME NEW k \in 1 .. Len(y) PROVE y[k] \in Char \cup {o, c}
    <3>1. CASE k \in 2 .. Len(v) + 1
      <4>1. k - 1 \in 1 .. Len(v) /\ y[k] = v[k - 1]
        BY <2>5, <3>1
      <4> QED BY <4>1
    <3>2. CASE k \notin 2 .. Len(v) + 1
      <4>1. k = 1 \/ k = Len(v) + 2
        BY <2>5, <3>2
      <4> QED BY <2>5, <4>1
    <3> QED BY <3>1, <3>2
  <2>7. /\ y \in Seq(Token) /\ Len(y) = Len(v) + 2
        /\ y[1] = OpenTag[tag] /\ y[Len(v) + 2] = CloseTag[tag]
        /\ \A k \in 2 .. Len(v) + 1 : y[k] = v[k - 1]
        /\ \A k \in 1 .. Len(y) : y[k] \in Char \cup {OpenTag[tag], CloseTag[tag]}
    BY <2>4, <2>5, <2>6 DEF o, c
  <2> QED BY <1>2, <2>7 DEF y
<1> QED BY <1>1, <1>2

\* The block of a part: where its number and its ETag are in it.
LEMMA BlockShape ==
  ASSUME NEW p \in PartRecord
  PROVE  LET A == ValueXml("PartNumber", p.num)
             B == ValueXml("ETag", p.etag)
             x == PartXml(p)
         IN  /\ x \in Seq(Token) /\ Len(x) = Len(A) + Len(B) + 2
             /\ x[1] = "<Part>" /\ x[Len(x)] = "</Part>"
             /\ \A k \in 1 .. Len(A) : x[k + 1] = A[k]
             /\ \A k \in 1 .. Len(B) : x[k + Len(A) + 1] = B[k]
<1> DEFINE A == ValueXml("PartNumber", p.num)
           B == ValueXml("ETag", p.etag)
           x == PartXml(p)
<1>1. p.num \in Seq(Char) /\ p.etag \in Seq(Char)
  BY DEF PartRecord
<1>2. A \in Seq(Token) /\ B \in Seq(Token)
  BY <1>1, ValueShape
<1>3. x = <<"<Part>">> \o (A \o B) \o <<"</Part>">>
  BY TagFacts DEF PartXml, Tagged, ValueXml
<1>4. "<Part>" \in Token /\ "</Part>" \in Token
  <2>1. "Part" \in DOMAIN OpenTag /\ "Part" \in DOMAIN CloseTag
    BY DEF OpenTag, CloseTag
  <2> QED BY <2>1, TagFacts DEF Token, Tag
<1> HIDE DEF A, B, x
<1>5. x \in Seq(Token)
  BY <1>2, <1>3, <1>4
<1>6. /\ Len(x) = Len(A) + Len(B) + 2 /\ x[1] = "<Part>" /\ x[Len(x)] = "</Part>"
  BY <1>2, <1>3
<1>7. \A k \in 1 .. Len(A) : x[k + 1] = A[k]
  BY <1>2, <1>3
<1>8. \A k \in 1 .. Len(B) : x[k + Len(A) + 1] = B[k]
  BY <1>2, <1>3
<1> QED BY <1>5, <1>6, <1>7, <1>8 DEF A, B, x

\* A block has its closing tag at its end only.
LEMMA BlockCloses ==
  ASSUME NEW p \in PartRecord
  PROVE  LET x == PartXml(p)
         IN  /\ x \in Seq(Token) /\ Len(x) \in Nat /\ Len(x) >= 2
             /\ x[1] = OpenTag["Part"] /\ x[Len(x)] = CloseTag["Part"]
             /\ \A k \in 1 .. Len(x) - 1 : x[k] # CloseTag["Part"]
<1> DEFINE A == ValueXml("PartNumber", p.num)
           B == ValueXml("ETag", p.etag)
           x == PartXml(p)
<1>1. p.num \in Seq(Char) /\ p.etag \in Seq(Char)
  BY DEF PartRecord
<1>2. /\ A \in Seq(Token) /\ B \in Seq(Token)
      /\ \A k \in 1 .. Len(A) : A[k] \in Char \cup {OpenTag["PartNumber"], CloseTag["PartNumber"]}
      /\ \A k \in 1 .. Len(B) : B[k] \in Char \cup {OpenTag["ETag"], CloseTag["ETag"]}
  BY <1>1, ValueShape
<1>3. /\ x \in Seq(Token) /\ Len(x) = Len(A) + Len(B) + 2
      /\ x[1] = "<Part>" /\ x[Len(x)] = "</Part>"
      /\ \A k \in 1 .. Len(A) : x[k + 1] = A[k]
      /\ \A k \in 1 .. Len(B) : x[k + Len(A) + 1] = B[k]
  BY BlockShape
<1> HIDE DEF A, B, x
<1>4. ASSUME NEW k \in 1 .. Len(x) - 1 PROVE x[k] # "</Part>"
  <2>1. CASE k = 1
    BY <1>3, <2>1
  <2>2. CASE k \in 2 .. Len(A) + 1
    <3>1. k - 1 \in 1 .. Len(A) /\ (k - 1) + 1 = k
      BY <1>2, <2>2
    <3>2. x[k] = A[k - 1]
      BY <1>3, <3>1
    <3> QED BY <1>2, <3>1, <3>2, TagFacts
  <2>3. CASE k \in Len(A) + 2 .. Len(x) - 1
    <3> DEFINE l == k - Len(A) - 1
    <3>1. l \in 1 .. Len(B) /\ l + Len(A) + 1 = k
      BY <1>2, <1>3, <2>3
    <3>2. x[k] = B[l]
      BY <1>3, <3>1
    <3> HIDE DEF l
    <3> QED BY <1>2, <3>1, <3>2, TagFacts
  <2>4. Len(A) \in Nat /\ Len(B) \in Nat
    BY <1>2
  <2> QED BY <1>3, <2>1, <2>2, <2>3, <2>4
<1>5. Len(A) \in Nat /\ Len(B) \in Nat
  BY <1>2
<1> QED BY <1>3, <1>4, <1>5, TagFacts DEF x

\* What parse_parts takes from a block: its own number and its own ETag.
LEMMA BlockParsed ==
  ASSUME NEW p \in PartRecord
  PROVE  parse_block(PartXml(p)) =
           IF p.num # << >> /\ p.etag # << >> THEN <<Read(p)>> ELSE << >>
<1> DEFINE A == ValueXml("PartNumber", p.num)
           B == ValueXml("ETag", p.etag)
           x == PartXml(p)
           m == Len(p.num)
           e == Len(p.etag)
<1>1. p.num \in Seq(Char) /\ p.etag \in Seq(Char) /\ p = [num |-> p.num, etag |-> p.etag]
  BY DEF PartRecord
<1>2. /\ A \in Seq(Token) /\ Len(A) = (IF p.num = << >> THEN 0 ELSE m + 2)
      /\ p.num # << >> => /\ A[1] = "<PartNumber>" /\ A[m + 2] = "</PartNumber>"
                          /\ \A k \in 2 .. m + 1 : A[k] = p.num[k - 1]
      /\ \A k \in 1 .. Len(A) : A[k] \in Char \cup {"<PartNumber>", "</PartNumber>"}
  BY <1>1, ValueShape, TagFacts
<1>3. /\ B \in Seq(Token) /\ Len(B) = (IF p.etag = << >> THEN 0 ELSE e + 2)
      /\ p.etag # << >> => /\ B[1] = "<ETag>" /\ B[e + 2] = "</ETag>"
                           /\ \A k \in 2 .. e + 1 : B[k] = p.etag[k - 1]
      /\ \A k \in 1 .. Len(B) : B[k] \in Char \cup {"<ETag>", "</ETag>"}
  BY <1>1, ValueShape, TagFacts
<1>4. /\ x \in Seq(Token) /\ Len(x) = Len(A) + Len(B) + 2
      /\ x[1] = "<Part>" /\ x[Len(x)] = "</Part>"
      /\ \A k \in 1 .. Len(A) : x[k + 1] = A[k]
      /\ \A k \in 1 .. Len(B) : x[k + Len(A) + 1] = B[k]
  BY BlockShape
<1>5. m \in Nat /\ e \in Nat /\ Len(A) \in Nat /\ Len(B) \in Nat
  BY <1>1, <1>2, <1>3
<1> HIDE DEF A, B, x, m, e
<1>6. \A k \in 1 .. Len(x) : \/ k = 1 \/ k = Len(x)
                             \/ k - 1 \in 1 .. Len(A) /\ x[k] = A[k - 1]
                             \/ k - Len(A) - 1 \in 1 .. Len(B) /\ x[k] = B[k - Len(A) - 1]
  <2> SUFFICES ASSUME NEW k \in 1 .. Len(x), k # 1, k # Len(x)
               PROVE  \/ k - 1 \in 1 .. Len(A) /\ x[k] = A[k - 1]
                      \/ k - Len(A) - 1 \in 1 .. Len(B) /\ x[k] = B[k - Len(A) - 1]
    OBVIOUS
  <2>1. CASE k <= Len(A) + 1
    <3>1. k - 1 \in 1 .. Len(A) /\ (k - 1) + 1 = k
      BY <1>5, <2>1
    <3> QED BY <1>4, <3>1
  <2>2. CASE ~(k <= Len(A) + 1)
    <3>0. Len(x) = Len(A) + Len(B) + 2
      BY <1>4
    <3>1. k - Len(A) - 1 \in 1 .. Len(B) /\ (k - Len(A) - 1) + Len(A) + 1 = k
      BY <1>5, <2>2, <3>0
    <3> QED BY <1>4, <3>1
  <2> QED BY <2>1, <2>2
<1>7. CASE p.num = << >>
  <2>1. \A k \in 1 .. Len(x) : x[k] # OpenTag["PartNumber"]
    <3> SUFFICES ASSUME NEW k \in 1 .. Len(x) PROVE x[k] # "<PartNumber>"
      BY TagFacts
    <3>1. CASE k = 1 \/ k = Len(x)
      BY <1>4, <3>1
    <3>2. CASE k - Len(A) - 1 \in 1 .. Len(B) /\ x[k] = B[k - Len(A) - 1]
      BY <1>3, <3>2, TagFacts
    <3> QED BY <1>2, <1>5, <1>6, <1>7, <3>1, <3>2
  <2>2. find_tag_text(x, "PartNumber", NumSize) = NoValue
    BY <1>4, <2>1, TextMissing
  <2> QED BY <1>7, <2>2 DEF parse_block, x
<1>8. CASE p.etag = << >>
  <2>1. \A k \in 1 .. Len(x) : x[k] # OpenTag["ETag"]
    <3> SUFFICES ASSUME NEW k \in 1 .. Len(x) PROVE x[k] # "<ETag>"
      BY TagFacts
    <3>1. CASE k = 1 \/ k = Len(x)
      BY <1>4, <3>1
    <3>2. CASE k - 1 \in 1 .. Len(A) /\ x[k] = A[k - 1]
      BY <1>2, <3>2, TagFacts
    <3> QED BY <1>3, <1>5, <1>6, <1>8, <3>1, <3>2
  <2>2. find_tag_text(x, "ETag", EtagSize) = NoValue
    BY <1>4, <2>1, TextMissing
  <2> QED BY <1>8, <2>2 DEF parse_block, x
<1>9. CASE p.num # << >> /\ p.etag # << >>
  <2>1. find_tag_text(x, "PartNumber", NumSize) = Clipped(p.num, NumSize)
    <3> DEFINE i == 2
               j == m + 3
               tag == "PartNumber"
    <3>1. i \in 1 .. Len(x) /\ j \in i + 1 .. Len(x)
      BY <1>2, <1>4, <1>5, <1>9
    <3>2. x[i] = OpenTag[tag] /\ x[j] = CloseTag[tag]
      <4>1. x[1 + 1] = A[1] /\ x[(m + 2) + 1] = A[m + 2]
        BY <1>2, <1>4, <1>5, <1>9
      <4>2. (m + 2) + 1 = m + 3
        BY <1>5
      <4> QED BY <1>2, <1>9, <4>1, <4>2, TagFacts
    <3>3. \A k \in i + 1 .. j - 1 : x[k] = p.num[k - 2] /\ k - 2 \in 1 .. m
      <4> SUFFICES ASSUME NEW k \in i + 1 .. j - 1
                   PROVE  x[k] = p.num[k - 2] /\ k - 2 \in 1 .. m
        OBVIOUS
      <4>1. k - 1 \in 1 .. Len(A) /\ (k - 1) + 1 = k /\ k - 1 \in 2 .. m + 1
            /\ (k - 1) - 1 = k - 2 /\ k - 2 \in 1 .. m
        BY <1>2, <1>5, <1>9
      <4> QED BY <1>2, <1>4, <1>9, <4>1
    <3>4. \A k \in i + 1 .. j - 1 : x[k] # CloseTag[tag]
      BY <1>1, <3>3, TagFacts DEF m
    <3>5. \A k \in 1 .. i - 1 : x[k] # OpenTag[tag]
      BY <1>4, TagFacts
    <3>6. find_tag_text(x, tag, NumSize) = Clipped(SubSeq(x, i + 1, j - 1), NumSize)
      <4> HIDE DEF i, j, tag
      <4>1. x \in Seq(Token)
        BY <1>4
      <4>2. i \in 1 .. Len(x)
        BY <3>1
      <4>3. j \in i + 1 .. Len(x)
        BY <3>1
      <4>4. x[i] = OpenTag[tag]
        BY <3>2
      <4>5. x[j] = CloseTag[tag]
        BY <3>2
      <4> HIDE DEF x
      <4> QED BY <3>4, <3>5, <4>1, <4>2, <4>3, <4>4, <4>5, TextFound, ZenonT(40)
    <3>7. SubSeq(x, i + 1, j - 1) = p.num
      <4>1. i \in Nat /\ i + m <= Len(x) /\ i + m = j - 1
        BY <1>5, <3>1
      <4>2. ASSUME NEW k \in 1 .. m PROVE x[i + k] = p.num[k]
        <5>1. i + k \in i + 1 .. j - 1 /\ (i + k) - 2 = k
          BY <1>5
        <5> QED BY <3>3, <5>1
      <4> HIDE DEF i, j
      <4>3. SubSeq(x, i + 1, i + Len(p.num)) = p.num
        BY <1>1, <1>4, <4>1, <4>2, SliceIs DEF m
      <4> QED BY <4>1, <4>3 DEF m
    <3> QED BY <3>6, <3>7
  <2>2. find_tag_text(x, "ETag", EtagSize) = Clipped(p.etag, EtagSize)
    <3> DEFINE a == Len(A)
               i == a + 2
               j == a + e + 3
               tag == "ETag"
    <3>1. i \in 1 .. Len(x) /\ j \in i + 1 .. Len(x) /\ a \in Nat
      BY <1>3, <1>4, <1>5, <1>9
    <3>2. x[i] = OpenTag[tag] /\ x[j] = CloseTag[tag]
      <4>1. x[1 + Len(A) + 1] = B[1] /\ x[(e + 2) + Len(A) + 1] = B[e + 2]
        <5>1. 1 \in 1 .. Len(B) /\ e + 2 \in 1 .. Len(B)
          BY <1>3, <1>5, <1>9
        <5> QED BY <1>4, <5>1
      <4>2. (e + 2) + Len(A) + 1 = j /\ 1 + Len(A) + 1 = i
        BY <1>5
      <4> QED BY <1>3, <1>9, <4>1, <4>2, TagFacts
    <3>3. \A k \in i + 1 .. j - 1 : x[k] = p.etag[k - i] /\ k - i \in 1 .. e
      <4> SUFFICES ASSUME NEW k \in i + 1 .. j - 1
                   PROVE  x[k] = p.etag[k - i] /\ k - i \in 1 .. e
        OBVIOUS
      <4> DEFINE l == k - Len(A) - 1
      <4>1. l \in 1 .. Len(B) /\ l + Len(A) + 1 = k /\ l \in 2 .. e + 1
            /\ l - 1 = k - i /\ k - i \in 1 .. e
        BY <1>3, <1>5, <1>9
      <4> QED BY <1>3, <1>4, <1>9, <4>1
    <3>4. \A k \in i + 1 .. j - 1 : x[k] # CloseTag[tag]
      BY <1>1, <3>3, TagFacts DEF e
    <3>5. \A k \in 1 .. i - 1 : x[k] # OpenTag[tag]
      <4> SUFFICES ASSUME NEW k \in 1 .. i - 1 PROVE x[k] # "<ETag>"
        BY TagFacts
      <4>1. CASE k = 1
        BY <1>4, <4>1
      <4>2. CASE k # 1
        <5>1. k - 1 \in 1 .. Len(A) /\ (k - 1) + 1 = k
          BY <1>5, <4>2
        <5>2. x[k] = A[k - 1]
          BY <1>4, <5>1
        <5> QED BY <1>2, <5>1, <5>2, TagFacts
      <4> QED BY <4>1, <4>2
    <3>6. find_tag_text(x, tag, EtagSize) = Clipped(SubSeq(x, i + 1, j - 1), EtagSize)
      <4> HIDE DEF i, j, tag
      <4>1. x \in Seq(Token)
        BY <1>4
      <4>2. i \in 1 .. Len(x)
        BY <3>1
      <4>3. j \in i + 1 .. Len(x)
        BY <3>1
      <4>4. x[i] = OpenTag[tag]
        BY <3>2
      <4>5. x[j] = CloseTag[tag]
        BY <3>2
      <4> HIDE DEF x
      <4> QED BY <3>4, <3>5, <4>1, <4>2, <4>3, <4>4, <4>5, TextFound, ZenonT(40)
    <3>7. SubSeq(x, i + 1, j - 1) = p.etag
      <4>1. i \in Nat /\ i + e <= Len(x) /\ i + e = j - 1
        BY <1>5, <3>1
      <4>2. ASSUME NEW k \in 1 .. e PROVE x[i + k] = p.etag[k]
        <5>1. i + k \in i + 1 .. j - 1 /\ (i + k) - i = k
          BY <1>5
        <5> HIDE DEF i, j
        <5> QED BY <3>3, <5>1
      <4> HIDE DEF i, j
      <4>3. SubSeq(x, i + 1, i + Len(p.etag)) = p.etag
        BY <1>1, <1>4, <4>1, <4>2, SliceIs DEF e
      <4> QED BY <4>1, <4>3 DEF e
    <3> QED BY <3>6, <3>7
  <2>3. Clipped(p.num, NumSize) # NoValue /\ Clipped(p.etag, EtagSize) # NoValue
    <3>1. Clipped(p.num, NumSize) \in Seq(Char) /\ Clipped(p.etag, EtagSize) \in Seq(Char)
      BY <1>1, ClippedIs, SizesAssumption
    <3>2. Seq(Char) \subseteq Seq(Token)
      BY DEF Token
    <3> QED BY <3>1, <3>2, NoValueAssumption
  <2> QED BY <1>9, <2>1, <2>2, <2>3 DEF parse_block, x, Read
<1> QED BY <1>7, <1>8, <1>9

LEMMA BlockType ==
  ASSUME NEW p \in PartRecord
  PROVE  parse_block(PartXml(p)) \in Seq(ReadRecord)
<1>1. Read(p) \in ReadRecord
  BY DEF ReadRecord
<1>2. <<Read(p)>> \in Seq(ReadRecord) /\ << >> \in Seq(ReadRecord)
  BY <1>1
<1> QED BY <1>2, BlockParsed

\* What is taken of two lists.
LEMMA ReadJoined ==
  ASSUME NEW u \in Seq(PartRecord), NEW v \in Seq(PartRecord)
  PROVE  /\ ReadAll(u) \in Seq(ReadRecord) /\ Len(ReadAll(u)) = Len(u)
         /\ ReadAll(u \o v) = ReadAll(u) \o ReadAll(v)
<1>1. ASSUME NEW q \in Seq(PartRecord)
      PROVE  /\ ReadAll(q) \in Seq(ReadRecord) /\ Len(ReadAll(q)) = Len(q)
             /\ DOMAIN ReadAll(q) = 1 .. Len(q) /\ \A i \in 1 .. Len(q) : ReadAll(q)[i] = Read(q[i])
  <2>1. /\ Len(q) \in Nat /\ DOMAIN q = 1 .. Len(q)
        /\ \A i \in 1 .. Len(q) : Read(q[i]) \in ReadRecord
    BY DEF ReadRecord
  <2> QED BY <2>1 DEF ReadAll
<1>2. u \o v \in Seq(PartRecord) /\ Len(u \o v) = Len(u) + Len(v)
  OBVIOUS
<1> DEFINE a == ReadAll(u)
           b == ReadAll(v)
           c == ReadAll(u \o v)
<1>3. a \in Seq(ReadRecord) /\ b \in Seq(ReadRecord) /\ Len(a) = Len(u) /\ Len(b) = Len(v)
  BY <1>1
<1>4. DOMAIN c = 1 .. Len(u) + Len(v) /\ c \in Seq(ReadRecord) /\ Len(c) = Len(u) + Len(v)
  BY <1>1, <1>2
<1>5. ASSUME NEW i \in 1 .. Len(u) + Len(v) PROVE c[i] = (a \o b)[i]
  <2>1. c[i] = Read((u \o v)[i])
    BY <1>1, <1>2
  <2>2. CASE i <= Len(u)
    <3>1. (u \o v)[i] = u[i] /\ i \in 1 .. Len(u)
      BY <2>2
    <3>2. a[i] = Read(u[i])
      BY <1>1, <3>1
    <3> HIDE DEF a, b, c
    <3>3. (a \o b)[i] = a[i]
      BY <1>3, <3>1
    <3> QED BY <2>1, <3>1, <3>2, <3>3
  <2>3. CASE ~(i <= Len(u))
    <3>1. (u \o v)[i] = v[i - Len(u)] /\ i - Len(u) \in 1 .. Len(v)
      BY <2>3
    <3>2. b[i - Len(u)] = Read(v[i - Len(u)])
      BY <1>1, <3>1
    <3> HIDE DEF a, b, c
    <3>3. (a \o b)[i] = b[i - Len(u)]
      BY <1>3, <3>1, <2>3
    <3> QED BY <2>1, <3>1, <3>2, <3>3
  <2> QED BY <2>2, <2>3
<1> HIDE DEF a, b, c
<1>6. a \o b \in Seq(ReadRecord) /\ Len(a \o b) = Len(u) + Len(v)
  BY <1>3
<1>7. c = a \o b
  BY <1>4, <1>5, <1>6
<1> QED BY <1>3, <1>7 DEF a, b, c

\* A block lies in the text, at or after the position it is looked for from.
LEMMA BlockRange ==
  ASSUME NEW xml \in Seq(Token), NEW p \in 1 .. Len(xml) + 1,
         BlockStart(xml, p) # 0, BlockEnd(xml, p) # 0
  PROVE  /\ BlockStart(xml, p) \in p .. Len(xml)
         /\ BlockEnd(xml, p) \in BlockStart(xml, p) + 1 .. Len(xml)
         /\ xml[BlockEnd(xml, p)] = CloseTag["Part"]
<1> DEFINE a == BlockStart(xml, p)
           b == BlockEnd(xml, p)
<1>1. Len(xml) \in Nat /\ p \in Nat
  OBVIOUS
<1>2. a \in p .. Len(xml)
  BY <1>1, StrstrRange DEF BlockStart
<1>3. b \in a + 1 .. Len(xml) /\ xml[b] = CloseTag["Part"]
  <2> DEFINE c == a + 1
  <2>1. c \in Nat
    BY <1>1, <1>2
  <2>2. b = strstr(xml, c, CloseTag["Part"])
    BY DEF BlockEnd
  <2> HIDE DEF c
  <2> QED BY <1>1, <2>1, <2>2, StrstrRange DEF c
<1> QED BY <1>2, <1>3

\* The function that parse_parts is defined with exists.
LEMMA FromExists ==
  ASSUME NEW xml \in Seq(Token)
  PROVE  \E f : f = [p \in 1 .. Len(xml) + 1 |->
                       IF BlockStart(xml, p) = 0 \/ BlockEnd(xml, p) = 0 THEN << >>
                       ELSE parse_block(SubSeq(xml, BlockStart(xml, p), BlockEnd(xml, p)))
                              \o f[BlockEnd(xml, p) + 1]]
<1> DEFINE N == Len(xml) + 1
           Stop(p) == BlockStart(xml, p) = 0 \/ BlockEnd(xml, p) = 0
           Item(p) == parse_block(SubSeq(xml, BlockStart(xml, p), BlockEnd(xml, p)))
           Go(p) == BlockEnd(xml, p) + 1
           E(p, f) == IF Stop(p) THEN << >> ELSE Item(p) \o f[Go(p)]
           Down(n, f) == \A p \in 1 .. N : p + n > N => f[p] = E(p, f)
           T == {n \in Nat : \E f : Down(n, f)}
<1>1. N \in Nat
  OBVIOUS
<1>2. \A p \in 1 .. N : ~Stop(p) => Go(p) \in p + 1 .. N
  <2> SUFFICES ASSUME NEW p \in 1 .. N, ~Stop(p) PROVE Go(p) \in p + 1 .. N
    OBVIOUS
  <2>1. BlockStart(xml, p) \in p .. Len(xml) /\ BlockEnd(xml, p) \in BlockStart(xml, p) + 1 .. Len(xml)
    BY BlockRange
  <2> QED BY <2>1
<1> HIDE DEF N, Stop, Item, Go
<1>3. 0 \in T
  <2>1. Down(0, << >>)
    BY <1>1
  <2> HIDE DEF Down
  <2> QED BY <2>1
<1>4. ASSUME NEW n \in Nat, n \in T PROVE n + 1 \in T
  <2>1. PICK f : Down(n, f)
    <3> HIDE DEF Down
    <3> QED BY <1>4
  <2> DEFINE g == [p \in 1 .. N |-> IF p + n > N THEN f[p] ELSE E(p, f)]
  <2>2. ASSUME NEW p \in 1 .. N, p + (n + 1) > N PROVE g[p] = E(p, g)
    <3>1. g[p] = E(p, f)
      BY <2>1
    <3>2. CASE Stop(p)
      BY <3>1, <3>2
    <3>3. CASE ~Stop(p)
      <4>1. Go(p) \in 1 .. N /\ Go(p) + n > N
        BY <1>1, <1>2, <2>2, <3>3
      <4>2. g[Go(p)] = f[Go(p)]
        BY <4>1
      <4> HIDE DEF g
      <4> QED BY <3>1, <4>2
    <3> QED BY <3>2, <3>3
  <2>3. Down(n + 1, g)
    <3> HIDE DEF E, g
    <3> QED BY <2>2
  <2> HIDE DEF Down, g
  <2> QED BY <2>3
<1> HIDE DEF T
<1>5. Nat \subseteq T
  BY <1>3, <1>4, SetInduction
<1>6. PICK f : Down(N, f)
  <2> HIDE DEF Down
  <2> QED BY <1>1, <1>5 DEF T
<1>7. \A p \in 1 .. N : f[p] = E(p, f)
  BY <1>1, <1>6
<1> DEFINE g == [p \in 1 .. N |-> E(p, f)]
<1>8. ASSUME NEW p \in 1 .. N PROVE E(p, f) = E(p, g)
  <2>1. CASE Stop(p)
    BY <2>1
  <2>2. CASE ~Stop(p)
    <3>1. Go(p) \in 1 .. N
      BY <1>1, <1>2, <2>2
    <3>2. g[Go(p)] = f[Go(p)]
      BY <1>7, <3>1
    <3> HIDE DEF g
    <3> QED BY <3>2
  <2> QED BY <2>1, <2>2
<1>9. g = [p \in 1 .. N |-> E(p, g)]
  <2>1. \A p \in 1 .. N : E(p, f) = E(p, g)
    <3> HIDE DEF E, g
    <3> QED BY <1>8
  <2> DEFINE h == [p \in 1 .. N |-> E(p, g)]
  <2>2. \A p \in 1 .. N : g[p] = h[p]
    <3> HIDE DEF E
    <3>1. \A p \in 1 .. N : g[p] = E(p, f)
      OBVIOUS
    <3>2. \A p \in 1 .. N : h[p] = E(p, g)
      <4> HIDE DEF g
      <4> QED OBVIOUS
    <3> HIDE DEF g, h
    <3> QED BY <2>1, <3>1, <3>2
  <2>3. g = h
    <3> HIDE DEF E
    <3>1. g = [p \in 1 .. N |-> g[p]]
      OBVIOUS
    <3>2. h = [p \in 1 .. N |-> h[p]]
      <4> HIDE DEF g
      <4> QED OBVIOUS
    <3> HIDE DEF g, h
    <3> QED BY <2>2, <3>1, <3>2
  <2> QED BY <2>3
<1> HIDE DEF g
<1> QED BY <1>9 DEF N, E, Stop, Item, Go

\* How parse_parts goes from block to block.
LEMMA FromSteps ==
  ASSUME NEW xml \in Seq(Token)
  PROVE  \E f : /\ parse_parts(xml) = f[1]
               /\ \A p \in 1 .. Len(xml) + 1 :
                    f[p] = IF BlockStart(xml, p) = 0 \/ BlockEnd(xml, p) = 0 THEN << >>
                           ELSE parse_block(SubSeq(xml, BlockStart(xml, p), BlockEnd(xml, p)))
                                  \o f[BlockEnd(xml, p) + 1]
<1> DEFINE F == CHOOSE f : f =
                  [p \in 1 .. Len(xml) + 1 |->
                     IF BlockStart(xml, p) = 0 \/ BlockEnd(xml, p) = 0 THEN << >>
                     ELSE parse_block(SubSeq(xml, BlockStart(xml, p), BlockEnd(xml, p)))
                            \o f[BlockEnd(xml, p) + 1]]
<1>1. F = [p \in 1 .. Len(xml) + 1 |->
             IF BlockStart(xml, p) = 0 \/ BlockEnd(xml, p) = 0 THEN << >>
             ELSE parse_block(SubSeq(xml, BlockStart(xml, p), BlockEnd(xml, p)))
                    \o F[BlockEnd(xml, p) + 1]]
  BY FromExists
<1>2. parse_parts(xml) = F[1]
  BY DEF parse_parts
<1> HIDE DEF F
<1>3. \A p \in 1 .. Len(xml) + 1 :
        F[p] = IF BlockStart(xml, p) = 0 \/ BlockEnd(xml, p) = 0 THEN << >>
               ELSE parse_block(SubSeq(xml, BlockStart(xml, p), BlockEnd(xml, p)))
                      \o F[BlockEnd(xml, p) + 1]
  BY <1>1, Zenon
<1> WITNESS F
<1> QED BY <1>2, <1>3, Zenon

\* A block that has arrived whole is found, and taken from the text as it is.
LEMMA BlockFound ==
  ASSUME NEW r \in Seq(Token), NEW a \in Nat, NEW b \in Seq(Token), Len(b) >= 2,
         b[1] = OpenTag["Part"], b[Len(b)] = CloseTag["Part"],
         \A k \in 1 .. Len(b) - 1 : b[k] # CloseTag["Part"],
         a + Len(b) <= Len(r), \A k \in 1 .. Len(b) : r[a + k] = b[k]
  PROVE  /\ BlockStart(r, a + 1) = a + 1 /\ BlockEnd(r, a + 1) = a + Len(b)
         /\ SubSeq(r, a + 1, a + Len(b)) = b
<1> DEFINE i == a + 1
           j == a + Len(b)
           l == i + 1
<1>1. Len(r) \in Nat /\ i \in Nat /\ l \in Nat /\ i \in i .. Len(r) /\ j \in l .. Len(r)
  OBVIOUS
<1>2. r[i] = OpenTag["Part"] /\ r[j] = CloseTag["Part"]
  OBVIOUS
<1>3. ASSUME NEW k \in l .. j - 1 PROVE r[k] # CloseTag["Part"]
  <2>1. k - a \in 1 .. Len(b) - 1 /\ a + (k - a) = k /\ k - a \in 1 .. Len(b)
    OBVIOUS
  <2> QED BY <2>1
<1>4. \A k \in i .. i - 1 : r[k] # OpenTag["Part"]
  OBVIOUS
<1>5. SubSeq(r, i, j) = b
  BY SliceIs
<1> HIDE DEF i, j, l
<1>6. strstr(r, i, OpenTag["Part"]) = i
  BY <1>1, <1>2, <1>4, StrstrFound
<1>7. strstr(r, l, CloseTag["Part"]) = j
  BY <1>1, <1>2, <1>3, StrstrFound
<1>8. BlockStart(r, i) = i
  BY <1>6 DEF BlockStart
<1>9. BlockEnd(r, i) = j
  BY <1>7, <1>8 DEF BlockEnd, l
<1> QED BY <1>5, <1>8, <1>9 DEF i, j

\* One that is cut off is not, nor is there any after the last.
LEMMA BlockCut ==
  ASSUME NEW r \in Seq(Token), NEW a \in 0 .. Len(r),
         \A k \in a + 1 .. Len(r) : r[k] # CloseTag["Part"]
  PROVE  BlockStart(r, a + 1) = 0 \/ BlockEnd(r, a + 1) = 0
<1> DEFINE p == a + 1
<1>1. p \in 1 .. Len(r) + 1 /\ \A k \in p .. Len(r) : r[k] # CloseTag["Part"]
  OBVIOUS
<1> HIDE DEF p
<1> SUFFICES ASSUME BlockStart(r, p) # 0, BlockEnd(r, p) # 0 PROVE FALSE
  BY DEF p
<1>2. /\ BlockStart(r, p) \in p .. Len(r)
      /\ BlockEnd(r, p) \in BlockStart(r, p) + 1 .. Len(r)
      /\ r[BlockEnd(r, p)] = CloseTag["Part"]
  BY <1>1, BlockRange
<1>3. BlockEnd(r, p) \in p .. Len(r)
  BY <1>1, <1>2
<1> QED BY <1>1, <1>2, <1>3

\* The number of blocks that have arrived whole.
LEMMA WholeBlocks ==
  ASSUME NEW n \in Nat, NEW o \in [0 .. n -> Nat], o[0] = 0, NEW l \in Nat
  PROVE  \E m \in 0 .. n : o[m] <= l /\ (m = n \/ l < o[m + 1])
<1> DEFINE T == {m \in 0 .. n : m = n \/ l < o[m + 1]}
<1>1. T \in SUBSET Nat /\ T # {}
  <2>1. n \in T
    OBVIOUS
  <2> QED BY <2>1
<1>2. PICK m \in T : \A k \in T : m <= k
  <2> HIDE DEF T
  <2> QED BY <1>1, LeastNat
<1>3. o[m] <= l
  <2>1. CASE m = 0
    BY <2>1
  <2>2. CASE m # 0
    <3>1. m - 1 \in 0 .. n /\ m - 1 # n /\ ~(m <= m - 1) /\ (m - 1) + 1 = m /\ m \in 0 .. n
      BY <1>2, <2>2
    <3>2. m - 1 \notin T
      BY <1>2, <3>1
    <3>3. ~(l < o[m])
      BY <3>1, <3>2
    <3>4. o[m] \in Nat
      BY <3>1
    <3> QED BY <3>3, <3>4
  <2> QED BY <2>1, <2>2
<1> QED BY <1>2, <1>3

\* The parts of a list that are whole, one by one, as they are taken.
LEMMA WholeSteps ==
  ASSUME NEW ps \in Seq(PartRecord)
  PROVE  /\ WholeParts(ps) \in Seq(PartRecord)
         /\ \E V \in [0 .. Len(ps) -> Seq(ReadRecord)] :
              /\ V[0] = << >> /\ V[Len(ps)] = ReadAll(WholeParts(ps))
              /\ \A i \in 1 .. Len(ps) : V[i] = V[i - 1] \o parse_block(PartXml(ps[i]))
              /\ \A i \in 0 .. Len(ps) : /\ Len(V[i]) <= Len(V[Len(ps)])
                                         /\ \A k \in 1 .. Len(V[i]) : V[Len(ps)][k] = V[i][k]
<1> DEFINE Q == Seq(PartRecord)
           n == Len(ps)
           w(p) == IF p.num # << >> /\ p.etag # << >> THEN <<p>> ELSE << >>
           s == [i \in DOMAIN ps |-> w(ps[i])]
<1>1. n \in Nat /\ DOMAIN ps = 1 .. n /\ \A i \in 1 .. n : ps[i] \in PartRecord
  OBVIOUS
<1>2. ASSUME NEW p \in PartRecord
      PROVE  w(p) \in Q /\ ReadAll(w(p)) = parse_block(PartXml(p))
  <2>1. ReadAll(<<p>>) = <<Read(p)>> /\ ReadAll(<< >>) = << >>
    BY DEF ReadAll
  <2>2. w(p) \in Q
    OBVIOUS
  <2> QED BY <2>1, <2>2, BlockParsed
<1>3. WholeParts(ps) = FlattenSeq(s)
  BY DEF WholeParts
<1> HIDE DEF w, n
<1>4. s \in Seq(Q) /\ Len(s) = n /\ \A i \in 1 .. n : s[i] = w(ps[i])
  <2> HIDE DEF Q
  <2> QED BY <1>1, <1>2
<1> HIDE DEF s
<1>5. PICK W : Joins(PartRecord, s, W)
  BY <1>4, FlattenPieces
<1>6. /\ W \in [0 .. n -> Seq(PartRecord)] /\ W[0] = << >> /\ W[n] = WholeParts(ps)
      /\ \A i \in 1 .. n : W[i] = W[i - 1] \o s[i]
      /\ \A i \in 0 .. n : /\ Len(W[i]) <= Len(W[n])
                           /\ \A k \in 1 .. Len(W[i]) : W[n][k] = W[i][k]
  BY <1>3, <1>4, <1>5 DEF Joins
<1> DEFINE V == [i \in 0 .. n |-> ReadAll(W[i])]
<1>7. \A i \in 0 .. n : /\ V[i] = ReadAll(W[i]) /\ V[i] \in Seq(ReadRecord)
                        /\ Len(V[i]) = Len(W[i]) /\ Len(W[i]) \in Nat
                        /\ \A k \in 1 .. Len(W[i]) : V[i][k] = Read(W[i][k])
  <2> SUFFICES ASSUME NEW i \in 0 .. n
               PROVE  /\ V[i] = ReadAll(W[i]) /\ V[i] \in Seq(ReadRecord)
                      /\ Len(V[i]) = Len(W[i]) /\ Len(W[i]) \in Nat
                      /\ \A k \in 1 .. Len(W[i]) : V[i][k] = Read(W[i][k])
    OBVIOUS
  <2>1. W[i] \in Seq(PartRecord) /\ V[i] = ReadAll(W[i])
    BY <1>6
  <2>2. DOMAIN W[i] = 1 .. Len(W[i]) /\ Len(W[i]) \in Nat
    BY <2>1
  <2>3. V[i] \in Seq(ReadRecord) /\ Len(V[i]) = Len(W[i])
    BY <2>1, ReadJoined
  <2> HIDE DEF V
  <2> QED BY <2>1, <2>2, <2>3 DEF ReadAll
<1>8. V \in [0 .. n -> Seq(ReadRecord)]
  BY <1>7
<1>9. ASSUME NEW i \in 1 .. n PROVE V[i] = V[i - 1] \o parse_block(PartXml(ps[i]))
  <2>1. i \in 0 .. n /\ i - 1 \in 0 .. n
    BY <1>1
  <2>2. W[i] = W[i - 1] \o w(ps[i]) /\ W[i - 1] \in Seq(PartRecord) /\ w(ps[i]) \in Q
    BY <1>1, <1>2, <1>4, <1>6, <2>1
  <2>3. ReadAll(W[i]) = ReadAll(W[i - 1]) \o ReadAll(w(ps[i]))
    BY <2>2, ReadJoined
  <2>4. V[i] = ReadAll(W[i]) /\ V[i - 1] = ReadAll(W[i - 1])
    BY <1>7, <2>1
  <2>5. ReadAll(w(ps[i])) = parse_block(PartXml(ps[i]))
    BY <1>1, <1>2
  <2> HIDE DEF V
  <2> QED BY <2>3, <2>4, <2>5
<1>10. V[0] = << >> /\ V[n] = ReadAll(WholeParts(ps))
  <2>1. ReadAll(<< >>) = << >> /\ 0 \in 0 .. n /\ n \in 0 .. n
    BY <1>1 DEF ReadAll
  <2> QED BY <1>6, <1>7, <2>1
<1>11. ASSUME NEW i \in 0 .. n
       PROVE  Len(V[i]) <= Len(V[n]) /\ \A k \in 1 .. Len(V[i]) : V[n][k] = V[i][k]
  <2>1. n \in 0 .. n
    BY <1>1
  <2>2. /\ Len(V[i]) = Len(W[i]) /\ Len(V[n]) = Len(W[n])
        /\ Len(W[i]) \in Nat /\ Len(W[n]) \in Nat /\ Len(W[i]) <= Len(W[n])
    BY <1>6, <1>7, <2>1
  <2> HIDE DEF V
  <2>3. ASSUME NEW k \in 1 .. Len(W[i]) PROVE V[n][k] = V[i][k]
    <3>1. k \in 1 .. Len(W[n]) /\ W[n][k] = W[i][k]
      BY <1>6, <2>2
    <3>2. V[n][k] = Read(W[n][k]) /\ V[i][k] = Read(W[i][k])
      BY <1>7, <2>1, <3>1
    <3> QED BY <3>1, <3>2
  <2> QED BY <2>2, <2>3
<1> HIDE DEF V
<1>12. WholeParts(ps) \in Seq(PartRecord)
  <2>1. n \in 0 .. n
    BY <1>1
  <2> QED BY <1>6, <2>1
<1> QED BY <1>8, <1>9, <1>10, <1>11, <1>12 DEF n

\* From a beginning of the answer to ListParts, a beginning of the list is taken;
\* from all of it, all of the list.
LEMMA PartsTaken ==
  ASSUME NEW ps \in Seq(PartRecord), NEW r \in Seq(Token), NEW x,
         x = FlattenSeq([i \in DOMAIN ps |-> PartXml(ps[i])]),
         Len(r) <= Len(x), \A k \in 1 .. Len(r) : r[k] = x[k]
  PROVE  /\ parse_parts(r) \in Seq(ReadRecord)
         /\ IsPrefix(parse_parts(r), ReadAll(WholeParts(ps)))
         /\ Len(r) = Len(x) => parse_parts(r) = ReadAll(WholeParts(ps))
<1> DEFINE n == Len(ps)
           s == [i \in DOMAIN ps |-> PartXml(ps[i])]
           l == Len(r)
<1>1. n \in Nat /\ DOMAIN ps = 1 .. n /\ l \in Nat /\ \A i \in 1 .. n : ps[i] \in PartRecord
  OBVIOUS
<1>2. \A i \in 1 .. n : /\ s[i] = PartXml(ps[i]) /\ s[i] \in Seq(Token)
                        /\ Len(s[i]) \in Nat /\ Len(s[i]) >= 2
                        /\ s[i][1] = OpenTag["Part"] /\ s[i][Len(s[i])] = CloseTag["Part"]
                        /\ \A k \in 1 .. Len(s[i]) - 1 : s[i][k] # CloseTag["Part"]
  BY <1>1, BlockCloses
<1>3. s \in Seq(Seq(Token)) /\ Len(s) = n /\ x = FlattenSeq(s)
  <2> DEFINE Q == Seq(Token)
  <2>1. \A i \in 1 .. n : PartXml(ps[i]) \in Q
    BY <1>2
  <2> HIDE DEF Q
  <2>2. s \in Seq(Q) /\ Len(s) = n
    BY <1>1, <2>1
  <2> QED BY <2>2 DEF Q
<1> HIDE DEF s, n, l
<1>4. PICK o : Placed(s, o)
  BY <1>3, Offsets
<1>5. /\ o \in [0 .. n -> Nat] /\ o[0] = 0 /\ o[n] = Len(x)
      /\ \A i \in 1 .. n : /\ o[i] = o[i - 1] + Len(s[i]) /\ o[i] <= Len(x)
                           /\ \A k \in 1 .. Len(s[i]) : x[o[i - 1] + k] = s[i][k]
  BY <1>3, <1>4 DEF Placed
<1>6. PICK m \in 0 .. n : o[m] <= l /\ (m = n \/ l < o[m + 1])
  BY <1>1, <1>5, WholeBlocks
<1>7. PICK W \in [0 .. n -> Seq(ReadRecord)] :
           /\ W[0] = << >> /\ W[n] = ReadAll(WholeParts(ps))
           /\ \A i \in 1 .. n : W[i] = W[i - 1] \o parse_block(PartXml(ps[i]))
           /\ \A i \in 0 .. n : /\ Len(W[i]) <= Len(W[n])
                                /\ \A k \in 1 .. Len(W[i]) : W[n][k] = W[i][k]
  BY WholeSteps DEF n
<1>8. PICK F : /\ parse_parts(r) = F[1]
               /\ \A p \in 1 .. l + 1 :
                    F[p] = IF BlockStart(r, p) = 0 \/ BlockEnd(r, p) = 0 THEN << >>
                           ELSE parse_block(SubSeq(r, BlockStart(r, p), BlockEnd(r, p)))
                                  \o F[BlockEnd(r, p) + 1]
  BY FromSteps DEF l
<1>9. \A k \in 1 .. l : r[k] = x[k]
  BY DEF l
<1>10. l <= Len(x) /\ l = Len(r)
  BY DEF l
<1>11. F[o[m] + 1] = << >>
  <2> DEFINE a == o[m]
  <2>1. a \in 0 .. l
    BY <1>1, <1>5, <1>6
  <2>2. \A k \in a + 1 .. l : r[k] # CloseTag["Part"]
    <3> SUFFICES ASSUME NEW k \in a + 1 .. l PROVE r[k] # CloseTag["Part"]
      OBVIOUS
    <3>1. m # n /\ l < o[m + 1]
      <4>1. CASE m = n
        BY <1>1, <1>5, <1>10, <2>1, <4>1
      <4> QED BY <1>6, <4>1
    <3>2. m + 1 \in 1 .. n /\ (m + 1) - 1 = m
      BY <1>1, <3>1
    <3>3. o[m + 1] = a + Len(s[m + 1]) /\ Len(s[m + 1]) \in Nat
      BY <1>2, <1>5, <3>2
    <3> HIDE DEF a
    <3>4. /\ k - a \in 1 .. Len(s[m + 1]) /\ k - a \in 1 .. Len(s[m + 1]) - 1
          /\ a + (k - a) = k /\ k \in 1 .. l
      BY <1>1, <2>1, <3>1, <3>3
    <3>5. x[a + (k - a)] = s[m + 1][k - a]
      BY <1>5, <3>2, <3>4 DEF a
    <3> QED BY <1>2, <1>9, <3>2, <3>4, <3>5
  <2> HIDE DEF a
  <2>3. BlockStart(r, a + 1) = 0 \/ BlockEnd(r, a + 1) = 0
    BY <1>10, <2>1, <2>2, BlockCut
  <2>4. a + 1 \in 1 .. l + 1
    BY <1>1, <2>1
  <2> QED BY <1>8, <2>3, <2>4 DEF a
<1>12. ASSUME NEW j \in 1 .. m
       PROVE  F[o[j - 1] + 1] = parse_block(PartXml(ps[j])) \o F[o[j] + 1]
  <2> DEFINE a == o[j - 1]
             b == s[j]
  <2>1. j \in 1 .. n /\ j - 1 \in 0 .. n /\ j \in 0 .. n /\ m \in 0 .. n
    BY <1>1
  <2>2. /\ a \in Nat /\ b \in Seq(Token) /\ Len(b) \in Nat /\ Len(b) >= 2
        /\ b[1] = OpenTag["Part"] /\ b[Len(b)] = CloseTag["Part"]
        /\ \A k \in 1 .. Len(b) - 1 : b[k] # CloseTag["Part"]
    BY <1>2, <1>5, <2>1
  <2>3. o[j] = a + Len(b) /\ \A k \in 1 .. Len(b) : x[a + k] = b[k]
    BY <1>5, <2>1
  <2>4. o[j] <= o[m]
    <3> DEFINE D == {d \in Nat : j + d <= m => o[j] <= o[j + d]}
    <3>1. 0 \in D
      BY <1>5, <2>1
    <3>2. ASSUME NEW d \in Nat, d \in D PROVE d + 1 \in D
      <4>1. CASE j + (d + 1) <= m
        <5>1. /\ j + (d + 1) \in 1 .. n /\ j + (d + 1) \in 0 .. n
              /\ (j + (d + 1)) - 1 = j + d /\ j + d \in 0 .. n
          BY <1>1, <2>1, <4>1
        <5>2. /\ o[j + (d + 1)] = o[j + d] + Len(s[j + (d + 1)])
              /\ Len(s[j + (d + 1)]) \in Nat
          BY <1>2, <1>5, <5>1
        <5>3. o[j + d] \in Nat /\ o[j] \in Nat /\ o[j] <= o[j + d]
          BY <1>5, <2>1, <3>2, <4>1, <5>1
        <5>4. o[j] <= o[j + (d + 1)]
          BY <5>2, <5>3
        <5> QED BY <5>4
      <4> QED BY <4>1
    <3> HIDE DEF D
    <3>3. Nat \subseteq D
      BY <3>1, <3>2, SetInduction
    <3>4. m - j \in D /\ j + (m - j) = m
      BY <1>1, <2>1, <3>3
    <3> QED BY <2>1, <3>4 DEF D
  <2>5. a + Len(b) <= l /\ \A k \in 1 .. Len(b) : r[a + k] = b[k]
    <3>1. a + Len(b) <= l
      <4>1. o[j] \in Nat /\ o[m] \in Nat
        BY <1>5, <2>1
      <4> QED BY <1>1, <1>6, <2>3, <2>4, <4>1
    <3>2. ASSUME NEW k \in 1 .. Len(b) PROVE r[a + k] = b[k]
      <4> HIDE DEF a, b
      <4>1. a + k \in 1 .. l
        BY <1>1, <2>2, <3>1
      <4> QED BY <1>9, <2>3, <4>1
    <3> QED BY <3>1, <3>2
  <2> HIDE DEF a, b
  <2>6. /\ BlockStart(r, a + 1) = a + 1 /\ BlockEnd(r, a + 1) = a + Len(b)
        /\ SubSeq(r, a + 1, a + Len(b)) = b
    BY <1>10, <2>2, <2>5, BlockFound
  <2>7. a + 1 \in 1 .. l + 1 /\ a + 1 # 0 /\ a + Len(b) # 0
    BY <1>1, <2>2, <2>5
  <2>8. F[a + 1] = parse_block(b) \o F[a + Len(b) + 1]
    <3>1. F[a + 1] = IF BlockStart(r, a + 1) = 0 \/ BlockEnd(r, a + 1) = 0 THEN << >>
                     ELSE parse_block(SubSeq(r, BlockStart(r, a + 1), BlockEnd(r, a + 1)))
                            \o F[BlockEnd(r, a + 1) + 1]
      BY <1>8, <2>7, Zenon
    <3>2. ~(BlockStart(r, a + 1) = 0 \/ BlockEnd(r, a + 1) = 0)
      BY <2>6, <2>7, Zenon
    <3> QED BY <2>6, <3>1, <3>2, Zenon
  <2>9. b = PartXml(ps[j])
    BY <1>2, <2>1 DEF b
  <2> QED BY <2>3, <2>8, <2>9 DEF a
<1> DEFINE Good(j) == W[j] \o F[o[j] + 1] = W[m] /\ F[o[j] + 1] \in Seq(ReadRecord)
           T == {d \in Nat : d <= m => Good(m - d)}
<1>13. 0 \in T
  <2>1. W[m] \in Seq(ReadRecord)
    BY <1>1, <1>7
  <2>2. W[m] \o << >> = W[m]
    BY <2>1, ConcatEmptySeq
  <2>3. Good(m)
    BY <1>11, <2>2
  <2> HIDE DEF Good
  <2> QED BY <1>1, <2>3
<1>14. ASSUME NEW j \in 1 .. m, Good(j) PROVE Good(j - 1)
  <2> DEFINE a == W[j - 1]
             b == parse_block(PartXml(ps[j]))
             c == F[o[j] + 1]
  <2>1. j \in 1 .. n /\ j - 1 \in 0 .. n
    BY <1>1
  <2>2. W[j] = a \o b
    BY <1>7, <2>1
  <2>3. F[o[j - 1] + 1] = b \o c
    BY <1>12
  <2>4. W[j] \o c = W[m] /\ c \in Seq(ReadRecord)
    BY <1>14 DEF Good
  <2>5. a \in Seq(ReadRecord)
    BY <1>7, <2>1
  <2>6. b \in Seq(ReadRecord)
    <3>1. ps[j] \in PartRecord
      BY <1>1, <2>1
    <3> QED BY <3>1, BlockType
  <2> HIDE DEF a, b, c, Good, T
  <2>7. (a \o b) \o c = a \o (b \o c)
    <3>1. c \in Seq(ReadRecord)
      BY <2>4
    <3> QED BY <2>5, <2>6, <3>1, Associative, SMTT(20)
  <2>8. b \o c \in Seq(ReadRecord)
    BY <2>4, <2>6
  <2> QED BY <2>2, <2>3, <2>4, <2>7, <2>8 DEF a, Good
<1> HIDE DEF Good
<1>15. ASSUME NEW d \in Nat, d \in T PROVE d + 1 \in T
  <2>1. CASE d + 1 <= m
    <3>1. m - d \in 1 .. m /\ (m - d) - 1 = m - (d + 1) /\ Good(m - d)
      BY <1>1, <1>15, <2>1
    <3>2. Good(m - (d + 1))
      BY <1>14, <3>1
    <3> QED BY <3>2
  <2> QED BY <2>1
<1> HIDE DEF T
<1>16. W[0] \o F[o[0] + 1] = W[m] /\ F[o[0] + 1] \in Seq(ReadRecord)
  <2>1. Nat \subseteq T
    BY <1>13, <1>15, SetInduction
  <2>2. m \in T /\ m - m = 0 /\ m <= m
    BY <1>1, <2>1
  <2>3. Good(0)
    BY <2>2 DEF T
  <2> QED BY <2>3 DEF Good
<1>17. parse_parts(r) = W[m]
  <2>1. F[o[0] + 1] = F[1] /\ << >> \o F[1] = F[1]
    BY <1>5, <1>16, ConcatEmptySeq
  <2> QED BY <1>7, <1>8, <1>16, <2>1
<1>18. IsPrefix(W[m], W[n])
  <2> DEFINE u == W[m]
             v == W[n]
  <2>1. u \in Seq(ReadRecord) /\ v \in Seq(ReadRecord)
    BY <1>1, <1>7
  <2>2. Len(u) <= Len(v) /\ \A k \in 1 .. Len(u) : v[k] = u[k]
    BY <1>1, <1>7
  <2> HIDE DEF u, v
  <2>3. SubSeq(u, 1, Len(u)) = SubSeq(v, 1, Len(u))
    BY <2>1, <2>2
  <2> QED BY <2>2, <2>3 DEF IsPrefix, u, v
<1>19. ASSUME l = Len(x) PROVE m = n
  <2> SUFFICES ASSUME m # n PROVE FALSE
    OBVIOUS
  <2>1. m + 1 \in 1 .. n /\ l < o[m + 1]
    BY <1>1, <1>6
  <2>2. o[m + 1] <= Len(x) /\ o[m + 1] \in Nat
    BY <1>5, <2>1
  <2> QED BY <1>1, <1>19, <2>1, <2>2
<1>20. parse_parts(r) \in Seq(ReadRecord)
  <2>1. m \in 0 .. n
    OBVIOUS
  <2> QED BY <1>7, <1>17, <2>1
<1> QED BY <1>7, <1>10, <1>17, <1>18, <1>19, <1>20

\* The larger the width, the more it holds.
LEMMA Widths ==
  ASSUME NEW a \in Nat, NEW b \in Nat, a <= b
  PROVE  2^a \in Nat /\ 2^b \in Nat /\ 1 <= 2^a /\ 2^a <= 2^b
<1> DEFINE A == 1 .. a
           B == 1 .. b
<1>1. /\ IsFiniteSet(A) /\ Cardinality(A) = a /\ IsFiniteSet(B) /\ Cardinality(B) = b
  BY FS_Interval
<1>2. /\ IsFiniteSet(SUBSET A) /\ Cardinality(SUBSET A) = 2^a
      /\ IsFiniteSet(SUBSET B) /\ Cardinality(SUBSET B) = 2^b
  BY <1>1, FS_SUBSET
<1>3. SUBSET A \subseteq SUBSET B /\ {{}} \subseteq SUBSET A
  OBVIOUS
<1>4. Cardinality(SUBSET A) <= Cardinality(SUBSET B)
  BY <1>2, <1>3, FS_Subset
<1>5. Cardinality({{}}) <= Cardinality(SUBSET A) /\ Cardinality({{}}) = 1
  BY <1>2, <1>3, FS_Subset, FS_Singleton
<1> QED BY <1>2, <1>4, <1>5, FS_CardinalityType

\* A number that fits an int is left alone.
LEMMA AsIntFits ==
  ASSUME NEW v \in Nat, v < 2^(IntBits - 1)
  PROVE  AsInt(v) = v /\ v < 2^(LongBits - 1)
<1> DEFINE M == 2^IntBits
           H == 2^(IntBits - 1)
           L == 2^(LongBits - 1)
           h == IntBits - 1
           l == LongBits - 1
<1>1. h \in Nat /\ l \in Nat /\ IntBits \in Nat /\ h <= IntBits /\ h <= l
  BY WidthsAssumption
<1>2. H \in Nat /\ M \in Nat /\ 1 <= H /\ H <= M
  <2> HIDE DEF h
  <2>1. 2^h \in Nat /\ 2^IntBits \in Nat /\ 1 <= 2^h /\ 2^h <= 2^IntBits
    BY <1>1, Widths
  <2> QED BY <2>1 DEF h
<1>3. H <= L /\ L \in Nat
  <2> HIDE DEF h, l
  <2>1. 2^h <= 2^l /\ 2^l \in Nat
    BY <1>1, Widths
  <2> QED BY <2>1 DEF h, l
<1>4. AsInt(v) = IF v % M < H THEN v % M ELSE (v % M) - M
  BY DEF AsInt
<1>5. v < H
  OBVIOUS
<1> HIDE DEF M, H, L
<1>6. v % M = v
  BY <1>2, <1>5
<1> QED BY <1>2, <1>3, <1>4, <1>5, <1>6 DEF L

\* What is taken of a part is the part's own, where it fits.
LEMMA ReadFaithful ==
  ASSUME NEW p \in PartRecord
  PROVE  TakenFrom(Read(p), p)
<1>1. p.num \in Seq(Char) /\ p.etag \in Seq(Char) /\ NumSize \in Nat \ {0} /\ EtagSize \in Nat \ {0}
  BY SizesAssumption DEF PartRecord
<1>2. ASSUME Len(p.etag) + 1 < EtagSize PROVE Read(p).etag = p.etag
  <2>1. Len(p.etag) < EtagSize
    BY <1>1, <1>2
  <2>2. Clipped(p.etag, EtagSize) = p.etag
    BY <1>1, <2>1, ClippedIs
  <2> QED BY <2>2 DEF Read
<1>3. ASSUME Countable(p.num) PROVE Read(p).num = Value(p.num)
  <2> DEFINE num == p.num
             I == {i \in 0 .. Len(num) : \A j \in 1 .. i : num[j] \in ToSet(Digits)}
             n == Max(I)
  <2>1. /\ num \in Seq(Char) /\ Len(num) \in Nat /\ DOMAIN num = 1 .. Len(num)
        /\ Len(num) < NumSize /\ \A j \in 1 .. Len(num) : num[j] \in ToSet(Digits)
        /\ Value(num) \in 0 .. (2^(IntBits - 1) - 1)
    BY <1>1, <1>3 DEF Countable
  <2>2. Clipped(num, NumSize) = num
    BY <1>1, <2>1, ClippedIs
  <2> HIDE DEF num
  <2>3. n = Len(num)
    <3>1. Len(num) \in I /\ \A i \in I : i \in Nat /\ Len(num) >= i
      BY <2>1
    <3> HIDE DEF I
    <3>2. \A m \in I : (\A i \in I : m >= i) => m = Len(num)
      BY <2>1, <3>1
    <3> QED BY <3>1, <3>2 DEF Max
  <2>4. SubSeq(num, 1, Len(num)) = num
    BY <2>1
  <2> DEFINE v == Value(num)
  <2>5. atoi(num) = AsInt(IF v < 2^(LongBits - 1) THEN v ELSE 2^(LongBits - 1) - 1)
    <3> HIDE DEF n, I
    <3>1. atoi(num) = LET u == Value(SubSeq(num, 1, n))
                      IN  AsInt(IF u < 2^(LongBits - 1) THEN u ELSE 2^(LongBits - 1) - 1)
      BY DEF atoi, n, I
    <3> QED BY <2>3, <2>4, <3>1
  <2> HIDE DEF v
  <2>6. v \in Nat /\ v < 2^(IntBits - 1)
    <3> DEFINE h == IntBits - 1
    <3>1. h \in Nat
      BY WidthsAssumption
    <3> HIDE DEF h
    <3>2. 2^h \in Nat
      BY <3>1, Widths
    <3>3. v \in 0 .. (2^h - 1)
      BY <2>1 DEF v, h
    <3>4. v \in Nat /\ v < 2^h
      BY <3>2, <3>3
    <3> QED BY <3>4 DEF h
  <2>7. atoi(num) = v
    BY <2>5, <2>6, AsIntFits
  <2> QED BY <2>2, <2>7 DEF Read, num, v
<1> QED BY <1>2, <1>3 DEF TakenFrom

\* So is what is taken of the first parts of a list.
LEMMA BeginningFaithful ==
  ASSUME NEW w \in Seq(PartRecord), NEW u \in Seq(ReadRecord), IsPrefix(u, ReadAll(w))
  PROVE  /\ Len(u) <= Len(w) /\ \A i \in DOMAIN u : TakenFrom(u[i], w[i])
         /\ u = ReadAll(w) => Len(u) = Len(w)
<1> DEFINE v == ReadAll(w)
<1>1. v \in Seq(ReadRecord) /\ Len(v) = Len(w) /\ Len(w) \in Nat
  BY ReadJoined
<1>2. ASSUME NEW i \in 1 .. Len(w) PROVE v[i] = Read(w[i]) /\ w[i] \in PartRecord
  BY DEF ReadAll
<1> HIDE DEF v
<1>3. /\ Len(u) <= Len(v) /\ SubSeq(u, 1, Len(u)) = SubSeq(v, 1, Len(u))
      /\ Len(u) \in Nat /\ DOMAIN u = 1 .. Len(u)
  BY DEF IsPrefix, v
<1>4. ASSUME NEW i \in 1 .. Len(u) PROVE TakenFrom(u[i], w[i])
  <2>1. SubSeq(u, 1, Len(u))[i] = u[i] /\ SubSeq(v, 1, Len(u))[i] = v[i]
    BY <1>1, <1>3
  <2>2. i \in 1 .. Len(w)
    BY <1>1, <1>3
  <2> QED BY <1>2, <1>3, <2>1, <2>2, ReadFaithful
<1> QED BY <1>1, <1>3, <1>4 DEF v

\* A text that has arrived, all or in part.
Beginning(r, x) == Len(r) <= Len(x) /\ \A k \in 1 .. Len(r) : r[k] = x[k]

\* What a call has taken from the answer.
Taken ==
  /\ op = "create" => /\ IsPrefix(out, answer.id)
                      /\ Len(answer.id) < UploadIdSize => out = answer.id
  /\ op = "list" =>
       LET whole == WholeParts(answer.parts) IN
       /\ Len(out) <= Len(whole) /\ \A i \in DOMAIN out : TakenFrom(out[i], whole[i])
       /\ Len(out) = Len(whole) \/ ~(answer.complete \/ answer.known)

\* What has been received and what has not are together the server's answer,
\* and all of it unless the connection has ended; what is taken is taken from it.
Received ==
  /\ answer = NoValue => wire = << >> /\ resp = << >>
  /\ answer # NoValue => answer \in AnswerType
  /\ op \in {"create", "list"} /\ answer # NoValue /\ answer.http < 300 =>
       \E b \in Bodies : /\ answer.id = b.id /\ answer.parts = b.parts
                         /\ Beginning(resp \o wire, b.xml)
                         /\ answer.complete => resp \o wire = b.xml
  /\ rc = "ok" => /\ answer # NoValue /\ wire = << >>
                  /\ answer.complete \/ ~answer.known \/ op = "get"
  /\ pc = "parse" => rc = "ok" /\ answer.http < 300
  /\ pc \in {"free", "returned"} /\ ret = 0 => Taken

\* The answer to a list of parts.
LEMMA BodyParts ==
  ASSUME op \in Op, NEW b \in Bodies
  PROVE  /\ b.parts \in Seq(PartRecord) /\ b.id \in Seq(Char)
         /\ op = "create" => b.xml = Tagged("UploadId", b.id)
         /\ op = "list" => b.xml = FlattenSeq([i \in DOMAIN b.parts |-> PartXml(b.parts[i])])
<1>1. CASE op = "create"
  <2>1. PICK u \in UploadIds : b = [xml |-> Tagged("UploadId", u), id |-> u, parts |-> << >>]
    BY <1>1 DEF Bodies
  <2>2. b.xml = Tagged("UploadId", b.id) /\ b.id \in Seq(Char) /\ b.parts = << >>
    BY <2>1, UploadIdsAssumption
  <2>3. << >> \in Seq(PartRecord)
    OBVIOUS
  <2> QED BY <1>1, <2>2, <2>3
<1>2. CASE op = "list"
  <2>1. PICK ps \in PartLists :
          b = [xml |-> FlattenSeq([i \in DOMAIN ps |-> PartXml(ps[i])]), id |-> << >>,
               parts |-> ps]
    BY <1>2 DEF Bodies
  <2>2. b.parts = ps /\ b.id = << >> /\ b.xml = FlattenSeq([i \in DOMAIN ps |-> PartXml(ps[i])])
    BY <2>1
  <2>3. ps \in Seq(PartRecord)
    BY PartListsAssumption DEF PartRecord
  <2> QED BY <1>2, <2>2, <2>3
<1>3. CASE op \notin {"create", "list"}
  <2>1. PICK xml \in {<< >>, <<"x", "x">>} : b = [xml |-> xml, id |-> << >>, parts |-> << >>]
    BY <1>3 DEF Bodies
  <2>2. b.parts = << >> /\ b.id = << >>
    BY <2>1
  <2> QED BY <1>3, <2>2
<1> QED BY <1>1, <1>2, <1>3

\* The server's answer is put on the wire whole.
LEMMA ServeReceived ==
  ASSUME CallInv, Received, Serve
  PROVE  Received'
<1>1. /\ pc = "perform" /\ rc = "none" /\ wire = << >> /\ resp = << >> /\ op \in Op
      /\ UNCHANGED <<pc, op, resp, rc, out, ret>>
  BY DEF Serve, CallInv, Reported, Received
<1>2. Bodies' = Bodies
  BY <1>1 DEF Bodies
<1>3. PICK b \in Bodies, known \in BOOLEAN :
        \/ \E http \in {200} \cup (IF op \in {"create", "list"} THEN {} ELSE {201, 204}) :
             /\ answer' = [http |-> http, known |-> known, id |-> b.id, parts |-> b.parts,
                           complete |-> TRUE]
             /\ wire' = IF op = "head" \/ http = 204 THEN << >> ELSE b.xml
        \/ \E http \in {307, 403, 500} :
             answer' = [http |-> http, known |-> known, id |-> << >>, parts |-> << >>,
                        complete |-> TRUE]
  BY DEF Serve
<1>4. /\ b.parts \in Seq(PartRecord) /\ << >> \in Seq(PartRecord)
      /\ b.id \in Seq(Char) /\ << >> \in Seq(Char)
  <2>1. b.parts \in Seq(PartRecord) /\ b.id \in Seq(Char)
    BY <1>1, BodyParts
  <2>2. << >> \in Seq(PartRecord) /\ << >> \in Seq(Char)
    OBVIOUS
  <2> QED BY <2>1, <2>2
<1>5. answer' \in AnswerType /\ answer' # NoValue
  <2>1. CASE \E http \in {307, 403, 500} :
               answer' = [http |-> http, known |-> known, id |-> << >>, parts |-> << >>,
                        complete |-> TRUE]
    <3>1. PICK h \in {307, 403, 500} :
            answer' = [http |-> h, known |-> known, id |-> << >>, parts |-> << >>,
                       complete |-> TRUE]
      BY <2>1
    <3>2. answer' \in AnswerType
      BY <1>4, <3>1 DEF AnswerType, PartRecord
    <3> QED BY <3>2, NoValueAssumption
  <2>2. CASE \E http \in {200, 201, 204} :
               answer' = [http |-> http, known |-> known, id |-> b.id, parts |-> b.parts,
                          complete |-> TRUE]
    <3>1. PICK h \in {200, 201, 204} :
            answer' = [http |-> h, known |-> known, id |-> b.id, parts |-> b.parts,
                       complete |-> TRUE]
      BY <2>2
    <3>2. answer' \in AnswerType
      BY <1>4, <3>1 DEF AnswerType, PartRecord
    <3> QED BY <3>2, NoValueAssumption
  <2> QED BY <1>3, <2>1, <2>2
<1>6. ASSUME op \in {"create", "list"}, answer'.http < 300
      PROVE  /\ answer'.id = b.id /\ answer'.parts = b.parts /\ Beginning(resp' \o wire', b.xml)
             /\ resp' \o wire' = b.xml
  <2>1. answer'.id = b.id /\ answer'.parts = b.parts /\ wire' = b.xml
    <3>1. CASE \E http \in {307, 403, 500} :
                 answer' = [http |-> http, known |-> known, id |-> << >>, parts |-> << >>,
                        complete |-> TRUE]
      BY <1>6, <3>1
    <3>2. CASE \E http \in {200} \cup (IF op \in {"create", "list"} THEN {} ELSE {201, 204}) :
                 /\ answer' = [http |-> http, known |-> known, id |-> b.id, parts |-> b.parts,
                               complete |-> TRUE]
                 /\ wire' = IF op = "head" \/ http = 204 THEN << >> ELSE b.xml
      BY <1>6, <3>2
    <3> QED BY <1>3, <3>1, <3>2
  <2>2. b.xml \in Seq(Token)
    BY <1>1, BodiesType
  <2>3. resp' \o wire' = b.xml
    BY <1>1, <2>1, <2>2, ConcatEmptySeq
  <2>4. Beginning(b.xml, b.xml)
    BY <2>2 DEF Beginning
  <2> QED BY <2>1, <2>3, <2>4
<1>7. op' \in {"create", "list"} /\ answer' # NoValue /\ answer'.http < 300 =>
       \E c \in Bodies' : /\ answer'.id = c.id /\ answer'.parts = c.parts
                          /\ Beginning(resp' \o wire', c.xml)
                          /\ answer'.complete => resp' \o wire' = c.xml
  BY <1>1, <1>2, <1>6
<1> QED BY <1>1, <1>5, <1>7 DEF Received

\* A piece goes from the wire to the buffer.
LEMMA PieceReceived ==
  ASSUME CallInv, Room, Received, write_response
  PROVE  Received'
<1>1. /\ pc = "perform" /\ rc = "none" /\ wire # << >> /\ op \in Op
      /\ UNCHANGED <<op, answer, out, ret>> /\ rc' \in {"none", "error"}
      /\ pc' \in {"perform", "close"} /\ answer # NoValue
  BY DEF write_response, CallInv, Reported, Received
<1>2. Bodies' = Bodies
  BY <1>1 DEF Bodies
<1>3. ASSUME op \in {"create", "list"} PROVE resp' \o wire' = resp \o wire
  <2>1. op \in MultiOp /\ op \notin ClientOp
    BY <1>3 DEF MultiOp, ClientOp
  <2>2. PICK n \in 1 .. Len(wire) :
          \/ /\ resp' = resp \o SubSeq(wire, 1, n)
             /\ wire' = SubSeq(wire, n + 1, Len(wire))
          \/ UNCHANGED <<resp, wire>>
    BY <2>1 DEF write_response
  <2>3. CASE /\ resp' = resp \o SubSeq(wire, 1, n)
             /\ wire' = SubSeq(wire, n + 1, Len(wire))
    <3> DEFINE a == resp
               b == SubSeq(wire, 1, n)
               c == SubSeq(wire, n + 1, Len(wire))
    <3>1. wire \in Seq(Token)
      BY DEF Room
    <3>2. b \o c = wire
      BY <3>1
    <3>5. a \in Seq(Token)
      BY DEF Room
    <3>6. b \in Seq(Token)
      BY <3>1
    <3>7. c \in Seq(Token)
      BY <3>1
    <3> HIDE DEF a, b, c
    <3>3. (a \o b) \o c = a \o (b \o c)
      BY <3>5, <3>6, <3>7, Associative
    <3>4. resp' \o wire' = (a \o b) \o c
      BY <2>3 DEF a, b, c
    <3> QED BY <3>2, <3>3, <3>4 DEF a
  <2>4. CASE UNCHANGED <<resp, wire>>
    BY <2>4
  <2> QED BY <2>2, <2>3, <2>4
<1> QED BY <1>1, <1>2, <1>3 DEF Received

\* The beginning of a beginning.
LEMMA ShorterBeginning ==
  ASSUME NEW S, NEW r \in Seq(S), NEW w \in Seq(S), NEW x \in Seq(S), Beginning(r \o w, x)
  PROVE  Beginning(r, x)
<1>1. Len(r \o w) = Len(r) + Len(w) /\ \A k \in 1 .. Len(r) : (r \o w)[k] = r[k]
  OBVIOUS
<1>2. Len(r) \in Nat /\ Len(w) \in Nat /\ Len(x) \in Nat
  OBVIOUS
<1>3. Len(r) + Len(w) <= Len(x) /\ \A k \in 1 .. Len(r) + Len(w) : (r \o w)[k] = x[k]
  BY <1>1 DEF Beginning
<1>4. Len(r) <= Len(x)
  BY <1>2, <1>3
<1>5. ASSUME NEW k \in 1 .. Len(r) PROVE r[k] = x[k]
  <2>1. k \in 1 .. Len(r) + Len(w)
    BY <1>2
  <2> QED BY <1>1, <1>3, <2>1
<1> QED BY <1>4, <1>5 DEF Beginning

\* An answer that is cut off is the same otherwise.
LEMMA CutOff ==
  ASSUME NEW H, NEW I, NEW Q,
         NEW a \in [http : H, known : BOOLEAN, id : I, parts : Q, complete : BOOLEAN]
  PROVE  LET b == [a EXCEPT !.complete = FALSE]
         IN  /\ b \in [http : H, known : BOOLEAN, id : I, parts : Q, complete : BOOLEAN]
             /\ b.http = a.http /\ b.id = a.id /\ b.parts = a.parts /\ ~b.complete
<1> DEFINE b == [a EXCEPT !.complete = FALSE]
<1>1. b.http = a.http /\ b.id = a.id /\ b.parts = a.parts
  OBVIOUS
<1>2. ~b.complete
  BY Zenon
<1>3. b \in [http : H, known : BOOLEAN, id : I, parts : Q, complete : BOOLEAN]
  BY Zenon
<1> QED BY <1>1, <1>2, <1>3

\* The connection ends: what has arrived is a beginning of the answer.
LEMMA CutReceived ==
  ASSUME CallInv, Room, Received, Cut
  PROVE  Received'
<1>1. /\ pc = "perform" /\ rc = "none" /\ op \in Op /\ answer # NoValue /\ wire' = << >>
      /\ answer' = [answer EXCEPT !.complete = FALSE]
      /\ UNCHANGED <<pc, op, resp, rc, out, ret>>
  BY DEF Cut, CallInv, Reported
<1>2. Bodies' = Bodies
  BY <1>1 DEF Bodies
<1>3. /\ answer' \in AnswerType /\ answer'.http = answer.http
      /\ answer'.id = answer.id /\ answer'.parts = answer.parts /\ ~answer'.complete
  <2> DEFINE H == {200, 201, 204, 307, 403, 500}
             I == Seq(Char)
             Q == Seq([num : Seq(Char), etag : Seq(Char)])
             R == [http : H, known : BOOLEAN, id : I, parts : Q, complete : BOOLEAN]
             c == [answer EXCEPT !.complete = FALSE]
  <2>1. answer \in R
    BY <1>1 DEF Received, AnswerType
  <2> HIDE DEF H, I, Q
  <2>2. c \in R /\ c.http = answer.http /\ c.id = answer.id /\ c.parts = answer.parts /\ ~c.complete
    BY <2>1, CutOff
  <2>3. answer' = c
    BY <1>1
  <2> HIDE DEF c, R
  <2>4. c \in R => c \in AnswerType
    BY DEF AnswerType, R, H, I, Q
  <2> QED BY <2>2, <2>3, <2>4
<1>4. ASSUME NEW b \in Bodies, Beginning(resp \o wire, b.xml)
      PROVE  Beginning(resp' \o wire', b.xml)
  <2>1. resp \in Seq(Token) /\ wire \in Seq(Token) /\ resp' = resp
    BY <1>1 DEF Room
  <2>2. resp' \o wire' = resp
    BY <1>1, <2>1, ConcatEmptySeq
  <2>3. resp \in Seq(Token)
    BY <2>1
  <2>4. wire \in Seq(Token)
    BY <2>1
  <2>5. b.xml \in Seq(Token)
    BY <1>1, BodiesType
  <2> QED BY <1>4, <2>2, <2>3, <2>4, <2>5, ShorterBeginning
<1>5. op' \in {"create", "list"} /\ answer' # NoValue /\ answer'.http < 300 =>
       \E c \in Bodies' : /\ answer'.id = c.id /\ answer'.parts = c.parts
                          /\ Beginning(resp' \o wire', c.xml)
                          /\ answer'.complete => resp' \o wire' = c.xml
  BY <1>1, <1>2, <1>3, <1>4 DEF Received
<1>6. answer' # NoValue
  BY <1>3, NoValueAssumption
<1> QED BY <1>1, <1>3, <1>5, <1>6 DEF Received

\* The answer is parsed where all that will come has arrived.
LEMMA ParseReceived ==
  ASSUME CallInv, Room, Received, Parse
  PROVE  Received'
<1>1. /\ pc = "parse" /\ pc' = "free" /\ op \in {"create", "list"} /\ op \in Op
      /\ rc = "ok" /\ answer # NoValue /\ wire = << >> /\ answer.http < 300
      /\ answer.complete \/ ~answer.known
      /\ UNCHANGED <<op, answer, wire, resp, rc>>
  BY DEF Parse, CallInv, Held, Received
<1>2. Bodies' = Bodies
  BY <1>1 DEF Bodies
<1>3. PICK b \in Bodies : /\ answer.id = b.id /\ answer.parts = b.parts
                          /\ Beginning(resp \o wire, b.xml)
                          /\ answer.complete => resp \o wire = b.xml
  BY <1>1 DEF Received
<1>4. resp \in Seq(Token) /\ resp \o wire = resp
  BY <1>1, ConcatEmptySeq DEF Room
<1>5. Len(resp) <= Len(b.xml) /\ \A k \in 1 .. Len(resp) : resp[k] = b.xml[k]
  BY <1>3, <1>4 DEF Beginning
<1>6. ASSUME ret' = 0 PROVE Taken'
  <2>1. CASE op = "create"
    <3>1. out' = find_tag_text(resp, "UploadId", UploadIdSize) /\ out' # NoValue
      BY <1>6, <2>1 DEF Parse
    <3>2. b.xml = Tagged("UploadId", answer.id) /\ answer.id \in Seq(Char)
      BY <1>1, <1>3, <2>1, BodyParts
    <3>3. out' = Clipped(answer.id, UploadIdSize)
      BY <1>4, <1>5, <3>1, <3>2, UploadIdWhole
    <3>4. IsPrefix(out', answer.id) /\ (Len(answer.id) < UploadIdSize => out' = answer.id)
      BY <3>2, <3>3, ClippedIs, SizesAssumption
    <3> QED BY <1>1, <2>1, <3>4 DEF Taken
  <2>2. CASE op = "list"
    <3> DEFINE ps == answer.parts
    <3>1. out' = parse_parts(resp)
      BY <1>6, <2>2 DEF Parse
    <3>2. ps \in Seq(PartRecord) /\ b.xml = FlattenSeq([i \in DOMAIN ps |-> PartXml(ps[i])])
      BY <1>1, <1>3, <2>2, BodyParts
    <3> HIDE DEF ps
    <3> DEFINE w == WholeParts(ps)
    <3>3. /\ parse_parts(resp) \in Seq(ReadRecord)
          /\ IsPrefix(parse_parts(resp), ReadAll(w))
          /\ Len(resp) = Len(b.xml) => parse_parts(resp) = ReadAll(w)
      BY <1>4, <1>5, <3>2, PartsTaken
    <3>4. answer.complete => Len(resp) = Len(b.xml)
      BY <1>3, <1>4
    <3>5. answer' = answer /\ op' = op
      BY <1>1
    <3>6. w \in Seq(PartRecord)
      BY <3>2, WholeSteps
    <3> HIDE DEF w
    <3>7. /\ Len(out') <= Len(w) /\ \A i \in DOMAIN out' : TakenFrom(out'[i], w[i])
          /\ out' = ReadAll(w) => Len(out') = Len(w)
      BY <3>1, <3>3, <3>6, BeginningFaithful
    <3> QED BY <1>1, <2>2, <3>1, <3>3, <3>4, <3>5, <3>7 DEF Taken, ps, w
  <2> QED BY <1>1, <2>1, <2>2
<1> QED BY <1>1, <1>2, <1>3, <1>6 DEF Received

\* All other steps leave the answer alone.
LEMMA OtherReceived ==
  ASSUME CallInv, Received,
         MakeBody \/ Open \/ Performed \/ Closed \/ Free \/ Lost \/ UNCHANGED vars
  PROVE  Received'
<1>1. /\ UNCHANGED <<op, answer, wire, resp>> /\ op \in Op
  BY DEF CallInv, MakeBody, Open, Performed, Closed, Free, Lost, vars
<1>2. Bodies' = Bodies
  BY <1>1 DEF Bodies
<1>3. op' \in {"create", "list"} /\ answer' # NoValue /\ answer'.http < 300 =>
       \E c \in Bodies' : /\ answer'.id = c.id /\ answer'.parts = c.parts
                          /\ Beginning(resp' \o wire', c.xml)
                          /\ answer'.complete => resp' \o wire' = c.xml
  BY <1>1, <1>2 DEF Received
<1>4. rc' = "ok" => /\ answer' # NoValue /\ wire' = << >>
                    /\ answer'.complete \/ ~answer'.known \/ op' = "get"
  BY <1>1 DEF Received, MakeBody, Open, Performed, Closed, Free, Lost, vars
<1>5. pc' = "parse" => rc' = "ok" /\ answer'.http < 300
  <2>1. CASE Closed
    <3> SUFFICES ASSUME pc' = "parse" PROVE rc' = "ok" /\ answer'.http < 300
      OBVIOUS
    <3>1. op \in {"create", "list"} /\ rc = "ok" /\ rc' = rc /\ Accepted(op, answer.http)
      BY <2>1 DEF Closed
    <3>2. op \in MultiOp /\ op \notin {"head", "get", "put"}
      BY <3>1 DEF MultiOp
    <3>3. answer.http < 300
      BY <3>1, <3>2 DEF Accepted
    <3> QED BY <1>1, <3>1, <3>3
  <2>2. CASE MakeBody \/ Open \/ Performed \/ Free \/ Lost
    BY <2>2 DEF MakeBody, Open, Performed, Free, Lost
  <2>3. CASE UNCHANGED vars
    BY <2>3 DEF vars, Received
  <2> QED BY <2>1, <2>2, <2>3
<1>6. pc' \in {"free", "returned"} /\ ret' = 0 => Taken'
  <2> SUFFICES ASSUME pc' \in {"free", "returned"}, ret' = 0 PROVE Taken'
    OBVIOUS
  <2>1. CASE MakeBody
    BY <2>1 DEF MakeBody
  <2>2. CASE Open
    BY <2>2 DEF Open
  <2>3. CASE Performed \/ Lost
    BY <2>3 DEF Performed, Lost
  <2>4. CASE Closed
    <3>1. op \notin {"create", "list"} /\ op' = op
      BY <2>4 DEF Closed, ClientOp
    <3> QED BY <3>1 DEF Taken
  <2>5. CASE Free \/ UNCHANGED vars
    <3>1. pc \in {"free", "returned"} /\ ret = 0 /\ UNCHANGED <<op, out, answer>>
      BY <2>5 DEF Free, vars
    <3>2. Taken
      BY <3>1 DEF Received
    <3> QED BY <3>1, <3>2 DEF Taken
  <2> QED BY <2>1, <2>2, <2>3, <2>4, <2>5
<1> QED BY <1>1, <1>3, <1>4, <1>5, <1>6 DEF Received

\* What a successful call takes from an answer is the server's, for every answer
\* and however it is cut into pieces and cut off: as much of the upload id as its
\* buffer holds, and the parts of the list in order, each with its own number and
\* ETag where they fit, all of them if all of the list has arrived.
THEOREM CallTakesAnswer == Spec => []TakesServersAnswer
<1>1. Init => Room /\ Received
  BY InitRoom DEF Init, Received, Op, ClientOp, MultiOp
<1>2. CallInv /\ Room /\ Received /\ [Next]_vars => Room' /\ Received'
  <2> SUFFICES ASSUME CallInv, Room, Received, [Next]_vars PROVE Room' /\ Received'
    OBVIOUS
  <2>1. Room'
    BY RoomKept DEF Room, vars
  <2>2. Received'
    BY ServeReceived, PieceReceived, CutReceived, ParseReceived, OtherReceived
       DEF Next, Call, Terminated
  <2> QED BY <2>1, <2>2
<1>3. Received => TakesServersAnswer
  BY DEF Received, Taken, TakesServersAnswer
<1> QED BY <1>1, <1>2, <1>3, CallInvariance, PTL DEF Spec

----------------------------------------------------------------------------
(* What the invariant gives.                                               *)

\* The server recomputes the signature over what sign_request signed, where the
\* header list is whole: the headers of every call, and the whole request of every
\* call but list-uploads.
THEOREM CallSignature == Spec => []SignatureAgrees
BY SignatureFromInv, CallInvariance, PTL

\* A call that reports success has been done by the server, also where its header
\* list ran out of memory.
THEOREM CallDone == Spec => []OkMeansDone
<1>1. CallInv => OkMeansDone
  BY DEF CallInv, Reported, Done, OkMeansDone
<1> QED BY <1>1, CallInvariance, PTL

\* A call that succeeds returns with nothing held but the parts it hands over, and
\* one that fails with nothing but a list that ran out of memory, on every path.
THEOREM CallClean == Spec => []ReturnsClean
<1>1. CallInv => ReturnsClean
  BY DEF CallInv, Held
<1> QED BY <1>1, CallInvariance, PTL

=============================================================================
