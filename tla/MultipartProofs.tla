--------------------------- MODULE MultipartProofs ---------------------------
(***************************************************************************)
(* Proofs about Multipart, for any set of processes, command lines, files, *)
(* sizes of a part, of an int and of a page.                               *)
(***************************************************************************)
EXTENDS Multipart, SequenceLemmas, FiniteSetTheorems

----------------------------------------------------------------------------
(* The inductive invariant.                                                *)

\* Where a process is, given its command line; the upload it works on.
Control(p) ==
  /\ pc[p] = "start" => uid[p] = None /\ state[p] = "none"
  /\ pc[p] \notin {"start", "exit"} => uid[p] \in Proc
  /\ uid[p] \in Proc => state[uid[p]] # "none"
  /\ Job[p].action = "all" => uid[p] \in {None, p}
  /\ result[p] # "none" => pc[p] = "exit"
  /\ result[p] = "ok" /\ Job[p].action \in {"all", "complete"} =>
       uid[p] \in Proc /\ state[uid[p]] = "completed"
  /\ pc[p] \in {"plan", "read", "part", "send"} => Job[p].action \in {"all", "upload"}
  /\ pc[p] \in {"read", "part", "send"} => next[p] >= 1
  /\ pc[p] = "send" => Job[p].lang = "go"

\* What the server has of an upload: nothing before it is created, and every
\* part that was confirmed.
Uploads ==
  /\ \A u \in Proc : acked[u] \subseteq Stored(u)
  /\ \A u \in Proc : state[u] = "none" => Stored(u) = {}
  /\ \A x \in late : state[x.u] # "none"

\* A file loses bytes at its end, and nothing else.
Shrunk(p) ==
  /\ Len(file[p]) <= Len(InitFile[p])
  /\ \A i \in 1 .. Len(file[p]) : file[p][i] = InitFile[p][i]

\* What a list lacks of the parts known when it was asked for is beyond its
\* page; and the object is made of what it named.
ListComplete(p) ==
  LET listed == {parts[p][i].n : i \in DOMAIN parts[p]} IN
  \A n \in due[p] \ listed : Len(parts[p]) = Page /\ \A m \in listed : m < n

Completing(p) ==
  Job[p].action = "complete" =>
    /\ pc[p] = "complete" \/ result[p] = "ok" => ListComplete(p)
    /\ result[p] = "ok" /\ CheckEtags =>
         content[uid[p]] = [i \in DOMAIN parts[p] |-> parts[p][i].etag.of]

\* An `all' that fails and does not abort is one that could not complete.
Abandoned(p) ==
  Job[p].action = "all" /\ result[p] = "failed" /\ uid[p] # None /\ ~aborted[p]

GivesUpOpenly(p) == Abandoned(p) => Job[p].lang \in {"c", "go"}

\* Part n of p's file, as it was when p looked at its size.
PlannedPart(p, n) == Slice(InitFile[p], (n - 1) * PartSize, PartLen(size[p], n))

\* The first k parts are at the server and in the list.
Collected(p, k) ==
  /\ k \in Nat /\ DOMAIN parts[p] = 1 .. k
  /\ \A i \in 1 .. k : /\ i \in PartNumbers /\ parts[p][i].n = i
                       /\ stored[p][i] = PlannedPart(p, i)

AllUploaded(p) ==
  last[p] = NumParts(Job[p].lang, size[p]) /\ Collected(p, last[p])

\* No process uploads parts to another's upload, and `all' in C is run without
\* -part.
Undisturbed ==
  \A p \in Proc :
    /\ Job[p].action # "upload"
    /\ Job[p].action = "all" /\ Job[p].lang = "c" => Job[p].part <= 0

\* The progress of an `all' in C or Go.
Uploading(p) ==
  Job[p].action = "all" /\ Job[p].lang \in {"c", "go"} =>
    /\ pc[p] # "read"
    /\ pc[p] \in {"start", "plan"} => parts[p] = << >>
    /\ pc[p] = "plan" => \A x \in late : x.u # p
    /\ \A x \in late : x.u = p => x.data = PlannedPart(p, x.n)
    /\ pc[p] \in {"part", "send"} =>
         /\ last[p] = NumParts(Job[p].lang, size[p]) /\ next[p] <= last[p]
         /\ Collected(p, next[p] - 1)
    /\ pc[p] = "send" => bytes[p] = PlannedPart(p, next[p])
    /\ pc[p] = "complete" => AllUploaded(p)
    /\ Abandoned(p) => AllUploaded(p)
    /\ result[p] = "ok" =>
         /\ last[p] = NumParts(Job[p].lang, size[p])
         /\ content[p] = [n \in 1 .. last[p] |-> PlannedPart(p, n)]

MInv ==
  /\ TypeOK
  /\ Uploads
  /\ \A p \in Proc : /\ Control(p) /\ Shrunk(p) /\ Completing(p)
                     /\ GivesUpOpenly(p)
                     /\ Undisturbed => Uploading(p)

----------------------------------------------------------------------------
(* The operators.                                                          *)

\* The numbers of a finite set, in their order: each of them once.
LEMMA AscendingIsOrder ==
  ASSUME NEW S \in SUBSET Nat, IsFiniteSet(S)
  PROVE  /\ Cardinality(S) \in Nat
         /\ \A i \in 1 .. Cardinality(S) : Ascending(S)[i] \in S
         /\ \A i, j \in 1 .. Cardinality(S) : i < j => Ascending(S)[i] < Ascending(S)[j]
         /\ \A n \in S : \E i \in 1 .. Cardinality(S) : Ascending(S)[i] = n
<1> DEFINE UpTo(n) == {m \in S : m <= n}
           Rank(n) == Cardinality(UpTo(n))
           K == Cardinality(S)
           f == [n \in S |-> Rank(n)]
<1>1. K \in Nat
  BY FS_CardinalityType
<1>2. ASSUME NEW n \in S PROVE IsFiniteSet(UpTo(n)) /\ Rank(n) \in 1 .. K
  <2>1. UpTo(n) \in SUBSET S /\ n \in UpTo(n)
    OBVIOUS
  <2>2. IsFiniteSet(UpTo(n)) /\ Rank(n) <= K
    BY <2>1, FS_Subset
  <2>3. Rank(n) \in Nat /\ Rank(n) # 0
    BY <2>1, <2>2, FS_CardinalityType, FS_EmptySet
  <2> QED BY <1>1, <2>2, <2>3
<1>3. ASSUME NEW m \in S, NEW n \in S, m < n PROVE Rank(m) < Rank(n)
  <2>0. m \in Nat /\ n \in Nat /\ \A k \in S : k \in Nat
    OBVIOUS
  <2>1. UpTo(m) \in SUBSET UpTo(n) /\ n \in UpTo(n) /\ n \notin UpTo(m)
    <3>1. \A k \in S : k <= m => k <= n
      BY <1>3, <2>0
    <3>2. ~(n <= m) /\ n <= n
      BY <1>3, <2>0
    <3> QED BY <3>1, <3>2
  <2>2. Rank(m) <= Rank(n) /\ Rank(n) # Rank(m)
    BY <1>2, <2>1, FS_Subset
  <2>3. Rank(m) \in Nat /\ Rank(n) \in Nat
    BY <1>1, <1>2
  <2> HIDE DEF Rank
  <2> QED BY <2>2, <2>3
<1>4. f \in Surjection(S, 1 .. K)
  <2>1. f \in [S -> 1 .. K]
    BY <1>2
  <2>2. \A m, n \in S : f[m] = f[n] => m = n
    <3> SUFFICES ASSUME NEW m \in S, NEW n \in S, f[m] = f[n], m # n PROVE FALSE
      OBVIOUS
    <3>1. m < n \/ n < m
      OBVIOUS
    <3>2. Rank(m) = Rank(n) /\ Rank(m) \in Int
      BY <1>1, <1>2
    <3>3. Rank(m) < Rank(n) \/ Rank(n) < Rank(m)
      BY <1>3, <3>1
    <3> HIDE DEF Rank
    <3> QED BY <3>2, <3>3
  <2>3. f \in Injection(S, 1 .. K)
    BY <2>1, <2>2 DEF Injection, IsInjective
  <2>4. IsFiniteSet(1 .. K) /\ Cardinality(1 .. K) = K
    BY <1>1, FS_Interval
  <2> QED BY <2>3, <2>4, FS_Injection
<1>5. \A i \in 1 .. K : \E n \in S : Rank(n) = i
  BY <1>4 DEF Surjection
<1>6. \A i \in 1 .. K : Ascending(S)[i] \in S /\ Rank(Ascending(S)[i]) = i
  <2> SUFFICES ASSUME NEW i \in 1 .. K
               PROVE  Ascending(S)[i] \in S /\ Rank(Ascending(S)[i]) = i
    OBVIOUS
  <2>1. Ascending(S)[i] = CHOOSE n \in S : Rank(n) = i
    BY DEF Ascending
  <2>2. \E n \in S : Rank(n) = i
    BY <1>5
  <2> HIDE DEF Rank
  <2> QED BY <2>1, <2>2
<1>7. ASSUME NEW i \in 1 .. K, NEW j \in 1 .. K, i < j
      PROVE  Ascending(S)[i] < Ascending(S)[j]
  <2>1. PICK m \in S : m = Ascending(S)[i] /\ Rank(m) = i
    BY <1>6
  <2>2. PICK n \in S : n = Ascending(S)[j] /\ Rank(n) = j
    BY <1>6
  <2>3. m = n => i = j
    BY <2>1, <2>2
  <2>4. n < m => j < i
    BY <1>3, <2>1, <2>2
  <2> HIDE DEF Rank
  <2> QED BY <1>1, <1>7, <2>1, <2>2, <2>3, <2>4
<1>8. ASSUME NEW n \in S PROVE \E i \in 1 .. K : Ascending(S)[i] = n
  <2>1. Rank(n) \in 1 .. K
    BY <1>2
  <2>2. PICK m \in S : m = Ascending(S)[Rank(n)] /\ Rank(m) = Rank(n)
    BY <1>6, <2>1
  <2>3. Rank(n) \in Int
    BY <1>1, <2>1
  <2>4. (m < n => Rank(m) < Rank(n)) /\ (n < m => Rank(n) < Rank(m))
    BY <1>3
  <2> HIDE DEF Rank
  <2>5. m = n
    BY <2>2, <2>3, <2>4
  <2> QED BY <2>1, <2>2, <2>5
<1> QED BY <1>1, <1>6, <1>7, <1>8

\* The parts the server has of an upload are finitely many.
LEMMA StoredFinite ==
  ASSUME NEW u
  PROVE  Stored(u) \in SUBSET Nat /\ IsFiniteSet(Stored(u))
<1>1. Stored(u) \in SUBSET PartNumbers
  BY DEF Stored
<1>2. IsFiniteSet(PartNumbers)
  <2>1. 1 \in Int /\ MaxPart \in Int
    BY MaxPartAssumption
  <2> QED BY <2>1, FS_Interval, Zenon DEF PartNumbers
<1> QED BY <1>1, <1>2, FS_Subset, MaxPartAssumption DEF PartNumbers

\* A list of parts has what the server stores, lowest numbers first, up to the
\* length of a page.
LEMMA ListedParts ==
  ASSUME NEW u, Page \in Nat \ {0}
  PROVE  LET found == Listed(u)
             listed == {found[i].n : i \in DOMAIN found}
         IN  /\ DOMAIN found = 1 .. Len(found) /\ Len(found) \in Nat
             /\ \A i \in DOMAIN found :
                  /\ found[i].n \in Stored(u)
                  /\ found[i] = [n |-> found[i].n,
                                 etag |-> ServerEtag(stored[u][found[i].n])]
             /\ \A n \in Stored(u) \ listed :
                  Len(found) = Page /\ \A m \in listed : m < n
<1> DEFINE found == Listed(u)
           listed == {found[i].n : i \in DOMAIN found}
           A == Ascending(Stored(u))
           K == Cardinality(Stored(u))
           shown == IF Len(A) < Page THEN Len(A) ELSE Page
<1>1. K \in Nat /\ Len(A) = K
  BY StoredFinite, AscendingIsOrder DEF Ascending
<1>2. shown \in Nat /\ shown <= K
  BY <1>1
<1>3. found = [i \in 1 .. shown |-> [n |-> A[i], etag |-> ServerEtag(stored[u][A[i]])]]
  BY DEF Listed
<1>4. Len(found) = shown /\ DOMAIN found = 1 .. shown
  BY <1>2, <1>3
<1>5. /\ \A i \in 1 .. K : A[i] \in Stored(u)
      /\ \A i, j \in 1 .. K : i < j => A[i] < A[j]
      /\ \A n \in Stored(u) : \E i \in 1 .. K : A[i] = n
  BY StoredFinite, AscendingIsOrder
<1>6. \A i \in 1 .. shown : /\ found[i].n = A[i]
                            /\ found[i] = [n |-> A[i], etag |-> ServerEtag(stored[u][A[i]])]
  BY <1>3
<1>7. ASSUME NEW n \in Stored(u) \ listed
      PROVE  shown = Page /\ \A m \in listed : m < n
  <2>1. PICK j \in 1 .. K : A[j] = n
    BY <1>5
  <2>2. ~(j <= shown)
    <3>1. \A i \in 1 .. shown : A[i] \in listed
      BY <1>4, <1>6
    <3>2. j \notin 1 .. shown
      BY <1>7, <2>1, <3>1
    <3> QED BY <1>1, <1>2, <3>2
  <2>3. shown = Page
    BY <1>1, <2>2
  <2>4. \A i \in 1 .. shown : A[i] < n
    BY <1>1, <1>2, <1>5, <2>1, <2>2
  <2> QED BY <1>4, <1>6, <2>3, <2>4
<1>8. \A i \in 1 .. shown : A[i] \in Stored(u)
  BY <1>1, <1>2, <1>5
<1> HIDE DEF shown, A, K
<1>9. \A i \in DOMAIN found :
        /\ found[i].n \in Stored(u)
        /\ found[i] = [n |-> found[i].n, etag |-> ServerEtag(stored[u][found[i].n])]
  BY <1>4, <1>6, <1>8
<1> HIDE DEF found, listed
<1>10. DOMAIN found = 1 .. Len(found) /\ Len(found) \in Nat
  BY <1>2, <1>4
<1>11. \A n \in Stored(u) \ listed : Len(found) = Page /\ \A m \in listed : m < n
  BY <1>4, <1>7
<1> QED BY <1>9, <1>10, <1>11 DEF found, listed

\* An int of IntBits bits counts to a positive power of two.
LEMMA IntRange == 2^IntBits \in Nat \ {0}
<1> DEFINE B == 1 .. IntBits
<1>1. IsFiniteSet(B) /\ Cardinality(B) = IntBits
  BY IntBitsAssumption, FS_Interval
<1>2. IsFiniteSet(SUBSET B) /\ Cardinality(SUBSET B) = 2^IntBits
  BY <1>1, FS_SUBSET
<1>3. SUBSET B # {}
  OBVIOUS
<1> QED BY <1>2, <1>3, FS_CardinalityType, FS_EmptySet

\* Half of that is not more.
LEMMA IntHalf == 2^(IntBits - 1) \in Nat /\ 2^(IntBits - 1) <= 2^IntBits
<1> DEFINE A == 1 .. IntBits - 1
           B == 1 .. IntBits
<1>1. /\ IsFiniteSet(A) /\ Cardinality(A) = IntBits - 1
      /\ IsFiniteSet(B) /\ Cardinality(B) = IntBits
  BY IntBitsAssumption, FS_Interval
<1>2. /\ IsFiniteSet(SUBSET A) /\ Cardinality(SUBSET A) = 2^(IntBits - 1)
      /\ IsFiniteSet(SUBSET B) /\ Cardinality(SUBSET B) = 2^IntBits
  BY <1>1, FS_SUBSET
<1>3. SUBSET A \subseteq SUBSET B
  BY IntBitsAssumption
<1>4. Cardinality(SUBSET A) <= Cardinality(SUBSET B)
  BY <1>2, <1>3, FS_Subset
<1> QED BY <1>2, <1>4, FS_CardinalityType

\* What a conversion to int leaves is a number; one that fits is left alone.
LEMMA AsIntFits ==
  ASSUME NEW x \in Int
  PROVE  /\ AsInt(x) \in Int
         /\ 0 <= x /\ x < 2^(IntBits - 1) => AsInt(x) = x
<1> DEFINE M == 2^IntBits
           H == 2^(IntBits - 1)
<1>1. M \in Nat \ {0} /\ H \in Nat /\ H <= M
  BY IntRange, IntHalf
<1>2. AsInt(x) = IF x % M < H THEN x % M ELSE (x % M) - M
  BY DEF AsInt
<1> HIDE DEF M, H
<1>3. x % M \in Int /\ (0 <= x /\ x < M => x % M = x)
  BY <1>1
<1>4. AsInt(x) \in Int /\ (0 <= x /\ x < H => AsInt(x) = x)
  BY <1>1, <1>2, <1>3
<1> QED BY <1>4 DEF H

\* The number of parts is a number, in any language.
LEMMA NumPartsType ==
  ASSUME NEW lang, NEW sz \in Nat
  PROVE  NumParts(lang, sz) \in Int
<1>1. (sz + PartSize - 1) \div PartSize \in Int
  BY PartSizeAssumption
<1> QED BY <1>1, AsIntFits DEF NumParts

\* The beginning of a part.
LEMMA OffsetType ==
  ASSUME NEW n \in Nat, n >= 1
  PROVE  (n - 1) * PartSize \in Nat
BY PartSizeAssumption

\* A piece of a file is bytes.
LEMMA SliceType ==
  ASSUME NEW f \in Seq(Nat), NEW from \in Nat, NEW len \in Int
  PROVE  Slice(f, from, len) \in Seq(Nat)
<1> DEFINE to == IF from + len < Len(f) THEN from + len ELSE Len(f)
<1>1. Len(f) \in Nat /\ to \in Int /\ to <= Len(f)
  BY LenProperties
<1> HIDE DEF to
<1>2. \A i \in from + 1 .. to : f[i] \in Nat
  BY <1>1, ElementOfSeq
<1>3. SubSeq(f, from + 1, to) \in Seq(Nat)
  BY <1>1, <1>2, SubSeqProperties
<1> QED BY <1>3 DEF Slice, to

\* A whole piece of a file that has become shorter is a piece of the file.
LEMMA SliceOfShrunk ==
  ASSUME NEW f \in Seq(Nat), NEW g \in Seq(Nat), Len(f) <= Len(g),
         \A i \in 1 .. Len(f) : f[i] = g[i],
         NEW from \in Nat, NEW len \in Int, Len(Slice(f, from, len)) = len
  PROVE  Slice(f, from, len) = Slice(g, from, len)
<1> DEFINE to(h) == IF from + len < Len(h) THEN from + len ELSE Len(h)
<1>1. Len(f) \in Nat /\ Len(g) \in Nat
  BY LenProperties
<1>2. \A h \in Seq(Nat) :
        Slice(h, from, len) = [i \in 1 .. to(h) - from |-> h[i + from]]
  BY LenProperties DEF Slice
<1>3. Len(Slice(f, from, len)) = IF to(f) < from THEN 0 ELSE to(f) - from
  BY <1>1, <1>2
<1>4. len >= 0
  BY <1>1, <1>3
<1>5. CASE len = 0
  BY <1>1, <1>2, <1>5
<1>6. CASE len > 0
  <2>1. to(f) = from + len /\ to(g) = from + len
    BY <1>1, <1>3, <1>6
  <2>2. /\ Slice(f, from, len) = [i \in 1 .. len |-> f[i + from]]
        /\ Slice(g, from, len) = [i \in 1 .. len |-> g[i + from]]
    <3>1. to(f) - from = len /\ to(g) - from = len
      BY <2>1
    <3> HIDE DEF to
    <3> QED BY <1>2, <3>1
  <2>3. from + len <= Len(f)
    BY <1>1, <2>1
  <2>4. \A i \in 1 .. len : f[i + from] = g[i + from]
    <3>1. ASSUME NEW i \in 1 .. len PROVE i + from \in 1 .. Len(f)
      <4>1. i + from >= 1 /\ i + from <= from + len /\ i + from \in Int
        OBVIOUS
      <4> QED BY <1>1, <2>3, <4>1
    <3> QED BY <3>1
  <2> QED BY <2>2, <2>4
<1> QED BY <1>4, <1>5, <1>6

----------------------------------------------------------------------------
(* The command lines, and the uploads of a part.                           *)

\* What the command lines and the main functions can be.
LEMMA CommandLine ==
  ASSUME TypeOK, NEW p \in Proc
  PROVE  /\ Job[p].lang \in Lang /\ Job[p].action \in Action
         /\ InitFile[p] \in Seq(Nat) /\ Page \in Nat \ {0}
         /\ Main(p).part \in Int
         /\ Job[p].action = "all" /\ Job[p].lang = "go" => Main(p).part = 0
         /\ Job[p].lang = "c" => Main(p).part = Job[p].part
         /\ "upload" \in Main(p).abortsOn
         /\ "complete" \notin Main(p).abortsOn <=> Job[p].lang \in {"c", "go"}
<1>1. world \in World
  BY WorldsAssumption DEF TypeOK
<1>2. /\ Job[p] \in [lang : Lang, action : Action, part : Int]
      /\ InitFile[p] \in Seq(Nat) /\ Page \in Nat \ {0}
  BY <1>1 DEF World, Job, InitFile, Page
<1>3. \/ Job[p].lang = "c" /\ Main(p) = CMain(Job[p])
      \/ Job[p].lang = "go" /\ Main(p) = GoMain(Job[p])
      \/ Job[p].lang = "java" /\ Main(p) = JavaMain(Job[p])
      \/ Job[p].lang = "python" /\ Main(p) = PythonMain(Job[p])
  BY <1>2 DEF Main, Lang
<1> QED BY <1>2, <1>3 DEF CMain, GoMain, JavaMain, PythonMain

\* An `all' in C or Go.
Strict(p) == Job[p].action = "all" /\ Job[p].lang \in {"c", "go"}

\* One UploadPart of a program, its last attempt.
Uploads1(p, data, etag) ==
  /\ pc[p] \in {"part", "send"} /\ UploadPart(p, data, etag)
  /\ data \in Seq(Nat) /\ etag \in Etag
  /\ Undisturbed /\ Strict(p) => data = PlannedPart(p, next[p])

\* The programs cut their parts from the file, and C and Go check that they
\* have got all of it.
LEMMA PartRead ==
  ASSUME MInv, NEW p \in Proc, pc[p] \in {"part", "send"}
  PROVE  /\ PartOf(p, file[p]) \in Seq(Nat)
         /\ \A f \in Seq(Nat) : Slice(f, (next[p] - 1) * PartSize, PartSize) \in Seq(Nat)
         /\ Len(PartOf(p, file[p])) = PartLen(size[p], next[p]) =>
              PartOf(p, file[p]) = PlannedPart(p, next[p])
<1>0. TypeOK /\ Shrunk(p) /\ Control(p)
  BY DEF MInv
<1>1. /\ next[p] \in Nat /\ next[p] >= 1 /\ size[p] \in Nat /\ file[p] \in Seq(Nat)
      /\ Shrunk(p) /\ InitFile[p] \in Seq(Nat)
  BY <1>0, CommandLine DEF TypeOK, Control
<1>2. (next[p] - 1) * PartSize \in Nat
  BY <1>1, OffsetType
<1>3. PartLen(size[p], next[p]) \in Int /\ PartSize \in Int
  BY <1>1, <1>2, PartSizeAssumption DEF PartLen
<1>4. /\ PartOf(p, file[p]) \in Seq(Nat)
      /\ \A f \in Seq(Nat) : Slice(f, (next[p] - 1) * PartSize, PartSize) \in Seq(Nat)
  BY <1>1, <1>2, <1>3, SliceType DEF PartOf
<1>5. ASSUME Len(PartOf(p, file[p])) = PartLen(size[p], next[p])
      PROVE  PartOf(p, file[p]) = PlannedPart(p, next[p])
  BY <1>1, <1>2, <1>3, <1>5, SliceOfShrunk DEF PartOf, PlannedPart, Shrunk
<1> QED BY <1>4, <1>5

LEMMA UploadStep ==
  ASSUME MInv, NEW p \in Proc,
         CUploadPart(p) \/ GoUploadPart(p) \/ JavaUploadPart(p) \/ PythonUploadPart(p)
  PROVE  \/ \E data, etag : Uploads1(p, data, etag)
         \/ pc[p] = "part" /\ ReadFails(p)
<1>0. /\ bytes[p] \in Seq(Nat) /\ file[p] \in Seq(Nat)
      /\ next[p] \in Nat /\ Control(p) /\ (Undisturbed => Uploading(p))
  BY DEF MInv, TypeOK
<1>1. \A data \in Seq(Nat) : ServerEtag(data) \in Etag
  BY DEF ServerEtag, Etag
<1>2. MadeEtag(next[p]) \in Etag
  <2>1. <<next[p]>> \in Seq(Nat)
    BY <1>0
  <2> QED BY <2>1 DEF MadeEtag, Etag
<1>3. CASE CUploadPart(p)
  BY <1>2, <1>3, PartRead DEF CUploadPart, Uploads1
<1>4. CASE GoUploadPart(p)
  <2>1. Undisturbed /\ Strict(p) => bytes[p] = PlannedPart(p, next[p])
    BY <1>0, <1>4 DEF GoUploadPart, Uploading, Strict
  <2> QED BY <1>0, <1>1, <1>4, <2>1 DEF GoUploadPart, Uploads1
<1>5. CASE JavaUploadPart(p)
  <2> DEFINE offset == AsInt((next[p] - 1) * PartSize)
             rest   == AsInt(Len(bytes[p]) - offset)
             len    == AsInt(IF PartSize < rest THEN PartSize ELSE rest)
  <2>1. /\ pc[p] = "part" /\ Job[p].lang = "java"
        /\ \/ offset >= 0 /\ UploadPart(p, Slice(bytes[p], offset, len), MadeEtag(next[p]))
           \/ ReadFails(p)
    BY <1>5 DEF JavaUploadPart
  <2>2. offset \in Int /\ len \in Int
    <3>1. (next[p] - 1) * PartSize \in Int /\ Len(bytes[p]) \in Int
      BY <1>0, <2>1, OffsetType, LenProperties DEF Control
    <3>2. offset \in Int
      BY <3>1, AsIntFits
    <3>3. rest \in Int
      BY <3>1, <3>2, AsIntFits
    <3>4. len \in Int
      <4> HIDE DEF rest
      <4> QED BY <3>3, AsIntFits, PartSizeAssumption
    <3> QED BY <3>2, <3>4
  <2> HIDE DEF offset, len
  <2>3. ASSUME offset >= 0 PROVE Slice(bytes[p], offset, len) \in Seq(Nat)
    <3>1. offset \in Nat
      BY <2>2, <2>3
    <3> QED BY <1>0, <2>2, <3>1, SliceType
  <2> QED BY <1>2, <2>1, <2>3 DEF Uploads1, Strict
<1>6. CASE PythonUploadPart(p)
  BY <1>0, <1>2, <1>6, PartRead DEF PythonUploadPart, Uploads1, Strict
<1> QED BY <1>3, <1>4, <1>5, <1>6

----------------------------------------------------------------------------
(* A step of a process, and the other processes.                           *)

Pcs == {"start", "plan", "read", "part", "send", "list", "complete", "abort", "exit"}
Outcomes == {"none", "ok", "failed", "killed"}

\* The process goes to another step, and may report.
LEMMA Moves ==
  ASSUME TypeOK, NEW p \in Proc, Step(p) \/ Killed(p) \/ Truncate(p)
  PROVE  /\ \E s \in Pcs : pc' = [pc EXCEPT ![p] = s]
         /\ \E s \in Outcomes : result' = [result EXCEPT ![p] = s]
<1>0. pc \in [Proc -> Pcs] /\ result \in [Proc -> Outcomes]
  BY DEF TypeOK, Pcs, Outcomes
<1>1. /\ pc' = pc => \E s \in Pcs : pc' = [pc EXCEPT ![p] = s]
      /\ result' = result => \E s \in Outcomes : result' = [result EXCEPT ![p] = s]
  BY <1>0
<1>2. /\ \A s \in Pcs : Goto(p, s) => \E r \in Pcs : pc' = [pc EXCEPT ![p] = r]
      /\ \A o \in Outcomes :
           Exit(p, o) => /\ \E r \in Pcs : pc' = [pc EXCEPT ![p] = r]
                         /\ \E r \in Outcomes : result' = [result EXCEPT ![p] = r]
  BY DEF Goto, Exit, Pcs
<1>3. \/ pc' = pc
      \/ \E s \in Pcs : Goto(p, s)
      \/ \E o \in Outcomes : Exit(p, o)
  BY DEF Pcs, Outcomes, GiveUp, PartsDone, Step, CreateMultipart, TakeUploadId, PlanParts,
     ReadAllBytes, CUploadPart, GoMapPart, GoRetryPart, GoUploadPart, JavaUploadPart,
     PythonUploadPart, ListParts, ListUploads, CompleteMultipart, AbortMultipart, Killed,
     Truncate, UploadPart, ReadFails, procVars
<1>4. \/ result' = result
      \/ \E o \in Outcomes : Exit(p, o)
  BY DEF Outcomes, GiveUp, PartsDone, Step, CreateMultipart, TakeUploadId, PlanParts,
     ReadAllBytes, CUploadPart, GoMapPart, GoRetryPart, GoUploadPart, JavaUploadPart,
     PythonUploadPart, ListParts, ListUploads, CompleteMultipart, AbortMultipart, Killed,
     Truncate, UploadPart, ReadFails, procVars
<1> QED BY <1>1, <1>2, <1>3, <1>4

\* All that belongs to a process.
Own(q) ==
  <<pc[q], uid[q], file[q], size[q], bytes[q], next[q], last[q], tries[q], parts[q],
    result[q], aborted[q], due[q]>>

\* No process touches what belongs to another.
LEMMA OthersStay ==
  ASSUME TypeOK, NEW p \in Proc, Step(p) \/ Killed(p) \/ Truncate(p),
         NEW q \in Proc, q # p
  PROVE  UNCHANGED Own(q)
<1>0. /\ uid \in [Proc -> Proc \cup {None}] /\ file \in [Proc -> Seq(Nat)]
      /\ bytes \in [Proc -> Seq(Nat)] /\ size \in [Proc -> Nat]
      /\ next \in [Proc -> Nat] /\ last \in [Proc -> Nat]
      /\ tries \in [Proc -> 0 .. MaxRetries]
      /\ parts \in [Proc -> Seq([n : PartNumbers, etag : Etag])]
      /\ due \in [Proc -> SUBSET PartNumbers]
  BY DEF TypeOK
<1>1. pc'[q] = pc[q] /\ result'[q] = result[q]
  BY Moves DEF TypeOK
<1>2. aborted'[q] = aborted[q]
  <2>1. aborted' = aborted \/ aborted' = [aborted EXCEPT ![p] = TRUE]
    BY DEF Step, CreateMultipart, TakeUploadId, PlanParts, ReadAllBytes, CUploadPart,
       GoMapPart, GoRetryPart, GoUploadPart, JavaUploadPart, PythonUploadPart, ListParts,
       ListUploads, CompleteMultipart, AbortMultipart, Killed, Truncate, UploadPart,
       ReadFails, procVars
  <2>2. aborted \in [Proc -> BOOLEAN]
    BY DEF TypeOK
  <2> QED BY <2>1, <2>2
<1>3. /\ uid'[q] = uid[q] /\ file'[q] = file[q] /\ size'[q] = size[q]
      /\ bytes'[q] = bytes[q] /\ next'[q] = next[q] /\ last'[q] = last[q]
      /\ tries'[q] = tries[q] /\ parts'[q] = parts[q] /\ due'[q] = due[q]
  <2>1. CASE CreateMultipart(p) \/ TakeUploadId(p)
    BY <1>0, <2>1 DEF CreateMultipart, TakeUploadId
  <2>2. CASE PlanParts(p) \/ ReadAllBytes(p)
    BY <1>0, <2>2 DEF PlanParts, ReadAllBytes
  <2>3. ASSUME NEW data, NEW etag, UploadPart(p, data, etag)
        PROVE  <1>3!:
    BY <1>0, <2>3 DEF UploadPart
  <2>4. CASE ReadFails(p)
    BY <2>4 DEF ReadFails
  <2>5. CASE \/ CUploadPart(p) \/ GoUploadPart(p) \/ JavaUploadPart(p)
             \/ PythonUploadPart(p)
    BY <2>3, <2>4, <2>5 DEF CUploadPart, GoUploadPart, JavaUploadPart, PythonUploadPart
  <2>6. CASE GoMapPart(p) \/ GoRetryPart(p)
    BY <1>0, <2>4, <2>6 DEF GoMapPart, GoRetryPart
  <2>7. CASE ListParts(p) \/ ListUploads(p) \/ CompleteMultipart(p) \/ AbortMultipart(p)
    BY <1>0, <2>7 DEF ListParts, ListUploads, CompleteMultipart, AbortMultipart
  <2>8. CASE Killed(p) \/ Truncate(p)
    BY <1>0, <2>8 DEF Killed, Truncate, procVars
  <2> QED BY <2>1, <2>2, <2>5, <2>6, <2>7, <2>8 DEF Step
<1> QED BY <1>1, <1>2, <1>3, Zenon DEF Own

----------------------------------------------------------------------------
(* Types.                                                                  *)

LEMMA StepTypes ==
  ASSUME MInv, NEW p \in Proc, Step(p) \/ Killed(p) \/ Truncate(p), world' = world
  PROVE  TypeOK'
<1>0. TypeOK /\ Control(p)
  BY DEF MInv
<1>a. /\ pc' \in [Proc -> Pcs] /\ result' \in [Proc -> Outcomes]
      /\ TypeOK /\ Control(p) /\ world' = world
  <2>1. pc \in [Proc -> Pcs] /\ result \in [Proc -> Outcomes]
    BY <1>0 DEF TypeOK, Pcs, Outcomes
  <2> QED BY <1>0, <2>1, Moves
<1>b. /\ uid \in [Proc -> Proc \cup {None}] /\ size \in [Proc -> Nat]
      /\ next \in [Proc -> Nat] /\ last \in [Proc -> Nat]
      /\ tries \in [Proc -> 0 .. MaxRetries]
  BY <1>0 DEF TypeOK
<1>c. file \in [Proc -> Seq(Nat)] /\ bytes \in [Proc -> Seq(Nat)]
  BY <1>0 DEF TypeOK
<1>d. parts \in [Proc -> Seq([n : PartNumbers, etag : Etag])]
  BY <1>0 DEF TypeOK
<1>e. due \in [Proc -> SUBSET PartNumbers] /\ acked \in [Proc -> SUBSET PartNumbers]
  BY <1>0 DEF TypeOK
<1>f. /\ state \in [Proc -> {"none", "open", "completed", "aborted"}]
      /\ content \in [Proc -> Seq(Seq(Nat)) \cup {None}]
  BY <1>0 DEF TypeOK
<1>g. stored \in [Proc -> [PartNumbers -> Seq(Nat) \cup {None}]]
  BY <1>0 DEF TypeOK
<1>h. late \subseteq [u : Proc, n : PartNumbers, data : Seq(Nat)]
  BY <1>0 DEF TypeOK
<1> USE DEF Pcs, Outcomes, serverVars
<1>1. CASE CreateMultipart(p)
  <2>1. Len(file[p]) \in Nat
    BY <1>c, LenProperties
  <2>2. /\ size' = [size EXCEPT ![p] = Len(file[p])]
        /\ uid' = uid \/ uid' = [uid EXCEPT ![p] = p]
        /\ state' = state \/ state' = [state EXCEPT ![p] = "open"]
        /\ UNCHANGED <<file, bytes, next, last, tries, parts, aborted, due, stored, content,
                       late, acked>>
    BY <1>1 DEF CreateMultipart
  <2>3. /\ size' \in [Proc -> Nat] /\ uid' \in [Proc -> Proc \cup {None}]
        /\ state' \in [Proc -> {"none", "open", "completed", "aborted"}]
    BY <1>b, <1>f, <2>1, <2>2
  <2> QED BY <1>a, <2>2, <2>3 DEF TypeOK
<1>2. CASE TakeUploadId(p)
  <2>1. Len(file[p]) \in Nat
    BY <1>c, LenProperties
  <2>2. /\ size' = [size EXCEPT ![p] = Len(file[p])]
        /\ \E u \in Proc : uid' = [uid EXCEPT ![p] = u]
        /\ UNCHANGED <<file, bytes, next, last, tries, parts, aborted, due, serverVars, acked>>
    BY <1>2 DEF TakeUploadId
  <2>3. uid' \in [Proc -> Proc \cup {None}] /\ size' \in [Proc -> Nat]
    BY <1>b, <2>1, <2>2
  <2> QED BY <1>a, <2>2, <2>3 DEF TypeOK
<1>3. CASE PlanParts(p)
  <2> DEFINE sz == IF Main(p).statFirst THEN size[p] ELSE Len(file[p])
             only == Main(p).part
             count == NumParts(Job[p].lang, sz)
  <2>1. sz \in Nat
    BY <1>b, <1>c, LenProperties
  <2>2. count \in Int /\ only \in Int
    BY <1>0, <2>1, NumPartsType, CommandLine
  <2>3. \/ UNCHANGED <<size, next, last>>
        \/ /\ 0 <= only /\ only <= count
           /\ size' = [size EXCEPT ![p] = sz]
           /\ next' = [next EXCEPT ![p] = FirstPart(only)]
           /\ last' = [last EXCEPT ![p] = IF only > 0 THEN only ELSE count]
    BY <1>3 DEF PlanParts
  <2> HIDE DEF sz, only, count
  <2>4. size' \in [Proc -> Nat] /\ next' \in [Proc -> Nat] /\ last' \in [Proc -> Nat]
    <3>1. FirstPart(only) \in Nat
      BY <2>2 DEF FirstPart
    <3> QED BY <1>b, <2>1, <2>2, <2>3, <3>1
  <2>7. UNCHANGED <<uid, file, bytes, tries, parts, aborted, due, serverVars, acked>>
    BY <1>3 DEF PlanParts
  <2> QED BY <1>a, <2>4, <2>7 DEF TypeOK
<1>4. CASE ReadAllBytes(p)
  <2>1. bytes' = bytes \/ bytes' = [bytes EXCEPT ![p] = file[p]]
    BY <1>4 DEF ReadAllBytes
  <2>2. bytes' \in [Proc -> Seq(Nat)]
    BY <1>c, <2>1
  <2>3. UNCHANGED <<uid, file, size, next, last, tries, parts, aborted, due, serverVars, acked>>
    BY <1>4 DEF ReadAllBytes
  <2> QED BY <1>a, <2>2, <2>3 DEF TypeOK
<1>5. CASE \E data, etag : Uploads1(p, data, etag)
  <2>1. PICK data, etag : Uploads1(p, data, etag)
    BY <1>5
  <2>2. uid[p] \in Proc /\ next[p] \in Nat /\ data \in Seq(Nat)
    BY <1>a, <1>b, <2>1 DEF Uploads1, Control
  <2>3. \/ stored' = stored
        \/ next[p] \in PartNumbers /\ stored' = [stored EXCEPT ![uid[p]][next[p]] = data]
    BY <2>1 DEF Uploads1, UploadPart, PartUncertain, Store
  <2>4. stored' \in [Proc -> [PartNumbers -> Seq(Nat) \cup {None}]]
    <3> DEFINE new == [stored[uid[p]] EXCEPT ![next[p]] = data]
    <3>1. new \in [PartNumbers -> Seq(Nat) \cup {None}]
      BY <1>g, <2>2
    <3>2. stored' = stored \/ stored' = [stored EXCEPT ![uid[p]] = new]
      BY <2>3
    <3> HIDE DEF new
    <3> QED BY <1>g, <2>2, <3>1, <3>2
  <2>5. \/ late' = late
        \/ /\ next[p] \in PartNumbers
           /\ late' = late \cup {[u |-> uid[p], n |-> next[p], data |-> data]}
    BY <2>1 DEF Uploads1, UploadPart, PartUncertain
  <2>6. late' \subseteq [u : Proc, n : PartNumbers, data : Seq(Nat)]
    BY <1>h, <2>1, <2>2, <2>5 DEF Uploads1
  <2>7. \/ parts' = parts /\ acked' = acked /\ next' = next
        \/ /\ next[p] \in PartNumbers
           /\ parts' = [parts EXCEPT ![p] = Append(@, [n |-> next[p], etag |-> etag])]
           /\ acked' = [acked EXCEPT ![uid[p]] = @ \cup {next[p]}]
           /\ next' = next \/ next' = [next EXCEPT ![p] = next[p] + 1]
    BY <2>1 DEF Uploads1, UploadPart, Store
  <2>8. parts' \in [Proc -> Seq([n : PartNumbers, etag : Etag])]
    <3>1. next[p] \in PartNumbers =>
            [n |-> next[p], etag |-> etag] \in [n : PartNumbers, etag : Etag]
      BY <2>1 DEF Uploads1
    <3>2. next[p] \in PartNumbers =>
            Append(parts[p], [n |-> next[p], etag |-> etag])
              \in Seq([n : PartNumbers, etag : Etag])
      BY <1>d, <3>1, AppendProperties
    <3> QED BY <1>d, <2>7, <3>2
  <2>9. acked' \in [Proc -> SUBSET PartNumbers] /\ next' \in [Proc -> Nat]
    <3>1. \/ acked' = acked
          \/ /\ next[p] \in PartNumbers
             /\ acked' = [acked EXCEPT ![uid[p]] = @ \cup {next[p]}]
      BY <2>7
    <3>2. acked' \in [Proc -> SUBSET PartNumbers]
      BY <1>e, <2>2, <3>1
    <3>3. next' = next \/ next' = [next EXCEPT ![p] = next[p] + 1]
      BY <2>7
    <3>4. next' \in [Proc -> Nat]
      <4>1. next \in [Proc -> Nat] /\ next[p] + 1 \in Nat
        BY <1>b
      <4> QED BY <3>3, <4>1
    <3> QED BY <3>2, <3>4
  <2>12. /\ tries' = [tries EXCEPT ![p] = 0]
         /\ UNCHANGED <<uid, file, size, bytes, last, aborted, due, state, content>>
    BY <2>1 DEF Uploads1, UploadPart
  <2>13. tries' \in [Proc -> 0 .. MaxRetries]
    BY <1>b, <2>12, MaxRetriesAssumption
  <2> QED BY <1>a, <2>4, <2>6, <2>8, <2>9, <2>12, <2>13 DEF TypeOK
<1>6. CASE ReadFails(p)
  BY <1>a, <1>6 DEF ReadFails, TypeOK
<1>7. CASE GoMapPart(p) /\ ~ReadFails(p)
  <2>1. PartOf(p, file[p]) \in Seq(Nat)
    BY <1>7, PartRead DEF GoMapPart
  <2>2. bytes' = [bytes EXCEPT ![p] = PartOf(p, file[p])]
        /\ UNCHANGED <<uid, file, size, next, last, tries, parts, aborted, due, serverVars, acked>>
    BY <1>7 DEF GoMapPart
  <2>3. bytes' \in [Proc -> Seq(Nat)]
    BY <1>c, <2>1, <2>2
  <2> QED BY <1>a, <2>2, <2>3 DEF TypeOK
<1>8. CASE GoRetryPart(p)
  <2>2. uid[p] \in Proc /\ next[p] \in Nat /\ bytes[p] \in Seq(Nat)
    BY <1>a, <1>b, <1>c, <1>8 DEF GoRetryPart, Control
  <2>3. \/ stored' = stored
        \/ next[p] \in PartNumbers /\ stored' = [stored EXCEPT ![uid[p]][next[p]] = bytes[p]]
    BY <1>8 DEF GoRetryPart, PartUncertain, Store
  <2>4. stored' \in [Proc -> [PartNumbers -> Seq(Nat) \cup {None}]]
    BY <1>g, <2>2, <2>3
  <2>5. \/ late' = late
        \/ /\ next[p] \in PartNumbers
           /\ late' = late \cup {[u |-> uid[p], n |-> next[p], data |-> bytes[p]]}
    BY <1>8 DEF GoRetryPart, PartUncertain
  <2>6. late' \subseteq [u : Proc, n : PartNumbers, data : Seq(Nat)]
    BY <1>h, <2>2, <2>5
  <2>7. tries' \in [Proc -> 0 .. MaxRetries]
    BY <1>b, <1>8, MaxRetriesAssumption DEF GoRetryPart
  <2>8. UNCHANGED <<uid, file, size, bytes, next, last, parts, aborted, due, state, content,
                    acked>>
    BY <1>8 DEF GoRetryPart
  <2> QED BY <1>a, <2>4, <2>6, <2>7, <2>8 DEF TypeOK
<1>9. CASE ListParts(p)
  <2>1. uid[p] \in Proc
    BY <1>a, <1>9 DEF ListParts, Does, Control
  <2>2. Listed(uid[p]) \in Seq([n : PartNumbers, etag : Etag])
    <3>1. Page \in Nat \ {0}
      BY <1>0, CommandLine
    <3> DEFINE found == Listed(uid[p])
    <3>2. DOMAIN found = 1 .. Len(found) /\ Len(found) \in Nat
      BY <3>1, ListedParts
    <3>3. ASSUME NEW i \in DOMAIN found PROVE found[i] \in [n : PartNumbers, etag : Etag]
      <4>1. /\ found[i].n \in Stored(uid[p])
            /\ found[i] = [n |-> found[i].n,
                           etag |-> ServerEtag(stored[uid[p]][found[i].n])]
        BY <3>1, ListedParts
      <4>2. found[i].n \in PartNumbers /\ stored[uid[p]][found[i].n] \in Seq(Nat)
        BY <1>g, <2>1, <4>1 DEF Stored
      <4>3. ServerEtag(stored[uid[p]][found[i].n]) \in Etag
        BY <4>2 DEF ServerEtag, Etag
      <4> QED BY <4>1, <4>2, <4>3
    <3>4. found = [i \in 1 .. Len(found) |-> found[i]]
      BY <3>2 DEF Listed
    <3> HIDE DEF found
    <3>5. \A i \in 1 .. Len(found) : found[i] \in [n : PartNumbers, etag : Etag]
      BY <3>2, <3>3
    <3>6. \A R, k : k \in Nat /\ found \in [1 .. k -> R] => found \in Seq(R)
      OBVIOUS
    <3>7. found \in [1 .. Len(found) -> [n : PartNumbers, etag : Etag]]
      BY <3>4, <3>5
    <3>8. found \in Seq([n : PartNumbers, etag : Etag])
      BY <3>2, <3>6, <3>7
    <3> QED BY <3>8 DEF found
  <2>3. due' \in [Proc -> SUBSET PartNumbers]
    BY <1>e, <1>9, <2>1 DEF ListParts
  <2>4. parts' \in [Proc -> Seq([n : PartNumbers, etag : Etag])]
    <3>1. parts' = parts \/ parts' = [parts EXCEPT ![p] = Listed(uid[p])]
      BY <1>9 DEF ListParts
    <3> QED BY <1>d, <2>2, <3>1
  <2>7. UNCHANGED <<uid, file, size, bytes, next, last, tries, aborted, serverVars, acked>>
    BY <1>9 DEF ListParts
  <2> QED BY <1>a, <2>3, <2>4, <2>7 DEF TypeOK
<1>10. CASE ListUploads(p)
  BY <1>a, <1>10 DEF ListUploads, TypeOK
<1>11. CASE CompleteMultipart(p)
  <2>1. uid[p] \in Proc
    BY <1>a, <1>11 DEF CompleteMultipart, Does, Control
  <2>2. content' \in [Proc -> Seq(Seq(Nat)) \cup {None}]
    <3>1. CASE content' = content
      BY <1>f, <3>1
    <3>2. CASE content' # content
      <4> DEFINE all == [i \in DOMAIN parts[p] |-> stored[uid[p]][parts[p][i].n]]
      <4>1. Acceptable(uid[p], parts[p]) /\ content' = [content EXCEPT ![uid[p]] = all]
        BY <1>11, <3>2 DEF CompleteMultipart
      <4>2. parts[p] \in Seq([n : PartNumbers, etag : Etag])
        BY <1>d
      <4>3. Len(parts[p]) \in Nat /\ DOMAIN parts[p] = 1 .. Len(parts[p])
        BY <4>2, LenProperties
      <4>4. \A i \in DOMAIN parts[p] : stored[uid[p]][parts[p][i].n] \in Seq(Nat)
        <5> SUFFICES ASSUME NEW i \in DOMAIN parts[p]
                     PROVE  stored[uid[p]][parts[p][i].n] \in Seq(Nat)
          OBVIOUS
        <5>1. parts[p][i] \in [n : PartNumbers, etag : Etag]
          BY <4>2, <4>3, ElementOfSeq
        <5>2. stored[uid[p]][parts[p][i].n] # None
          BY <4>1 DEF Acceptable
        <5> QED BY <1>g, <2>1, <5>1, <5>2
      <4>5. all \in Seq(Seq(Nat))
        BY <4>3, <4>4
      <4> HIDE DEF all
      <4> QED BY <1>f, <2>1, <4>1, <4>5
    <3> QED BY <3>1, <3>2
  <2>3. state' = state \/ state' = [state EXCEPT ![uid[p]] = "completed"]
    BY <1>11 DEF CompleteMultipart
  <2>6. UNCHANGED <<uid, file, size, bytes, next, last, tries, parts, aborted, due, stored,
                    late, acked>>
    BY <1>11 DEF CompleteMultipart
  <2>4. state' \in [Proc -> {"none", "open", "completed", "aborted"}]
    BY <1>f, <2>3
  <2> QED BY <1>a, <2>2, <2>4, <2>6 DEF TypeOK
<1>12. CASE AbortMultipart(p)
  <2>1. state' = state \/ state' = [state EXCEPT ![uid[p]] = "aborted"]
    BY <1>12 DEF AbortMultipart
  <2>2. aborted' = [aborted EXCEPT ![p] = TRUE] /\ aborted \in [Proc -> BOOLEAN]
    BY <1>0, <1>12 DEF AbortMultipart, TypeOK
  <2>3. /\ state' \in [Proc -> {"none", "open", "completed", "aborted"}]
        /\ aborted' \in [Proc -> BOOLEAN]
    BY <1>f, <2>1, <2>2
  <2>4. UNCHANGED <<uid, file, size, bytes, next, last, tries, parts, due, stored, content,
                    late, acked>>
    BY <1>12 DEF AbortMultipart
  <2> QED BY <1>a, <2>3, <2>4 DEF TypeOK
<1>13. CASE Killed(p)
  BY <1>a, <1>13 DEF Killed, TypeOK
<1>14. CASE Truncate(p)
  <2>1. file[p] \in Seq(Nat) /\ file[p] # << >>
    BY <1>c, <1>14 DEF Truncate
  <2>2. Front(file[p]) \in Seq(Nat)
    <3>1. Len(file[p]) \in Nat /\ \A i \in 1 .. Len(file[p]) - 1 : file[p][i] \in Nat
      BY <2>1, LenProperties, ElementOfSeq
    <3>2. SubSeq(file[p], 1, Len(file[p]) - 1) \in Seq(Nat)
      BY <3>1, SubSeqProperties
    <3> QED BY <3>2 DEF Front
  <2>3. file' \in [Proc -> Seq(Nat)]
    BY <1>c, <1>14, <2>2 DEF Truncate
  <2> QED BY <1>a, <1>14, <2>3 DEF Truncate, procVars, TypeOK
<1> QED BY <1>1, <1>2, <1>3, <1>4, <1>5, <1>6, <1>7, <1>8, <1>9, <1>10, <1>11, <1>12,
           <1>13, <1>14, UploadStep DEF Step

----------------------------------------------------------------------------
(* What a step does to the server's uploads.                               *)

Idle == UNCHANGED <<state, stored, content, late, acked>>

Opens(p) ==
  /\ pc[p] = "start" /\ state' = [state EXCEPT ![p] = "open"]
  /\ UNCHANGED <<stored, content, late, acked>>

\* Data of p's part is stored, now or later, and may be confirmed.
Writes(p, data) ==
  /\ pc[p] \in {"part", "send"} /\ data \in Seq(Nat)
  /\ Undisturbed /\ Strict(p) => data = PlannedPart(p, next[p])
  /\ Store(uid[p], next[p], data) \/ UNCHANGED stored
  /\ \/ late' = late
     \/ /\ next[p] \in PartNumbers
        /\ late' = late \cup {[u |-> uid[p], n |-> next[p], data |-> data]}
  /\ \/ acked' = acked
     \/ /\ Store(uid[p], next[p], data)
        /\ acked' = [acked EXCEPT ![uid[p]] = @ \cup {next[p]}]
  /\ UNCHANGED <<state, content>>

Completes(p) ==
  LET u == uid[p] IN
  /\ pc[p] = "complete" /\ state[u] = "open" /\ Acceptable(u, parts[p])
  /\ state' = [state EXCEPT ![u] = "completed"]
  /\ content' = [content EXCEPT ![u] =
                   [i \in DOMAIN parts[p] |-> stored[u][parts[p][i].n]]]
  /\ UNCHANGED <<stored, late, acked>>

Aborts(p) ==
  /\ pc[p] = "abort" /\ state[uid[p]] = "open"
  /\ state' = [state EXCEPT ![uid[p]] = "aborted"]
  /\ UNCHANGED <<stored, content, late, acked>>

LEMMA ServerStep ==
  ASSUME MInv, NEW p \in Proc, Step(p) \/ Killed(p) \/ Truncate(p)
  PROVE  \/ Idle \/ Opens(p) \/ Completes(p) \/ Aborts(p)
         \/ \E data : Writes(p, data)
<1>1. CASE CreateMultipart(p)
  BY <1>1 DEF CreateMultipart, Does, Idle, Opens
<1>2. CASE \E data, etag : Uploads1(p, data, etag)
  BY <1>2 DEF Uploads1, UploadPart, PartUncertain, Writes
<1>3. CASE ReadFails(p)
  BY <1>3 DEF ReadFails, Idle, serverVars
<1>4. CASE GoRetryPart(p)
  <2>1. bytes[p] \in Seq(Nat) /\ (Undisturbed => Uploading(p))
    BY DEF MInv, TypeOK
  <2>2. Undisturbed /\ Strict(p) => bytes[p] = PlannedPart(p, next[p])
    BY <1>4, <2>1 DEF GoRetryPart, Uploading, Strict
  <2>3. Writes(p, bytes[p])
    BY <1>4, <2>1, <2>2 DEF GoRetryPart, PartUncertain, Writes
  <2> QED BY <2>3
<1>5. CASE CompleteMultipart(p)
  BY <1>5 DEF CompleteMultipart, Does, Idle, Completes
<1>6. CASE AbortMultipart(p)
  BY <1>6 DEF AbortMultipart, Does, Idle, Aborts
<1>7. CASE \/ TakeUploadId(p) \/ PlanParts(p) \/ ReadAllBytes(p) \/ GoMapPart(p)
           \/ ListParts(p) \/ ListUploads(p) \/ Killed(p) \/ Truncate(p)
  BY <1>7 DEF TakeUploadId, PlanParts, ReadAllBytes, GoMapPart, ReadFails, ListParts,
              ListUploads, Killed, Truncate, serverVars, Idle
<1> QED BY <1>1, <1>2, <1>3, <1>4, <1>5, <1>6, <1>7, UploadStep DEF Step

\* An upload is created once, and what has become of it is final.
LEMMA UploadsAge ==
  ASSUME MInv, NEW p \in Proc, Step(p) \/ Killed(p) \/ Truncate(p), NEW u \in Proc
  PROVE  /\ state[u] # "none" => state'[u] # "none"
         /\ state[u] = "none" /\ u # p => state'[u] = "none"
         /\ state[u] \in {"completed", "aborted"} =>
              state'[u] = state[u] /\ content'[u] = content[u]
<1>1. /\ state \in [Proc -> {"none", "open", "completed", "aborted"}]
      /\ content \in [Proc -> Seq(Seq(Nat)) \cup {None}]
  BY DEF MInv, TypeOK
<1>2. Control(p)
  BY DEF MInv
<1>3. CASE Idle \/ \E data : Writes(p, data)
  BY <1>3 DEF Idle, Writes
<1>4. CASE Opens(p)
  BY <1>1, <1>2, <1>4 DEF Opens, Control
<1>5. CASE Completes(p)
  BY <1>1, <1>5 DEF Completes
<1>6. CASE Aborts(p)
  BY <1>1, <1>6 DEF Aborts
<1> QED BY <1>3, <1>4, <1>5, <1>6, ServerStep

\* What is stored of a part, when an upload of it is.
LEMMA StoreEffect ==
  ASSUME TypeOK, NEW u \in Proc, NEW n, NEW data, Store(u, n, data)
  PROVE  /\ state[u] = "open" /\ n \in PartNumbers /\ stored'[u][n] = data
         /\ \A v \in Proc : \A m \in PartNumbers :
              v # u \/ m # n => stored'[v][m] = stored[v][m]
<1>1. /\ stored \in [Proc -> [PartNumbers -> Seq(Nat) \cup {None}]]
      /\ state[u] = "open" /\ n \in PartNumbers
      /\ stored' = [stored EXCEPT ![u][n] = data]
  BY DEF TypeOK, Store
<1> QED BY <1>1

\* Stored parts stay stored, and none is stored before the upload is created.
LEMMA StoreGrows ==
  ASSUME TypeOK, NEW u \in Proc, NEW n, NEW data \in Seq(Nat), Store(u, n, data),
         NEW v \in Proc
  PROVE  /\ Stored(v) \subseteq Stored(v)'
         /\ Stored(v)' # Stored(v) => state[v] = "open"
         /\ n \in Stored(u)'
<1>1. /\ state[u] = "open" /\ n \in PartNumbers /\ stored'[u][n] = data
      /\ \A w \in Proc : \A m \in PartNumbers :
           w # u \/ m # n => stored'[w][m] = stored[w][m]
  BY StoreEffect
<1>2. data # None
  BY NoneAssumption
<1>3. CASE v = u
  BY <1>1, <1>2, <1>3 DEF Stored, PartNumbers
<1>4. CASE v # u
  BY <1>1, <1>2, <1>4 DEF Stored, PartNumbers
<1> QED BY <1>3, <1>4

\* What the server has of the uploads.
LEMMA StepUploads ==
  ASSUME MInv, NEW p \in Proc, Step(p) \/ Killed(p) \/ Truncate(p)
  PROVE  Uploads'
<1>1. TypeOK /\ Control(p) /\ Uploads
  BY DEF MInv
<1>2. /\ state \in [Proc -> {"none", "open", "completed", "aborted"}]
      /\ acked \in [Proc -> SUBSET PartNumbers]
      /\ late \subseteq [u : Proc, n : PartNumbers, data : Seq(Nat)]
  BY <1>1 DEF TypeOK
<1>3. \A u \in Proc : /\ state[u] # "none" => state'[u] # "none"
                      /\ state[u] = "none" /\ u # p => state'[u] = "none"
  BY UploadsAge
<1>4. CASE Idle \/ Opens(p) \/ Completes(p) \/ Aborts(p)
  <2>1. UNCHANGED <<stored, late, acked>>
    BY <1>4 DEF Idle, Opens, Completes, Aborts
  <2>2. \A u \in Proc : state'[u] = "none" => state[u] = "none"
    BY <1>3
  <2>3. \A u : Stored(u)' = Stored(u)
    BY <2>1 DEF Stored, PartNumbers
  <2>4. \A x \in late' : state'[x.u] # "none"
    BY <1>1, <1>2, <1>3, <2>1 DEF Uploads
  <2> QED BY <1>1, <2>1, <2>2, <2>3, <2>4 DEF Uploads
<1>5. ASSUME NEW data, Writes(p, data) PROVE Uploads'
  <2>1. uid[p] \in Proc /\ state[uid[p]] # "none" /\ data \in Seq(Nat) /\ state' = state
    BY <1>1, <1>5 DEF Writes, Control
  <2>2. \A x \in late' : state'[x.u] # "none"
    BY <1>1, <1>5, <2>1 DEF Uploads, Writes
  <2>0. PICK n : n = next[p]
    OBVIOUS
  <2>3. PICK w \in Proc : w = uid[p]
    BY <2>1
  <2>4. /\ \A u \in Proc : Stored(u) \subseteq Stored(u)'
        /\ \A u \in Proc : state[u] = "none" => Stored(u)' = Stored(u)
    <3>1. CASE stored' = stored
      BY <3>1 DEF Stored, PartNumbers
    <3>2. CASE Store(w, n, data)
      BY <1>1, <2>1, <3>2, StoreGrows
    <3> QED BY <1>5, <2>3, <2>0, <3>1, <3>2 DEF Writes
  <2>5. \/ acked' = acked
        \/ acked' = [acked EXCEPT ![w] = @ \cup {n}] /\ n \in Stored(w)'
    <3>1. Store(w, n, data) => n \in Stored(w)'
      BY <1>1, <2>1, StoreGrows
    <3> QED BY <1>5, <2>3, <2>0, <3>1 DEF Writes
  <2>6. \A u \in Proc : acked[u] \subseteq Stored(u)'
    BY <1>1, <2>4 DEF Uploads
  <2>7. \A u \in Proc : acked'[u] \subseteq Stored(u)'
    BY <1>2, <2>5, <2>6
  <2>8. \A u \in Proc : state'[u] = "none" => Stored(u)' = {}
    BY <1>1, <2>1, <2>4 DEF Uploads
  <2> QED BY <2>2, <2>7, <2>8 DEF Uploads
<1> QED BY <1>4, <1>5, ServerStep

----------------------------------------------------------------------------
(* Where the processes are.                                                *)

\* The command lines stay as they are.
LEMMA SameWorld ==
  ASSUME world' = world
  PROVE  /\ Job' = Job /\ InitFile' = InitFile /\ CheckEtags' = CheckEtags
         /\ Page' = Page
BY DEF Job, InitFile, CheckEtags, Page

LEMMA StepControl ==
  ASSUME MInv, NEW p \in Proc, Step(p) \/ Killed(p) \/ Truncate(p), world' = world,
         NEW q \in Proc
  PROVE  Control(q)'
<1>1. Control(q) /\ TypeOK /\ Control(p)
  BY DEF MInv
<1>2. Job' = Job
  BY SameWorld
<1>3. \A u \in Proc : /\ state[u] # "none" => state'[u] # "none"
                      /\ state[u] = "none" /\ u # p => state'[u] = "none"
                      /\ state[u] = "completed" => state'[u] = "completed"
  BY UploadsAge
<1>4. CASE q # p
  <2>1. /\ pc'[q] = pc[q] /\ uid'[q] = uid[q] /\ next'[q] = next[q]
        /\ result'[q] = result[q]
    BY <1>1, <1>4, OthersStay DEF Own
  <2> QED BY <1>1, <1>2, <1>3, <1>4, <2>1 DEF Control
<1>5. CASE q = p
  <2>0. /\ pc \in [Proc -> Pcs] /\ result \in [Proc -> Outcomes]
        /\ uid \in [Proc -> Proc \cup {None}] /\ next \in [Proc -> Nat]
        /\ state \in [Proc -> {"none", "open", "completed", "aborted"}]
    BY <1>1 DEF TypeOK, Pcs, Outcomes
  <2>1. CASE CreateMultipart(p)
    <3>1. pc[p] = "start" /\ uid[p] = None /\ result[p] = "none"
      BY <1>1, <2>0, <2>1 DEF CreateMultipart, Does, Control
    <3>2. \/ /\ uid'[p] = p /\ state'[p] = "open"
             /\ \/ pc'[p] = "plan" /\ result'[p] = "none" /\ Job[p].action = "all"
                \/ pc'[p] = "exit" /\ Job[p].action # "all"
          \/ uid'[p] = None /\ pc'[p] = "exit" /\ result'[p] = "failed"
      BY <2>0, <2>1, <3>1 DEF CreateMultipart, Goto, Exit
    <3>3. Job[p].action \in {"create", "all"}
      BY <2>1 DEF CreateMultipart, Does
    <3> QED BY <1>2, <1>5, <3>2, <3>3, NoneAssumption DEF Control
  <2>2. CASE TakeUploadId(p)
    <3>1. /\ pc[p] = "start" /\ result'[p] = "none"
          /\ Job[p].action \in {"upload", "list", "complete", "abort"}
      BY <1>1, <2>0, <2>2 DEF TakeUploadId, Does, Control
    <3>2. PICK u \in Proc : state[u] # "none" /\ uid' = [uid EXCEPT ![p] = u]
      BY <2>2 DEF TakeUploadId
    <3>3. \/ pc'[p] = "plan" /\ Job[p].action = "upload"
          \/ pc'[p] \in {"abort", "list"}
      BY <2>0, <2>2, <3>1 DEF TakeUploadId, Goto
    <3>4. uid'[p] = u /\ state'[u] # "none"
      BY <1>3, <2>0, <3>2
    <3> QED BY <1>2, <1>5, <3>1, <3>3, <3>4 DEF Control
  <2>3. CASE ~(CreateMultipart(p) \/ TakeUploadId(p))
    <3>1. uid' = uid
      BY <2>3 DEF Step, PlanParts, ReadAllBytes, CUploadPart, GoMapPart, GoRetryPart,
         GoUploadPart, JavaUploadPart, PythonUploadPart, ListParts, ListUploads,
         CompleteMultipart, AbortMultipart, Killed, Truncate, UploadPart, ReadFails, procVars
    <3>2. /\ uid'[p] \in Proc => state'[uid'[p]] # "none"
          /\ Job[p].action = "all" => uid'[p] \in {None, p}
      BY <1>1, <1>3, <3>1 DEF Control
    <3>3. CASE PlanParts(p)
      <4>1. pc[p] = "plan" /\ result[p] = "none"
        BY <1>1, <2>0, <3>3 DEF PlanParts, Control
      <4>2. Main(p).part \in Int
        BY <1>1, CommandLine
      <4>3. \/ /\ next'[p] >= 1 /\ pc'[p] \in {"read", "part"} /\ result'[p] = "none"
            \/ pc'[p] = "complete" /\ Job[p].action = "all" /\ result'[p] = "none"
            \/ pc'[p] = "exit" /\ Job[p].action # "all"
            \/ pc'[p] = "abort" /\ result'[p] = "none"
            \/ pc'[p] = "exit" /\ result'[p] = "failed"
        BY <2>0, <3>3, <4>1, <4>2 DEF PlanParts, PartsDone, GiveUp, Goto, Exit, FirstPart
      <4> QED BY <1>1, <1>2, <1>5, <3>1, <3>2, <4>1, <4>3 DEF Control
    <3>4. CASE ReadAllBytes(p)
      <4>1. pc[p] = "read" /\ result[p] = "none" /\ next' = next
        BY <1>1, <2>0, <3>4 DEF ReadAllBytes, Control
      <4>2. \/ pc'[p] = "part" /\ result'[p] = "none"
            \/ pc'[p] = "complete" /\ Job[p].action = "all" /\ result'[p] = "none"
            \/ pc'[p] = "exit" /\ Job[p].action # "all"
            \/ pc'[p] = "abort" /\ result'[p] = "none"
            \/ pc'[p] = "exit" /\ result'[p] \in {"failed", "killed"}
        BY <2>0, <3>4, <4>1 DEF ReadAllBytes, PartsDone, GiveUp, Goto, Exit
      <4> QED BY <1>1, <1>2, <1>5, <3>1, <3>2, <4>1, <4>2 DEF Control
    <3>5. ASSUME NEW data, NEW etag, Uploads1(p, data, etag) PROVE Control(q)'
      <4>1. pc[p] \in {"part", "send"} /\ result[p] = "none" /\ next[p] >= 1
        BY <1>1, <2>0, <3>5 DEF Uploads1, Control
      <4>2. \/ pc'[p] = "part" /\ result'[p] = "none" /\ next'[p] = next[p] + 1
            \/ pc'[p] = "complete" /\ Job[p].action = "all" /\ result'[p] = "none"
            \/ pc'[p] = "exit" /\ Job[p].action # "all"
            \/ pc'[p] = "abort" /\ result'[p] = "none"
            \/ pc'[p] = "exit" /\ result'[p] = "failed"
        BY <2>0, <3>5, <4>1 DEF Uploads1, UploadPart, PartsDone, GiveUp, Goto, Exit
      <4>3. next[p] + 1 >= 1
        BY <2>0
      <4> QED BY <1>1, <1>2, <1>5, <3>1, <3>2, <4>1, <4>2, <4>3 DEF Control
    <3>6. CASE pc[p] = "part" /\ ReadFails(p)
      <4>1. result[p] = "none"
        BY <1>1, <3>6 DEF Control
      <4>2. \/ pc'[p] = "abort" /\ result'[p] = "none"
            \/ pc'[p] = "exit" /\ result'[p] = "failed"
        BY <2>0, <3>6, <4>1 DEF ReadFails, GiveUp, Goto, Exit
      <4> QED BY <1>1, <1>2, <1>5, <3>1, <3>2, <3>6, <4>2 DEF Control
    <3>7. CASE GoMapPart(p) /\ ~ReadFails(p)
      <4>1. /\ pc[p] = "part" /\ result' = result /\ next' = next /\ pc'[p] = "send"
            /\ Job[p].lang = "go"
        BY <2>0, <3>7 DEF GoMapPart, Goto
      <4> QED BY <1>1, <1>2, <1>5, <3>1, <3>2, <4>1 DEF Control
    <3>8. CASE GoRetryPart(p) \/ Truncate(p)
      <4>1. UNCHANGED <<pc, result, next>>
        BY <3>8 DEF GoRetryPart, Truncate, procVars
      <4>2. pc[p] = "start" => state'[p] = "none"
        <5>1. pc[p] = "start" => UNCHANGED state
          BY <3>8 DEF GoRetryPart, Truncate, serverVars
        <5> QED BY <1>1, <5>1 DEF Control
      <4> QED BY <1>1, <1>2, <1>3, <1>5, <3>1, <3>2, <4>1, <4>2 DEF Control
    <3>9. CASE ListParts(p)
      <4>1. pc[p] = "list" /\ result[p] = "none"
        BY <1>1, <2>0, <3>9 DEF ListParts, Does, Control
      <4>2. \/ pc'[p] = "complete" /\ result'[p] = "none"
            \/ pc'[p] = "exit" /\ result'[p] = "failed"
            \/ pc'[p] = "exit" /\ Job[p].action \notin {"all", "complete"}
        BY <2>0, <3>9, <4>1 DEF ListParts, Does, Goto, Exit
      <4> QED BY <1>1, <1>2, <1>5, <3>1, <3>2, <4>1, <4>2 DEF Control
    <3>10. CASE CompleteMultipart(p)
      <4>1. pc[p] = "complete" /\ result[p] = "none" /\ uid[p] \in Proc
        BY <1>1, <2>0, <3>10 DEF CompleteMultipart, Does, Control
      <4>2. \/ pc'[p] = "exit" /\ result'[p] = "ok" /\ state'[uid[p]] = "completed"
            \/ pc'[p] = "exit" /\ result'[p] = "failed"
            \/ pc'[p] = "abort" /\ result'[p] = "none"
        BY <2>0, <3>10, <4>1 DEF CompleteMultipart, GiveUp, Goto, Exit
      <4> QED BY <1>1, <1>2, <1>5, <3>1, <3>2, <4>1, <4>2 DEF Control
    <3>11. CASE ListUploads(p) \/ AbortMultipart(p) \/ Killed(p)
      <4>1. Job[p].action \notin {"all", "complete"} \/ result'[p] # "ok"
        BY <2>0, <3>11 DEF ListUploads, AbortMultipart, Killed, Does, Exit
      <4>2. pc'[p] = "exit"
        BY <2>0, <3>11 DEF ListUploads, AbortMultipart, Killed, Exit, Goto
      <4> QED BY <1>1, <1>2, <1>5, <3>1, <3>2, <4>1, <4>2 DEF Control
    <3>12. GoMapPart(p) => pc[p] = "part"
      BY DEF GoMapPart
    <3> QED BY <2>3, <3>3, <3>4, <3>5, <3>6, <3>7, <3>8, <3>9, <3>10, <3>11, <3>12,
               UploadStep DEF Step
  <2> QED BY <2>1, <2>2, <2>3
<1> QED BY <1>4, <1>5

----------------------------------------------------------------------------
(* Files, failures and completions.                                        *)

LEMMA StepShrunk ==
  ASSUME MInv, NEW p \in Proc, Step(p) \/ Killed(p) \/ Truncate(p), world' = world,
         NEW q \in Proc
  PROVE  Shrunk(q)'
<1>1. Shrunk(q) /\ TypeOK /\ InitFile' = InitFile
  BY SameWorld DEF MInv
<1>2. CASE file'[q] = file[q]
  BY <1>1, <1>2 DEF Shrunk
<1>3. CASE Truncate(p) /\ p = q
  <2>1. file \in [Proc -> Seq(Nat)] /\ file' = [file EXCEPT ![p] = Front(@)] /\ file[p] # << >>
    BY <1>1, <1>3 DEF Truncate, TypeOK
  <2>2. Len(file[q]) \in Nat /\ Len(file[q]) # 0
    BY <1>3, <2>1, LenProperties, EmptySeq
  <2>3. file'[q] = SubSeq(file[q], 1, Len(file[q]) - 1)
    BY <1>3, <2>1 DEF Front
  <2>4. /\ Len(file'[q]) = Len(file[q]) - 1
        /\ \A i \in 1 .. Len(file[q]) - 1 : file'[q][i] = file[q][i]
    BY <2>1, <2>2, <2>3
  <2>5. Len(InitFile[q]) \in Nat
    BY <1>1, CommandLine, LenProperties
  <2> QED BY <1>1, <2>2, <2>4, <2>5 DEF Shrunk
<1>4. CASE ~Truncate(p)
  <2>1. file' = file
    BY <1>4 DEF Step, CreateMultipart, TakeUploadId, PlanParts, ReadAllBytes, CUploadPart,
       GoMapPart, GoRetryPart, GoUploadPart, JavaUploadPart, PythonUploadPart, ListParts,
       ListUploads, CompleteMultipart, AbortMultipart, Killed, UploadPart, ReadFails
  <2> QED BY <1>2, <2>1
<1>5. CASE p # q
  BY <1>1, <1>2, <1>5, OthersStay DEF Own
<1> QED BY <1>3, <1>4, <1>5

\* Who fails without an abort.
LEMMA StepGivesUp ==
  ASSUME MInv, NEW p \in Proc, Step(p) \/ Killed(p) \/ Truncate(p), world' = world
  PROVE  /\ \A q \in Proc : Job' = Job /\ (q # p => (Abandoned(q)' <=> Abandoned(q)))
         /\ Abandoned(p)' => pc[p] = "complete" /\ Job[p].lang \in {"c", "go"}
<1>1. TypeOK /\ Control(p) /\ Job' = Job
  BY SameWorld DEF MInv
<1>2. ASSUME NEW q \in Proc, q # p PROVE Abandoned(q)' <=> Abandoned(q)
  <2>1. uid'[q] = uid[q] /\ result'[q] = result[q] /\ aborted'[q] = aborted[q]
    BY <1>1, <1>2, OthersStay DEF Own
  <2> QED BY <1>1, <2>1 DEF Abandoned
<1>3. ASSUME Abandoned(p)' PROVE pc[p] = "complete" /\ Job[p].lang \in {"c", "go"}
  <2>0. /\ Job[p].action = "all" /\ result'[p] = "failed" /\ uid'[p] # None /\ ~aborted'[p]
        /\ "upload" \in Main(p).abortsOn
        /\ ("complete" \notin Main(p).abortsOn <=> Job[p].lang \in {"c", "go"})
        /\ result \in [Proc -> Outcomes] /\ uid \in [Proc -> Proc \cup {None}]
    BY <1>1, <1>3, CommandLine DEF Abandoned, TypeOK, Outcomes
  <2>1. result[p] # "none" => pc[p] = "exit"
    BY <1>1 DEF Control
  <2>2. ~GiveUp(p, "upload") \/ result'[p] = result[p]
    BY <2>0 DEF GiveUp
  <2>3. CASE result' = result
    <3>1. pc[p] = "exit"
      BY <2>0, <2>1, <2>3
    <3>2. FALSE
      BY <3>1 DEF Step, CreateMultipart, TakeUploadId, PlanParts, ReadAllBytes, CUploadPart,
       GoMapPart, GoRetryPart, GoUploadPart, JavaUploadPart, PythonUploadPart, ListParts,
       ListUploads, CompleteMultipart, AbortMultipart, Killed, Truncate, Does
    <3> QED BY <3>2
  <2>4. CASE CreateMultipart(p)
    <3>1. uid[p] = None
      BY <1>1, <2>4 DEF CreateMultipart, Does, Control
    <3>2. FALSE
      BY <2>0, <2>1, <2>4, <3>1 DEF CreateMultipart, Does, Exit, Goto, Control
    <3> QED BY <3>2
  <2>5. CASE PlanParts(p) \/ ReadAllBytes(p)
    BY <2>0, <2>1, <2>2, <2>5 DEF PlanParts, ReadAllBytes, PartsDone, Exit
  <2>6. ASSUME NEW data, NEW etag, Uploads1(p, data, etag) PROVE FALSE
    BY <2>0, <2>1, <2>2, <2>6 DEF Uploads1, UploadPart, PartsDone, Exit
  <2>7. CASE ReadFails(p) /\ pc[p] = "part"
    BY <2>0, <2>1, <2>2, <2>7 DEF ReadFails
  <2>8. CASE CompleteMultipart(p)
    BY <2>0, <2>1, <2>8 DEF CompleteMultipart, Does, GiveUp, Exit
  <2>9. CASE AbortMultipart(p)
    <3>1. aborted' = [aborted EXCEPT ![p] = TRUE] /\ aborted \in [Proc -> BOOLEAN]
      BY <1>1, <2>9 DEF AbortMultipart, TypeOK
    <3>2. aborted'[p]
      BY <3>1, Zenon
    <3> QED BY <2>0, <3>2
  <2>10. CASE ListParts(p) \/ ListUploads(p) \/ TakeUploadId(p)
    BY <2>0, <2>10 DEF ListParts, ListUploads, TakeUploadId, Does
  <2>11. CASE Killed(p)
    BY <2>0, <2>11 DEF Killed, Exit
  <2>12. CASE GoRetryPart(p) \/ Truncate(p) \/ (GoMapPart(p) /\ ~ReadFails(p))
    BY <2>3, <2>12 DEF GoRetryPart, Truncate, GoMapPart, procVars
  <2>13. GoMapPart(p) => pc[p] = "part"
    BY DEF GoMapPart
  <2> QED BY <2>4, <2>5, <2>6, <2>7, <2>8, <2>9, <2>10, <2>11, <2>12, <2>13, UploadStep
          DEF Step
<1> QED BY <1>1, <1>2, <1>3

LEMMA StepCompleting ==
  ASSUME MInv, NEW p \in Proc, Step(p) \/ Killed(p) \/ Truncate(p), world' = world,
         NEW q \in Proc
  PROVE  Completing(q)'
<1>1. /\ TypeOK /\ Control(q) /\ Completing(q) /\ Uploads
      /\ Job' = Job /\ CheckEtags' = CheckEtags /\ Page' = Page
  BY SameWorld DEF MInv
<1>2. ASSUME Job[q].action = "complete", result[q] = "ok", uid'[q] = uid[q]
      PROVE  content'[uid'[q]] = content[uid[q]]
  BY <1>1, <1>2, UploadsAge DEF Control
<1>3. CASE q # p
  <2>1. /\ pc'[q] = pc[q] /\ uid'[q] = uid[q] /\ parts'[q] = parts[q]
        /\ result'[q] = result[q] /\ due'[q] = due[q]
    BY <1>1, <1>3, OthersStay DEF Own
  <2>2. ListComplete(q) => ListComplete(q)'
    BY <1>1, <2>1 DEF ListComplete
  <2> QED BY <1>1, <1>2, <2>1, <2>2 DEF Completing
<1>4. CASE q = p /\ Job[p].action = "complete"
  <2>0. /\ pc \in [Proc -> Pcs] /\ result \in [Proc -> Outcomes]
        /\ content \in [Proc -> Seq(Seq(Nat)) \cup {None}]
        /\ parts \in [Proc -> Seq([n : PartNumbers, etag : Etag])]
        /\ due \in [Proc -> SUBSET PartNumbers]
    BY <1>1 DEF TypeOK, Pcs, Outcomes
  <2>1. CASE ListParts(p)
    <3>1. uid[p] \in Proc /\ pc[p] = "list" /\ result[p] = "none"
      BY <1>1, <1>4, <2>0, <2>1 DEF ListParts, Does, Control
    <3>2. pc'[p] = "complete" =>
            due'[p] = acked[uid[p]] /\ parts'[p] = Listed(uid[p])
      BY <2>0, <2>1 DEF ListParts, Exit, Goto
    <3>3. result'[p] # "ok"
      BY <1>4, <2>0, <2>1, <3>1 DEF ListParts, Exit
    <3>4. ASSUME pc'[p] = "complete" PROVE ListComplete(p)'
      <4> DEFINE found == Listed(uid[p])
                 listed == {found[i].n : i \in DOMAIN found}
      <4>1. Page \in Nat \ {0}
        BY <1>1, CommandLine
      <4>2. \A n \in Stored(uid[p]) \ listed : Len(found) = Page /\ \A m \in listed : m < n
        BY <4>1, ListedParts
      <4>3. due'[p] \subseteq Stored(uid[p])
        BY <1>1, <3>1, <3>2, <3>4 DEF Uploads
      <4> HIDE DEF found
      <4>4. parts'[p] = found
        BY <3>2, <3>4 DEF found
      <4> QED BY <1>1, <4>2, <4>3, <4>4 DEF ListComplete
    <3> QED BY <1>1, <1>4, <3>3, <3>4 DEF Completing
  <2>2. CASE CompleteMultipart(p)
    <3>1. /\ pc[p] = "complete" /\ result[p] = "none" /\ uid[p] \in Proc
          /\ UNCHANGED <<uid, parts, due>>
      BY <1>1, <1>4, <2>0, <2>2 DEF CompleteMultipart, Does, Control
    <3>2. ListComplete(p)'
      BY <1>1, <1>4, <3>1 DEF Completing, ListComplete
    <3>3. ASSUME result'[p] = "ok", CheckEtags
          PROVE  content'[uid[p]] = [i \in DOMAIN parts[p] |-> parts[p][i].etag.of]
      <4>1. /\ Acceptable(uid[p], parts[p])
            /\ content' = [content EXCEPT ![uid[p]] =
                             [i \in DOMAIN parts[p] |-> stored[uid[p]][parts[p][i].n]]]
        BY <2>0, <2>2, <3>1, <3>3 DEF CompleteMultipart, GiveUp, Exit, Goto
      <4>2. \A i \in DOMAIN parts[p] :
              parts[p][i].etag.of = stored[uid[p]][parts[p][i].n]
        <5>1. \A i \in DOMAIN parts[p] :
                parts[p][i].etag = ServerEtag(stored[uid[p]][parts[p][i].n])
          BY <3>3, <4>1, Zenon DEF Acceptable
        <5>2. \A data : ServerEtag(data).of = data
          BY DEF ServerEtag
        <5> QED BY <5>1, <5>2, Zenon
      <4> QED BY <2>0, <3>1, <4>1, <4>2
    <3> QED BY <1>1, <1>4, <3>1, <3>2, <3>3 DEF Completing
  <2>3. CASE ~(ListParts(p) \/ CompleteMultipart(p))
    <3>1. CASE pc'[p] # "complete" /\ result'[p] # "ok"
      BY <1>1, <1>4, <3>1 DEF Completing
    <3>2. CASE UNCHANGED <<pc, result, uid, parts, due>>
      <4>1. ListComplete(p) => ListComplete(p)'
        BY <1>1, <3>2 DEF ListComplete
      <4> QED BY <1>1, <1>2, <1>4, <3>2, <4>1 DEF Completing
    <3>3. CASE TakeUploadId(p) \/ Killed(p)
      <4>1. result[p] = "none"
        BY <1>1, <1>4, <2>0, <3>3 DEF TakeUploadId, Killed, Does, Control
      <4>2. pc'[p] # "complete" /\ result'[p] # "ok"
        BY <2>0, <3>3, <4>1 DEF TakeUploadId, Killed, Exit, Goto
      <4> QED BY <3>1, <4>2
    <3>4. CASE Truncate(p)
      BY <3>2, <3>4 DEF Truncate, procVars
    <3>5. CASE ~(TakeUploadId(p) \/ Killed(p) \/ Truncate(p))
      <4>1. pc[p] \notin {"plan", "read", "part", "send"}
        BY <1>1, <1>4 DEF Control
      <4>2. ~(CreateMultipart(p) \/ ListUploads(p) \/ AbortMultipart(p))
        BY <1>4 DEF CreateMultipart, ListUploads, AbortMultipart, Does
      <4>3. ~(PlanParts(p) \/ ReadAllBytes(p))
        BY <4>1 DEF PlanParts, ReadAllBytes
      <4>4. ~(\/ CUploadPart(p) \/ GoMapPart(p) \/ GoRetryPart(p) \/ GoUploadPart(p)
              \/ JavaUploadPart(p) \/ PythonUploadPart(p))
        BY <4>1 DEF CUploadPart, GoMapPart, GoRetryPart, GoUploadPart, JavaUploadPart,
           PythonUploadPart
      <4> QED BY <2>3, <3>5, <4>2, <4>3, <4>4 DEF Step
    <3> QED BY <3>3, <3>4, <3>5
  <2> QED BY <2>1, <2>2, <2>3
<1>5. CASE q = p /\ Job[p].action # "complete"
  BY <1>1, <1>5 DEF Completing
<1> QED BY <1>3, <1>4, <1>5

----------------------------------------------------------------------------
(* The progress of `all' in C and Go.                                      *)

\* What is stored stays what was planned, as long as only planned parts are
\* stored.
LEMMA StillCollected ==
  ASSUME NEW q \in Proc, NEW k, Collected(q, k), InitFile' = InitFile,
         parts'[q] = parts[q], size'[q] = size[q],
         \A i \in PartNumbers :
           stored'[q][i] = stored[q][i] \/ stored'[q][i] = PlannedPart(q, i)
  PROVE  Collected(q, k)' /\ \A n : PlannedPart(q, n)' = PlannedPart(q, n)
<1>1. \A n : PlannedPart(q, n)' = PlannedPart(q, n)
  BY DEF PlannedPart, PartLen, Slice
<1>2. \A i \in 1 .. k : i \in PartNumbers /\ stored'[q][i] = PlannedPart(q, i)
  BY DEF Collected
<1>3. PartNumbers' = PartNumbers
  BY DEF PartNumbers
<1> QED BY <1>1, <1>2, <1>3 DEF Collected

LEMMA UploadingKept ==
  ASSUME NEW q \in Proc, Uploading(q), Job' = Job, InitFile' = InitFile,
         pc'[q] = pc[q], uid'[q] = uid[q], size'[q] = size[q], bytes'[q] = bytes[q],
         next'[q] = next[q], last'[q] = last[q], parts'[q] = parts[q],
         result'[q] = result[q], aborted'[q] = aborted[q],
         Strict(q) =>
           /\ \A x \in late' :
                x.u = q => x \in late \/ (x.data = PlannedPart(q, x.n) /\ pc[q] # "plan")
           /\ \A i \in PartNumbers :
                stored'[q][i] = stored[q][i] \/ stored'[q][i] = PlannedPart(q, i)
           /\ result[q] = "ok" => content'[q] = content[q]
  PROVE  Uploading(q)'
<1> SUFFICES ASSUME Strict(q) PROVE Uploading(q)'
  BY DEF Strict, Uploading
<1>1. \A n : PlannedPart(q, n)' = PlannedPart(q, n)
  BY DEF PlannedPart, PartLen, Slice
<1>2. \A k : Collected(q, k) => Collected(q, k)'
  BY StillCollected
<1>3. Abandoned(q)' <=> Abandoned(q)
  BY DEF Abandoned
<1>4. NumParts(Job[q].lang, size[q])' = NumParts(Job[q].lang, size[q])
  BY DEF NumParts, AsInt
<1>5. AllUploaded(q) => AllUploaded(q)'
  <2>1. PICK k : k = last[q]
    OBVIOUS
  <2> QED BY <1>2, <1>4, <2>1 DEF AllUploaded
<1>6. Collected(q, next[q] - 1) => Collected(q, next[q] - 1)'
  <2>1. PICK k : k = next[q] - 1
    OBVIOUS
  <2>2. k = (next[q] - 1)'
    BY <2>1
  <2> QED BY <1>2, <2>1, <2>2
<1>7. bytes[q] = PlannedPart(q, next[q]) => bytes'[q] = PlannedPart(q, next[q])'
  BY DEF PlannedPart, PartLen, Slice
<1>8. [n \in 1 .. last[q] |-> PlannedPart(q, n)]' = [n \in 1 .. last[q] |-> PlannedPart(q, n)]
  BY <1>1
<1>9. /\ pc'[q] = "plan" => \A x \in late' : x.u # q
      /\ \A x \in late' : x.u = q => x.data = PlannedPart(q, x.n)'
  BY <1>1 DEF Uploading, Strict
<1> QED BY <1>3, <1>4, <1>5, <1>6, <1>7, <1>8, <1>9 DEF Uploading, Strict

\* A process that uploads parts uploads them to the upload it has created.
LEMMA UploadsToItsOwn ==
  ASSUME MInv, Undisturbed, NEW p \in Proc
  PROVE  /\ pc[p] \in {"plan", "read", "part", "send"} => uid[p] = p
         /\ Job[p].action = "all" /\ pc[p] \notin {"start", "exit"} => uid[p] = p
         /\ Job[p].action = "all" /\ result[p] = "ok" => uid[p] = p
BY NoneAssumption DEF MInv, Control, Undisturbed

\* What another process does to the upload of an `all', and to its parts.
LEMMA OthersServer ==
  ASSUME MInv, Undisturbed, NEW p \in Proc, Step(p) \/ Killed(p) \/ Truncate(p),
         NEW q \in Proc, q # p
  PROVE  /\ \A x \in late' : x.u = q => x \in late
         /\ \A i \in PartNumbers : stored'[q][i] = stored[q][i]
         /\ Job[q].action = "all" /\ result[q] = "ok" => content'[q] = content[q]
<1>1. TypeOK /\ Control(q)
  BY DEF MInv
<1>2. \A x \in late' : x.u = q => x \in late
  <2>1. CASE late' = late
    BY <2>1
  <2>2. ASSUME NEW data, Writes(p, data) PROVE \A x \in late' : x.u = q => x \in late
    <3>1. uid[p] = p
      BY <2>2, UploadsToItsOwn DEF Writes
    <3> QED BY <2>2, <3>1 DEF Writes
  <2> QED BY <2>1, <2>2, ServerStep DEF Idle, Opens, Completes, Aborts
<1>3. \A i \in PartNumbers : stored'[q][i] = stored[q][i]
  <2>1. CASE stored' = stored
    BY <2>1
  <2>2. ASSUME NEW data, Writes(p, data), Store(uid[p], next[p], data) PROVE <1>3!:
    <3>1. uid[p] = p
      BY <2>2, UploadsToItsOwn DEF Writes
    <3>2. PICK n : n = next[p]
      OBVIOUS
    <3>3. Store(p, n, data)
      BY <2>2, <3>1, <3>2
    <3> QED BY <1>1, <3>3, StoreEffect
  <2> QED BY <2>1, <2>2, ServerStep DEF Idle, Opens, Completes, Aborts, Writes
<1>4. Job[q].action = "all" /\ result[q] = "ok" => content'[q] = content[q]
  BY <1>1, UploadsToItsOwn, UploadsAge DEF Control
<1> QED BY <1>2, <1>3, <1>4

LEMMA OthersUploading ==
  ASSUME MInv, Undisturbed, NEW p \in Proc, Step(p) \/ Killed(p) \/ Truncate(p),
         world' = world, NEW q \in Proc, q # p
  PROVE  Uploading(q)'
<1>1. TypeOK /\ Uploading(q) /\ Job' = Job /\ InitFile' = InitFile
  BY SameWorld DEF MInv
<1>2. /\ pc'[q] = pc[q] /\ uid'[q] = uid[q] /\ size'[q] = size[q]
      /\ bytes'[q] = bytes[q] /\ next'[q] = next[q] /\ last'[q] = last[q]
      /\ parts'[q] = parts[q] /\ result'[q] = result[q] /\ aborted'[q] = aborted[q]
  BY <1>1, OthersStay DEF Own
<1> QED BY <1>1, <1>2, OthersServer, UploadingKept DEF Strict

\* The head of upload_parts plans the whole file.
LEMMA Plans ==
  ASSUME MInv, Undisturbed, NEW p \in Proc, Strict(p), PlanParts(p)
  PROVE  \/ /\ next'[p] = 1 /\ last'[p] = NumParts(Job[p].lang, size'[p])
            /\ last'[p] \in Nat
            /\ \/ pc'[p] = "complete" /\ last'[p] = 0
               \/ pc'[p] = "part" /\ last'[p] # 0
         \/ pc'[p] = "abort"
<1>1. TypeOK /\ Job[p].action = "all" /\ Job[p].lang \in {"c", "go"}
  BY DEF MInv, Strict
<1>2. /\ pc \in [Proc -> Pcs] /\ size \in [Proc -> Nat] /\ next \in [Proc -> Nat]
      /\ last \in [Proc -> Nat] /\ file \in [Proc -> Seq(Nat)]
  BY <1>1 DEF TypeOK, Pcs
<1>3. Main(p).part \in Int /\ Main(p).part <= 0 /\ "upload" \in Main(p).abortsOn
  BY <1>1, CommandLine DEF Undisturbed
<1>4. PICK sz : sz = (IF Main(p).statFirst THEN size[p] ELSE Len(file[p]))
  OBVIOUS
<1>5. sz \in Nat
  BY <1>2, <1>4, LenProperties
<1>6. PICK count \in Int : count = NumParts(Job[p].lang, sz)
  BY <1>5, NumPartsType
<1>7. CASE GiveUp(p, "upload")
  BY <1>1, <1>2, <1>3, <1>7 DEF GiveUp, Goto
<1>8. CASE ~GiveUp(p, "upload")
  <2>1. /\ 0 <= Main(p).part /\ Main(p).part <= count
        /\ size' = [size EXCEPT ![p] = sz]
        /\ next' = [next EXCEPT ![p] = FirstPart(Main(p).part)]
        /\ last' = [last EXCEPT ![p] = IF Main(p).part > 0 THEN Main(p).part ELSE count]
        /\ IF count = 0 THEN PartsDone(p) ELSE Goto(p, "part")
    BY <1>1, <1>4, <1>6, <1>8 DEF PlanParts
  <2>2. Main(p).part = 0 /\ count \in Nat
    BY <1>3, <2>1
  <2>3. next'[p] = 1 /\ last'[p] = count /\ size'[p] = sz
    BY <1>2, <2>1, <2>2 DEF FirstPart
  <2>4. IF count = 0 THEN pc'[p] = "complete" ELSE pc'[p] = "part"
    BY <1>1, <1>2, <2>1 DEF PartsDone, Goto
  <2> QED BY <1>6, <2>2, <2>3, <2>4
<1> QED BY <1>7, <1>8

LEMMA OwnUploading ==
  ASSUME MInv, Undisturbed, NEW p \in Proc, Step(p) \/ Killed(p) \/ Truncate(p),
         world' = world
  PROVE  Uploading(p)'
<1>1. /\ TypeOK /\ Uploading(p) /\ Control(p) /\ Uploads
      /\ Job' = Job /\ InitFile' = InitFile /\ PartNumbers' = PartNumbers
  BY SameWorld DEF MInv, PartNumbers
<1> SUFFICES ASSUME Strict(p) PROVE Uploading(p)'
  BY <1>1 DEF Strict, Uploading
<1>2. /\ Job[p].action = "all" /\ Job[p].lang \in {"c", "go"}
      /\ "upload" \in Main(p).abortsOn
  BY <1>1, CommandLine DEF Strict
<1>3. /\ pc \in [Proc -> Pcs] /\ result \in [Proc -> Outcomes]
      /\ uid \in [Proc -> Proc \cup {None}] /\ size \in [Proc -> Nat]
      /\ next \in [Proc -> Nat] /\ last \in [Proc -> Nat]
      /\ parts \in [Proc -> Seq([n : PartNumbers, etag : Etag])]
      /\ late \subseteq [u : Proc, n : PartNumbers, data : Seq(Nat)]
  BY <1>1 DEF TypeOK, Pcs, Outcomes
<1>4. pc[p] # "complete" => ~Abandoned(p)'
  BY StepGivesUp
\* Steps that only have to keep the late parts planned.
<1>5. ASSUME pc'[p] \in {"abort", "exit"}, result'[p] # "ok", pc[p] # "complete",
             size'[p] = size[p], late' = late
      PROVE  Uploading(p)'
  <2>1. \A n : PlannedPart(p, n)' = PlannedPart(p, n)
    BY <1>1, <1>5 DEF PlannedPart, PartLen, Slice
  <2>2. \A x \in late' : x.u = p => x.data = PlannedPart(p, x.n)'
    BY <1>1, <1>5, <2>1 DEF Uploading, Strict
  <2> QED BY <1>4, <1>5, <2>2 DEF Uploading
<1>6. CASE CreateMultipart(p)
  <2>1. /\ pc[p] = "start" /\ result[p] = "none" /\ state[p] = "none"
        /\ UNCHANGED <<parts, late>>
    BY <1>1, <1>3, <1>6 DEF CreateMultipart, Does, Control, Outcomes
  <2>2. pc'[p] \in {"plan", "exit"} /\ result'[p] # "ok"
    BY <1>2, <1>3, <1>6, <2>1 DEF CreateMultipart, Goto, Exit
  <2>3. \A x \in late' : x.u # p
    BY <1>1, <2>1 DEF Uploads
  <2>4. parts'[p] = << >>
    BY <1>1, <2>1 DEF Uploading, Strict
  <2> QED BY <1>4, <2>1, <2>2, <2>3, <2>4 DEF Uploading
<1>7. CASE PlanParts(p)
  <2>1. pc[p] = "plan" /\ result[p] = "none" /\ UNCHANGED <<parts, late, bytes>>
    BY <1>1, <1>3, <1>7 DEF PlanParts, Control, Outcomes, serverVars
  <2>2. parts'[p] = << >> /\ \A x \in late' : x.u # p
    BY <1>1, <2>1 DEF Uploading, Strict
  <2>3. Collected(p, 0)'
    BY <2>2 DEF Collected
  <2>4. result'[p] = "none"
    BY <1>2, <1>7, <2>1 DEF PlanParts, GiveUp, PartsDone
  <2>5. CASE pc'[p] = "abort"
    BY <1>4, <2>1, <2>2, <2>4, <2>5 DEF Uploading
  <2>6. CASE pc'[p] = "complete" /\ last'[p] = 0 /\ last'[p] = NumParts(Job[p].lang, size'[p])
    <3>1. AllUploaded(p)'
      BY <1>1, <2>3, <2>6 DEF AllUploaded, NumParts, AsInt
    <3> QED BY <1>4, <2>1, <2>2, <2>4, <2>6, <3>1 DEF Uploading
  <2>7. CASE /\ pc'[p] = "part" /\ last'[p] \in Nat /\ last'[p] # 0 /\ next'[p] = 1
             /\ last'[p] = NumParts(Job[p].lang, size'[p])
    <3>1. (next[p] - 1)' = 0 /\ next'[p] <= last'[p]
      BY <2>7
    <3>2. Collected(p, next[p] - 1)'
      BY <2>3, <3>1
    <3>3. (last[p] = NumParts(Job[p].lang, size[p]))'
      BY <1>1, <2>7 DEF NumParts, AsInt
    <3> QED BY <1>4, <2>1, <2>2, <2>4, <2>7, <3>1, <3>2, <3>3 DEF Uploading
  <2> QED BY <1>7, <2>5, <2>6, <2>7, Plans
<1>8. CASE ReadFails(p) /\ pc[p] = "part"
  <2>1. pc'[p] = "abort" /\ result'[p] = "none" /\ size'[p] = size[p] /\ late' = late
    BY <1>1, <1>2, <1>3, <1>8 DEF ReadFails, GiveUp, Goto, Control, Outcomes, serverVars
  <2> QED BY <1>5, <1>8, <2>1
<1>9. ASSUME NEW data, NEW etag, Uploads1(p, data, etag) PROVE Uploading(p)'
  <2>1. /\ pc[p] \in {"part", "send"} /\ UploadPart(p, data, etag) /\ uid[p] = p
        /\ data = PlannedPart(p, next[p])
    BY <1>9, UploadsToItsOwn DEF Uploads1
  <2>2. /\ result[p] = "none" /\ UNCHANGED <<size, last>>
    BY <1>1, <1>3, <2>1 DEF UploadPart, Control, Outcomes
  <2>3. \A n : PlannedPart(p, n)' = PlannedPart(p, n)
    BY <1>1, <2>2 DEF PlannedPart, PartLen, Slice
  <2>4. /\ last[p] = NumParts(Job[p].lang, size[p]) /\ next[p] <= last[p]
        /\ Collected(p, next[p] - 1)
        /\ \A x \in late : x.u = p => x.data = PlannedPart(p, x.n)
    BY <1>1, <2>1 DEF Uploading, Strict
  <2>5. (last[p] = NumParts(Job[p].lang, size[p]))'
    BY <1>1, <2>2, <2>4 DEF NumParts, AsInt
  <2>6. \A x \in late' : x.u = p => x.data = PlannedPart(p, x.n)'
    <3>1. \/ late' = late
          \/ late' = late \cup {[u |-> uid[p], n |-> next[p], data |-> data]}
      BY <2>1 DEF UploadPart, PartUncertain
    <3> QED BY <2>1, <2>3, <2>4, <3>1
  <2>7. CASE GiveUp(p, "upload")
    <3>1. pc'[p] = "abort" /\ result'[p] = "none"
      BY <1>2, <1>3, <2>2, <2>7 DEF GiveUp, Goto
    <3> QED BY <1>4, <2>1, <2>6, <3>1 DEF Uploading
  <2>8. CASE ~GiveUp(p, "upload")
    <3> PICK n \in Nat : n = next[p]
      BY <1>3
    <3>1. /\ Store(p, n, data)
          /\ parts' = [parts EXCEPT ![p] = Append(@, [n |-> n, etag |-> etag])]
          /\ IF n < last[p]
             THEN /\ next' = [next EXCEPT ![p] = n + 1]
                  /\ Goto(p, "part") /\ UNCHANGED result
             ELSE PartsDone(p) /\ UNCHANGED next
      BY <2>1, <2>8 DEF UploadPart
    <3>2. Collected(p, n)'
      <4>1. /\ n \in PartNumbers /\ stored'[p][n] = PlannedPart(p, n)
            /\ \A i \in PartNumbers : i # n => stored'[p][i] = stored[p][i]
        BY <1>1, <2>1, <3>1, StoreEffect
      <4>2. parts[p] \in Seq([n : PartNumbers, etag : Etag]) /\ DOMAIN parts[p] = 1 .. n - 1
        BY <1>3, <2>4 DEF Collected
      <4>3. Len(parts[p]) = n - 1
        BY <4>1, <4>2, LenProperties, MaxPartAssumption DEF PartNumbers
      <4>4. parts'[p] = Append(parts[p], [n |-> n, etag |-> etag])
        BY <1>3, <3>1
      <4>5. /\ DOMAIN parts'[p] = 1 .. n /\ parts'[p][n].n = n
            /\ \A i \in 1 .. n - 1 : parts'[p][i] = parts[p][i]
        BY <4>2, <4>3, <4>4
      <4>6. \A i \in 1 .. n - 1 : /\ i \in PartNumbers /\ parts[p][i].n = i
                                  /\ stored[p][i] = PlannedPart(p, i)
        BY <2>4 DEF Collected
      <4>7. \A i \in 1 .. n : i = n \/ (i \in 1 .. n - 1 /\ i # n)
        OBVIOUS
      <4>8. \A i \in 1 .. n : /\ i \in PartNumbers /\ parts'[p][i].n = i
                              /\ stored'[p][i] = PlannedPart(p, i)'
        BY <2>3, <4>1, <4>5, <4>6, <4>7
      <4> QED BY <1>1, <4>5, <4>8 DEF Collected
    <3>3. CASE n < last[p]
      <4>1. /\ pc'[p] = "part" /\ result'[p] = "none" /\ next'[p] = n + 1
            /\ next'[p] <= last'[p]
        BY <1>3, <2>2, <3>1, <3>3 DEF Goto
      <4>2. (next[p] - 1)' = n
        BY <4>1
      <4>3. Collected(p, next[p] - 1)'
        BY <3>2, <4>2
      <4> QED BY <1>4, <2>1, <2>5, <2>6, <4>1, <4>3 DEF Uploading
    <3>4. CASE ~(n < last[p])
      <4>1. pc'[p] = "complete" /\ result'[p] = "none" /\ n = last'[p]
        BY <1>2, <1>3, <2>2, <2>4, <3>1, <3>4 DEF PartsDone, Goto
      <4>2. AllUploaded(p)'
        BY <2>5, <3>2, <4>1 DEF AllUploaded
      <4> QED BY <1>4, <2>1, <2>6, <4>1, <4>2 DEF Uploading
    <3> QED BY <3>3, <3>4
  <2> QED BY <2>7, <2>8
<1>10. CASE GoMapPart(p) /\ ~ReadFails(p)
  <2>1. /\ pc[p] = "part" /\ pc'[p] = "send"
        /\ Len(PartOf(p, file[p])) = PartLen(size[p], next[p])
        /\ bytes' = [bytes EXCEPT ![p] = PartOf(p, file[p])]
        /\ UNCHANGED <<result, uid, size, next, last, parts, aborted, stored, late>>
    BY <1>3, <1>10 DEF GoMapPart, Goto, serverVars
  <2>2. bytes'[p] = PlannedPart(p, next[p])
    <3>1. PartOf(p, file[p]) = PlannedPart(p, next[p])
      BY <2>1, PartRead
    <3>2. bytes \in [Proc -> Seq(Nat)]
      BY <1>1 DEF TypeOK
    <3> QED BY <2>1, <3>1, <3>2
  <2>3. /\ last[p] = NumParts(Job[p].lang, size[p]) /\ next[p] <= last[p]
        /\ Collected(p, next[p] - 1)
        /\ \A x \in late : x.u = p => x.data = PlannedPart(p, x.n)
    BY <1>1, <2>1 DEF Uploading, Strict
  <2>4. PICK k : k = next[p] - 1
    OBVIOUS
  <2>5. Collected(p, k)' /\ \A n : PlannedPart(p, n)' = PlannedPart(p, n)
    BY <1>1, <2>1, <2>3, <2>4, StillCollected
  <2>6. k = (next[p] - 1)'
    BY <2>1, <2>4
  <2>7. Collected(p, next[p] - 1)'
    BY <2>5, <2>6
  <2>8. (bytes[p] = PlannedPart(p, next[p]))'
    <3>1. PICK n : n = next[p]
      OBVIOUS
    <3> QED BY <2>1, <2>2, <2>5, <3>1
  <2>9. (last[p] = NumParts(Job[p].lang, size[p]))' /\ next'[p] <= last'[p]
    BY <1>1, <2>1, <2>3 DEF NumParts, AsInt
  <2>10. result'[p] # "ok"
    BY <1>1, <2>1 DEF Control
  <2>11. \A x \in late' : x.u = p => x.data = PlannedPart(p, x.n)'
    BY <2>1, <2>3, <2>5
  <2> QED BY <1>4, <2>1, <2>7, <2>8, <2>9, <2>10, <2>11 DEF Uploading
<1>11. CASE GoRetryPart(p)
  <2>1. /\ pc[p] = "send" /\ uid[p] = p /\ PartUncertain(p, bytes[p])
        /\ UNCHANGED <<pc, uid, size, bytes, next, last, parts, result, aborted, content>>
    BY <1>11, UploadsToItsOwn DEF GoRetryPart
  <2>2. bytes[p] = PlannedPart(p, next[p])
    BY <1>1, <2>1 DEF Uploading, Strict
  <2>3. \A x \in late' : x.u = p => x \in late \/ x.data = PlannedPart(p, x.n)
    <3>1. \/ late' = late
          \/ late' = late \cup {[u |-> uid[p], n |-> next[p], data |-> bytes[p]]}
      BY <2>1 DEF PartUncertain
    <3> QED BY <2>2, <3>1
  <2>4. \A i \in PartNumbers :
          stored'[p][i] = stored[p][i] \/ stored'[p][i] = PlannedPart(p, i)
    <3>1. PICK n, data : n = next[p] /\ data = bytes[p]
      OBVIOUS
    <3>2. stored' = stored \/ Store(p, n, data)
      BY <2>1, <3>1 DEF PartUncertain
    <3>3. CASE Store(p, n, data)
      BY <1>1, <2>2, <3>1, <3>3, StoreEffect
    <3> QED BY <3>2, <3>3
  <2> QED BY <1>1, <2>1, <2>3, <2>4, UploadingKept
<1>12. CASE CompleteMultipart(p)
  <2>1. /\ pc[p] = "complete" /\ result[p] = "none" /\ uid[p] = p
        /\ UNCHANGED <<size, last, parts, stored, late>>
    BY <1>1, <1>2, <1>3, <1>12, UploadsToItsOwn
       DEF CompleteMultipart, Does, Control, Outcomes
  <2>2. PICK k : k = last[p]
    OBVIOUS
  <2>3. /\ k \in Nat /\ Collected(p, k) /\ k = NumParts(Job[p].lang, size[p])
        /\ \A x \in late : x.u = p => x.data = PlannedPart(p, x.n)
    BY <1>1, <1>3, <2>1, <2>2 DEF Uploading, Strict, AllUploaded
  <2>4. Collected(p, k)' /\ \A n : PlannedPart(p, n)' = PlannedPart(p, n)
    BY <1>1, <2>1, <2>3, StillCollected
  <2>5. (last[p] = NumParts(Job[p].lang, size[p]))' /\ last'[p] = k
    BY <1>1, <2>1, <2>2, <2>3 DEF NumParts, AsInt
  <2>6. AllUploaded(p)'
    BY <2>4, <2>5 DEF AllUploaded
  <2>7. \A x \in late' : x.u = p => x.data = PlannedPart(p, x.n)'
    BY <2>1, <2>3, <2>4
  <2>8. pc'[p] \in {"abort", "exit"}
    BY <1>3, <1>12 DEF CompleteMultipart, GiveUp, Goto, Exit
  <2>9. ASSUME result'[p] = "ok"
        PROVE  content'[p] = [n \in 1 .. k |-> PlannedPart(p, n)']
    <3>1. content' = [content EXCEPT ![p] =
                        [i \in DOMAIN parts[p] |-> stored[p][parts[p][i].n]]]
      BY <1>3, <1>12, <2>1, <2>9 DEF CompleteMultipart, GiveUp, Exit
    <3>2. content'[p] = [i \in DOMAIN parts[p] |-> stored[p][parts[p][i].n]]
      BY <1>1, <3>1 DEF TypeOK
    <3>3. /\ DOMAIN parts[p] = 1 .. k
          /\ \A i \in 1 .. k : stored[p][parts[p][i].n] = PlannedPart(p, i)
      BY <2>3 DEF Collected
    <3> QED BY <2>4, <3>2, <3>3
  <2> QED BY <2>5, <2>6, <2>7, <2>8, <2>9 DEF Uploading
<1>13. CASE AbortMultipart(p) \/ Killed(p)
  <2>1. /\ pc'[p] = "exit" /\ result'[p] # "ok" /\ size' = size /\ late' = late
        /\ AbortMultipart(p) => pc[p] # "complete"
    BY <1>2, <1>3, <1>13 DEF AbortMultipart, Killed, Exit, Goto, serverVars, Does
  <2>2. ~Abandoned(p)'
    <3>1. CASE Killed(p)
      <4>1. result'[p] = "killed"
        BY <1>3, <3>1 DEF Killed, Exit
      <4> QED BY <4>1 DEF Abandoned
    <3> QED BY <1>4, <1>13, <2>1, <3>1
  <2>3. \A n : PlannedPart(p, n)' = PlannedPart(p, n)
    BY <1>1, <2>1 DEF PlannedPart, PartLen, Slice
  <2>4. \A x \in late' : x.u = p => x.data = PlannedPart(p, x.n)'
    BY <1>1, <2>1, <2>3 DEF Uploading, Strict
  <2> QED BY <2>1, <2>2, <2>4 DEF Uploading
<1>14. CASE Truncate(p)
  BY <1>1, <1>14, UploadingKept DEF Truncate, procVars, serverVars
<1>15. ~(TakeUploadId(p) \/ ReadAllBytes(p) \/ ListParts(p) \/ ListUploads(p))
  <2>1. pc[p] # "read"
    BY <1>1 DEF Uploading, Strict
  <2> QED BY <1>2, <2>1 DEF TakeUploadId, ReadAllBytes, ListParts, ListUploads, Does
<1>16. GoMapPart(p) => pc[p] = "part"
  BY DEF GoMapPart
<1> QED BY <1>6, <1>7, <1>8, <1>9, <1>10, <1>11, <1>12, <1>13, <1>14, <1>15, <1>16,
           UploadStep DEF Step

----------------------------------------------------------------------------
(* The server's late parts, and the theorem.                               *)

LEMMA LateStep ==
  ASSUME MInv, NEW x \in late, LateStore(x), world' = world
  PROVE  MInv'
<1>1. /\ TypeOK /\ Uploads /\ Job' = Job /\ InitFile' = InitFile /\ CheckEtags' = CheckEtags
      /\ Page' = Page /\ PartNumbers' = PartNumbers
  BY SameWorld DEF MInv, PartNumbers
<1>2. PICK u \in Proc, n \in PartNumbers, data \in Seq(Nat) :
        u = x.u /\ n = x.n /\ data = x.data
  BY <1>1 DEF TypeOK
<1>3. stored' = stored \/ Store(u, n, data)
  BY <1>2 DEF LateStore
<1>4. /\ late' \subseteq late
      /\ UNCHANGED <<pc, uid, size, bytes, next, last, tries, parts, result, aborted, due,
                     file, state, content, acked>>
  BY DEF LateStore, procVars
<1>5. TypeOK'
  <2>1. stored \in [Proc -> [PartNumbers -> Seq(Nat) \cup {None}]]
    BY <1>1 DEF TypeOK
  <2>2. stored' \in [Proc -> [PartNumbers -> Seq(Nat) \cup {None}]]
    <3> DEFINE new == [stored[u] EXCEPT ![n] = data]
    <3>1. new \in [PartNumbers -> Seq(Nat) \cup {None}]
      BY <2>1
    <3>2. stored' = stored \/ stored' = [stored EXCEPT ![u] = new]
      BY <1>3 DEF Store
    <3> HIDE DEF new
    <3> QED BY <2>1, <3>1, <3>2
  <2>3. late' \subseteq [u : Proc, n : PartNumbers, data : Seq(Nat)]
    BY <1>1, <1>4 DEF TypeOK
  <2> QED BY <1>1, <1>4, <2>2, <2>3 DEF TypeOK
<1>6. Uploads'
  <2>1. /\ \A v \in Proc : Stored(v) \subseteq Stored(v)'
        /\ \A v \in Proc : state[v] = "none" => Stored(v)' = Stored(v)
    <3>1. CASE stored' = stored
      BY <3>1 DEF Stored, PartNumbers
    <3>2. CASE Store(u, n, data)
      BY <1>1, <3>2, StoreGrows
    <3> QED BY <1>3, <3>1, <3>2
  <2> QED BY <1>1, <1>4, <2>1 DEF Uploads
<1>7. ASSUME NEW q \in Proc
      PROVE  /\ Control(q)' /\ Shrunk(q)' /\ Completing(q)' /\ GivesUpOpenly(q)'
             /\ (Undisturbed => Uploading(q)')
  <2>1. Control(q) /\ Shrunk(q) /\ Completing(q) /\ GivesUpOpenly(q)
    BY DEF MInv
  <2>2. Control(q)' /\ Shrunk(q)'
    BY <1>1, <1>4, <2>1 DEF Control, Shrunk
  <2>3. Completing(q)' /\ GivesUpOpenly(q)'
    BY <1>1, <1>4, <2>1 DEF Completing, ListComplete, GivesUpOpenly, Abandoned
  <2>4. ASSUME Undisturbed PROVE Uploading(q)'
    <3>1. Uploading(q)
      BY <2>4 DEF MInv
    <3>2. Strict(q) =>
            \A i \in PartNumbers :
              stored'[q][i] = stored[q][i] \/ stored'[q][i] = PlannedPart(q, i)
      <4>1. CASE stored' = stored
        BY <4>1
      <4>2. CASE Store(u, n, data)
        <5>1. Strict(q) /\ u = q => data = PlannedPart(q, n)
          BY <1>2, <3>1 DEF Uploading, Strict
        <5> QED BY <1>1, <4>2, <5>1, StoreEffect
      <4> QED BY <1>3, <4>1, <4>2
    <3> QED BY <1>1, <1>4, <3>1, <3>2, UploadingKept
  <2> QED BY <2>2, <2>3, <2>4
<1>8. Undisturbed' <=> Undisturbed
  BY <1>1 DEF Undisturbed
<1> QED BY <1>5, <1>6, <1>7, <1>8 DEF MInv

\* A process's step keeps the invariant.
LEMMA ProcStep ==
  ASSUME MInv, NEW p \in Proc, Step(p) \/ Killed(p) \/ Truncate(p), world' = world
  PROVE  MInv'
<1>1. TypeOK' /\ Uploads'
  BY StepTypes, StepUploads
<1>2. ASSUME NEW q \in Proc
      PROVE  Control(q)' /\ Shrunk(q)' /\ Completing(q)'
  BY StepControl, StepShrunk, StepCompleting
<1>3. ASSUME NEW q \in Proc PROVE GivesUpOpenly(q)'
  <2>1. GivesUpOpenly(q)
    BY DEF MInv
  <2> QED BY <2>1, StepGivesUp DEF GivesUpOpenly
<1>4. ASSUME NEW q \in Proc, Undisturbed PROVE Uploading(q)'
  BY <1>4, OwnUploading, OthersUploading
<1>5. Undisturbed' <=> Undisturbed
  BY SameWorld DEF Undisturbed
<1> QED BY <1>1, <1>2, <1>3, <1>4, <1>5 DEF MInv

\* The initial states satisfy the invariant.
LEMMA InitInv ==
  ASSUME Init
  PROVE  MInv
<1>1. world \in World
  BY WorldsAssumption DEF Init
<1>2. file \in [Proc -> Seq(Nat)] /\ file = InitFile
  BY <1>1 DEF Init, World, InitFile
<1>3. TypeOK
  <2>1. << >> \in Seq(Nat) /\ << >> \in Seq([n : PartNumbers, etag : Etag])
    OBVIOUS
  <2>2. 0 \in 0 .. MaxRetries
    BY MaxRetriesAssumption
  <2>3. /\ world \in Worlds
        /\ pc \in [Proc -> {"start", "plan", "read", "part", "send", "list", "complete",
                            "abort", "exit"}]
        /\ result \in [Proc -> {"none", "ok", "failed", "killed"}]
        /\ state \in [Proc -> {"none", "open", "completed", "aborted"}]
    BY DEF Init
  <2>4. /\ bytes \in [Proc -> Seq(Nat)]
        /\ parts \in [Proc -> Seq([n : PartNumbers, etag : Etag])]
        /\ tries \in [Proc -> 0 .. MaxRetries]
    BY <2>1, <2>2 DEF Init
  <2>5. /\ uid \in [Proc -> Proc \cup {None}]
        /\ size \in [Proc -> Nat] /\ next \in [Proc -> Nat] /\ last \in [Proc -> Nat]
        /\ due \in [Proc -> SUBSET PartNumbers] /\ acked \in [Proc -> SUBSET PartNumbers]
    BY DEF Init
  <2>6. /\ stored \in [Proc -> [PartNumbers -> Seq(Nat) \cup {None}]]
        /\ content \in [Proc -> Seq(Seq(Nat)) \cup {None}]
        /\ late \subseteq [u : Proc, n : PartNumbers, data : Seq(Nat)]
    BY DEF Init
  <2>7. aborted \in [Proc -> BOOLEAN]
    BY DEF Init
  <2> QED BY <1>2, <2>3, <2>4, <2>5, <2>6, <2>7 DEF TypeOK
<1>4. Uploads
  BY DEF Init, Uploads, Stored
<1>5. ASSUME NEW p \in Proc
      PROVE  /\ Control(p) /\ Shrunk(p) /\ Completing(p) /\ GivesUpOpenly(p)
             /\ Uploading(p)
  <2>1. /\ pc[p] \in {"start", "exit"} /\ uid[p] = None /\ state[p] = "none"
        /\ result[p] = "none" /\ parts[p] = << >> /\ late = {}
    BY DEF Init
  <2>2. Control(p)
    BY <2>1, NoneAssumption DEF Control
  <2>3. Shrunk(p)
    <3>1. Len(file[p]) \in Nat
      BY <1>2, LenProperties
    <3> QED BY <1>2, <3>1 DEF Shrunk
  <2>4. Completing(p) /\ GivesUpOpenly(p) /\ ~Abandoned(p)
    BY <2>1 DEF Completing, GivesUpOpenly, Abandoned
  <2>5. Uploading(p)
    BY <2>1, <2>4 DEF Uploading
  <2> QED BY <2>2, <2>3, <2>4, <2>5
<1> QED BY <1>3, <1>4, <1>5 DEF MInv

\* MInv is inductive: every step of a process, a kill, a truncation and a late
\* part keep it.
THEOREM MultipartInvariance == Spec => []MInv
<1>1. Init => MInv
  BY InitInv
<1>2. MInv /\ [Next]_vars => MInv'
  <2> SUFFICES ASSUME MInv, [Next]_vars PROVE MInv'
    OBVIOUS
  <2>1. CASE \E p \in Proc : Step(p) \/ Killed(p) \/ Truncate(p)
    BY <2>1, ProcStep DEF Next, vars
  <2>2. CASE \E x \in late : LateStore(x)
    BY <2>2, LateStep DEF Next, vars
  <2>3. CASE UNCHANGED vars
    <3>1. /\ UNCHANGED <<world, pc, uid, size, bytes, next, last, tries, parts, result>>
          /\ UNCHANGED <<aborted, due, file, state, stored, content, late, acked>>
      BY <2>3 DEF vars, procVars, serverVars
    <3>2. TypeOK' /\ Uploads'
      BY <3>1 DEF MInv, TypeOK, Uploads, Stored, PartNumbers, Etag
    <3>3. ASSUME NEW q \in Proc
          PROVE  /\ Control(q)' /\ Shrunk(q)' /\ Completing(q)' /\ GivesUpOpenly(q)'
                 /\ (Undisturbed => Uploading(q)')
      <4>1. /\ Control(q) /\ Shrunk(q) /\ Completing(q) /\ GivesUpOpenly(q)
            /\ (Undisturbed => Uploading(q))
        BY DEF MInv
      <4>2. Job' = Job /\ InitFile' = InitFile /\ CheckEtags' = CheckEtags /\ Page' = Page
        BY <3>1, SameWorld
      <4>3. Control(q)' /\ Shrunk(q)' /\ Completing(q)' /\ GivesUpOpenly(q)'
        BY <3>1, <4>1, <4>2
           DEF Control, Shrunk, Completing, ListComplete, GivesUpOpenly, Abandoned
      <4>4. Uploading(q) => Uploading(q)'
        BY <3>1, <4>2, UploadingKept
      <4> QED BY <4>1, <4>3, <4>4
    <3>4. Undisturbed' <=> Undisturbed
      BY <3>1, SameWorld DEF Undisturbed
    <3> QED BY <3>2, <3>3, <3>4 DEF MInv
  <2> QED BY <2>1, <2>2, <2>3 DEF Next, Quiescent
<1> QED BY <1>1, <1>2, PTL DEF Spec

\* Processes, files, parts, uploads and late parts keep their types; the lists
\* of parts hold numbers the server accepts and no more.
THEOREM MultipartTypes == Spec => []TypeOK
<1>1. MInv => TypeOK
  BY DEF MInv
<1> QED BY <1>1, MultipartInvariance, PTL

\* The object `complete' makes contains every part whose upload was confirmed
\* before it asked for the list, or the server left it out of the first page;
\* where the server compares ETags, each with the contents that were listed.
THEOREM MultipartAcked == Spec => []AckedPartsSurvive
<1>1. MInv => AckedPartsSurvive
  <2> SUFFICES ASSUME MInv, NEW p \in Proc, Job[p].action = "complete", result[p] = "ok"
               PROVE  /\ ListComplete(p)
                      /\ CheckEtags =>
                           content[uid[p]] = [i \in DOMAIN parts[p] |-> parts[p][i].etag.of]
    BY DEF AckedPartsSurvive, ListComplete
  <2>1. Completing(p)
    BY DEF MInv
  <2> QED BY <2>1 DEF Completing
<1> QED BY <1>1, MultipartInvariance, PTL

\* Where no process uploads parts to another's upload and C is run without
\* -part, an `all' in C or Go that reports success has made an object of the
\* whole file in the right order, whatever is aborted, truncated or late.
THEOREM MultipartWhole == Spec => [](Undisturbed => AllStoresWholeFile)
<1>1. MInv => (Undisturbed => AllStoresWholeFile)
  <2> SUFFICES ASSUME MInv, Undisturbed, NEW p \in Proc, Checked(p), result[p] = "ok"
               PROVE  content[uid[p]] = Planned(p)
    BY DEF AllStoresWholeFile
  <2>1. Uploading(p) /\ Strict(p)
    BY DEF MInv, Checked, Strict
  <2>2. uid[p] = p
    BY <2>1, UploadsToItsOwn DEF Strict
  <2>3. /\ last[p] = NumParts("python", size[p])
        /\ content[p] = [n \in 1 .. last[p] |-> PlannedPart(p, n)]
    BY <2>1 DEF Uploading, Strict, Checked
  <2> QED BY <2>2, <2>3 DEF Planned, PlannedPart
<1> QED BY <1>1, MultipartInvariance, PTL

\* Only C and Go leave an upload open after a failed `all', and then, where no
\* process uploads parts to another's upload, every part of the file is stored.
THEOREM MultipartRecoverable == Spec => [](Undisturbed => FailedAllIsRecoverable)
<1>1. MInv => (Undisturbed => FailedAllIsRecoverable)
  <2> SUFFICES ASSUME MInv, Undisturbed, NEW p \in Proc, Abandoned(p)
               PROVE  /\ Job[p].lang \in {"c", "go"}
                      /\ Checked(p) =>
                           \A n \in DOMAIN Planned(p) : stored[uid[p]][n] = Planned(p)[n]
    BY DEF FailedAllIsRecoverable, Abandoned
  <2>1. Job[p].lang \in {"c", "go"}
    BY DEF MInv, GivesUpOpenly
  <2>2. ASSUME Checked(p), NEW n \in DOMAIN Planned(p)
        PROVE  stored[uid[p]][n] = Planned(p)[n]
    <3>1. Uploading(p) /\ Strict(p) /\ Control(p)
      BY <2>2 DEF MInv, Checked, Strict
    <3>2. uid[p] = p
      BY <3>1 DEF Control, Strict, Abandoned
    <3>3. last[p] = NumParts("python", size[p]) /\ Collected(p, last[p])
      BY <2>2, <3>1 DEF Uploading, Strict, Checked, AllUploaded
    <3>4. n \in 1 .. last[p] /\ Planned(p)[n] = PlannedPart(p, n)
      BY <2>2, <3>3 DEF Planned, PlannedPart
    <3> QED BY <3>2, <3>3, <3>4 DEF Collected
  <2> QED BY <2>1, <2>2
<1> QED BY <1>1, MultipartInvariance, PTL

----------------------------------------------------------------------------
(* The object of an `all' is the beginning of its file.                    *)

\* Where part n begins.
Offset(n) == (n - 1) * PartSize

\* The next part begins where the part ends.
LEMMA OffsetNext ==
  ASSUME NEW n \in Nat \ {0}
  PROVE  Offset(n) \in Nat /\ Offset(n + 1) = Offset(n) + PartSize
<1>1. (n - 1) * PartSize \in Nat /\ (n + 1) - 1 = (n - 1) + 1 /\ n - 1 \in Nat
  BY OffsetType
<1>2. \A k \in Nat : (k + 1) * PartSize = k * PartSize + PartSize
  BY PartSizeAssumption
<1> QED BY <1>1, <1>2 DEF Offset

\* d is the beginning of the piece of f at a, of at most a part's length.
PieceOf(f, a, d) == \E e \in 0 .. Len(f) : e <= a + PartSize /\ d = SubSeq(f, a + 1, e)

\* Pieces of f in their order, of which only empty ones follow one that is not
\* whole.
InOrder(f, c) ==
  \A n \in 1 .. Len(c) :
    /\ PieceOf(f, Offset(n), c[n])
    /\ Len(c[n]) < PartSize /\ n < Len(c) => c[n + 1] = << >>

\* How long a piece is.
LEMMA SubLength ==
  ASSUME NEW S, NEW f \in Seq(S), NEW a \in Nat, NEW e \in 0 .. Len(f)
  PROVE  /\ e <= a => SubSeq(f, a + 1, e) = << >>
         /\ e > a => Len(SubSeq(f, a + 1, e)) = e - a
<1>1. Len(f) \in Nat
  OBVIOUS
<1>2. CASE e <= a
  BY <1>1, <1>2
<1>3. CASE e > a
  <2>1. e \in a + 1 .. Len(f)
    BY <1>1, <1>3
  <2> QED BY <1>3, <2>1, CutJoined
<1> QED BY <1>1, <1>2, <1>3

\* One piece more.
LEMMA PieceAdded ==
  ASSUME NEW S, NEW f \in Seq(S), NEW a \in Nat, a <= Len(f), NEW d, PieceOf(f, a, d)
  PROVE  \E m \in 0 .. Len(f) :
           /\ SubSeq(f, 1, a) \o d = SubSeq(f, 1, m)
           /\ m = a + PartSize \/ Len(d) < PartSize
<1>1. PartSize \in Nat /\ PartSize > 0 /\ Len(f) \in Nat
  BY PartSizeAssumption
<1>2. PICK e \in 0 .. Len(f) : e <= a + PartSize /\ d = SubSeq(f, a + 1, e)
  BY DEF PieceOf
<1>3. CASE e <= a
  <2>1. d = << >>
    BY <1>2, <1>3, SubLength
  <2>2. SubSeq(f, 1, a) \in Seq(S)
    BY <1>1
  <2>3. SubSeq(f, 1, a) \o << >> = SubSeq(f, 1, a)
    BY <2>2, ConcatEmptySeq
  <2>4. Len(d) < PartSize /\ a \in 0 .. Len(f)
    BY <1>1, <2>1
  <2> QED BY <2>1, <2>3, <2>4
<1>4. CASE e > a
  <2>1. e \in a + 1 .. Len(f)
    BY <1>1, <1>4
  <2>2. SubSeq(f, 1, a) \o d = SubSeq(f, 1, e) /\ Len(d) = e - a
    BY <1>2, <2>1, CutJoined
  <2>3. e = a + PartSize \/ Len(d) < PartSize
    BY <1>1, <1>2, <2>2
  <2> QED BY <2>2, <2>3
<1> QED BY <1>1, <1>3, <1>4

\* The pieces joined are the beginning of the file.
LEMMA BeginningOf ==
  ASSUME NEW S, NEW f \in Seq(S), NEW c \in Seq(Seq(S)), InOrder(f, c)
  PROVE  IsPrefix(FlattenSeq(c), f)
<1> DEFINE Q == Seq(S)
           A(k) == SubSeq(c, 1, k)
           Upto(k) == \E m \in 0 .. Len(f) :
                        /\ FlattenSeq(A(k)) = SubSeq(f, 1, m)
                        /\ m = Offset(k + 1) \/ (k >= 1 /\ Len(c[k]) < PartSize)
           T == {k \in Nat : k <= Len(c) => Upto(k)}
<1>0. c \in Seq(Q) /\ Len(c) \in Nat /\ Len(f) \in Nat
  OBVIOUS
<1>1. 0 \in T
  <2>1. A(0) = << >>
    BY <1>0
  <2>2. FlattenSeq(<< >>) = << >> /\ SubSeq(f, 1, 0) = << >>
    BY FlattenFew
  <2>3. 0 = Offset(0 + 1) /\ 0 \in 0 .. Len(f)
    <3>1. (0 + 1) - 1 = 0 /\ 0 * PartSize = 0
      BY PartSizeAssumption
    <3> QED BY <1>0, <3>1 DEF Offset
  <2> HIDE DEF A
  <2>4. Upto(0)
    BY <2>1, <2>2, <2>3
  <2> HIDE DEF Upto
  <2> QED BY <2>4
<1>2. ASSUME NEW k \in Nat, k \in T PROVE k + 1 \in T
  <2> SUFFICES ASSUME k + 1 <= Len(c) PROVE Upto(k + 1)
    <3> HIDE DEF Upto
    <3> QED OBVIOUS
  <2>1. Upto(k)
    <3>1. k <= Len(c)
      BY <1>0
    <3> HIDE DEF Upto
    <3> QED BY <1>2, <3>1
  <2>2. PICK m \in 0 .. Len(f) : /\ FlattenSeq(A(k)) = SubSeq(f, 1, m)
                                 /\ m = Offset(k + 1) \/ (k >= 1 /\ Len(c[k]) < PartSize)
    BY <2>1
  <2> DEFINE d == c[k + 1]
  <2>0. k + 1 \in 1 .. Len(c) /\ k + 1 \in Nat \ {0}
    BY <1>0
  <2>3. d \in Q /\ PieceOf(f, Offset(k + 1), d)
    BY <1>0, <2>0 DEF InOrder
  <2>4. A(k) \in Seq(Q) /\ A(k + 1) = Append(A(k), d)
    <3> HIDE DEF Q
    <3> QED BY <1>0
  <2>5. FlattenSeq(A(k + 1)) = SubSeq(f, 1, m) \o d
    <3> DEFINE s == A(k)
    <3>1. s \in Seq(Seq(S))
      BY <2>4
    <3>2. d \in Seq(S)
      BY <2>3
    <3>3. A(k + 1) = Append(s, d) /\ FlattenSeq(s) = SubSeq(f, 1, m)
      BY <2>2, <2>4
    <3> HIDE DEF s, d, A
    <3>4. FlattenSeq(Append(s, d)) = FlattenSeq(s) \o d
      BY <3>1, <3>2, FlattenAppend
    <3> QED BY <3>3, <3>4, Zenon
  <2> HIDE DEF A
  <2>8. Offset((k + 1) + 1) = Offset(k + 1) + PartSize /\ Offset(k + 1) \in Nat
    BY <2>0, OffsetNext
  <2>6. CASE m = Offset(k + 1)
    <3>1. PieceOf(f, m, d) /\ m \in Nat /\ m <= Len(f)
      BY <1>0, <2>3, <2>6
    <3>2. PICK n \in 0 .. Len(f) : /\ SubSeq(f, 1, m) \o d = SubSeq(f, 1, n)
                                   /\ n = m + PartSize \/ Len(d) < PartSize
      <4> HIDE DEF d
      <4> QED BY <3>1, PieceAdded
    <3>3. n = Offset((k + 1) + 1) \/ (k + 1 >= 1 /\ Len(c[k + 1]) < PartSize)
      BY <2>6, <2>8, <3>2
    <3>4. FlattenSeq(A(k + 1)) = SubSeq(f, 1, n)
      BY <2>5, <3>2
    <3> QED BY <3>3, <3>4
  <2>7. CASE k >= 1 /\ Len(c[k]) < PartSize
    <3>1. k \in 1 .. Len(c) /\ k < Len(c)
      BY <1>0, <2>7
    <3>2. d = << >>
      BY <2>7, <3>1 DEF InOrder
    <3>3. SubSeq(f, 1, m) \in Seq(S)
      BY <1>0
    <3>4. SubSeq(f, 1, m) \o << >> = SubSeq(f, 1, m)
      BY <3>3, ConcatEmptySeq
    <3>5. k + 1 >= 1 /\ Len(c[k + 1]) < PartSize
      BY <3>2, PartSizeAssumption
    <3>6. FlattenSeq(A(k + 1)) = SubSeq(f, 1, m)
      BY <2>5, <3>2, <3>4
    <3> QED BY <3>5, <3>6
  <2> QED BY <2>2, <2>6, <2>7
<1>3. Nat \subseteq T
  <2> HIDE DEF T
  <2> QED BY <1>1, <1>2, SetInduction
<1>4. Upto(Len(c))
  <2> HIDE DEF Upto
  <2>1. Len(c) \in T /\ Len(c) <= Len(c)
    <3> HIDE DEF T
    <3> QED BY <1>0, <1>3
  <2> QED BY <2>1
<1>5. A(Len(c)) = c
  BY SubSeqFull, Zenon
<1>6. PICK m \in 0 .. Len(f) : FlattenSeq(A(Len(c))) = SubSeq(f, 1, m)
  BY <1>4
<1> HIDE DEF A
<1>7. FlattenSeq(c) = SubSeq(f, 1, m)
  BY <1>5, <1>6
<1> DEFINE x == SubSeq(f, 1, m)
<1>8. Len(x) = m /\ SubSeq(x, 1, m) = x /\ x \in Seq(S)
  BY <1>0
<1>9. IsPrefix(x, f)
  BY <1>8 DEF IsPrefix
<1> QED BY <1>7, <1>9

\* g is the beginning of f.
Cut(g, f) == Len(g) <= Len(f) /\ \A i \in 1 .. Len(g) : g[i] = f[i]

\* What is cut from the beginning of a file is a piece of the file, and one of
\* at most a part's length ends where it was told to or where the file ends.
LEMMA CutPiece ==
  ASSUME NEW S, NEW f \in Seq(S), NEW g \in Seq(S), Cut(g, f), NEW a \in Nat,
         NEW l \in Int, l <= PartSize, 0 <= a + l
  PROVE  /\ PieceOf(f, a, Slice(g, a, l))
         /\ Len(Slice(g, a, l)) < PartSize => l < PartSize \/ Len(g) < a + PartSize
         /\ l <= 0 \/ Len(g) <= a => Slice(g, a, l) = << >>
<1> DEFINE e == IF a + l < Len(g) THEN a + l ELSE Len(g)
           d == SubSeq(g, a + 1, e)
<1>1. /\ Len(f) \in Nat /\ Len(g) \in Nat /\ Len(g) <= Len(f)
      /\ PartSize \in Nat /\ PartSize > 0
  BY PartSizeAssumption DEF Cut
<1>2. e \in 0 .. Len(g) /\ e \in 0 .. Len(f) /\ e <= a + PartSize
  BY <1>1
<1>3. Slice(g, a, l) = d
  BY DEF Slice
<1>4. (e <= a => d = << >>) /\ (e > a => Len(d) = e - a)
  <2> HIDE DEF e
  <2> QED BY <1>2, SubLength
<1>5. d = SubSeq(f, a + 1, e)
  <2>1. CASE e <= a
    <3> HIDE DEF e
    <3> QED BY <1>2, <1>4, <2>1, SubLength
  <2>2. CASE e > a
    <3>1. e \in Int /\ a + 1 \in 1 .. Len(g) /\ a + 1 \in 1 .. Len(f)
      BY <1>1, <1>2, <2>2
    <3>2. e \in a + 1 .. Len(g) /\ e \in a + 1 .. Len(f)
      BY <1>1, <1>2, <2>2
    <3> DEFINE c == SubSeq(f, a + 1, e)
    <3> HIDE DEF e
    <3>3. /\ d \in Seq(S) /\ Len(d) = e - (a + 1) + 1
          /\ \A i \in 1 .. e - (a + 1) + 1 : d[i] = g[(a + 1) + i - 1]
      BY <3>1, <3>2, SubAt
    <3>4. /\ c \in Seq(S) /\ Len(c) = e - (a + 1) + 1
          /\ \A i \in 1 .. e - (a + 1) + 1 : c[i] = f[(a + 1) + i - 1]
      BY <3>1, <3>2, SubAt
    <3>5. \A i \in 1 .. e - (a + 1) + 1 : d[i] = c[i]
      <4> SUFFICES ASSUME NEW i \in 1 .. e - (a + 1) + 1 PROVE d[i] = c[i]
        OBVIOUS
      <4>1. (a + 1) + i - 1 \in 1 .. Len(g)
        BY <1>1, <3>2
      <4>2. g[(a + 1) + i - 1] = f[(a + 1) + i - 1]
        BY <4>1 DEF Cut
      <4> HIDE DEF c, d
      <4> QED BY <3>3, <3>4, <4>2
    <3> HIDE DEF c, d
    <3>6. c = d
      BY <3>3, <3>4, <3>5
    <3> QED BY <3>6 DEF c
  <2> QED BY <1>1, <1>2, <2>1, <2>2
<1>6. PieceOf(f, a, d)
  BY <1>2, <1>5 DEF PieceOf
<1>7. Len(d) < PartSize => l < PartSize \/ Len(g) < a + PartSize
  <2> SUFFICES ASSUME ~(l < PartSize), ~(Len(g) < a + PartSize)
               PROVE  ~(Len(d) < PartSize)
    OBVIOUS
  <2>1. e = a + PartSize /\ e > a
    BY <1>1
  <2> HIDE DEF d, e
  <2> QED BY <1>1, <1>4, <2>1
<1>8. l <= 0 \/ Len(g) <= a => d = << >>
  <2>1. l <= 0 \/ Len(g) <= a => e <= a
    BY <1>1
  <2> HIDE DEF d, e
  <2> QED BY <1>4, <2>1
<1> HIDE DEF d
<1> QED BY <1>3, <1>6, <1>7, <1>8

\* A file as C and Go plan it, however many parts they count, is in order.
LEMMA PlannedInOrder ==
  ASSUME NEW p \in Proc, InitFile[p] \in Seq(Nat), size[p] \in Nat, NEW k \in Nat
  PROVE  InOrder(InitFile[p], [n \in 1 .. k |-> PlannedPart(p, n)])
<1> DEFINE f == InitFile[p]
           s == size[p]
           c == [n \in 1 .. k |-> PlannedPart(p, n)]
           Long(n) == IF s - Offset(n) < PartSize THEN s - Offset(n) ELSE PartSize
<1>1. Cut(f, f) /\ Len(f) \in Nat /\ PartSize \in Nat /\ PartSize > 0
  BY PartSizeAssumption DEF Cut
<1>2. Len(c) = k
  OBVIOUS
<1>3. ASSUME NEW n \in 1 .. k
      PROVE  c[n] = Slice(f, Offset(n), Long(n))
  BY DEF PlannedPart, PartLen, Offset
<1>4. ASSUME NEW n \in Nat \ {0}
      PROVE  /\ Offset(n) \in Nat /\ Long(n) \in Int /\ Long(n) <= PartSize
             /\ 0 <= Offset(n) + Long(n)
  <2>1. Offset(n) \in Nat
    BY OffsetNext
  <2> QED BY <1>1, <2>1
<1> HIDE DEF f, s, c
<1>5. ASSUME NEW n \in 1 .. k PROVE PieceOf(f, Offset(n), c[n])
  <2>1. n \in Nat \ {0} /\ f \in Seq(Nat)
    BY DEF f
  <2> HIDE DEF Long
  <2>2. PieceOf(f, Offset(n), Slice(f, Offset(n), Long(n)))
    BY <1>1, <1>4, <2>1, CutPiece
  <2> QED BY <1>3, <2>2
<1>6. ASSUME NEW n \in 1 .. k, n < k, Len(c[n]) < PartSize PROVE c[n + 1] = << >>
  <2>1. n \in Nat \ {0} /\ n + 1 \in Nat \ {0} /\ n + 1 \in 1 .. k /\ f \in Seq(Nat) /\ s \in Nat
    BY <1>6 DEF f, s
  <2>2. Long(n) < PartSize \/ Len(f) < Offset(n) + PartSize
    <3> HIDE DEF Long
    <3>1. Len(Slice(f, Offset(n), Long(n))) < PartSize
      BY <1>3, <1>6
    <3> QED BY <1>1, <1>4, <2>1, <3>1, CutPiece
  <2>3. Offset(n + 1) = Offset(n) + PartSize /\ Offset(n) \in Nat
    BY <2>1, OffsetNext
  <2>4. Long(n + 1) <= 0 \/ Len(f) <= Offset(n + 1)
    <3>1. CASE Long(n) < PartSize
      <4>1. s - Offset(n) < PartSize
        BY <1>1, <2>1, <2>3, <3>1
      <4>2. s - Offset(n + 1) < 0
        BY <1>1, <2>1, <2>3, <4>1
      <4>3. Offset(n + 1) \in Nat
        BY <1>1, <2>3
      <4>4. Long(n + 1) <= 0
        BY <1>1, <2>1, <4>2, <4>3
      <4> HIDE DEF Long
      <4> QED BY <4>4
    <3>2. CASE Len(f) < Offset(n) + PartSize
      BY <1>1, <2>3, <3>2
    <3> QED BY <2>2, <3>1, <3>2
  <2>5. Slice(f, Offset(n + 1), Long(n + 1)) = << >>
    <3> HIDE DEF Long
    <3> QED BY <1>1, <1>4, <2>1, <2>4, CutPiece
  <2> QED BY <1>3, <2>1, <2>5
<1>7. InOrder(f, c)
  BY <1>2, <1>5, <1>6 DEF InOrder
<1> QED BY <1>7 DEF f, c

\* An `all' in Java or Python.
Lenient(p) == Job[p].action = "all" /\ Job[p].lang \in {"java", "python"}

\* `all' is run without -part in Java and Python.
WithoutPart == \A p \in Proc : Lenient(p) => Job[p].part <= 0

\* What the parts are cut from: Java's copy, or the file as it is now.
Source(p) == IF Job[p].lang = "java" THEN bytes[p] ELSE file[p]

\* The first k parts are at the server and in the list, in order; after one that
\* is not whole, there is nothing left to cut.
Gathered(p, k) ==
  /\ k \in Nat /\ DOMAIN parts[p] = 1 .. k
  /\ \A i \in 1 .. k :
       /\ i \in PartNumbers /\ parts[p][i].n = i /\ stored[p][i] \in Seq(Nat)
       /\ PieceOf(InitFile[p], Offset(i), stored[p][i])
       /\ Len(stored[p][i]) < PartSize =>
            /\ Len(Source(p)) < Offset(i) + PartSize
            /\ i < k => stored[p][i + 1] = << >>

\* Java's copy is an array, whose length is an int.
Addressed(p) == Job[p].lang = "java" => Len(bytes[p]) < 2^(IntBits - 1)

\* The progress of an `all' in Java or Python.
Loose(p) ==
  Lenient(p) =>
    /\ pc[p] \in {"start", "plan", "read"} => parts[p] = << >>
    /\ pc[p] = "read" => next[p] = 1
    /\ pc[p] = "part" =>
         /\ Cut(Source(p), InitFile[p]) /\ next[p] <= last[p] /\ Addressed(p)
         /\ OffsetsFit(p) => Gathered(p, next[p] - 1)
    /\ pc[p] = "complete" /\ OffsetsFit(p) => Gathered(p, Len(parts[p]))
    /\ pc[p] \notin {"abort", "exit"} => \A x \in late : x.u # p
    /\ result[p] = "ok" /\ OffsetsFit(p) =>
         content[p] \in Seq(Seq(Nat)) /\ InOrder(InitFile[p], content[p])

\* What is gathered stays so while it stays stored and the file grows no more.
LEMMA StillGathered ==
  ASSUME NEW q \in Proc, NEW k, Gathered(q, k), InitFile' = InitFile,
         parts'[q] = parts[q], Len(Source(q)) \in Nat, Len(Source(q)') \in Nat,
         Len(Source(q)') <= Len(Source(q)),
         \A i \in PartNumbers : stored'[q][i] = stored[q][i]
  PROVE  Gathered(q, k)'
<1>1. PartNumbers' = PartNumbers /\ \A i : Offset(i)' = Offset(i)
  BY DEF PartNumbers, Offset
<1>2. ASSUME NEW i \in 1 .. k
      PROVE  /\ i \in PartNumbers /\ parts'[q][i].n = i /\ stored'[q][i] = stored[q][i]
             /\ stored[q][i] \in Seq(Nat) /\ PieceOf(InitFile[q], Offset(i), stored[q][i])
             /\ i < k => stored'[q][i + 1] = stored[q][i + 1]
  <2>1. i < k => i + 1 \in 1 .. k
    BY DEF Gathered
  <2>2. \A j \in 1 .. k : /\ j \in PartNumbers /\ parts[q][j].n = j
                          /\ stored[q][j] \in Seq(Nat)
                          /\ PieceOf(InitFile[q], Offset(j), stored[q][j])
    BY DEF Gathered
  <2>3. \A j \in 1 .. k : stored'[q][j] = stored[q][j]
    BY <2>2
  <2> QED BY <2>1, <2>2, <2>3, Zenon
<1>3. ASSUME NEW i \in 1 .. k
      PROVE  PieceOf(InitFile[q], Offset(i), stored[q][i])'
  <2>1. PieceOf(InitFile[q], Offset(i), stored[q][i]) /\ stored'[q][i] = stored[q][i]
    BY <1>2
  <2> QED BY <1>1, <2>1 DEF PieceOf
<1>4. ASSUME NEW i \in 1 .. k, Len(stored[q][i]) < PartSize
      PROVE  /\ Len(Source(q)') < Offset(i) + PartSize
             /\ i < k => stored[q][i + 1] = << >>
  <2>1. /\ Len(Source(q)) < Offset(i) + PartSize
        /\ i < k => stored[q][i + 1] = << >>
    BY <1>4 DEF Gathered
  <2>2. i \in Nat \ {0}
    BY DEF Gathered
  <2>3. Offset(i) + PartSize \in Nat
    BY <2>2, OffsetNext, PartSizeAssumption
  <2> QED BY <2>1, <2>3
<1>5. k \in Nat /\ DOMAIN parts'[q] = 1 .. k
  BY DEF Gathered
<1>6. ASSUME NEW i \in 1 .. k
      PROVE  /\ i \in PartNumbers' /\ parts'[q][i].n = i /\ stored'[q][i] \in Seq(Nat)
             /\ PieceOf(InitFile[q], Offset(i), stored[q][i])'
             /\ Len(stored'[q][i]) < PartSize =>
                  /\ Len(Source(q)') < Offset(i)' + PartSize
                  /\ i < k => stored'[q][i + 1] = << >>
  BY <1>1, <1>2, <1>3, <1>4
<1> QED BY <1>5, <1>6 DEF Gathered

\* The progress of an `all' stays what it is when nothing disturbs it.
LEMMA LooseKept ==
  ASSUME NEW q \in Proc, Loose(q), Job' = Job, InitFile' = InitFile,
         bytes[q] \in Seq(Nat), file[q] \in Seq(Nat), file'[q] \in Seq(Nat),
         Len(file'[q]) <= Len(file[q]), Cut(file'[q], InitFile[q]),
         pc'[q] = pc[q], bytes'[q] = bytes[q], next'[q] = next[q], last'[q] = last[q],
         parts'[q] = parts[q], result'[q] = result[q],
         \A x \in late' : x.u = q => x \in late,
         Lenient(q) /\ pc[q] \notin {"abort", "exit"} =>
           \A i \in PartNumbers : stored'[q][i] = stored[q][i],
         Lenient(q) /\ result[q] = "ok" => content'[q] = content[q]
  PROVE  Loose(q)'
<1> SUFFICES ASSUME Lenient(q) PROVE Loose(q)'
  BY DEF Loose, Lenient
<1>1. /\ Len(Source(q)) \in Nat /\ Len(Source(q)') \in Nat
      /\ Len(Source(q)') <= Len(Source(q))
  BY LenProperties DEF Source
<1>2. Cut(Source(q), InitFile[q]) => Cut(Source(q), InitFile[q])'
  BY DEF Source, Cut
<1>3. pc[q] \notin {"abort", "exit"} => \A k : Gathered(q, k) => Gathered(q, k)'
  BY <1>1, StillGathered
<1>4. pc[q] = "part" /\ Gathered(q, next[q] - 1) => Gathered(q, next[q] - 1)'
  <2>1. PICK k : k = next[q] - 1
    OBVIOUS
  <2>2. k = (next[q] - 1)'
    BY <2>1
  <2> QED BY <1>3, <2>1, <2>2
<1>5. pc[q] = "complete" /\ Gathered(q, Len(parts[q])) => Gathered(q, Len(parts[q]))'
  <2>1. PICK k : k = Len(parts[q])
    OBVIOUS
  <2>2. k = Len(parts[q])'
    BY <2>1
  <2> QED BY <1>3, <2>1, <2>2
<1>6. InOrder(InitFile[q], content[q]) /\ result[q] = "ok" => InOrder(InitFile[q], content[q])'
  BY DEF InOrder, PieceOf, Offset
<1>7. (OffsetsFit(q)' <=> OffsetsFit(q)) /\ (Addressed(q)' <=> Addressed(q))
  BY DEF OffsetsFit, Addressed
<1> QED BY <1>2, <1>4, <1>5, <1>6, <1>7 DEF Loose, Lenient

\* What one process does is nothing to another's `all'.
LEMMA OthersLoose ==
  ASSUME MInv, Undisturbed, NEW p \in Proc, Step(p) \/ Killed(p) \/ Truncate(p),
         world' = world, NEW q \in Proc, q # p, Loose(q)
  PROVE  Loose(q)'
<1>1. TypeOK /\ Shrunk(q) /\ Job' = Job /\ InitFile' = InitFile
  BY SameWorld DEF MInv
<1>2. /\ pc'[q] = pc[q] /\ bytes'[q] = bytes[q] /\ file'[q] = file[q]
      /\ next'[q] = next[q] /\ last'[q] = last[q] /\ parts'[q] = parts[q]
      /\ result'[q] = result[q]
  BY <1>1, OthersStay DEF Own
<1>3. bytes[q] \in Seq(Nat) /\ file[q] \in Seq(Nat) /\ Len(file[q]) \in Nat
  BY <1>1, LenProperties DEF TypeOK
<1>4. Cut(file'[q], InitFile[q])
  BY <1>1, <1>2 DEF Cut, Shrunk
<1> QED BY <1>1, <1>2, <1>3, <1>4, OthersServer, LooseKept DEF Lenient

\* A piece that is asked for with as many bytes as there are, or with more when
\* there are none, is the same piece.
LEMMA SliceRest ==
  ASSUME NEW f \in Seq(Nat), NEW from \in Nat, NEW len \in Int, len >= 0,
         from < Len(f) =>
           len = IF PartSize < Len(f) - from THEN PartSize ELSE Len(f) - from
  PROVE  Slice(f, from, len) = Slice(f, from, PartSize)
<1>1. Len(f) \in Nat /\ PartSize \in Nat
  BY LenProperties, PartSizeAssumption
<1>2. (IF from + len < Len(f) THEN from + len ELSE Len(f))
        = (IF from + PartSize < Len(f) THEN from + PartSize ELSE Len(f))
  BY <1>1
<1> QED BY <1>2 DEF Slice

\* Offsets and lengths that fit an int are what Java computes.
LEMMA JavaCutsPart ==
  ASSUME NEW f \in Seq(Nat), NEW n \in Nat \ {0}, NEW m \in Nat, n <= m,
         Len(f) < 2^(IntBits - 1), (m - 1) * PartSize < 2^(IntBits - 1),
         NEW rest, rest = AsInt(Len(f) - AsInt((n - 1) * PartSize)),
         NEW len, len = AsInt(IF PartSize < rest THEN PartSize ELSE rest), len >= 0
  PROVE  Slice(f, AsInt((n - 1) * PartSize), len) = Slice(f, Offset(n), PartSize)
<1> DEFINE H == 2^(IntBits - 1)
           from == (n - 1) * PartSize
<1>1. H \in Nat /\ Len(f) \in Nat /\ PartSize \in Nat \ {0}
  BY IntHalf, LenProperties, PartSizeAssumption
<1>2. from \in Nat /\ from < H
  <2>1. (m - 1) * PartSize = from + (m - n) * PartSize /\ (m - n) * PartSize >= 0
    BY <1>1
  <2> QED BY <1>1, <2>1, OffsetType
<1> HIDE DEF from
<1>3. AsInt(from) = from
  BY <1>2, AsIntFits DEF H
<1>4. rest \in Int
  BY <1>1, <1>2, <1>3, AsIntFits DEF from
<1>5. len \in Int
  BY <1>1, <1>4, AsIntFits
<1>6. ASSUME from < Len(f)
      PROVE  len = IF PartSize < Len(f) - from THEN PartSize ELSE Len(f) - from
  <2>1. Len(f) - from \in Int /\ 0 <= Len(f) - from /\ Len(f) - from < H
    BY <1>1, <1>2, <1>6
  <2>2. rest = Len(f) - from
    BY <1>3, <2>1, AsIntFits DEF from, H
  <2> DEFINE k == IF PartSize < rest THEN PartSize ELSE rest
  <2>3. k \in Int /\ 0 <= k /\ k < H
    BY <1>1, <2>1, <2>2
  <2>4. len = AsInt(k)
    OBVIOUS
  <2> HIDE DEF k
  <2>5. len = k
    BY <2>3, <2>4, AsIntFits DEF H
  <2> QED BY <2>2, <2>5 DEF k
<1>7. Slice(f, from, len) = Slice(f, from, PartSize)
  BY <1>2, <1>5, <1>6, SliceRest
<1> QED BY <1>3, <1>7 DEF from, Offset

\* The part that Java and Python upload.
LEMMA LenientUpload ==
  ASSUME MInv, NEW p \in Proc, Lenient(p), Loose(p),
         CUploadPart(p) \/ GoUploadPart(p) \/ JavaUploadPart(p) \/ PythonUploadPart(p)
  PROVE  /\ pc[p] = "part"
         /\ \/ ReadFails(p)
            \/ \E data, etag :
                 /\ UploadPart(p, data, etag)
                 /\ OffsetsFit(p) => data = Slice(Source(p), Offset(next[p]), PartSize)
<1>1. Control(p)
  BY DEF MInv
<1>2. JavaUploadPart(p) \/ PythonUploadPart(p)
  BY <1>1 DEF CUploadPart, GoUploadPart, Control, Lenient
<1>3. CASE JavaUploadPart(p)
  <2> DEFINE offset == AsInt((next[p] - 1) * PartSize)
             rest   == AsInt(Len(bytes[p]) - offset)
             len    == AsInt(IF PartSize < rest THEN PartSize ELSE rest)
  <2>1. /\ pc[p] = "part" /\ Job[p].lang = "java"
        /\ \/ len >= 0 /\ UploadPart(p, Slice(bytes[p], offset, len), MadeEtag(next[p]))
           \/ ReadFails(p)
    BY <1>3 DEF JavaUploadPart
  <2>2. /\ bytes[p] \in Seq(Nat) /\ next[p] \in Nat \ {0} /\ last[p] \in Nat
        /\ next[p] <= last[p] /\ Len(bytes[p]) < 2^(IntBits - 1)
    BY <1>1, <2>1 DEF MInv, TypeOK, Control, Loose, Addressed
  <2>3. ASSUME OffsetsFit(p), len >= 0
        PROVE  Slice(bytes[p], offset, len) = Slice(Source(p), Offset(next[p]), PartSize)
    <3>1. (last[p] - 1) * PartSize < 2^(IntBits - 1) /\ Source(p) = bytes[p]
      BY <2>1, <2>3 DEF OffsetsFit, Source
    <3> QED BY <2>2, <2>3, <3>1, JavaCutsPart
  <2> QED BY <2>1, <2>3
<1>4. CASE PythonUploadPart(p)
  BY <1>4 DEF PythonUploadPart, Source, Offset
<1> QED BY <1>2, <1>3, <1>4

\* One part more.
LEMMA GathersPart ==
  ASSUME TypeOK, NEW p \in Proc, NEW n \in Nat \ {0}, NEW etag, InitFile' = InitFile,
         InitFile[p] \in Seq(Nat), Source(p) \in Seq(Nat), Source(p)' = Source(p),
         Cut(Source(p), InitFile[p]), Gathered(p, n - 1),
         Store(p, n, Slice(Source(p), Offset(n), PartSize)),
         parts'[p] = Append(parts[p], [n |-> n, etag |-> etag])
  PROVE  Gathered(p, n)' /\ Len(parts'[p]) = n
<1> DEFINE f == InitFile[p]
           g == Source(p)
           d == Slice(g, Offset(n), PartSize)
<1>1. /\ Offset(n) \in Nat /\ PartSize \in Int /\ 0 <= Offset(n) + PartSize
      /\ Len(g) \in Nat /\ PartSize \in Nat
  BY OffsetNext, PartSizeAssumption, LenProperties
<1>2. /\ PieceOf(f, Offset(n), d)
      /\ Len(d) < PartSize => Len(g) < Offset(n) + PartSize
      /\ Len(g) <= Offset(n) => d = << >>
  <2> HIDE DEF f, g
  <2>1. f \in Seq(Nat) /\ g \in Seq(Nat) /\ Cut(g, f)
    BY DEF f, g
  <2> QED BY <1>1, <2>1, CutPiece
<1>3. d \in Seq(Nat)
  BY <1>1, SliceType
<1>4. /\ n \in PartNumbers /\ stored'[p][n] = d
      /\ \A i \in PartNumbers : i # n => stored'[p][i] = stored[p][i]
  BY StoreEffect
<1>5. parts[p] \in Seq([n : PartNumbers, etag : Etag]) /\ DOMAIN parts[p] = 1 .. n - 1
  BY DEF TypeOK, Gathered
<1>6. Len(parts[p]) = n - 1
  BY <1>5, LenProperties
<1>7. /\ DOMAIN parts'[p] = 1 .. n /\ parts'[p][n].n = n /\ Len(parts'[p]) = n
      /\ \A i \in 1 .. n - 1 : parts'[p][i] = parts[p][i]
  BY <1>5, <1>6
<1>8. PartNumbers' = PartNumbers /\ (\A i : Offset(i)' = Offset(i)) /\ f' = f
  BY DEF PartNumbers, Offset
<1> HIDE DEF f, g, d
<1>9. ASSUME NEW i \in 1 .. n - 1
      PROVE  /\ i \in PartNumbers /\ parts'[p][i].n = i /\ stored'[p][i] \in Seq(Nat)
             /\ PieceOf(f, Offset(i), stored'[p][i])
             /\ Len(stored'[p][i]) < PartSize =>
                  Len(g) < Offset(i) + PartSize /\ stored'[p][i + 1] = << >>
  <2>1. /\ i \in PartNumbers /\ parts[p][i].n = i /\ stored[p][i] \in Seq(Nat)
        /\ PieceOf(f, Offset(i), stored[p][i])
        /\ Len(stored[p][i]) < PartSize =>
             /\ Len(g) < Offset(i) + PartSize
             /\ i < n - 1 => stored[p][i + 1] = << >>
    BY DEF Gathered, f, g
  <2>2. i # n /\ i \in Nat \ {0}
    OBVIOUS
  <2>3. stored'[p][i] = stored[p][i]
    BY <1>4, <2>1, <2>2
  <2>4. ASSUME Len(stored[p][i]) < PartSize PROVE stored'[p][i + 1] = << >>
    <3>1. CASE i < n - 1
      <4>1. i + 1 \in 1 .. n - 1 /\ i + 1 # n
        BY <3>1
      <4>2. i + 1 \in PartNumbers
        BY <4>1 DEF Gathered
      <4> QED BY <1>4, <2>1, <2>4, <3>1, <4>1, <4>2
    <3>2. CASE i = n - 1
      <4>0. Offset(i + 1) = Offset(i) + PartSize
        BY <2>2, OffsetNext
      <4>3. i + 1 = n
        BY <3>2
      <4>1. i + 1 = n /\ Offset(i) + PartSize = Offset(n)
        BY <4>0, <4>3, Zenon
      <4>2. Len(g) <= Offset(n)
        BY <1>1, <2>1, <2>4, <4>1
      <4> QED BY <1>2, <1>4, <4>1, <4>2
    <3> QED BY <3>1, <3>2
  <2> QED BY <1>7, <2>1, <2>3, <2>4
<1>10. ASSUME NEW i \in 1 .. n
       PROVE  /\ i \in PartNumbers /\ parts'[p][i].n = i /\ stored'[p][i] \in Seq(Nat)
              /\ PieceOf(f, Offset(i), stored'[p][i])
              /\ Len(stored'[p][i]) < PartSize =>
                   /\ Len(g) < Offset(i) + PartSize
                   /\ i < n => stored'[p][i + 1] = << >>
  <2>1. CASE i = n
    BY <1>2, <1>3, <1>4, <1>7, <2>1
  <2>2. CASE i # n
    <3>1. i \in 1 .. n - 1
      BY <2>2
    <3> QED BY <1>9, <3>1
  <2> QED BY <2>1, <2>2
<1>11. ASSUME NEW i \in 1 .. n
       PROVE  PieceOf(InitFile[p], Offset(i), stored[p][i])'
  BY <1>8, <1>10 DEF PieceOf, f
<1>12. Source(p)' = g
  BY DEF g
<1>13. ASSUME NEW i \in 1 .. n
       PROVE  /\ i \in PartNumbers' /\ parts'[p][i].n = i /\ stored'[p][i] \in Seq(Nat)
              /\ Len(stored'[p][i]) < PartSize =>
                   /\ Len(Source(p)') < Offset(i)' + PartSize
                   /\ i < n => stored'[p][i + 1] = << >>
  BY <1>8, <1>10, <1>12
<1> QED BY <1>7, <1>11, <1>13 DEF Gathered

\* What a step of an `all' in Java or Python does to its progress.
LEMMA OwnLoose ==
  ASSUME MInv, Undisturbed, WithoutPart, NEW p \in Proc,
         Step(p) \/ Killed(p) \/ Truncate(p), world' = world, Loose(p)
  PROVE  Loose(p)'
<1>1. /\ TypeOK /\ TypeOK' /\ Control(p) /\ Uploads /\ Shrunk(p) /\ Shrunk(p)'
      /\ Job' = Job /\ InitFile' = InitFile
  BY StepTypes, StepShrunk, SameWorld DEF MInv
<1> SUFFICES ASSUME Lenient(p) PROVE Loose(p)'
  BY <1>1 DEF Lenient, Loose
<1>2. /\ Job[p].action = "all" /\ Job[p].lang \in {"java", "python"}
      /\ "upload" \in Main(p).abortsOn /\ "complete" \in Main(p).abortsOn
      /\ InitFile[p] \in Seq(Nat)
  BY <1>1, CommandLine DEF Lenient
<1>3. /\ pc \in [Proc -> Pcs] /\ result \in [Proc -> Outcomes]
      /\ next \in [Proc -> Nat] /\ bytes \in [Proc -> Seq(Nat)] /\ file \in [Proc -> Seq(Nat)]
      /\ file' \in [Proc -> Seq(Nat)]
      /\ parts \in [Proc -> Seq([n : PartNumbers, etag : Etag])]
  BY <1>1 DEF TypeOK, Pcs, Outcomes
<1>4. Main(p).part <= 0 /\ Main(p).part \in Int
  <2>1. Main(p) = JavaMain(Job[p]) \/ Main(p) = PythonMain(Job[p])
    BY <1>2 DEF Main
  <2>2. Job[p].part <= 0
    BY DEF WithoutPart
  <2> QED BY <1>1, <2>1, <2>2, CommandLine DEF JavaMain, PythonMain
<1>5. pc[p] # "exit" => result[p] = "none"
  BY <1>1, <1>3 DEF Control, Outcomes
\* The ends that are no success.
<1>6. ASSUME pc'[p] \in {"abort", "exit"}, result'[p] # "ok" PROVE Loose(p)'
  BY <1>6 DEF Loose
<1>7. GiveUp(p, "upload") /\ pc[p] # "exit" => Loose(p)'
  <2> SUFFICES ASSUME GiveUp(p, "upload"), pc[p] # "exit" PROVE Loose(p)'
    OBVIOUS
  <2>1. pc'[p] = "abort" /\ result'[p] = "none"
    BY <1>2, <1>3, <1>5 DEF GiveUp, Goto
  <2> QED BY <1>6, <2>1
\* The first part is the next one, or there is none.
<1>8. ASSUME parts'[p] = << >>, result'[p] = "none", \A x \in late' : x.u # p,
             \/ pc'[p] = "complete"
             \/ pc'[p] = "read" /\ next'[p] = 1
             \/ /\ pc'[p] = "part" /\ next'[p] = 1 /\ next'[p] <= last'[p]
                /\ Cut(Source(p), InitFile[p])' /\ Addressed(p)'
      PROVE  Loose(p)'
  <2>1. Gathered(p, 0)'
    BY <1>8 DEF Gathered
  <2>2. CASE pc'[p] = "complete"
    <3>1. Len(parts'[p]) = 0
      BY <1>8
    <3>2. Gathered(p, Len(parts[p]))'
      BY <2>1, <3>1
    <3> QED BY <1>8, <2>2, <3>2 DEF Loose
  <2>3. CASE /\ pc'[p] = "part" /\ next'[p] = 1 /\ next'[p] <= last'[p]
             /\ Cut(Source(p), InitFile[p])' /\ Addressed(p)'
    <3>1. (next[p] - 1)' = 0
      BY <2>3
    <3>2. Gathered(p, next[p] - 1)'
      BY <2>1, <3>1
    <3> QED BY <1>8, <2>3, <3>2 DEF Loose
  <2>4. CASE pc'[p] = "read" /\ next'[p] = 1
    BY <1>8, <2>4 DEF Loose
  <2> QED BY <1>8, <2>2, <2>3, <2>4
<1>9. CASE CreateMultipart(p)
  <2>1. /\ pc[p] = "start" /\ result[p] = "none" /\ state[p] = "none"
        /\ UNCHANGED <<parts, late>>
    BY <1>1, <1>5, <1>9 DEF CreateMultipart, Does, Control
  <2>2. pc'[p] \in {"plan", "exit"} /\ result'[p] # "ok"
    BY <1>2, <1>3, <1>9, <2>1 DEF CreateMultipart, Goto, Exit
  <2>3. \A x \in late' : x.u # p
    BY <1>1, <2>1 DEF Uploads
  <2>4. parts'[p] = << >>
    BY <2>1 DEF Loose
  <2> QED BY <2>2, <2>3, <2>4 DEF Loose
<1>10. CASE PlanParts(p)
  <2>1. pc[p] = "plan" /\ result[p] = "none" /\ UNCHANGED <<parts, late, bytes, file>>
    BY <1>5, <1>10 DEF PlanParts, serverVars
  <2>2. parts'[p] = << >> /\ \A x \in late' : x.u # p
    BY <2>1 DEF Loose
  <2>3. CASE GiveUp(p, "upload")
    BY <1>7, <2>1, <2>3
  <2>4. CASE ~GiveUp(p, "upload")
    <3>1. /\ 0 <= Main(p).part /\ next' = [next EXCEPT ![p] = FirstPart(Main(p).part)]
          /\ \E count : /\ last' = [last EXCEPT ![p] = count] /\ Main(p).part <= count
                         /\ \/ Job[p].lang = "java" /\ Goto(p, "read") /\ UNCHANGED result
                            \/ PartsDone(p)
                            \/ /\ Job[p].lang # "java" /\ count # 0
                               /\ Goto(p, "part") /\ UNCHANGED result
      BY <1>4, <1>10, <2>4 DEF PlanParts
    <3>2. next'[p] = 1
      BY <1>3, <1>4, <3>1 DEF FirstPart
    <3>5. pc'[p] = "part" => next'[p] <= last'[p]
      <4>1. last'[p] \in Nat
        BY <1>1 DEF TypeOK
      <4>2. last \in [Proc -> Nat]
        BY <1>1 DEF TypeOK
      <4>3. PICK count : /\ last' = [last EXCEPT ![p] = count]
                         /\ pc'[p] = "part" => count # 0
        BY <1>2, <1>3, <3>1 DEF PartsDone, Goto
      <4>4. last'[p] = count
        BY <4>2, <4>3
      <4> QED BY <3>2, <4>1, <4>3, <4>4
    <3>3. /\ result'[p] = "none"
          /\ \/ pc'[p] = "read" \/ pc'[p] = "complete"
             \/ pc'[p] = "part" /\ Job[p].lang # "java"
      BY <1>2, <1>3, <2>1, <3>1 DEF PartsDone, Goto
    <3>4. Job[p].lang # "java" => Cut(Source(p), InitFile[p])' /\ Addressed(p)'
      BY <1>1 DEF Cut, Shrunk, Source, Addressed
    <3> QED BY <1>8, <2>2, <3>2, <3>3, <3>4, <3>5
  <2> QED BY <2>3, <2>4
<1>11. CASE ReadAllBytes(p)
  <2>1. pc[p] = "read" /\ result[p] = "none" /\ UNCHANGED <<parts, late, next, last, file>>
    BY <1>5, <1>11 DEF ReadAllBytes, serverVars
  <2>2. parts'[p] = << >> /\ next'[p] = 1 /\ \A x \in late' : x.u # p
    BY <2>1 DEF Loose
  <2>3. CASE Exit(p, "killed")
    <3>1. pc'[p] = "exit" /\ result'[p] = "killed"
      BY <1>3, <2>3 DEF Exit, Goto
    <3> QED BY <1>6, <3>1
  <2>4. CASE GiveUp(p, "upload")
    BY <1>7, <2>1, <2>4
  <2>5. CASE ~Exit(p, "killed") /\ ~GiveUp(p, "upload")
    <3>1. /\ bytes' = [bytes EXCEPT ![p] = file[p]] /\ ~(Len(file[p]) >= 2^(IntBits - 1))
          /\ PartsDone(p) \/ (last[p] # 0 /\ Goto(p, "part") /\ UNCHANGED result)
      BY <1>11, <2>5 DEF ReadAllBytes
    <3>2. bytes'[p] = file[p] /\ file'[p] = file[p]
      BY <1>3, <2>1, <3>1
    <3>3. Source(p)' = file[p]
      BY <3>2 DEF Source
    <3>4. Cut(Source(p), InitFile[p])'
      BY <1>1, <3>3 DEF Cut, Shrunk
    <3>5. result'[p] = "none" /\ (pc'[p] = "complete" \/ pc'[p] = "part")
      BY <1>2, <1>3, <2>1, <3>1 DEF PartsDone, Goto
    <3>6. pc'[p] = "part" => next'[p] <= last'[p]
      <4>1. last[p] \in Nat /\ last'[p] = last[p]
        BY <1>1, <2>1 DEF TypeOK
      <4>2. pc'[p] = "part" => last[p] # 0
        BY <1>2, <1>3, <3>1 DEF PartsDone, Goto
      <4> QED BY <2>2, <4>1, <4>2
    <3>7. Addressed(p)'
      <4>1. Len(file[p]) \in Nat /\ 2^(IntBits - 1) \in Nat
        BY <1>3, LenProperties, IntHalf
      <4> QED BY <3>1, <3>2, <4>1 DEF Addressed
    <3> QED BY <1>8, <2>2, <3>4, <3>5, <3>6, <3>7
  <2> QED BY <2>3, <2>4, <2>5
<1>12. CASE ReadFails(p) /\ pc[p] = "part"
  BY <1>7, <1>12 DEF ReadFails
<1>13. ASSUME NEW data, NEW etag, pc[p] = "part", UploadPart(p, data, etag),
              OffsetsFit(p) => data = Slice(Source(p), Offset(next[p]), PartSize)
       PROVE  Loose(p)'
  <2>1. CASE GiveUp(p, "upload")
    BY <1>7, <1>13, <2>1
  <2>2. CASE ~GiveUp(p, "upload")
    <3> PICK n \in Nat \ {0} : n = next[p]
      BY <1>1, <1>3, <1>13 DEF Control
    <3>1. uid[p] = p /\ result[p] = "none"
      BY <1>5, <1>13, UploadsToItsOwn
    <3>2. /\ Store(p, n, data) /\ UNCHANGED <<late, bytes, file, last>>
          /\ parts' = [parts EXCEPT ![p] = Append(@, [n |-> n, etag |-> etag])]
          /\ \/ /\ n < last[p] /\ next' = [next EXCEPT ![p] = n + 1]
                /\ Goto(p, "part") /\ UNCHANGED result
             \/ PartsDone(p)
      BY <1>13, <2>2, <3>1 DEF UploadPart
    <3>3. parts'[p] = Append(parts[p], [n |-> n, etag |-> etag])
      BY <1>3, <3>2
    <3>4. /\ Cut(Source(p), InitFile[p]) /\ Addressed(p)
          /\ OffsetsFit(p) => Gathered(p, n - 1)
          /\ \A x \in late : x.u # p
      BY <1>13 DEF Loose
    <3>5. Source(p) \in Seq(Nat) /\ Source(p)' = Source(p)
      BY <1>1, <1>3, <3>2 DEF Source
    <3>10. (OffsetsFit(p)' <=> OffsetsFit(p)) /\ Addressed(p)'
      BY <1>1, <3>2, <3>4 DEF OffsetsFit, Addressed
    <3>6. ASSUME OffsetsFit(p) PROVE Gathered(p, n)' /\ Len(parts'[p]) = n
      <4>1. Store(p, n, Slice(Source(p), Offset(n), PartSize))
        BY <1>13, <3>2, <3>6
      <4>2. Gathered(p, n - 1)
        BY <3>4, <3>6
      <4> QED BY <4>2, <1>1, <1>2, <3>3, <3>4, <3>5, <4>1, GathersPart
    <3>7. Cut(Source(p), InitFile[p])' /\ \A x \in late' : x.u # p
      BY <1>1, <3>2, <3>4, <3>5 DEF Cut
    <3>8. CASE /\ n < last[p] /\ next' = [next EXCEPT ![p] = n + 1]
               /\ Goto(p, "part") /\ UNCHANGED result
      <4>1. pc'[p] = "part" /\ result'[p] = "none" /\ (next[p] - 1)' = n
        BY <1>3, <3>1, <3>8 DEF Goto
      <4>2. OffsetsFit(p)' => Gathered(p, next[p] - 1)'
        BY <3>6, <3>10, <4>1
      <4>3. next'[p] <= last'[p]
        <5>1. last[p] \in Nat /\ last'[p] = last[p] /\ next'[p] = n + 1
          BY <1>1, <1>3, <3>2, <3>8 DEF TypeOK
        <5> QED BY <3>8, <5>1
      <4> QED BY <3>7, <3>10, <4>1, <4>2, <4>3 DEF Loose
    <3>9. CASE PartsDone(p)
      <4>1. pc'[p] = "complete" /\ result'[p] = "none"
        BY <1>2, <1>3, <3>1, <3>9 DEF PartsDone, Goto
      <4>2. OffsetsFit(p)' => Gathered(p, Len(parts[p]))'
        BY <3>6, <3>10
      <4> QED BY <3>7, <4>1, <4>2 DEF Loose
    <3> QED BY <3>2, <3>8, <3>9
  <2> QED BY <2>1, <2>2
<1>14. CASE CompleteMultipart(p)
  <2>1. pc[p] = "complete" /\ result[p] = "none" /\ uid[p] = p
    BY <1>2, <1>5, <1>14, UploadsToItsOwn DEF CompleteMultipart, Does
  <2>2. pc'[p] \in {"abort", "exit"}
    BY <1>3, <1>14 DEF CompleteMultipart, GiveUp, Goto, Exit
  <2>3. ASSUME result'[p] = "ok", OffsetsFit(p)'
        PROVE  content'[p] \in Seq(Seq(Nat)) /\ InOrder(InitFile[p], content[p])'
    <3>1. content' = [content EXCEPT ![p] =
                        [i \in DOMAIN parts[p] |-> stored[p][parts[p][i].n]]]
      BY <1>3, <1>14, <2>1, <2>3 DEF CompleteMultipart, GiveUp, Exit
    <3>2. content'[p] = [i \in DOMAIN parts[p] |-> stored[p][parts[p][i].n]]
      BY <1>1, <3>1 DEF TypeOK
    <3>3. PICK k : k = Len(parts[p])
      OBVIOUS
    <3>4. k \in Nat /\ Gathered(p, k)
      <4>1. OffsetsFit(p)
        BY <1>1, <1>14, <2>3 DEF CompleteMultipart, OffsetsFit
      <4> QED BY <2>1, <3>3, <4>1 DEF Loose, Gathered
    <3>5. \A i \in 1 .. k :
            /\ parts[p][i].n = i /\ stored[p][i] \in Seq(Nat)
            /\ PieceOf(InitFile[p], Offset(i), stored[p][i])
            /\ Len(stored[p][i]) < PartSize /\ i < k => stored[p][i + 1] = << >>
      BY <3>4 DEF Gathered
    <3> DEFINE c == [i \in 1 .. k |-> stored[p][i]]
    <3>6. content'[p] = c
      BY <3>2, <3>4, <3>5 DEF Gathered
    <3>7. Len(c) = k /\ c \in Seq(Seq(Nat))
      BY <3>4, <3>5
    <3>8. ASSUME NEW i \in 1 .. k, i < k PROVE i + 1 \in 1 .. k
      BY <3>4, <3>8
    <3>9. InOrder(InitFile[p], c)
      BY <3>5, <3>7, <3>8 DEF InOrder
    <3> HIDE DEF c
    <3>10. InOrder(InitFile[p], content[p])'
      BY <1>1, <3>6, <3>9 DEF InOrder, PieceOf, Offset
    <3> QED BY <3>6, <3>7, <3>10
  <2> QED BY <2>2, <2>3 DEF Loose
<1>15. CASE AbortMultipart(p) \/ Killed(p)
  <2>1. pc'[p] = "exit" /\ result'[p] # "ok"
    BY <1>2, <1>3, <1>15 DEF AbortMultipart, Killed, Exit, Goto
  <2> QED BY <1>6, <2>1
<1>16. CASE Truncate(p)
  <2>1. file' = [file EXCEPT ![p] = Front(@)] /\ UNCHANGED <<procVars, serverVars>> /\ file[p] # << >>
    BY <1>16 DEF Truncate
  <2>2. Len(file'[p]) <= Len(file[p])
    <3>1. file'[p] = SubSeq(file[p], 1, Len(file[p]) - 1)
      BY <1>3, <2>1 DEF Front
    <3>2. Len(file[p]) \in Nat /\ Len(file[p]) # 0
      BY <1>3, <2>1, LenProperties, EmptySeq
    <3> QED BY <1>3, <3>1, <3>2
  <2>3. Cut(file'[p], InitFile[p])
    BY <1>1 DEF Cut, Shrunk
  <2> QED BY <1>1, <1>3, <2>1, <2>2, <2>3, LooseKept DEF procVars, serverVars
<1>17. ~(TakeUploadId(p) \/ ListParts(p) \/ ListUploads(p) \/ GoMapPart(p) \/ GoRetryPart(p))
  BY <1>1, <1>2 DEF TakeUploadId, ListParts, ListUploads, GoMapPart, GoRetryPart, Does, Control
<1> QED BY <1>9, <1>10, <1>11, <1>12, <1>13, <1>14, <1>15, <1>16, <1>17, LenientUpload DEF Step

\* A late part belongs to an upload that will not be completed any more.
LEMMA LateLoose ==
  ASSUME MInv, NEW x \in late, LateStore(x), world' = world, NEW q \in Proc, Loose(q)
  PROVE  Loose(q)'
<1>1. TypeOK /\ Shrunk(q) /\ Job' = Job /\ InitFile' = InitFile
  BY SameWorld DEF MInv
<1>2. /\ late' \subseteq late
      /\ UNCHANGED <<pc, bytes, next, last, parts, result, file, content>>
  BY DEF LateStore, procVars
<1>3. ASSUME Lenient(q), pc[q] \notin {"abort", "exit"}
      PROVE  \A i \in PartNumbers : stored'[q][i] = stored[q][i]
  <2>1. x.u \in Proc /\ x.u # q
    BY <1>1, <1>3 DEF TypeOK, Loose
  <2>2. CASE Store(x.u, x.n, x.data)
    BY <1>1, <2>1, <2>2, StoreEffect
  <2> QED BY <2>2 DEF LateStore
<1>4. bytes[q] \in Seq(Nat) /\ file[q] \in Seq(Nat) /\ Len(file[q]) \in Nat
  BY <1>1, LenProperties DEF TypeOK
<1>5. Cut(file'[q], InitFile[q])
  BY <1>1, <1>2 DEF Cut, Shrunk
<1> QED BY <1>1, <1>2, <1>3, <1>4, <1>5, LooseKept

\* The progress of every `all' in Java or Python.
LooseInv == Undisturbed /\ WithoutPart => \A p \in Proc : Loose(p)

\* It is kept by every step.
LEMMA LooseStep ==
  ASSUME MInv, LooseInv, [Next]_vars
  PROVE  LooseInv'
<1>1. world' = world
  BY DEF Next, Quiescent, vars
<1>2. (Undisturbed' <=> Undisturbed) /\ (WithoutPart' <=> WithoutPart)
  BY <1>1, SameWorld DEF Undisturbed, WithoutPart, Lenient
<1> SUFFICES ASSUME Undisturbed, WithoutPart, NEW q \in Proc PROVE Loose(q)'
  BY <1>2 DEF LooseInv
<1>3. Loose(q)
  BY DEF LooseInv
<1>4. CASE \E p \in Proc : Step(p) \/ Killed(p) \/ Truncate(p)
  BY <1>1, <1>3, <1>4, OthersLoose, OwnLoose
<1>5. CASE \E x \in late : LateStore(x)
  BY <1>1, <1>3, <1>5, LateLoose
<1>6. CASE UNCHANGED vars
  <2>1. TypeOK /\ Shrunk(q) /\ Job' = Job /\ InitFile' = InitFile
    BY <1>1, SameWorld DEF MInv
  <2>2. bytes[q] \in Seq(Nat) /\ file[q] \in Seq(Nat) /\ Len(file[q]) \in Nat
    BY <2>1, LenProperties DEF TypeOK
  <2>3. Cut(file[q], InitFile[q])
    BY <2>1 DEF Cut, Shrunk
  <2> QED BY <1>3, <1>6, <2>1, <2>2, <2>3, LooseKept DEF vars, procVars, serverVars
<1> QED BY <1>4, <1>5, <1>6 DEF Next, Quiescent

\* Where no process uploads parts to another's upload and none is run with
\* -part, an `all' in any language that reports success has made an object that
\* is the beginning of its file, whatever is aborted, truncated or late, and
\* whatever the part count wraps to; in Java as long as the offset of the last
\* part fits an int.
THEOREM MultipartPrefix == Spec => [](Undisturbed /\ WithoutPart => AllStoresPrefix)
<1>1. Init => MInv /\ LooseInv
  <2> SUFFICES ASSUME Init PROVE LooseInv
    BY InitInv
  <2>1. \A p \in Proc : /\ parts[p] = << >> /\ pc[p] \in {"start", "exit"}
                        /\ result[p] = "none" /\ late = {}
    BY DEF Init
  <2> QED BY <2>1 DEF LooseInv, Loose
<1>2. MInv /\ LooseInv /\ [Next]_vars => LooseInv'
  BY LooseStep
<1>3. MInv /\ LooseInv => (Undisturbed /\ WithoutPart => AllStoresPrefix)
  <2> SUFFICES ASSUME MInv, LooseInv, Undisturbed, WithoutPart, NEW p \in Proc,
                      Job[p].action = "all", OffsetsFit(p), result[p] = "ok"
               PROVE  IsPrefix(FlattenSeq(content[uid[p]]), InitFile[p])
    BY DEF AllStoresPrefix
  <2>1. TypeOK /\ Uploading(p) /\ Loose(p) /\ Control(p)
    BY DEF MInv, LooseInv
  <2>2. InitFile[p] \in Seq(Nat) /\ Job[p].lang \in Lang /\ size[p] \in Nat /\ last[p] \in Nat
    BY <2>1, CommandLine DEF TypeOK
  <2>3. uid[p] = p
    BY UploadsToItsOwn
  <2>4. content[p] \in Seq(Seq(Nat)) /\ InOrder(InitFile[p], content[p])
    <3>1. CASE Lenient(p)
      BY <2>1, <3>1 DEF Loose
    <3>2. CASE Strict(p)
      <4>1. content[p] = [n \in 1 .. last[p] |-> PlannedPart(p, n)]
        BY <2>1, <3>2 DEF Uploading, Strict
      <4>2. ASSUME NEW n \in 1 .. last[p] PROVE PlannedPart(p, n) \in Seq(Nat)
        <5>1. (n - 1) * PartSize \in Nat
          BY <2>2, OffsetType
        <5>2. PartLen(size[p], n) \in Int
          BY <2>2, <5>1, PartSizeAssumption DEF PartLen
        <5> QED BY <2>2, <5>1, <5>2, SliceType DEF PlannedPart
      <4>3. content[p] \in Seq(Seq(Nat))
        BY <2>2, <4>1, <4>2
      <4> QED BY <2>2, <4>1, <4>3, PlannedInOrder
    <3> QED BY <2>2, <3>1, <3>2 DEF Lenient, Strict, Lang
  <2> QED BY <2>2, <2>3, <2>4, BeginningOf
<1> QED BY <1>1, <1>2, <1>3, MultipartInvariance, PTL DEF Spec

=============================================================================
