-------------------------- MODULE WsControlProofs --------------------------
EXTENDS WsControl, SequenceLemmas

----------------------------------------------------------------------------
(* Bytes.                                                                  *)

\* The lengths at which the encoding changes.
LEMMA Sizes ==
  /\ Radix \in Nat /\ Radix \in 16 .. 40 /\ Half \in 8 .. 20 /\ Radix = 2 * Half
  /\ Short = Half - 2 /\ Long = Half - 1
BY RadixAssumption DEF Half, Short, Long

\* A length that takes two bytes is what the two bytes say.
LEMMA TwoBytes ==
  ASSUME NEW n \in Nat, n < Radix * Radix
  PROVE  /\ n \div Radix \in 0 .. Radix - 1 /\ n % Radix \in 0 .. Radix - 1
         /\ (n \div Radix) * Radix + (n % Radix) = n
<1>1. Radix \in Nat /\ Radix > 0
  BY Sizes
<1> DEFINE q == n \div Radix
           m == n % Radix
<1>2. q \in Int /\ m \in 0 .. Radix - 1 /\ n = q * Radix + m
  BY <1>1
<1> HIDE DEF q, m
<1>3. q < Radix
  <2>1. q >= Radix => n >= Radix * Radix
    BY <1>1, <1>2
  <2> QED BY <1>1, <1>2, <2>1
<1>4. q >= 0
  <2>1. q < 0 => n < 0
    BY <1>1, <1>2
  <2> QED BY <1>1, <1>2, <2>1
<1>5. q \in 0 .. Radix - 1
  BY <1>1, <1>2, <1>3, <1>4
<1> QED BY <1>2, <1>5 DEF q, m

\* Bytes of headers are bytes.
LEMMA HeaderBytes == 0 .. Radix - 1 \subseteq Byte /\ Byte \subseteq Nat
BY Sizes DEF Byte

\* The bits below the FIN or the MASK bit.
LEMMA LowBits ==
  ASSUME NEW c \in 0 .. Half - 1
  PROVE  (Half + c) % Half = c /\ c % Half = c
<1>1. Half \in Nat /\ Half > 0
  BY Sizes
<1>2. c \in Nat /\ c < Half
  BY <1>1
<1>3. Half + c = Half * 1 + c /\ c = Half * 0 + c
  BY <1>1, <1>2
<1> QED BY <1>1, <1>2, <1>3

\* The tokens are bytes, and none of them is a byte of a number.
LEMMA Tokens ==
  /\ Tok.begin = 40 /\ Tok.data = 41 /\ Tok.end = 42 /\ Tok.register_request = 43
  /\ Tok.register_response = 44 /\ Tok.qpinfo_client = 45 /\ Tok.qpinfo_server = 46
  /\ Tok.token = 47 /\ Tok.success = 48 /\ Tok.qpn = 49 /\ Tok.lid = 50 /\ Tok.gid = 51
  /\ Tok.gid_idx = 52 /\ Tok.mtu_enum = 53 /\ Tok.bracket = 54 /\ Tok.error = 55
BY DEF Tok


\* A masking key.
IsKey(k) == k \in Seq(Byte) /\ Len(k) = 4

LEMMA KeyFacts ==
  ASSUME NEW k, IsKey(k)
  PROVE  k # << >> /\ \A j \in 1 .. 4 : k[j] \in Byte
<1>1. k \in Seq(Byte)
  BY DEF IsKey
<1>2. Len(k) = 4
  BY DEF IsKey
<1>3. \A j \in 1 .. Len(k) : k[j] \in Byte
  BY <1>1
<1>4. \A j \in 1 .. 4 : k[j] \in Byte
  BY <1>2, <1>3, Zenon
<1>5. k # << >>
  BY <1>2
<1> QED BY <1>4, <1>5

LEMMA MaskType == \A k \in Masks : IsKey(k) /\ k # << >>
<1> SUFFICES ASSUME NEW k \in Masks PROVE IsKey(k) /\ k # << >>
  OBVIOUS
<1>1. k \in Seq(0 .. Radix - 1)
  BY MasksAssumption
<1>2. Len(k) = 4
  BY MasksAssumption
<1>3. \A i \in 1 .. Len(k) : k[i] \in Byte
  <2> DEFINE S == 0 .. Radix - 1
  <2>1. \A b \in S : b \in Byte
    BY HeaderBytes
  <2>2. k \in Seq(S)
    BY <1>1
  <2> HIDE DEF S
  <2> QED BY <2>1, <2>2
<1>4. k \in Seq(Byte)
  BY <1>1, <1>3
<1>5. IsKey(k)
  BY <1>2, <1>4 DEF IsKey
<1> QED BY <1>5, KeyFacts

LEMMA XorType == \A a, b \in Byte : XorOf[a][b] \in Byte
<1> SUFFICES ASSUME NEW a \in Byte, NEW b \in Byte PROVE XorOf[a][b] \in Byte
  OBVIOUS
<1>1. XorOf[a] \in [Byte -> Byte]
  BY XorAssumption
<1> QED BY <1>1

\* Masking keeps the length, and masking again gives the text back.
LEMMA MaskBack ==
  ASSUME NEW p \in Seq(Byte), NEW k, IsKey(k)
  PROVE  /\ MaskText(p, k) \in Seq(Byte) /\ Len(MaskText(p, k)) = Len(p)
         /\ MaskText(MaskText(p, k), k) = p
         /\ Masked(p, k) = MaskText(p, k)
<1> DEFINE q == MaskText(p, k)
           n == Len(p)
<1>1. n \in Nat /\ DOMAIN p = 1 .. n /\ p \in [1 .. n -> Byte]
  OBVIOUS
<1>2. \A i \in 1 .. n : ((i - 1) % 4) + 1 \in 1 .. 4
  BY <1>1
<1>3. \A i \in 1 .. n : k[((i - 1) % 4) + 1] \in Byte
  BY <1>2, KeyFacts, Zenon
<1>4. \A i \in 1 .. n : XorOf[p[i]][k[((i - 1) % 4) + 1]] \in Byte
  BY <1>1, <1>3, XorType
<1>5. q = [i \in 1 .. n |-> XorOf[p[i]][k[((i - 1) % 4) + 1]]]
  BY <1>1 DEF MaskText
<1>6. q \in [1 .. n -> Byte]
  BY <1>4, <1>5
<1>7. q \in Seq(Byte) /\ Len(q) = n /\ DOMAIN q = 1 .. n
  BY <1>1, <1>6
<1>8. MaskText(q, k) = [i \in 1 .. n |-> XorOf[q[i]][k[((i - 1) % 4) + 1]]]
  BY <1>7 DEF MaskText
<1>9. \A i \in 1 .. n : XorOf[q[i]][k[((i - 1) % 4) + 1]] = p[i]
  <2> SUFFICES ASSUME NEW i \in 1 .. n PROVE XorOf[q[i]][k[((i - 1) % 4) + 1]] = p[i]
    OBVIOUS
  <2>1. p[i] \in Byte /\ k[((i - 1) % 4) + 1] \in Byte
    BY <1>1, <1>3
  <2>2. q[i] = XorOf[p[i]][k[((i - 1) % 4) + 1]]
    BY <1>5
  <2> HIDE DEF q
  <2> QED BY <2>1, <2>2, XorAssumption
<1>10. MaskText(q, k) = p
  BY <1>1, <1>8, <1>9
<1>11. Masked(p, k) = q
  <2>1. k # << >>
    BY KeyFacts
  <2> QED BY <2>1 DEF Masked, MaskText
<1> QED BY <1>7, <1>10, <1>11

\* What a header of two or four bytes and a key, or none, holds.
HeaderIs(h, b, n, k) ==
  LET l == IF n < Short THEN 2 ELSE 4
  IN  /\ h \in Seq(Byte) /\ Len(h) = l + Len(k) /\ h[1] = b
      /\ h[2] = (IF k = << >> THEN 0 ELSE Half) + (IF n < Short THEN n ELSE Short)
      /\ n >= Short => h[3] = n \div Radix /\ h[4] = n % Radix
      /\ \A i \in 1 .. Len(k) : h[l + i] = k[i]

LEMMA HeaderShape ==
  ASSUME NEW fin, NEW op, NEW b \in Byte, b = fin * Half + op,
         NEW n \in Nat, n < Radix * Radix, NEW k \in Seq(Byte), k = << >> \/ IsKey(k)
  PROVE  HeaderIs(Header(fin, op, n, k), b, n, k)
<1> DEFINE h == Header(fin, op, n, k)
           m == IF k = << >> THEN 0 ELSE Half
<1>1. Half \in 8 .. 20 /\ Short = Half - 2 /\ m \in {0, Half} /\ b \in Byte
  BY Sizes
<1>2. CASE n < Short
  <2>1. h = <<b>> \o <<m + n>> \o k
    <3>1. ~(n >= Short)
      BY <1>1, <1>2
    <3> QED BY <1>2, <3>1 DEF Header
  <2>2. m + n \in Byte
    BY <1>1, <1>2 DEF Byte
  <2> HIDE DEF h, m
  <2>3. /\ h \in Seq(Byte) /\ Len(h) = 2 + Len(k) /\ h[1] = b /\ h[2] = m + n
        /\ \A i \in 1 .. Len(k) : h[2 + i] = k[i]
    BY <1>1, <2>1, <2>2
  <2> QED BY <1>1, <1>2, <2>3 DEF h, m, HeaderIs
<1>3. CASE n >= Short
  <2> DEFINE q == n \div Radix
             r == n % Radix
  <2>1. h = <<b>> \o <<m + Short, q, r>> \o k
    BY <1>1, <1>3 DEF Header
  <2>2. m + Short \in Byte
    BY <1>1, <1>3 DEF Byte
  <2>3. q \in Byte /\ r \in Byte
    BY TwoBytes, HeaderBytes
  <2> HIDE DEF h, m, q, r
  <2>4. /\ h \in Seq(Byte) /\ Len(h) = 4 + Len(k) /\ h[1] = b /\ h[2] = m + Short
        /\ h[3] = q /\ h[4] = r /\ \A i \in 1 .. Len(k) : h[4 + i] = k[i]
    BY <1>1, <2>1, <2>2, <2>3
  <2> QED BY <1>1, <1>3, <2>4 DEF h, m, q, r, HeaderIs
<1> QED BY <1>1, <1>2, <1>3

\* All of a frame: its header, and the text masked with the key.
FrameIs(f, h, q) ==
  /\ f \in Seq(Byte) /\ Len(f) = Len(h) + Len(q)
  /\ \A i \in 1 .. Len(h) : f[i] = h[i]
  /\ \A i \in 1 .. Len(q) : f[Len(h) + i] = q[i]

LEMMA FrameShape ==
  ASSUME NEW fin, NEW op, NEW b \in Byte, b = fin * Half + op, NEW p \in Seq(Byte),
         Len(p) < Radix * Radix, NEW k \in Seq(Byte), k = << >> \/ IsKey(k)
  PROVE  /\ HeaderIs(Header(fin, op, Len(p), k), b, Len(p), k)
         /\ Masked(p, k) \in Seq(Byte) /\ Len(Masked(p, k)) = Len(p)
         /\ FrameIs(Frame(fin, op, p, k), Header(fin, op, Len(p), k), Masked(p, k))
<1> DEFINE h == Header(fin, op, Len(p), k)
           q == Masked(p, k)
<1>1. Len(p) \in Nat
  OBVIOUS
<1>2. HeaderIs(h, b, Len(p), k)
  BY <1>1, HeaderShape
<1>3. h \in Seq(Byte)
  BY <1>2 DEF HeaderIs
<1>4. q \in Seq(Byte) /\ Len(q) = Len(p)
  <2>1. CASE k = << >>
    BY <2>1 DEF Masked
  <2>2. CASE IsKey(k)
    BY <2>2, MaskBack
  <2> QED BY <2>1, <2>2
<1>5. Frame(fin, op, p, k) = h \o q
  BY DEF Frame
<1>6. q \in Seq(Byte)
  BY <1>4
<1> HIDE DEF h, q
<1>7. FrameIs(h \o q, h, q)
  BY <1>3, <1>6, Joined DEF FrameIs
<1> QED BY <1>2, <1>4, <1>5, <1>7 DEF h, q

----------------------------------------------------------------------------
(* From the client to the server.                                          *)

\* Lengths of two bytes are at least this large.
LEMMA Square == Radix * Radix \in Nat /\ Radix * Radix >= 256
BY Sizes

LEMMA TwoDigits ==
  ASSUME NEW R \in Nat, NEW a \in 0 .. R - 1, NEW b \in 0 .. R - 1
  PROVE  a * R + b \in Nat /\ a * R + b < R * R
<1>1. PICK d \in Nat : R = a + 1 + d
  BY SMT
<1>2. R * R = a * R + R + d * R /\ d * R >= 0
  BY <1>1
<1>3. a * R \in Nat
  OBVIOUS
<1> QED BY <1>2, <1>3

\* The header ws_send_text writes is the one of RFC 6455.
LEMMA SendIsHeader ==
  ASSUME NEW n \in Nat, n < Radix * Radix, NEW k \in Masks
  PROVE  SendHeader(n, k) = Header(1, Text, n, k)
<1>1. k # << >>
  BY MaskType
<1>2. Half \in Nat /\ Short \in Nat /\ 1 * Half + Text = Half + Text
  BY Sizes DEF Text
<1>3. CASE n < Short
  BY <1>1, <1>2, <1>3 DEF SendHeader, Header
<1>4. CASE n >= Short
  BY <1>1, <1>2, <1>4 DEF SendHeader, Header
<1> QED BY <1>2, <1>3, <1>4

\* No frame has a header of six bytes and a length that takes two, or a
\* header of eight and a length that takes none.
LEMMA NotSix ==
  ASSUME up \in Seq(Byte), Len(up) >= 6, up[2] = Half + Short
  PROVE  FrameAt(6, up[2] - Half) = {}
<1> SUFFICES ASSUME NEW op \in {Text, Close},
                    SubSeq(up, 1, 6) = Header(1, op, Short, SubSeq(up, 3, 6))
             PROVE  FALSE
  <2>1. up[2] - Half = Short
    BY Sizes
  <2> QED BY <2>1 DEF FrameAt
<1> DEFINE k == SubSeq(up, 3, 6)
<1>1. k \in Seq(Byte) /\ Len(k) = 4 /\ Len(SubSeq(up, 1, 6)) = 6
  OBVIOUS
<1>2. Half + op \in Byte /\ Half + op = 1 * Half + op
  BY Sizes DEF Text, Close, Byte
<1>3. Short \in Nat /\ Short < Radix * Radix
  BY Sizes, Square
<1>4. IsKey(k)
  BY <1>1 DEF IsKey
<1> HIDE DEF k
<1>5. HeaderIs(Header(1, op, Short, k), Half + op, Short, k)
  BY <1>1, <1>2, <1>3, <1>4, HeaderShape
<1>6. Len(Header(1, op, Short, k)) = 4 + Len(k)
  BY <1>3, <1>5 DEF HeaderIs
<1>7. Len(Header(1, op, Short, k)) = 8
  BY <1>1, <1>6
<1>8. Len(Header(1, op, Short, k)) = 6
  BY <1>1 DEF k
<1>9. 8 # 6
  OBVIOUS
<1> QED BY <1>7, <1>8, <1>9, Zenon

LEMMA NotEight ==
  ASSUME up \in Seq(Byte), Len(up) >= 6, up[2] # Half + Short,
         up[3] \in 0 .. Radix - 1, up[4] \in 0 .. Radix - 1
  PROVE  FrameAt(8, up[3] * Radix + up[4]) = {}
<1> DEFINE n == up[3] * Radix + up[4]
           k == SubSeq(up, 5, 8)
<1> SUFFICES ASSUME NEW op \in {Text, Close}, 8 + n <= Len(up),
                    SubSeq(up, 1, 8) = Header(1, op, n, k)
             PROVE  FALSE
  BY DEF FrameAt
<1>1. n \in Nat /\ n < Radix * Radix
  <2>1. Radix \in Nat /\ up[3] <= Radix - 1 /\ up[3] \in Nat /\ up[4] \in Nat
    BY Sizes
  <2> QED BY <2>1, TwoDigits
<1>2. 8 <= Len(up)
  BY <1>1
<1>3. k \in Seq(Byte) /\ Len(k) = 4 /\ Len(SubSeq(up, 1, 8)) = 8 /\ SubSeq(up, 1, 8)[2] = up[2]
  BY <1>2
<1>4. Half + op \in Byte /\ Half + op = 1 * Half + op
  BY Sizes DEF Text, Close, Byte
<1>5. IsKey(k)
  BY <1>3 DEF IsKey
<1>6. k # << >>
  BY <1>5, KeyFacts
<1> HIDE DEF n, k
<1>7. HeaderIs(Header(1, op, n, k), Half + op, n, k)
  BY <1>1, <1>3, <1>4, <1>5, HeaderShape
<1>8. /\ Len(Header(1, op, n, k)) = (IF n < Short THEN 2 ELSE 4) + 4
      /\ Header(1, op, n, k)[2] = Half + (IF n < Short THEN n ELSE Short)
  BY <1>3, <1>6, <1>7 DEF HeaderIs
<1>9. Len(Header(1, op, n, k)) = 8 /\ Header(1, op, n, k)[2] = up[2]
  BY <1>3
<1>a. Short \in Nat /\ Half \in Nat
  BY Sizes
<1>10. n >= Short
  <2>1. ASSUME n < Short PROVE FALSE
    <3> DEFINE x == Len(Header(1, op, n, k))
    <3>1. x = 2 + 4
      BY <1>8, <2>1, Zenon
    <3>2. x = 8
      BY <1>9, Zenon
    <3> HIDE DEF x
    <3> QED BY <3>1, <3>2
  <2> QED BY <1>1, <1>a, <2>1
<1> QED BY <1>1, <1>8, <1>9, <1>10, <1>a

\* The frame that has arrived, given where its key and its masked text are.
LEMMA FrameThere ==
  ASSUME up \in Seq(Byte), NEW k, IsKey(k), NEW q \in Seq(Byte), NEW h \in {6, 8},
         \A i \in 1 .. 4 : up[h - 4 + i] = k[i], \A i \in 1 .. Len(q) : up[h + i] = q[i],
         h + Len(q) <= Len(up), NEW f \in FrameAt(h, Len(q))
  PROVE  f.len = h + Len(q) /\ f.op = up[1] % Half /\ f.text = MaskText(q, k)
<1> DEFINE n == Len(q)
<1>1. f = [len |-> h + n, op |-> up[1] % Half,
           text |-> Masked(SubSeq(up, h + 1, h + n), SubSeq(up, h - 3, h))]
  BY DEF FrameAt
<1>2. n \in Nat /\ h \in Nat /\ h - 4 \in Nat /\ h <= Len(up)
  OBVIOUS
<1>3. SubSeq(up, h + 1, h + n) = q
  BY <1>2, SliceIs
<1>4. SubSeq(up, h - 3, h) = k
  <2>1. k \in Seq(Byte)
    BY DEF IsKey
  <2>2. Len(k) = 4
    BY DEF IsKey
  <2> DEFINE j == h - 4
  <2>3. j \in Nat /\ j + Len(k) <= Len(up) /\ \A i \in 1 .. Len(k) : up[j + i] = k[i]
    BY <1>2, <2>2
  <2>4. h - 3 = j + 1 /\ h = j + Len(k)
    BY <1>2, <2>2
  <2> HIDE DEF j
  <2>5. SubSeq(up, j + 1, j + Len(k)) = k
    BY <2>1, <2>3, SliceIs
  <2> QED BY <2>4, <2>5
<1>5. Masked(q, k) = MaskText(q, k)
  BY MaskBack
<1> HIDE DEF n
<1>6. f = [len |-> h + n, op |-> up[1] % Half, text |-> MaskText(q, k)]
  BY <1>1, <1>3, <1>4, <1>5
<1> QED BY <1>6 DEF n

\* The texts of the client: none is shorter than a close frame, nor too long.
Messages == {m \in Seq(Byte) : 6 < Len(m) /\ Len(m) < Radix * Radix}

\* The header of a text at the head of up.
Begun(n, k) ==
  LET l == IF n < Short THEN 2 ELSE 4
  IN  /\ up \in Seq(Byte) /\ Len(up) >= l + 4 /\ up[1] = Half + Text
      /\ up[2] = Half + (IF n < Short THEN n ELSE Short)
      /\ n >= Short => up[3] = n \div Radix /\ up[4] = n % Radix
      /\ \A i \in 1 .. 4 : up[l + i] = k[i]

\* Then only a frame with that header and that length can have arrived.
LEMMA BegunFrame ==
  ASSUME NEW n \in Nat, n < Radix * Radix, NEW k \in Masks, Begun(n, k)
  PROVE  Arrived = (IF n < Short THEN FrameAt(6, n) ELSE FrameAt(8, n))
<1>1. Half \in Nat /\ Short \in Nat /\ Radix \in Nat
  BY Sizes
<1>2. up \in Seq(Byte) /\ Len(up) >= 6
  BY DEF Begun
<1>3. CASE n < Short
  <2>1. up[2] - Half = n /\ up[2] # Half + Short
    BY <1>1, <1>3 DEF Begun
  <2>2. up[3] = k[1] /\ up[4] = k[2]
    BY <1>3 DEF Begun
  <2>3. k[1] \in 0 .. Radix - 1 /\ k[2] \in 0 .. Radix - 1
    <3> DEFINE S == 0 .. Radix - 1
    <3>1. k \in Seq(S)
      BY MasksAssumption
    <3>2. Len(k) = 4
      BY MasksAssumption
    <3> HIDE DEF S
    <3>3. \A i \in 1 .. Len(k) : k[i] \in S
      BY <3>1
    <3>4. k[1] \in S /\ k[2] \in S
      BY <3>2, <3>3
    <3> QED BY <3>4 DEF S
  <2>4. FrameAt(8, up[3] * Radix + up[4]) = {}
    BY <1>2, <2>1, <2>2, <2>3, NotEight
  <2> QED BY <1>3, <2>1, <2>4 DEF Arrived
<1>4. CASE n >= Short
  <2>1. up[2] = Half + Short
    BY <1>1, <1>4 DEF Begun
  <2>2. FrameAt(6, up[2] - Half) = {}
    BY <1>2, <2>1, NotSix
  <2>3. up[3] = n \div Radix /\ up[4] = n % Radix
    BY <1>4 DEF Begun
  <2>4. up[3] * Radix + up[4] = n
    BY <2>3, TwoBytes
  <2>5. ~(n < Short)
    BY <1>1, <1>4
  <2> QED BY <2>2, <2>4, <2>5 DEF Arrived
<1> QED BY <1>1, <1>3, <1>4

\* A header that has been written begins a text.
LEMMA HeaderBegins ==
  ASSUME NEW n \in Nat, n < Radix * Radix, NEW k \in Masks, NEW r \in Seq(Byte),
         up = Header(1, Text, n, k) \o r
  PROVE  Begun(n, k) /\ Len(Header(1, Text, n, k)) = (IF n < Short THEN 6 ELSE 8)
<1> DEFINE h == Header(1, Text, n, k)
           l == IF n < Short THEN 2 ELSE 4
<1>1. k \in Seq(Byte) /\ k # << >> /\ IsKey(k)
  BY MaskType DEF IsKey
<1>2. Half + Text \in Byte /\ Half + Text = 1 * Half + Text
  BY Sizes DEF Text, Byte
<1>3. HeaderIs(h, Half + Text, n, k)
  BY <1>1, <1>2, HeaderShape
<1>4. h \in Seq(Byte)
  BY <1>3 DEF HeaderIs
<1> HIDE DEF h
<1>5. /\ up \in Seq(Byte) /\ Len(up) = Len(h) + Len(r)
      /\ \A i \in 1 .. Len(h) : up[i] = h[i]
  BY <1>4, Joined DEF h
<1>6. Len(k) = 4
  BY <1>1 DEF IsKey
<1>7. /\ Len(h) = l + 4 /\ h[1] = Half + Text
      /\ h[2] = Half + (IF n < Short THEN n ELSE Short)
      /\ n >= Short => h[3] = n \div Radix /\ h[4] = n % Radix
      /\ \A i \in 1 .. 4 : h[l + i] = k[i]
  BY <1>1, <1>3, <1>6 DEF HeaderIs
<1>8. l \in {2, 4} /\ (n >= Short => l = 4)
  BY Sizes
<1> HIDE DEF l
<1>9. /\ \A i \in 1 .. l + 4 : up[i] = h[i]
      /\ Len(up) >= l + 4
  BY <1>5, <1>7, <1>8
<1>10. /\ up[1] = h[1] /\ up[2] = h[2] /\ (n >= Short => up[3] = h[3] /\ up[4] = h[4])
       /\ \A i \in 1 .. 4 : up[l + i] = h[l + i]
  <2>1. /\ 1 \in 1 .. l + 4 /\ 2 \in 1 .. l + 4 /\ 3 \in 1 .. l + 4 /\ 4 \in 1 .. l + 4
        /\ \A i \in 1 .. 4 : l + i \in 1 .. l + 4
    BY <1>8
  <2> QED BY <1>9, <2>1, Zenon
<1>11. Begun(n, k)
  BY <1>5, <1>7, <1>9, <1>10 DEF Begun, l
<1> QED BY <1>7, <1>11 DEF h, l

\* A text that has arrived whole is what the server hears.
LEMMA TextArrives ==
  ASSUME NEW m \in Messages, NEW k \in Masks, NEW r \in Seq(Byte),
         up = Frame(1, Text, m, k) \o r, NEW f \in Arrived
  PROVE  f.len = Len(Frame(1, Text, m, k)) /\ f.op = Text /\ f.text = m
<1> DEFINE n == Len(m)
           h == Header(1, Text, n, k)
           q == MaskText(m, k)
           l == IF n < Short THEN 6 ELSE 8
<1>1. m \in Seq(Byte) /\ n \in Nat /\ n < Radix * Radix
  BY DEF Messages
<1>2. k \in Seq(Byte) /\ IsKey(k)
  BY MaskType DEF IsKey
<1>3. Half + Text \in Byte /\ Half + Text = 1 * Half + Text /\ (Half + Text) % Half = Text
  <2>1. Text \in 0 .. Half - 1 /\ Half + Text \in Byte /\ Half + Text = 1 * Half + Text
    BY Sizes DEF Text, Byte
  <2> QED BY <2>1, LowBits
<1>4. q \in Seq(Byte) /\ Len(q) = n /\ Masked(m, k) = q /\ MaskText(q, k) = m
  BY <1>1, <1>2, MaskBack
<1>5. HeaderIs(h, Half + Text, n, k) /\ FrameIs(Frame(1, Text, m, k), h, q)
  BY <1>1, <1>2, <1>3, <1>4, FrameShape
<1>6. h \in Seq(Byte)
  BY <1>5 DEF HeaderIs
<1>7. Frame(1, Text, m, k) = h \o q
  BY <1>4 DEF Frame
<1>8. q \in Seq(Byte)
  BY <1>4
<1> HIDE DEF h, q, n
<1>9. up = h \o (q \o r)
  <2>1. (h \o q) \o r = h \o (q \o r)
    <3>1. r \in Seq(Byte)
      OBVIOUS
    <3> QED BY <1>6, <1>8, <3>1, Associative, SMTT(20)
  <2> QED BY <1>7, <2>1
<1>10. q \o r \in Seq(Byte) /\ (\A i \in 1 .. Len(q) : (q \o r)[i] = q[i])
       /\ Len(q \o r) = Len(q) + Len(r)
  BY <1>8, Joined
<1>11. Begun(n, k) /\ Len(h) = l
  BY <1>1, <1>9, <1>10, HeaderBegins DEF h
<1>12. Arrived = FrameAt(l, n)
  BY <1>1, <1>11, BegunFrame
<1>13. up \in Seq(Byte) /\ up[1] = Half + Text /\ \A i \in 1 .. 4 : up[l - 4 + i] = k[i]
  <2>1. up \in Seq(Byte) /\ up[1] = Half + Text
    BY <1>11 DEF Begun
  <2>2. \A i \in 1 .. 4 : up[(IF n < Short THEN 2 ELSE 4) + i] = k[i]
    BY <1>11 DEF Begun
  <2>3. \A i \in 1 .. 4 : (IF n < Short THEN 2 ELSE 4) + i = l - 4 + i
    OBVIOUS
  <2> QED BY <2>1, <2>2, <2>3
<1> DEFINE v == q \o r
<1> HIDE DEF v
<1>14. v \in Seq(Byte)
  BY <1>10 DEF v
<1>15. Len(up) = Len(h) + Len(v) /\ \A i \in 1 .. Len(v) : up[Len(h) + i] = v[i]
  <2>1. Len(h \o v) = Len(h) + Len(v) /\ \A i \in 1 .. Len(v) : (h \o v)[Len(h) + i] = v[i]
    BY <1>6, <1>14, Joined
  <2>2. up = h \o v
    BY <1>9 DEF v
  <2> QED BY <2>1, <2>2
<1>16. Len(q) \in Nat /\ Len(r) \in Nat /\ Len(v) = Len(q) + Len(r)
       /\ \A i \in 1 .. Len(q) : v[i] = q[i]
  BY <1>8, <1>10 DEF v
<1>17. l + Len(q) <= Len(up) /\ \A i \in 1 .. Len(q) : up[l + i] = q[i]
  BY <1>11, <1>15, <1>16
<1>18. l \in {6, 8}
  OBVIOUS
<1>19. f \in FrameAt(l, Len(q))
  BY <1>4, <1>12
<1> HIDE DEF l
<1>20. f.len = l + Len(q) /\ f.op = up[1] % Half /\ f.text = MaskText(q, k)
  BY <1>2, <1>8, <1>13, <1>17, <1>18, <1>19, FrameThere
<1>21. Len(Frame(1, Text, m, k)) = Len(h) + Len(q)
  BY <1>5 DEF FrameIs
<1> QED BY <1>3, <1>4, <1>11, <1>13, <1>20, <1>21

\* Nothing arrives of a text whose header alone was written, even if a close
\* frame follows it.
LEMMA HeaderWaits ==
  ASSUME NEW m \in Messages, NEW k \in Masks, NEW r \in Seq(Byte), Len(r) <= 6,
         up = Header(1, Text, Len(m), k) \o r
  PROVE  Arrived = {}
<1> DEFINE n == Len(m)
           h == Header(1, Text, n, k)
           l == IF n < Short THEN 6 ELSE 8
<1>1. n \in Nat /\ n < Radix * Radix /\ n > 6
  BY DEF Messages
<1>2. Begun(n, k) /\ Len(h) = l
  BY <1>1, HeaderBegins
<1>3. Arrived = FrameAt(l, n)
  BY <1>1, <1>2, BegunFrame
<1>4. h \in Seq(Byte)
  <2>1. k \in Seq(Byte) /\ IsKey(k)
    BY MaskType DEF IsKey
  <2>2. Half + Text \in Byte /\ Half + Text = 1 * Half + Text
    BY Sizes DEF Text, Byte
  <2>3. HeaderIs(h, Half + Text, n, k)
    BY <1>1, <2>1, <2>2, HeaderShape
  <2> QED BY <2>3 DEF HeaderIs
<1> HIDE DEF h
<1>5. Len(up) = Len(h) + Len(r) /\ Len(r) \in Nat
  BY <1>4, Joined DEF h
<1>6. ~(l + n <= Len(up))
  BY <1>1, <1>2, <1>5
<1> QED BY <1>3, <1>6 DEF FrameAt

LEMMA MessageHeader ==
  ASSUME NEW m \in Messages, NEW k \in Masks
  PROVE  Header(1, Text, Len(m), k) \in Seq(Byte)
<1>1. Len(m) \in Nat /\ Len(m) < Radix * Radix
  BY DEF Messages
<1>2. k \in Seq(Byte) /\ IsKey(k)
  BY MaskType DEF IsKey
<1>3. Half + Text \in Byte /\ Half + Text = 1 * Half + Text
  BY Sizes DEF Text, Byte
<1>4. HeaderIs(Header(1, Text, Len(m), k), Half + Text, Len(m), k)
  BY <1>1, <1>2, <1>3, HeaderShape
<1> QED BY <1>4 DEF HeaderIs

CloseFrame(k) == <<Half + Close, Half>> \o k

\* A close frame is no text.
LEMMA CloseArrives ==
  ASSUME NEW k \in Masks, up = CloseFrame(k), NEW f \in Arrived
  PROVE  f.op = Close /\ f.len = 6 /\ Len(up) = 6
<1>1. k \in Seq(Byte)
  BY MaskType DEF IsKey
<1>2. Len(k) = 4
  BY MaskType DEF IsKey
<1>3. Half \in Byte /\ Half + Close \in Byte /\ (Half + Close) % Half = Close
  BY Sizes DEF Close, Byte
<1>4. /\ up[1] = Half + Close /\ up[2] = Half /\ Len(up) = 2 + Len(k)
      /\ \A i \in 1 .. Len(k) : up[2 + i] = k[i]
  BY <1>1 DEF CloseFrame
<1>5. f.op = up[1] % Half
  BY DEF Arrived, FrameAt
<1>6. Len(up) = 6 /\ up[2] - Half = 0
  BY <1>2, <1>3, <1>4 DEF Byte
<1>7. FrameAt(8, up[3] * Radix + up[4]) = {}
  <2>1. k[1] \in Byte /\ k[2] \in Byte
    BY MaskType, KeyFacts
  <2>2. up[3] \in Nat /\ up[4] \in Nat /\ Radix \in Nat
    <3>1. up[2 + 1] = k[1] /\ up[2 + 2] = k[2]
      BY <1>2, <1>4
    <3>2. k[1] \in Nat /\ k[2] \in Nat
      BY <2>1, HeaderBytes
    <3>3. up[3] = k[1] /\ up[4] = k[2]
      BY <3>1
    <3> QED BY <3>2, <3>3, Sizes, Zenon
  <2> DEFINE n == up[3] * Radix + up[4]
  <2>3. n \in Nat
    BY <2>2
  <2> HIDE DEF n
  <2>4. ~(8 + n <= Len(up))
    BY <1>6, <2>3
  <2>5. FrameAt(8, n) = {}
    BY <2>4 DEF FrameAt
  <2> QED BY <2>5 DEF n
<1>8. f \in FrameAt(6, 0)
  BY <1>6, <1>7 DEF Arrived
<1>9. f.len = 6
  BY <1>8 DEF FrameAt
<1> QED BY <1>3, <1>4, <1>5, <1>6, <1>9

LEMMA CloseFrameIs ==
  ASSUME NEW k \in Masks
  PROVE  /\ CloseFrame(k) \in Seq(Byte) /\ Len(CloseFrame(k)) = 6
         /\ CloseFrame(k)[1] = Half + Close /\ CloseFrame(k)[2] = Half
<1>1. k \in Seq(Byte)
  BY MaskType DEF IsKey
<1>2. Len(k) = 4
  BY MaskType DEF IsKey
<1>3. Half \in Byte /\ Half + Close \in Byte
  BY Sizes DEF Close, Byte
<1> DEFINE a == <<Half + Close, Half>>
<1>4. a \in Seq(Byte) /\ Len(a) = 2 /\ a[1] = Half + Close /\ a[2] = Half
  BY <1>3
<1> HIDE DEF a
<1>5. /\ a \o k \in Seq(Byte) /\ Len(a \o k) = Len(a) + Len(k)
      /\ \A i \in 1 .. Len(a) : (a \o k)[i] = a[i]
  <2>1. a \in Seq(Byte)
    BY <1>4
  <2> QED BY <1>1, <2>1, Joined
<1>6. 1 \in 1 .. Len(a) /\ 2 \in 1 .. Len(a)
  BY <1>4
<1>7. Len(a \o k) = 6 /\ (a \o k)[1] = Half + Close /\ (a \o k)[2] = Half
  BY <1>2, <1>4, <1>5, <1>6
<1> QED BY <1>5, <1>7 DEF CloseFrame, a

\* No frame has a header of eight bytes and a length that takes none.
LEMMA NotEightShort ==
  ASSUME up \in Seq(Byte), NEW n \in Nat, n < Short
  PROVE  FrameAt(8, n) = {}
<1> DEFINE k == SubSeq(up, 5, 8)
<1> SUFFICES ASSUME NEW op \in {Text, Close}, 8 + n <= Len(up),
                    SubSeq(up, 1, 8) = Header(1, op, n, k)
             PROVE  FALSE
  BY DEF FrameAt
<1>1. 8 <= Len(up)
  OBVIOUS
<1>2. k \in Seq(Byte) /\ Len(k) = 4 /\ Len(SubSeq(up, 1, 8)) = 8
  BY <1>1
<1>3. Half + op \in Byte /\ Half + op = 1 * Half + op
  BY Sizes DEF Text, Close, Byte
<1>4. IsKey(k)
  BY <1>2 DEF IsKey
<1>5. n < Radix * Radix
  BY Sizes, Square
<1> HIDE DEF k
<1>6. HeaderIs(Header(1, op, n, k), Half + op, n, k)
  BY <1>2, <1>3, <1>4, <1>5, HeaderShape
<1>7. Len(Header(1, op, n, k)) = 2 + 4
  BY <1>2, <1>6 DEF HeaderIs
<1>8. Len(Header(1, op, n, k)) = 8
  BY <1>2
<1>9. 2 + 4 # 8
  OBVIOUS
<1> QED BY <1>7, <1>8, <1>9, Zenon

\* A header that was written in part, and the masked bytes of a text, with the
\* close frame behind them.
CutHeader(t) ==
  \E m \in Messages, k, c \in Masks : \E j \in 1 .. Len(Header(1, Text, Len(m), k)) - 1 :
    t = SubSeq(Header(1, Text, Len(m), k), 1, j) \o CloseFrame(c)
CutText(t, m) ==
  \E k, c \in Masks, j \in 0 .. Len(m) - 1 :
    t = Header(1, Text, Len(m), k) \o (SubSeq(MaskText(m, k), 1, j) \o CloseFrame(c))

\* Nothing arrives of a text whose header was written in part: too few bytes
\* follow.
LEMMA CutHeaderWaits ==
  ASSUME CutHeader(up)
  PROVE  Arrived = {}
<1>0. PICK m \in Messages, k \in Masks, c \in Masks :
        \E j \in 1 .. Len(Header(1, Text, Len(m), k)) - 1 :
          up = SubSeq(Header(1, Text, Len(m), k), 1, j) \o CloseFrame(c)
  BY DEF CutHeader
<1>p. PICK j \in 1 .. Len(Header(1, Text, Len(m), k)) - 1 :
        up = SubSeq(Header(1, Text, Len(m), k), 1, j) \o CloseFrame(c)
  BY <1>0
<1> DEFINE n == Len(m)
           h == Header(1, Text, n, k)
           l == IF n < Short THEN 6 ELSE 8
           a == SubSeq(h, 1, j)
           z == CloseFrame(c)
<1>1. n \in Nat /\ n < Radix * Radix /\ n > 6
  BY DEF Messages
<1>2. h \in Seq(Byte) /\ Len(h) = l /\ h[2] = Half + (IF n < Short THEN n ELSE Short)
  <2>1. k \in Seq(Byte) /\ IsKey(k) /\ k # << >>
    BY MaskType DEF IsKey
  <2>2. Len(k) = 4
    BY <2>1 DEF IsKey
  <2>3. Half + Text \in Byte /\ Half + Text = 1 * Half + Text
    BY Sizes DEF Text, Byte
  <2>4. HeaderIs(h, Half + Text, n, k)
    BY <1>1, <2>1, <2>3, HeaderShape
  <2> HIDE DEF h, n
  <2> QED BY <2>1, <2>2, <2>4 DEF HeaderIs
<1>3. z \in Seq(Byte) /\ Len(z) = 6 /\ z[1] = Half + Close
  BY CloseFrameIs
<1>4. j \in 1 .. l - 1 /\ up = a \o z
  BY <1>2, <1>p
<1> HIDE DEF h, n, z
<1>5. a \in Seq(Byte) /\ Len(a) = j /\ \A i \in 1 .. j : a[i] = h[i]
  BY <1>2, <1>4, SMTT(30)
<1> HIDE DEF a
<1>6. /\ up \in Seq(Byte) /\ Len(up) = Len(a) + Len(z)
      /\ \A i \in 1 .. Len(a) : up[i] = a[i]
      /\ \A i \in 1 .. Len(z) : up[Len(a) + i] = z[i]
  <2>1. a \in Seq(Byte)
    BY <1>5
  <2>2. z \in Seq(Byte)
    BY <1>3
  <2> QED BY <1>4, <2>1, <2>2, Joined
<1>7. Len(up) = j + 6 /\ l \in {6, 8} /\ j \in Nat /\ j <= l - 1
  BY <1>3, <1>4, <1>5, <1>6
<1>8. FrameAt(8, up[3] * Radix + up[4]) = {}
  <2>1. up[3] \in Byte /\ up[4] \in Byte
    BY <1>4, <1>6, <1>7
  <2>2. up[3] \in Nat /\ up[4] \in Nat /\ Radix \in Nat
    BY <2>1, HeaderBytes, Sizes
  <2> DEFINE x == up[3] * Radix + up[4]
  <2>3. x \in Nat
    BY <2>2, SMTT(30)
  <2> HIDE DEF x
  <2>4. CASE x < Short
    BY <1>6, <2>3, <2>4, NotEightShort DEF x
  <2>5. CASE x >= Short
    <3>1. Short \in Nat /\ Short >= 6
      BY Sizes
    <3>2. ~(8 + x <= Len(up))
      BY <1>7, <2>3, <2>5, <3>1
    <3> QED BY <3>2 DEF FrameAt, x
  <2>6. Short \in Nat
    BY Sizes
  <2> QED BY <2>3, <2>4, <2>5, <2>6
<1>9. FrameAt(6, up[2] - Half) = {}
  <2>1. Half \in Nat /\ Short \in Nat /\ Short = Half - 2 /\ Half >= 8
    BY Sizes
  <2>2. CASE j = 1
    <3>1. up[2] = Half + Close
      <4>1. 1 \in 1 .. Len(z) /\ up[Len(a) + 1] = z[1] /\ Len(a) + 1 = 2
        BY <1>3, <1>5, <1>6, <2>2
      <4> QED BY <1>3, <4>1
    <3>2. up[2] - Half = 3
      BY <2>1, <3>1 DEF Close
    <3>3. ~(6 + 3 <= Len(up))
      BY <1>7, <2>2
    <3> QED BY <3>2, <3>3 DEF FrameAt
  <2>3. CASE j >= 2
    <3>1. up[2] = h[2]
      <4>1. 2 \in 1 .. Len(a) /\ 2 \in 1 .. j
        BY <1>5, <1>7, <2>3
      <4> QED BY <1>5, <1>6, <4>1
    <3>2. CASE n < Short
      <4>1. up[2] - Half = n
        BY <1>1, <1>2, <2>1, <3>1, <3>2 DEF n
      <4>2. ~(6 + n <= Len(up))
        BY <1>1, <1>7, <3>2 DEF n
      <4> QED BY <4>1, <4>2 DEF FrameAt
    <3>3. CASE ~(n < Short)
      <4>1. up[2] = Half + Short
        BY <1>2, <3>1, <3>3
      <4>2. Len(up) >= 6
        BY <1>7
      <4> QED BY <1>6, <4>1, <4>2, NotSix
    <3> QED BY <3>2, <3>3
  <2> QED BY <1>7, <2>2, <2>3
<1> QED BY <1>8, <1>9 DEF Arrived

\* If a text whose masked bytes were written in part arrives, the close frame
\* behind them has completed it: its end is garbled, and less than a frame is
\* left.
LEMMA CutTextArrives ==
  ASSUME NEW m \in Messages, CutText(up, m), NEW f \in Arrived
  PROVE  /\ f.op = Text /\ f.text \in Seq(Byte) /\ EndsGarbled(f.text, m)
         /\ f.len \in Nat /\ f.len <= Len(up) /\ Len(up) - f.len < 6
<1>0. PICK k \in Masks, c \in Masks, j \in 0 .. Len(m) - 1 :
        up = Header(1, Text, Len(m), k) \o (SubSeq(MaskText(m, k), 1, j) \o CloseFrame(c))
  BY DEF CutText
<1> DEFINE n == Len(m)
           h == Header(1, Text, n, k)
           w == MaskText(m, k)
           l == IF n < Short THEN 6 ELSE 8
           a == SubSeq(w, 1, j)
           z == CloseFrame(c)
           r == a \o z
<1>1. m \in Seq(Byte) /\ n \in Nat /\ n < Radix * Radix /\ n > 6
  BY DEF Messages
<1>2. k \in Seq(Byte) /\ IsKey(k)
  BY MaskType DEF IsKey
<1>3. (Half + Text) % Half = Text
  <2>1. Text \in 0 .. Half - 1
    BY Sizes DEF Text
  <2> QED BY <2>1, LowBits
<1>4. w \in Seq(Byte) /\ Len(w) = n /\ MaskText(w, k) = m
  BY <1>1, <1>2, MaskBack
<1>5. z \in Seq(Byte) /\ Len(z) = 6
  BY CloseFrameIs
<1> HIDE DEF w, z
<1>6. a \in Seq(Byte) /\ Len(a) = j /\ (\A i \in 1 .. j : a[i] = w[i]) /\ j \in 0 .. n - 1
  BY <1>1, <1>4
<1> HIDE DEF a
<1>7. r \in Seq(Byte) /\ Len(r) = j + 6 /\ \A i \in 1 .. j : r[i] = w[i]
  <2>1. a \in Seq(Byte)
    BY <1>6
  <2>2. z \in Seq(Byte)
    BY <1>5
  <2>3. /\ r \in Seq(Byte) /\ Len(r) = Len(a) + Len(z)
        /\ \A i \in 1 .. Len(a) : r[i] = a[i]
    BY <2>1, <2>2, Joined
  <2> HIDE DEF r
  <2> QED BY <1>5, <1>6, <2>3
<1>8. up = h \o r
  BY <1>0 DEF a, w, z
<1> HIDE DEF r
<1>9. Begun(n, k) /\ Len(h) = l
  <2>1. r \in Seq(Byte)
    BY <1>7
  <2> QED BY <1>1, <1>8, <2>1, HeaderBegins
<1>10. f \in FrameAt(l, n)
  BY <1>1, <1>9, BegunFrame
<1>11. up \in Seq(Byte) /\ up[1] = Half + Text /\ \A i \in 1 .. 4 : up[l - 4 + i] = k[i]
  <2>1. up \in Seq(Byte) /\ up[1] = Half + Text
    BY <1>9 DEF Begun
  <2>2. \A i \in 1 .. 4 : up[(IF n < Short THEN 2 ELSE 4) + i] = k[i]
    BY <1>9 DEF Begun
  <2>3. \A i \in 1 .. 4 : (IF n < Short THEN 2 ELSE 4) + i = l - 4 + i
    OBVIOUS
  <2> QED BY <2>1, <2>2, <2>3
<1>12. h \in Seq(Byte)
  BY MessageHeader
<1> HIDE DEF h, n
<1>13. Len(up) = l + (j + 6) /\ \A i \in 1 .. j : up[l + i] = w[i]
  <2>1. r \in Seq(Byte)
    BY <1>7
  <2>2. Len(up) = Len(h) + Len(r) /\ \A i \in 1 .. Len(r) : up[Len(h) + i] = r[i]
    BY <1>8, <1>12, <2>1, Joined
  <2>3. \A i \in 1 .. j : i \in 1 .. Len(r)
    BY <1>6, <1>7
  <2> HIDE DEF l
  <2> QED BY <1>7, <1>9, <2>2, <2>3
<1>14. l \in {6, 8} /\ l + n <= Len(up)
  <2>1. l + n <= Len(up)
    BY <1>10 DEF FrameAt
  <2> QED BY <2>1
<1> HIDE DEF l
<1> DEFINE q == SubSeq(up, l + 1, l + n)
<1>15. q \in Seq(Byte) /\ Len(q) = n /\ \A i \in 1 .. n : up[l + i] = q[i]
  BY <1>1, <1>11, <1>14, SMTT(30) DEF n
<1> HIDE DEF q
<1>16. f.len = l + n /\ f.op = Text /\ f.text = MaskText(q, k)
  <2>1. q \in Seq(Byte)
    BY <1>15
  <2>2. f \in FrameAt(l, Len(q)) /\ l + Len(q) <= Len(up)
    BY <1>10, <1>14, <1>15
  <2>3. \A i \in 1 .. Len(q) : up[l + i] = q[i]
    BY <1>15
  <2>4. f.len = l + Len(q) /\ f.op = up[1] % Half /\ f.text = MaskText(q, k)
    BY <1>2, <1>11, <1>14, <2>1, <2>2, <2>3, FrameThere
  <2> QED BY <1>3, <1>11, <1>15, <2>4
<1>17. n - 6 <= j /\ n \in Nat /\ j \in Nat
  BY <1>1, <1>6, <1>13, <1>14 DEF n
<1>18. MaskText(q, k) \in Seq(Byte) /\ Len(MaskText(q, k)) = n
  BY <1>2, <1>15, MaskBack
<1>19. ASSUME NEW i \in 1 .. n - 6 PROVE MaskText(q, k)[i] = m[i]
  <2>1. i \in 1 .. n /\ i \in 1 .. j
    BY <1>17
  <2>2. q[i] = w[i]
    BY <1>13, <1>15, <2>1
  <2>3. DOMAIN q = 1 .. n /\ DOMAIN w = 1 .. n
    BY <1>4, <1>15 DEF n
  <2>4. MaskText(q, k)[i] = MaskText(w, k)[i]
    BY <2>1, <2>2, <2>3, Zenon DEF MaskText
  <2> QED BY <1>4, <2>4
<1>20. EndsGarbled(f.text, m)
  BY <1>16, <1>18, <1>19 DEF EndsGarbled, CloseLen, n
<1>21. l + n \in Nat /\ Len(up) - (l + n) < 6
  BY <1>6, <1>13, <1>14, <1>17
<1> QED BY <1>14, <1>16, <1>18, <1>20, <1>21

----------------------------------------------------------------------------
(* Frames in transit.                                                      *)

\* A frame on its way: the text it carries, and its bytes.
InTransit == [text : Seq(Byte), bytes : Seq(Byte)]

Texts(q) == [i \in DOMAIN q |-> q[i].text]
Bytes(q) == FlattenSeq([i \in DOMAIN q |-> q[i].bytes])

LEMMA SubQueue ==
  ASSUME NEW G, NEW H, G \subseteq H, NEW q \in Seq(G)
  PROVE  q \in Seq(H)
OBVIOUS

LEMMA QueueTypes ==
  ASSUME NEW q \in Seq(InTransit)
  PROVE  /\ Texts(q) \in Seq(Seq(Byte)) /\ Len(Texts(q)) = Len(q)
         /\ [i \in DOMAIN q |-> q[i].bytes] \in Seq(Seq(Byte)) /\ Bytes(q) \in Seq(Byte)
<1> DEFINE S == Seq(Byte)
           n == Len(q)
           t == [i \in 1 .. n |-> q[i].text]
           b == [i \in 1 .. n |-> q[i].bytes]
<1>1. n \in Nat /\ DOMAIN q = 1 .. n
  OBVIOUS
<1>2. \A i \in 1 .. n : q[i].text \in S /\ q[i].bytes \in S
  <2>1. \A i \in 1 .. n : q[i] \in InTransit
    BY <1>1
  <2>2. \A f \in InTransit : f.text \in S /\ f.bytes \in S
    BY DEF InTransit
  <2> QED BY <2>1, <2>2
<1> HIDE DEF S
<1>3. t \in Seq(S) /\ Len(t) = n /\ b \in Seq(S)
  BY <1>1, <1>2
<1>4. Texts(q) = t /\ [i \in DOMAIN q |-> q[i].bytes] = b
  BY <1>1 DEF Texts
<1> HIDE DEF t, b
<1>5. b \in Seq(Seq(Byte))
  BY <1>3 DEF S
<1>6. FlattenSeq(b) \in Seq(Byte)
  BY <1>5, FlattenType
<1> QED BY <1>3, <1>4, <1>6 DEF Bytes, S

LEMMA QueueNone == Texts(<< >>) = << >> /\ Bytes(<< >>) = << >>
<1>1. [i \in DOMAIN << >> |-> << >>[i].text] = << >>
  OBVIOUS
<1>2. [i \in DOMAIN << >> |-> << >>[i].bytes] = << >>
  OBVIOUS
<1> QED BY <1>1, <1>2, FlattenFew DEF Texts, Bytes

LEMMA QueueOne ==
  ASSUME NEW f \in InTransit
  PROVE  Texts(<<f>>) = <<f.text>> /\ Bytes(<<f>>) = f.bytes
<1>1. [i \in DOMAIN <<f>> |-> <<f>>[i].text] = <<f.text>>
  OBVIOUS
<1>2. [i \in DOMAIN <<f>> |-> <<f>>[i].bytes] = <<f.bytes>>
  OBVIOUS
<1> QED BY <1>1, <1>2, FlattenFew DEF Texts, Bytes

LEMMA QueueJoin ==
  ASSUME NEW p \in Seq(InTransit), NEW q \in Seq(InTransit)
  PROVE  Texts(p \o q) = Texts(p) \o Texts(q) /\ Bytes(p \o q) = Bytes(p) \o Bytes(q)
<1> DEFINE x == p \o q
           S == Seq(Byte)
           bx == [i \in DOMAIN x |-> x[i].bytes]
           bp == [i \in DOMAIN p |-> p[i].bytes]
           bq == [i \in DOMAIN q |-> q[i].bytes]
<1>1. /\ x \in Seq(InTransit) /\ Len(x) = Len(p) + Len(q) /\ Len(p) \in Nat /\ Len(q) \in Nat
      /\ DOMAIN p = 1 .. Len(p) /\ DOMAIN q = 1 .. Len(q) /\ DOMAIN x = 1 .. Len(p) + Len(q)
      /\ \A i \in 1 .. Len(p) : x[i] = p[i]
      /\ \A i \in 1 .. Len(q) : x[Len(p) + i] = q[i]
  BY Joined
<1> HIDE DEF x
<1>2. x \in Seq(InTransit)
  BY <1>1
<1>3. /\ Texts(p) \in Seq(S) /\ Len(Texts(p)) = Len(p) /\ bp \in Seq(S) /\ Bytes(p) \in S
      /\ Texts(q) \in Seq(S) /\ Len(Texts(q)) = Len(q) /\ bq \in Seq(S)
      /\ Texts(x) \in Seq(S) /\ Len(Texts(x)) = Len(x) /\ bx \in Seq(S)
  BY <1>2, QueueTypes
<1> DEFINE tp == Texts(p)
           tq == Texts(q)
           tx == Texts(x)
<1>4. /\ \A i \in 1 .. Len(p) : tp[i] = p[i].text /\ bp[i] = p[i].bytes
      /\ \A i \in 1 .. Len(q) : tq[i] = q[i].text /\ bq[i] = q[i].bytes
      /\ \A i \in 1 .. Len(p) + Len(q) : tx[i] = x[i].text /\ bx[i] = x[i].bytes
      /\ DOMAIN bp = 1 .. Len(p) /\ DOMAIN bq = 1 .. Len(q)
      /\ DOMAIN bx = 1 .. Len(p) + Len(q)
  BY <1>1 DEF Texts
<1> HIDE DEF S, tp, tq, tx, bp, bq, bx
<1>5. Len(bp) = Len(p) /\ Len(bq) = Len(q) /\ Len(bx) = Len(p) + Len(q)
  BY <1>1, <1>3, <1>4
<1>6. Len(tp) = Len(p) /\ Len(tq) = Len(q) /\ Len(tx) = Len(p) + Len(q)
  BY <1>1, <1>3 DEF tp, tq, tx
<1>7. \A i \in 1 .. Len(p) : i \in 1 .. Len(p) + Len(q) /\ tx[i] = tp[i] /\ bx[i] = bp[i]
  BY <1>1, <1>4
<1>8. \A i \in 1 .. Len(q) : /\ Len(p) + i \in 1 .. Len(p) + Len(q)
                             /\ tx[Len(p) + i] = tq[i] /\ bx[Len(p) + i] = bq[i]
  BY <1>1, <1>4
<1>9. tp \in Seq(S)
  BY <1>3 DEF tp
<1>10. tq \in Seq(S)
  BY <1>3 DEF tq
<1>11. tx \in Seq(S)
  BY <1>3 DEF tx
<1>12. bp \in Seq(S)
  BY <1>3
<1>13. bq \in Seq(S)
  BY <1>3
<1>14. bx \in Seq(S)
  BY <1>3
<1>15. tx = tp \o tq
  <2>1. IsJoin(tx, tp, tq)
    BY <1>6, <1>7, <1>8 DEF IsJoin
  <2> QED BY <1>9, <1>10, <1>11, <2>1, JoinIs
<1>16. bx = bp \o bq
  <2>1. IsJoin(bx, bp, bq)
    BY <1>5, <1>7, <1>8 DEF IsJoin
  <2> QED BY <1>12, <1>13, <1>14, <2>1, JoinIs
<1>17. FlattenSeq(bp \o bq) = FlattenSeq(bp) \o FlattenSeq(bq)
  BY <1>12, <1>13, FlattenConcat DEF S
<1>18. Texts(x) = Texts(p) \o Texts(q)
  BY <1>15 DEF tx, tp, tq
<1>19. Bytes(x) = Bytes(p) \o Bytes(q)
  BY <1>16, <1>17 DEF Bytes, bx, bp, bq
<1> QED BY <1>18, <1>19 DEF x

\* The first frame of a queue.
LEMMA QueueHead ==
  ASSUME NEW G, G \subseteq InTransit, NEW q \in Seq(G), q # << >>
  PROVE  /\ Head(q) \in G /\ Tail(q) \in Seq(G)
         /\ Texts(q) = <<Head(q).text>> \o Texts(Tail(q))
         /\ Bytes(q) = Head(q).bytes \o Bytes(Tail(q))
<1> DEFINE h == Head(q)
           r == Tail(q)
<1>1. h \in G /\ r \in Seq(G) /\ q = <<h>> \o r
  OBVIOUS
<1>2. h \in InTransit
  BY <1>1
<1>3. r \in Seq(InTransit)
  BY <1>1, SubQueue
<1>4. <<h>> \in Seq(InTransit)
  BY <1>2
<1> HIDE DEF h, r
<1>5. Texts(<<h>> \o r) = Texts(<<h>>) \o Texts(r) /\ Bytes(<<h>> \o r) = Bytes(<<h>>) \o Bytes(r)
  BY <1>3, <1>4, QueueJoin
<1>6. Texts(<<h>>) = <<h.text>> /\ Bytes(<<h>>) = h.bytes
  BY <1>2, QueueOne
<1> QED BY <1>1, <1>5, <1>6 DEF h, r

----------------------------------------------------------------------------
(* What the client does to the connection.                                 *)

Ended   == {"done", "failed"}
Sending == {"register", "pair", "token"}

\* The last bytes of a client that ends between two texts.
Closed(t) == (\E k \in Masks : t = CloseFrame(k)) \/ CutHeader(t)

\* The five things a step of the client may do once it has dialled: it ends
\* with a close frame, or with one after a part of a header; it writes a
\* header; it writes the text after it, or fails to write all of it; or it
\* leaves the sending side alone.
Closes ==
  /\ pc \notin Ended \cup {"dial", "upgrade"} /\ pc' \in Ended
  /\ body = << >> /\ body' = << >> /\ sent' = sent
  /\ \E z : Closed(z) /\ up' = up \o z
Cuts ==
  /\ pc \in Sending /\ body # << >> /\ pc' = "failed" /\ body' = << >> /\ sent' = sent
  /\ \E c \in Masks, j \in 0 .. Len(body) - 1 :
       up' = up \o (SubSeq(body, 1, j) \o CloseFrame(c))
Begins ==
  /\ pc \in Sending /\ body = << >> /\ pc' = pc
  /\ \E m \in Messages, k \in Masks :
       /\ up' = up \o Header(1, Text, Len(m), k) /\ body' = MaskText(m, k)
       /\ sent' = Append(sent, m)
Finishes ==
  /\ pc \in Sending /\ body # << >> /\ pc' \notin Ended \cup {"dial", "upgrade"}
  /\ up' = up \o body /\ body' = << >> /\ sent' = sent
Quiet ==
  /\ pc \notin Sending \cup Ended \cup {"dial"} /\ UNCHANGED <<up, sent, body>>
  /\ pc' # "dial" /\ (pc' = "upgrade" => pc = "upgrade")

\* The texts of the client are messages.
LEMMA MessageTypes ==
  /\ \A n \in IdLens : RegisterRequest(n) \in Seq(Byte) /\ Len(RegisterRequest(n)) > 6
  /\ QpInfoClient \in Seq(Byte) /\ Len(QpInfoClient) > 6
  /\ TokenMsg \in Seq(Byte) /\ Len(TokenMsg) > 6
<1>1. ASSUME NEW n \in IdLens
      PROVE  RegisterRequest(n) \in Seq(Byte) /\ Len(RegisterRequest(n)) > 6
  <2> DEFINE a == <<Tok.begin, Tok.register_request, Tok.data>>
             d == [i \in 1 .. n |-> 57 + (i % 5)]
             e == <<Tok.end>>
  <2>1. n \in Nat /\ n > 2
    BY IdLensAssumption
  <2>2. a \in Seq(Byte) /\ Len(a) = 3 /\ e \in Seq(Byte) /\ Len(e) = 1
    BY Tokens DEF Byte
  <2>a. a \in Seq(Byte)
    BY <2>2
  <2>e. e \in Seq(Byte)
    BY <2>2
  <2>3. \A i \in 1 .. n : 57 + (i % 5) \in Byte
    BY <2>1 DEF Byte
  <2>4. d \in Seq(Byte) /\ Len(d) = n
    BY <2>1, <2>3
  <2>d. d \in Seq(Byte)
    BY <2>4
  <2>5. RegisterRequest(n) = a \o d \o e
    BY DEF RegisterRequest
  <2> HIDE DEF a, d, e
  <2>6. a \o d \in Seq(Byte) /\ Len(a \o d) = Len(a) + Len(d)
    BY <2>a, <2>d, Joined
  <2>7. (a \o d) \o e \in Seq(Byte) /\ Len((a \o d) \o e) = Len(a \o d) + Len(e)
    <3> DEFINE x == a \o d
    <3>1. x \in Seq(Byte)
      BY <2>6
    <3> HIDE DEF x
    <3>2. x \o e \in Seq(Byte) /\ Len(x \o e) = Len(x) + Len(e)
      BY <2>e, <3>1, Joined
    <3> QED BY <3>2 DEF x
  <2>8. Len(RegisterRequest(n)) = 3 + n + 1
    BY <2>2, <2>4, <2>5, <2>6, <2>7
  <2> QED BY <2>1, <2>5, <2>7, <2>8
<1>2. QpInfoClient \in Seq(Byte) /\ Len(QpInfoClient) > 6
  BY Tokens DEF QpInfoClient, Byte
<1>3. TokenMsg \in Seq(Byte) /\ Len(TokenMsg) > 6
  BY Tokens DEF TokenMsg, Byte
<1> QED BY <1>1, <1>2, <1>3

\* ws_close adds one close frame.
LEMMA CloseFrameAdded ==
  ASSUME up \in Seq(Byte), NEW k \in Masks
  PROVE  up \o <<Half + Close, Half>> \o k = up \o CloseFrame(k)
<1> DEFINE a == <<Half + Close, Half>>
<1>1. k \in Seq(Byte)
  BY MaskType DEF IsKey
<1>2. a \in Seq(Byte)
  BY Sizes DEF Close, Byte
<1> HIDE DEF a
<1>3. (up \o a) \o k = up \o (a \o k)
  BY <1>1, <1>2, Associative, SMTT(20)
<1> QED BY <1>3 DEF a, CloseFrame

LEMMA FailCloses ==
  ASSUME up \in Seq(Byte), pc \notin Ended \cup {"dial", "upgrade"}, body = << >>,
         NEW next \in Ended, ws_close(next)
  PROVE  Closes
<1>1. PICK k \in Masks : up' = up \o CloseFrame(k)
  BY CloseFrameAdded DEF ws_close
<1> DEFINE z == CloseFrame(k)
<1>2. Closed(z) /\ up' = up \o z
  BY <1>1 DEF Closed
<1> HIDE DEF z
<1> QED BY <1>2 DEF ws_close, Closes

\* A short write adds a part of the bytes and one close frame.
LEMMA PartAdded ==
  ASSUME up \in Seq(Byte), NEW b \in Seq(Byte), ShortWrite(b)
  PROVE  \E c \in Masks, j \in 0 .. Len(b) - 1 :
           up' = up \o (SubSeq(b, 1, j) \o CloseFrame(c))
<1>1. PICK j \in 0 .. Len(b) - 1, c \in Masks :
        up' = up \o SubSeq(b, 1, j) \o <<Half + Close, Half>> \o c
  BY DEF ShortWrite
<1> DEFINE a == SubSeq(b, 1, j)
           e == <<Half + Close, Half>>
<1>2. a \in Seq(Byte)
  OBVIOUS
<1>3. c \in Seq(Byte)
  BY MaskType DEF IsKey
<1>4. e \in Seq(Byte)
  BY Sizes DEF Close, Byte
<1> HIDE DEF a, e
<1> DEFINE x == up \o a
           y == e \o c
<1>5. x \in Seq(Byte) /\ y \in Seq(Byte)
  BY <1>2, <1>3, <1>4
<1>6. (up \o a) \o y = up \o (a \o y)
  <2> HIDE DEF y
  <2> QED BY <1>2, <1>5, SMTT(30)
<1>7. (x \o e) \o c = x \o (e \o c)
  <2> HIDE DEF x
  <2> QED BY <1>3, <1>4, <1>5, SMTT(30)
<1>8. up' = up \o (a \o y)
  BY <1>1, <1>6, <1>7 DEF a, e
<1> QED BY <1>8 DEF a, y, e, CloseFrame

\* A header written in part.
LEMMA CutCloses ==
  ASSUME up \in Seq(Byte), pc \in Sending, body = << >>, NEW m \in Messages,
         NEW k \in Masks, ShortWrite(Header(1, Text, Len(m), k))
  PROVE  Closes
<1> DEFINE h == Header(1, Text, Len(m), k)
<1>1. h \in Seq(Byte)
  BY MessageHeader
<1>2. PICK c \in Masks, j \in 0 .. Len(h) - 1 :
        up' = up \o (SubSeq(h, 1, j) \o CloseFrame(c))
  <2> HIDE DEF h
  <2>1. ShortWrite(h)
    BY DEF h
  <2> QED BY <1>1, <2>1, PartAdded
<1> DEFINE z == SubSeq(h, 1, j) \o CloseFrame(c)
<1>3. Closed(z)
  <2>1. CASE j = 0
    <3>1. SubSeq(h, 1, 0) = << >>
      <4> HIDE DEF h
      <4> QED BY <1>1
    <3>2. z = CloseFrame(c)
      BY <2>1, <3>1, CloseFrameIs, ConcatEmptySeq
    <3> HIDE DEF z
    <3> QED BY <3>2 DEF Closed
  <2>2. CASE j \in 1 .. Len(h) - 1
    BY <2>2 DEF Closed, CutHeader
  <2>3. j = 0 \/ j \in 1 .. Len(h) - 1
    <3> HIDE DEF h
    <3> QED BY <1>1
  <2> QED BY <2>1, <2>2, <2>3
<1>4. up' = up \o z
  BY <1>2
<1> HIDE DEF z
<1> QED BY <1>3, <1>4 DEF ShortWrite, Closes, Sending, Ended

\* ws_send_text.
LEMMA SendKinds ==
  ASSUME up \in Seq(Byte), body \in Seq(Byte), NEW at \in Sending, NEW msg \in Seq(Byte), Len(msg) > 6,
         NEW next \in {"registered", "paired", "close"}, ws_send_text(at, msg, next)
  PROVE  UNCHANGED serverVars /\ (Closes \/ Begins \/ Finishes \/ Cuts)
<1>1. at \notin Ended \cup {"dial", "upgrade"} /\ next \notin Ended \cup {"dial", "upgrade"}
  BY DEF Sending, Ended
<1>2. CASE WriteHeader(at, msg)
  <2>1. ASSUME Len(msg) < Radix * Radix, NEW k \in Masks,
               \/ /\ up' = up \o SendHeader(Len(msg), k) /\ body' = MaskText(msg, k)
                  /\ sent' = Append(sent, msg) /\ pc' = pc
               \/ ShortWrite(SendHeader(Len(msg), k))
        PROVE  Closes \/ Begins
    <3>1. msg \in Messages /\ Len(msg) \in Nat
      BY <2>1 DEF Messages
    <3>2. SendHeader(Len(msg), k) = Header(1, Text, Len(msg), k)
      BY <2>1, <3>1, SendIsHeader
    <3>3. pc \in Sending /\ body = << >>
      BY <1>2 DEF WriteHeader
    <3>4. CASE ShortWrite(SendHeader(Len(msg), k))
      <4>1. ShortWrite(Header(1, Text, Len(msg), k))
        BY <3>2, <3>4
      <4> QED BY <3>1, <3>3, <4>1, CutCloses
    <3>5. CASE /\ up' = up \o SendHeader(Len(msg), k) /\ body' = MaskText(msg, k)
               /\ sent' = Append(sent, msg) /\ pc' = pc
      BY <3>1, <3>2, <3>3, <3>5 DEF Begins
    <3> QED BY <2>1, <3>4, <3>5
  <2>2. CASE Fail
    BY <1>1, <1>2, <2>2, FailCloses DEF WriteHeader, Fail, Ended
  <2> QED BY <1>2, <2>1, <2>2 DEF WriteHeader
<1>3. CASE WriteBody(at, next)
  <2>1. CASE up' = up \o body /\ body' = << >> /\ pc' = next /\ sent' = sent
    BY <1>1, <1>3, <2>1 DEF WriteBody, Finishes
  <2>2. CASE ShortWrite(body)
    <3>1. body \in Seq(Byte)
      OBVIOUS
    <3>2. \E c \in Masks, j \in 0 .. Len(body) - 1 :
            up' = up \o (SubSeq(body, 1, j) \o CloseFrame(c))
      BY <2>2, <3>1, PartAdded
    <3>3. pc \in Sending /\ body # << >> /\ pc' = "failed" /\ body' = << >> /\ sent' = sent
      BY <1>3, <2>2 DEF WriteBody, ShortWrite
    <3> QED BY <1>3, <3>2, <3>3 DEF WriteBody, Cuts
  <2> QED BY <1>3, <2>1, <2>2 DEF WriteBody
<1> QED BY <1>2, <1>3 DEF ws_send_text

\* ws_recv_text.
LEMMA RecvKinds ==
  ASSUME up \in Seq(Byte), body = << >>, NEW at \in {"registered", "paired"},
         NEW next \in {"pair", "rtr"}, ws_recv_text(at, next)
  PROVE  UNCHANGED serverVars /\ (Closes \/ Quiet)
<1>1. /\ at \notin Sending \cup Ended \cup {"dial", "upgrade"}
      /\ next \notin Ended \cup {"dial", "upgrade"}
  BY DEF Sending, Ended
<1>2. CASE read_full(at)
  <2>1. CASE Fail
    BY <1>1, <1>2, <2>1, FailCloses DEF read_full, Fail, Ended
  <2>2. CASE UNCHANGED <<pc, body, sent, up>>
    BY <1>1, <1>2, <2>2 DEF read_full, Quiet
  <2> QED BY <1>2, <2>1, <2>2 DEF read_full
<1>3. CASE pc = at /\ Fail /\ UNCHANGED serverVars
  BY <1>1, <1>3, FailCloses DEF Fail, Ended
<1>4. ASSUME NEW buf, NEW json, pc = at, TakeFrame(at, next, buf, json), UNCHANGED serverVars
      PROVE  Closes \/ Quiet
  <2>1. CASE pc' = next /\ UNCHANGED up
    BY <1>1, <1>4, <2>1 DEF TakeFrame, Quiet
  <2>2. CASE pc' = "failed" /\ \E k \in Masks : up' = up \o <<Half + Close, Half>> \o k
    <3>1. PICK k \in Masks : up' = up \o CloseFrame(k)
      BY <2>2, CloseFrameAdded
    <3> DEFINE z == CloseFrame(k)
    <3>2. Closed(z) /\ up' = up \o z
      BY <3>1 DEF Closed
    <3> HIDE DEF z
    <3> QED BY <1>1, <1>4, <2>2, <3>2 DEF TakeFrame, Closes, Ended
  <2> QED BY <1>4, <2>1, <2>2 DEF TakeFrame
<1> QED BY <1>2, <1>3, <1>4 DEF ws_recv_text

LEMMA ClientKinds ==
  ASSUME up \in Seq(Byte), body \in Seq(Byte), pc \notin Sending => body = << >>, Client
  PROVE  Dial \/ (UNCHANGED serverVars /\ (Closes \/ Begins \/ Finishes \/ Cuts \/ Quiet))
<1>1. CASE ReadUpgrade
  BY <1>1 DEF ReadUpgrade, Quiet, Sending, Ended
<1>2. CASE send_register_request
  BY <1>2, SendKinds, MessageTypes DEF send_register_request, Sending
<1>3. CASE send_qpinfo_client
  BY <1>3, SendKinds, MessageTypes DEF send_qpinfo_client, Sending
<1>4. CASE send_token
  BY <1>4, SendKinds, MessageTypes DEF send_token, Sending
<1>5. CASE recv_register_response
  <2>1. body = << >>
    BY <1>5 DEF recv_register_response, ws_recv_text, read_full, Sending
  <2> QED BY <1>5, <2>1, RecvKinds DEF recv_register_response
<1>6. CASE recv_qpinfo_server
  <2>1. body = << >>
    BY <1>6 DEF recv_qpinfo_server, ws_recv_text, read_full, Sending
  <2> QED BY <1>6, <2>1, RecvKinds DEF recv_qpinfo_server
<1>7. CASE Verbs
  BY <1>7, FailCloses DEF Verbs, Fail, Ended
<1>8. CASE CloseWs
  BY <1>8, FailCloses DEF CloseWs, Ended, Sending
<1>9. CASE v_qp_to_rtr
  BY <1>9 DEF v_qp_to_rtr, Quiet, Sending, Ended
<1> QED BY <1>1, <1>2, <1>3, <1>4, <1>5, <1>6, <1>7, <1>8, <1>9 DEF Client

----------------------------------------------------------------------------
(* What the server hears.                                                  *)

\* The frames of texts the client has written.
SentFrame == {f \in InTransit : /\ f.text \in Messages
                                /\ \E k \in Masks : f.bytes = Frame(1, Text, f.text, k)}

\* What follows the last of them, and the texts that are not yet in a frame: a
\* text may be at its header, or written in part, and the connection be closed,
\* there or elsewhere.
Rest(t, u) ==
  \/ t = << >> /\ u = << >> /\ body = << >>
  \/ Closed(t) /\ u = << >> /\ body = << >> /\ pc \in Ended
  \/ \E m \in Messages :
       /\ u = <<m>>
       /\ \/ \E k \in Masks : /\ t = Header(1, Text, Len(m), k) /\ body = MaskText(m, k)
                              /\ pc \in Sending
          \/ CutText(t, m) /\ body = << >> /\ pc = "failed"

OnTheWay(q, t, u) ==
  /\ q \in Seq(SentFrame) /\ t \in Seq(Byte) /\ u \in Seq(Seq(Byte))
  /\ sent = heard \o (Texts(q) \o u) /\ up = Bytes(q) \o t /\ Rest(t, u)

\* The server has taken a text with a garbled end, and too little is left for
\* another frame.
Spent == Len(up) < 6 /\ pc = "failed"

\* The texts that were sent are those the server has heard, those in frames on
\* their way, and at most one that is being written.
Heard ==
  /\ HearsWhatIsSent
  /\ pc \notin Sending => body = << >>
  /\ pc = "dial" => srv = "none" /\ down = << >> /\ got = << >>
  /\ srv = "accepted" => pc = "upgrade" /\ up = <<0>> /\ down = << >> /\ got = << >>
  /\ pc \in {"dial", "upgrade"} => sent = << >> /\ heard = << >> /\ body = << >>
  /\ srv = "open" => (\E q, t, u : OnTheWay(q, t, u)) \/ Spent

LEMMA SentFrames == SentFrame \subseteq InTransit
BY DEF SentFrame

\* The bytes and texts of what is on its way.
LEMMA OnTheWayTypes ==
  ASSUME NEW q, NEW t, NEW u, OnTheWay(q, t, u)
  PROVE  /\ q \in Seq(InTransit) /\ Bytes(q) \in Seq(Byte) /\ Texts(q) \in Seq(Seq(Byte))
         /\ t \in Seq(Byte) /\ u \in Seq(Seq(Byte))
<1>1. q \in Seq(InTransit)
  BY SentFrames, SubQueue DEF OnTheWay
<1> QED BY <1>1, QueueTypes DEF OnTheWay

\* The masked text of a message is not empty.
LEMMA MaskedNotEmpty ==
  ASSUME NEW m \in Messages, NEW k \in Masks
  PROVE  MaskText(m, k) \in Seq(Byte) /\ MaskText(m, k) # << >>
<1>1. m \in Seq(Byte) /\ Len(m) > 6 /\ Len(m) \in Nat
  BY DEF Messages
<1>2. IsKey(k)
  BY MaskType
<1>3. MaskText(m, k) \in Seq(Byte) /\ Len(MaskText(m, k)) = Len(m)
  BY <1>1, <1>2, MaskBack
<1>4. Len(MaskText(m, k)) > 6
  BY <1>1, <1>3
<1>5. MaskText(m, k) # << >>
  BY <1>4
<1> QED BY <1>3, <1>5

\* Unless the client has failed, it may send one text more.
LEMMA HearsMore ==
  ASSUME WsTypeOK, HearsWhatIsSent, pc # "failed", heard' = heard,
         sent' = sent \/ \E m \in Seq(Byte) : sent' = Append(sent, m)
  PROVE  HearsWhatIsSent'
<1> DEFINE Q == Seq(Byte)
           y == sent'
<1>1. heard \in Seq(Q) /\ sent \in Seq(Q)
  BY DEF WsTypeOK
<1>2. Len(heard) <= Len(sent) /\ \A i \in DOMAIN heard : heard[i] = sent[i]
  BY DEF HearsWhatIsSent
<1>3. DOMAIN heard = 1 .. Len(heard) /\ Len(heard) \in Nat /\ Len(sent) \in Nat
  BY <1>1
<1>4. y = sent \/ \E m \in Q : y = Append(sent, m)
  OBVIOUS
<1> HIDE DEF Q, y
<1>5. Len(sent) <= Len(y) /\ \A i \in 1 .. Len(sent) : y[i] = sent[i]
  BY <1>1, <1>4
<1>6. Len(y) \in Nat
  BY <1>1, <1>4
<1>7. Len(heard) <= Len(y) /\ \A i \in DOMAIN heard : heard[i] = y[i]
  BY <1>2, <1>3, <1>5, <1>6
<1> QED BY <1>7 DEF HearsWhatIsSent, y

\* The bytes of a client that ends.
LEMMA ClosedBytes ==
  ASSUME NEW z, Closed(z)
  PROVE  z \in Seq(Byte)
<1>1. CASE \E k \in Masks : z = CloseFrame(k)
  BY <1>1, CloseFrameIs
<1>2. CASE CutHeader(z)
  <2>1. PICK m \in Messages, k \in Masks, c \in Masks :
          \E j \in 1 .. Len(Header(1, Text, Len(m), k)) - 1 :
            z = SubSeq(Header(1, Text, Len(m), k), 1, j) \o CloseFrame(c)
    BY <1>2 DEF CutHeader
  <2> DEFINE h == Header(1, Text, Len(m), k)
             e == CloseFrame(c)
  <2>2. h \in Seq(Byte) /\ e \in Seq(Byte)
    BY MessageHeader, CloseFrameIs
  <2>3. PICK j \in 1 .. Len(h) - 1 : z = SubSeq(h, 1, j) \o e
    BY <2>1
  <2> HIDE DEF h, e
  <2>4. SubSeq(h, 1, j) \in Seq(Byte)
    BY <2>2
  <2>5. SubSeq(h, 1, j) \o e \in Seq(Byte)
    BY <2>2, <2>4, Joined
  <2> QED BY <2>3, <2>5
<1> QED BY <1>1, <1>2 DEF Closed

\* The connection is closed.
LEMMA ClosesHeard ==
  ASSUME WsTypeOK, NEW q, NEW t, NEW u, OnTheWay(q, t, u), Closes, heard' = heard
  PROVE  \E x : OnTheWay(q, x, u)'
<1>1. PICK z : Closed(z) /\ up' = up \o z
  BY DEF Closes
<1>2. z \in Seq(Byte)
  BY <1>1, ClosedBytes
<1>3. Bytes(q) \in Seq(Byte)
  <2>1. q \in Seq(InTransit)
    BY SentFrames, SubQueue DEF OnTheWay
  <2> QED BY <2>1, QueueTypes
<1>4. t = << >> /\ u = << >>
  <2>1. pc \notin Ended /\ body = << >>
    BY DEF Closes
  <2>2. Rest(t, u)
    BY DEF OnTheWay
  <2> QED BY <2>1, <2>2, MaskedNotEmpty DEF Rest, Ended
<1>5. up' = Bytes(q) \o z
  <2>1. up = Bytes(q)
    BY <1>3, <1>4, ConcatEmptySeq DEF OnTheWay
  <2> QED BY <1>1, <2>1
<1>6. Rest(z, u)'
  <2>1. pc' \in Ended /\ body' = << >>
    BY DEF Closes
  <2> QED BY <1>1, <1>4, <2>1 DEF Rest
<1>7. sent' = sent /\ heard' = heard
  BY DEF Closes
<1>8. q \in Seq(SentFrame) /\ u \in Seq(Seq(Byte)) /\ sent = heard \o (Texts(q) \o u)
  BY DEF OnTheWay
<1>9. OnTheWay(q, z, u)'
  BY <1>2, <1>5, <1>6, <1>7, <1>8 DEF OnTheWay
<1> QED BY <1>9

\* A text is not written to its end, and the connection is closed.
LEMMA CutsHeard ==
  ASSUME WsTypeOK, NEW q, NEW t, NEW u, OnTheWay(q, t, u), Cuts, heard' = heard
  PROVE  \E x : OnTheWay(q, x, u)'
<1>1. PICK m \in Messages, k \in Masks :
        u = <<m>> /\ t = Header(1, Text, Len(m), k) /\ body = MaskText(m, k)
  <2>1. pc \in Sending /\ pc # "failed" /\ pc \notin Ended /\ body # << >>
    BY DEF Cuts, Sending, Ended
  <2>2. Rest(t, u)
    BY DEF OnTheWay
  <2> QED BY <2>1, <2>2 DEF Rest
<1>2. PICK c \in Masks, j \in 0 .. Len(body) - 1 :
        up' = up \o (SubSeq(body, 1, j) \o CloseFrame(c))
  BY DEF Cuts
<1> DEFINE h == Header(1, Text, Len(m), k)
           w == MaskText(m, k)
           y == SubSeq(w, 1, j) \o CloseFrame(c)
           x == h \o y
           b == Bytes(q)
<1>3. Len(body) = Len(m) /\ w \in Seq(Byte) /\ Len(w) \in Nat
  <2>1. m \in Seq(Byte) /\ IsKey(k)
    BY MaskType DEF Messages
  <2> QED BY <1>1, <2>1, MaskBack
<1>4. h \in Seq(Byte)
  BY MessageHeader
<1>5. y \in Seq(Byte)
  <2> DEFINE a == SubSeq(w, 1, j)
             e == CloseFrame(c)
  <2>1. a \in Seq(Byte)
    <3> HIDE DEF w
    <3> QED BY <1>1, <1>3 DEF w
  <2>2. e \in Seq(Byte)
    BY CloseFrameIs
  <2> HIDE DEF a, e
  <2>3. a \o e \in Seq(Byte)
    BY <2>1, <2>2, Joined
  <2> QED BY <2>3 DEF a, e
<1>6. b \in Seq(Byte)
  BY OnTheWayTypes
<1>7. CutText(x, m)
  BY <1>3 DEF CutText
<1>8. up' = (b \o h) \o y
  BY <1>1, <1>2 DEF OnTheWay
<1> HIDE DEF h, y, b
<1>9. up' = b \o x
  BY <1>4, <1>5, <1>6, <1>8, Associative, SMTT(20)
<1>10. x \in Seq(Byte)
  BY <1>4, <1>5, Joined
<1> HIDE DEF x
<1>11. Rest(x, u)'
  BY <1>1, <1>7 DEF Rest, Cuts
<1>12. sent' = sent /\ heard' = heard
  BY DEF Cuts
<1>13. q \in Seq(SentFrame) /\ u \in Seq(Seq(Byte)) /\ sent = heard \o (Texts(q) \o u)
  BY DEF OnTheWay
<1>14. OnTheWay(q, x, u)'
  BY <1>9, <1>10, <1>11, <1>12, <1>13 DEF OnTheWay, b
<1> QED BY <1>14

\* A header is written.
LEMMA BeginsHeard ==
  ASSUME WsTypeOK, NEW q, NEW t, NEW u, OnTheWay(q, t, u), Begins, heard' = heard
  PROVE  \E x, y : OnTheWay(q, x, y)'
<1>1. PICK m \in Messages, k \in Masks :
        /\ up' = up \o Header(1, Text, Len(m), k) /\ body' = MaskText(m, k)
        /\ sent' = Append(sent, m)
  BY DEF Begins
<1>2. t = << >> /\ u = << >>
  <2>1. pc \in Sending /\ pc \notin Ended /\ body = << >>
    BY DEF Begins, Sending, Ended
  <2>2. Rest(t, u)
    BY DEF OnTheWay
  <2> QED BY <2>1, <2>2, MaskedNotEmpty DEF Rest, Ended
<1> DEFINE h == Header(1, Text, Len(m), k)
           b == Bytes(q)
           s == Texts(q)
           y == <<m>>
<1>3. h \in Seq(Byte)
  BY MessageHeader
<1>4. b \in Seq(Byte) /\ s \in Seq(Seq(Byte))
  BY OnTheWayTypes
<1>5. m \in Seq(Byte)
  BY DEF Messages
<1>6. y \in Seq(Seq(Byte))
  BY <1>5
<1> HIDE DEF h, b, s, y
<1>7. up' = b \o h
  <2>1. up = b
    BY <1>2, <1>4, ConcatEmptySeq DEF OnTheWay, b
  <2> QED BY <1>1, <2>1 DEF h
<1>8. sent' = heard \o (s \o y)
  <2> DEFINE Q == Seq(Byte)
  <2>1. sent \in Seq(Q) /\ heard \in Seq(Q)
    BY DEF WsTypeOK
  <2>2. sent = heard \o s
    <3>1. s \o << >> = s
      BY <1>4, ConcatEmptySeq
    <3> QED BY <1>2, <3>1 DEF OnTheWay, s
  <2>3. m \in Q /\ s \in Seq(Q) /\ y \in Seq(Q)
    BY <1>4, <1>5, <1>6
  <2> HIDE DEF Q
  <2>4. Append(sent, m) = sent \o <<m>>
    BY <2>1, <2>3
  <2>a. heard \in Seq(Q)
    BY <2>1
  <2>b. s \in Seq(Q)
    BY <2>3
  <2>c. y \in Seq(Q)
    BY <2>3
  <2>5. (heard \o s) \o y = heard \o (s \o y)
    BY <2>a, <2>b, <2>c, Associative, SMTT(20)
  <2> QED BY <1>1, <2>2, <2>4, <2>5 DEF y
<1>9. Rest(h, y)'
  <2>1. pc' \in Sending
    BY DEF Begins
  <2> QED BY <1>1, <2>1 DEF Rest, h, y
<1>10. q \in Seq(SentFrame)
  BY DEF OnTheWay
<1>11. OnTheWay(q, h, y)'
  BY <1>3, <1>6, <1>7, <1>8, <1>9, <1>10 DEF OnTheWay, b, s
<1> QED BY <1>11

\* A text is written after its header: one more frame is on its way.
LEMMA FinishesHeard ==
  ASSUME WsTypeOK, NEW q, NEW t, NEW u, OnTheWay(q, t, u), Finishes, heard' = heard
  PROVE  \E p, x, y : OnTheWay(p, x, y)'
<1>1. PICK m \in Messages, k \in Masks :
        u = <<m>> /\ t = Header(1, Text, Len(m), k) /\ body = MaskText(m, k)
  <2>1. pc \in Sending /\ pc \notin Ended /\ body # << >>
    BY DEF Finishes, Sending, Ended
  <2>2. Rest(t, u)
    BY DEF OnTheWay
  <2> QED BY <2>1, <2>2 DEF Rest
<1> DEFINE h == Header(1, Text, Len(m), k)
           w == MaskText(m, k)
           f == [text |-> m, bytes |-> Frame(1, Text, m, k)]
           p == q \o <<f>>
           b == Bytes(q)
           s == Texts(q)
<1>2. h \in Seq(Byte) /\ w \in Seq(Byte) /\ m \in Seq(Byte)
  BY MessageHeader, MaskedNotEmpty DEF Messages
<1>3. Frame(1, Text, m, k) = h \o w
  <2>1. Masked(m, k) = w
    BY <1>2, MaskType, MaskBack
  <2> QED BY <2>1 DEF Frame
<1>4. f \in SentFrame
  <2>1. Frame(1, Text, m, k) \in Seq(Byte)
    BY <1>2, <1>3, Joined
  <2> QED BY <1>2, <2>1 DEF SentFrame, InTransit
<1>5. f \in InTransit /\ f.text = m /\ f.bytes = h \o w
  BY <1>3, <1>4, SentFrames
<1>6. q \in Seq(SentFrame) /\ q \in Seq(InTransit) /\ b \in Seq(Byte) /\ s \in Seq(Seq(Byte))
  BY OnTheWayTypes DEF OnTheWay
<1> HIDE DEF h, w, f, b, s
<1>7. p \in Seq(SentFrame)
  BY <1>4, <1>6
<1>8. Texts(p) = s \o <<m>> /\ Bytes(p) = b \o (h \o w)
  <2>1. <<f>> \in Seq(InTransit)
    BY <1>5
  <2>2. Texts(p) = s \o Texts(<<f>>) /\ Bytes(p) = b \o Bytes(<<f>>)
    BY <1>6, <2>1, QueueJoin DEF s, b
  <2>3. Texts(<<f>>) = <<f.text>> /\ Bytes(<<f>>) = f.bytes
    BY <1>5, QueueOne
  <2> QED BY <1>5, <2>2, <2>3
<1>9. up' = Bytes(p) \o << >>
  <2>1. h \in Seq(Byte)
    BY <1>2
  <2>2. w \in Seq(Byte)
    BY <1>2
  <2>3. b \in Seq(Byte)
    BY <1>6
  <2>4. (b \o h) \o w = b \o (h \o w)
    BY <2>1, <2>2, <2>3, Associative, SMTT(20)
  <2>5. up' = (b \o h) \o w
    BY <1>1 DEF Finishes, OnTheWay, b, h, w
  <2>6. b \o (h \o w) \in Seq(Byte)
    BY <2>1, <2>2, <2>3
  <2> QED BY <1>8, <2>4, <2>5, <2>6, ConcatEmptySeq
<1>10. sent' = heard \o (Texts(p) \o << >>)
  <2>1. s \o <<m>> \in Seq(Seq(Byte))
    BY <1>2, <1>6
  <2>2. (s \o <<m>>) \o << >> = s \o <<m>>
    BY <2>1, ConcatEmptySeq
  <2>3. sent' = heard \o (s \o <<m>>)
    BY <1>1 DEF Finishes, OnTheWay, s
  <2> QED BY <1>8, <2>2, <2>3
<1>11. Rest(<< >>, << >>)'
  BY DEF Finishes, Rest
<1>12. << >> \in Seq(Byte) /\ << >> \in Seq(Seq(Byte))
  OBVIOUS
<1> HIDE DEF p
<1>13. OnTheWay(p, << >>, << >>)'
  BY <1>7, <1>9, <1>10, <1>11, <1>12 DEF OnTheWay
<1> QED BY <1>13

\* The sending side is left alone.
LEMMA QuietHeard ==
  ASSUME NEW q, NEW t, NEW u, OnTheWay(q, t, u), Quiet, heard' = heard
  PROVE  OnTheWay(q, t, u)'
<1>1. pc \notin Sending /\ pc \notin Ended /\ UNCHANGED <<up, sent, body>>
  BY DEF Quiet
<1>2. Rest(t, u)'
  <2>1. Rest(t, u)
    BY DEF OnTheWay
  <2>2. t = << >> /\ u = << >> /\ body = << >>
    BY <1>1, <2>1 DEF Rest, Ended
  <2> QED BY <1>1, <2>2 DEF Rest
<1> QED BY <1>1, <1>2 DEF OnTheWay

\* What is left of two parts when the first is taken away.
LEMMA DropFirst ==
  ASSUME NEW S, NEW a \in Seq(S), NEW b \in Seq(S)
  PROVE  SubSeq(a \o b, Len(a) + 1, Len(a \o b)) = b
<1> DEFINE c == a \o b
<1>1. /\ c \in Seq(S) /\ Len(c) = Len(a) + Len(b) /\ Len(a) \in Nat /\ Len(b) \in Nat
      /\ \A i \in 1 .. Len(b) : c[Len(a) + i] = b[i]
  BY Joined
<1> DEFINE m == Len(a)
           n == Len(b)
<1> HIDE DEF c, m, n
<1>2. /\ c \in Seq(S) /\ m \in Nat /\ m + n <= Len(c) /\ \A i \in 1 .. n : c[m + i] = b[i]
      /\ Len(c) = m + n /\ n = Len(b)
  BY <1>1 DEF m, n
<1>3. SubSeq(c, m + 1, m + n) = b
  BY <1>2, SliceIs
<1> QED BY <1>2, <1>3 DEF c, m

\* What the server takes from the connection is the first frame on its way, a
\* close frame after all the others, or a text that a close frame completed.
LEMMA Served ==
  ASSUME NEW q, NEW t, NEW u, OnTheWay(q, t, u), Len(up) >= 6, NEW f \in Arrived
  PROVE  \/ /\ q # << >> /\ f.op = Text /\ f.text = Head(q).text
            /\ SubSeq(up, f.len + 1, Len(up)) = Bytes(Tail(q)) \o t
         \/ f.op = Close /\ pc \in Ended /\ SubSeq(up, f.len + 1, Len(up)) = << >>
         \/ /\ q = << >> /\ f.op = Text /\ pc = "failed" /\ f.text \in Seq(Byte)
            /\ \E m \in Messages : u = <<m>> /\ EndsGarbled(f.text, m)
            /\ f.len \in Nat /\ f.len <= Len(up) /\ Len(up) - f.len < 6
<1>1. CASE q # << >>
  <2> DEFINE g == Head(q)
             b == Bytes(Tail(q))
             r == b \o t
             z == g.bytes
  <2>1. /\ g \in SentFrame /\ Tail(q) \in Seq(SentFrame) /\ Bytes(q) = z \o b
    BY <1>1, SentFrames, QueueHead DEF OnTheWay
  <2>2. PICK k \in Masks : z = Frame(1, Text, g.text, k)
    BY <2>1 DEF SentFrame
  <2>3. g.text \in Messages /\ z \in Seq(Byte)
    BY <2>1 DEF SentFrame, InTransit
  <2>4. b \in Seq(Byte)
    <3>1. Tail(q) \in Seq(InTransit)
      BY <2>1, SentFrames, SubQueue
    <3> QED BY <3>1, QueueTypes
  <2>5. t \in Seq(Byte) /\ up = (z \o b) \o t
    BY <2>1 DEF OnTheWay
  <2> HIDE DEF g, b, z
  <2>6. (z \o b) \o t = z \o (b \o t)
    <3>1. z \in Seq(Byte)
      BY <2>3
    <3>2. t \in Seq(Byte)
      BY <2>5
    <3> QED BY <2>4, <3>1, <3>2, Associative, SMTT(20)
  <2>7. r \in Seq(Byte)
    BY <2>4, <2>5, Joined
  <2>8. up = z \o r
    BY <2>5, <2>6
  <2> HIDE DEF r
  <2>9. f.len = Len(z) /\ f.op = Text /\ f.text = g.text
    BY <2>2, <2>3, <2>7, <2>8, TextArrives
  <2>10. SubSeq(z \o r, Len(z) + 1, Len(z \o r)) = r
    BY <2>3, <2>7, DropFirst
  <2> QED BY <1>1, <2>8, <2>9, <2>10 DEF g, b, r
<1>2. CASE q = << >>
  <2>1. t \in Seq(Byte) /\ Bytes(q) = << >>
    BY <1>2, QueueNone DEF OnTheWay
  <2>2. up = t
    BY <2>1, ConcatEmptySeq DEF OnTheWay
  <2>3. t # << >>
    <3>1. Len(t) >= 6
      BY <2>2
    <3> QED BY <3>1
  <2>4. CASE pc \in Ended /\ \E k \in Masks : t = CloseFrame(k)
    <3>1. f.op = Close /\ f.len = 6 /\ Len(up) = 6
      BY <2>2, <2>4, CloseArrives
    <3>2. SubSeq(up, 7, 6) = << >>
      BY <2>1, <2>2
    <3> QED BY <2>4, <3>1, <3>2
  <2>5. ASSUME NEW m \in Messages, NEW k \in Masks, t = Header(1, Text, Len(m), k) PROVE FALSE
    <3> DEFINE h == Header(1, Text, Len(m), k)
    <3>1. h \in Seq(Byte)
      BY MessageHeader
    <3> HIDE DEF h
    <3>2. up = h \o << >>
      BY <2>2, <2>5, <3>1, ConcatEmptySeq DEF h
    <3>3. << >> \in Seq(Byte) /\ Len(<< >>) <= 6
      OBVIOUS
    <3>4. Arrived = {}
      BY <3>2, <3>3, HeaderWaits DEF h
    <3> QED BY <3>4
  <2>6. CASE CutHeader(t)
    <3>1. CutHeader(up)
      BY <2>2, <2>6, Zenon
    <3> QED BY <3>1, CutHeaderWaits
  <2>7. ASSUME NEW m \in Messages, u = <<m>>, CutText(t, m), pc = "failed"
        PROVE  /\ f.op = Text /\ f.text \in Seq(Byte) /\ EndsGarbled(f.text, m)
               /\ f.len \in Nat /\ f.len <= Len(up) /\ Len(up) - f.len < 6
    <3>1. CutText(up, m)
      BY <2>2, <2>7, Zenon
    <3> QED BY <3>1, CutTextArrives
  <2>8. Rest(t, u)
    BY DEF OnTheWay
  <2> QED BY <1>2, <2>3, <2>4, <2>5, <2>6, <2>7, <2>8, Zenon DEF Rest, Closed
<1> QED BY <1>1, <1>2

\* The server takes a frame.
LEMMA ServesHeard ==
  ASSUME WsTypeOK, NEW q, NEW t, NEW u, OnTheWay(q, t, u), SrvServe
  PROVE  /\ HearsWhatIsSent => HearsWhatIsSent'
         /\ srv' = "open" => (\E x : OnTheWay(x, t, u)') \/ Spent'
         /\ heard' \in Seq(Seq(Byte)) /\ up' \in Seq(Byte)
         /\ pc \in Ended \/ sent # << >>
<1>1. PICK f \in Arrived :
        /\ up' = SubSeq(up, f.len + 1, Len(up))
        /\ \/ f.op = Text /\ heard' = Append(heard, f.text) /\ UNCHANGED srv
           \/ f.op = Close /\ srv' = "gone" /\ heard' = heard
  BY DEF SrvServe
<1>2. UNCHANGED <<pc, body, sent>> /\ Text # Close /\ Len(up) >= 6
  BY DEF SrvServe, clientVars, Text, Close
<1>3. CASE /\ q # << >> /\ f.op = Text /\ f.text = Head(q).text
           /\ SubSeq(up, f.len + 1, Len(up)) = Bytes(Tail(q)) \o t
  <2> DEFINE Q == Seq(Byte)
             m == Head(q).text
             p == Tail(q)
             s == Texts(p)
             v == s \o u
  <2>1. /\ Head(q) \in SentFrame /\ p \in Seq(SentFrame) /\ Texts(q) = <<m>> \o s
    BY <1>3, SentFrames, QueueHead DEF OnTheWay
  <2>2. p \in Seq(InTransit)
    BY <2>1, SentFrames, SubQueue
  <2>3. s \in Seq(Q) /\ Bytes(p) \in Seq(Byte)
    BY <2>2, QueueTypes
  <2>4. m \in Q /\ u \in Seq(Q) /\ t \in Seq(Byte)
    BY <2>1 DEF SentFrame, InTransit, OnTheWay
  <2>5. heard \in Seq(Q) /\ sent = heard \o ((<<m>> \o s) \o u)
    BY <2>1 DEF WsTypeOK, OnTheWay
  <2>6. heard' = Append(heard, m) /\ srv' = srv /\ up' = Bytes(p) \o t
    BY <1>1, <1>2, <1>3
  <2>7. Bytes(p) \o t \in Seq(Byte)
    BY <2>3, <2>4, Joined
  <2> HIDE DEF Q, m, p, s
  <2>8. v \in Seq(Q) /\ (<<m>> \o s) \o u = <<m>> \o v
    <3>1. <<m>> \in Seq(Q)
      BY <2>4
    <3> QED BY <2>3, <2>4, <3>1, Associative, Joined
  <2> HIDE DEF v
  <2>9. heard' \in Seq(Q) /\ sent = heard' \o v
    <3>1. <<m>> \in Seq(Q) /\ Append(heard, m) = heard \o <<m>>
      BY <2>4, <2>5
    <3>2. (heard \o <<m>>) \o v = heard \o (<<m>> \o v)
      BY <2>5, <2>8, <3>1, Associative, SMTT(20)
    <3>3. heard \o <<m>> \in Seq(Q)
      BY <2>5, <3>1, Joined
    <3> QED BY <2>5, <2>6, <2>8, <3>1, <3>2, <3>3
  <2>10. HearsWhatIsSent'
    <3>1. sent' = heard' \o v /\ sent' \in Seq(Q) /\ v \in Seq(Q)
      BY <1>2, <2>8, <2>9 DEF WsTypeOK, Q
    <3>2. /\ Len(heard' \o v) = Len(heard') + Len(v)
          /\ \A i \in 1 .. Len(heard') : (heard' \o v)[i] = heard'[i]
      BY <2>9, <3>1, Joined
    <3> DEFINE w == heard'
               y == sent'
    <3>3. w \in Seq(Q) /\ v \in Seq(Q) /\ Len(y) = Len(w) + Len(v)
          /\ \A i \in 1 .. Len(w) : y[i] = w[i]
      BY <2>9, <3>1, <3>2
    <3> HIDE DEF w, y
    <3>4. Len(w) <= Len(y) /\ \A i \in DOMAIN w : w[i] = y[i]
      BY <3>3
    <3> QED BY <3>4 DEF HearsWhatIsSent, w, y
  <2>11. OnTheWay(p, t, u)'
    <3>1. Rest(t, u)'
      BY <1>2 DEF OnTheWay, Rest
    <3>2. sent' = heard' \o (Texts(p) \o u)
      BY <1>2, <2>9 DEF v, s
    <3>3. t \in Seq(Byte) /\ u \in Seq(Seq(Byte)) /\ p \in Seq(SentFrame)
      BY <2>1 DEF OnTheWay
    <3> QED BY <2>6, <3>1, <3>2, <3>3 DEF OnTheWay
  <2>12. sent # << >>
    <3>1. <<m>> \in Seq(Q)
      BY <2>4
    <3>2. <<m>> \o v \in Seq(Q) /\ Len(<<m>> \o v) = Len(<<m>>) + Len(v)
      BY <2>8, <3>1, Joined
    <3>3. Len(sent) = Len(heard) + Len(<<m>> \o v)
      BY <2>5, <2>8, <3>2, Joined
    <3>4. Len(<<m>>) = 1 /\ Len(v) \in Nat /\ Len(heard) \in Nat
      BY <2>5, <2>8
    <3>5. Len(sent) > 0
      BY <3>2, <3>3, <3>4
    <3> QED BY <3>5
  <2> QED BY <2>6, <2>7, <2>9, <2>10, <2>11, <2>12 DEF Q
<1>4. CASE f.op = Close /\ pc \in Ended /\ SubSeq(up, f.len + 1, Len(up)) = << >>
  <2>1. srv' = "gone" /\ heard' = heard /\ up' = << >>
    BY <1>1, <1>2, <1>4
  <2>2. << >> \in Seq(Byte) /\ heard \in Seq(Seq(Byte))
    BY DEF WsTypeOK
  <2>3. HearsWhatIsSent => HearsWhatIsSent'
    BY <1>2, <2>1 DEF HearsWhatIsSent
  <2> QED BY <1>4, <2>1, <2>2, <2>3
<1>6. CASE /\ q = << >> /\ f.op = Text /\ pc = "failed" /\ f.text \in Seq(Byte)
           /\ \E m \in Messages : u = <<m>> /\ EndsGarbled(f.text, m)
           /\ f.len \in Nat /\ f.len <= Len(up) /\ Len(up) - f.len < 6
  <2> DEFINE Q == Seq(Byte)
             x == f.text
             y == heard'
  <2>1. PICK m \in Messages : u = <<m>> /\ EndsGarbled(x, m)
    BY <1>6
  <2>2. heard \in Seq(Q) /\ m \in Q /\ x \in Q /\ y = Append(heard, x)
    BY <1>1, <1>2, <1>6 DEF WsTypeOK, Messages
  <2>3. sent = Append(heard, m)
    <3>1. sent = heard \o (<< >> \o <<m>>)
      BY <1>6, <2>1, QueueNone DEF OnTheWay
    <3>2. << >> \o <<m>> = <<m>>
      BY <2>2
    <3> HIDE DEF Q
    <3>3. heard \o <<m>> = Append(heard, m)
      BY <2>2
    <3> QED BY <3>1, <3>2, <3>3
  <2>4. /\ y \in Seq(Q) /\ DOMAIN y = 1 .. Len(heard) + 1 /\ Len(y) = Len(heard) + 1
        /\ Len(heard) \in Nat /\ y[Len(heard) + 1] = x
        /\ \A i \in 1 .. Len(heard) : y[i] = heard[i]
    <3> HIDE DEF Q, x, y
    <3> QED BY <2>2
  <2>5. /\ Len(sent) = Len(heard) + 1 /\ sent[Len(heard) + 1] = m
        /\ \A i \in 1 .. Len(heard) : sent[i] = heard[i]
    <3> HIDE DEF Q
    <3> QED BY <2>2, <2>3
  <2>6. pc' = "failed" /\ sent' = sent /\ Len(sent) # 0
    BY <1>2, <1>6, <2>4, <2>5
  <2>7. HearsWhatIsSent'
    <3> HIDE DEF Q, x, y
    <3>1. ASSUME NEW i \in DOMAIN y
          PROVE  y[i] = sent[i] \/ (i = Len(sent) /\ EndsGarbled(y[i], sent[i]))
      <4>1. i \in 1 .. Len(heard) \/ i = Len(heard) + 1
        BY <2>4
      <4> QED BY <2>1, <2>4, <2>5, <4>1
    <3>2. Len(y) <= Len(sent)
      BY <2>4, <2>5
    <3> QED BY <2>6, <3>1, <3>2 DEF HearsWhatIsSent, y
  <2>8. up' \in Seq(Byte) /\ Len(up') < 6
    <3> DEFINE l == f.len
               z == SubSeq(up, l + 1, Len(up))
    <3>1. up \in Seq(Byte) /\ l \in Nat /\ l <= Len(up) /\ Len(up) - l < 6
      BY <1>6 DEF WsTypeOK
    <3> HIDE DEF l
    <3>2. z \in Seq(Byte) /\ Len(z) = Len(up) - l
      BY <3>1
    <3> QED BY <1>1, <3>1, <3>2 DEF l
  <2>9. Spent'
    BY <2>6, <2>8 DEF Spent
  <2> QED BY <1>6, <2>4, <2>7, <2>8, <2>9 DEF Ended
<1>5. \/ /\ q # << >> /\ f.op = Text /\ f.text = Head(q).text
         /\ SubSeq(up, f.len + 1, Len(up)) = Bytes(Tail(q)) \o t
      \/ f.op = Close /\ pc \in Ended /\ SubSeq(up, f.len + 1, Len(up)) = << >>
      \/ /\ q = << >> /\ f.op = Text /\ pc = "failed" /\ f.text \in Seq(Byte)
         /\ \E m \in Messages : u = <<m>> /\ EndsGarbled(f.text, m)
         /\ f.len \in Nat /\ f.len <= Len(up) /\ Len(up) - f.len < 6
  <2>1. Len(up) >= 6
    BY <1>2
  <2> QED BY <2>1, Served
<1> QED BY <1>3, <1>4, <1>5, <1>6, Zenon

LEMMA HeardInit == Init => Heard
<1> SUFFICES ASSUME Init PROVE Heard
  OBVIOUS
<1>1. Len(<< >>) = 0 /\ DOMAIN << >> = {}
  OBVIOUS
<1>2. HearsWhatIsSent
  BY <1>1 DEF Init, HearsWhatIsSent
<1> QED BY <1>2 DEF Init, Heard

\* Until the server has answered the upgrade the client waits.
LEMMA ClientWaits == srv = "accepted" /\ Heard => ~Client
<1> SUFFICES ASSUME srv = "accepted", pc = "upgrade", down = << >>, Client PROVE FALSE
  BY DEF Heard
<1>1. ~ReadUpgrade
  BY DEF ReadUpgrade
<1>2. \A at \in {"registered", "paired"}, next \in {"pair", "rtr"} : ~ws_recv_text(at, next)
  BY DEF ws_recv_text, read_full
<1>3. \A at \in Sending : \A msg, next : ~ws_send_text(at, msg, next)
  BY DEF ws_send_text, WriteHeader, WriteBody, Sending
<1>4. ~send_register_request /\ ~send_qpinfo_client /\ ~send_token
  BY <1>3 DEF Sending, send_register_request, send_qpinfo_client, send_token
<1>5. ~recv_register_response /\ ~recv_qpinfo_server
  BY <1>2 DEF recv_register_response, recv_qpinfo_server
<1> QED BY <1>1, <1>4, <1>5 DEF Client, Dial, Verbs, v_qp_to_rtr, CloseWs

LEMMA HeardStep ==
  ASSUME WsTypeOK, Heard, [Next]_vars
  PROVE  Heard'
<1> DEFINE Way == \E q, t, u : OnTheWay(q, t, u)
<1>0. /\ HearsWhatIsSent /\ (pc \notin Sending => body = << >>)
      /\ (pc = "dial" => srv = "none" /\ down = << >> /\ got = << >>)
      /\ (srv = "accepted" => pc = "upgrade" /\ up = <<0>> /\ down = << >> /\ got = << >>)
      /\ (pc \in {"dial", "upgrade"} => sent = << >> /\ heard = << >> /\ body = << >>)
      /\ (srv = "open" => Way \/ Spent)
  BY DEF Heard
<1> HIDE DEF Way
<1>1. ASSUME Client PROVE Heard'
  <2>1. CASE Dial
    <3>1. UNCHANGED <<sent, heard>> /\ pc # "failed"
      BY <2>1 DEF Dial
    <3>2. HearsWhatIsSent'
      BY <1>0, <3>1, HearsMore
    <3> QED BY <1>0, <2>1, <3>2 DEF Dial, Heard, Sending
  <2>2. ASSUME UNCHANGED serverVars, Closes \/ Begins \/ Finishes \/ Cuts \/ Quiet PROVE Heard'
    <3>1. srv' = srv /\ heard' = heard /\ srv # "accepted"
      BY <1>1, <2>2, ClientWaits DEF serverVars
    <3>2. HearsWhatIsSent' /\ pc # "failed"
      <4>1. sent' = sent \/ \E m \in Seq(Byte) : sent' = Append(sent, m)
        BY <2>2 DEF Closes, Begins, Finishes, Cuts, Quiet, Messages
      <4>2. pc # "failed"
        BY <2>2 DEF Closes, Begins, Finishes, Cuts, Quiet, Sending, Ended
      <4> QED BY <1>0, <3>1, <4>1, <4>2, HearsMore
    <3>3. /\ pc' \notin Sending => body' = << >>
          /\ pc' # "dial"
          /\ pc' = "upgrade" => pc = "upgrade" /\ sent' = sent /\ body' = body
      BY <1>0, <2>2 DEF Closes, Begins, Finishes, Cuts, Quiet, Sending, Ended
    <3>4. ASSUME srv = "open" PROVE Way'
      <4>1. PICK q, t, u : OnTheWay(q, t, u)
        BY <1>0, <3>2, <3>4 DEF Way, Spent
      <4>2. CASE Closes
        BY <3>1, <4>1, <4>2, ClosesHeard DEF Way
      <4>3. CASE Begins
        BY <3>1, <4>1, <4>3, BeginsHeard DEF Way
      <4>4. CASE Finishes
        BY <3>1, <4>1, <4>4, FinishesHeard DEF Way
      <4>5. CASE Quiet
        BY <3>1, <4>1, <4>5, QuietHeard DEF Way
      <4>6. CASE Cuts
        BY <3>1, <4>1, <4>6, CutsHeard DEF Way
      <4> QED BY <2>2, <4>2, <4>3, <4>4, <4>5, <4>6
    <3> QED BY <1>0, <3>1, <3>2, <3>3, <3>4 DEF Heard, Way
  <2>3. up \in Seq(Byte) /\ body \in Seq(Byte) /\ (pc \notin Sending => body = << >>)
    BY <1>0 DEF WsTypeOK
  <2> QED BY <1>1, <2>1, <2>2, <2>3, ClientKinds
<1>2. ASSUME SrvUpgrade PROVE Heard'
  <2>1. /\ srv = "accepted" /\ up' = Tail(up) /\ srv' \in {"open", "gone"}
        /\ UNCHANGED <<pc, got, body, sent, heard>>
    BY <1>2 DEF SrvUpgrade, clientVars
  <2>2. pc = "upgrade" /\ up' = << >> /\ sent = << >> /\ heard = << >> /\ body = << >>
    <3>1. Tail(<<0>>) = << >>
      OBVIOUS
    <3> QED BY <1>0, <2>1, <3>1, Zenon
  <2>3. OnTheWay(<< >>, << >>, << >>)'
    <3>1. Rest(<< >>, << >>)'
      BY <2>1, <2>2 DEF Rest
    <3>2. << >> = << >> \o << >> /\ << >> = << >> \o (<< >> \o << >>)
      OBVIOUS
    <3>3. << >> \in Seq(SentFrame) /\ << >> \in Seq(Byte) /\ << >> \in Seq(Seq(Byte))
      OBVIOUS
    <3> QED BY <2>1, <2>2, <3>1, <3>2, <3>3, QueueNone DEF OnTheWay
  <2>4. HearsWhatIsSent'
    <3>1. pc # "failed"
      BY <2>2
    <3> QED BY <1>0, <2>1, <3>1, HearsMore
  <2> QED BY <1>0, <2>1, <2>2, <2>3, <2>4 DEF Heard
<1>3. ASSUME SrvServe PROVE Heard'
  <2>1. srv = "open" /\ srv' # "accepted" /\ UNCHANGED <<pc, body, sent>>
    BY <1>3 DEF SrvServe, clientVars
  <2>5. ~Spent
    BY <1>3 DEF SrvServe, Spent, WsTypeOK
  <2>2. PICK q, t, u : OnTheWay(q, t, u)
    BY <1>0, <2>1, <2>5 DEF Way
  <2>3. /\ HearsWhatIsSent' /\ (srv' = "open" => Way' \/ Spent')
        /\ (pc \in Ended \/ sent # << >>)
    BY <1>0, <1>3, <2>2, ServesHeard DEF Way
  <2>4. pc \notin {"dial", "upgrade"}
    BY <1>0, <2>3 DEF Ended
  <2> QED BY <1>0, <2>1, <2>3, <2>4 DEF Heard, Way
<1>4. ASSUME SrvHangup PROVE Heard'
  <2>1. srv \in {"accepted", "open"} /\ srv' = "gone" /\ UNCHANGED <<pc, body, sent, heard>>
    BY <1>4 DEF SrvHangup, clientVars
  <2>2. HearsWhatIsSent'
    BY <1>0, <2>1 DEF HearsWhatIsSent
  <2> QED BY <1>0, <2>1, <2>2 DEF Heard
<1>5. ASSUME UNCHANGED vars PROVE Heard'
  <2>1. UNCHANGED <<pc, up, down, got, body, sent, heard, srv>>
    BY <1>5 DEF vars, clientVars, serverVars
  <2>2. ASSUME Way PROVE Way'
    <3>1. PICK q, t, u : OnTheWay(q, t, u)
      BY <2>2 DEF Way
    <3>2. Rest(t, u)'
      BY <2>1, <3>1 DEF OnTheWay, Rest
    <3>3. OnTheWay(q, t, u)'
      BY <2>1, <3>1, <3>2 DEF OnTheWay
    <3> QED BY <3>3 DEF Way
  <2>3. HearsWhatIsSent' /\ (Spent => Spent')
    BY <1>0, <2>1 DEF HearsWhatIsSent, Spent
  <2> QED BY <1>0, <2>1, <2>2, <2>3 DEF Heard, Way
<1> QED BY <1>1, <1>2, <1>3, <1>4, <1>5 DEF Next, Terminated

----------------------------------------------------------------------------
(* From the server to the client: what is read.                            *)

\* The lengths taken from a header.
LEMMA Asked ==
  ASSUME got \in Seq(Byte)
  PROVE  /\ Len(got) >= 2 => ExtLen(got) \in {0, 2, 8} /\ MaskLen(got) \in {0, 4}
         /\ Len(got) >= 2 /\ Len(got) >= 2 + ExtLen(got) => TextLen(got) \in Nat
         /\ HaveHeader => Wanted = 2 + ExtLen(got) + MaskLen(got) + TextLen(got)
         /\ Wanted \in Nat
<1>1. Len(got) \in Nat /\ Half \in Nat /\ Half > 0 /\ Radix \in Nat
  BY Sizes
<1>2. ASSUME Len(got) >= 2 PROVE ExtLen(got) \in {0, 2, 8} /\ MaskLen(got) \in {0, 4}
  BY DEF ExtLen, MaskLen
<1>3. ASSUME Len(got) >= 2, Len(got) >= 2 + ExtLen(got) PROVE TextLen(got) \in Nat
  <2>1. CASE ExtLen(got) = 0
    <3>1. got[2] \in Nat
      <4>1. got[2] \in Byte
        BY <1>1, <1>3
      <4> QED BY <4>1, HeaderBytes
    <3>2. got[2] % Half \in Nat
      BY <1>1, <3>1
    <3> QED BY <2>1, <3>2 DEF TextLen
  <2>2. CASE ExtLen(got) \in {2, 8}
    <3> DEFINE e == ExtLen(got)
               b == SubSeq(got, 3, 2 + e)
    <3>1. e \in {2, 8}
      BY <2>2
    <3> HIDE DEF e
    <3>2. b \in Seq(Byte) /\ Len(b) = e
      BY <1>1, <1>3, <3>1 DEF e
    <3> HIDE DEF b
    <3>3. b[e - 1] \in Byte /\ b[e] \in Byte
      BY <3>1, <3>2
    <3>4. b[e - 1] \in Nat /\ b[e] \in Nat
      BY <3>3, HeaderBytes
    <3>5. Number(b) = Radix * Radix \/ Number(b) = b[e - 1] * Radix + b[e]
      BY <3>2 DEF Number
    <3>6. Number(b) \in Nat
      BY <1>1, <3>4, <3>5
    <3> QED BY <3>1, <3>6 DEF TextLen, e, b
  <2> QED BY <1>2, <1>3, <2>1, <2>2
<1>4. ASSUME HaveHeader PROVE Wanted = 2 + ExtLen(got) + MaskLen(got) + TextLen(got)
  BY <1>1, <1>2, <1>3, <1>4 DEF HaveHeader, Wanted
<1>5. Wanted \in Nat
  BY <1>1, <1>2, <1>3 DEF Wanted
<1> QED BY <1>2, <1>3, <1>4, <1>5

\* What ws_recv_text hands over.
LEMMA RecvTyped ==
  ASSUME got \in Seq(Byte), HaveHeader, Len(got) = Wanted
  PROVE  RecvText \in Seq(Byte) /\ Len(RecvText) = TextLen(got) /\ TextLen(got) \in Nat
<1> DEFINE n == TextLen(got)
           h == Wanted - n
           w == SubSeq(got, h + 1, Wanted)
           k == SubSeq(got, h - 3, h)
<1>1. /\ ExtLen(got) \in {0, 2, 8} /\ MaskLen(got) \in {0, 4} /\ n \in Nat
      /\ Wanted = 2 + ExtLen(got) + MaskLen(got) + n
  <2>1. Len(got) >= 2 /\ Len(got) >= 2 + ExtLen(got) + MaskLen(got) /\ Len(got) \in Nat
    BY DEF HaveHeader
  <2>2. ExtLen(got) \in {0, 2, 8} /\ MaskLen(got) \in {0, 4}
    BY <2>1, Asked
  <2>3. Len(got) >= 2 + ExtLen(got)
    BY <2>1, <2>2
  <2> QED BY <2>1, <2>2, <2>3, Asked
<1>2. h \in Nat /\ h = 2 + ExtLen(got) + MaskLen(got) /\ Wanted = h + n
  BY <1>1
<1> HIDE DEF h, n
<1>3. w \in Seq(Byte) /\ Len(w) = n
  <2>1. Len(got) = h + n /\ n \in Nat /\ h \in Nat
    BY <1>1, <1>2
  <2>2. SubSeq(got, h + 1, h + n) \in Seq(Byte) /\ Len(SubSeq(got, h + 1, h + n)) = n
    BY <2>1
  <2> QED BY <1>2, <2>2
<1>4. RecvText = IF MaskLen(got) = 0 THEN w ELSE MaskText(w, k)
  BY DEF RecvText, h, n
<1>5. CASE MaskLen(got) = 0
  BY <1>1, <1>3, <1>4, <1>5 DEF n
<1>6. CASE MaskLen(got) = 4
  <2>1. h >= 4 /\ h <= Len(got)
    BY <1>1, <1>2, <1>6
  <2>2. k \in Seq(Byte) /\ Len(k) = 4
    BY <1>2, <2>1
  <2>3. IsKey(k)
    BY <2>2 DEF IsKey
  <2> HIDE DEF w, k
  <2>4. MaskText(w, k) \in Seq(Byte) /\ Len(MaskText(w, k)) = Len(w)
    BY <1>3, <2>3, MaskBack
  <2>5. RecvText = MaskText(w, k)
    BY <1>4, <1>6
  <2> QED BY <1>1, <1>3, <2>4, <2>5 DEF n
<1> QED BY <1>1, <1>5, <1>6

----------------------------------------------------------------------------
(* What the server says.                                                   *)

\* The address of the server's queue pair, byte by byte.
LEMMA GidBytes ==
  /\ ServerQp.gid = [i \in 1 .. GidLen |-> 59 + (i % 3)] /\ ServerQp.qpn = 57
  /\ ServerQp.lid = 58 /\ ServerQp.gid_idx = ServerIdx /\ ServerQp.mtu_enum = 63
  /\ ServerQp.gid \in Seq(57 .. 61) /\ Len(ServerQp.gid) = GidLen
<1>1. ServerQp.gid = [i \in 1 .. GidLen |-> 59 + (i % 3)] /\ ServerQp.qpn = 57
      /\ ServerQp.lid = 58 /\ ServerQp.gid_idx = ServerIdx /\ ServerQp.mtu_enum = 63
  BY DEF ServerQp
<1>2. \A i \in 1 .. GidLen : 59 + (i % 3) \in 57 .. 61
  OBVIOUS
<1>3. GidLen \in Nat
  BY GidLenAssumption
<1> DEFINE g == [i \in 1 .. GidLen |-> 59 + (i % 3)]
           S == 57 .. 61
<1>4. \A i \in 1 .. GidLen : 59 + (i % 3) \in S
  BY <1>2
<1> HIDE DEF S
<1>5. g \in Seq(S) /\ Len(g) = GidLen
  BY <1>3, <1>4
<1> QED BY <1>1, <1>5 DEF S

\* The server's answer, token by token: no number is taken for a key.
QpTokens(t) ==
  /\ t \in Seq(40 .. 63) /\ Len(t) = 14 + GidLen
  /\ t[1] = 40 /\ t[2] = 46 /\ t[3] = 41 /\ t[4] = 49 /\ t[5] = 57 /\ t[6] = 50
  /\ t[7] = 58 /\ t[8] = 51 /\ t[9] = 54
  /\ \A i \in 1 .. GidLen : t[9 + i] = ServerQp.gid[i] /\ t[9 + i] \in Digit
  /\ t[10 + GidLen] = 52 /\ t[11 + GidLen] = ServerIdx /\ t[12 + GidLen] = 53
  /\ t[13 + GidLen] = 63 /\ t[14 + GidLen] = 42

LEMMA QpText == QpTokens(QpInfoServer)
<1> DEFINE a == <<40, 46, 41, 49, 57, 50, 58, 51, 54>>
           g == ServerQp.gid
           e == <<52, ServerIdx, 53, 63, 42>>
           T == 40 .. 63
           x == a \o g
           t == x \o e
<1>1. QpInfoServer = t
  BY Tokens, GidBytes DEF QpInfoServer
<1>2. a \in Seq(T) /\ Len(a) = 9
  OBVIOUS
<1>3. e \in Seq(T) /\ Len(e) = 5
  BY GidIdxAssumption
<1>4. g \in Seq(T) /\ Len(g) = GidLen /\ GidLen \in Nat /\ \A i \in 1 .. GidLen : g[i] \in Digit
  <2>1. g \in Seq(57 .. 61) /\ Len(g) = GidLen
    BY GidBytes
  <2>2. \A i \in 1 .. Len(g) : g[i] \in 57 .. 61
    BY <2>1
  <2>3. \A i \in 1 .. Len(g) : g[i] \in T /\ g[i] \in Digit
    BY <2>2 DEF Digit
  <2> HIDE DEF T, g
  <2>4. g \in Seq(T)
    BY <2>1, <2>3
  <2> QED BY <2>1, <2>3, <2>4, GidLenAssumption
<1>5. /\ a[1] = 40 /\ a[2] = 46 /\ a[3] = 41 /\ a[4] = 49 /\ a[5] = 57 /\ a[6] = 50
      /\ a[7] = 58 /\ a[8] = 51 /\ a[9] = 54
      /\ e[1] = 52 /\ e[2] = ServerIdx /\ e[3] = 53 /\ e[4] = 63 /\ e[5] = 42
  OBVIOUS
<1> HIDE DEF a, g, e, T
<1>6. /\ x \in Seq(T) /\ Len(x) = 9 + GidLen /\ \A i \in 1 .. 9 : x[i] = a[i]
      /\ \A i \in 1 .. GidLen : x[9 + i] = g[i]
  <2>1. a \in Seq(T) /\ g \in Seq(T)
    BY <1>2, <1>4
  <2>2. /\ x \in Seq(T) /\ Len(x) = Len(a) + Len(g) /\ \A i \in 1 .. Len(a) : x[i] = a[i]
        /\ \A i \in 1 .. Len(g) : x[Len(a) + i] = g[i]
    BY <2>1, Joined
  <2>3. Len(a) = 9 /\ Len(g) = GidLen
    BY <1>2, <1>4
  <2> HIDE DEF x
  <2> QED BY <2>2, <2>3, Zenon
<1> HIDE DEF x
<1>7. /\ t \in Seq(T) /\ Len(t) = (9 + GidLen) + 5 /\ \A i \in 1 .. 9 + GidLen : t[i] = x[i]
      /\ \A i \in 1 .. 5 : t[(9 + GidLen) + i] = e[i]
  <2>1. x \in Seq(T) /\ e \in Seq(T)
    BY <1>3, <1>6
  <2>2. /\ t \in Seq(T) /\ Len(t) = Len(x) + Len(e) /\ \A i \in 1 .. Len(x) : t[i] = x[i]
        /\ \A i \in 1 .. Len(e) : t[Len(x) + i] = e[i]
    BY <2>1, Joined
  <2>3. Len(x) = 9 + GidLen /\ Len(e) = 5
    BY <1>3, <1>6
  <2> HIDE DEF t
  <2> QED BY <2>2, <2>3, Zenon
<1> HIDE DEF t
<1>8. Len(t) = 14 + GidLen /\ \A i \in 1 .. 9 : t[i] = a[i]
  BY <1>4, <1>6, <1>7
<1>9. \A i \in 1 .. GidLen : t[9 + i] = g[i]
  BY <1>4, <1>6, <1>7
<1>10. /\ t[10 + GidLen] = e[1] /\ t[11 + GidLen] = e[2] /\ t[12 + GidLen] = e[3]
       /\ t[13 + GidLen] = e[4] /\ t[14 + GidLen] = e[5]
  <2>1. /\ t[(9 + GidLen) + 1] = e[1] /\ t[(9 + GidLen) + 2] = e[2] /\ t[(9 + GidLen) + 3] = e[3]
        /\ t[(9 + GidLen) + 4] = e[4] /\ t[(9 + GidLen) + 5] = e[5]
    BY <1>7
  <2>2. /\ (9 + GidLen) + 1 = 10 + GidLen /\ (9 + GidLen) + 2 = 11 + GidLen
        /\ (9 + GidLen) + 3 = 12 + GidLen /\ (9 + GidLen) + 4 = 13 + GidLen
        /\ (9 + GidLen) + 5 = 14 + GidLen
    BY <1>4
  <2> QED BY <2>1, <2>2
<1>11. t[1] = 40 /\ t[2] = 46 /\ t[3] = 41 /\ t[4] = 49 /\ t[5] = 57 /\ t[6] = 50
      /\ t[7] = 58 /\ t[8] = 51 /\ t[9] = 54
  <2>1. /\ t[1] = a[1] /\ t[2] = a[2] /\ t[3] = a[3] /\ t[4] = a[4] /\ t[5] = a[5]
        /\ t[6] = a[6] /\ t[7] = a[7] /\ t[8] = a[8] /\ t[9] = a[9]
    BY <1>8
  <2> QED BY <1>5, <2>1, SMT
<1>12. /\ t[10 + GidLen] = 52 /\ t[11 + GidLen] = ServerIdx /\ t[12 + GidLen] = 53
       /\ t[13 + GidLen] = 63 /\ t[14 + GidLen] = 42
  BY <1>5, <1>10, SMT
<1>13. \A i \in 1 .. GidLen : t[9 + i] = g[i] /\ t[9 + i] \in Digit
  BY <1>4, <1>9, Zenon
<1>14. t \in Seq(T) /\ Len(t) = 14 + GidLen
  BY <1>7, <1>8
<1>15. QpTokens(t)
  BY <1>11, <1>12, <1>13, <1>14, Zenon DEF QpTokens, g, T
<1> QED BY <1>1, <1>15

\* Every token of the answer but the numbers is at one place.
LEMMA QpPlaces ==
  ASSUME NEW t, QpTokens(t), NEW i \in 1 .. Len(t)
  PROVE  /\ t[i] = 46 => i = 2
         /\ t[i] = 49 => i = 4
         /\ t[i] = 50 => i = 6
         /\ t[i] = 51 => i = 8
         /\ t[i] = 52 => i = 10 + GidLen
         /\ t[i] = 53 => i = 12 + GidLen
         /\ t[i] # 44
<1>1. GidLen \in Nat /\ Len(t) = 14 + GidLen /\ i \in 1 .. 14 + GidLen
  BY GidLenAssumption DEF QpTokens
<1>2. CASE i \in 1 .. 9
  <2>1. \/ i = 1 \/ i = 2 \/ i = 3 \/ i = 4 \/ i = 5 \/ i = 6 \/ i = 7 \/ i = 8 \/ i = 9
    BY <1>2
  <2>2. /\ t[1] = 40 /\ t[2] = 46 /\ t[3] = 41 /\ t[4] = 49 /\ t[5] = 57 /\ t[6] = 50
        /\ t[7] = 58 /\ t[8] = 51 /\ t[9] = 54
    BY DEF QpTokens
  <2> DEFINE v == t[i]
  <2>3. /\ (i = 1 => v = 40) /\ (i = 2 => v = 46) /\ (i = 3 => v = 41)
        /\ (i = 4 => v = 49) /\ (i = 5 => v = 57) /\ (i = 6 => v = 50)
        /\ (i = 7 => v = 58) /\ (i = 8 => v = 51) /\ (i = 9 => v = 54)
    BY <2>2, SMT
  <2> HIDE DEF v
  <2>5. /\ (v = 46 => i = 2) /\ (v = 49 => i = 4) /\ (v = 50 => i = 6) /\ (v = 51 => i = 8)
        /\ v # 52 /\ v # 53 /\ v # 44
    BY <2>1, <2>3
  <2> QED BY <2>5, Zenon DEF v
<1>3. CASE i - 9 \in 1 .. GidLen
  <2> DEFINE j == i - 9
  <2>1. j \in 1 .. GidLen /\ 9 + j = i
    BY <1>1, <1>3
  <2>2. t[9 + j] \in Digit
    BY <2>1 DEF QpTokens
  <2>3. t[i] \in 57 .. 63
    BY <2>1, <2>2 DEF Digit
  <2> QED BY <2>3
<1>4. CASE i - GidLen \in 10 .. 14
  <2>1. \/ i = 10 + GidLen \/ i = 11 + GidLen \/ i = 12 + GidLen \/ i = 13 + GidLen
        \/ i = 14 + GidLen
    BY <1>1, <1>4
  <2>2. /\ t[10 + GidLen] = 52 /\ t[11 + GidLen] \in 57 .. 63 /\ t[12 + GidLen] = 53
        /\ t[13 + GidLen] = 63 /\ t[14 + GidLen] = 42
    BY GidIdxAssumption DEF QpTokens
  <2> DEFINE v == t[i]
  <2>3. \/ (i = 10 + GidLen /\ v = 52) \/ (i = 12 + GidLen /\ v = 53) \/ v \in 57 .. 63 \/ v = 42
    <3>1. i = 10 + GidLen => v = 52
      BY <2>2
    <3>2. i = 11 + GidLen => v \in 57 .. 63
      BY <2>2
    <3>3. i = 12 + GidLen => v = 53
      BY <2>2
    <3>4. i = 13 + GidLen => v \in 57 .. 63
      BY <2>2
    <3>5. i = 14 + GidLen => v = 42
      BY <2>2
    <3> QED BY <2>1, <3>1, <3>2, <3>3, <3>4, <3>5, Zenon
  <2> HIDE DEF v
  <2>4. /\ v # 46 /\ v # 49 /\ v # 50 /\ v # 51 /\ v # 44
        /\ (v = 52 => i = 10 + GidLen) /\ (v = 53 => i = 12 + GidLen)
    BY <2>3
  <2> QED BY <2>4, Zenon DEF v
<1> QED BY <1>1, <1>2, <1>3, <1>4

\* A run of tokens of a text.
Pieces(t) == {SubSeq(t, a, b) : a \in 1 .. Len(t), b \in 0 .. Len(t)}

LEMMA PieceIs ==
  ASSUME NEW S, NEW t \in Seq(S), NEW p \in Pieces(t)
  PROVE  /\ p \in Seq(S) /\ Len(p) <= Len(t)
         /\ \A i \in 1 .. Len(p) : \E j \in 1 .. Len(t) : p[i] = t[j]
<1>1. PICK a \in 1 .. Len(t), b \in 0 .. Len(t) : p = SubSeq(t, a, b)
  BY DEF Pieces
<1>2. p \in Seq(S) /\ Len(p) = (IF a <= b THEN b - a + 1 ELSE 0)
  BY <1>1
<1>3. ASSUME NEW i \in 1 .. Len(p) PROVE \E j \in 1 .. Len(t) : p[i] = t[j]
  <2>1. p[i] = t[a + i - 1] /\ a + i - 1 \in 1 .. Len(t)
    BY <1>1, <1>2
  <2> QED BY <2>1
<1> QED BY <1>2, <1>3

\* What the server says only when it has done it: tokens of the answers.
Told(t, acts) ==
  /\ t \in Seq(40 .. 63)
  /\ Contains(t, 44) /\ Contains(t, 56) => "registered" \in acts
  /\ Contains(t, 46) =>
       /\ "paired" \in acts
       /\ \E a \in 1 .. 2, b \in 1 .. Len(QpInfoServer) : t = SubSeq(QpInfoServer, a, b)

LEMMA ToldQpInfo ==
  ASSUME NEW p \in Pieces(QpInfoServer), NEW acts, "paired" \in acts
  PROVE  Told(p, acts)
<1> DEFINE t == QpInfoServer
<1>1. QpTokens(t)
  BY QpText
<1> HIDE DEF t
<1>2. t \in Seq(40 .. 63) /\ p \in Pieces(t) /\ Len(t) \in Nat
  BY <1>1 DEF QpTokens, t
<1>3. p \in Seq(40 .. 63) /\ \A i \in 1 .. Len(p) : \E j \in 1 .. Len(t) : p[i] = t[j]
  BY <1>2, PieceIs
<1>4. ~Contains(p, 44)
  BY <1>1, <1>3, QpPlaces DEF Contains
<1>5. ASSUME Contains(p, 46)
      PROVE  \E a \in 1 .. 2, b \in 1 .. Len(t) : p = SubSeq(t, a, b)
  <2>1. PICK a \in 1 .. Len(t), b \in 0 .. Len(t) : p = SubSeq(t, a, b)
    BY <1>2 DEF Pieces
  <2>2. PICK i \in 1 .. Len(p) : p[i] = 46
    BY <1>5 DEF Contains
  <2>3. Len(p) = (IF a <= b THEN b - a + 1 ELSE 0)
    BY <1>2, <2>1
  <2>4. a <= b /\ i \in 1 .. (b - a) + 1
    BY <2>2, <2>3
  <2>5. a + i - 1 \in 1 .. Len(t) /\ p[i] = t[a + i - 1]
    BY <1>2, <2>1, <2>4
  <2>6. a + i - 1 = 2
    BY <1>1, <2>2, <2>5, QpPlaces
  <2>7. a \in 1 .. 2 /\ b \in 1 .. Len(t)
    BY <2>4, <2>6
  <2> QED BY <2>1, <2>7
<1> QED BY <1>3, <1>4, <1>5 DEF Told, t

\* The tokens of a text are bytes.
LEMMA TokenBytes == \A t \in Seq(40 .. 63) : t \in Seq(Byte)
<1> SUFFICES ASSUME NEW t \in Seq(40 .. 63) PROVE t \in Seq(Byte)
  OBVIOUS
<1>1. 40 .. 63 \subseteq Byte
  BY DEF Byte
<1> QED BY <1>1, SubQueue

\* The frames of the server, whole or too long for any buffer.
WholeFrame(f) ==
  /\ Len(f.text) < Radix * Radix
  /\ \E fin \in {0, 1}, op \in {Cont, Text, Close, Ping}, k \in Masks \cup {<< >>} :
       f.bytes = Frame(fin, op, f.text, k)

TooLong == Header(1, Text, Radix * Radix, << >>)

ServerFrame == {f \in InTransit : WholeFrame(f) \/ f.bytes = TooLong}

\* The first byte of a frame.
LEMMA FirstByte ==
  \A fin \in {0, 1}, op \in {Cont, Text, Close, Ping} :
    fin * Half + op \in Byte /\ (fin * Half + op) % Half = op
<1> SUFFICES ASSUME NEW fin \in {0, 1}, NEW op \in {Cont, Text, Close, Ping}
             PROVE  fin * Half + op \in Byte /\ (fin * Half + op) % Half = op
  OBVIOUS
<1>1. Half \in 8 .. 20 /\ op \in 0 .. Half - 1
  BY Sizes DEF Cont, Text, Close, Ping
<1>2. (Half + op) % Half = op /\ op % Half = op
  BY <1>1, LowBits
<1>3. fin * Half + op = (IF fin = 0 THEN op ELSE Half + op)
  BY <1>1
<1> QED BY <1>1, <1>2, <1>3 DEF Byte

LEMMA MakesFrame ==
  ASSUME NEW p \in Seq(Byte), Len(p) < Radix * Radix, NEW fin \in {0, 1},
         NEW op \in {Cont, Text, Close, Ping}, NEW k \in Masks \cup {<< >>}
  PROVE  [text |-> p, bytes |-> Frame(fin, op, p, k)] \in ServerFrame
<1> DEFINE f == [text |-> p, bytes |-> Frame(fin, op, p, k)]
           b == fin * Half + op
<1>1. b \in Byte
  BY FirstByte
<1>2. k \in Seq(Byte) /\ (k = << >> \/ IsKey(k))
  <2>1. CASE k = << >>
    BY <2>1
  <2>2. CASE k \in Masks
    <3>1. IsKey(k)
      BY <2>2, MaskType
    <3> QED BY <3>1 DEF IsKey
  <2> QED BY <2>1, <2>2
<1> HIDE DEF b
<1>3. FrameIs(Frame(fin, op, p, k), Header(fin, op, Len(p), k), Masked(p, k))
  BY <1>1, <1>2, FrameShape DEF b
<1>4. Frame(fin, op, p, k) \in Seq(Byte)
  BY <1>3 DEF FrameIs
<1>5. f \in InTransit /\ f.text = p /\ f.bytes = Frame(fin, op, p, k)
  BY <1>4 DEF InTransit
<1> HIDE DEF f
<1>6. WholeFrame(f)
  BY <1>5 DEF WholeFrame
<1> QED BY <1>5, <1>6 DEF ServerFrame, f

LEMMA TooLongIs ==
  /\ TooLong \in Seq(Byte) /\ Len(TooLong) = 10 /\ TooLong[2] = Long
  /\ TooLong[8] # 0
<1> DEFINE n == Radix * Radix
<1>1. Radix \in Nat /\ Radix > 0 /\ n \in Nat /\ n >= 256 /\ Half \in 8 .. 20 /\ Radix = 2 * Half
      /\ Short = Half - 2 /\ Long = Half - 1
  BY Sizes, Square
<1>2. n \div n = 1 /\ n \div Radix = Radix /\ n % Radix = 0 /\ Radix % Radix = 0
  <2>1. n = n * 1 + 0 /\ n = Radix * Radix + 0 /\ Radix = Radix * 1 + 0
    BY <1>1
  <2> QED BY <1>1, <2>1
<1>3. TooLong = <<Half + Text>> \o <<Long, 0, 0, 0, 0, 0, 1, 0, 0>> \o << >>
  <2>1. ~(n < Short) /\ ~(n >= Short /\ n < Radix * Radix)
    BY <1>1
  <2>2. 1 * Half + Text = Half + Text /\ 0 + Long = Long
    BY <1>1 DEF Text
  <2> QED BY <1>2, <2>1, <2>2 DEF TooLong, Header
<1>4. Half + Text \in Byte /\ Long \in Byte /\ 0 \in Byte /\ 1 \in Byte
  BY <1>1 DEF Text, Byte
<1> DEFINE a == <<Half + Text>>
           e == <<Long, 0, 0, 0, 0, 0, 1, 0, 0>>
<1>5. a \in Seq(Byte) /\ Len(a) = 1 /\ e \in Seq(Byte) /\ Len(e) = 9 /\ e[1] = Long /\ e[7] = 1
  BY <1>4
<1> HIDE DEF a, e
<1>6. a \o e \in Seq(Byte) /\ Len(a \o e) = 10 /\ (a \o e)[2] = Long /\ (a \o e)[8] = 1
  <2>1. a \in Seq(Byte) /\ e \in Seq(Byte)
    BY <1>5
  <2>2. /\ a \o e \in Seq(Byte) /\ Len(a \o e) = Len(a) + Len(e)
        /\ \A i \in 1 .. Len(e) : (a \o e)[Len(a) + i] = e[i]
    BY <2>1, Joined
  <2> DEFINE c == a \o e
  <2> HIDE DEF c
  <2>3. Len(a) = 1 /\ Len(e) = 9 /\ 1 \in 1 .. Len(e) /\ 7 \in 1 .. Len(e)
    BY <1>5
  <2>4. c \in Seq(Byte) /\ Len(c) = 1 + 9 /\ c[1 + 1] = e[1] /\ c[1 + 7] = e[7]
    BY <2>2, <2>3 DEF c
  <2>5. c \in Seq(Byte) /\ Len(c) = 10 /\ c[2] = Long /\ c[8] = 1
    BY <1>5, <2>4
  <2> QED BY <2>5 DEF c
<1>7. TooLong = a \o e
  <2>1. (a \o e) \o << >> = a \o e
    BY <1>6, ConcatEmptySeq
  <2> QED BY <1>3, <2>1 DEF a, e
<1> QED BY <1>6, <1>7

LEMMA FrameWays ==
  ASSUME NEW t, NEW fs \in Framings(t)
  PROVE  \/ \E k \in Masks \cup {<< >>} : fs = <<[text |-> t, bytes |-> Frame(1, Text, t, k)]>>
         \/ fs = <<[text |-> << >>, bytes |-> Frame(1, Ping, << >>, << >>)],
                   [text |-> t, bytes |-> Frame(1, Text, t, << >>)]>>
         \/ \E j \in 1 .. Len(t) - 1 :
              fs = <<[text |-> SubSeq(t, 1, j),
                      bytes |-> Frame(0, Text, SubSeq(t, 1, j), << >>)],
                     [text |-> SubSeq(t, j + 1, Len(t)),
                      bytes |-> Frame(1, Cont, SubSeq(t, j + 1, Len(t)), << >>)]>>
BY Zenon DEF Framings

\* However a text is framed, the frames carry pieces of it.
LEMMA FramingsOf ==
  ASSUME NEW t \in Seq(40 .. 63), t # << >>, Len(t) < Radix * Radix, NEW fs \in Framings(t)
  PROVE  fs \in Seq(ServerFrame) /\ \A i \in 1 .. Len(fs) : fs[i].text \in Pieces(t)
<1>1. t \in Seq(Byte) /\ Len(t) \in Nat \ {0}
  BY TokenBytes
<1>2. t \in Pieces(t) /\ << >> \in Pieces(t) /\ Len(<< >>) < Radix * Radix
  <2>1. t = SubSeq(t, 1, Len(t)) /\ << >> = SubSeq(t, 1, 0)
    BY <1>1
  <2>2. 1 \in 1 .. Len(t) /\ Len(t) \in 0 .. Len(t) /\ 0 \in 0 .. Len(t)
    BY <1>1
  <2>3. SubSeq(t, 1, Len(t)) \in Pieces(t) /\ SubSeq(t, 1, 0) \in Pieces(t)
    BY <2>2 DEF Pieces
  <2>4. Len(<< >>) < Radix * Radix
    BY Square
  <2> QED BY <2>1, <2>3, <2>4
<1>3. /\ << >> \in Masks \cup {<< >>} /\ 1 \in {0, 1} /\ 0 \in {0, 1} /\ << >> \in Seq(Byte)
      /\ Text \in {Cont, Text, Close, Ping} /\ Ping \in {Cont, Text, Close, Ping}
      /\ Cont \in {Cont, Text, Close, Ping}
  OBVIOUS
<1>4. ASSUME NEW f, NEW g, f \in ServerFrame, g \in ServerFrame, f.text \in Pieces(t),
             g.text \in Pieces(t), fs = <<f>> \/ fs = <<f, g>>
      PROVE  fs \in Seq(ServerFrame) /\ \A i \in 1 .. Len(fs) : fs[i].text \in Pieces(t)
  <2>1. ASSUME fs = <<f>> PROVE \A i \in 1 .. Len(fs) : fs[i] = f
    BY <2>1
  <2>2. ASSUME fs = <<f, g>> PROVE \A i \in 1 .. Len(fs) : fs[i] = f \/ fs[i] = g
    <3>1. Len(fs) = 2 /\ fs[1] = f /\ fs[2] = g
      BY <2>2
    <3>2. \A i \in 1 .. Len(fs) : i = 1 \/ i = 2
      BY <3>1
    <3> QED BY <3>1, <3>2, Zenon
  <2>3. fs \in Seq(ServerFrame)
    <3>1. ASSUME NEW S, f \in S, g \in S PROVE <<f>> \in Seq(S) /\ <<f, g>> \in Seq(S)
      BY <3>1
    <3>2. <<f>> \in Seq(ServerFrame) /\ <<f, g>> \in Seq(ServerFrame)
      BY <1>4, <3>1
    <3> QED BY <1>4, <3>2
  <2> QED BY <1>4, <2>1, <2>2, <2>3, Zenon
<1>5. ASSUME NEW k \in Masks \cup {<< >>}, fs = <<[text |-> t, bytes |-> Frame(1, Text, t, k)]>>
      PROVE  fs \in Seq(ServerFrame) /\ \A i \in 1 .. Len(fs) : fs[i].text \in Pieces(t)
  <2> DEFINE f == [text |-> t, bytes |-> Frame(1, Text, t, k)]
  <2>1. f \in ServerFrame /\ f.text = t
    BY <1>1, <1>3, MakesFrame
  <2>2. fs = <<f>>
    BY <1>5
  <2> HIDE DEF f
  <2> QED BY <1>2, <1>4, <2>1, <2>2
<1>6. ASSUME fs = <<[text |-> << >>, bytes |-> Frame(1, Ping, << >>, << >>)],
                    [text |-> t, bytes |-> Frame(1, Text, t, << >>)]>>
      PROVE  fs \in Seq(ServerFrame) /\ \A i \in 1 .. Len(fs) : fs[i].text \in Pieces(t)
  <2> DEFINE f == [text |-> << >>, bytes |-> Frame(1, Ping, << >>, << >>)]
             g == [text |-> t, bytes |-> Frame(1, Text, t, << >>)]
  <2>1. f \in ServerFrame /\ f.text = << >>
    BY <1>2, <1>3, MakesFrame
  <2>2. g \in ServerFrame /\ g.text = t
    BY <1>1, <1>3, MakesFrame
  <2>3. fs = <<f, g>>
    BY <1>6
  <2> HIDE DEF f, g
  <2> QED BY <1>2, <1>4, <2>1, <2>2, <2>3
<1>7. ASSUME NEW j \in 1 .. Len(t) - 1,
             fs = <<[text |-> SubSeq(t, 1, j),
                     bytes |-> Frame(0, Text, SubSeq(t, 1, j), << >>)],
                    [text |-> SubSeq(t, j + 1, Len(t)),
                     bytes |-> Frame(1, Cont, SubSeq(t, j + 1, Len(t)), << >>)]>>
      PROVE  fs \in Seq(ServerFrame) /\ \A i \in 1 .. Len(fs) : fs[i].text \in Pieces(t)
  <2> DEFINE a == SubSeq(t, 1, j)
             b == SubSeq(t, j + 1, Len(t))
  <2>1. a \in Seq(Byte) /\ Len(a) = j /\ b \in Seq(Byte) /\ Len(b) = Len(t) - j
    BY <1>1
  <2>2. a \in Pieces(t) /\ b \in Pieces(t)
    <3>1. 1 \in 1 .. Len(t) /\ j \in 0 .. Len(t) /\ j + 1 \in 1 .. Len(t) /\ Len(t) \in 0 .. Len(t)
      BY <1>1
    <3>2. \A x \in 1 .. Len(t), y \in 0 .. Len(t) : SubSeq(t, x, y) \in Pieces(t)
      BY DEF Pieces
    <3> QED BY <3>1, <3>2
  <2>3. Len(a) < Radix * Radix /\ Len(b) < Radix * Radix
    BY <1>1, <2>1, Square
  <2> HIDE DEF a, b
  <2> DEFINE f == [text |-> a, bytes |-> Frame(0, Text, a, << >>)]
             g == [text |-> b, bytes |-> Frame(1, Cont, b, << >>)]
  <2>4. f \in ServerFrame /\ f.text = a
    BY <1>3, <2>1, <2>3, MakesFrame
  <2>5. g \in ServerFrame /\ g.text = b
    BY <1>3, <2>1, <2>3, MakesFrame
  <2>6. fs = <<f, g>>
    BY <1>7 DEF a, b
  <2> HIDE DEF f, g
  <2> QED BY <1>4, <2>2, <2>4, <2>5, <2>6
<1> QED BY <1>5, <1>6, <1>7, FrameWays

LEMMA ToldOther ==
  ASSUME NEW t \in Seq(40 .. 63), NEW acts, ~Contains(t, 46),
         ~Contains(t, 44) \/ ~Contains(t, 56) \/ "registered" \in acts
  PROVE  Told(t, acts)
BY DEF Told

LEMMA RegisteredText ==
  ASSUME NEW ok \in {True, 57}, NEW acts, ok = True => "registered" \in acts
  PROVE  /\ Registered(ok) \in Seq(40 .. 63) /\ Registered(ok) # << >>
         /\ Len(Registered(ok)) < Radix * Radix
         /\ \A p \in Pieces(Registered(ok)) : Told(p, acts)
<1> DEFINE t == Registered(ok)
           S == {40, 44, 41, 48, ok, 42}
<1>1. t = <<40, 44, 41, 48, ok, 42>> /\ True = 56
  BY Tokens DEF Registered, True
<1>2. S \subseteq 40 .. 63
  BY <1>1
<1>3. t \in Seq(S) /\ Len(t) = 6
  <2> HIDE DEF S
  <2>1. 40 \in S /\ 44 \in S /\ 41 \in S /\ 48 \in S /\ ok \in S /\ 42 \in S
    BY DEF S
  <2> QED BY <1>1, <2>1
<1> HIDE DEF t, S
<1>4. t \in Seq(40 .. 63)
  BY <1>2, <1>3, SubQueue
<1>5. t # << >> /\ Len(t) < Radix * Radix
  BY <1>3, Square
<1>6. ASSUME NEW p \in Pieces(t) PROVE Told(p, acts)
  <2>1. p \in Seq(S)
    BY <1>3, PieceIs
  <2>2. p \in Seq(40 .. 63)
    BY <1>4, PieceIs
  <2>3. \A i \in 1 .. Len(p) : p[i] \in S
    BY <2>1
  <2>4. 46 \notin S /\ (56 \in S => ok = True)
    BY <1>1 DEF S
  <2>5. ~Contains(p, 46)
    BY <2>3, <2>4, Zenon DEF Contains
  <2>6. Contains(p, 56) => ok = True
    BY <2>3, <2>4, Zenon DEF Contains
  <2> QED BY <2>2, <2>5, <2>6, ToldOther
<1> QED BY <1>4, <1>5, <1>6 DEF t

LEMMA Repeated ==
  ASSUME NEW m \in Nat
  PROVE  [i \in 1 .. m |-> 57] \in Seq({55, 57}) /\ Len([i \in 1 .. m |-> 57]) = m
<1> DEFINE S == {55, 57}
<1>1. 57 \in S
  OBVIOUS
<1> HIDE DEF S
<1>2. [i \in 1 .. m |-> 57] \in Seq(S) /\ Len([i \in 1 .. m |-> 57]) = m
  BY <1>1
<1> QED BY <1>2 DEF S

LEMMA ErrorTexts ==
  ASSUME NEW n \in {BufSize - 1, BufSize}, NEW acts
  PROVE  /\ ErrorText(n) \in Seq(40 .. 63) /\ Len(ErrorText(n)) < Radix * Radix
         /\ Told(ErrorText(n), acts) /\ Told(<<Tok.error>>, acts) /\ Told(<< >>, acts)
<1> DEFINE e == [i \in 1 .. n - 1 |-> 57]
           S == {55, 57}
           t == ErrorText(n)
<1>1. n \in Nat /\ n < Radix * Radix /\ Radix * Radix \in Nat /\ Radix * Radix >= 256
  BY BufSizeAssumption, Square
<1>2. e \in Seq(S) /\ Len(e) \in Nat /\ 1 + Len(e) < Radix * Radix
  <2>1. CASE n = 0
    <3>1. e = << >>
      BY <2>1
    <3>2. << >> \in Seq(S) /\ Len(<< >>) = 0
      OBVIOUS
    <3> HIDE DEF e, S
    <3> QED BY <1>1, <3>1, <3>2
  <2>2. CASE n > 0
    <3>1. n - 1 \in Nat
      BY <1>1, <2>2
    <3>2. e \in Seq(S) /\ Len(e) = n - 1
      BY <3>1, Repeated
    <3> HIDE DEF e, S
    <3> QED BY <1>1, <3>1, <3>2
  <2>3. n = 0 \/ n > 0
    BY <1>1
  <2> HIDE DEF e, S
  <2> QED BY <2>1, <2>2, <2>3
<1>3. t = <<55>> \o e
  BY Tokens DEF ErrorText
<1>5. t \in Seq(S) /\ Len(t) = 1 + Len(e)
  <2>1. <<55>> \in Seq(S) /\ Len(<<55>>) = 1
    OBVIOUS
  <2> DEFINE f == <<55>>
  <2> HIDE DEF e, S, f, t
  <2>2. f \in Seq(S) /\ Len(f) = 1 /\ t = f \o e /\ e \in Seq(S)
    BY <1>2, <1>3, <2>1 DEF f
  <2>3. f \o e \in Seq(S) /\ Len(f \o e) = Len(f) + Len(e)
    <3>1. f \in Seq(S)
      BY <2>2
    <3>2. e \in Seq(S)
      BY <2>2
    <3> QED BY <3>1, <3>2, Joined
  <2> QED BY <2>2, <2>3
<1>6. Len(t) < Radix * Radix
  BY <1>2, <1>5
<1>7. ASSUME NEW p \in Seq(S) PROVE p \in Seq(40 .. 63) /\ Told(p, acts)
  <2>1. S \subseteq 40 .. 63 /\ 46 \notin S /\ 44 \notin S
    OBVIOUS
  <2> HIDE DEF S
  <2>2. \A i \in 1 .. Len(p) : p[i] \in S
    OBVIOUS
  <2>3. ~Contains(p, 46) /\ ~Contains(p, 44)
    BY <2>1, <2>2, Zenon DEF Contains
  <2>4. p \in Seq(40 .. 63)
    BY <2>1, SubQueue
  <2> QED BY <2>3, <2>4, ToldOther
<1>8. <<Tok.error>> \in Seq(S) /\ << >> \in Seq(S)
  BY Tokens
<1> HIDE DEF S, t
<1> QED BY <1>5, <1>6, <1>7, <1>8 DEF t

\* The server gives frames of its own, and what they say is so.
Tells(fs) ==
  /\ fs \in Seq(ServerFrame) /\ \A i \in 1 .. Len(fs) : Told(fs[i].text, said')
  /\ gave' = gave \o Texts(fs) /\ down' = down \o Bytes(fs)

LEMMA GiveIs ==
  ASSUME NEW fs, Give(fs)
  PROVE  gave' = gave \o Texts(fs) /\ down' = down \o Bytes(fs)
BY DEF Give, Texts, Bytes

LEMMA AnswerTells ==
  ASSUME NEW text, Answer(text), said \subseteq {"registered", "paired"}
  PROVE  /\ said \subseteq said' /\ said' \subseteq {"registered", "paired"}
         /\ UNCHANGED <<said, gave, down>> \/ \E fs : Tells(fs)
<1>1. ASSUME NEW ok \in {True, 57}, NEW fs \in Framings(Registered(ok)), Give(fs),
             ok = True => "registered" \in said'
      PROVE  Tells(fs)
  <2> DEFINE t == Registered(ok)
  <2>1. /\ t \in Seq(40 .. 63) /\ t # << >> /\ Len(t) < Radix * Radix
        /\ \A p \in Pieces(t) : Told(p, said')
    BY <1>1, RegisteredText
  <2> HIDE DEF t
  <2>2. fs \in Seq(ServerFrame) /\ \A i \in 1 .. Len(fs) : fs[i].text \in Pieces(t)
    BY <1>1, <2>1, FramingsOf DEF t
  <2> QED BY <1>1, <2>1, <2>2, GiveIs DEF Tells
<1>2. ASSUME NEW fs \in Framings(QpInfoServer), Give(fs), "paired" \in said' PROVE Tells(fs)
  <2> DEFINE t == QpInfoServer
  <2>1. t \in Seq(40 .. 63) /\ t # << >> /\ Len(t) < Radix * Radix
    <3>1. QpTokens(t)
      BY QpText
    <3> HIDE DEF t
    <3>2. t \in Seq(40 .. 63) /\ Len(t) = 14 + GidLen
      BY <3>1 DEF QpTokens
    <3> QED BY <3>2, GidLenAssumption, Square
  <2> HIDE DEF t
  <2>2. fs \in Seq(ServerFrame) /\ \A i \in 1 .. Len(fs) : fs[i].text \in Pieces(t)
    BY <1>2, <2>1, FramingsOf DEF t
  <2>3. \A i \in 1 .. Len(fs) : Told(fs[i].text, said')
    BY <1>2, <2>2, ToldQpInfo DEF t
  <2> QED BY <1>2, <2>2, <2>3, GiveIs DEF Tells
<1>3. ASSUME NEW f \in ServerFrame, Told(f.text, said'), Give(<<f>>) PROVE Tells(<<f>>)
  <2>1. <<f>> \in Seq(ServerFrame) /\ Len(<<f>>) = 1 /\ <<f>>[1] = f
    BY <1>3
  <2>2. \A i \in 1 .. Len(<<f>>) : <<f>>[i] = f
    BY <2>1
  <2> QED BY <1>3, <2>1, <2>2, GiveIs, Zenon DEF Tells
<1>4. ASSUME NEW n \in {BufSize - 1, BufSize}
      PROVE  LET f == [text |-> ErrorText(n), bytes |-> Frame(1, Text, ErrorText(n), << >>)]
             IN  f \in ServerFrame /\ Told(f.text, said')
  <2> DEFINE t == ErrorText(n)
             f == [text |-> t, bytes |-> Frame(1, Text, t, << >>)]
  <2>1. t \in Seq(40 .. 63) /\ Len(t) < Radix * Radix /\ Told(t, said')
    BY ErrorTexts
  <2> HIDE DEF t
  <2>2. t \in Seq(Byte)
    BY <2>1, TokenBytes
  <2>3. f \in ServerFrame /\ f.text = t
    BY <2>1, <2>2, MakesFrame
  <2> HIDE DEF f
  <2>4. f \in ServerFrame /\ Told(f.text, said')
    BY <2>1, <2>3
  <2> QED BY <2>4 DEF f, t
<1>5. LET f == [text |-> << >>, bytes |-> Frame(1, Close, << >>, << >>)]
      IN  f \in ServerFrame /\ Told(f.text, said')
  <2> DEFINE f == [text |-> << >>, bytes |-> Frame(1, Close, << >>, << >>)]
  <2>1. << >> \in Seq(Byte) /\ Len(<< >>) < Radix * Radix /\ Told(<< >>, said')
    BY ErrorTexts, Square
  <2>2. f \in ServerFrame /\ f.text = << >>
    BY <2>1, MakesFrame
  <2> HIDE DEF f
  <2>3. f \in ServerFrame /\ Told(f.text, said')
    BY <2>1, <2>2
  <2> QED BY <2>3 DEF f
<1>6. LET f == [text |-> <<Tok.error>>, bytes |-> TooLong]
      IN  f \in ServerFrame /\ Told(f.text, said')
  <2> DEFINE f == [text |-> <<Tok.error>>, bytes |-> TooLong]
  <2>1. Told(<<Tok.error>>, said') /\ TooLong \in Seq(Byte)
    BY ErrorTexts, TooLongIs
  <2>2. <<Tok.error>> \in Seq(Byte)
    BY Tokens DEF Byte
  <2>3. f \in InTransit /\ f.text = <<Tok.error>> /\ f.bytes = TooLong
    BY <2>1, <2>2 DEF InTransit
  <2> HIDE DEF f
  <2>4. f \in ServerFrame /\ Told(f.text, said')
    BY <2>1, <2>3 DEF ServerFrame
  <2> QED BY <2>4 DEF f
<1>7. CASE said' = said \cup {"registered"} /\ \E fs \in Framings(Registered(True)) : Give(fs)
  BY <1>1, <1>7
<1>8. CASE said' = said /\ \E fs \in Framings(Registered(57)) : Give(fs)
  <2>1. 57 # True
    BY DEF True
  <2> QED BY <1>1, <1>8, <2>1
<1>9. CASE said' = said \cup {"paired"} /\ \E fs \in Framings(QpInfoServer) : Give(fs)
  BY <1>2, <1>9
<1>10. CASE UNCHANGED <<said, gave, down>>
  BY <1>10
<1>11. ASSUME said' = said,
              NEW f \in {[text |-> ErrorText(n), bytes |-> Frame(1, Text, ErrorText(n), << >>)] :
                           n \in {BufSize - 1, BufSize}}
                   \cup {[text |-> << >>, bytes |-> Frame(1, Close, << >>, << >>)],
                         [text |-> <<Tok.error>>,
                          bytes |-> Header(1, Text, Radix * Radix, << >>)]},
              Give(<<f>>)
       PROVE  said \subseteq said' /\ said' \subseteq {"registered", "paired"} /\ Tells(<<f>>)
  <2>1. f \in ServerFrame /\ Told(f.text, said')
    BY <1>4, <1>5, <1>6, <1>11, Zenon DEF TooLong
  <2> QED BY <1>3, <1>11, <2>1
<1> QED BY <1>7, <1>8, <1>9, <1>10, <1>11, Zenon DEF Answer

----------------------------------------------------------------------------
(* Types.                                                                  *)

\* The receiving side of the client.
Receives ==
  /\ pc \in {"dial", "upgrade", "register", "registered", "pair", "paired",
             "rtr", "token", "close", "done", "failed"}
  /\ down \in Seq(Byte) /\ got \in Seq(Byte)
  /\ taken \in Seq(Seq(Byte)) /\ \A i \in DOMAIN taken : Len(taken[i]) < BufSize

\* One more text is taken.
LEMMA TakenGrows ==
  ASSUME NEW b \in Seq(Byte), Len(b) < BufSize, Receives, taken' = Append(taken, b)
  PROVE  taken' \in Seq(Seq(Byte)) /\ \A i \in DOMAIN taken' : Len(taken'[i]) < BufSize
<1> DEFINE Q == Seq(Byte)
           t == taken'
<1>1. taken \in Seq(Q) /\ b \in Q /\ t = Append(taken, b)
  BY DEF Receives
<1>2. \A i \in 1 .. Len(taken) : Len(taken[i]) < BufSize
  BY <1>1 DEF Receives
<1> HIDE DEF Q, t
<1>3. /\ t \in Seq(Q) /\ DOMAIN t = 1 .. Len(taken) + 1 /\ Len(taken) \in Nat
      /\ \A i \in 1 .. Len(taken) : t[i] = taken[i]
      /\ t[Len(taken) + 1] = b
  BY <1>1
<1>4. ASSUME NEW i \in DOMAIN t PROVE Len(t[i]) < BufSize
  <2>1. i \in 1 .. Len(taken) \/ i = Len(taken) + 1
    BY <1>3
  <2> QED BY <1>2, <1>3, <2>1
<1> QED BY <1>3, <1>4 DEF t, Q

\* Nothing is taken.
LEMMA NothingTaken ==
  ASSUME Receives, taken' = taken, down' \in Seq(Byte), got' \in Seq(Byte),
         pc' \in {"dial", "upgrade", "register", "registered", "pair", "paired",
                  "rtr", "token", "close", "done", "failed"}
  PROVE  Receives'
BY DEF Receives

LEMMA RecvReceives ==
  ASSUME Receives, NEW at \in {"registered", "paired"}, NEW next \in {"pair", "rtr"},
         ws_recv_text(at, next)
  PROVE  Receives'
<1>1. down \in Seq(Byte) /\ got \in Seq(Byte)
  BY DEF Receives
<1>2. CASE Fail /\ down' = down
  BY <1>2 DEF Fail, ws_close, Receives
<1>3. ASSUME NEW k \in 1 .. (Wanted - Len(got)), k <= Len(down),
             got' = got \o SubSeq(down, 1, k), down' = SubSeq(down, k + 1, Len(down)),
             UNCHANGED <<pc, taken>>
      PROVE  Receives'
  <2>1. k \in Nat /\ k >= 1
    BY <1>3
  <2>2. SubSeq(down, 1, k) \in Seq(Byte) /\ SubSeq(down, k + 1, Len(down)) \in Seq(Byte)
    BY <1>1, <1>3, <2>1
  <2>3. got \o SubSeq(down, 1, k) \in Seq(Byte)
    BY <1>1, <2>2, Joined
  <2> QED BY <1>3, <2>2, <2>3 DEF Receives
<1>4. ASSUME HaveHeader, ~Refused(TextLen(got)), Len(got) = Wanted, NEW json,
             TakeFrame(at, next, RecvText, json), down' = down
      PROVE  Receives'
  <2> DEFINE b == RecvText
  <2>1. b \in Seq(Byte) /\ Len(b) = TextLen(got) /\ TextLen(got) \in Nat
    BY <1>1, <1>4, RecvTyped
  <2>2. taken' = Append(taken, b) /\ got' = << >> /\ pc' \in {next, "failed"}
    BY <1>4 DEF TakeFrame
  <2> HIDE DEF b
  <2>3. BufSize \in Nat
    BY BufSizeAssumption, Square
  <2>4. Len(b) < BufSize
    BY <1>4, <2>1, <2>3 DEF Refused
  <2>5. taken' \in Seq(Seq(Byte)) /\ \A i \in DOMAIN taken' : Len(taken'[i]) < BufSize
    BY <2>1, <2>2, <2>4, TakenGrows
  <2> QED BY <1>1, <1>4, <2>2, <2>5 DEF Receives
<1>5. CASE read_full(at)
  BY <1>2, <1>3, <1>5 DEF read_full
<1>6. CASE ~read_full(at)
  BY <1>2, <1>4, <1>6 DEF ws_recv_text
<1> QED BY <1>5, <1>6

LEMMA ClientReceives ==
  ASSUME Receives, Client
  PROVE  Receives'
<1>1. down \in Seq(Byte) /\ got \in Seq(Byte) /\ << >> \in Seq(Byte)
  BY DEF Receives
<1>2. CASE Dial
  BY <1>2 DEF Dial, Receives
<1>3. CASE ReadUpgrade
  <2>1. CASE down # << >> /\ got' \in {<< >>, Append(got, Head(down))} /\ down' = Tail(down)
             /\ pc' \in {"upgrade", "register", "failed"} /\ taken' = taken
    <3>1. Append(got, Head(down)) \in Seq(Byte) /\ Tail(down) \in Seq(Byte)
      BY <1>1, <2>1
    <3>2. got' \in Seq(Byte)
      BY <1>1, <2>1, <3>1, Zenon
    <3> QED BY <2>1, <3>1, <3>2, NothingTaken
  <2>2. CASE pc' = "failed" /\ got' = << >> /\ UNCHANGED <<down, taken>>
    BY <2>2 DEF Receives
  <2> QED BY <1>3, <2>1, <2>2 DEF ReadUpgrade
<1>4. ASSUME NEW at, NEW msg, NEW next \in {"registered", "paired", "close"},
             ws_send_text(at, msg, next)
      PROVE  Receives'
  <2>1. /\ UNCHANGED <<down, taken>> /\ (got' = got \/ got' = << >>)
        /\ (pc' = pc \/ pc' = next \/ pc' = "failed")
    BY <1>4 DEF ws_send_text, WriteHeader, WriteBody, ShortWrite, Fail, ws_close
  <2>2. got' \in Seq(Byte)
    BY <1>1, <2>1, Zenon
  <2>3. pc' \in {"dial", "upgrade", "register", "registered", "pair", "paired",
                 "rtr", "token", "close", "done", "failed"}
    BY <2>1 DEF Receives
  <2> QED BY <1>1, <2>1, <2>2, <2>3, NothingTaken
<1>5. CASE send_register_request \/ send_qpinfo_client \/ send_token
  BY <1>4, <1>5 DEF send_register_request, send_qpinfo_client, send_token
<1>6. CASE recv_register_response \/ recv_qpinfo_server
  BY <1>6, RecvReceives DEF recv_register_response, recv_qpinfo_server
<1>7. CASE Verbs \/ CloseWs
  <2>1. UNCHANGED <<down, taken>> /\ got' = << >> /\ pc' \in {"failed", "done"}
    BY <1>7 DEF Verbs, CloseWs, Fail, ws_close
  <2> QED BY <1>1, <2>1, NothingTaken
<1>8. CASE v_qp_to_rtr
  BY <1>8 DEF v_qp_to_rtr, Receives
<1> QED BY <1>2, <1>3, <1>5, <1>6, <1>7, <1>8 DEF Client

LEMMA TypeInit == Init => WsTypeOK
<1> SUFFICES ASSUME Init PROVE WsTypeOK
  OBVIOUS
<1>1. << >> \in Seq(Byte) /\ << >> \in Seq(Seq(Byte)) /\ DOMAIN << >> = {}
  OBVIOUS
<1> QED BY <1>1 DEF Init, WsTypeOK

\* What a step of the client writes.
LEMMA ClientWrites ==
  ASSUME WsTypeOK, Heard, Client
  PROVE  up' \in Seq(Byte) /\ body' \in Seq(Byte) /\ sent' \in Seq(Seq(Byte))
<1>1. /\ up \in Seq(Byte) /\ body \in Seq(Byte) /\ sent \in Seq(Seq(Byte))
      /\ << >> \in Seq(Byte) /\ (pc \notin Sending => body = << >>)
  BY DEF WsTypeOK, Heard
<1>2. CASE Dial
  <2>1. <<0>> \in Seq(Byte)
    BY DEF Byte
  <2> QED BY <1>1, <1>2, <2>1 DEF Dial
<1>3. CASE Closes
  <2>1. PICK z : Closed(z) /\ up' = up \o z
    BY <1>3 DEF Closes
  <2>2. z \in Seq(Byte)
    BY <2>1, ClosedBytes
  <2>3. up \o z \in Seq(Byte)
    BY <1>1, <2>2, Joined
  <2> QED BY <1>1, <1>3, <2>1, <2>3 DEF Closes
<1>4. CASE Begins
  <2>1. PICK m \in Messages, k \in Masks :
          /\ up' = up \o Header(1, Text, Len(m), k) /\ body' = MaskText(m, k)
          /\ sent' = Append(sent, m)
    BY <1>4 DEF Begins
  <2>2. Header(1, Text, Len(m), k) \in Seq(Byte) /\ MaskText(m, k) \in Seq(Byte)
    BY MessageHeader, MaskedNotEmpty
  <2>3. up \o Header(1, Text, Len(m), k) \in Seq(Byte)
    BY <1>1, <2>2, Joined
  <2> DEFINE Q == Seq(Byte)
  <2>4. m \in Q /\ sent \in Seq(Q)
    BY <1>1 DEF Messages
  <2> HIDE DEF Q
  <2>5. Append(sent, m) \in Seq(Q)
    BY <2>4
  <2> QED BY <2>1, <2>2, <2>3, <2>5 DEF Q
<1>5. CASE Finishes
  <2>1. up \o body \in Seq(Byte)
    BY <1>1, Joined
  <2> QED BY <1>1, <1>5, <2>1 DEF Finishes
<1>6. CASE Quiet
  BY <1>1, <1>6 DEF Quiet
<1>7. CASE Cuts
  <2>1. PICK c \in Masks, j \in 0 .. Len(body) - 1 :
          up' = up \o (SubSeq(body, 1, j) \o CloseFrame(c))
    BY <1>7 DEF Cuts
  <2> DEFINE a == SubSeq(body, 1, j)
             e == CloseFrame(c)
  <2>2. a \in Seq(Byte)
    BY <1>1
  <2>3. e \in Seq(Byte)
    BY CloseFrameIs
  <2> HIDE DEF a, e
  <2>4. a \o e \in Seq(Byte)
    BY <2>2, <2>3, Joined
  <2>5. up \o (a \o e) \in Seq(Byte)
    BY <1>1, <2>4, Joined
  <2> QED BY <1>1, <1>7, <2>1, <2>5 DEF Cuts, a, e
<1> QED BY <1>1, <1>2, <1>3, <1>4, <1>5, <1>6, <1>7, ClientKinds

\* What the server says is typed.
LEMMA TellsTypes ==
  ASSUME gave \in Seq(Seq(Byte)), down \in Seq(Byte), NEW fs, Tells(fs)
  PROVE  gave' \in Seq(Seq(Byte)) /\ down' \in Seq(Byte)
<1>1. fs \in Seq(InTransit)
  <2>1. ServerFrame \subseteq InTransit /\ fs \in Seq(ServerFrame)
    BY DEF Tells, ServerFrame
  <2> QED BY <2>1, SubQueue
<1>2. Texts(fs) \in Seq(Seq(Byte)) /\ Bytes(fs) \in Seq(Byte)
  BY <1>1, QueueTypes
<1> DEFINE t == Texts(fs)
           b == Bytes(fs)
<1>3. gave' = gave \o t /\ down' = down \o b /\ t \in Seq(Seq(Byte)) /\ b \in Seq(Byte)
  BY <1>2 DEF Tells
<1> HIDE DEF t, b
<1>4. gave \o t \in Seq(Seq(Byte)) /\ down \o b \in Seq(Byte)
  BY <1>3, Joined
<1> QED BY <1>3, <1>4

\* A response consists of bytes.
LEMMA ReplyBytes == \A r \in Replies : r \in Seq(Byte)
<1> SUFFICES ASSUME NEW r \in Replies PROVE r \in Seq(Byte)
  OBVIOUS
<1>1. {Status101, StatusBad, HttpField, EmptyLine} \subseteq Byte
  BY DEF Status101, StatusBad, HttpField, EmptyLine, Byte
<1>2. r \in Seq({Status101, StatusBad, HttpField, EmptyLine})
  BY RepliesAssumption
<1> QED BY <1>1, <1>2, SubQueue

LEMMA TypeStep ==
  ASSUME WsTypeOK, Heard, [Next]_vars
  PROVE  WsTypeOK'
<1>1. Receives
  BY DEF WsTypeOK, Receives
<1>2. CASE Client
  <2>1. Receives' /\ up' \in Seq(Byte) /\ body' \in Seq(Byte) /\ sent' \in Seq(Seq(Byte))
    BY <1>1, <1>2, ClientReceives, ClientWrites
  <2>2. /\ heard' = heard /\ gave' = gave /\ reply' = reply /\ said' = said
        /\ srv' = srv \/ srv' = "accepted"
    <3>1. Dial \/ UNCHANGED serverVars
      BY <1>2, ClientKinds DEF WsTypeOK, Heard
    <3> QED BY <3>1 DEF Dial, serverVars
  <2> QED BY <2>1, <2>2 DEF WsTypeOK, Receives
<1>3. CASE SrvUpgrade
  <2>1. PICK r \in Replies : reply' = r /\ down' = r /\ srv' \in {"open", "gone"}
    BY <1>3 DEF SrvUpgrade
  <2>2. r \in Seq(Byte)
    BY ReplyBytes
  <2>3. up # << >> /\ up' = Tail(up) /\ UNCHANGED <<clientVars, heard, said, gave>>
    BY <1>3 DEF SrvUpgrade
  <2>4. Tail(up) \in Seq(Byte)
    BY <2>3 DEF WsTypeOK
  <2> QED BY <2>1, <2>2, <2>3, <2>4 DEF WsTypeOK, clientVars
<1>4. CASE SrvServe
  <2>0. ~Spent
    BY <1>4 DEF SrvServe, Spent, WsTypeOK
  <2>1. PICK q, t, u : OnTheWay(q, t, u)
    BY <1>4, <2>0 DEF SrvServe, Heard
  <2>2. heard' \in Seq(Seq(Byte)) /\ up' \in Seq(Byte)
    BY <1>4, <2>1, ServesHeard
  <2>3. UNCHANGED <<clientVars, reply>> /\ srv' \in {"open", "gone"}
    BY <1>4 DEF SrvServe
  <2>4. gave' \in Seq(Seq(Byte)) /\ down' \in Seq(Byte) /\ said' \subseteq {"registered", "paired"}
    <3>1. gave \in Seq(Seq(Byte)) /\ down \in Seq(Byte) /\ said \subseteq {"registered", "paired"}
      BY DEF WsTypeOK
    <3>2. CASE UNCHANGED <<said, gave, down>>
      BY <3>1, <3>2
    <3>3. ASSUME NEW text, Answer(text)
          PROVE  gave' \in Seq(Seq(Byte)) /\ down' \in Seq(Byte)
                 /\ said' \subseteq {"registered", "paired"}
      <4>1. /\ said' \subseteq {"registered", "paired"}
            /\ UNCHANGED <<said, gave, down>> \/ \E fs : Tells(fs)
        BY <3>1, <3>3, AnswerTells
      <4> QED BY <3>1, <4>1, TellsTypes
    <3> QED BY <1>4, <3>2, <3>3 DEF SrvServe
  <2> QED BY <2>2, <2>3, <2>4 DEF WsTypeOK, clientVars
<1>5. CASE SrvHangup
  <2>1. PICK k \in 0 .. Len(down) : down' = SubSeq(down, 1, k)
    BY <1>5 DEF SrvHangup
  <2>2. down \in Seq(Byte)
    BY DEF WsTypeOK
  <2>3. SubSeq(down, 1, k) \in Seq(Byte)
    BY <2>2
  <2> QED BY <1>5, <2>1, <2>3 DEF SrvHangup, WsTypeOK, clientVars
<1>6. CASE UNCHANGED vars
  BY <1>6 DEF vars, clientVars, serverVars, WsTypeOK
<1> QED BY <1>2, <1>3, <1>4, <1>5, <1>6 DEF Next, Terminated

\* Every byte and text of the control connection keeps its type, and a text
\* that ws_recv_text has put into its buffer fits with its zero.
THEOREM ControlTypes == Spec => []WsTypeOK
<1>1. Init => WsTypeOK /\ Heard
  BY TypeInit, HeardInit
<1>2. WsTypeOK /\ Heard /\ [Next]_vars => (WsTypeOK /\ Heard)'
  BY TypeStep, HeardStep
<1> QED BY <1>1, <1>2, PTL DEF Spec

\* For every Radix, every set of keys and of ids: ws_send_text's headers and
\* masks are such that the server hears the texts it was given, in order.  A
\* write that stops short anywhere can only garble the end of the last one,
\* where the close frame completes it, and the client has failed then.
THEOREM HearsInOrder == Spec => []HearsWhatIsSent
<1>1. Init => WsTypeOK /\ Heard
  BY TypeInit, HeardInit
<1>2. WsTypeOK /\ Heard /\ [Next]_vars => (WsTypeOK /\ Heard)'
  BY TypeStep, HeardStep
<1>3. WsTypeOK /\ Heard => HearsWhatIsSent
  BY DEF Heard
<1> QED BY <1>1, <1>2, <1>3, PTL DEF Spec

----------------------------------------------------------------------------
(* A frame that is read in pieces.                                         *)

\* x is how y begins.
Opens(x, y) == Len(x) <= Len(y) /\ \A i \in 1 .. Len(x) : x[i] = y[i]

\* What the client takes from the header of a frame it has read the first
\* bytes of, at any cut.
LEMMA ReadHeader ==
  ASSUME got \in Seq(Byte), NEW n \in Nat, n < Radix * Radix, NEW k \in Seq(Byte),
         k = << >> \/ IsKey(k), NEW b, NEW h, HeaderIs(h, b, n, k), NEW F \in Seq(Byte),
         Len(F) = Len(h) + n, \A i \in 1 .. Len(h) : F[i] = h[i], Opens(got, F)
  PROVE  /\ Wanted \in Nat /\ Wanted <= Len(F)
         /\ HaveHeader => /\ Wanted = Len(F) /\ TextLen(got) = n /\ MaskLen(got) = Len(k)
                          /\ Len(got) >= Len(h)
<1> DEFINE l == IF n < Short THEN 2 ELSE 4
           c == IF n < Short THEN n ELSE Short
           m == IF k = << >> THEN 0 ELSE Half
           g == Len(got)
<1>1. /\ Half \in 8 .. 20 /\ Short = Half - 2 /\ Long = Half - 1 /\ Radix \in Nat /\ g \in Nat
      /\ l \in {2, 4} /\ c \in 0 .. Half - 2
  BY Sizes
<1>2. /\ h \in Seq(Byte) /\ Len(h) = l + Len(k) /\ h[2] = m + c
      /\ (n >= Short => h[3] = n \div Radix /\ h[4] = n % Radix)
  BY DEF HeaderIs
<1>3. (k = << >> /\ Len(k) = 0 /\ m = 0) \/ (Len(k) = 4 /\ m = Half)
  <2>1. CASE k = << >>
    BY <2>1
  <2>2. CASE IsKey(k)
    <3>1. k # << >> /\ Len(k) = 4
      BY <2>2, KeyFacts DEF IsKey
    <3> QED BY <3>1
  <2> QED BY <2>1, <2>2
<1> HIDE DEF m
<1>4. Wanted \in Nat
  BY Asked
<1>5. CASE g < 2
  <2>1. Wanted = 2 /\ ~HaveHeader
    BY <1>1, <1>5 DEF Wanted, HaveHeader
  <2>2. 2 <= Len(F)
    BY <1>1, <1>2, <1>3
  <2> QED BY <2>1, <2>2
<1>6. CASE g >= 2
  <2>1. got[2] = m + c
    <3>1. 2 \in 1 .. Len(h) /\ 2 \in 1 .. g
      BY <1>1, <1>2, <1>3, <1>6
    <3>2. got[2] = F[2] /\ F[2] = h[2]
      BY <3>1 DEF Opens
    <3> QED BY <1>2, <3>2
  <2>2. got[2] % Half = c
    <3>1. c \in 0 .. Half - 1
      BY <1>1
    <3>2. (Half + c) % Half = c /\ c % Half = c
      BY <3>1, LowBits
    <3>3. m + c = c \/ m + c = Half + c
      BY <1>1, <1>3
    <3> QED BY <2>1, <3>2, <3>3
  <2>3. 2 + ExtLen(got) = l
    <3>1. c # Long /\ (c = Short <=> ~(n < Short))
      BY <1>1
    <3> HIDE DEF c
    <3>2. ExtLen(got) = (IF c = Short THEN 2 ELSE 0)
      BY <2>2, <3>1 DEF ExtLen
    <3> QED BY <3>1, <3>2
  <2>4. MaskLen(got) = Len(k)
    BY <1>1, <1>3, <2>1 DEF MaskLen
  <2>5. ASSUME g >= l PROVE TextLen(got) = n
    <3>1. CASE n < Short
      <4>1. ExtLen(got) = 0
        BY <2>3, <3>1, <1>6, Asked
      <4> QED BY <2>2, <3>1, <4>1 DEF TextLen
    <3>2. CASE ~(n < Short)
      <4>1. ExtLen(got) = 2
        BY <2>3, <3>2, <1>6, Asked
      <4>2. g >= 4 /\ l = 4
        BY <2>5, <3>2
      <4>3. got[3] = n \div Radix /\ got[4] = n % Radix
        <5>1. 3 \in 1 .. Len(h) /\ 4 \in 1 .. Len(h) /\ 3 \in 1 .. g /\ 4 \in 1 .. g
          <6> HIDE DEF l, g, c
          <6>1. Len(h) >= 4 /\ Len(h) \in Nat /\ g \in Nat
            BY <1>1, <1>2, <1>3, <4>2
          <6> QED BY <4>2, <6>1
        <5>2. got[3] = F[3] /\ got[4] = F[4] /\ F[3] = h[3] /\ F[4] = h[4]
          BY <5>1 DEF Opens
        <5>3. n >= Short
          BY <1>1, <3>2
        <5> QED BY <1>2, <5>2, <5>3
      <4> DEFINE w == SubSeq(got, 3, 4)
      <4>4. w \in Seq(Byte) /\ Len(w) = 2 /\ w[1] = got[3] /\ w[2] = got[4]
        BY <4>2
      <4> HIDE DEF w
      <4>5. Number(w) = w[1] * Radix + w[2]
        <5>1. 1 .. Len(w) - 2 = {}
          BY <4>4
        <5>2. Len(w) - 1 = 1 /\ Len(w) = 2
          BY <4>4
        <5> QED BY <5>1, <5>2 DEF Number
      <4>6. Number(w) = n
        BY <4>3, <4>4, <4>5, TwoBytes
      <4>7. TextLen(got) = Number(w)
        BY <4>1 DEF TextLen, w
      <4> QED BY <4>6, <4>7
    <3> QED BY <3>1, <3>2
  <2> DEFINE e == ExtLen(got)
             j == MaskLen(got)
             x == TextLen(got)
  <2>6. Wanted = (IF g < 2 + e THEN 2 + e ELSE IF g < 2 + e + j THEN 2 + e + j ELSE 2 + e + j + x)
    BY <1>1, <1>6 DEF Wanted
  <2>7. HaveHeader <=> g >= 2 + e + j
    BY <1>6 DEF HaveHeader
  <2> HIDE DEF e, j, x, l, g
  <2>8. 2 + e = l /\ j = Len(k) /\ (g >= l => x = n)
    BY <2>3, <2>4, <2>5 DEF e, j, x
  <2>9. Len(k) \in Nat /\ Len(F) = l + Len(k) + n
    BY <1>1, <1>2, <1>3
  <2>10. Wanted <= Len(F) /\ (HaveHeader => Wanted = Len(F) /\ x = n /\ g >= Len(h))
    BY <1>1, <1>2, <2>6, <2>7, <2>8, <2>9
  <2> QED BY <1>4, <2>8, <2>10 DEF x, j, g
<1> QED BY <1>1, <1>5, <1>6

\* A frame that has been read whole gives its text.
LEMMA ReadWhole ==
  ASSUME got \in Seq(Byte), NEW f \in InTransit, WholeFrame(f), Opens(got, f.bytes)
  PROVE  /\ Wanted \in Nat /\ Wanted <= Len(f.bytes)
         /\ HaveHeader => Wanted = Len(f.bytes)
         /\ HaveHeader /\ Len(got) = Wanted => RecvText = f.text
<1>1. PICK fin \in {0, 1}, op \in {Cont, Text, Close, Ping}, k \in Masks \cup {<< >>} :
        f.bytes = Frame(fin, op, f.text, k)
  BY DEF WholeFrame
<1> DEFINE p == f.text
           F == f.bytes
           n == Len(p)
           b == fin * Half + op
           h == Header(fin, op, n, k)
           q == Masked(p, k)
<1>2. p \in Seq(Byte) /\ n \in Nat /\ n < Radix * Radix /\ F \in Seq(Byte)
  BY DEF WholeFrame, InTransit
<1>3. k \in Seq(Byte) /\ (k = << >> \/ IsKey(k))
  <2>1. CASE k = << >>
    BY <2>1
  <2>2. CASE k \in Masks
    <3>1. IsKey(k)
      BY <2>2, MaskType
    <3> QED BY <3>1 DEF IsKey
  <2> QED BY <2>1, <2>2
<1>4. b \in Byte
  BY FirstByte
<1> HIDE DEF b, p
<1>5. /\ HeaderIs(h, b, n, k) /\ q \in Seq(Byte) /\ Len(q) = n
      /\ FrameIs(Frame(fin, op, p, k), h, q)
  BY <1>2, <1>3, <1>4, FrameShape DEF b
<1>6. FrameIs(F, h, q)
  BY <1>1, <1>5 DEF p
<1> HIDE DEF F, h, q, n
<1>7. /\ Len(F) = Len(h) + n /\ \A i \in 1 .. Len(h) : F[i] = h[i]
      /\ \A i \in 1 .. n : F[Len(h) + i] = q[i]
  BY <1>5, <1>6 DEF FrameIs
<1>8. Opens(got, F)
  BY DEF F
<1>9. /\ Wanted \in Nat /\ Wanted <= Len(F)
      /\ HaveHeader => /\ Wanted = Len(F) /\ TextLen(got) = n /\ MaskLen(got) = Len(k)
                       /\ Len(got) >= Len(h)
  <2>1. HeaderIs(h, b, n, k)
    BY <1>5
  <2>2. n \in Nat /\ n < Radix * Radix /\ F \in Seq(Byte) /\ Len(F) = Len(h) + n
    BY <1>2, <1>7 DEF F
  <2> QED BY <1>3, <1>7, <1>8, <2>1, <2>2, ReadHeader
<1>10. ASSUME HaveHeader, Len(got) = Wanted PROVE RecvText = p
  <2>1. Len(got) = Len(h) + n /\ TextLen(got) = n /\ MaskLen(got) = Len(k) /\ Len(F) = Len(got)
    BY <1>7, <1>9, <1>10
  <2>2. \A i \in 1 .. Len(got) : got[i] = F[i]
    BY <1>8 DEF Opens
  <2>3. h \in Seq(Byte) /\ Len(h) \in Nat
    BY <1>5 DEF HeaderIs
  <2> DEFINE s == Wanted - TextLen(got)
             w == SubSeq(got, s + 1, Wanted)
             y == SubSeq(got, s - 3, s)
  <2>4. s = Len(h) /\ Wanted = Len(h) + n
    BY <1>2, <1>10, <2>1, <2>3
  <2>5. w = q
    <3>1. ASSUME NEW i \in 1 .. n PROVE got[Len(h) + i] = q[i]
      <4>1. Len(h) + i \in 1 .. Len(got)
        BY <1>2, <2>1, <2>3
      <4> QED BY <1>7, <2>2, <4>1
    <3>2. Len(h) + Len(q) <= Len(got) /\ Len(q) = n /\ q \in Seq(Byte)
      BY <1>2, <1>5, <2>1, <2>3
    <3>3. SubSeq(got, Len(h) + 1, Len(h) + Len(q)) = q
      BY <2>3, <3>1, <3>2, SliceIs
    <3> QED BY <2>4, <3>2, <3>3
  <2>6. RecvText = IF MaskLen(got) = 0 THEN w ELSE MaskText(w, y)
    BY DEF RecvText
  <2>7. CASE k = << >>
    <3>1. MaskLen(got) = 0
      BY <2>1, <2>7
    <3>2. q = p
      BY <2>7 DEF q, Masked
    <3> QED BY <2>5, <2>6, <3>1, <3>2
  <2>8. CASE IsKey(k)
    <3>1. k \in Seq(Byte)
      BY <1>3
    <3>2. Len(k) = 4 /\ k # << >>
      BY <2>8, KeyFacts DEF IsKey
    <3> DEFINE l == IF n < Short THEN 2 ELSE 4
    <3>3. Len(h) = l + Len(k) /\ \A i \in 1 .. Len(k) : h[l + i] = k[i]
      BY <1>5 DEF HeaderIs
    <3>4. l \in Nat
      OBVIOUS
    <3> HIDE DEF l
    <3>5. ASSUME NEW i \in 1 .. Len(k) PROVE got[l + i] = k[i]
      <4>1. l + i \in 1 .. Len(h) /\ l + i \in 1 .. Len(got)
        BY <1>2, <2>1, <3>3, <3>4
      <4> QED BY <1>7, <2>2, <3>3, <4>1
    <3>6. l + Len(k) <= Len(got)
      BY <1>2, <2>1, <2>3, <3>3
    <3>7. SubSeq(got, l + 1, l + Len(k)) = k
      BY <3>1, <3>4, <3>5, <3>6, SliceIs
    <3>8. s = l + Len(k) /\ s - 3 = l + 1
      BY <2>4, <3>2, <3>3, <3>4
    <3>9. y = k
      BY <3>7, <3>8
    <3>10. Masked(p, k) = MaskText(p, k) /\ MaskText(MaskText(p, k), k) = p
      BY <1>2, <2>8, MaskBack
    <3>11. MaskText(q, k) = p
      BY <3>10 DEF q
    <3>12. MaskLen(got) # 0
      BY <2>1, <3>2
    <3> QED BY <2>5, <2>6, <3>9, <3>11, <3>12
  <2> QED BY <1>3, <2>7, <2>8
<1> QED BY <1>9, <1>10 DEF F, p

\* A frame whose length takes eight bytes is refused.
LEMMA ReadTooLong ==
  ASSUME got \in Seq(Byte), Opens(got, TooLong)
  PROVE  /\ HaveHeader => Refused(TextLen(got))
         /\ Wanted \in Nat /\ (~HaveHeader => Wanted <= Len(TooLong))
<1> DEFINE T == TooLong
           g == Len(got)
<1>1. T \in Seq(Byte) /\ Len(T) = 10 /\ T[2] = Long /\ T[8] # 0
  BY TooLongIs
<1> HIDE DEF T
<1>2. g \in Nat /\ g <= 10 /\ \A i \in 1 .. g : got[i] = T[i]
  BY <1>1 DEF Opens, T
<1>3. Half \in 8 .. 20 /\ Short = Half - 2 /\ Long = Half - 1
  BY Sizes
<1>4. Wanted \in Nat
  BY Asked
<1>5. ASSUME g >= 2 PROVE ExtLen(got) = 8 /\ MaskLen(got) = 0
  <2>1. got[2] = Long
    BY <1>1, <1>2, <1>5
  <2>2. Long % Half = Long
    <3>1. Long \in 0 .. Half - 1
      BY <1>3
    <3> QED BY <3>1, LowBits
  <2> QED BY <1>3, <2>1, <2>2 DEF ExtLen, MaskLen
<1>6. ASSUME HaveHeader PROVE Refused(TextLen(got))
  <2>1. g >= 2 /\ g >= 2 + ExtLen(got) + MaskLen(got)
    BY <1>6 DEF HaveHeader
  <2>2. g = 10 /\ ExtLen(got) = 8
    <3>1. ExtLen(got) = 8 /\ MaskLen(got) = 0
      BY <1>5, <2>1
    <3> HIDE DEF g
    <3> QED BY <1>2, <2>1, <3>1
  <2> DEFINE w == SubSeq(got, 3, 10)
  <2>3. w \in Seq(Byte) /\ Len(w) = 8 /\ w[6] = got[8]
    <3>1. 3 \in 1 .. Len(got) /\ 10 \in 3 .. Len(got)
      BY <2>2
    <3>2. /\ w \in Seq(Byte) /\ Len(w) = 10 - 3 + 1
          /\ \A i \in 1 .. 10 - 3 + 1 : w[i] = got[3 + i - 1]
      BY <3>1, SubAt
    <3> HIDE DEF w
    <3>3. 6 \in 1 .. 10 - 3 + 1 /\ 3 + 6 - 1 = 8 /\ 10 - 3 + 1 = 8
      OBVIOUS
    <3> QED BY <3>2, <3>3, Zenon
  <2>4. w[6] # 0
    <3>1. 8 \in 1 .. g
      BY <2>2
    <3> QED BY <1>1, <1>2, <2>3, <3>1, Zenon
  <2> HIDE DEF w
  <2>5. 6 \in 1 .. Len(w) - 2
    BY <2>3
  <2>6. Number(w) = Radix * Radix
    BY <2>4, <2>5 DEF Number
  <2>7. TextLen(got) = Radix * Radix
    BY <2>2, <2>6 DEF TextLen, w
  <2> QED BY <2>7, BufSizeAssumption, Square DEF Refused
<1>7. ASSUME ~HaveHeader PROVE Wanted <= 10
  <2>1. CASE g < 2
    BY <2>1 DEF Wanted
  <2>2. CASE g >= 2
    <3>1. g < 10
      BY <1>2, <1>5, <1>7, <2>2 DEF HaveHeader
    <3> QED BY <1>2, <1>5, <2>2, <3>1 DEF Wanted
  <2> QED BY <1>2, <2>1, <2>2
<1> QED BY <1>1, <1>4, <1>6, <1>7 DEF T

\* However a frame of the server is cut into reads: no byte after it is asked
\* for, and when it is whole its text is what the caller gets.
LEMMA FrameRead ==
  ASSUME got \in Seq(Byte), NEW f \in ServerFrame, Opens(got, f.bytes)
  PROVE  /\ Wanted \in Nat
         /\ ~(HaveHeader /\ Refused(TextLen(got))) => Wanted <= Len(f.bytes)
         /\ HaveHeader /\ ~Refused(TextLen(got)) /\ Len(got) = Wanted =>
              Len(got) = Len(f.bytes) /\ RecvText = f.text
<1>1. f \in InTransit /\ (WholeFrame(f) \/ f.bytes = TooLong)
  BY DEF ServerFrame
<1>2. CASE WholeFrame(f)
  BY <1>1, <1>2, ReadWhole
<1>3. CASE f.bytes = TooLong
  BY <1>3, ReadTooLong
<1> QED BY <1>1, <1>2, <1>3

----------------------------------------------------------------------------
(* What the client takes.                                                  *)

Talking == {"register", "registered", "pair", "paired", "rtr", "token", "close"}

\* The frames of the server that the client has not taken: it is at the first,
\* and their bytes are those it has read of it and those on their way.
Coming(r) ==
  /\ r \in Seq(ServerFrame) /\ gave = taken \o Texts(r)
  /\ Opens(got \o down, Bytes(r)) /\ (srv = "open" => Len(got \o down) = Len(Bytes(r)))
  /\ r # << >> => Len(got) <= Len(Head(r).bytes)

\* Before the first frame comes the response to the upgrade, whose end is its
\* only empty line.
Upgrading ==
  /\ gave = << >> /\ taken = << >> /\ path = << >> /\ (reply = << >> \/ reply \in Replies)
  /\ Opens(got \o down, reply) /\ \A i \in 1 .. Len(got) : got[i] # EmptyLine

Taking ==
  /\ pc \in {"dial", "upgrade"} => Upgrading
  /\ \A i \in 1 .. Len(gave) : Told(gave[i], said)
  /\ ~Unsynchronised => IsPrefix(taken, gave) /\ (pc \in Talking => \E r : Coming(r))

\* The first of two parts, and an opening of it.
LEMMA OpensFirst ==
  ASSUME NEW S, NEW x \in Seq(S), NEW y \in Seq(S), NEW a \in Seq(S), NEW b \in Seq(S),
         Opens(x \o y, a \o b), Len(x) <= Len(a)
  PROVE  Opens(x, a)
<1> DEFINE u == x \o y
           v == a \o b
<1>1. /\ Len(u) = Len(x) + Len(y) /\ \A i \in 1 .. Len(x) : u[i] = x[i]
      /\ Len(v) = Len(a) + Len(b) /\ \A i \in 1 .. Len(a) : v[i] = a[i]
  BY Joined
<1>2. Len(u) <= Len(v) /\ \A i \in 1 .. Len(u) : u[i] = v[i]
  BY DEF Opens
<1>3. Len(x) \in Nat /\ Len(y) \in Nat /\ Len(a) \in Nat
  OBVIOUS
<1> HIDE DEF u, v
<1>4. ASSUME NEW i \in 1 .. Len(x) PROVE x[i] = a[i]
  <2>1. i \in 1 .. Len(u) /\ i \in 1 .. Len(a)
    BY <1>1, <1>3
  <2> QED BY <1>1, <1>2, <2>1
<1> QED BY <1>4 DEF Opens

\* The second of two parts, when the first ones have the same length.
LEMMA OpensSecond ==
  ASSUME NEW S, NEW x \in Seq(S), NEW y \in Seq(S), NEW a \in Seq(S), NEW b \in Seq(S),
         Opens(x \o y, a \o b), Len(x) = Len(a)
  PROVE  Opens(y, b) /\ (Len(x \o y) = Len(a \o b) => Len(y) = Len(b))
<1> DEFINE u == x \o y
           v == a \o b
<1>1. /\ Len(u) = Len(x) + Len(y) /\ \A i \in 1 .. Len(y) : u[Len(x) + i] = y[i]
      /\ Len(v) = Len(a) + Len(b) /\ \A i \in 1 .. Len(b) : v[Len(a) + i] = b[i]
  <2>1. IsJoin(u, x, y) /\ IsJoin(v, a, b)
    BY JoinedIs
  <2> HIDE DEF u, v
  <2> QED BY <2>1, Zenon DEF IsJoin
<1>2. Len(u) <= Len(v) /\ \A i \in 1 .. Len(u) : u[i] = v[i]
  BY DEF Opens
<1>3. Len(x) \in Nat /\ Len(y) \in Nat /\ Len(a) \in Nat /\ Len(b) \in Nat
  OBVIOUS
<1>4. Len(x) = Len(a)
  OBVIOUS
<1> HIDE DEF u, v
<1>5. Len(y) <= Len(b) /\ (Len(u) = Len(v) => Len(y) = Len(b))
  BY <1>1, <1>2, <1>3, <1>4
<1>6. ASSUME NEW i \in 1 .. Len(y) PROVE y[i] = b[i]
  <2>1. Len(x) + i \in 1 .. Len(u) /\ i \in 1 .. Len(b)
    BY <1>1, <1>3, <1>5
  <2> QED BY <1>1, <1>2, <1>4, <2>1
<1> QED BY <1>5, <1>6 DEF Opens, u, v

\* The frame the client is at.
LEMMA AtFrame ==
  ASSUME got \in Seq(Byte), down \in Seq(Byte), NEW r, Coming(r), r # << >>
  PROVE  /\ Head(r) \in ServerFrame /\ Tail(r) \in Seq(ServerFrame)
         /\ Head(r).bytes \in Seq(Byte) /\ Head(r).text \in Seq(Byte)
         /\ Bytes(Tail(r)) \in Seq(Byte) /\ Texts(Tail(r)) \in Seq(Seq(Byte))
         /\ Texts(r) = <<Head(r).text>> \o Texts(Tail(r))
         /\ Bytes(r) = Head(r).bytes \o Bytes(Tail(r)) /\ Opens(got, Head(r).bytes)
<1>1. ServerFrame \subseteq InTransit /\ r \in Seq(ServerFrame)
  BY DEF ServerFrame, Coming
<1>2. /\ Head(r) \in ServerFrame /\ Tail(r) \in Seq(ServerFrame)
      /\ Texts(r) = <<Head(r).text>> \o Texts(Tail(r))
      /\ Bytes(r) = Head(r).bytes \o Bytes(Tail(r))
  BY <1>1, QueueHead
<1>3. Tail(r) \in Seq(InTransit)
  BY <1>1, <1>2, SubQueue
<1>4. Bytes(Tail(r)) \in Seq(Byte) /\ Texts(Tail(r)) \in Seq(Seq(Byte))
  BY <1>3, QueueTypes
<1>5. Head(r).bytes \in Seq(Byte) /\ Head(r).text \in Seq(Byte)
  BY <1>1, <1>2 DEF InTransit
<1> DEFINE a == Head(r).bytes
           b == Bytes(Tail(r))
<1>6. Opens(got \o down, a \o b) /\ Len(got) <= Len(a) /\ a \in Seq(Byte) /\ b \in Seq(Byte)
  BY <1>2, <1>4, <1>5 DEF Coming
<1> HIDE DEF a, b
<1>7. Opens(got, a)
  BY <1>6, OpensFirst
<1> QED BY <1>2, <1>4, <1>5, <1>7 DEF a

\* Bytes that are there are bytes of a frame.
LEMMA SomeFrame ==
  ASSUME got \in Seq(Byte), down \in Seq(Byte), NEW r, Coming(r),
         got # << >> \/ down # << >>
  PROVE  r # << >>
<1> SUFFICES ASSUME r = << >> PROVE FALSE
  OBVIOUS
<1> DEFINE x == got \o down
<1>1. Len(x) = Len(got) + Len(down) /\ Len(got) \in Nat /\ Len(down) \in Nat
  BY Joined
<1>2. Len(x) <= Len(<< >>)
  BY QueueNone DEF Coming, Opens
<1> HIDE DEF x
<1>3. Len(got) = 0 /\ Len(down) = 0
  BY <1>1, <1>2
<1> QED BY <1>3

\* A sequence, cut in two.
LEMMA CutInTwo ==
  ASSUME NEW S, NEW d \in Seq(S), NEW k \in 1 .. Len(d)
  PROVE  /\ SubSeq(d, 1, k) \in Seq(S) /\ SubSeq(d, k + 1, Len(d)) \in Seq(S)
         /\ Len(SubSeq(d, 1, k)) = k
         /\ SubSeq(d, 1, k) \o SubSeq(d, k + 1, Len(d)) = d
<1> DEFINE a == SubSeq(d, 1, k)
           b == SubSeq(d, k + 1, Len(d))
<1>1. /\ a \in Seq(S) /\ Len(a) = k /\ \A i \in 1 .. k : a[i] = d[i]
      /\ b \in Seq(S) /\ Len(b) = Len(d) - k /\ \A i \in 1 .. Len(d) - k : b[i] = d[k + i]
  OBVIOUS
<1> HIDE DEF a, b
<1>2. IsJoin(d, a, b)
  BY <1>1 DEF IsJoin
<1>3. d = a \o b
  BY <1>1, <1>2, JoinIs
<1> QED BY <1>1, <1>3 DEF a, b

LEMMA CutMoved ==
  ASSUME NEW S, NEW g \in Seq(S), NEW d \in Seq(S), NEW k \in 1 .. Len(d)
  PROVE  /\ (g \o SubSeq(d, 1, k)) \o SubSeq(d, k + 1, Len(d)) = g \o d
         /\ Len(g \o SubSeq(d, 1, k)) = Len(g) + k
<1> DEFINE a == SubSeq(d, 1, k)
           b == SubSeq(d, k + 1, Len(d))
<1>1. a \in Seq(S)
  BY CutInTwo
<1>2. b \in Seq(S)
  BY CutInTwo
<1>3. Len(a) = k /\ a \o b = d
  BY CutInTwo
<1> HIDE DEF a, b
<1>4. (g \o a) \o b = g \o (a \o b)
  BY <1>1, <1>2
<1>5. Len(g \o a) = Len(g) + Len(a)
  BY <1>1, Joined
<1> QED BY <1>3, <1>4, <1>5 DEF a, b

\* A read: the client stays in its frame.
LEMMA ReadsOn ==
  ASSUME got \in Seq(Byte), down \in Seq(Byte), NEW r, Coming(r),
         ~(HaveHeader /\ Refused(TextLen(got))),
         NEW k \in 1 .. (Wanted - Len(got)), k <= Len(down),
         got' = got \o SubSeq(down, 1, k), down' = SubSeq(down, k + 1, Len(down)),
         UNCHANGED <<taken, gave, srv>>
  PROVE  Coming(r)'
<1>1. k \in 1 .. Len(down) /\ k \in Nat /\ Len(got) \in Nat
  OBVIOUS
<1>5. got' \o down' = got \o down
  BY <1>1, CutMoved
<1>6. r # << >>
  <2>1. down # << >>
    BY <1>1
  <2> QED BY <2>1, SomeFrame
<1> DEFINE f == Head(r)
<1>7. f \in ServerFrame /\ Opens(got, f.bytes) /\ f.bytes \in Seq(Byte)
  BY <1>6, AtFrame
<1>8. Wanted \in Nat /\ Wanted <= Len(f.bytes)
  BY <1>7, FrameRead
<1>9. Len(got') = Len(got) + k
  BY <1>1, CutMoved
<1> HIDE DEF f
<1>10. Len(got') <= Len(f.bytes)
  BY <1>1, <1>7, <1>8, <1>9
<1> QED BY <1>5, <1>10 DEF Coming, f

\* A frame is taken.
LEMMA TakesText ==
  ASSUME WsTypeOK, NEW r, Coming(r), HaveHeader, ~Refused(TextLen(got)), Len(got) = Wanted,
         taken' = Append(taken, RecvText), got' = << >>, UNCHANGED <<down, gave, srv>>
  PROVE  /\ r # << >> /\ RecvText = Head(r).text /\ Coming(Tail(r))' /\ IsPrefix(taken', gave)
         /\ Len(taken) + 1 \in 1 .. Len(gave) /\ gave[Len(taken) + 1] = RecvText
<1> DEFINE Q == Seq(Byte)
           m == Head(r).text
           F == Head(r).bytes
           s == Texts(Tail(r))
           B == Bytes(Tail(r))
<1>1. got \in Seq(Byte) /\ down \in Seq(Byte) /\ taken \in Seq(Q) /\ gave \in Seq(Q)
  BY DEF WsTypeOK
<1>2. r # << >>
  <2>1. Len(got) >= 2
    BY DEF HaveHeader
  <2>2. got # << >>
    BY <2>1
  <2> QED BY <1>1, <2>2, SomeFrame
<1>3. /\ Head(r) \in ServerFrame /\ Tail(r) \in Seq(ServerFrame) /\ F \in Seq(Byte) /\ m \in Q
      /\ B \in Seq(Byte) /\ s \in Seq(Q) /\ Texts(r) = <<m>> \o s /\ Bytes(r) = F \o B
      /\ Opens(got, F)
  BY <1>1, <1>2, AtFrame
<1>4. Len(got) = Len(F) /\ RecvText = m
  BY <1>1, <1>3, FrameRead
<1>5. gave = taken \o (<<m>> \o s) /\ Opens(got \o down, F \o B)
      /\ (srv = "open" => Len(got \o down) = Len(F \o B))
  BY <1>3 DEF Coming
<1> HIDE DEF F, B, m, s, Q
<1>6. Opens(down, B) /\ (Len(got \o down) = Len(F \o B) => Len(down) = Len(B))
  BY <1>1, <1>3, <1>4, <1>5, OpensSecond
<1> DEFINE t == taken'
<1>7. t = Append(taken, m) /\ t \in Seq(Q)
  BY <1>1, <1>3, <1>4
<1> HIDE DEF t
<1>8. gave = t \o s
  <2>1. <<m>> \in Seq(Q) /\ Append(taken, m) = taken \o <<m>>
    BY <1>1, <1>3
  <2>2. (taken \o <<m>>) \o s = taken \o (<<m>> \o s)
    <3> DEFINE o == <<m>>
    <3>1. o \in Seq(Q)
      BY <2>1
    <3>2. taken \in Seq(Q)
      BY <1>1
    <3>3. s \in Seq(Q)
      BY <1>3
    <3> HIDE DEF o
    <3>4. (taken \o o) \o s = taken \o (o \o s)
      BY <3>1, <3>2, <3>3, Associative, SMTT(20)
    <3> QED BY <3>4 DEF o
  <2> QED BY <1>5, <1>7, <2>1, <2>2
<1>9. IsPrefix(t, gave)
  <2>1. IsPrefix(t, t \o s)
    BY <1>3, <1>7 DEF IsPrefix
  <2> QED BY <1>8, <2>1
<1>10. Len(taken) + 1 \in 1 .. Len(gave) /\ gave[Len(taken) + 1] = m
  <2>1. Len(t) = Len(taken) + 1 /\ t[Len(taken) + 1] = m /\ Len(taken) \in Nat
    BY <1>1, <1>3, <1>7
  <2>2. IsJoin(gave, t, s) /\ Len(s) \in Nat
    <3>1. t \in Seq(Q)
      BY <1>7
    <3>2. s \in Seq(Q)
      BY <1>3
    <3>3. IsJoin(t \o s, t, s)
      BY <3>1, <3>2, JoinedIs
    <3> QED BY <1>8, <3>2, <3>3
  <2>3. Len(taken) + 1 \in 1 .. Len(t)
    BY <2>1
  <2>4. Len(gave) = Len(t) + Len(s) /\ gave[Len(taken) + 1] = t[Len(taken) + 1]
    BY <2>2, <2>3 DEF IsJoin
  <2> QED BY <2>1, <2>2, <2>4
<1>11. << >> \o down = down
  BY <1>1, ConcatEmptySeq
<1>12. Coming(Tail(r))'
  <2>1. ASSUME Tail(r) # << >> PROVE Len(<< >>) <= Len(Head(Tail(r)).bytes)
    <3> DEFINE g == Head(Tail(r))
    <3>1. g \in ServerFrame
      BY <1>3, <2>1
    <3>2. g.bytes \in Seq(Byte)
      BY <3>1 DEF ServerFrame, InTransit
    <3> HIDE DEF g
    <3>3. Len(g.bytes) \in Nat
      BY <3>2
    <3> QED BY <3>3 DEF g
  <2>2. gave' = taken' \o Texts(Tail(r))
    BY <1>8 DEF t, s
  <2>3. Opens(got' \o down', Bytes(Tail(r)))
    BY <1>6, <1>11 DEF B
  <2>4. srv' = "open" => Len(got' \o down') = Len(Bytes(Tail(r)))
    BY <1>5, <1>6, <1>11 DEF B
  <2> QED BY <1>3, <2>1, <2>2, <2>3, <2>4 DEF Coming
<1> QED BY <1>2, <1>4, <1>9, <1>10, <1>12 DEF m, t

\* The server gives more frames, and the bytes of no other.
LEMMA MoreFrames ==
  ASSUME WsTypeOK, NEW r, Coming(r), NEW fs, Tells(fs), srv = "open",
         UNCHANGED <<got, taken>>
  PROVE  Coming(r \o fs)'
<1> DEFINE Q == Seq(Byte)
           p == r \o fs
           a == Bytes(r)
           b == Bytes(fs)
           s == Texts(r)
           t == Texts(fs)
           x == got \o down
<1>1. ServerFrame \subseteq InTransit /\ r \in Seq(ServerFrame) /\ fs \in Seq(ServerFrame)
  BY DEF ServerFrame, Coming, Tells
<1>2. r \in Seq(InTransit) /\ fs \in Seq(InTransit)
  BY <1>1, SubQueue
<1>3. a \in Seq(Byte) /\ b \in Seq(Byte) /\ s \in Seq(Q) /\ t \in Seq(Q)
  BY <1>2, QueueTypes
<1>4. Texts(p) = s \o t /\ Bytes(p) = a \o b
  BY <1>2, QueueJoin
<1>5. got \in Seq(Byte) /\ down \in Seq(Byte) /\ taken \in Seq(Q)
  BY DEF WsTypeOK
<1>6. gave = taken \o s /\ gave' = gave \o t /\ down' = down \o b
      /\ Opens(x, a) /\ Len(x) = Len(a)
  BY DEF Coming, Tells
<1>7. p \in Seq(ServerFrame)
  BY <1>1
<1> HIDE DEF p, a, b, s, t, Q
<1>8. gave' = taken \o (s \o t)
  <2>1. s \in Seq(Q)
    BY <1>3
  <2>2. t \in Seq(Q)
    BY <1>3
  <2>3. taken \in Seq(Q)
    BY <1>5
  <2>4. (taken \o s) \o t = taken \o (s \o t)
    BY <2>1, <2>2, <2>3, Associative, SMTT(20)
  <2> QED BY <1>6, <2>4
<1>9. x = a
  <2>1. x \in Seq(Byte)
    BY <1>5, Joined
  <2> HIDE DEF x
  <2>2. Len(x) = Len(a) /\ \A i \in 1 .. Len(x) : x[i] = a[i]
    BY <1>6 DEF Opens
  <2>3. a \in Seq(Byte)
    BY <1>3
  <2> QED BY <2>1, <2>2, <2>3, SeqEqual
<1>10. got \o (down \o b) = a \o b
  <2>1. b \in Seq(Byte)
    BY <1>3
  <2>2. down \in Seq(Byte)
    BY <1>5
  <2>3. got \in Seq(Byte)
    BY <1>5
  <2>4. (got \o down) \o b = got \o (down \o b)
    BY <2>1, <2>2, <2>3, Associative, SMTT(20)
  <2> QED BY <1>9, <2>4
<1> DEFINE c == a \o b
<1>11. Opens(c, c)
  <2>1. c \in Seq(Byte)
    BY <1>3, Joined
  <2> HIDE DEF c
  <2>2. Len(c) \in Nat
    BY <2>1
  <2> QED BY <2>2 DEF Opens
<1>12. got' \o down' = c /\ Bytes(p) = c
  BY <1>4, <1>6, <1>10
<1>13. ASSUME p # << >> PROVE Len(got) <= Len(Head(p).bytes)
  <2>1. CASE r = << >>
    <3>1. Len(got) + Len(down) = Len(a) /\ Len(got) \in Nat /\ Len(down) \in Nat
      BY <1>5, <1>9, Joined
    <3>2. Len(a) = 0
      BY <2>1, QueueNone DEF a
    <3>3. Len(got) = 0
      BY <3>1, <3>2
    <3>4. Head(p) \in ServerFrame
      BY <1>7, <1>13
    <3>5. Head(p).bytes \in Seq(Byte)
      BY <3>4 DEF ServerFrame, InTransit
    <3>6. Len(Head(p).bytes) \in Nat
      BY <3>5
    <3> QED BY <3>3, <3>6
  <2>2. CASE r # << >>
    <3>1. Head(p) = Head(r)
      BY <1>1, <2>2 DEF p
    <3>2. Len(got) <= Len(Head(r).bytes)
      BY <2>2 DEF Coming
    <3> QED BY <3>1, <3>2
  <2> QED BY <2>1, <2>2
<1> HIDE DEF c
<1>14. gave' = taken' \o Texts(p)
  BY <1>4, <1>8
<1>15. Coming(p)'
  BY <1>7, <1>11, <1>12, <1>13, <1>14 DEF Coming
<1> QED BY <1>15 DEF p

\* Bytes are lost when the server hangs up.
LEMMA FewerBytes ==
  ASSUME got \in Seq(Byte), down \in Seq(Byte), NEW x \in Seq(Byte), Opens(got \o down, x),
         NEW k \in 0 .. Len(down)
  PROVE  Opens(got \o SubSeq(down, 1, k), x)
<1> DEFINE d == SubSeq(down, 1, k)
           u == got \o d
           v == got \o down
<1>1. d \in Seq(Byte) /\ Len(d) = k /\ \A i \in 1 .. k : d[i] = down[i]
  OBVIOUS
<1> HIDE DEF d
<1>2. IsJoin(u, got, d) /\ IsJoin(v, got, down)
  BY <1>1, JoinedIs
<1> HIDE DEF u, v
<1>3. Len(got) \in Nat /\ Len(down) \in Nat /\ Len(u) = Len(got) + k /\ Len(v) = Len(got) + Len(down)
  BY <1>1, <1>2 DEF IsJoin
<1>4. Len(v) <= Len(x) /\ Len(x) \in Nat /\ \A i \in 1 .. Len(v) : v[i] = x[i]
  BY DEF Opens, v
<1>5. ASSUME NEW i \in 1 .. Len(u) PROVE u[i] = v[i]
  <2>1. CASE i <= Len(got)
    <3>1. i \in 1 .. Len(got)
      BY <1>3, <2>1
    <3> QED BY <1>2, <3>1 DEF IsJoin
  <2>2. CASE i > Len(got)
    <3> DEFINE j == i - Len(got)
    <3>1. j \in 1 .. k /\ i = Len(got) + j /\ j \in 1 .. Len(down)
      BY <1>3, <2>2
    <3> HIDE DEF j
    <3>2. u[Len(got) + j] = d[j] /\ v[Len(got) + j] = down[j]
      BY <1>1, <1>2, <3>1 DEF IsJoin
    <3> QED BY <1>1, <3>1, <3>2
  <2> QED BY <1>3, <2>1, <2>2
<1>6. Len(u) <= Len(x) /\ \A i \in 1 .. Len(u) : u[i] = x[i]
  BY <1>3, <1>4, <1>5
<1> QED BY <1>6 DEF Opens, u, d

\* What a step of the client may do to the receiving side once the connection
\* is upgraded: nothing, end, read some bytes, or take a text.
Idles == pc' \in Talking /\ UNCHANGED <<got, down, taken>>
Stops == pc' \in Ended /\ UNCHANGED <<down, taken>>
Reads ==
  /\ pc' \in Talking /\ ~(HaveHeader /\ Refused(TextLen(got))) /\ taken' = taken
  /\ \E k \in 1 .. (Wanted - Len(got)) :
       /\ k <= Len(down) /\ got' = got \o SubSeq(down, 1, k)
       /\ down' = SubSeq(down, k + 1, Len(down))
Takes ==
  /\ pc' \in Talking \cup Ended /\ HaveHeader /\ ~Refused(TextLen(got)) /\ Len(got) = Wanted
  /\ taken' = Append(taken, RecvText) /\ got' = << >> /\ down' = down

LEMMA RecvReads ==
  ASSUME NEW at \in {"registered", "paired"}, NEW next \in {"pair", "rtr"},
         ws_recv_text(at, next)
  PROVE  Stops \/ Reads \/ Takes
<1>1. CASE read_full(at)
  BY <1>1 DEF read_full, Reads, Stops, Talking, Ended, Fail, ws_close
<1>2. CASE HaveHeader /\ Refused(TextLen(got)) /\ Fail /\ UNCHANGED down
  BY <1>2 DEF Stops, Ended, Fail, ws_close
<1>3. CASE /\ HaveHeader /\ ~Refused(TextLen(got)) /\ Len(got) = Wanted /\ UNCHANGED down
           /\ \E json : TakeFrame(at, next, RecvText, json)
  BY <1>3 DEF TakeFrame, Takes, Talking, Ended
<1> QED BY <1>1, <1>2, <1>3 DEF ws_recv_text

LEMMA ClientReads ==
  ASSUME Client
  PROVE  Dial \/ ReadUpgrade \/ (pc \in Talking /\ (Idles \/ Stops \/ Reads \/ Takes))
<1>1. ASSUME NEW at \in Sending, NEW msg, NEW next \in {"registered", "paired", "close"},
             ws_send_text(at, msg, next)
      PROVE  pc \in Talking /\ (Idles \/ Stops)
  BY <1>1 DEF ws_send_text, WriteHeader, WriteBody, ShortWrite, Fail, ws_close, Sending, Talking, Idles,
     Stops, Ended
<1>2. CASE send_register_request \/ send_qpinfo_client \/ send_token
  BY <1>1, <1>2 DEF send_register_request, send_qpinfo_client, send_token, Sending
<1>3. CASE recv_register_response \/ recv_qpinfo_server
  <2>1. pc \in Talking
    BY <1>3 DEF recv_register_response, recv_qpinfo_server, ws_recv_text, read_full, Talking
  <2> QED BY <1>3, <2>1, RecvReads DEF recv_register_response, recv_qpinfo_server
<1>4. CASE Verbs \/ CloseWs
  BY <1>4 DEF Verbs, CloseWs, Fail, ws_close, Talking, Stops, Ended
<1>5. CASE v_qp_to_rtr
  BY <1>5 DEF v_qp_to_rtr, Talking, Idles
<1> QED BY <1>2, <1>3, <1>4, <1>5 DEF Client

LEMMA NoneLong == Len(<< >>) = 0
OBVIOUS

\* The response is read: at its empty line, or where resp is full, all of it
\* has been.
LEMMA ReadsReply ==
  ASSUME WsTypeOK, Upgrading, down # << >>, NEW g, NEW d,
         g = Append(got, Head(down)), d = Tail(down)
  PROVE  /\ g \o d = got \o down /\ Len(g) = Len(got) + 1
         /\ g \in Seq(Byte) /\ d \in Seq(Byte) /\ reply \in Seq(Byte)
         /\ reply \in Replies /\ Len(g) + Len(d) <= Len(reply)
         /\ Head(down) # EmptyLine => \A i \in 1 .. Len(g) : g[i] # EmptyLine
         /\ Head(down) = EmptyLine => Len(g) = Len(reply)
<1>1. got \in Seq(Byte) /\ down \in Seq(Byte) /\ reply \in Seq(Byte)
  BY DEF WsTypeOK
<1> DEFINE h == Head(down)
           z == got \o down
<1>2. h \in Byte /\ d \in Seq(Byte) /\ Len(down) = Len(d) + 1
  BY <1>1
<1>3. down[1] = h /\ \A i \in 1 .. Len(d) : d[i] = down[i + 1]
  BY <1>1
<1>4. g \in Seq(Byte) /\ Len(g) = Len(got) + 1 /\ g[Len(got) + 1] = h
      /\ \A i \in 1 .. Len(got) : g[i] = got[i]
  BY <1>1, <1>2
<1>5. g \o d = z
  BY <1>1
<1>6. Len(got) \in Nat /\ Len(d) \in Nat /\ Len(reply) \in Nat
  BY <1>1, <1>2
<1>7. z[Len(got) + 1] = h /\ Len(z) = Len(got) + Len(down)
  <2>1. IsJoin(z, got, down)
    BY <1>1, JoinedIs
  <2>2. 1 \in 1 .. Len(down) /\ Len(down) \in Nat
    BY <1>2, <1>6
  <2> HIDE DEF z
  <2> QED BY <2>1, <2>2, <1>3 DEF IsJoin
<1>8. Len(z) <= Len(reply) /\ \A i \in 1 .. Len(z) : z[i] = reply[i]
  BY DEF Upgrading, Opens
<1> HIDE DEF h, z
<1>9. Len(got) + 1 \in 1 .. Len(reply) /\ reply[Len(got) + 1] = h
  BY <1>2, <1>6, <1>7, <1>8
<1>10. reply # << >> /\ reply \in Replies
  <2>1. Len(reply) # 0
    BY <1>9
  <2>2. reply # << >>
    BY <2>1, NoneLong, Zenon
  <2> QED BY <2>2 DEF Upgrading
<1>11. h = EmptyLine => Len(got) + 1 = Len(reply)
  <2>1. DOMAIN reply = 1 .. Len(reply)
    BY <1>1
  <2> QED BY <1>9, <1>10, <2>1, RepliesAssumption
<1>12. ASSUME h # EmptyLine, NEW i \in 1 .. Len(g) PROVE g[i] # EmptyLine
  <2>1. CASE i = Len(got) + 1
    BY <1>4, <1>12, <2>1
  <2>2. CASE i # Len(got) + 1
    <3>1. i \in 1 .. Len(got)
      BY <1>4, <1>6, <2>2
    <3> QED BY <1>4, <3>1 DEF Upgrading
  <2> QED BY <2>1, <2>2
<1>14. Len(g) + Len(d) <= Len(reply)
  BY <1>2, <1>4, <1>6, <1>7, <1>8
<1> QED BY <1>1, <1>2, <1>4, <1>5, <1>10, <1>11, <1>12, <1>14 DEF h, z

LEMMA TakingInit == Init => Taking
<1> SUFFICES ASSUME Init PROVE Taking
  OBVIOUS
<1>1. IsPrefix(<< >>, << >>)
  BY DEF IsPrefix
<1>2. Opens(<< >> \o << >>, << >>)
  BY DEF Opens
<1> QED BY <1>1, <1>2 DEF Init, Taking, Upgrading, Talking

\* Nothing has been given yet.
LEMMA NoneComing == gave = << >> /\ taken = << >> /\ got = << >> /\ down = << >> => Coming(<< >>)
<1> SUFFICES ASSUME gave = << >>, taken = << >>, got = << >>, down = << >>
             PROVE  Coming(<< >>)
  OBVIOUS
<1>1. << >> = << >> \o << >> /\ << >> \in Seq(ServerFrame) /\ Len(<< >>) = 0
  OBVIOUS
<1>2. Opens(<< >> \o << >>, << >>) /\ Len(<< >> \o << >>) = Len(<< >>)
  BY DEF Opens
<1> QED BY <1>1, <1>2, QueueNone DEF Coming

LEMMA UpgradeTakes ==
  ASSUME WsTypeOK, Taking, ReadUpgrade
  PROVE  Taking'
<1>0. /\ Upgrading /\ (\A i \in 1 .. Len(gave) : Told(gave[i], said))
      /\ ~Unsynchronised => IsPrefix(taken, gave)
  BY DEF Taking, ReadUpgrade
<1>1. UNCHANGED <<taken, path, srv, reply, said, gave>>
  BY DEF ReadUpgrade, serverVars
<1>2. Unsynchronised' <=> Unsynchronised
  BY <1>1 DEF Unsynchronised
<1>3. CASE pc' = "failed"
  BY <1>0, <1>1, <1>2, <1>3 DEF Taking, Talking
<1>4. CASE pc' # "failed"
  <2> DEFINE g == Append(got, Head(down))
             d == Tail(down)
             last == Head(down) = EmptyLine \/ Len(g) = RespMax
  <2>1. /\ down # << >> /\ down' = d /\ got' = IF last THEN << >> ELSE g
        /\ pc' = IF last THEN "register" ELSE "upgrade"
    BY <1>4 DEF ReadUpgrade
  <2>2. /\ g \o d = got \o down /\ Len(g) = Len(got) + 1
        /\ g \in Seq(Byte) /\ d \in Seq(Byte) /\ reply \in Seq(Byte)
        /\ reply \in Replies /\ Len(g) + Len(d) <= Len(reply)
        /\ Head(down) # EmptyLine => \A i \in 1 .. Len(g) : g[i] # EmptyLine
        /\ Head(down) = EmptyLine => Len(g) = Len(reply)
    BY <1>0, <2>1, ReadsReply
  <2> HIDE DEF g, d
  <2>3. CASE ~last
    <3>1. got' = g /\ pc' = "upgrade" /\ Head(down) # EmptyLine
      BY <2>1, <2>3
    <3>2. Upgrading'
      BY <1>0, <1>1, <2>1, <2>2, <3>1 DEF Upgrading
    <3> QED BY <1>0, <1>1, <1>2, <3>1, <3>2 DEF Taking, Talking
  <2>4. CASE last
    <3>1. got' = << >> /\ pc' = "register"
      BY <2>1, <2>4
    <3>2. ASSUME ~Unsynchronised PROVE Coming(<< >>)'
      <4>1. Len(g) >= Len(reply)
        BY <2>2, <2>4, <3>2, BufSizeAssumption DEF Unsynchronised
      <4>2. d = << >>
        BY <2>2, <4>1
      <4>3. gave' = << >> /\ taken' = << >> /\ got' = << >> /\ down' = << >>
        BY <1>0, <1>1, <2>1, <3>1, <4>2 DEF Upgrading
      <4>4. (gave = << >> /\ taken = << >> /\ got = << >> /\ down = << >> => Coming(<< >>))'
        BY NoneComing, PTL
      <4> QED BY <4>3, <4>4
    <3>3. ~Unsynchronised' => \E r : Coming(r)'
      BY <1>2, <3>2
    <3> QED BY <1>0, <1>1, <1>2, <3>1, <3>3 DEF Taking
  <2> QED BY <2>3, <2>4
<1> QED BY <1>3, <1>4

LEMMA ClientTakes ==
  ASSUME WsTypeOK, Heard, Taking, Client
  PROVE  Taking'
<1>0. /\ (\A i \in 1 .. Len(gave) : Told(gave[i], said))
      /\ (~Unsynchronised => IsPrefix(taken, gave))
      /\ (~Unsynchronised /\ pc \in Talking => \E r : Coming(r))
  BY DEF Taking
<1>1. CASE Dial
  <2>1. pc = "dial" /\ UNCHANGED <<down, got, taken, path, reply, said, gave>>
        /\ pc' \in {"failed", "upgrade"}
    BY <1>1 DEF Dial
  <2>2. Upgrading'
    BY <2>1 DEF Taking, Upgrading
  <2>3. Unsynchronised' <=> Unsynchronised
    BY <2>1 DEF Unsynchronised
  <2> QED BY <1>0, <2>1, <2>2, <2>3 DEF Taking, Talking
<1>2. CASE ReadUpgrade
  BY <1>2, UpgradeTakes
<1>3. ASSUME pc \in Talking, Idles \/ Stops \/ Reads \/ Takes PROVE Taking'
  <2>1. UNCHANGED <<srv, reply, said, gave>>
    BY <1>3, ClientKinds DEF WsTypeOK, Heard, Dial, serverVars, Talking
  <2>2. Unsynchronised' <=> Unsynchronised
    BY <2>1 DEF Unsynchronised
  <2>3. pc' \notin {"dial", "upgrade"}
    BY <1>3 DEF Idles, Stops, Reads, Takes, Talking, Ended
  <2>4. ASSUME ~Unsynchronised
        PROVE  IsPrefix(taken', gave) /\ (pc' \in Talking => \E r : Coming(r)')
    <3>1. PICK r : Coming(r)
      BY <1>0, <1>3, <2>4
    <3>2. CASE Idles
      BY <1>0, <2>1, <2>4, <3>1, <3>2 DEF Idles, Coming
    <3>3. CASE Stops
      BY <1>0, <2>4, <3>3 DEF Stops, Talking, Ended
    <3>4. CASE Reads
      <4>1. got \in Seq(Byte) /\ down \in Seq(Byte)
        BY DEF WsTypeOK
      <4>2. PICK k \in 1 .. (Wanted - Len(got)) :
              /\ k <= Len(down) /\ got' = got \o SubSeq(down, 1, k)
              /\ down' = SubSeq(down, k + 1, Len(down))
        BY <3>4 DEF Reads
      <4>3. ~(HaveHeader /\ Refused(TextLen(got))) /\ taken' = taken
        BY <3>4 DEF Reads
      <4>4. Coming(r)'
        BY <2>1, <3>1, <4>1, <4>2, <4>3, ReadsOn
      <4> QED BY <1>0, <2>4, <4>3, <4>4
    <3>5. CASE Takes
      <4>1. HaveHeader /\ ~Refused(TextLen(got)) /\ Len(got) = Wanted
            /\ taken' = Append(taken, RecvText) /\ got' = << >> /\ down' = down
        BY <3>5 DEF Takes
      <4>2. Coming(Tail(r))' /\ IsPrefix(taken', gave)
        BY <2>1, <3>1, <4>1, TakesText
      <4> QED BY <4>2
    <3> QED BY <1>3, <3>2, <3>3, <3>4, <3>5
  <2> QED BY <1>0, <2>1, <2>2, <2>3, <2>4 DEF Taking
<1> QED BY <1>1, <1>2, <1>3, ClientReads

\* What has been told stays so.
LEMMA ToldGrows ==
  ASSUME NEW t, NEW acts, NEW more, Told(t, acts), acts \subseteq more
  PROVE  Told(t, more)
BY DEF Told

\* A prefix of what was given stays one.
LEMMA PrefixOfMore ==
  ASSUME NEW S, NEW a \in Seq(S), NEW b \in Seq(S), NEW c \in Seq(S), IsPrefix(a, b)
  PROVE  IsPrefix(a, b \o c)
BY DEF IsPrefix

LEMMA TextsTold ==
  ASSUME gave \in Seq(Seq(Byte)), \A i \in 1 .. Len(gave) : Told(gave[i], said),
         said \subseteq said', NEW fs, Tells(fs)
  PROVE  \A i \in 1 .. Len(gave') : Told(gave'[i], said')
<1> DEFINE t == Texts(fs)
           Q == Seq(Byte)
<1>1. fs \in Seq(InTransit)
  <2>1. ServerFrame \subseteq InTransit /\ fs \in Seq(ServerFrame)
    BY DEF Tells, ServerFrame
  <2> QED BY <2>1, SubQueue
<1>2. t \in Seq(Seq(Byte))
  BY <1>1, QueueTypes
<1>3. Len(t) = Len(fs) /\ \A j \in 1 .. Len(fs) : t[j] = fs[j].text
  BY <1>1 DEF Texts
<1>4. gave' = gave \o t
  BY DEF Tells
<1>5. gave \in Seq(Q) /\ t \in Seq(Q)
  BY <1>2
<1> HIDE DEF t, Q
<1>6. IsJoin(gave', gave, t)
  BY <1>4, <1>5, JoinedIs
<1>7. Len(gave) \in Nat /\ Len(t) \in Nat /\ Len(gave') = Len(gave) + Len(t)
  BY <1>5, <1>6 DEF IsJoin
<1> SUFFICES ASSUME NEW i \in 1 .. Len(gave') PROVE Told(gave'[i], said')
  OBVIOUS
<1>8. CASE i <= Len(gave)
  <2>1. i \in 1 .. Len(gave)
    BY <1>7, <1>8
  <2>2. gave'[i] = gave[i]
    BY <1>6, <2>1 DEF IsJoin
  <2> QED BY <2>1, <2>2, ToldGrows
<1>9. CASE i > Len(gave)
  <2> DEFINE j == i - Len(gave)
  <2>1. j \in 1 .. Len(t) /\ i = Len(gave) + j
    BY <1>7, <1>9
  <2> HIDE DEF j
  <2>2. gave'[i] = t[j] /\ j \in 1 .. Len(fs)
    BY <1>3, <1>6, <2>1 DEF IsJoin
  <2>3. Told(fs[j].text, said')
    BY <2>2 DEF Tells
  <2> QED BY <1>3, <2>2, <2>3
<1> QED BY <1>7, <1>8, <1>9

LEMMA ServeTakes ==
  ASSUME WsTypeOK, Heard, Taking, SrvServe
  PROVE  Taking'
<1>0. /\ (\A i \in 1 .. Len(gave) : Told(gave[i], said))
      /\ (~Unsynchronised => IsPrefix(taken, gave))
      /\ (~Unsynchronised /\ pc \in Talking => \E r : Coming(r))
  BY DEF Taking
<1>1. srv = "open" /\ UNCHANGED <<pc, got, taken, path, reply>>
  BY DEF SrvServe, clientVars
<1>2. pc \notin {"dial", "upgrade"}
  <2>0. ~Spent
    BY DEF SrvServe, Spent, WsTypeOK
  <2>1. PICK q, t, u : OnTheWay(q, t, u)
    BY <1>1, <2>0 DEF Heard
  <2>2. pc \in Ended \/ sent # << >>
    BY <2>1, ServesHeard
  <2> QED BY <2>2 DEF Heard, Ended
<1>3. Unsynchronised' <=> Unsynchronised
  BY <1>1 DEF Unsynchronised
<1>4. CASE UNCHANGED <<said, gave, down>> /\ srv' \in {"open", "gone"}
  <2>1. ASSUME NEW r, Coming(r) PROVE Coming(r)'
    BY <1>1, <1>4, <2>1 DEF Coming
  <2> QED BY <1>0, <1>1, <1>2, <1>3, <1>4, <2>1 DEF Taking
<1>5. ASSUME NEW fs, Tells(fs), said \subseteq said' PROVE Taking'
  <2>1. gave \in Seq(Seq(Byte)) /\ taken \in Seq(Seq(Byte))
    BY DEF WsTypeOK
  <2>2. \A i \in 1 .. Len(gave') : Told(gave'[i], said')
    BY <1>0, <1>5, <2>1, TextsTold
  <2>3. IsPrefix(taken, gave) => IsPrefix(taken, gave')
    <3> DEFINE t == Texts(fs)
               Q == Seq(Byte)
    <3>1. fs \in Seq(InTransit)
      <4>1. ServerFrame \subseteq InTransit /\ fs \in Seq(ServerFrame)
        BY <1>5 DEF Tells, ServerFrame
      <4> QED BY <4>1, SubQueue
    <3>2. t \in Seq(Q) /\ gave \in Seq(Q) /\ taken \in Seq(Q)
      BY <2>1, <3>1, QueueTypes
    <3>3. gave' = gave \o t
      BY <1>5 DEF Tells
    <3> HIDE DEF t, Q
    <3> QED BY <3>2, <3>3, PrefixOfMore
  <2>4. ASSUME NEW r, Coming(r) PROVE Coming(r \o fs)'
    BY <1>1, <1>5, <2>4, MoreFrames
  <2>5. (\E r : Coming(r)) => \E r : Coming(r)'
    BY <2>4
  <2> QED BY <1>0, <1>1, <1>2, <1>3, <2>2, <2>3, <2>5 DEF Taking
<1>6. ASSUME NEW text, Answer(text), UNCHANGED srv PROVE Taking'
  <2>1. said \subseteq {"registered", "paired"}
    BY DEF WsTypeOK
  <2>2. said \subseteq said' /\ (UNCHANGED <<said, gave, down>> \/ \E fs : Tells(fs))
    BY <1>6, <2>1, AnswerTells
  <2> QED BY <1>1, <1>4, <1>5, <1>6, <2>2
<1> QED BY <1>4, <1>6 DEF SrvServe

LEMMA TakingStep ==
  ASSUME WsTypeOK, Heard, Taking, [Next]_vars
  PROVE  Taking'
<1>0. /\ (\A i \in 1 .. Len(gave) : Told(gave[i], said))
      /\ (~Unsynchronised => IsPrefix(taken, gave))
      /\ (~Unsynchronised /\ pc \in Talking => \E r : Coming(r))
  BY DEF Taking
<1>1. CASE SrvUpgrade
  <2>1. PICK r \in Replies : reply' = r /\ down' = r
    BY <1>1 DEF SrvUpgrade
  <2>2. /\ pc = "upgrade" /\ got = << >> /\ UNCHANGED <<pc, got, taken, path, said, gave>>
    BY <1>1 DEF SrvUpgrade, Heard, clientVars
  <2>3. r \in Seq(Byte)
    BY ReplyBytes
  <2>4. Opens(<< >> \o r, r)
    BY <2>3 DEF Opens
  <2>5. Upgrading /\ \A i \in 1 .. Len(<< >>) : (<< >>)[i] # EmptyLine
    BY <2>2 DEF Taking
  <2>6. Upgrading'
    BY <2>1, <2>2, <2>4, <2>5 DEF Upgrading
  <2>7. gave' = << >> /\ taken' = << >> /\ IsPrefix(<< >>, << >>)
    BY <2>2, <2>5 DEF Upgrading, IsPrefix
  <2> QED BY <1>0, <2>2, <2>6, <2>7 DEF Taking, Talking
<1>2. CASE SrvHangup
  <2>1. PICK k \in 0 .. Len(down) : down' = SubSeq(down, 1, k)
    BY <1>2 DEF SrvHangup
  <2>2. srv' = "gone" /\ UNCHANGED <<pc, got, taken, path, reply, said, gave>>
    BY <1>2 DEF SrvHangup, clientVars
  <2>3. got \in Seq(Byte) /\ down \in Seq(Byte) /\ reply \in Seq(Byte)
    BY DEF WsTypeOK
  <2>4. Unsynchronised' <=> Unsynchronised
    BY <2>2 DEF Unsynchronised
  <2>5. ASSUME Upgrading PROVE Upgrading'
    <3>1. Opens(got \o SubSeq(down, 1, k), reply)
      BY <2>3, <2>5, FewerBytes DEF Upgrading
    <3> QED BY <2>1, <2>2, <2>5, <3>1 DEF Upgrading
  <2>6. ASSUME NEW r, Coming(r) PROVE Coming(r)'
    <3>1. r \in Seq(InTransit)
      <4>1. ServerFrame \subseteq InTransit /\ r \in Seq(ServerFrame)
        BY <2>6 DEF Coming, ServerFrame
      <4> QED BY <4>1, SubQueue
    <3>2. Bytes(r) \in Seq(Byte) /\ Opens(got \o down, Bytes(r))
      BY <2>6, <3>1, QueueTypes DEF Coming
    <3>3. Opens(got \o SubSeq(down, 1, k), Bytes(r))
      BY <2>3, <3>2, FewerBytes
    <3> QED BY <2>1, <2>2, <2>6, <3>3 DEF Coming
  <2>7. (\E r : Coming(r)) => \E r : Coming(r)'
    BY <2>6
  <2> QED BY <1>0, <2>2, <2>4, <2>5, <2>7 DEF Taking
<1>3. CASE UNCHANGED vars
  <2>1. UNCHANGED <<pc, got, down, taken, path, srv, reply, said, gave>>
    BY <1>3 DEF vars, clientVars, serverVars
  <2>2. Unsynchronised' <=> Unsynchronised
    BY <2>1 DEF Unsynchronised
  <2>3. ASSUME NEW r, Coming(r) PROVE Coming(r)'
    BY <2>1, <2>3 DEF Coming
  <2>4. (\E r : Coming(r)) => \E r : Coming(r)'
    BY <2>3
  <2>5. Upgrading => Upgrading'
    BY <2>1 DEF Upgrading
  <2> QED BY <1>0, <2>1, <2>2, <2>4, <2>5 DEF Taking
<1> QED BY <1>1, <1>2, <1>3, ClientTakes, ServeTakes DEF Next, Terminated

\* Unless the response to the upgrade was too long for resp, the texts taken
\* by ws_recv_text are those of the server's frames, in order, however their
\* bytes were cut into reads, masked or not, and wherever the server hangs up.
THEOREM TakesFrames == Spec => []TakesWholeFrames
<1>1. Init => WsTypeOK /\ Heard /\ Taking
  BY TypeInit, HeardInit, TakingInit
<1>2. WsTypeOK /\ Heard /\ Taking /\ [Next]_vars => (WsTypeOK /\ Heard /\ Taking)'
  BY TypeStep, HeardStep, TakingStep
<1>3. WsTypeOK /\ Heard /\ Taking => TakesWholeFrames
  BY DEF Taking, TakesWholeFrames
<1> QED BY <1>1, <1>2, <1>3, PTL DEF Spec

----------------------------------------------------------------------------
(* What the client concludes.                                              *)

\* The first position of a token, 0 if there is none.
First(t, key) ==
  LET I == {i \in 1 .. Len(t) : t[i] = key} IN IF I # {} THEN Min(I) ELSE 0

LEMMA FirstAt ==
  ASSUME NEW t, NEW key, Len(t) \in Nat, NEW p, p = First(t, key)
  PROVE  \/ p = 0 /\ ~Contains(t, key)
         \/ p \in 1 .. Len(t) /\ t[p] = key
<1> DEFINE I == {i \in 1 .. Len(t) : t[i] = key}
<1>1. p = IF I # {} THEN Min(I) ELSE 0
  BY DEF First
<1>2. CASE I = {}
  BY <1>1, <1>2 DEF Contains
<1>3. CASE I # {}
  <2>1. I \in SUBSET Nat
    OBVIOUS
  <2>2. PICK n \in I : \A m \in I : n <= m
    BY <1>3, <2>1, LeastNat
  <2>3. p \in I
    BY <1>1, <1>3, <2>2 DEF Min
  <2> QED BY <2>3
<1> QED BY <1>2, <1>3

LEMMA KeyFound ==
  ASSUME NEW t, NEW key, Len(t) \in Nat
  PROVE  \/ json_find_key(t, key) = 0 /\ ~Contains(t, key)
         \/ \E q \in 1 .. Len(t) : json_find_key(t, key) = q + 1 /\ t[q] = key
<1> DEFINE p == First(t, key)
<1>1. \/ p = 0 /\ ~Contains(t, key)
      \/ p \in 1 .. Len(t) /\ t[p] = key
  BY FirstAt
<1>2. json_find_key(t, key) = IF p = 0 THEN 0 ELSE p + 1
  BY DEF json_find_key, First, SelectInSeq
<1> HIDE DEF p
<1> QED BY <1>1, <1>2

\* A text of tokens has no zero, and is a C string as it is.
LEMMA WholeString == \A t \in Seq(40 .. 63) : CString(t) = t
<1> SUFFICES ASSUME NEW t \in Seq(40 .. 63) PROVE CString(t) = t
  OBVIOUS
<1> DEFINE p == First(t, 0)
<1>1. \/ p = 0 /\ ~Contains(t, 0)
      \/ p \in 1 .. Len(t) /\ t[p] = 0
  BY FirstAt
<1>2. CString(t) = IF p = 0 THEN t ELSE SubSeq(t, 1, p - 1)
  BY DEF CString, First, SelectInSeq
<1> HIDE DEF p
<1>3. \A i \in 1 .. Len(t) : t[i] # 0
  <2> DEFINE S == 40 .. 63
  <2>1. t \in Seq(S) /\ \A x \in S : x # 0
    OBVIOUS
  <2> HIDE DEF S
  <2> QED BY <2>1
<1> QED BY <1>1, <1>2, <1>3 DEF Contains

\* A success that is accepted was told.
LEMMA RegisterTold ==
  ASSUME NEW t, NEW acts, Told(t, acts), RegisterAccepted(t)
  PROVE  "registered" \in acts
<1>1. t \in Seq(40 .. 63) /\ Contains(t, 44) /\ At(t, json_find_key(t, 48)) = 56
  BY Tokens DEF Told, RegisterAccepted, json_get_bool, True
<1> DEFINE p == json_find_key(t, 48)
<1>2. At(t, p) = 56
  BY <1>1
<1> HIDE DEF p
<1>3. p \in DOMAIN t /\ t[p] = 56
  BY <1>2 DEF At
<1>4. Contains(t, 56)
  BY <1>1, <1>3 DEF Contains
<1> QED BY <1>1, <1>4 DEF Told

\* An answer whose keys are all there is the server's, from its first token or
\* its second, and misses at most the number of its last key and the end.
LEMMA QpInfoTold ==
  ASSUME NEW t, NEW acts, Told(t, acts), QpInfoAccepted(t)
  PROVE  /\ "paired" \in acts
         /\ json_get_u64(t, 49) = 57 /\ json_get_u64(t, 50) = 58
         /\ json_get_bytes16(t, 51) = ServerQp.gid /\ json_get_u64(t, 53) \in {63, 0}
<1> DEFINE Q == QpInfoServer
           S == 40 .. 63
<1>1. /\ t \in Seq(S) /\ Contains(t, 46)
      /\ \A k \in {49, 50, 52, 53} : json_find_key(t, k) # 0
      /\ At(t, json_find_key(t, 51)) = 54
  BY Tokens DEF Told, QpInfoAccepted
<1>2. PICK a \in 1 .. 2, b \in 1 .. Len(Q) : t = SubSeq(Q, a, b)
  BY <1>1 DEF Told
<1>3. "paired" \in acts
  BY <1>1 DEF Told
<1>4. QpTokens(Q)
  BY QpText
<1>5. Q \in Seq(S) /\ Len(Q) = 14 + GidLen /\ GidLen \in Nat
  BY <1>4, GidLenAssumption DEF QpTokens
<1> HIDE DEF Q, S
<1> DEFINE c == a - 1
<1>6. a \in 1 .. Len(Q) /\ c \in 0 .. 1 /\ b >= a
  <2>1. PICK i \in 1 .. Len(t) : t[i] = 46
    BY <1>1 DEF Contains
  <2>2. b >= a
    BY <1>2, <1>5, <2>1
  <2> QED BY <1>5, <2>2
<1>7. /\ Len(t) \in Nat /\ Len(t) + c <= 14 + GidLen /\ DOMAIN t = 1 .. Len(t)
      /\ \A i \in 1 .. Len(t) : t[i] = Q[i + c] /\ i + c \in 1 .. 14 + GidLen
  <2>1. b \in a .. Len(Q)
    BY <1>6
  <2>2. /\ Len(t) = b - a + 1 /\ \A i \in 1 .. b - a + 1 : t[i] = Q[a + i - 1]
    <3>1. Q \in Seq(S)
      BY <1>5
    <3>2. a \in 1 .. Len(Q)
      BY <1>6
    <3>3. /\ Len(SubSeq(Q, a, b)) = b - a + 1
          /\ \A i \in 1 .. b - a + 1 : SubSeq(Q, a, b)[i] = Q[a + i - 1]
      BY <2>1, <3>1, <3>2, SubAt
    <3> QED BY <1>2, <3>3
  <2>3. DOMAIN t = 1 .. Len(t)
    BY <1>1
  <2> DEFINE l == Len(t)
             m == Len(Q)
  <2>4. /\ l = b - a + 1 /\ m = 14 + GidLen /\ GidLen \in Nat /\ a \in 1 .. m /\ b \in a .. m
        /\ c \in 0 .. 1 /\ c = a - 1
    BY <1>5, <1>6, <2>1, <2>2
  <2> HIDE DEF l, m
  <2>5. l \in Nat /\ l + c <= 14 + GidLen
    BY <2>4
  <2>6. ASSUME NEW i \in 1 .. l PROVE t[i] = Q[i + c] /\ i + c \in 1 .. 14 + GidLen
    <3>1. i \in 1 .. b - a + 1 /\ a + i - 1 = i + c /\ i + c \in 1 .. 14 + GidLen
      BY <2>4
    <3> QED BY <2>2, <3>1
  <2> QED BY <2>3, <2>5, <2>6 DEF l
<1> HIDE DEF c
<1>8. ASSUME NEW k \in {49, 50, 51, 53}, NEW n \in 1 .. 14 + GidLen,
             \A i \in 1 .. Len(Q) : Q[i] = k => i = n
      PROVE  json_find_key(t, k) = (n - c) + 1 /\ n - c \in 1 .. Len(t)
  <2>1. json_find_key(t, k) # 0
    <3>1. CASE k = 51
      <4>1. 0 \notin DOMAIN t
        BY <1>7
      <4> QED BY <1>1, <3>1, <4>1 DEF At
    <3> QED BY <1>1, <1>8, <3>1
  <2>2. PICK q \in 1 .. Len(t) : json_find_key(t, k) = q + 1 /\ t[q] = k
    BY <1>7, <2>1, KeyFound
  <2>3. q + c = n
    BY <1>5, <1>7, <1>8, <2>2
  <2> QED BY <1>6, <1>7, <2>2, <2>3
<1>9. /\ \A i \in 1 .. Len(Q) : Q[i] = 49 => i = 4
      /\ \A i \in 1 .. Len(Q) : Q[i] = 50 => i = 6
      /\ \A i \in 1 .. Len(Q) : Q[i] = 51 => i = 8
      /\ \A i \in 1 .. Len(Q) : Q[i] = 53 => i = 12 + GidLen
  BY <1>4, QpPlaces
<1>10. 4 \in 1 .. 14 + GidLen /\ 6 \in 1 .. 14 + GidLen /\ 8 \in 1 .. 14 + GidLen
       /\ 12 + GidLen \in 1 .. 14 + GidLen
  BY <1>5
<1>11. /\ json_find_key(t, 49) = (4 - c) + 1 /\ json_find_key(t, 50) = (6 - c) + 1
       /\ json_find_key(t, 51) = (8 - c) + 1
       /\ json_find_key(t, 53) = ((12 + GidLen) - c) + 1
       /\ (12 + GidLen) - c \in 1 .. Len(t)
  BY <1>8, <1>9, <1>10
<1>12. ASSUME NEW n \in 1 .. 13 + GidLen, n - c \in 1 .. Len(t) PROVE At(t, n - c) = Q[n]
  <2>1. (n - c) + c = n
    BY <1>6
  <2>2. n - c \in DOMAIN t
    BY <1>7, <1>12
  <2> QED BY <1>7, <1>12, <2>1, <2>2 DEF At
<1>13. /\ Q[5] = 57 /\ Q[7] = 58 /\ Q[13 + GidLen] = 63
       /\ \A i \in 1 .. GidLen : Q[9 + i] = ServerQp.gid[i] /\ Q[9 + i] \in Digit
  BY <1>4 DEF QpTokens
<1>14. json_get_u64(t, 49) = 57
  <2>1. (4 - c) + 1 = 5 - c /\ 5 - c \in 1 .. Len(t) /\ 5 \in 1 .. 13 + GidLen
    BY <1>5, <1>6, <1>7, <1>11
  <2>2. At(t, 5 - c) = 57
    BY <1>12, <1>13, <2>1
  <2>3. 57 \in Digit
    BY DEF Digit
  <2> QED BY <1>11, <2>1, <2>2, <2>3 DEF json_get_u64
<1>15. json_get_u64(t, 50) = 58
  <2>1. (6 - c) + 1 = 7 - c /\ 7 - c \in 1 .. Len(t) /\ 7 \in 1 .. 13 + GidLen
    BY <1>5, <1>6, <1>7, <1>11
  <2>2. At(t, 7 - c) = 58
    BY <1>12, <1>13, <2>1
  <2>3. 58 \in Digit
    BY DEF Digit
  <2> QED BY <1>11, <2>1, <2>2, <2>3 DEF json_get_u64
<1>16. json_get_u64(t, 53) \in {63, 0}
  <2> DEFINE p == ((12 + GidLen) - c) + 1
             v == At(t, p)
  <2>1. v \in {63, 0}
    <3>1. CASE p \in DOMAIN t
      <4>1. p = (13 + GidLen) - c /\ p \in 1 .. Len(t) /\ 13 + GidLen \in 1 .. 13 + GidLen
        BY <1>5, <1>6, <1>7, <3>1
      <4> HIDE DEF p
      <4>2. v = Q[13 + GidLen]
        BY <1>12, <4>1
      <4> QED BY <1>13, <4>2
    <3> HIDE DEF p
    <3>2. CASE p \notin DOMAIN t
      BY <3>2 DEF At
    <3> QED BY <3>1, <3>2 DEF p
  <2>2. json_get_u64(t, 53) = IF v \in Digit THEN v ELSE 0
    BY <1>11 DEF json_get_u64
  <2> HIDE DEF v
  <2> QED BY <2>1, <2>2
<1>17. json_get_bytes16(t, 51) = ServerQp.gid
  <2> DEFINE p == (8 - c) + 1
             g == ServerQp.gid
  <2>1. ASSUME NEW i \in 1 .. GidLen
        PROVE  At(t, p + i) = g[i] /\ At(t, p + i) \in Digit /\ t[p + i] = g[i]
    <3>1. p + i = (9 + i) - c /\ (9 + i) - c \in 1 .. Len(t) /\ 9 + i \in 1 .. 13 + GidLen
      BY <1>5, <1>6, <1>7, <1>11
    <3>2. At(t, p + i) = Q[9 + i]
      BY <1>12, <3>1
    <3>3. At(t, p + i) = t[p + i]
      BY <1>7, <3>1 DEF At
    <3> QED BY <1>13, <3>2, <3>3
  <2>2. g = [i \in 1 .. GidLen |-> g[i]]
    BY GidBytes
  <2>3. json_get_bytes16(t, 51)
          = [i \in 1 .. GidLen |-> IF \A j \in 1 .. i : At(t, p + j) \in Digit
                                   THEN t[p + i] ELSE 0]
    BY <1>11 DEF json_get_bytes16
  <2> HIDE DEF p, g
  <2>4. \A i \in 1 .. GidLen : (\A j \in 1 .. i : At(t, p + j) \in Digit) /\ t[p + i] = g[i]
    <3> SUFFICES ASSUME NEW i \in 1 .. GidLen, NEW j \in 1 .. i
                 PROVE  At(t, p + j) \in Digit /\ t[p + i] = g[i]
      BY <2>1, <1>5
    <3>1. j \in 1 .. GidLen
      BY <1>5
    <3> QED BY <2>1, <3>1
  <2>5. json_get_bytes16(t, 51) = [i \in 1 .. GidLen |-> g[i]]
    BY <2>3, <2>4
  <2> QED BY <2>2, <2>5 DEF g
<1> QED BY <1>3, <1>14, <1>15, <1>16, <1>17

Joining == {"pair", "paired", "rtr", "token", "close", "done"}

\* The queue pair in peer is the server's, but for an MTU that is missing.
PeerIsServers ==
  /\ "paired" \in said /\ peer.qpn = ServerQp.qpn /\ peer.lid = ServerQp.lid
  /\ peer.gid = ServerQp.gid /\ peer.mtu_enum \in {ServerQp.mtu_enum, 0}

Known ==
  ~Unsynchronised =>
    RegisteredByServerOnly /\ (pc = "rtr" => PeerIsServers) /\ PathIsServers

\* The text that is taken was told.
LEMMA TakenTold ==
  ASSUME WsTypeOK, Taking, ~Unsynchronised, Takes, pc \in Talking, UNCHANGED <<gave, srv>>
  PROVE  Told(RecvText, said) /\ CString(RecvText) = RecvText
<1>1. PICK r : Coming(r)
  BY DEF Taking
<1>2. HaveHeader /\ ~Refused(TextLen(got)) /\ Len(got) = Wanted
      /\ taken' = Append(taken, RecvText) /\ got' = << >> /\ down' = down
  BY DEF Takes
<1>3. Len(taken) + 1 \in 1 .. Len(gave) /\ gave[Len(taken) + 1] = RecvText
  BY <1>1, <1>2, TakesText
<1>4. Told(RecvText, said)
  BY <1>3 DEF Taking
<1>5. RecvText \in Seq(40 .. 63)
  BY <1>4 DEF Told
<1> QED BY <1>4, <1>5, WholeString

LEMMA RegisterKnown ==
  ASSUME WsTypeOK, Taking, ~Unsynchronised, UNCHANGED <<gave, srv>>,
         recv_register_response, pc' = "pair"
  PROVE  "registered" \in said /\ path' = path
<1>1. PICK json \in {CString(RecvText)} :
        /\ HaveHeader /\ ~Refused(TextLen(got)) /\ Len(got) = Wanted
        /\ TakeFrame("registered", "pair", RecvText, json) /\ UNCHANGED down /\ pc = "registered"
  BY DEF recv_register_response, ws_recv_text, read_full, Fail, ws_close
<1>2. /\ RegisterAccepted(json) /\ taken' = Append(taken, RecvText) /\ got' = << >>
      /\ path' = path
  BY <1>1 DEF TakeFrame, GoesOn, Accepted
<1>3. Takes /\ pc \in Talking
  BY <1>1, <1>2 DEF Takes, Talking
<1>4. Told(RecvText, said) /\ json = RecvText
  BY <1>3, TakenTold
<1> QED BY <1>2, <1>4, RegisterTold

LEMMA PairKnown ==
  ASSUME WsTypeOK, Taking, ~Unsynchronised, UNCHANGED <<gave, srv, said>>,
         recv_qpinfo_server, pc' = "rtr"
  PROVE  PeerIsServers' /\ path' = path
<1>1. PICK json \in {CString(RecvText)} :
        /\ HaveHeader /\ ~Refused(TextLen(got)) /\ Len(got) = Wanted
        /\ TakeFrame("paired", "rtr", RecvText, json) /\ UNCHANGED down /\ pc = "paired"
  BY DEF recv_qpinfo_server, ws_recv_text, read_full, Fail, ws_close
<1>2. /\ QpInfoAccepted(json) /\ taken' = Append(taken, RecvText) /\ got' = << >>
      /\ path' = path /\ peer' = qpinfo_t(json)
  BY <1>1 DEF TakeFrame, GoesOn, Accepted
<1>3. Takes /\ pc \in Talking
  BY <1>1, <1>2 DEF Takes, Talking
<1>4. Told(RecvText, said) /\ json = RecvText
  BY <1>3, TakenTold
<1>5. /\ "paired" \in said
      /\ json_get_u64(json, 49) = 57 /\ json_get_u64(json, 50) = 58
      /\ json_get_bytes16(json, 51) = ServerQp.gid /\ json_get_u64(json, 53) \in {63, 0}
  BY <1>2, <1>4, QpInfoTold
<1>6. ServerQp.qpn = 57 /\ ServerQp.lid = 58 /\ ServerQp.mtu_enum = 63
  BY GidBytes
<1>7. /\ peer'.qpn = 57 /\ peer'.lid = 58 /\ peer'.gid = ServerQp.gid
      /\ peer'.mtu_enum \in {63, 0}
  BY <1>2, <1>5, Tokens DEF qpinfo_t
<1> QED BY <1>2, <1>5, <1>6, <1>7 DEF PeerIsServers

\* The steps of the client that conclude something, and all others.
LEMMA ClientConcludes ==
  ASSUME Client
  PROVE  \/ recv_register_response /\ pc' = "pair"
         \/ recv_qpinfo_server /\ pc' = "rtr"
         \/ v_qp_to_rtr
         \/ path' = path /\ (pc' \in Joining => pc \in Joining) /\ pc' # "rtr"
<1> DEFINE Other == path' = path /\ (pc' \in Joining => pc \in Joining) /\ pc' # "rtr"
<1>1. CASE Dial
  BY <1>1 DEF Dial, Joining
<1>2. CASE ReadUpgrade
  BY <1>2 DEF ReadUpgrade, Joining
<1>3. ASSUME NEW at, NEW msg, NEW next \in {"registered", "paired", "close"},
             ws_send_text(at, msg, next), at \in Joining \/ next = "registered",
             at \in Sending
      PROVE  Other
  BY <1>3 DEF ws_send_text, WriteHeader, WriteBody, ShortWrite, Fail, ws_close, Joining, Sending
<1>4. CASE send_register_request \/ send_qpinfo_client \/ send_token
  BY <1>3, <1>4 DEF send_register_request, send_qpinfo_client, send_token, Joining, Sending
<1>5. CASE recv_register_response /\ pc' # "pair"
  BY <1>5 DEF recv_register_response, ws_recv_text, read_full, TakeFrame, Fail, ws_close, Joining
<1>6. CASE recv_qpinfo_server /\ pc' # "rtr"
  BY <1>6 DEF recv_qpinfo_server, ws_recv_text, read_full, TakeFrame, Fail, ws_close, Joining
<1>7. CASE Verbs \/ CloseWs
  BY <1>7 DEF Verbs, CloseWs, Fail, ws_close, Joining
<1> QED BY <1>1, <1>2, <1>4, <1>5, <1>6, <1>7 DEF Client

LEMMA KnownInit == Init => Known
BY DEF Init, Known, RegisteredByServerOnly, PathIsServers

LEMMA KnownStep ==
  ASSUME WsTypeOK, Heard, Taking, Known, [Next]_vars
  PROVE  Known'
<1>1. CASE SrvUpgrade
  <2>1. pc = "upgrade" /\ UNCHANGED <<pc, path>>
    BY <1>1 DEF SrvUpgrade, Heard, clientVars
  <2>2. path = << >>
    BY <2>1 DEF Taking, Upgrading
  <2> QED BY <2>1, <2>2 DEF Known, RegisteredByServerOnly, PathIsServers
<1>2. ASSUME UNCHANGED <<pc, peer, path, reply>>, said \subseteq said' PROVE Known'
  BY <1>2 DEF Known, Unsynchronised, RegisteredByServerOnly, PathIsServers, PeerIsServers
<1>3. CASE SrvServe
  <2>1. UNCHANGED <<pc, peer, path, reply>>
    BY <1>3 DEF SrvServe, clientVars
  <2>2. said \subseteq said'
    <3>1. ASSUME NEW text, Answer(text) PROVE said \subseteq said'
      <4>1. said \subseteq {"registered", "paired"}
        BY DEF WsTypeOK
      <4> QED BY <3>1, <4>1, AnswerTells
    <3> QED BY <1>3, <3>1 DEF SrvServe
  <2> QED BY <1>2, <2>1, <2>2
<1>4. CASE SrvHangup
  BY <1>2, <1>4 DEF SrvHangup, clientVars
<1>5. CASE UNCHANGED vars
  BY <1>2, <1>5 DEF vars, clientVars, serverVars
<1>6. CASE Client
  <2>1. UNCHANGED <<said, gave, reply>>
    <3>1. Dial \/ UNCHANGED serverVars
      BY <1>6, ClientKinds DEF WsTypeOK, Heard
    <3> QED BY <3>1 DEF Dial, serverVars
  <2>2. srv' = srv \/ Dial
    BY <1>6, ClientKinds DEF WsTypeOK, Heard, serverVars
  <2> SUFFICES ASSUME ~Unsynchronised
               PROVE  /\ pc' \in Joining => "registered" \in said
                      /\ pc' = "rtr" => PeerIsServers'
                      /\ PathIsServers'
    BY <2>1 DEF Known, Unsynchronised, RegisteredByServerOnly, Joining
  <2>3. /\ pc \in Joining => "registered" \in said
        /\ pc = "rtr" => PeerIsServers
        /\ PathIsServers
    BY DEF Known, RegisteredByServerOnly, Joining
  <2>4. path' = path => PathIsServers'
    BY <2>1, <2>3 DEF PathIsServers
  <2>5. CASE recv_register_response /\ pc' = "pair"
    <3>1. srv' = srv
      BY <2>2, <2>5 DEF Dial
    <3> QED BY <2>1, <2>4, <2>5, <3>1, RegisterKnown DEF Joining
  <2>6. CASE recv_qpinfo_server /\ pc' = "rtr"
    <3>1. srv' = srv
      BY <2>2, <2>6 DEF Dial
    <3>2. pc \in Joining
      BY <2>6 DEF recv_qpinfo_server, ws_recv_text, read_full, Joining
    <3> QED BY <2>1, <2>3, <2>4, <2>6, <3>1, <3>2, PairKnown
  <2>7. CASE v_qp_to_rtr
    <3>1. pc = "rtr" /\ pc' = "token" /\ pc \in Joining
          /\ path' = [dest_qp_num |-> peer.qpn, dlid |-> peer.lid, dgid |-> peer.gid,
                      sgid_index |-> peer.gid_idx, path_mtu |-> peer.mtu_enum]
      BY <2>7 DEF v_qp_to_rtr, Joining
    <3>2. PathIsServers'
      BY <2>1, <2>3, <3>1 DEF PathIsServers, PeerIsServers
    <3> QED BY <2>3, <3>1, <3>2
  <2>8. CASE path' = path /\ (pc' \in Joining => pc \in Joining) /\ pc' # "rtr"
    BY <2>3, <2>4, <2>8
  <2> QED BY <1>6, <2>5, <2>6, <2>7, <2>8, ClientConcludes
<1> QED BY <1>1, <1>3, <1>4, <1>5, <1>6 DEF Next, Terminated

\* Unless the response to the upgrade was too long for resp, the client goes
\* on after registering only if the server has registered its id: what
\* recv_register_response accepts was said by the server in one whole frame or
\* in one piece of a message that says it.
THEOREM RegisteredByServer == Spec => [](Unsynchronised \/ RegisteredByServerOnly)
<1>1. Init => WsTypeOK /\ Heard /\ Taking /\ Known
  BY TypeInit, HeardInit, TakingInit, KnownInit
<1>2. WsTypeOK /\ Heard /\ Taking /\ Known /\ [Next]_vars
        => (WsTypeOK /\ Heard /\ Taking /\ Known)'
  BY TypeStep, HeardStep, TakingStep, KnownStep
<1>3. WsTypeOK /\ Heard /\ Taking /\ Known => Unsynchronised \/ RegisteredByServerOnly
  BY DEF Known
<1> QED BY <1>1, <1>2, <1>3, PTL DEF Spec

\* Unless the response to the upgrade was too long for resp, v_qp_to_rtr
\* connects the queue pair to the server's, after the server has paired it,
\* wherever its answer is cut into frames; only the MTU may be lost.
THEOREM PathToServer == Spec => [](Unsynchronised \/ PathIsServers)
<1>1. Init => WsTypeOK /\ Heard /\ Taking /\ Known
  BY TypeInit, HeardInit, TakingInit, KnownInit
<1>2. WsTypeOK /\ Heard /\ Taking /\ Known /\ [Next]_vars
        => (WsTypeOK /\ Heard /\ Taking /\ Known)'
  BY TypeStep, HeardStep, TakingStep, KnownStep
<1>3. WsTypeOK /\ Heard /\ Taking /\ Known => Unsynchronised \/ PathIsServers
  BY DEF Known
<1> QED BY <1>1, <1>2, <1>3, PTL DEF Spec

============================================================================
