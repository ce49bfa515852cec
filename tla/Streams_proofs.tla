--------------------------- MODULE Streams_proofs ---------------------------
(***************************************************************************)
(* What is written to a byte stream of src/bytestream.c and read from      *)
(* another (ByteStream), and the messages that are (Message).              *)
(*                                                                         *)
(* For any fields and any number of them: what is sent has no hole, what   *)
(* is read is what was written, frames are taken off the wire whole, and   *)
(* neither side leaves its allocation.  The sender's half of the invariant *)
(* (Sender) says that a stream nobody marked invalid is as long as its     *)
(* items, one after the other; the layout (Layout) adds what bytes stand   *)
(* where, and which item the length of the open TLV belongs to; the        *)
(* receiver's half (Came, Read) that the bytes come in order and that it   *)
(* stands behind the items it has taken out.                               *)
(*                                                                         *)
(* Then, for any text, contact and format: the lengths of a message nest   *)
(* (PackInv: what is on its way was packed whole), and the reader finds    *)
(* what was written and stays in its packet.  ReadInv says at each stage   *)
(* what is left to read (Before); in the loop over the TLVs of format 1    *)
(* that the stream stands before one of them (OwnInner, and OddInner for   *)
(* what other clients put there).                                          *)
(***************************************************************************)
EXTENDS ByteStream, Message, FiniteSetTheorems, SequenceTheorems, WellFoundedInduction, TLAPS

-----------------------------------------------------------------------------
\* One packet, from the bytes of its fields to the fields again.

\* What a packet consists of: fields, and the heads of TLVs that are filled in
\* afterwards.
Head5 == [kind : {"tlvhead"}, type : {5}, value : Nat]
Items == FieldSet \cup Head5

\* What a byte of a stream may be, an enciphered one included (Message).
Octet == 0 .. Cipher + 255

Stream ==
    [data : Seq(Octet), ptr : Nat, len : Nat, held : BOOLEAN,
     invalid : BOOLEAN, fault : BOOLEAN, full : BOOLEAN]
Fits(b) == b \in Stream /\ end(b) <= b.len

\* A stream that is being written: without an allocation it is empty, and
\* announces room only after the first allocation failed.
Writable(b) ==
    /\ Fits(b)
    /\ ~b.held => b.data = <<>> /\ (b.len = 0 \/ b.invalid)
    /\ b.fault => ~b.held /\ b.invalid

\* The bytes of an item.
Code(m) ==
    CASE m.kind = "byte"     -> <<m.value>>
      [] m.kind = "word"     -> Word_2_Charsb(m.value)
      [] m.kind = "wordLE"   -> Word_2_Chars(m.value)
      [] m.kind = "dword"    -> DW_2_Charsb(m.value)
      [] m.kind = "dwordLE"  -> DW_2_Chars(m.value)
      [] m.kind = "tlv"      -> Word_2_Charsb(m.type) \o Word_2_Charsb(Len(m.value)) \o m.value
      [] m.kind = "string08" -> <<Len(m.value) % 256>> \o m.value
      [] m.kind = "string16" -> Word_2_Charsb(Len(m.value)) \o m.value
      [] m.kind = "tlvhead"  -> Word_2_Charsb(m.type) \o Word_2_Charsb(m.value)

\* s stands in data behind position p.
Stands(data, p, s) == p + Len(s) <= Len(data) /\ \A j \in 1 .. Len(s) : data[p + j] = s[j]

\* Where the items of a packet end, e bytes long: item i reaches from
\* at[i - 1] to at[i].
Ends(items, e, at) ==
    /\ at \in [0 .. Len(items) -> Nat]
    /\ at[0] = SIZEOF_FLAP_HEAD
    /\ \A i \in 1 .. Len(items) : at[i] = at[i - 1] + Taken(items[i])
    /\ at[Len(items)] = e

HeadBytes(len) == <<42, 2>> \o Word_2_Charsb(Seq0) \o Word_2_Charsb(len)
Bodies(data, items, at) == \A i \in 1 .. Len(items) : Stands(data, at[i - 1], Code(items[i]))

\* The TLV that is open is the last one opened, and ends where the stream does.
Opened(items, o, sz, e, at) ==
    o # None => \E k \in 1 .. Len(items) :
        /\ items[k].kind = "tlvhead" /\ at[k - 1] = o
        /\ \A i \in k + 1 .. Len(items) : items[i].kind # "tlvhead"
        /\ e = o + SIZEOF_TLV_HEAD + sz

-----------------------------------------------------------------------------
\* The sender's invariant.
Typed ==
    /\ phase \in {"build", "head", "body", "parse", "done", "dropped", "lost"}
    /\ Writable(out)
    /\ open \in Int /\ made \in Seq(Items) /\ Len(made) <= MaxFields /\ size \in Nat
    /\ open # None => \E k \in 1 .. Len(made) : made[k].kind = "tlvhead"
Sent == phase \notin {"build", "dropped"} => ~out.invalid
Laid == ~out.invalid => \E at : Ends(made, end(out), at)
Sender == Typed /\ Sent /\ Laid

-----------------------------------------------------------------------------
\* The receiver's invariant, of a packet whose lengths their fields can say:
\* w is what an item takes at most.
Sayable(w) ==
    /\ w \in Nat /\ SIZEOF_TLV_HEAD <= w /\ MaxFields * w < 65536
    /\ \A f \in Fields : FieldSize(f) <= w
    /\ \A f \in Fields : f.kind = "string08" => Len(f.value) < 256

\* The lengths of an item fit the places they are put down in.
Says(m) ==
    /\ m.kind = "tlvhead" => m.value \in Word
    /\ m.kind \in {"tlv", "string16"} => Len(m.value) \in Word
    /\ m.kind = "string08" => Len(m.value) \in Byte

Rising(items, at) == \A i, j \in 0 .. Len(items) : i <= j => at[i] <= at[j]
Placed(data, items, at) == Ends(items, Len(data), at) /\ Rising(items, at) /\ Bodies(data, items, at)
Layout(data, items, o, sz, at) == Placed(data, items, at) /\ Opened(items, o, sz, Len(data), at)
Front6 ==
    /\ phase = "build" => Stands(out.data, 0, HeadBytes(0))
    /\ phase \notin {"build", "dropped"} => Stands(out.data, 0, HeadBytes(end(out) - SIZEOF_FLAP_HEAD))

Came ==
    /\ Fits(in) /\ wire \in Seq(Octet) /\ cut \in BOOLEAN
    /\ phase = "build" => in = initBs /\ wire = <<>>
    /\ phase \in {"build", "head", "body"} => ~cut /\ parsed = <<>>
    /\ phase \in {"head", "body"} => in.data \o wire = out.data \o NextHead
    /\ phase = "head" => end(in) <= SIZEOF_FLAP_HEAD /\ in.ptr = 0
    /\ phase = "body" => /\ in.ptr = SIZEOF_FLAP_HEAD /\ flap.len = end(out) - SIZEOF_FLAP_HEAD
                         /\ SIZEOF_FLAP_HEAD <= end(in) /\ end(in) <= end(out)
    /\ phase \notin {"parse", "done", "lost"} => ~in.fault
    /\ in.fault => cut

\* Of a body that came whole, the receiver stands behind what it has read.
Read(at) ==
    phase \in {"parse", "done"} /\ ~cut =>
        /\ in.data = out.data /\ wire = NextHead
        /\ Len(parsed) \in 0 .. Len(made) /\ parsed = SubSeq(made, 1, Len(parsed))
        /\ in.ptr = at[Len(parsed)]
        /\ phase = "done" => Len(parsed) = Len(made)

Packet(w) ==
    /\ size <= Len(made) * w
    /\ \A i \in 1 .. Len(made) : Says(made[i])
    /\ ~out.invalid =>
         /\ end(out) <= SIZEOF_FLAP_HEAD + Len(made) * w /\ Front6
         /\ \E at : Layout(out.data, made, open, size, at) /\ Read(at)

-----------------------------------------------------------------------------
\* Arithmetic.

LEMMA RoundedUp ==
  ASSUME NEW e \in Nat, NEW u \in Nat \ {0}
  PROVE  /\ (e \div u + 1) * u \in Nat
         /\ e < (e \div u + 1) * u
<1>1. e \div u \in Nat /\ e % u \in 0 .. u - 1 /\ e = u * (e \div u) + (e % u)
  BY Z3
<1>2. ASSUME NEW q \in Nat, NEW m \in 0 .. u - 1, e = u * q + m
      PROVE  (q + 1) * u \in Nat /\ e < (q + 1) * u
  <2>1. (q + 1) * u = u * q + u /\ u * q \in Nat
    OBVIOUS
  <2> QED
    BY <1>2, <2>1
<1> QED
  BY <1>1, <1>2

LEMMA LeastOfTwo ==
  ASSUME NEW a \in Int, NEW b \in Int
  PROVE  Min({a, b}) = IF a <= b THEN a ELSE b
<1>1. \E x \in {a, b} : \A y \in {a, b} : x <= y
  OBVIOUS
<1>2. Min({a, b}) \in {a, b} /\ \A y \in {a, b} : Min({a, b}) <= y
  BY <1>1 DEF Min
<1> QED
  BY <1>2

LEMMA HighByte ==
  ASSUME NEW q \in Int, NEW m \in Int, 0 <= m, m <= 255, 0 <= 256 * q + m, 256 * q + m <= 65535
  PROVE  0 <= q /\ q <= 255
<1>1. 0 <= q
  OBVIOUS
<1>2. q <= 255
  OBVIOUS
<1> QED
  BY <1>1, <1>2

LEMMA WordOfBytes ==
  ASSUME NEW n \in Int
  PROVE  /\ (n \div 256) % 256 \in Byte /\ n % 256 \in Byte
         /\ n \in Word => ((n \div 256) % 256) * 256 + (n % 256) = n
<1>1. \A k \in Int : k % 256 \in 0 .. 255 /\ k = 256 * (k \div 256) + (k % 256) /\ k \div 256 \in Int
  OBVIOUS
<1>2. ASSUME n \in Word
      PROVE  (n \div 256) % 256 = n \div 256
  <2>1. n \div 256 \in 0 .. 255
    <3>1. n \in 0 .. 65535 /\ n \in Int
      BY <1>2 DEF Word
    <3>2. \A q \in Int, m \in 0 .. 255 : 256 * q + m \in 0 .. 65535 => q \in 0 .. 255
      OBVIOUS
    <3> QED
      BY <1>1, <3>1, HighByte
  <2>2. \A k \in 0 .. 255 : k % 256 = k
    OBVIOUS
  <2> QED
    BY <2>1, <2>2
<1>3. ASSUME n \in Word
      PROVE  (n \div 256) * 256 + (n % 256) = n
  BY <1>1
<1> QED
  BY <1>1, <1>2, <1>3 DEF Byte

LEMMA Octets == (\A n \in Byte : n \in Octet) /\ \A n \in Octet : n \in Nat /\ n \in Int
  BY DEF Byte, Octet, Cipher

LEMMA OctetSeq ==
  ASSUME NEW s \in Seq(Byte)
  PROVE  s \in Seq(Octet)
<1>1. s \in [1 .. Len(s) -> Byte] /\ Len(s) \in Nat
  BY LenProperties
<1>2. s \in [1 .. Len(s) -> Octet]
  BY <1>1, Octets
<1> QED
  BY <1>1, <1>2

LEMMA TwoBytes ==
  ASSUME NEW n \in Int
  PROVE  /\ Word_2_Charsb(n) \in Seq(Octet) /\ Word_2_Chars(n) \in Seq(Octet)
         /\ Len(Word_2_Charsb(n)) = 2 /\ Len(Word_2_Chars(n)) = 2
<1>1. (n \div 256) % 256 \in Octet /\ n % 256 \in Octet
  BY WordOfBytes, Octets
<1> QED
  BY <1>1 DEF Word_2_Charsb, Word_2_Chars

-----------------------------------------------------------------------------
\* Sequences of bytes.

LEMMA Joined ==
  ASSUME NEW u \in Seq(Octet), NEW v \in Seq(Octet)
  PROVE  /\ u \o v \in Seq(Octet)
         /\ Len(u) \in Nat /\ Len(v) \in Nat
         /\ Len(u \o v) = Len(u) + Len(v)
         /\ \A i \in 1 .. Len(u) + Len(v) : (u \o v)[i] = IF i <= Len(u) THEN u[i] ELSE v[i - Len(u)]
<1>1. /\ u \o v \in Seq(Octet)
      /\ Len(u \o v) = Len(u) + Len(v)
      /\ \A i \in 1 .. Len(u) + Len(v) : (u \o v)[i] = IF i <= Len(u) THEN u[i] ELSE v[i - Len(u)]
  BY ConcatProperties, Zenon
<1>2. Len(u) \in Nat /\ Len(v) \in Nat
  BY LenProperties
<1> QED
  BY <1>1, <1>2

LEMMA JoinedTwice ==
  ASSUME NEW u \in Seq(Octet), NEW v \in Seq(Octet), NEW x \in Seq(Octet)
  PROVE  (u \o v) \o x = u \o (v \o x)
  BY ConcatAssociative

LEMMA FunctionIsSeq ==
  ASSUME NEW S, NEW n \in Nat, NEW f \in [1 .. n -> S]
  PROVE  f \in Seq(S) /\ Len(f) = n
<1>1. f \in Seq(S)
  OBVIOUS
<1> QED
  BY <1>1, LenProperties

LEMMA BytesAreNumbers == (\A n \in Byte : n \in Nat /\ n \in Int) /\ (\A n \in Word : n \in Nat /\ n \in Int)
  BY DEF Byte, Word

-----------------------------------------------------------------------------
\* The stream's operators.

LEMMA Reallocated ==
  ASSUME NEW b, Fits(b), NEW n \in Nat, NEW oom \in BOOLEAN
  PROVE  LET c == reallocBsDataIfNeeded(b, n, oom) IN
         /\ Fits(c) /\ c.data = b.data /\ c.fault = b.fault
         /\ c.full => c.invalid
         /\ ~c.full => c.invalid = b.invalid /\ end(b) + n <= c.len
         /\ b.invalid => c.invalid
         /\ b.ptr <= end(b) => c.ptr = b.ptr
         /\ ~c.held => c.invalid \/ c.len = b.len
         /\ ~c.held => ~b.held
         /\ ~oom => ~c.full
<1> DEFINE unit == IF b.len = 0 THEN BS_INIT_LEN ELSE b.len
           newLen == ((end(b) + n) \div unit + 1) * unit
           c == reallocBsDataIfNeeded(b, n, oom)
<1>1. /\ b \in Stream /\ end(b) \in Nat /\ end(b) <= b.len /\ unit \in Nat \ {0} /\ b.len \in Nat
      /\ b.ptr \in Nat /\ end(b) + n \in Nat /\ b.len <= unit
  BY InitLenAssumption, LenProperties DEF Fits, Stream, end
<1>2. newLen \in Nat /\ end(b) + n < newLen
  <2> HIDE DEF unit
  <2> QED
    BY <1>1, RoundedUp
<1>3. CASE end(b) + n <= b.len
  <2>1. c = [b EXCEPT !.full = FALSE]
    BY <1>3 DEF reallocBsDataIfNeeded
  <2> QED
    BY <2>1, <1>1, <1>3 DEF Fits, Stream, end
<1>4. CASE ~(end(b) + n <= b.len) /\ oom
  <2>1. c = [b EXCEPT !.len = unit, !.invalid = TRUE, !.full = TRUE]
    BY <1>4 DEF reallocBsDataIfNeeded
  <2>2. /\ c \in Stream /\ c.data = b.data /\ c.fault = b.fault /\ c.full /\ c.invalid
        /\ c.ptr = b.ptr /\ c.held = b.held /\ c.len = unit
    <3> HIDE DEF unit
    <3> QED
      BY <2>1, <1>1 DEF Stream
  <2> HIDE DEF unit, c
  <2>3. Fits(c)
    BY <2>2, <1>1 DEF Fits, end
  <2> QED
    BY <2>2, <2>3, <1>4 DEF c
<1>5. CASE ~(end(b) + n <= b.len) /\ ~oom
  <2>1. c = [b EXCEPT !.len = newLen, !.held = TRUE, !.full = FALSE, !.ptr = Min({@, newLen - 1})]
    BY <1>5 DEF reallocBsDataIfNeeded
  <2>2. Min({b.ptr, newLen - 1}) = IF b.ptr <= newLen - 1 THEN b.ptr ELSE newLen - 1
    <3> HIDE DEF newLen
    <3> QED
      BY LeastOfTwo, <1>1, <1>2
  <2>3. /\ c \in Stream /\ c.data = b.data /\ c.fault = b.fault /\ ~c.full /\ c.invalid = b.invalid
        /\ c.ptr = (IF b.ptr <= newLen - 1 THEN b.ptr ELSE newLen - 1) /\ c.held /\ c.len = newLen
    <3> DEFINE p == Min({b.ptr, newLen - 1})
    <3>1. p \in Nat /\ p = (IF b.ptr <= newLen - 1 THEN b.ptr ELSE newLen - 1)
      <4> HIDE DEF newLen
      <4> QED
        BY <2>2, <1>1, <1>2
    <3>2. c = [b EXCEPT !.len = newLen, !.held = TRUE, !.full = FALSE, !.ptr = p]
      BY <2>1
    <3> HIDE DEF unit, newLen, p, c
    <3>3. /\ c \in Stream /\ c.data = b.data /\ c.fault = b.fault /\ ~c.full /\ c.invalid = b.invalid
          /\ c.ptr = p /\ c.held /\ c.len = newLen
      BY <3>1, <3>2, <1>1, <1>2 DEF Stream
    <3> QED
      BY <3>1, <3>3
  <2> HIDE DEF unit, newLen, c
  <2>4. Fits(c)
    BY <2>3, <1>1, <1>2 DEF Fits, end
  <2>5. b.ptr <= end(b) => c.ptr = b.ptr
    BY <2>3, <1>1, <1>2
  <2> QED
    BY <2>3, <2>4, <2>5, <1>1, <1>2, <1>5 DEF c
<1> QED
  BY <1>3, <1>4, <1>5

\* What appending s to b leaves: no hole but behind the flag.
Grown(b, c, s) ==
    /\ Writable(c)
    /\ b.invalid => c.invalid
    /\ ~c.invalid => ~b.invalid /\ ~c.full /\ c.data = b.data \o s

LEMMA AppendsBytes ==
  ASSUME NEW b, Writable(b), ~b.fault, NEW s \in Seq(Octet), NEW oom \in BOOLEAN
  PROVE  Grown(b, bsAppend(b, s, oom), s)
<1> DEFINE c == reallocBsDataIfNeeded(b, Len(s), oom)
           d == bsAppend(b, s, oom)
<1>1. Fits(b) /\ b \in Stream /\ Len(s) \in Nat /\ Len(b.data) \in Nat
  BY LenProperties DEF Writable, Fits, Stream
<1>2. /\ Fits(c) /\ c.data = b.data /\ c.fault = b.fault
      /\ c.full => c.invalid
      /\ ~c.full => c.invalid = b.invalid /\ end(b) + Len(s) <= c.len
      /\ b.invalid => c.invalid
      /\ ~c.held => c.invalid \/ c.len = b.len
      /\ ~c.held => ~b.held
  BY <1>1, Reallocated
<1>3. d = IF c.full THEN c ELSE IF ~c.held /\ s # <<>> THEN [c EXCEPT !.fault = TRUE]
          ELSE [c EXCEPT !.data = @ \o s]
  BY DEF bsAppend
<1> HIDE DEF c, d
<1>4. Writable(c) /\ c \in Stream /\ c.len \in Nat
  BY <1>1, <1>2 DEF Writable, Fits, Stream
<1>5. CASE c.full
  BY <1>5, <1>2, <1>3, <1>4 DEF Grown, d
<1>6. CASE ~c.full /\ ~c.held /\ s # <<>>
  <2>1. c.invalid
    <3>1. Len(s) > 0 /\ end(b) = 0 /\ c.len > 0
      BY <1>1, <1>2, <1>6, <1>4, EmptySeq DEF Writable, end
    <3> QED
      BY <3>1, <1>2, <1>6, <1>4 DEF Writable
  <2>2. d = [c EXCEPT !.fault = TRUE]
    BY <1>3, <1>6
  <2>3. d \in Stream /\ d.data = c.data /\ d.len = c.len /\ d.held = c.held /\ d.invalid = c.invalid
    BY <2>2, <1>4 DEF Stream
  <2> QED
    BY <2>1, <2>3, <1>2, <1>4, <1>6 DEF Grown, Writable, Fits, end, d
<1>7. CASE ~c.full /\ ~(~c.held /\ s # <<>>)
  <2>1. d = [c EXCEPT !.data = @ \o s]
    BY <1>3, <1>7
  <2>2. c.data \o s \in Seq(Octet) /\ Len(c.data \o s) = Len(b.data) + Len(s)
    BY <1>1, <1>2, <1>4, Joined DEF Stream
  <2>3. /\ d \in Stream /\ d.data = c.data \o s /\ d.len = c.len /\ d.held = c.held
        /\ d.invalid = c.invalid /\ d.fault = c.fault /\ d.full = c.full
    BY <2>1, <2>2, <1>4 DEF Stream
  <2>4. Fits(d)
    BY <2>2, <2>3, <1>2, <1>7 DEF Fits, end
  <2>5. ~d.held => d.data = <<>>
    <3>1. ~d.held => s = <<>> /\ c.data = <<>>
      BY <2>3, <1>4, <1>7 DEF Writable
    <3>2. <<>> \o <<>> = <<>>
      BY ConcatEmptySeq
    <3> QED
      BY <3>1, <3>2, <2>3
  <2> QED
    BY <2>3, <2>4, <2>5, <1>2, <1>4, <1>7 DEF Grown, Writable, d
<1> QED
  BY <1>5, <1>6, <1>7

LEMMA Chained ==
  ASSUME NEW b, Writable(b), NEW s \in Seq(Octet), NEW t \in Seq(Octet),
         NEW c, Grown(b, c, s), NEW d, Grown(c, d, t)
  PROVE  Grown(b, d, s \o t)
<1>1. b.data \in Seq(Octet)
  BY DEF Writable, Fits, Stream
<1>2. (b.data \o s) \o t = b.data \o (s \o t)
  BY <1>1, JoinedTwice
<1> QED
  BY <1>2 DEF Grown

LEMMA AppendsString ==
  ASSUME NEW b, Writable(b), ~b.fault, NEW s \in Seq(Octet), NEW t \in Seq(Octet), NEW oom \in BOOLEAN
  PROVE  Grown(b, bsAppendString(b, s, t, oom), s \o t)
<1> DEFINE c == bsAppend(b, s, oom)
<1>1. Grown(b, c, s)
  BY AppendsBytes
<1>2. bsAppendString(b, s, t, oom) = IF c.fault THEN c ELSE bsAppend(c, t, oom)
  BY DEF bsAppendString
<1> HIDE DEF c
<1>3. CASE c.fault
  BY <1>1, <1>2, <1>3 DEF Grown, Writable
<1>4. CASE ~c.fault
  <2>1. Grown(c, bsAppend(c, t, oom), t)
    BY <1>1, <1>4, AppendsBytes DEF Grown
  <2> QED
    BY <2>1, <1>1, <1>2, <1>4, Chained
<1> QED
  BY <1>3, <1>4

LEMMA AppendsTlv ==
  ASSUME NEW b, Writable(b), ~b.fault, ~b.invalid => end(b) > 0, NEW oom \in BOOLEAN,
         NEW type \in Int, NEW n \in Int, NEW value \in Seq(Octet)
  PROVE  Grown(b, bsAppendTlv(b, type, n, value, oom), (Word_2_Charsb(type) \o Word_2_Charsb(n)) \o value)
<1> DEFINE s == Word_2_Charsb(type) \o Word_2_Charsb(n)
           c == bsAppend(b, s, oom)
<1>1. s \in Seq(Octet) /\ Len(s) = 4
  <2>1. ASSUME NEW u \in Seq(Octet), NEW v \in Seq(Octet), Len(u) = 2, Len(v) = 2
        PROVE  u \o v \in Seq(Octet) /\ Len(u \o v) = 4
    <3>1. u \o v \in Seq(Octet) /\ Len(u \o v) = Len(u) + Len(v)
      BY Joined, Zenon
    <3> QED
      BY <3>1, <2>1
  <2> QED
    BY <2>1, TwoBytes
<1>2. Grown(b, c, s)
  <2> HIDE DEF s
  <2> QED
    BY <1>1, AppendsBytes
<1>3. bsAppendTlv(b, type, n, value, oom) =
        IF value # <<>> /\ Appended(c, SIZEOF_TLV_HEAD) > 0 /\ ~c.fault THEN bsAppend(c, value, oom) ELSE c
  BY DEF bsAppendTlv
<1> HIDE DEF s, c
<1>4. CASE value # <<>> /\ Appended(c, SIZEOF_TLV_HEAD) > 0 /\ ~c.fault
  <2>1. Grown(c, bsAppend(c, value, oom), value)
    BY <1>2, <1>4, AppendsBytes DEF Grown
  <2> QED
    BY <2>1, <1>1, <1>2, <1>3, <1>4, Chained DEF s
<1>5. CASE ~(value # <<>> /\ Appended(c, SIZEOF_TLV_HEAD) > 0 /\ ~c.fault)
  <2>1. CASE c.invalid
    BY <2>1, <1>2, <1>3, <1>5 DEF Grown
  <2>2. CASE ~c.invalid
    <3>1. ~c.full /\ ~c.fault /\ c.data = b.data \o s /\ ~b.invalid
      BY <2>2, <1>2 DEF Grown, Writable
    <3>2. Len(c.data) = Len(b.data) + 4 /\ Len(b.data) \in Nat /\ Len(b.data) > 0
      <4>1. b.data \in Seq(Octet)
        BY DEF Writable, Fits, Stream
      <4>2. Len(b.data \o s) = Len(b.data) + 4 /\ Len(b.data) \in Nat
        BY <4>1, <1>1, Joined
      <4> QED
        BY <4>2, <3>1 DEF end
    <3>3. Appended(c, SIZEOF_TLV_HEAD) > 0
      BY <3>1, <3>2 DEF Appended, SIZEOF_TLV_HEAD, end
    <3>4. value = <<>> /\ s \o value = s
      BY <3>1, <3>3, <1>1, <1>5, ConcatEmptySeq
    <3> QED
      BY <3>4, <1>2, <1>3, <1>5 DEF s
  <2> QED
    BY <2>1, <2>2
<1> QED
  BY <1>4, <1>5

-----------------------------------------------------------------------------
\* The items.

LEMMA FieldKinds ==
  ASSUME NEW f \in FieldSet
  PROVE  /\ f.type \in Word
         /\ \/ f.kind = "byte" /\ f.value \in Byte
            \/ f.kind \in {"word", "wordLE"} /\ f.value \in Word
            \/ f.kind \in {"dword", "dwordLE"} /\ f.value \in [1 .. 4 -> Byte]
            \/ f.kind \in {"tlv", "string08", "string16"} /\ f.value \in Seq(Octet)
<1>1. /\ f.type \in Word
      /\ \/ f.kind = "byte" /\ f.value \in Byte
         \/ f.kind \in {"word", "wordLE"} /\ f.value \in Word
         \/ f.kind \in {"dword", "dwordLE"} /\ f.value \in [1 .. 4 -> Byte]
         \/ f.kind \in {"tlv", "string08", "string16"} /\ f.value \in Seq(Byte)
  BY DEF FieldSet, Kinds
<1> QED
  BY <1>1, OctetSeq

LEMMA FourBytes ==
  ASSUME NEW d \in [1 .. 4 -> Byte]
  PROVE  d \in Seq(Octet) /\ Len(d) = 4 /\ Reverse(d) \in Seq(Octet) /\ Len(Reverse(d)) = 4
<1>0. d \in [1 .. 4 -> Octet]
  BY Octets
<1>1. d \in Seq(Octet) /\ Len(d) = 4
  BY <1>0, FunctionIsSeq
<1>2. Reverse(d) = [i \in 1 .. 4 |-> d[(4 - i) + 1]]
  BY <1>1 DEF Reverse
<1>3. Reverse(d) \in [1 .. 4 -> Octet]
  BY <1>0, <1>2
<1>4. Reverse(d) \in Seq(Octet) /\ Len(Reverse(d)) = 4
  BY <1>3, FunctionIsSeq
<1> QED
  BY <1>1, <1>4

LEMMA OneByte ==
  ASSUME NEW n \in Byte
  PROVE  <<n>> \in Seq(Octet) /\ Len(<<n>>) = 1
<1>1. n \in Octet
  BY Octets
<1> QED
  BY <1>1

LEMMA FieldCode ==
  ASSUME NEW f \in FieldSet
  PROVE  /\ Code(f) \in Seq(Octet) /\ Len(Code(f)) = FieldSize(f)
         /\ FieldSize(f) \in Nat /\ Taken(f) = FieldSize(f) /\ f.kind # "tlvhead"
<1>1. f.kind # "tlvhead"
  BY FieldKinds
<1>2. Taken(f) = FieldSize(f)
  BY <1>1 DEF Taken
<1>3. CASE f.kind = "byte"
  <2>1. Code(f) = <<f.value>> /\ FieldSize(f) = 1
    BY <1>3 DEF Code, FieldSize
  <2>2. f.value \in Byte
    BY <1>3, FieldKinds
  <2> QED
    BY <2>1, <2>2, <1>1, <1>2, OneByte
<1>4. CASE f.kind \in {"word", "wordLE"}
  <2>1. f.value \in Int /\ FieldSize(f) = 2
    <3>1. f.value \in Word
      BY <1>4, FieldKinds
    <3> QED
      BY <3>1, <1>4, BytesAreNumbers DEF FieldSize
  <2>2. Code(f) \in {Word_2_Charsb(f.value), Word_2_Chars(f.value)}
    BY <1>4 DEF Code
  <2> QED
    BY <2>1, <2>2, <1>1, <1>2, TwoBytes
<1>5. CASE f.kind \in {"dword", "dwordLE"}
  <2>1. f.value \in [1 .. 4 -> Byte] /\ FieldSize(f) = 4
    BY <1>5, FieldKinds DEF FieldSize
  <2>2. Code(f) \in {f.value, Reverse(f.value)}
    BY <1>5 DEF Code, DW_2_Chars, DW_2_Charsb
  <2> QED
    BY <2>1, <2>2, <1>1, <1>2, FourBytes
<1>6. CASE f.kind = "tlv"
  <2>1. f.value \in Seq(Octet) /\ FieldSize(f) = 4 + Len(f.value) /\ f.type \in Int /\ Len(f.value) \in Nat
    <3>1. f.value \in Seq(Octet) /\ f.type \in Word
      BY <1>6, FieldKinds
    <3>2. FieldSize(f) = 4 + Len(f.value)
      BY <1>6 DEF FieldSize
    <3>3. Len(f.value) \in Nat
      BY <3>1, LenProperties
    <3>4. f.type \in Int
      BY <3>1, BytesAreNumbers
    <3> QED
      BY <3>1, <3>2, <3>3, <3>4
  <2> DEFINE s == Word_2_Charsb(f.type)
             t == Word_2_Charsb(Len(f.value))
  <2>2. Code(f) = (s \o t) \o f.value
    BY <1>6 DEF Code
  <2>3. s \in Seq(Octet) /\ Len(s) = 2 /\ t \in Seq(Octet) /\ Len(t) = 2
    BY <2>1, TwoBytes
  <2> HIDE DEF s, t
  <2>4. s \o t \in Seq(Octet) /\ Len(s \o t) = Len(s) + Len(t)
    BY <2>3, Joined, Zenon
  <2>5. Code(f) \in Seq(Octet) /\ Len(Code(f)) = Len(s \o t) + Len(f.value)
    BY <2>1, <2>2, <2>4, Joined, Zenon
  <2> QED
    BY <2>1, <2>3, <2>4, <2>5, <1>1, <1>2
<1>7. CASE f.kind = "string08"
  <2>1. f.value \in Seq(Octet) /\ FieldSize(f) = 1 + Len(f.value) /\ Len(f.value) \in Nat
    BY <1>7, FieldKinds, LenProperties DEF FieldSize
  <2> DEFINE s == <<Len(f.value) % 256>>
  <2>2. Code(f) = s \o f.value
    BY <1>7 DEF Code
  <2>3. s \in Seq(Octet) /\ Len(s) = 1
    <3>1. \A n \in Nat : n % 256 \in Byte
      BY DEF Byte
    <3>2. Len(f.value) % 256 \in Byte
      BY <2>1, <3>1
    <3> QED
      BY <3>2, OneByte
  <2> HIDE DEF s
  <2>4. Code(f) \in Seq(Octet) /\ Len(Code(f)) = Len(s) + Len(f.value)
    BY <2>1, <2>2, <2>3, Joined, Zenon
  <2> QED
    BY <2>1, <2>3, <2>4, <1>1, <1>2
<1>8. CASE f.kind = "string16"
  <2>1. f.value \in Seq(Octet) /\ FieldSize(f) = 2 + Len(f.value) /\ Len(f.value) \in Nat
    BY <1>8, FieldKinds, LenProperties DEF FieldSize
  <2> DEFINE s == Word_2_Charsb(Len(f.value))
  <2>2. Code(f) = s \o f.value
    BY <1>8 DEF Code
  <2>3. s \in Seq(Octet) /\ Len(s) = 2
    BY <2>1, TwoBytes
  <2> HIDE DEF s
  <2>4. Code(f) \in Seq(Octet) /\ Len(Code(f)) = Len(s) + Len(f.value)
    BY <2>1, <2>2, <2>3, Joined, Zenon
  <2> QED
    BY <2>1, <2>3, <2>4, <1>1, <1>2
<1> QED
  BY FieldKinds, <1>3, <1>4, <1>5, <1>6, <1>7, <1>8

LEMMA HeadCode ==
  ASSUME NEW m \in Head5
  PROVE  /\ Code(m) = Word_2_Charsb(5) \o Word_2_Charsb(m.value)
         /\ Code(m) \in Seq(Octet) /\ Len(Code(m)) = 4
         /\ m.kind = "tlvhead" /\ m.type = 5 /\ m.value \in Nat /\ Taken(m) = 4
<1>1. m.kind = "tlvhead" /\ m.type = 5 /\ m.value \in Nat
  BY DEF Head5
<1>2. Code(m) = Word_2_Charsb(5) \o Word_2_Charsb(m.value) /\ Taken(m) = 4
  BY <1>1 DEF Code, Taken, SIZEOF_TLV_HEAD
<1> DEFINE s == Word_2_Charsb(5)
           t == Word_2_Charsb(m.value)
<1>3. s \in Seq(Octet) /\ t \in Seq(Octet) /\ Len(s) = 2 /\ Len(t) = 2
  BY <1>1, TwoBytes
<1> HIDE DEF s, t
<1>4. s \o t \in Seq(Octet) /\ Len(s \o t) = Len(s) + Len(t)
  BY <1>3, Joined, Zenon
<1> QED
  BY <1>1, <1>2, <1>3, <1>4 DEF s, t

LEMMA ItemCode ==
  ASSUME NEW m \in Items
  PROVE  Code(m) \in Seq(Octet) /\ Len(Code(m)) = Taken(m) /\ Taken(m) \in Nat
<1>1. CASE m \in FieldSet
  BY <1>1, FieldCode
<1>2. CASE m \in Head5
  <2>1. Code(m) \in Seq(Octet) /\ Len(Code(m)) = 4 /\ Taken(m) = 4
    BY <1>2, HeadCode, Zenon
  <2> QED
    BY <2>1
<1> QED
  BY <1>1, <1>2 DEF Items

LEMMA AppendsField ==
  ASSUME NEW b, Writable(b), ~b.fault, ~b.invalid => end(b) > 0, NEW f \in FieldSet, NEW oom \in BOOLEAN
  PROVE  Grown(b, bsAppendField(b, f, oom), Code(f))
<1>1. CASE f.kind \in {"byte", "word", "wordLE", "dword", "dwordLE"}
  <2>1. bsAppendField(b, f, oom) = bsAppend(b, Code(f), oom)
    BY <1>1 DEF bsAppendField, Code
  <2> QED
    BY <2>1, AppendsBytes, FieldCode
<1>2. CASE f.kind = "tlv"
  <2>1. f.value \in Seq(Octet) /\ f.type \in Int /\ Len(f.value) \in Int
    <3>1. f.value \in Seq(Octet) /\ f.type \in Word
      BY <1>2, FieldKinds
    <3>2. Len(f.value) \in Nat
      BY <3>1, LenProperties
    <3> QED
      BY <3>1, <3>2, BytesAreNumbers
  <2>2. /\ bsAppendField(b, f, oom) = bsAppendTlv(b, f.type, Len(f.value), f.value, oom)
        /\ Code(f) = (Word_2_Charsb(f.type) \o Word_2_Charsb(Len(f.value))) \o f.value
    BY <1>2 DEF bsAppendField, Code
  <2> QED
    BY <2>1, <2>2, AppendsTlv
<1>3. CASE f.kind = "string08"
  <2>1. f.value \in Seq(Octet) /\ Len(f.value) \in Nat
    BY <1>3, FieldKinds, LenProperties
  <2>2. <<Len(f.value) % 256>> \in Seq(Octet)
    <3>1. \A n \in Nat : n % 256 \in Byte
      BY DEF Byte
    <3>2. Len(f.value) % 256 \in Byte
      BY <2>1, <3>1
    <3> QED
      BY <3>2, OneByte
  <2>3. /\ bsAppendField(b, f, oom) = bsAppendString(b, <<Len(f.value) % 256>>, f.value, oom)
        /\ Code(f) = <<Len(f.value) % 256>> \o f.value
    BY <1>3 DEF bsAppendField, Code
  <2> DEFINE s == <<Len(f.value) % 256>>
  <2>4. s \in Seq(Octet) /\ bsAppendField(b, f, oom) = bsAppendString(b, s, f.value, oom) /\ Code(f) = s \o f.value
    BY <2>2, <2>3
  <2> HIDE DEF s
  <2> QED
    BY <2>1, <2>4, AppendsString
<1>4. CASE f.kind = "string16"
  <2>1. f.value \in Seq(Octet) /\ Len(f.value) \in Nat
    BY <1>4, FieldKinds, LenProperties
  <2>2. Word_2_Charsb(Len(f.value)) \in Seq(Octet)
    BY <2>1, TwoBytes
  <2>3. /\ bsAppendField(b, f, oom) = bsAppendString(b, Word_2_Charsb(Len(f.value)), f.value, oom)
        /\ Code(f) = Word_2_Charsb(Len(f.value)) \o f.value
    BY <1>4 DEF bsAppendField, Code
  <2> QED
    BY <2>1, <2>2, <2>3, AppendsString
<1> QED
  BY FieldKinds, <1>1, <1>2, <1>3, <1>4

LEMMA Updated ==
  ASSUME NEW b, Writable(b), ~b.fault, NEW pos \in Int, NEW n \in Int,
         NEW c, c = bsUpdateWord(b, pos, n)
  PROVE  /\ Writable(c) /\ c.invalid = b.invalid /\ c.fault = b.fault /\ end(c) = end(b)
         /\ 0 <= pos /\ pos + 2 <= end(b) =>
              /\ Stands(c.data, pos, Word_2_Charsb(n))
              /\ \A i \in 1 .. end(b) : i <= pos \/ pos + 2 < i => c.data[i] = b.data[i]
<1> DEFINE s == Word_2_Charsb(n)
           d == [i \in 1 .. end(b) |-> IF i \in pos + 1 .. pos + Len(s) THEN s[i - pos] ELSE b.data[i]]
<1>1. s \in Seq(Octet) /\ Len(s) = 2
  BY TwoBytes
<1>2. b \in Stream /\ end(b) \in Nat /\ b.data \in Seq(Octet)
  BY LenProperties DEF Writable, Fits, Stream, end
<1>3. c = IF pos + Len(s) > end(b) THEN b ELSE [b EXCEPT !.data = d]
  BY DEF bsUpdateWord, bsUpdate
<1> HIDE DEF s
<1>4. CASE pos + 2 > end(b)
  <2>1. c = b
    BY <1>1, <1>3, <1>4
  <2> QED
    BY <2>1, <1>2, <1>4
<1>5. CASE ~(pos + 2 > end(b))
  <2>1. c = [b EXCEPT !.data = d]
    BY <1>1, <1>3, <1>5
  <2>2. d \in [1 .. end(b) -> Octet]
    <3>1. ASSUME NEW i \in 1 .. end(b)
          PROVE  (IF i \in pos + 1 .. pos + Len(s) THEN s[i - pos] ELSE b.data[i]) \in Octet
      <4>1. i \in pos + 1 .. pos + Len(s) => i - pos \in 1 .. Len(s)
        BY <1>1
      <4>2. b.data[i] \in Octet
        BY <1>2, ElementOfSeq DEF end
      <4> QED
        BY <1>1, <4>1, <4>2, ElementOfSeq
    <3> QED
      BY <3>1
  <2>3. d \in Seq(Octet) /\ Len(d) = end(b)
    <3> HIDE DEF d
    <3> QED
      BY <1>2, <2>2, FunctionIsSeq
  <2>4. \A i \in 1 .. end(b) : d[i] = IF i \in pos + 1 .. pos + 2 THEN s[i - pos] ELSE b.data[i]
    BY <1>1
  <2> HIDE DEF d
  <2>5. /\ c \in Stream /\ c.data = d /\ c.len = b.len /\ c.held = b.held /\ c.invalid = b.invalid
        /\ c.fault = b.fault
    BY <1>2, <2>1, <2>3 DEF Stream
  <2>6. ~b.held => d = <<>>
    BY <2>3, EmptySeq DEF Writable, end
  <2>7. Writable(c) /\ end(c) = end(b)
    BY <2>3, <2>5, <2>6 DEF Writable, Fits, end
  <2>8. ASSUME 0 <= pos
        PROVE  /\ Stands(c.data, pos, s)
               /\ \A i \in 1 .. end(b) : i <= pos \/ pos + 2 < i => c.data[i] = b.data[i]
    <3>1. \A j \in 1 .. 2 : pos + j \in 1 .. end(b) /\ pos + j \in pos + 1 .. pos + 2 /\ (pos + j) - pos = j
      BY <1>2, <1>5, <2>8
    <3>2. \A j \in 1 .. 2 : d[pos + j] = s[j]
      BY <3>1, <2>4
    <3>3. \A i \in 1 .. end(b) : i <= pos \/ pos + 2 < i => d[i] = b.data[i]
      BY <1>2, <2>4
    <3> QED
      BY <3>2, <3>3, <1>1, <1>2, <1>5, <2>3, <2>5 DEF Stands
  <2> QED
    BY <2>5, <2>7, <2>8 DEF s
<1> QED
  BY <1>4, <1>5

-----------------------------------------------------------------------------
\* Where items end.

LEMMA Least ==
  ASSUME NEW T, T \subseteq Nat, T # {}
  PROVE  \E n \in T : \A m \in T : n <= m
<1> DEFINE R == {ss \in Nat \X Nat : ss[1] < ss[2]}
<1>1. IsWellFoundedOn(R, Nat)
  BY NatLessThanWellFounded DEF OpToRel
<1>2. PICK n \in T : \A m \in T : ~(<<m, n>> \in R)
  <2> HIDE DEF R
  <2> QED
    BY <1>1, WFMin
<1>3. ASSUME NEW m \in T, m < n
      PROVE  FALSE
  <2> DEFINE p == <<m, n>>
  <2>1. p \in Nat \X Nat /\ p[1] < p[2]
    BY <1>3
  <2>2. p \in R
    BY <2>1
  <2> QED
    BY <2>2, <1>2
<1> QED
  BY <1>3

LEMMA EndsOnce ==
  ASSUME NEW items \in Seq(Items), NEW e, NEW at, Ends(items, e, at),
         NEW total,
         total = [n \in 0 .. Len(items) |-> IF n = 0 THEN 0 ELSE total[n - 1] + Taken(items[n])]
  PROVE  e = SIZEOF_FLAP_HEAD + total[Len(items)]
<1>0. Len(items) \in Nat
  BY LenProperties
<1> DEFINE T == {n \in 0 .. Len(items) : at[n] # 6 + total[n]}
<1>1. ASSUME T # {}
      PROVE  FALSE
  <2>1. T \subseteq Nat
    OBVIOUS
  <2>2. PICK n \in T : \A m \in T : n <= m
    <3> HIDE DEF T
    <3> QED
      BY <1>1, <2>1, Least
  <2>3. n \in 0 .. Len(items) /\ at[n] # 6 + total[n]
    BY <2>2
  <2>4. CASE n = 0
    <3>1. total[0] = 0 /\ at[0] = 6
      BY <1>0 DEF Ends, SIZEOF_FLAP_HEAD
    <3> QED
      BY <3>1, <2>3, <2>4
  <2>5. CASE n # 0
    <3>1. n - 1 \in 0 .. Len(items) /\ n \in 1 .. Len(items) /\ ~(n <= n - 1)
      BY <1>0, <2>3, <2>5
    <3>2. n - 1 \notin T
      BY <2>2, <3>1
    <3>3. at[n - 1] = 6 + total[n - 1]
      BY <3>1, <3>2
    <3>4. total[n] = total[n - 1] + Taken(items[n])
      BY <2>3, <2>5
    <3>5. at[n] = at[n - 1] + Taken(items[n]) /\ at[n - 1] \in Nat
      BY <3>1 DEF Ends
    <3>6. Taken(items[n]) \in Nat
      BY <3>1, ItemCode, ElementOfSeq
    <3>7. \A a, b, c \in Int : a = 6 + b => a + c = 6 + (b + c)
      OBVIOUS
    <3>8. total[n - 1] \in Int
      <4>1. \A x \in Nat, y \in Int : x = 6 + y => y = x - 6
        OBVIOUS
      <4> QED
        BY <3>3, <3>5
    <3> QED
      BY <2>3, <3>3, <3>4, <3>5, <3>6, <3>7, <3>8
  <2> QED
    BY <2>4, <2>5
<1>2. at[Len(items)] = 6 + total[Len(items)]
  <2>1. Len(items) \in 0 .. Len(items)
    BY <1>0
  <2>2. Len(items) \notin T
    BY <1>1
  <2> QED
    BY <2>1, <2>2
<1> QED
  BY <1>2 DEF Ends, SIZEOF_FLAP_HEAD

LEMMA TotalExists ==
  ASSUME NEW items \in Seq(Items), NEW e, NEW at, Ends(items, e, at)
  PROVE  LET total[n \in 0 .. Len(items)] == IF n = 0 THEN 0 ELSE total[n - 1] + Taken(items[n])
         IN e = SIZEOF_FLAP_HEAD + total[Len(items)]
<1>0. Len(items) \in Nat
  BY LenProperties
<1> DEFINE Good(f) == f = [n \in 0 .. Len(items) |-> IF n = 0 THEN 0 ELSE f[n - 1] + Taken(items[n])]
           g == [n \in 0 .. Len(items) |-> at[n] - 6]
           total == CHOOSE f : Good(f)
<1>1. Good(g)
  <2>1. ASSUME NEW n \in 0 .. Len(items)
        PROVE  g[n] = IF n = 0 THEN 0 ELSE g[n - 1] + Taken(items[n])
    <3>1. CASE n = 0
      BY <1>0, <3>1 DEF Ends, SIZEOF_FLAP_HEAD
    <3>2. CASE n # 0
      <4>1. n \in 1 .. Len(items) /\ n - 1 \in 0 .. Len(items)
        BY <1>0, <3>2
      <4>2. at[n] = at[n - 1] + Taken(items[n]) /\ at[n - 1] \in Nat /\ at[n] \in Nat
        BY <4>1 DEF Ends
      <4>3. Taken(items[n]) \in Nat
        BY <4>1, ItemCode, ElementOfSeq
      <4>4. g[n] = at[n] - 6 /\ g[n - 1] = at[n - 1] - 6
        BY <4>1
      <4> HIDE DEF g
      <4> QED
        BY <3>2, <4>2, <4>3, <4>4
    <3> QED
      BY <3>1, <3>2
  <2>2. g = [n \in 0 .. Len(items) |-> g[n]]
    OBVIOUS
  <2> HIDE DEF g
  <2> QED
    BY <2>1, <2>2
<1>2. Good(total)
  <2> HIDE DEF Good, g
  <2> QED
    BY <1>1
<1>3. e = SIZEOF_FLAP_HEAD + total[Len(items)]
  <2>1. total = [n \in 0 .. Len(items) |-> IF n = 0 THEN 0 ELSE total[n - 1] + Taken(items[n])]
    BY <1>2
  <2> HIDE DEF total
  <2> QED
    BY <2>1, EndsOnce
<1> QED
  BY <1>3

LEMMA Extended ==
  ASSUME NEW items \in Seq(Items), NEW m \in Items, NEW e \in Nat, NEW at, Ends(items, e, at),
         NEW to, to = [i \in 0 .. Len(items) + 1 |-> IF i <= Len(items) THEN at[i] ELSE e + Taken(m)]
  PROVE  Ends(Append(items, m), e + Taken(m), to)
<1> DEFINE n == Len(items)
           more == Append(items, m)
<1>1. /\ n \in Nat /\ Len(more) = n + 1 /\ more[n + 1] = m
      /\ \A i \in 1 .. n : more[i] = items[i]
  BY AppendProperties, LenProperties
<1>2. Taken(m) \in Nat /\ e + Taken(m) \in Nat
  BY ItemCode
<1>3. /\ at \in [0 .. n -> Nat] /\ at[0] = SIZEOF_FLAP_HEAD /\ at[n] = e
      /\ \A i \in 1 .. n : at[i] = at[i - 1] + Taken(items[i])
  BY DEF Ends
<1> HIDE DEF more, n
<1>4. \A i \in 0 .. n : to[i] = at[i] /\ i <= n
  BY <1>1 DEF n
<1>5. to[n + 1] = e + Taken(m)
  BY <1>1 DEF n
<1>6. to \in [0 .. n + 1 -> Nat]
  BY <1>1, <1>2, <1>3 DEF n
<1>7. ASSUME NEW i \in 1 .. n + 1
      PROVE  to[i] = to[i - 1] + Taken(more[i])
  <2>1. CASE i = n + 1
    <3>0. i - 1 = n /\ n \in 0 .. n
      BY <2>1, <1>1
    <3>1. to[i - 1] = e
      BY <3>0, <1>3, <1>4
    <3> QED
      BY <3>1, <2>1, <1>1, <1>5
  <2>2. CASE i # n + 1
    <3>1. i \in 1 .. n /\ i \in 0 .. n /\ i - 1 \in 0 .. n
      BY <2>2, <1>1
    <3> QED
      BY <3>1, <1>1, <1>3, <1>4
  <2> QED
    BY <2>1, <2>2
<1>8. to[0] = SIZEOF_FLAP_HEAD
  BY <1>1, <1>3, <1>4
<1> QED
  BY <1>1, <1>5, <1>6, <1>7, <1>8 DEF Ends, more

LEMMA HeadBytesTyped ==
  ASSUME NEW len \in Int
  PROVE  HeadBytes(len) \in Seq(Octet) /\ Len(HeadBytes(len)) = 6
<1> DEFINE a == <<42, 2>>
           b == Word_2_Charsb(Seq0)
           c == Word_2_Charsb(len)
<1>1. a \in Seq(Octet) /\ Len(a) = 2
  BY DEF Octet, Cipher
<1>2. b \in Seq(Octet) /\ Len(b) = 2 /\ c \in Seq(Octet) /\ Len(c) = 2
  BY TwoBytes DEF Seq0
<1>3. HeadBytes(len) = (a \o b) \o c
  BY DEF HeadBytes
<1> HIDE DEF a, b, c
<1>4. a \o b \in Seq(Octet) /\ Len(a \o b) = Len(a) + Len(b)
  BY <1>1, <1>2, Joined, Zenon
<1>5. (a \o b) \o c \in Seq(Octet) /\ Len((a \o b) \o c) = Len(a \o b) + Len(c)
  BY <1>2, <1>4, Joined, Zenon
<1> QED
  BY <1>1, <1>2, <1>3, <1>4, <1>5

LEMMA EmptyStream == Writable(initBs) /\ initBs.data = <<>> /\ ~initBs.fault /\ ~initBs.invalid
<1>1. <<>> \in Seq(Octet) /\ Len(<<>>) = 0
  BY EmptySeq
<1>2. initBs \in Stream /\ initBs.data = <<>> /\ initBs.len = 0 /\ ~initBs.fault /\ ~initBs.invalid
  BY <1>1 DEF initBs, Stream
<1> QED
  BY <1>1, <1>2 DEF Writable, Fits, end

LEMMA StartsWithHead ==
  ASSUME NEW oom \in BOOLEAN
  PROVE  Grown(initBs, bsAppendFlapHead(initBs, 2, Seq0, 0, oom), HeadBytes(0))
<1>1. bsAppendFlapHead(initBs, 2, Seq0, 0, oom) = bsAppend(initBs, HeadBytes(0), oom)
  BY DEF bsAppendFlapHead, HeadBytes
<1> QED
  BY <1>1, HeadBytesTyped, EmptyStream, AppendsBytes

LEMMA InitialStream ==
  ASSUME Init
  PROVE  /\ Grown(initBs, out, HeadBytes(0))
         /\ ~out.invalid => out.data = HeadBytes(0)
<1>1. Grown(initBs, out, HeadBytes(0))
  <2>1. \E oom \in BOOLEAN : out = bsAppendFlapHead(initBs, 2, Seq0, 0, oom)
    BY DEF Init
  <2> QED
    BY <2>1, StartsWithHead
<1>2. <<>> \o HeadBytes(0) = HeadBytes(0)
  BY HeadBytesTyped, ConcatEmptySeq
<1> QED
  BY <1>1, <1>2, EmptyStream DEF Grown

LEMMA SenderInit == Init => Sender
<1> SUFFICES ASSUME Init
             PROVE  Sender
  OBVIOUS
<1>1. Writable(out) /\ (~out.invalid => end(out) = 6)
  BY InitialStream, HeadBytesTyped DEF Grown, end
<1>2. made = <<>> /\ made \in Seq(Items) /\ Len(made) = 0 /\ phase = "build" /\ open = None /\ size = 0
  BY EmptySeq DEF Init
<1>3. Typed
  BY <1>1, <1>2, FieldsAssumption DEF Typed, None
<1>4. Laid
  <2> DEFINE at == [i \in 0 .. 0 |-> 6]
  <2>1. ~out.invalid => Ends(made, end(out), at)
    BY <1>1, <1>2 DEF Ends, SIZEOF_FLAP_HEAD
  <2> QED
    BY <2>1 DEF Laid
<1> QED
  BY <1>2, <1>3, <1>4 DEF Sender, Sent

-----------------------------------------------------------------------------
\* The sender's steps.

LEMMA Appended1 ==
  ASSUME NEW s \in Seq(Octet), NEW b, Grown(out, b, s), Writable(out), ~b.invalid
  PROVE  end(b) = end(out) + Len(s) /\ ~out.invalid /\ end(out) \in Nat
<1>1. b.data = out.data \o s /\ ~out.invalid /\ out.data \in Seq(Octet)
  BY DEF Grown, Writable, Fits, Stream
<1>2. Len(out.data \o s) = Len(out.data) + Len(s) /\ Len(out.data) \in Nat
  BY <1>1, Joined, Zenon
<1> QED
  BY <1>1, <1>2 DEF end

LEMMA Positive ==
  ASSUME Sender
  PROVE  ~out.invalid => end(out) > 0 /\ end(out) >= 6
<1>1. ASSUME ~out.invalid
      PROVE  end(out) >= 6
  <2>1. PICK at : Ends(made, end(out), at)
    BY <1>1 DEF Sender, Laid
  <2>2. made \in Seq(Items) /\ Len(made) \in Nat
    BY LenProperties DEF Sender, Typed
  <2> DEFINE T == {n \in 0 .. Len(made) : ~(at[n] >= 6)}
  <2>3. T = {}
    <3>1. ASSUME T # {}
          PROVE  FALSE
      <4>1. T \subseteq Nat
        OBVIOUS
      <4>2. PICK n \in T : \A m \in T : n <= m
        <5> HIDE DEF T
        <5> QED
          BY <3>1, <4>1, Least
      <4>3. n \in 0 .. Len(made) /\ ~(at[n] >= 6) /\ n # 0
        BY <2>1, <4>2 DEF Ends, SIZEOF_FLAP_HEAD
      <4>4. n \in 1 .. Len(made) /\ n - 1 \in 0 .. Len(made) /\ ~(n <= n - 1)
        BY <2>2, <4>3
      <4>5. at[n - 1] >= 6
        BY <4>2, <4>4
      <4>6. at[n] = at[n - 1] + Taken(made[n]) /\ at[n - 1] \in Nat
        BY <2>1, <4>4 DEF Ends
      <4>7. Taken(made[n]) \in Nat
        BY <2>2, <4>4, ItemCode, ElementOfSeq
      <4> QED
        BY <4>3, <4>5, <4>6, <4>7
    <3> QED
      BY <3>1
  <2>4. Len(made) \in 0 .. Len(made) /\ Len(made) \notin T
    BY <2>2, <2>3
  <2> QED
    BY <2>1, <2>4 DEF Ends
<1>2. end(out) \in Nat
  BY LenProperties DEF Sender, Typed, Writable, Fits, Stream, end
<1> QED
  BY <1>1, <1>2

LEMMA FieldAppended == Sender /\ AppendField => Sender'
<1> SUFFICES ASSUME Sender, AppendField
             PROVE  Sender'
  OBVIOUS
<1>1. PICK f \in Fields, oom \in Oom :
        /\ out' = bsAppendField(out, f, oom)
        /\ made' = Append(made, f) /\ size' = size + FieldSize(f)
  BY DEF AppendField
<1>2. f \in FieldSet /\ oom \in BOOLEAN
  BY FieldsAssumption DEF Oom
<1>3. /\ phase = "build" /\ ~out.fault /\ Len(made) < MaxFields /\ open' = open /\ phase' = phase
      /\ made \in Seq(Items) /\ size \in Nat /\ open \in Int /\ Writable(out)
      /\ open # None => \E k \in 1 .. Len(made) : made[k].kind = "tlvhead"
      /\ Len(made) \in Nat
  BY LenProperties DEF AppendField, Building, BuildOnly, Sender, Typed
<1>4. Grown(out, out', Code(f))
  BY <1>1, <1>2, <1>3, Positive, AppendsField
<1>5. f \in Items /\ Code(f) \in Seq(Octet) /\ Len(Code(f)) = Taken(f) /\ Taken(f) \in Nat /\ FieldSize(f) \in Nat
  BY <1>2, FieldCode, ItemCode DEF Items
<1>6. /\ made' \in Seq(Items) /\ Len(made') = Len(made) + 1
      /\ \A i \in 1 .. Len(made) : made'[i] = made[i]
  BY <1>1, <1>3, <1>5, AppendProperties
<1>7. Typed'
  <2>1. Len(made') <= MaxFields
    BY <1>3, <1>6, FieldsAssumption
  <2>2. size' \in Nat
    BY <1>1, <1>3, <1>5
  <2>3. open' # None => \E k \in 1 .. Len(made') : made'[k].kind = "tlvhead"
    BY <1>3, <1>6
  <2> QED
    BY <2>1, <2>2, <2>3, <1>3, <1>4, <1>6 DEF Typed, Grown
<1>8. Laid'
  <2> SUFFICES ASSUME ~out'.invalid
               PROVE  \E to : Ends(made', end(out'), to)
    BY DEF Laid, end
  <2>1. end(out') = end(out) + Taken(f) /\ ~out.invalid /\ end(out) \in Nat
    BY <1>3, <1>4, <1>5, Appended1
  <2>2. PICK at : Ends(made, end(out), at)
    BY <2>1 DEF Sender, Laid
  <2> DEFINE to == [i \in 0 .. Len(made) + 1 |-> IF i <= Len(made) THEN at[i] ELSE end(out) + Taken(f)]
  <2>3. Ends(Append(made, f), end(out) + Taken(f), to)
    <3> HIDE DEF to
    <3>1. to = [i \in 0 .. Len(made) + 1 |-> IF i <= Len(made) THEN at[i] ELSE end(out) + Taken(f)]
      BY DEF to
    <3> QED
      BY <3>1, <2>1, <2>2, <1>3, <1>5, Extended
  <2> QED
    BY <2>1, <2>3, <1>1
<1> QED
  BY <1>3, <1>7, <1>8 DEF Sender, Sent

NewHead == [kind |-> "tlvhead", type |-> 5, value |-> 0]

LEMMA HeadAppended ==
  ASSUME Sender, OpenTlv
  PROVE  /\ NewHead \in Items /\ Code(NewHead) \in Seq(Octet) /\ Len(Code(NewHead)) = 4 /\ Taken(NewHead) = 4
         /\ Grown(out, out', Code(NewHead)) /\ made' = Append(made, NewHead)
         /\ ~out'.invalid => open' = end(out)
         /\ open' \in Int
<1>1. PICK oom \in Oom : LET b == bsAppendTlv(out, 5, 0, <<>>, oom)
                         IN out' = b /\ open' = Appended(b, SIZEOF_TLV_HEAD)
  BY DEF OpenTlv
<1>2. oom \in BOOLEAN /\ ~out.fault /\ Writable(out) /\ made' = Append(made, NewHead)
  BY FieldsAssumption DEF Oom, OpenTlv, Building, NewHead, Sender, Typed
<1>3. NewHead \in Head5 /\ NewHead.value = 0
  BY DEF NewHead, Head5
<1>4. /\ NewHead \in Items /\ Code(NewHead) \in Seq(Octet) /\ Len(Code(NewHead)) = 4 /\ Taken(NewHead) = 4
      /\ Code(NewHead) = Word_2_Charsb(5) \o Word_2_Charsb(0)
  BY <1>3, HeadCode DEF Items
<1>5. Grown(out, out', Code(NewHead))
  <2>1. Grown(out, out', (Word_2_Charsb(5) \o Word_2_Charsb(0)) \o <<>>)
    <3>1. <<>> \in Seq(Octet)
      BY EmptySeq
    <3>2. out' = bsAppendTlv(out, 5, 0, <<>>, oom)
      BY <1>1
    <3>3. ~out.invalid => end(out) > 0
      BY Positive
    <3>4. 5 \in Int /\ 0 \in Int
      OBVIOUS
    <3>5. Grown(out, bsAppendTlv(out, 5, 0, <<>>, oom), (Word_2_Charsb(5) \o Word_2_Charsb(0)) \o <<>>)
      BY <3>1, <3>3, <3>4, <1>2, AppendsTlv, Zenon
    <3> QED
      BY <3>2, <3>5
  <2>2. Code(NewHead) \o <<>> = Code(NewHead)
    BY <1>4, ConcatEmptySeq
  <2> QED
    BY <2>1, <2>2, <1>4
<1>6. open' = Appended(out', SIZEOF_TLV_HEAD)
  BY <1>1
<1>7. end(out') \in Nat
  BY <1>5, LenProperties DEF Grown, Writable, Fits, Stream, end
<1>8. open' \in Int
  BY <1>6, <1>7 DEF Appended, None, SIZEOF_TLV_HEAD
<1>9. ~out'.invalid => open' = end(out)
  <2>1. ASSUME ~out'.invalid
        PROVE  open' = end(out)
    <3>1. end(out') = end(out) + 4 /\ end(out) \in Nat /\ ~out'.full
      BY <2>1, <1>2, <1>4, <1>5, Appended1 DEF Grown
    <3> QED
      BY <3>1, <1>6 DEF Appended, SIZEOF_TLV_HEAD
  <2> QED
    BY <2>1
<1> QED
  BY <1>2, <1>4, <1>5, <1>8, <1>9

LEMMA TlvOpened == Sender /\ OpenTlv => Sender'
<1> SUFFICES ASSUME Sender, OpenTlv
             PROVE  Sender'
  OBVIOUS
<1>1. /\ NewHead \in Items /\ Code(NewHead) \in Seq(Octet) /\ Len(Code(NewHead)) = 4 /\ Taken(NewHead) = 4
      /\ Grown(out, out', Code(NewHead)) /\ made' = Append(made, NewHead)
      /\ ~out'.invalid => open' = end(out)
      /\ open' \in Int
  BY HeadAppended
<1>2. /\ phase = "build" /\ Len(made) < MaxFields /\ phase' = phase
      /\ made \in Seq(Items) /\ size' = 0 /\ Writable(out)
      /\ Len(made) \in Nat
  BY LenProperties DEF OpenTlv, Building, BuildOnly, Sender, Typed
<1>3. /\ made' \in Seq(Items) /\ Len(made') = Len(made) + 1 /\ made'[Len(made) + 1] = NewHead
  BY <1>1, <1>2, AppendProperties
<1>4. Typed'
  <2>1. Len(made') <= MaxFields
    BY <1>2, <1>3, FieldsAssumption
  <2>2. \E k \in 1 .. Len(made') : made'[k].kind = "tlvhead"
    <3>1. Len(made) + 1 \in 1 .. Len(made')
      BY <1>2, <1>3
    <3> QED
      BY <3>1, <1>3 DEF NewHead
  <2> QED
    BY <2>1, <2>2, <1>1, <1>2, <1>3 DEF Typed, Grown
<1>5. Laid'
  <2> SUFFICES ASSUME ~out'.invalid
               PROVE  \E to : Ends(made', end(out'), to)
    BY DEF Laid, end
  <2>1. end(out') = end(out) + 4 /\ ~out.invalid /\ end(out) \in Nat
    BY <1>1, <1>2, Appended1
  <2>2. PICK at : Ends(made, end(out), at)
    BY <2>1 DEF Sender, Laid
  <2> DEFINE to == [i \in 0 .. Len(made) + 1 |-> IF i <= Len(made) THEN at[i] ELSE end(out) + Taken(NewHead)]
  <2>3. Ends(Append(made, NewHead), end(out) + Taken(NewHead), to)
    <3>1. to = [i \in 0 .. Len(made) + 1 |-> IF i <= Len(made) THEN at[i] ELSE end(out) + Taken(NewHead)]
      BY DEF to
    <3> HIDE DEF to
    <3> QED
      BY <3>1, <2>1, <2>2, <1>1, <1>2, Extended
  <2> QED
    BY <2>1, <2>3, <1>1
<1> QED
  BY <1>2, <1>4, <1>5 DEF Sender, Sent

LEMMA LastHead ==
  ASSUME NEW items \in Seq(Items), \E k \in 1 .. Len(items) : items[k].kind = "tlvhead",
         NEW T, T = {i \in 1 .. Len(items) : items[i].kind = "tlvhead"}
  PROVE  /\ Max(T) \in T
         /\ \A i \in T : i <= Max(T)
<1>1. Len(items) \in Nat
  BY LenProperties
<1> DEFINE U == {n \in 0 .. Len(items) : \A i \in T : i + n <= Len(items)}
           V == {n \in Nat : \E i \in T : i + n = Len(items)}
<1>2. V \subseteq Nat /\ V # {}
  <2>1. PICK k \in T : TRUE
    OBVIOUS
  <2>2. Len(items) - k \in Nat /\ k + (Len(items) - k) = Len(items)
    BY <2>1, <1>1
  <2> QED
    BY <2>1, <2>2
<1>3. PICK n \in V : \A m \in V : n <= m
  <2> HIDE DEF V
  <2> QED
    BY <1>2, Least
<1>4. PICK i \in T : i + n = Len(items)
  BY <1>3
<1>5. ASSUME NEW j \in T
      PROVE  i >= j /\ j <= i
  <2>1. Len(items) - j \in Nat /\ j + (Len(items) - j) = Len(items)
    BY <1>1
  <2>2. Len(items) - j \in V
    BY <2>1
  <2>3. n <= Len(items) - j /\ n \in Nat
    BY <2>2, <1>3
  <2> QED
    BY <2>3, <1>1, <1>4
<1>6. Max(T) \in T /\ \A j \in T : Max(T) >= j
  <2>1. \E x \in T : \A y \in T : x >= y
    BY <1>5
  <2> QED
    BY <2>1 DEF Max
<1> QED
  BY <1>1, <1>6

\* What CloseTlv does, with the TLV that is open in its place.
LEMMA Closed ==
  ASSUME Sender, CloseTlv
  PROVE  \E k \in 1 .. Len(made) :
           /\ made[k] \in Head5 /\ \A i \in 1 .. Len(made) : made[i].kind = "tlvhead" => i <= k
           /\ made' \in Seq(Items) /\ Len(made') = Len(made)
           /\ made'[k] = [made[k] EXCEPT !.value = size] /\ made'[k] \in Head5 /\ made'[k].value = size
           /\ \A i \in 1 .. Len(made) : i # k => made'[i] = made[i]
<1>1. made \in Seq(Items) /\ open # None /\ size \in Nat /\ \E k \in 1 .. Len(made) : made[k].kind = "tlvhead"
  BY DEF Sender, Typed, CloseTlv
<1> DEFINE T == {i \in 1 .. Len(made) : made[i].kind = "tlvhead"}
           k == TlvIndex
<1>2. k \in T /\ \A i \in T : i <= k
  <2>1. TlvIndex = Max(T)
    BY DEF TlvIndex
  <2> HIDE DEF k
  <2>2. T = {i \in 1 .. Len(made) : made[i].kind = "tlvhead"}
    OBVIOUS
  <2> HIDE DEF T
  <2>3. Max(T) \in T /\ \A i \in T : i <= Max(T)
    BY <2>2, <1>1, LastHead
  <2> QED
    BY <2>1, <2>3 DEF k
<1>3. made[k] \in Head5
  <2>1. made[k] \in Items /\ made[k].kind = "tlvhead"
    BY <1>1, <1>2, ElementOfSeq
  <2> QED
    BY <2>1, FieldCode DEF Items
<1> DEFINE h == [made[k] EXCEPT !.value = size]
<1>4. h \in Head5 /\ h.value = size
  <2> HIDE DEF k
  <2> QED
    BY <1>1, <1>3 DEF Head5
<1>5. made' = [made EXCEPT ![k] = h]
  BY DEF CloseTlv
<1>6. h \in Items /\ k \in 1 .. Len(made)
  BY <1>2, <1>4 DEF Items
<1> HIDE DEF h, k
<1>7. /\ made' \in Seq(Items) /\ Len(made') = Len(made)
      /\ \A j \in 1 .. Len(made) : made'[j] = IF j = k THEN h ELSE made[j]
  BY <1>1, <1>5, <1>6, ExceptSeq
<1> QED
  BY <1>2, <1>3, <1>4, <1>6, <1>7 DEF h

LEMMA TlvClosed == Sender /\ CloseTlv => Sender'
<1> SUFFICES ASSUME Sender, CloseTlv
             PROVE  Sender'
  OBVIOUS
<1>1. PICK k \in 1 .. Len(made) :
           /\ made[k] \in Head5
           /\ made' \in Seq(Items) /\ Len(made') = Len(made)
           /\ made'[k] \in Head5
           /\ \A i \in 1 .. Len(made) : i # k => made'[i] = made[i]
  BY Closed
<1>2. /\ phase = "build" /\ ~out.fault /\ phase' = phase /\ size' = size /\ open' = None
      /\ Writable(out) /\ open \in Int /\ size \in Nat /\ made \in Seq(Items) /\ Len(made) <= MaxFields
      /\ out' = bsUpdateWord(out, open + TLV_LEN_OFFSET, end(out) - open - SIZEOF_TLV_HEAD)
  BY DEF CloseTlv, Building, BuildOnly, Sender, Typed, bsUpdateTlvLen
<1>3. end(out) \in Nat
  BY <1>2, LenProperties DEF Writable, Fits, Stream, end
<1>4. Writable(out') /\ out'.invalid = out.invalid /\ end(out') = end(out)
  <2>1. open + TLV_LEN_OFFSET \in Int /\ end(out) - open - SIZEOF_TLV_HEAD \in Int
    BY <1>2, <1>3 DEF TLV_LEN_OFFSET, SIZEOF_TLV_HEAD
  <2> QED
    BY <2>1, <1>2, Updated
<1>5. Typed'
  BY <1>1, <1>2, <1>4, FieldsAssumption DEF Typed, None
<1>6. Laid'
  <2> SUFFICES ASSUME ~out'.invalid
               PROVE  \E to : Ends(made', end(out'), to)
    BY DEF Laid, end
  <2>1. PICK at : Ends(made, end(out), at)
    BY <1>4 DEF Sender, Laid
  <2>2. \A i \in 1 .. Len(made) : Taken(made'[i]) = Taken(made[i])
    <3>1. Taken(made'[k]) = 4 /\ Taken(made[k]) = 4
      BY <1>1, HeadCode
    <3> QED
      BY <3>1, <1>1
  <2>3. Ends(made', end(out'), at)
    BY <2>1, <2>2, <1>1, <1>4 DEF Ends
  <2> QED
    BY <2>3
<1> QED
  BY <1>2, <1>5, <1>6 DEF Sender, Sent

LEMMA PacketSent == Sender /\ Send => Sender'
<1> SUFFICES ASSUME Sender, Send
             PROVE  Sender'
  OBVIOUS
<1>1. /\ phase = "build" /\ ~out.fault /\ size' = size /\ open' = open /\ made' = made
      /\ phase' = (IF out.invalid THEN "dropped" ELSE "head")
      /\ Typed /\ Laid /\ Writable(out)
      /\ out' = bsUpdateWord(out, 0 + FLAP_LEN_OFFSET, end(out) - 0 - SIZEOF_FLAP_HEAD)
  BY DEF Send, Building, Sender, Typed, bsUpdateFlapHeadLen
<1>2. end(out) \in Nat
  BY <1>1, LenProperties DEF Writable, Fits, Stream, end
<1>3. Writable(out') /\ out'.invalid = out.invalid /\ end(out') = end(out)
  <2>1. 0 + FLAP_LEN_OFFSET \in Int /\ end(out) - 0 - SIZEOF_FLAP_HEAD \in Int
    BY <1>2 DEF FLAP_LEN_OFFSET, SIZEOF_FLAP_HEAD
  <2> QED
    BY <2>1, <1>1, Updated
<1>4. Typed'
  BY <1>1, <1>3 DEF Typed
<1>5. Laid'
  BY <1>1, <1>3 DEF Laid
<1> QED
  BY <1>1, <1>3, <1>4, <1>5 DEF Sender, Sent

\* The receiver leaves the sender alone.
LEMMA SenderAlone ==
  ASSUME Sender, UNCHANGED <<out, open, made, size>>, phase \notin {"build", "dropped"},
         phase' \in {"head", "body", "parse", "done", "dropped", "lost"}
  PROVE  Sender'
<1>1. Typed'
  BY DEF Sender, Typed
<1>2. Laid'
  BY DEF Sender, Laid, end
<1> QED
  BY <1>1, <1>2 DEF Sender, Sent

LEMMA SenderFaulted == Sender /\ PrintFaults => Sender'
<1> SUFFICES ASSUME Sender, PrintFaults
             PROVE  Sender'
  OBVIOUS
<1>1. UNCHANGED <<out, open, made, size>> /\ phase' = "dropped"
  BY DEF PrintFaults
<1>2. Typed'
  BY <1>1 DEF Sender, Typed
<1>3. Laid'
  BY <1>1 DEF Sender, Laid, end
<1> QED
  BY <1>1, <1>2, <1>3 DEF Sender, Sent

LEMMA SenderNext == Sender /\ [Next]_vars => Sender'
<1> SUFFICES ASSUME Sender, [Next]_vars
             PROVE  Sender'
  OBVIOUS
<1>1. CASE AppendField
  BY <1>1, FieldAppended
<1>2. CASE OpenTlv
  BY <1>2, TlvOpened
<1>3. CASE CloseTlv
  BY <1>3, TlvClosed
<1>4. CASE Send
  BY <1>4, PacketSent
<1>5. CASE ReadSome \/ ReadFails \/ HeadEnds \/ ReadEnds
  BY <1>5, SenderAlone DEF ReadSome, ReadFails, HeadEnds, ReadEnds, Receiving, ReceiveOnly
<1>6. CASE HeadRead \/ BodyRead \/ Finish
  BY <1>6, SenderAlone DEF HeadRead, BodyRead, Finish
<1>7. CASE ParseNumber \/ ParseString \/ ParseTlvHead \/ ParseTlv \/ SkipTlv
  <2>1. UNCHANGED <<out, open, made, size>> /\ phase = "parse"
    BY <1>7 DEF ParseNumber, ParseString, ParseTlvHead, ParseTlv, SkipTlv, ParseOnly, Parsing
  <2>2. phase' \in {phase, "lost"}
    <3>1. CASE ParseString
      BY <3>1 DEF ParseString
    <3>2. CASE ParseNumber \/ ParseTlvHead \/ ParseTlv \/ SkipTlv
      BY <3>2 DEF ParseNumber, ParseTlvHead, ParseTlv, SkipTlv
    <3> QED
      BY <1>7, <3>1, <3>2
  <2> QED
    BY <2>1, <2>2, SenderAlone
<1>9. CASE PrintFaults
  BY <1>9, SenderFaulted
<1>8. CASE UNCHANGED vars
  <2>1. Typed'
    BY <1>8 DEF vars, Sender, Typed
  <2>2. Laid'
    BY <1>8 DEF vars, Sender, Laid, end
  <2> QED
    BY <2>1, <2>2, <1>8 DEF vars, Sender, Sent
<1> QED
  BY <1>1, <1>2, <1>3, <1>4, <1>5, <1>6, <1>7, <1>8, <1>9 DEF Next

\* A stream that lost a field to a failed allocation is never sent
\* (bsAppend's BS_INVALID, writeBs), for any fields and any number of them.
THEOREM NoHoleSent == Spec => []HoleNeverSent
<1>1. Sender => HoleNeverSent
  <2> SUFFICES ASSUME Sender, phase \notin {"build", "dropped"}
               PROVE  LET total[n \in 0 .. Len(made)] ==
                            IF n = 0 THEN 0 ELSE total[n - 1] + Taken(made[n])
                      IN end(out) = SIZEOF_FLAP_HEAD + total[Len(made)]
    BY DEF HoleNeverSent
  <2>1. PICK at : Ends(made, end(out), at)
    BY DEF Sender, Sent, Laid
  <2>2. made \in Seq(Items)
    BY DEF Sender, Typed
  <2> QED
    BY <2>1, <2>2, TotalExists
<1> QED
  BY <1>1, SenderInit, SenderNext, PTL DEF Spec

-----------------------------------------------------------------------------
\* Bytes in their place.

LEMMA AtParts ==
  ASSUME NEW data \in Seq(Octet), NEW p \in Nat, NEW s \in Seq(Octet), NEW t \in Seq(Octet), Stands(data, p, s \o t)
  PROVE  Stands(data, p, s) /\ Stands(data, p + Len(s), t)
<1>1. /\ Len(s \o t) = Len(s) + Len(t) /\ Len(s) \in Nat /\ Len(t) \in Nat
      /\ \A i \in 1 .. Len(s) + Len(t) : (s \o t)[i] = IF i <= Len(s) THEN s[i] ELSE t[i - Len(s)]
  BY Joined, Zenon
<1>2. Len(data) \in Nat /\ p + (Len(s) + Len(t)) <= Len(data)
  BY <1>1, LenProperties DEF Stands
<1>3. \A j \in 1 .. Len(s) : data[p + j] = s[j]
  <2>1. \A j \in 1 .. Len(s) : j \in 1 .. Len(s) + Len(t) /\ j <= Len(s)
    BY <1>1
  <2> QED
    BY <2>1, <1>1 DEF Stands
<1>4. ASSUME NEW j \in 1 .. Len(t)
      PROVE  data[(p + Len(s)) + j] = t[j]
  <2>1. /\ Len(s) + j \in 1 .. Len(s) + Len(t) /\ ~(Len(s) + j <= Len(s)) /\ (Len(s) + j) - Len(s) = j
        /\ p + (Len(s) + j) = (p + Len(s)) + j
    BY <1>1
  <2>2. data[p + (Len(s) + j)] = (s \o t)[Len(s) + j]
    BY <2>1, <1>1 DEF Stands
  <2>3. (s \o t)[Len(s) + j] = t[(Len(s) + j) - Len(s)]
    BY <2>1, <1>1
  <2> QED
    BY <2>1, <2>2, <2>3
<1> QED
  BY <1>1, <1>2, <1>3, <1>4 DEF Stands

LEMMA AtGrown ==
  ASSUME NEW data \in Seq(Octet), NEW p \in Nat, NEW s \in Seq(Octet), NEW t \in Seq(Octet), Stands(data, p, s)
  PROVE  Stands(data \o t, p, s)
<1>1. /\ Len(data \o t) = Len(data) + Len(t) /\ Len(data) \in Nat /\ Len(t) \in Nat
      /\ \A i \in 1 .. Len(data) + Len(t) : (data \o t)[i] = IF i <= Len(data) THEN data[i] ELSE t[i - Len(data)]
  BY Joined, Zenon
<1>2. p + Len(s) <= Len(data) /\ Len(s) \in Nat
  BY LenProperties DEF Stands
<1>3. \A j \in 1 .. Len(s) : p + j \in 1 .. Len(data) + Len(t) /\ p + j <= Len(data)
  BY <1>1, <1>2
<1> QED
  BY <1>1, <1>2, <1>3 DEF Stands

LEMMA AtEnd ==
  ASSUME NEW data \in Seq(Octet), NEW s \in Seq(Octet)
  PROVE  Stands(data \o s, Len(data), s)
<1>1. /\ Len(data \o s) = Len(data) + Len(s) /\ Len(data) \in Nat /\ Len(s) \in Nat
      /\ \A i \in 1 .. Len(data) + Len(s) : (data \o s)[i] = IF i <= Len(data) THEN data[i] ELSE s[i - Len(data)]
  BY Joined, Zenon
<1>2. \A j \in 1 .. Len(s) : /\ Len(data) + j \in 1 .. Len(data) + Len(s) /\ ~(Len(data) + j <= Len(data))
                              /\ (Len(data) + j) - Len(data) = j
  BY <1>1
<1> QED
  BY <1>1, <1>2 DEF Stands

LEMMA AtOutside ==
  ASSUME NEW data \in Seq(Octet), NEW new \in Seq(Octet), Len(new) = Len(data), NEW pos \in Nat,
         \A i \in 1 .. Len(data) : i <= pos \/ pos + 2 < i => new[i] = data[i],
         NEW p \in Nat, NEW s \in Seq(Octet), Stands(data, p, s), p + Len(s) <= pos \/ pos + 2 <= p
  PROVE  Stands(new, p, s)
<1>1. Len(s) \in Nat /\ Len(data) \in Nat /\ p + Len(s) <= Len(data)
  BY LenProperties DEF Stands
<1>2. \A j \in 1 .. Len(s) : p + j \in 1 .. Len(data) /\ (p + j <= pos \/ pos + 2 < p + j)
  BY <1>1
<1>3. \A j \in 1 .. Len(s) : new[p + j] = data[p + j]
  BY <1>2
<1> QED
  BY <1>1, <1>3 DEF Stands

LEMMA LayoutExtended ==
  ASSUME NEW items \in Seq(Items), NEW m \in Items, NEW data \in Seq(Octet), NEW at,
         Placed(data, items, at)
  PROVE  \E to : /\ Placed(data \o Code(m), Append(items, m), to)
                 /\ \A i \in 0 .. Len(items) : to[i] = at[i]
<1>0. PICK to : to = [i \in 0 .. Len(items) + 1 |-> IF i <= Len(items) THEN at[i] ELSE Len(data) + Taken(m)]
  OBVIOUS
<1> DEFINE n == Len(items)
           more == Append(items, m)
<1>1. /\ n \in Nat /\ Len(more) = n + 1 /\ more[n + 1] = m
      /\ \A i \in 1 .. n : more[i] = items[i]
  BY AppendProperties, LenProperties
<1>2. /\ Code(m) \in Seq(Octet) /\ Len(Code(m)) = Taken(m) /\ Taken(m) \in Nat
  BY ItemCode
<1>3. Len(data \o Code(m)) = Len(data) + Taken(m) /\ Len(data) \in Nat
  <2>1. Len(data \o Code(m)) = Len(data) + Len(Code(m)) /\ Len(data) \in Nat
    BY <1>2, Joined, Zenon
  <2> QED
    BY <2>1, <1>2
<1>4. Ends(more, Len(data) + Taken(m), to)
  BY <1>0, <1>3, Extended DEF Placed
<1>5. /\ at \in [0 .. n -> Nat] /\ at[n] = Len(data)
      /\ \A i, j \in 0 .. n : i <= j => at[i] <= at[j]
  BY DEF Placed, Ends, Rising
<1>6. (\A i \in 0 .. n : to[i] = at[i]) /\ to[n + 1] = Len(data) + Taken(m)
  BY <1>0, <1>1
<1> HIDE DEF n, more
<1>7. ASSUME NEW i \in 0 .. n + 1, NEW j \in 0 .. n + 1, i <= j
      PROVE  to[i] <= to[j]
  <2>1. CASE j = n + 1 /\ i = n + 1
    BY <2>1, <1>2, <1>3, <1>6
  <2>2. CASE j = n + 1 /\ i # n + 1
    <3>1. i \in 0 .. n /\ n \in 0 .. n /\ i <= n
      BY <2>2, <1>1
    <3>2. to[i] = at[i] /\ at[i] <= Len(data) /\ at[i] \in Nat
      BY <3>1, <1>5, <1>6
    <3> QED
      BY <3>2, <2>2, <1>2, <1>3, <1>6
  <2>3. CASE j # n + 1
    <3>1. i \in 0 .. n /\ j \in 0 .. n
      BY <2>3, <1>1, <1>7
    <3> QED
      BY <3>1, <1>5, <1>6, <1>7
  <2> QED
    BY <2>1, <2>2, <2>3
<1>8. ASSUME NEW i \in 1 .. n + 1
      PROVE  Stands(data \o Code(m), to[i - 1], Code(more[i]))
  <2>1. CASE i = n + 1
    <3>1. i - 1 = n /\ n \in 0 .. n
      BY <2>1, <1>1
    <3>2. to[i - 1] = Len(data)
      BY <3>1, <1>5, <1>6
    <3> QED
      BY <3>2, <2>1, <1>1, <1>2, AtEnd
  <2>2. CASE i # n + 1
    <3>1. i \in 1 .. n /\ i - 1 \in 0 .. n
      BY <2>2, <1>1
    <3>2. to[i - 1] = at[i - 1] /\ at[i - 1] \in Nat /\ more[i] = items[i]
      BY <3>1, <1>1, <1>5, <1>6
    <3>3. items[i] \in Items
      BY <3>1, ElementOfSeq DEF n
    <3>4. Stands(data, at[i - 1], Code(items[i])) /\ Code(items[i]) \in Seq(Octet)
      BY <3>1, <3>3, ItemCode DEF Placed, Bodies, n
    <3> QED
      BY <3>2, <3>4, <1>2, AtGrown
  <2> QED
    BY <2>1, <2>2
<1> QED
  BY <1>1, <1>3, <1>4, <1>6, <1>7, <1>8 DEF Placed, Rising, Bodies, more, n

LEMMA AtJoined ==
  ASSUME NEW data \in Seq(Octet), NEW p \in Nat, NEW s \in Seq(Octet), NEW t \in Seq(Octet),
         Stands(data, p, s), Stands(data, p + Len(s), t)
  PROVE  Stands(data, p, s \o t)
<1>1. /\ Len(s \o t) = Len(s) + Len(t) /\ Len(s) \in Nat /\ Len(t) \in Nat
      /\ \A i \in 1 .. Len(s) + Len(t) : (s \o t)[i] = IF i <= Len(s) THEN s[i] ELSE t[i - Len(s)]
  BY Joined, Zenon
<1>2. Len(data) \in Nat /\ (p + Len(s)) + Len(t) <= Len(data)
  BY LenProperties DEF Stands
<1>3. ASSUME NEW j \in 1 .. Len(s) + Len(t)
      PROVE  data[p + j] = (s \o t)[j]
  <2>1. CASE j <= Len(s)
    <3>1. j \in 1 .. Len(s)
      BY <2>1, <1>1
    <3> QED
      BY <3>1, <2>1, <1>1 DEF Stands
  <2>2. CASE ~(j <= Len(s))
    <3>1. j - Len(s) \in 1 .. Len(t) /\ (p + Len(s)) + (j - Len(s)) = p + j
      BY <2>2, <1>1
    <3>2. data[(p + Len(s)) + (j - Len(s))] = t[j - Len(s)]
      BY <3>1 DEF Stands
    <3> QED
      BY <3>1, <3>2, <2>2, <1>1
  <2> QED
    BY <2>1, <2>2
<1> QED
  BY <1>1, <1>2, <1>3 DEF Stands

LEMMA OneMore ==
  ASSUME NEW n \in Nat, NEW w \in Nat
  PROVE  (n + 1) * w = n * w + w /\ n * w \in Nat
  OBVIOUS

LEMMA Fewer ==
  ASSUME NEW n \in Nat, NEW m \in Nat, n <= m, NEW w \in Nat
  PROVE  n * w <= m * w /\ n * w \in Nat /\ m * w \in Nat
<1>1. PICK d \in Nat : m = n + d
  <2>1. m - n \in Nat /\ m = n + (m - n)
    OBVIOUS
  <2> QED
    BY <2>1
<1>2. (n + d) * w = n * w + d * w /\ n * w \in Nat /\ d * w \in Nat
  OBVIOUS
<1> QED
  BY <1>1, <1>2

LEMMA SmallWord ==
  ASSUME NEW n \in Nat, n < 65536
  PROVE  n \in Word
<1>1. n <= 65535 /\ 0 <= n /\ n \in Int
  OBVIOUS
<1>2. \A m \in Int : n <= m => n \in 0 .. m
  OBVIOUS
<1>3. 65535 \in Int
  OBVIOUS
<1>4. n \in 0 .. 65535
  <2>1. PICK m \in Int : m = 65535
    BY <1>3
  <2>2. n <= m /\ m \in Int
    BY <1>1, <2>1
  <2>3. n \in 0 .. m
    BY <1>2, <2>2
  <2> QED
    BY <2>1, <2>3
<1> QED
  BY <1>4 DEF Word

LEMMA SmallByte ==
  ASSUME NEW n \in Nat, n < 256
  PROVE  n \in Byte
  BY DEF Byte

LEMMA Bounded ==
  ASSUME NEW w, Sayable(w), NEW n \in Nat, n <= MaxFields
  PROVE  n * w <= MaxFields * w /\ n * w \in Nat /\ MaxFields * w \in Nat /\ n * w < 65536
<1>1. w \in Nat /\ MaxFields \in Nat /\ MaxFields * w < 65536
  BY FieldsAssumption DEF Sayable
<1>2. n * w <= MaxFields * w /\ n * w \in Nat /\ MaxFields * w \in Nat
  <2>1. PICK m \in Nat : m = MaxFields
    BY <1>1
  <2>2. n * w <= m * w /\ n * w \in Nat /\ m * w \in Nat
    <3>1. n <= m
      BY <2>1
    <3> HIDE DEF Sayable
    <3> QED
      BY <1>1, <2>1, <3>1, Fewer
  <2> QED
    BY <2>1, <2>2
<1> HIDE DEF Sayable
<1> QED
  BY <1>1, <1>2

LEMMA FieldSays ==
  ASSUME NEW w, Sayable(w), NEW f \in Fields, MaxFields > 0
  PROVE  Says(f)
<1>1. f \in FieldSet /\ MaxFields \in Nat /\ w \in Nat /\ FieldSize(f) <= w /\ MaxFields * w < 65536
  BY FieldsAssumption DEF Sayable
<1>2. w < 65536
  <2>1. 1 * w <= MaxFields * w
    <3>1. 1 \in Nat /\ 1 <= MaxFields /\ MaxFields \in Nat /\ w \in Nat
      BY <1>1
    <3> HIDE DEF Sayable
    <3> QED
      BY <3>1, Fewer, Zenon
  <2>2. 1 * w = w /\ MaxFields * w \in Int
    BY <1>1
  <2> HIDE DEF Sayable
  <2> QED
    BY <1>1, <2>1, <2>2
<1>3. f.kind # "tlvhead"
  BY <1>1, FieldCode
<1>4. CASE f.kind \in {"tlv", "string16"}
  <2>1. Len(f.value) \in Nat
    BY <1>1, <1>4, FieldKinds, LenProperties
  <2>2. Len(f.value) <= FieldSize(f) /\ FieldSize(f) \in Nat
    BY <2>1, <1>4 DEF FieldSize
  <2>3. Len(f.value) \in Word
    <3>1. Len(f.value) < 65536
      BY <2>1, <2>2, <1>1, <1>2
    <3> QED
      BY <2>1, <3>1, SmallWord
  <2> QED
    BY <2>3, <1>4 DEF Says
<1>5. CASE f.kind = "string08"
  <2>1. Len(f.value) \in Nat /\ Len(f.value) < 256
    BY <1>1, <1>5, FieldKinds, LenProperties DEF Sayable
  <2>2. Len(f.value) \in Byte
    BY <2>1, SmallByte, Zenon
  <2> QED
    BY <2>2, <1>5, Zenon DEF Says
<1> QED
  BY <1>3, <1>4, <1>5 DEF Says

LEMMA SaysMore ==
  ASSUME NEW items \in Seq(Items), \A i \in 1 .. Len(items) : Says(items[i]), NEW m \in Items, Says(m)
  PROVE  \A i \in 1 .. Len(Append(items, m)) : Says(Append(items, m)[i])
<1> DEFINE more == Append(items, m)
<1>1. /\ Len(items) \in Nat /\ Len(more) = Len(items) + 1 /\ more[Len(items) + 1] = m
      /\ \A i \in 1 .. Len(items) : more[i] = items[i]
  BY AppendProperties, LenProperties
<1> HIDE DEF more
<1>2. ASSUME NEW i \in 1 .. Len(more)
      PROVE  Says(more[i])
  <2>1. i = Len(items) + 1 \/ i \in 1 .. Len(items)
    BY <1>1
  <2> QED
    BY <2>1, <1>1
<1> QED
  BY <1>2 DEF more

LEMMA OpenedKept ==
  ASSUME NEW items \in Seq(Items), NEW m \in FieldSet, NEW o, NEW sz \in Nat, NEW e \in Nat, NEW at,
         o \in Int, Opened(items, o, sz, e, at),
         NEW to, \A i \in 0 .. Len(items) : to[i] = at[i]
  PROVE  Opened(Append(items, m), o, sz + Taken(m), e + Taken(m), to)
<1> DEFINE n == Len(items)
           more == Append(items, m)
<1>1. m \in Items /\ m.kind # "tlvhead" /\ Taken(m) \in Nat
  BY FieldCode, ItemCode DEF Items
<1>2. /\ n \in Nat /\ Len(more) = n + 1 /\ more[n + 1] = m
      /\ \A i \in 1 .. n : more[i] = items[i]
  BY <1>1, AppendProperties, LenProperties
<1> HIDE DEF more
<1>3. ASSUME o # None
      PROVE  \E k \in 1 .. Len(more) :
               /\ more[k].kind = "tlvhead" /\ to[k - 1] = o
               /\ \A i \in k + 1 .. Len(more) : more[i].kind # "tlvhead"
               /\ e + Taken(m) = o + SIZEOF_TLV_HEAD + (sz + Taken(m))
  <2>1. PICK k \in 1 .. n :
          /\ items[k].kind = "tlvhead" /\ at[k - 1] = o
          /\ \A i \in k + 1 .. n : items[i].kind # "tlvhead"
          /\ e = o + SIZEOF_TLV_HEAD + sz
    BY <1>3 DEF Opened
  <2>2. k \in 1 .. Len(more) /\ k - 1 \in 0 .. n /\ more[k].kind = "tlvhead" /\ to[k - 1] = o
    BY <2>1, <1>2
  <2>3. ASSUME NEW i \in k + 1 .. Len(more)
        PROVE  more[i].kind # "tlvhead"
    <3>1. CASE i = n + 1
      BY <3>1, <1>1, <1>2
    <3>2. CASE i # n + 1
      <4>1. i \in k + 1 .. n /\ i \in 1 .. n
        BY <3>2, <1>2
      <4> QED
        BY <4>1, <2>1, <1>2
    <3> QED
      BY <3>1, <3>2
  <2>4. e + Taken(m) = o + SIZEOF_TLV_HEAD + (sz + Taken(m))
    BY <2>1, <1>1 DEF SIZEOF_TLV_HEAD
  <2> QED
    BY <2>2, <2>3, <2>4
<1> QED
  BY <1>3 DEF Opened, more

LEMMA FieldWhole ==
  ASSUME NEW w, Sayable(w), Sender, Packet(w), AppendField
  PROVE  Packet(w)'
<1>1. PICK f \in Fields, oom \in Oom :
        /\ out' = bsAppendField(out, f, oom)
        /\ made' = Append(made, f) /\ size' = size + FieldSize(f)
  BY DEF AppendField
<1>2. f \in FieldSet /\ oom \in BOOLEAN
  BY FieldsAssumption DEF Oom
<1>3. /\ phase = "build" /\ ~out.fault /\ open' = open /\ phase' = phase
      /\ made \in Seq(Items) /\ size \in Nat /\ open \in Int /\ Writable(out)
      /\ Len(made) \in Nat
  BY LenProperties DEF AppendField, Building, BuildOnly, Sender, Typed
<1>4. Grown(out, out', Code(f))
  BY <1>1, <1>2, <1>3, Positive, AppendsField
<1>5. /\ f \in Items /\ Code(f) \in Seq(Octet) /\ Len(Code(f)) = Taken(f) /\ Taken(f) \in Nat
      /\ FieldSize(f) = Taken(f) /\ Taken(f) <= w /\ w \in Nat
  BY <1>2, FieldCode, ItemCode DEF Items, Sayable
<1>6. Len(made') = Len(made) + 1 /\ (Len(made) + 1) * w = Len(made) * w + w /\ Len(made) * w \in Nat
  BY <1>1, <1>3, <1>5, AppendProperties, OneMore
<1>7. size' <= Len(made') * w
  BY <1>1, <1>3, <1>5, <1>6 DEF Packet
<1>9. \A i \in 1 .. Len(made') : Says(made'[i])
  <2>1. Says(f)
    <3>1. MaxFields > 0
      BY <1>3, FieldsAssumption DEF AppendField
    <3> QED
      BY <3>1, FieldSays
  <2> QED
    BY <2>1, <1>1, <1>3, <1>5, SaysMore DEF Packet
<1>8. ASSUME ~out'.invalid
      PROVE  /\ end(out') <= SIZEOF_FLAP_HEAD + Len(made') * w /\ Front6'
             /\ \E to : Layout(out'.data, made', open', size', to) /\ Read(to)'
  <2>1. /\ end(out') = end(out) + Taken(f) /\ ~out.invalid /\ end(out) \in Nat
        /\ out'.data = out.data \o Code(f) /\ out.data \in Seq(Octet)
    BY <1>3, <1>4, <1>5, <1>8, Appended1 DEF Grown, Writable, Fits, Stream
  <2>2. end(out) <= SIZEOF_FLAP_HEAD + Len(made) * w /\ Stands(out.data, 0, HeadBytes(0))
    BY <2>1, <1>3 DEF Packet, Front6
  <2>3. end(out') <= SIZEOF_FLAP_HEAD + Len(made') * w
    BY <2>1, <2>2, <1>5, <1>6 DEF SIZEOF_FLAP_HEAD
  <2>4. Front6'
    <3>1. Stands(out'.data, 0, HeadBytes(0))
      BY <2>1, <2>2, <1>5, HeadBytesTyped, AtGrown
    <3> QED
      BY <3>1, <1>3 DEF Front6
  <2>5. PICK at : Layout(out.data, made, open, size, at)
    BY <2>1 DEF Packet
  <2>6. PICK to : /\ Placed(out.data \o Code(f), Append(made, f), to)
                  /\ \A i \in 0 .. Len(made) : to[i] = at[i]
    BY <2>1, <2>5, <1>3, <1>5, LayoutExtended DEF Layout
  <2>7. Opened(made', open', size', Len(out'.data), to)
    <3>1. Opened(Append(made, f), open, size + Taken(f), end(out) + Taken(f), to)
      BY <2>1, <2>5, <2>6, <1>2, <1>3, OpenedKept DEF Layout, end
    <3> QED
      BY <3>1, <2>1, <1>1, <1>3, <1>5 DEF end
  <2>8. Layout(out'.data, made', open', size', to)
    BY <2>1, <2>6, <2>7, <1>1 DEF Layout
  <2>9. Read(to)'
    BY <1>3 DEF Read
  <2> QED
    BY <2>3, <2>4, <2>8, <2>9
<1> QED
  BY <1>7, <1>8, <1>9 DEF Packet, end

LEMMA OpenWhole ==
  ASSUME NEW w, Sayable(w), Sender, Packet(w), OpenTlv
  PROVE  Packet(w)'
<1>1. /\ NewHead \in Items /\ Code(NewHead) \in Seq(Octet) /\ Len(Code(NewHead)) = 4 /\ Taken(NewHead) = 4
      /\ Grown(out, out', Code(NewHead)) /\ made' = Append(made, NewHead)
      /\ ~out'.invalid => open' = end(out)
  BY HeadAppended
<1>2. /\ phase = "build" /\ phase' = phase /\ made \in Seq(Items) /\ size' = 0 /\ Writable(out)
      /\ Len(made) \in Nat
  BY LenProperties DEF OpenTlv, Building, BuildOnly, Sender, Typed
<1>3. /\ Len(made') = Len(made) + 1 /\ (Len(made) + 1) * w = Len(made) * w + w /\ Len(made) * w \in Nat
      /\ 4 <= w /\ w \in Nat /\ made'[Len(made) + 1] = NewHead
  <2>1. w \in Nat /\ 4 <= w
    BY DEF Sayable, SIZEOF_TLV_HEAD
  <2>2. (Len(made) + 1) * w = Len(made) * w + w /\ Len(made) * w \in Nat
    BY <1>2, <2>1, OneMore
  <2>3. Len(made') = Len(made) + 1 /\ made'[Len(made) + 1] = NewHead
    BY <1>1, <1>2, AppendProperties
  <2> QED
    BY <2>1, <2>2, <2>3
<1>4. size' <= Len(made') * w
  BY <1>2, <1>3
<1>9. \A i \in 1 .. Len(made') : Says(made'[i])
  <2>1. Says(NewHead)
    <3>1. 0 \in Word
      BY DEF Word
    <3> QED
      BY <3>1 DEF Says, NewHead
  <2> QED
    BY <2>1, <1>1, <1>2, SaysMore DEF Packet
<1>5. ASSUME ~out'.invalid
      PROVE  /\ end(out') <= SIZEOF_FLAP_HEAD + Len(made') * w /\ Front6'
             /\ \E to : Layout(out'.data, made', open', size', to) /\ Read(to)'
  <2>1. /\ end(out') = end(out) + 4 /\ ~out.invalid /\ end(out) \in Nat
        /\ out'.data = out.data \o Code(NewHead) /\ out.data \in Seq(Octet)
    BY <1>1, <1>2, <1>5, Appended1 DEF Grown, Writable, Fits, Stream
  <2>2. end(out) <= SIZEOF_FLAP_HEAD + Len(made) * w /\ Stands(out.data, 0, HeadBytes(0))
    BY <2>1, <1>2 DEF Packet, Front6
  <2>3. end(out') <= SIZEOF_FLAP_HEAD + Len(made') * w
    BY <2>1, <2>2, <1>3 DEF SIZEOF_FLAP_HEAD
  <2>4. Front6'
    <3>1. Stands(out'.data, 0, HeadBytes(0))
      BY <2>1, <2>2, <1>1, HeadBytesTyped, AtGrown
    <3> QED
      BY <3>1, <1>2 DEF Front6
  <2>5. PICK at : Layout(out.data, made, open, size, at)
    BY <2>1 DEF Packet
  <2>6. PICK to : /\ Placed(out.data \o Code(NewHead), Append(made, NewHead), to)
                  /\ \A i \in 0 .. Len(made) : to[i] = at[i]
    BY <2>1, <2>5, <1>1, <1>2, LayoutExtended DEF Layout
  <2>7. Opened(made', open', size', Len(out'.data), to)
    <3> DEFINE k == Len(made) + 1
    <3>1. k \in 1 .. Len(made') /\ k - 1 = Len(made) /\ Len(made) \in 0 .. Len(made) /\ k + 1 > Len(made')
      BY <1>2, <1>3
    <3>2. to[k - 1] = end(out)
      BY <3>1, <2>5, <2>6 DEF Layout, Placed, Ends, end
    <3>3. made'[k].kind = "tlvhead"
      BY <1>3 DEF NewHead
    <3>4. Len(out'.data) = open' + SIZEOF_TLV_HEAD + size'
      BY <2>1, <1>1, <1>2, <1>5 DEF end, SIZEOF_TLV_HEAD
    <3>5. \A i \in k + 1 .. Len(made') : made'[i].kind # "tlvhead"
      <4>1. k + 1 .. Len(made') = {}
        BY <3>1, <1>2, <1>3
      <4> QED
        BY <4>1
    <3>6. to[k - 1] = open'
      BY <3>2, <1>1, <1>5
    <3> HIDE DEF k
    <3> QED
      BY <3>1, <3>3, <3>4, <3>5, <3>6 DEF Opened
  <2>8. Layout(out'.data, made', open', size', to)
    BY <2>1, <2>6, <2>7, <1>1 DEF Layout
  <2>9. Read(to)'
    BY <1>2 DEF Read
  <2> QED
    BY <2>3, <2>4, <2>8, <2>9
<1> QED
  BY <1>4, <1>5, <1>9 DEF Packet, end

\* A word written over the length of the TLV that is open.
LEMMA CloseWhole ==
  ASSUME NEW w, Sayable(w), Sender, Packet(w), CloseTlv
  PROVE  Packet(w)'
<1>1. PICK k \in 1 .. Len(made) :
           /\ made[k] \in Head5 /\ \A i \in 1 .. Len(made) : made[i].kind = "tlvhead" => i <= k
           /\ made' \in Seq(Items) /\ Len(made') = Len(made)
           /\ made'[k] \in Head5 /\ made'[k].value = size
           /\ \A i \in 1 .. Len(made) : i # k => made'[i] = made[i]
  BY Closed
<1>2. /\ phase = "build" /\ ~out.fault /\ phase' = phase /\ size' = size /\ open' = None /\ open # None
      /\ Writable(out) /\ open \in Int /\ size \in Nat /\ made \in Seq(Items) /\ Len(made) <= MaxFields
      /\ out' = bsUpdateWord(out, open + TLV_LEN_OFFSET, end(out) - open - SIZEOF_TLV_HEAD)
  BY DEF CloseTlv, Building, BuildOnly, Sender, Typed, bsUpdateTlvLen
<1>3. end(out) \in Nat /\ out.data \in Seq(Octet) /\ Len(made) \in Nat
  BY <1>2, LenProperties DEF Writable, Fits, Stream, end
<1> DEFINE pos == open + TLV_LEN_OFFSET
           n == end(out) - open - SIZEOF_TLV_HEAD
<1>4. pos = open + 2 /\ n = end(out) - open - 4 /\ pos \in Int /\ n \in Int
  BY <1>2, <1>3 DEF TLV_LEN_OFFSET, SIZEOF_TLV_HEAD
<1>5. /\ Writable(out') /\ out'.invalid = out.invalid /\ end(out') = end(out)
      /\ 0 <= pos /\ pos + 2 <= end(out) =>
              /\ Stands(out'.data, pos, Word_2_Charsb(n))
              /\ \A i \in 1 .. end(out) : i <= pos \/ pos + 2 < i => out'.data[i] = out.data[i]
  <2>1. out' = bsUpdateWord(out, pos, n)
    BY <1>2
  <2> HIDE DEF pos, n
  <2>2. Writable(out) /\ ~out.fault /\ pos \in Int /\ n \in Int
    BY <1>2, <1>4
  <2>3. PICK c : c = bsUpdateWord(out, pos, n)
    OBVIOUS
  <2>4. /\ Writable(c) /\ c.invalid = out.invalid /\ end(c) = end(out)
        /\ 0 <= pos /\ pos + 2 <= end(out) =>
              /\ Stands(c.data, pos, Word_2_Charsb(n))
              /\ \A i \in 1 .. end(out) : i <= pos \/ pos + 2 < i => c.data[i] = out.data[i]
    BY <2>2, <2>3, Updated
  <2> QED
    BY <2>1, <2>3, <2>4 DEF end
<1>6. size \in Word
  <2>1. Len(made) * w <= MaxFields * w /\ MaxFields * w < 65536 /\ Len(made) * w \in Nat /\ MaxFields * w \in Nat
    <3>1. /\ Len(made) \in Nat /\ MaxFields \in Nat /\ Len(made) <= MaxFields /\ w \in Nat
          /\ MaxFields * w < 65536
      BY <1>2, <1>3, FieldsAssumption DEF Sayable
    <3> QED
      BY <3>1, Bounded
  <2>2. size <= Len(made) * w
    BY DEF Packet
  <2>3. size < 65536
    BY <2>1, <2>2, <1>2
  <2> QED
    BY <2>3, <1>2, SmallWord
<1>7. \A i \in 1 .. Len(made') : Says(made'[i])
  <2>1. Says(made'[k])
    BY <1>1, <1>6, HeadCode DEF Says
  <2>2. \A i \in 1 .. Len(made) : Says(made[i])
    BY DEF Packet
  <2> QED
    BY <2>1, <2>2, <1>1
<1>8. size' <= Len(made') * w
  BY <1>1, <1>2 DEF Packet
<1> HIDE DEF pos, n
<1>9. ASSUME ~out'.invalid
      PROVE  /\ end(out') <= SIZEOF_FLAP_HEAD + Len(made') * w /\ Front6'
             /\ \E to : Layout(out'.data, made', open', size', to) /\ Read(to)'
  <2>1. /\ ~out.invalid /\ end(out) <= SIZEOF_FLAP_HEAD + Len(made) * w /\ Stands(out.data, 0, HeadBytes(0))
    BY <1>5, <1>9, <1>2 DEF Packet, Front6
  <2>2. PICK at : Layout(out.data, made, open, size, at)
    BY <2>1 DEF Packet
  <2>3. /\ at \in [0 .. Len(made) -> Nat] /\ at[0] = 6
        /\ \A i \in 1 .. Len(made) : at[i] = at[i - 1] + Taken(made[i])
        /\ at[Len(made)] = end(out)
        /\ \A i, j \in 0 .. Len(made) : i <= j => at[i] <= at[j]
        /\ \A i \in 1 .. Len(made) : Stands(out.data, at[i - 1], Code(made[i]))
    BY <2>2 DEF Layout, Placed, Ends, Rising, Bodies, end, SIZEOF_FLAP_HEAD
  <2>4. PICK h \in 1 .. Len(made) :
          /\ made[h].kind = "tlvhead" /\ at[h - 1] = open
          /\ \A i \in h + 1 .. Len(made) : made[i].kind # "tlvhead"
          /\ end(out) = open + SIZEOF_TLV_HEAD + size
    BY <2>2, <1>2 DEF Layout, Opened, end
  <2>5. h = k
    <3>1. made[k].kind = "tlvhead" /\ h <= k
      BY <1>1, <2>4, HeadCode
    <3>2. ~(k \in h + 1 .. Len(made))
      BY <3>1, <2>4
    <3> QED
      BY <3>1, <3>2, <1>3
  <2>6. n = size /\ open \in Nat /\ pos \in Nat /\ 0 <= pos /\ pos + 2 = open + 4 /\ pos + 2 <= end(out)
    <3>1. k - 1 \in 0 .. Len(made)
      BY <1>3
    <3>2. open \in Nat
      BY <3>1, <2>3, <2>4, <2>5
    <3> QED
      BY <3>2, <2>4, <1>2, <1>4 DEF SIZEOF_TLV_HEAD
  <2>7. /\ Stands(out'.data, pos, Word_2_Charsb(size))
        /\ \A i \in 1 .. end(out) : i <= pos \/ pos + 2 < i => out'.data[i] = out.data[i]
    BY <2>6, <1>5
  <2>8. out'.data \in Seq(Octet) /\ Len(out'.data) = Len(out.data) /\ Len(out.data) = end(out)
    BY <1>5 DEF Writable, Fits, Stream, end
  <2>9. ASSUME NEW p \in Nat, NEW s \in Seq(Octet), Stands(out.data, p, s), p + Len(s) <= pos \/ pos + 2 <= p
        PROVE  Stands(out'.data, p, s)
    BY <2>9, <2>7, <2>8, <1>3, <2>6, AtOutside
  <2>10. Bodies(out'.data, made', at)
    <3>1. ASSUME NEW i \in 1 .. Len(made), i # k
          PROVE  Stands(out'.data, at[i - 1], Code(made'[i]))
      <4>1. /\ made'[i] = made[i] /\ made[i] \in Items /\ i - 1 \in 0 .. Len(made) /\ i \in 0 .. Len(made)
            /\ k - 1 \in 0 .. Len(made) /\ k \in 0 .. Len(made)
        BY <3>1, <1>1, <1>2, <1>3, ElementOfSeq
      <4>2. Code(made[i]) \in Seq(Octet) /\ Len(Code(made[i])) = Taken(made[i]) /\ Taken(made[i]) \in Nat
        BY <4>1, ItemCode
      <4>3. at[i - 1] \in Nat /\ at[i] \in Nat /\ at[i] = at[i - 1] + Taken(made[i]) /\ Stands(out.data, at[i - 1], Code(made[i]))
        BY <4>1, <2>3
      <4>4. at[k - 1] = open /\ at[k] = open + 4
        BY <2>3, <2>4, <2>5, <1>1, HeadCode
      <4>5. CASE i < k
        <5>1. i <= k - 1
          BY <4>5, <1>3
        <5>2. at[i] <= open
          BY <5>1, <4>1, <4>4, <2>3
        <5>3. at[i - 1] + Len(Code(made[i])) <= pos
          BY <5>2, <4>2, <4>3, <2>6, <1>2, <1>4
        <5> QED
          BY <5>3, <4>1, <4>2, <4>3, <2>9
      <4>6. CASE ~(i < k)
        <5>1. k <= i - 1
          BY <4>6, <3>1, <1>3
        <5>2. open + 4 <= at[i - 1]
          BY <5>1, <4>1, <4>4, <2>3
        <5>3. pos + 2 <= at[i - 1]
          BY <5>2, <2>6
        <5> QED
          BY <5>3, <4>1, <4>2, <4>3, <2>9
      <4> QED
        BY <4>5, <4>6
    <3>2. Stands(out'.data, at[k - 1], Code(made'[k]))
      <4> DEFINE five == Word_2_Charsb(5)
                 old == Word_2_Charsb(made[k].value)
                 new == Word_2_Charsb(size)
      <4>1. Code(made[k]) = five \o old /\ Code(made'[k]) = five \o new /\ made[k].value \in Int /\ size \in Int
        <5>1. /\ Code(made[k]) = five \o Word_2_Charsb(made[k].value) /\ made[k].value \in Nat
              /\ Code(made'[k]) = five \o Word_2_Charsb(made'[k].value)
          BY <1>1, HeadCode, Zenon
        <5> QED
          BY <5>1, <1>1, <1>2
      <4>2. /\ five \in Seq(Octet) /\ Len(five) = 2 /\ old \in Seq(Octet) /\ new \in Seq(Octet)
        <5>1. 5 \in Int
          OBVIOUS
        <5> QED
          BY <5>1, <4>1, TwoBytes, Zenon
      <4> HIDE DEF five, old, new
      <4>3. Stands(out.data, open, five \o old)
        BY <4>1, <2>3, <2>4, <2>5
      <4>4. Stands(out.data, open, five)
        BY <4>2, <4>3, <2>6, <1>3, AtParts
      <4>5. open + Len(five) <= pos
        BY <4>2, <1>4, <1>2
      <4>6. Stands(out'.data, open, five)
        BY <4>2, <4>4, <4>5, <2>6, <2>9
      <4>7. Stands(out'.data, open + Len(five), new)
        BY <4>2, <2>7, <1>4 DEF new
      <4>8. Stands(out'.data, open, five \o new)
        BY <4>2, <4>6, <4>7, <2>6, <2>8, AtJoined
      <4> QED
        BY <4>1, <4>8, <2>4, <2>5
    <3> QED
      BY <3>1, <3>2, <1>1 DEF Bodies
  <2>11. Ends(made', Len(out'.data), at) /\ Rising(made', at)
    <3>1. \A i \in 1 .. Len(made) : Taken(made'[i]) = Taken(made[i])
      <4>1. Taken(made'[k]) = 4 /\ Taken(made[k]) = 4
        BY <1>1, HeadCode
      <4> QED
        BY <4>1, <1>1
    <3> QED
      BY <3>1, <2>3, <2>8, <1>1 DEF Ends, Rising, SIZEOF_FLAP_HEAD
  <2>12. Layout(out'.data, made', open', size', at)
    BY <2>10, <2>11, <1>2 DEF Layout, Placed, Opened
  <2>13. Front6'
    <3>1. HeadBytes(0) \in Seq(Octet) /\ Len(HeadBytes(0)) = 6
      <4>1. 0 \in Int
        OBVIOUS
      <4> QED
        BY <4>1, HeadBytesTyped, Zenon
    <3>2. 6 <= open
      <4>1. k - 1 \in 0 .. Len(made) /\ 0 \in 0 .. Len(made) /\ 0 <= k - 1
        BY <1>3
      <4> QED
        BY <4>1, <2>3, <2>4, <2>5
    <3>3. 0 + Len(HeadBytes(0)) <= pos /\ 0 \in Nat
      <4> HIDE DEF HeadBytes
      <4>1. 6 <= pos
        BY <3>2, <1>2, <1>4
      <4>2. Len(HeadBytes(0)) = 6
        BY <3>1
      <4>3. 0 + 6 <= pos
        BY <4>1
      <4> QED
        BY <4>2, <4>3, Zenon
    <3>4. Stands(out'.data, 0, HeadBytes(0))
      BY <3>1, <3>3, <2>1, <2>9, Zenon
    <3> QED
      BY <3>4, <1>2 DEF Front6
  <2>14. Read(at)'
    BY <1>2 DEF Read
  <2>15. end(out') <= SIZEOF_FLAP_HEAD + Len(made') * w
    BY <2>1, <1>1, <1>5
  <2> QED
    BY <2>12, <2>13, <2>14, <2>15
<1> QED
  BY <1>7, <1>8, <1>9 DEF Packet, end

\* The length written into the head of the packet.
LEMMA HeadParts ==
  ASSUME NEW len \in Int
  PROVE  \E s \in Seq(Octet) : /\ Len(s) = 4 /\ HeadBytes(len) = s \o Word_2_Charsb(len)
                              /\ HeadBytes(0) = s \o Word_2_Charsb(0)
<1> DEFINE a == <<42, 2>>
           b == Word_2_Charsb(Seq0)
<1>1. a \in Seq(Octet) /\ Len(a) = 2 /\ b \in Seq(Octet) /\ Len(b) = 2
  <2>1. Seq0 \in Int
    BY DEF Seq0
  <2>2. b \in Seq(Octet) /\ Len(b) = 2
    BY <2>1, TwoBytes, Zenon
  <2>3. 42 \in Octet /\ 2 \in Octet
    BY DEF Octet, Cipher
  <2>4. a \in Seq(Octet) /\ Len(a) = 2
    BY <2>3
  <2> QED
    BY <2>2, <2>4
<1>2. \A n \in Int : Word_2_Charsb(n) \in Seq(Octet)
  BY TwoBytes, Zenon
<1>3. \A n : HeadBytes(n) = (a \o b) \o Word_2_Charsb(n)
  BY DEF HeadBytes
<1> HIDE DEF a, b
<1>4. a \o b \in Seq(Octet) /\ Len(a \o b) = Len(a) + Len(b)
  BY <1>1, Joined, Zenon
<1>5. (a \o b) \in Seq(Octet) /\ Len(a \o b) = 4
  BY <1>1, <1>4
<1>6. HeadBytes(len) = (a \o b) \o Word_2_Charsb(len) /\ HeadBytes(0) = (a \o b) \o Word_2_Charsb(0)
  BY <1>3
<1> QED
  BY <1>5, <1>6, Zenon

LEMMA SendWhole ==
  ASSUME NEW w, Sayable(w), Sender, Packet(w), Send
  PROVE  Packet(w)'
<1>1. /\ phase = "build" /\ ~out.fault /\ size' = size /\ open' = open /\ made' = made /\ open = None
      /\ phase' = (IF out.invalid THEN "dropped" ELSE "head")
      /\ Writable(out) /\ made \in Seq(Items)
      /\ out' = bsUpdateWord(out, 0 + FLAP_LEN_OFFSET, end(out) - 0 - SIZEOF_FLAP_HEAD)
  BY DEF Send, Building, Sender, Typed, bsUpdateFlapHeadLen
<1>2. end(out) \in Nat /\ out.data \in Seq(Octet) /\ Len(made) \in Nat
  BY <1>1, LenProperties DEF Writable, Fits, Stream, end
<1> DEFINE n == end(out) - SIZEOF_FLAP_HEAD
<1>3. n \in Int /\ n = end(out) - 6
  BY <1>2 DEF SIZEOF_FLAP_HEAD
<1>4. 0 + FLAP_LEN_OFFSET = 4 /\ end(out) - 0 - SIZEOF_FLAP_HEAD = n
  BY <1>2 DEF FLAP_LEN_OFFSET, SIZEOF_FLAP_HEAD
<1> HIDE DEF n
<1>5. /\ Writable(out') /\ out'.invalid = out.invalid /\ end(out') = end(out)
      /\ 6 <= end(out) =>
              /\ Stands(out'.data, 4, Word_2_Charsb(n))
              /\ \A i \in 1 .. end(out) : i <= 4 \/ 6 < i => out'.data[i] = out.data[i]
  <2>1. out' = bsUpdateWord(out, 4, n)
    BY <1>1, <1>4
  <2>2. PICK c : c = bsUpdateWord(out, 4, n)
    OBVIOUS
  <2>3. 4 \in Int /\ 0 <= 4 /\ 4 + 2 = 6
    OBVIOUS
  <2>4. /\ Writable(c) /\ c.invalid = out.invalid /\ end(c) = end(out)
        /\ 0 <= 4 /\ 4 + 2 <= end(out) =>
              /\ Stands(c.data, 4, Word_2_Charsb(n))
              /\ \A i \in 1 .. end(out) : i <= 4 \/ 4 + 2 < i => c.data[i] = out.data[i]
    BY <1>1, <1>3, <2>2, <2>3, Updated
  <2> QED
    BY <2>1, <2>2, <2>3, <2>4 DEF end
<1>6. ASSUME ~out'.invalid
      PROVE  /\ end(out') <= SIZEOF_FLAP_HEAD + Len(made') * w /\ Front6'
             /\ \E to : Layout(out'.data, made', open', size', to) /\ Read(to)'
  <2>1. /\ ~out.invalid /\ end(out) <= SIZEOF_FLAP_HEAD + Len(made) * w /\ Stands(out.data, 0, HeadBytes(0))
        /\ phase' = "head"
    BY <1>1, <1>5, <1>6 DEF Packet, Front6
  <2>2. PICK at : Layout(out.data, made, open, size, at)
    BY <2>1 DEF Packet
  <2>3. /\ at \in [0 .. Len(made) -> Nat] /\ at[0] = 6
        /\ \A i \in 1 .. Len(made) : at[i] = at[i - 1] + Taken(made[i])
        /\ at[Len(made)] = end(out)
        /\ \A i, j \in 0 .. Len(made) : i <= j => at[i] <= at[j]
        /\ \A i \in 1 .. Len(made) : Stands(out.data, at[i - 1], Code(made[i]))
    BY <2>2 DEF Layout, Placed, Ends, Rising, Bodies, end, SIZEOF_FLAP_HEAD
  <2>4. 6 <= end(out)
    <3>1. 0 \in 0 .. Len(made) /\ Len(made) \in 0 .. Len(made) /\ 0 <= Len(made)
      BY <1>2
    <3> QED
      BY <3>1, <2>3
  <2>5. /\ Stands(out'.data, 4, Word_2_Charsb(n))
        /\ \A i \in 1 .. end(out) : i <= 4 \/ 6 < i => out'.data[i] = out.data[i]
    BY <2>4, <1>5
  <2>6. out'.data \in Seq(Octet) /\ Len(out'.data) = Len(out.data) /\ Len(out.data) = end(out)
    BY <1>5 DEF Writable, Fits, Stream, end
  <2>7. ASSUME NEW p \in Nat, NEW s \in Seq(Octet), Stands(out.data, p, s), p + Len(s) <= 4 \/ 6 <= p
        PROVE  Stands(out'.data, p, s)
    <3>1. PICK pos \in Nat : pos = 4
      OBVIOUS
    <3>2. /\ \A i \in 1 .. Len(out.data) : i <= pos \/ pos + 2 < i => out'.data[i] = out.data[i]
          /\ p + Len(s) <= pos \/ pos + 2 <= p
      BY <3>1, <2>5, <2>6, <2>7
    <3> QED
      BY <3>2, <2>6, <2>7, <1>2, AtOutside
  <2>8. Bodies(out'.data, made', at)
    <3>1. ASSUME NEW i \in 1 .. Len(made)
          PROVE  Stands(out'.data, at[i - 1], Code(made[i]))
      <4>1. made[i] \in Items /\ i - 1 \in 0 .. Len(made) /\ 0 \in 0 .. Len(made) /\ 0 <= i - 1
        BY <1>1, <1>2, ElementOfSeq
      <4>2. Code(made[i]) \in Seq(Octet)
        BY <4>1, ItemCode
      <4>3. at[i - 1] \in Nat /\ 6 <= at[i - 1] /\ Stands(out.data, at[i - 1], Code(made[i]))
        BY <4>1, <2>3
      <4> QED
        BY <4>2, <4>3, <2>7
    <3> QED
      BY <3>1, <1>1 DEF Bodies
  <2>9. Layout(out'.data, made', open', size', at)
    BY <2>2, <2>6, <2>8, <1>1 DEF Layout, Placed, Opened
  <2>10. Stands(out'.data, 0, HeadBytes(n))
    <3>1. PICK s \in Seq(Octet) : /\ Len(s) = 4 /\ HeadBytes(n) = s \o Word_2_Charsb(n)
                                 /\ HeadBytes(0) = s \o Word_2_Charsb(0)
      BY <1>3, HeadParts
    <3>2. Word_2_Charsb(n) \in Seq(Octet) /\ Word_2_Charsb(0) \in Seq(Octet)
      <4>1. 0 \in Int
        OBVIOUS
      <4> QED
        BY <4>1, <1>3, TwoBytes, Zenon
    <3>3. 0 \in Nat /\ 0 + Len(s) = 4
      BY <3>1
    <3>4. Stands(out.data, 0, s)
      BY <3>1, <3>2, <3>3, <2>1, <1>2, AtParts, Zenon
    <3>5. Stands(out'.data, 0, s)
      <4>1. 0 + Len(s) <= 4
        <5>1. Len(s) = 4
          BY <3>1
        <5>2. \A l : l = 4 => 0 + l <= 4
          OBVIOUS
        <5> QED
          BY <5>1, <5>2, Zenon
      <4> QED
        BY <4>1, <3>3, <3>4, <2>7, Zenon
    <3>6. Stands(out'.data, 0 + Len(s), Word_2_Charsb(n))
      BY <3>3, <2>5
    <3>7. Stands(out'.data, 0, s \o Word_2_Charsb(n))
      BY <3>2, <3>3, <3>5, <3>6, <2>6, AtJoined, Zenon
    <3> QED
      BY <3>1, <3>7
  <2>11. Front6'
    <3>1. (end(out) - SIZEOF_FLAP_HEAD)' = n
      BY <1>5 DEF n, end
    <3> QED
      BY <3>1, <2>1, <2>10 DEF Front6
  <2>12. Read(at)'
    BY <2>1 DEF Read
  <2>13. end(out') <= SIZEOF_FLAP_HEAD + Len(made') * w
    BY <2>1, <1>1, <1>5
  <2> QED
    BY <2>9, <2>11, <2>12, <2>13
<1> QED
  BY <1>1, <1>6 DEF Packet, end

LEMMA WholeInit ==
  ASSUME NEW w, Sayable(w), Init
  PROVE  Packet(w)
<1>1. made = <<>> /\ made \in Seq(Items) /\ Len(made) = 0 /\ phase = "build" /\ open = None /\ size = 0
  BY DEF Init
<1>2. w \in Nat /\ 0 * w = 0
  BY DEF Sayable
<1>3. ASSUME ~out.invalid
      PROVE  /\ end(out) <= SIZEOF_FLAP_HEAD + Len(made) * w /\ Front6
             /\ \E at : Layout(out.data, made, open, size, at) /\ Read(at)
  <2>1. HeadBytes(0) \in Seq(Octet) /\ Len(HeadBytes(0)) = 6 /\ out.data = HeadBytes(0)
    <3>1. 0 \in Int
      OBVIOUS
    <3> QED
      BY <3>1, <1>3, InitialStream, HeadBytesTyped, Zenon
  <2>2. end(out) = 6 /\ Len(out.data) = 6
    BY <2>1 DEF end
  <2>3. Front6
    <3>1. Stands(out.data, 0, HeadBytes(0))
      BY <2>1 DEF Stands
    <3> QED
      BY <3>1, <1>1 DEF Front6
  <2> DEFINE at == [i \in 0 .. 0 |-> 6]
  <2>4. Layout(out.data, made, open, size, at)
    BY <1>1, <2>2 DEF Layout, Placed, Opened, Ends, Rising, Bodies, SIZEOF_FLAP_HEAD, end
  <2>5. Read(at)
    BY <1>1 DEF Read
  <2>6. end(out) <= SIZEOF_FLAP_HEAD + Len(made) * w
    BY <1>1, <1>2, <2>2 DEF SIZEOF_FLAP_HEAD
  <2> QED
    BY <2>3, <2>4, <2>5, <2>6
<1>4. size <= Len(made) * w /\ \A i \in 1 .. Len(made) : Says(made[i])
  BY <1>1, <1>2
<1> QED
  BY <1>3, <1>4 DEF Packet

-----------------------------------------------------------------------------
\* What the readers do: to any stream, and to one whose pointer stands before
\* the bytes of what is read.

Kept(b, c) == Fits(c) /\ c.data = b.data /\ c.len = b.len
Passed(b, c, n) == Kept(b, c) /\ c.ptr = b.ptr + n /\ c.fault = b.fault

LEMMA Piece ==
  ASSUME NEW d \in Seq(Octet), NEW p \in Nat, NEW k \in Nat, p + k <= Len(d)
  PROVE  /\ SubSeq(d, p + 1, p + k) \in Seq(Octet) /\ Len(SubSeq(d, p + 1, p + k)) = k
         /\ \A i \in 1 .. k : SubSeq(d, p + 1, p + k)[i] = d[p + i]
<1>1. PICK m \in Int, n \in Int : m = p + 1 /\ n = p + k
  OBVIOUS
<1>2. \A i \in m .. n : d[i] \in Octet
  <2>1. ASSUME NEW i \in m .. n
        PROVE  i \in 1 .. Len(d)
    BY <1>1, LenProperties
  <2> QED
    BY <2>1, ElementOfSeq
<1>3. /\ SubSeq(d, m, n) \in Seq(Octet)
      /\ Len(SubSeq(d, m, n)) = IF m <= n THEN n - m + 1 ELSE 0
      /\ \A i \in 1 .. n - m + 1 : SubSeq(d, m, n)[i] = d[m + i - 1]
  <2>1. PICK S : S = Octet
    OBVIOUS
  <2>2. \A i \in m .. n : d[i] \in S
    BY <1>2, <2>1
  <2>3. /\ SubSeq(d, m, n) \in Seq(S)
        /\ Len(SubSeq(d, m, n)) = IF m <= n THEN n - m + 1 ELSE 0
        /\ \A i \in 1 .. n - m + 1 : SubSeq(d, m, n)[i] = d[m + i - 1]
    BY <2>2, SubSeqProperties
  <2> QED
    BY <2>1, <2>3
<1>4. PICK t : t = SubSeq(d, m, n)
  OBVIOUS
<1>5. /\ t \in Seq(Octet) /\ Len(t) = IF m <= n THEN n - m + 1 ELSE 0
      /\ \A i \in 1 .. n - m + 1 : t[i] = d[m + i - 1]
  BY <1>3, <1>4
<1>6. (IF m <= n THEN n - m + 1 ELSE 0) = k /\ n - m + 1 = k /\ \A i \in 1 .. k : m + i - 1 = p + i
  BY <1>1
<1>7. t \in Seq(Octet) /\ Len(t) = k /\ \A i \in 1 .. k : t[i] = d[p + i]
  BY <1>5, <1>6
<1> QED
  BY <1>1, <1>4, <1>7

LEMMA ReadsAny ==
  ASSUME NEW b, Fits(b), NEW n \in Nat
  PROVE  /\ Kept(b, bsRead(b, n).bs)
         /\ bsRead(b, n).bytes \in Seq(Octet) /\ Len(bsRead(b, n).bytes) <= n
<1> DEFINE got == Min({n, end(b) - b.ptr})
           rd == bsRead(b, n)
<1>1. b \in Stream /\ b.data \in Seq(Octet) /\ end(b) \in Nat /\ b.ptr \in Nat /\ end(b) = Len(b.data)
  BY LenProperties DEF Fits, Stream, end
<1>2. got = (IF n <= end(b) - b.ptr THEN n ELSE end(b) - b.ptr) /\ got \in Int
  BY <1>1, LeastOfTwo
<1>3. rd = IF got < 0 THEN [bs |-> [b EXCEPT !.fault = TRUE], bytes |-> <<>>]
          ELSE [bs |-> [b EXCEPT !.ptr = @ + got], bytes |-> SubSeq(b.data, b.ptr + 1, b.ptr + got)]
  BY DEF bsRead
<1> HIDE DEF got, rd
<1>4. CASE got < 0
  <2>1. rd.bs = [b EXCEPT !.fault = TRUE] /\ rd.bytes = <<>>
    BY <1>3, <1>4
  <2>2. rd.bs \in Stream /\ rd.bs.data = b.data /\ rd.bs.len = b.len
    BY <2>1, <1>1 DEF Stream
  <2>3. Kept(b, rd.bs)
    BY <2>2 DEF Kept, Fits, end
  <2>4. rd.bytes \in Seq(Octet) /\ Len(rd.bytes) <= n
    BY <2>1
  <2> QED
    BY <2>3, <2>4 DEF rd
<1>5. CASE ~(got < 0)
  <2>1. rd.bs = [b EXCEPT !.ptr = @ + got] /\ rd.bytes = SubSeq(b.data, b.ptr + 1, b.ptr + got)
    BY <1>3, <1>5
  <2>2. b.ptr + got \in Nat /\ b.ptr + got <= Len(b.data) /\ got <= n /\ got \in Nat
    BY <1>1, <1>2, <1>5
  <2>3. rd.bs \in Stream /\ rd.bs.data = b.data /\ rd.bs.len = b.len
    BY <2>1, <2>2, <1>1 DEF Stream
  <2>4. Kept(b, rd.bs)
    BY <2>3 DEF Kept, Fits, end
  <2>5. rd.bytes \in Seq(Octet) /\ Len(rd.bytes) = got
    BY <2>1, <2>2, <1>1, Piece
  <2> QED
    BY <2>2, <2>4, <2>5 DEF rd
<1> QED
  BY <1>4, <1>5

LEMMA ReadsAt ==
  ASSUME NEW b, Fits(b), NEW s \in Seq(Octet), Stands(b.data, b.ptr, s)
  PROVE  Passed(b, bsRead(b, Len(s)).bs, Len(s)) /\ bsRead(b, Len(s)).bytes = s
<1> DEFINE n == Len(s)
           got == Min({n, end(b) - b.ptr})
           rd == bsRead(b, n)
<1>1. b \in Stream /\ b.data \in Seq(Octet) /\ end(b) \in Nat /\ b.ptr \in Nat /\ n \in Nat /\ end(b) = Len(b.data)
  BY LenProperties DEF Fits, Stream, end
<1>2. b.ptr + n <= end(b) /\ \A j \in 1 .. n : b.data[b.ptr + j] = s[j]
  BY DEF Stands, end
<1>3. rd = IF got < 0 THEN [bs |-> [b EXCEPT !.fault = TRUE], bytes |-> <<>>]
          ELSE [bs |-> [b EXCEPT !.ptr = @ + got], bytes |-> SubSeq(b.data, b.ptr + 1, b.ptr + got)]
  BY DEF bsRead
<1> HIDE DEF n
<1>4. got = n
  <2>1. got = IF n <= end(b) - b.ptr THEN n ELSE end(b) - b.ptr
    BY <1>1, LeastOfTwo
  <2> HIDE DEF got
  <2> QED
    BY <2>1, <1>1, <1>2
<1> HIDE DEF got, rd
<1>5. rd.bs = [b EXCEPT !.ptr = @ + n] /\ rd.bytes = SubSeq(b.data, b.ptr + 1, b.ptr + n)
  <2>1. ~(got < 0)
    BY <1>1, <1>4
  <2>2. rd = [bs |-> [b EXCEPT !.ptr = @ + got], bytes |-> SubSeq(b.data, b.ptr + 1, b.ptr + got)]
    BY <1>3, <2>1
  <2> QED
    BY <2>2, <1>4
<1>6. rd.bs \in Stream /\ rd.bs.data = b.data /\ rd.bs.len = b.len /\ rd.bs.ptr = b.ptr + n /\ rd.bs.fault = b.fault
  <2>1. PICK p \in Nat : p = b.ptr + n
    BY <1>1
  <2>2. rd.bs = [b EXCEPT !.ptr = p]
    BY <1>5, <2>1
  <2> QED
    BY <1>1, <2>1, <2>2 DEF Stream
<1>7. Passed(b, rd.bs, n)
  BY <1>6 DEF Passed, Kept, Fits, end
<1>8. rd.bytes = s
  <2> DEFINE t == SubSeq(b.data, b.ptr + 1, b.ptr + n)
  <2>1. t \in Seq(Octet) /\ Len(t) = n /\ \A i \in 1 .. n : t[i] = b.data[b.ptr + i]
    BY <1>1, <1>2, Piece
  <2> HIDE DEF t
  <2>2. Len(s) = n
    BY DEF n
  <2>3. t = s
    BY <2>1, <2>2, <1>2, SeqEqual
  <2> QED
    BY <2>3, <1>5 DEF t
<1> QED
  BY <1>7, <1>8 DEF rd, n

LEMMA PaddedAny ==
  ASSUME NEW s \in Seq(Octet), NEW n \in Nat, Len(s) <= n
  PROVE  Padded(s, n) \in Seq(Octet) /\ Len(Padded(s, n)) = n
<1> DEFINE z == [i \in 1 .. n - Len(s) |-> 0]
<1>1. n - Len(s) \in Nat /\ Len(s) \in Nat
  BY LenProperties
<1>2. z \in Seq(Octet) /\ Len(z) = n - Len(s)
  <2>1. z \in [1 .. n - Len(s) -> Octet]
    BY DEF Octet, Cipher
  <2> HIDE DEF z
  <2> QED
    BY <1>1, <2>1, FunctionIsSeq
<1>3. Padded(s, n) = s \o z
  BY DEF Padded
<1> HIDE DEF z
<1>4. s \o z \in Seq(Octet) /\ Len(s \o z) = Len(s) + Len(z)
  BY <1>2, Joined, Zenon
<1> QED
  BY <1>1, <1>2, <1>3, <1>4

LEMMA PaddedFull ==
  ASSUME NEW s \in Seq(Octet), NEW n \in Nat, Len(s) = n
  PROVE  Padded(s, n) = s
<1> DEFINE z == [i \in 1 .. n - Len(s) |-> 0]
<1>1. z = <<>>
  <2>1. n - Len(s) = 0
    OBVIOUS
  <2>2. z = [i \in 1 .. 0 |-> 0]
    BY <2>1
  <2> QED
    BY <2>2
<1>2. Padded(s, n) = s \o z
  BY DEF Padded
<1> HIDE DEF z
<1> QED
  BY <1>1, <1>2, ConcatEmptySeq

LEMMA KeptTwice ==
  ASSUME NEW b, NEW c, Kept(b, c), NEW d, Kept(c, d)
  PROVE  Kept(b, d)
  BY DEF Kept

LEMMA PassedTwice ==
  ASSUME NEW b, Fits(b), NEW n \in Nat, NEW c, Passed(b, c, n), NEW m \in Nat, NEW d, Passed(c, d, m)
  PROVE  Passed(b, d, n + m)
<1>1. b.ptr \in Nat
  BY DEF Fits, Stream
<1>2. (b.ptr + n) + m = b.ptr + (n + m)
  BY <1>1
<1> QED
  BY <1>2 DEF Passed, Kept

LEMMA ByteReadAny ==
  ASSUME NEW b, Fits(b)
  PROVE  Kept(b, bsReadByte(b).bs) /\ bsReadByte(b).value \in Octet
<1> DEFINE rd == bsRead(b, 1)
<1>1. Kept(b, rd.bs) /\ rd.bytes \in Seq(Octet) /\ Len(rd.bytes) <= 1
  <2>1. 1 \in Nat
    OBVIOUS
  <2> QED
    BY <2>1, ReadsAny, Zenon
<1>2. bsReadByte(b) = [bs |-> rd.bs, value |-> Padded(rd.bytes, 1)[1]]
  BY DEF bsReadByte, Result
<1> HIDE DEF rd
<1>3. Padded(rd.bytes, 1) \in Seq(Octet) /\ Len(Padded(rd.bytes, 1)) = 1
  <2>1. 1 \in Nat
    OBVIOUS
  <2> QED
    BY <2>1, <1>1, PaddedAny, Zenon
<1>4. Padded(rd.bytes, 1)[1] \in Octet
  BY <1>3, ElementOfSeq
<1> QED
  BY <1>1, <1>2, <1>4

LEMMA WordOfTwo ==
  ASSUME NEW s \in Seq(Octet), Len(s) = 2
  PROVE  s[1] * 256 + s[2] \in Nat /\ s[2] * 256 + s[1] \in Nat
<1>1. s[1] \in Nat /\ s[2] \in Nat
  BY ElementOfSeq, Octets
<1> QED
  BY <1>1

LEMMA WordReadAny ==
  ASSUME NEW b, Fits(b)
  PROVE  /\ Kept(b, bsReadWord(b).bs) /\ bsReadWord(b).value \in Nat
         /\ Kept(b, bsReadWordLE(b).bs) /\ bsReadWordLE(b).value \in Nat
<1> DEFINE rd == bsRead(b, 2)
<1>1. Kept(b, rd.bs) /\ rd.bytes \in Seq(Octet) /\ Len(rd.bytes) <= 2
  <2>1. 2 \in Nat
    OBVIOUS
  <2> QED
    BY <2>1, ReadsAny, Zenon
<1>2. /\ bsReadWord(b) = [bs |-> rd.bs, value |-> Padded(rd.bytes, 2)[1] * 256 + Padded(rd.bytes, 2)[2]]
      /\ bsReadWordLE(b) = [bs |-> rd.bs, value |-> Padded(rd.bytes, 2)[2] * 256 + Padded(rd.bytes, 2)[1]]
  BY DEF bsReadWord, bsReadWordLE, Chars_2_Wordb, Chars_2_Word, Result
<1> HIDE DEF rd
<1>3. Padded(rd.bytes, 2) \in Seq(Octet) /\ Len(Padded(rd.bytes, 2)) = 2
  <2>1. 2 \in Nat
    OBVIOUS
  <2> QED
    BY <2>1, <1>1, PaddedAny, Zenon
<1>4. /\ Padded(rd.bytes, 2)[1] * 256 + Padded(rd.bytes, 2)[2] \in Nat
      /\ Padded(rd.bytes, 2)[2] * 256 + Padded(rd.bytes, 2)[1] \in Nat
  BY <1>3, WordOfTwo
<1> QED
  BY <1>1, <1>2, <1>4

LEMMA DwordReadAny ==
  ASSUME NEW b, Fits(b)
  PROVE  Kept(b, bsReadDword(b).bs) /\ Kept(b, bsReadDwordLE(b).bs)
<1>1. Kept(b, bsRead(b, 4).bs)
  <2>1. 4 \in Nat
    OBVIOUS
  <2> QED
    BY <2>1, ReadsAny, Zenon
<1> QED
  BY <1>1 DEF bsReadDword, bsReadDwordLE, Result

LEMMA ByteReadAt ==
  ASSUME NEW b, Fits(b), NEW v \in Byte, Stands(b.data, b.ptr, <<v>>)
  PROVE  Passed(b, bsReadByte(b).bs, 1) /\ bsReadByte(b).value = v
<1> DEFINE s == <<v>>
           rd == bsRead(b, 1)
<1>1. s \in Seq(Octet) /\ Len(s) = 1 /\ s[1] = v
  BY OneByte
<1> HIDE DEF s
<1>2. Passed(b, bsRead(b, Len(s)).bs, Len(s)) /\ bsRead(b, Len(s)).bytes = s
  BY <1>1, ReadsAt DEF s
<1>3. Passed(b, rd.bs, 1) /\ rd.bytes = s
  BY <1>1, <1>2
<1>4. bsReadByte(b) = [bs |-> rd.bs, value |-> Padded(rd.bytes, 1)[1]]
  BY DEF bsReadByte, Result
<1> HIDE DEF rd
<1>5. Padded(s, 1) = s
  <2>1. 1 \in Nat
    OBVIOUS
  <2> QED
    BY <2>1, <1>1, PaddedFull, Zenon
<1> QED
  BY <1>1, <1>3, <1>4, <1>5

LEMMA WordReadAt ==
  ASSUME NEW b, Fits(b), NEW v \in Word, Stands(b.data, b.ptr, Word_2_Charsb(v))
  PROVE  Passed(b, bsReadWord(b).bs, 2) /\ bsReadWord(b).value = v
<1> DEFINE s == Word_2_Charsb(v)
           rd == bsRead(b, 2)
<1>1. v \in Int /\ s \in Seq(Octet) /\ Len(s) = 2
  <2>1. v \in Int
    BY BytesAreNumbers
  <2> QED
    BY <2>1, TwoBytes, Zenon
<1>2. s[1] * 256 + s[2] = v
  <2>1. s[1] = (v \div 256) % 256 /\ s[2] = v % 256
    BY DEF Word_2_Charsb
  <2>2. ((v \div 256) % 256) * 256 + (v % 256) = v
    BY <1>1, WordOfBytes, Zenon
  <2> HIDE DEF s
  <2> QED
    BY <2>1, <2>2, Zenon
<1> HIDE DEF s
<1>3. Passed(b, bsRead(b, Len(s)).bs, Len(s)) /\ bsRead(b, Len(s)).bytes = s
  BY <1>1, ReadsAt DEF s
<1>4. Passed(b, rd.bs, 2) /\ rd.bytes = s
  BY <1>1, <1>3
<1>5. bsReadWord(b) = [bs |-> rd.bs, value |-> Padded(rd.bytes, 2)[1] * 256 + Padded(rd.bytes, 2)[2]]
  BY DEF bsReadWord, Chars_2_Wordb, Result
<1> HIDE DEF rd
<1>6. Padded(s, 2) = s
  <2>1. 2 \in Nat
    OBVIOUS
  <2> QED
    BY <2>1, <1>1, PaddedFull, Zenon
<1> QED
  BY <1>2, <1>4, <1>5, <1>6

LEMMA WordLEReadAt ==
  ASSUME NEW b, Fits(b), NEW v \in Word, Stands(b.data, b.ptr, Word_2_Chars(v))
  PROVE  Passed(b, bsReadWordLE(b).bs, 2) /\ bsReadWordLE(b).value = v
<1> DEFINE s == Word_2_Chars(v)
           rd == bsRead(b, 2)
<1>1. v \in Int /\ s \in Seq(Octet) /\ Len(s) = 2
  <2>1. v \in Int
    BY BytesAreNumbers
  <2> QED
    BY <2>1, TwoBytes, Zenon
<1>2. s[2] * 256 + s[1] = v
  <2>1. s[2] = (v \div 256) % 256 /\ s[1] = v % 256
    BY DEF Word_2_Chars
  <2>2. ((v \div 256) % 256) * 256 + (v % 256) = v
    BY <1>1, WordOfBytes, Zenon
  <2> HIDE DEF s
  <2> QED
    BY <2>1, <2>2, Zenon
<1> HIDE DEF s
<1>3. Passed(b, bsRead(b, Len(s)).bs, Len(s)) /\ bsRead(b, Len(s)).bytes = s
  BY <1>1, ReadsAt DEF s
<1>4. Passed(b, rd.bs, 2) /\ rd.bytes = s
  BY <1>1, <1>3
<1>5. bsReadWordLE(b) = [bs |-> rd.bs, value |-> Padded(rd.bytes, 2)[2] * 256 + Padded(rd.bytes, 2)[1]]
  BY DEF bsReadWordLE, Chars_2_Word, Result
<1> HIDE DEF rd
<1>6. Padded(s, 2) = s
  <2>1. 2 \in Nat
    OBVIOUS
  <2> QED
    BY <2>1, <1>1, PaddedFull, Zenon
<1> QED
  BY <1>2, <1>4, <1>5, <1>6

LEMMA DwordReadAt ==
  ASSUME NEW b, Fits(b), NEW v \in [1 .. 4 -> Byte]
  PROVE  /\ Stands(b.data, b.ptr, v) => Passed(b, bsReadDword(b).bs, 4) /\ bsReadDword(b).value = v
         /\ Stands(b.data, b.ptr, Reverse(v)) => Passed(b, bsReadDwordLE(b).bs, 4) /\ bsReadDwordLE(b).value = v
<1> DEFINE rd == bsRead(b, 4)
<1>1. ASSUME NEW s \in Seq(Octet), Len(s) = 4, Stands(b.data, b.ptr, s)
      PROVE  Passed(b, rd.bs, 4) /\ rd.bytes = s /\ Padded(s, 4) = s
  <2>1. Passed(b, bsRead(b, Len(s)).bs, Len(s)) /\ bsRead(b, Len(s)).bytes = s
    BY <1>1, ReadsAt
  <2>2. 4 \in Nat
    OBVIOUS
  <2>3. Padded(s, 4) = s
    BY <2>2, <1>1, PaddedFull, Zenon
  <2> QED
    BY <1>1, <2>1, <2>3
<1>2. /\ bsReadDword(b) = [bs |-> rd.bs, value |-> Padded(rd.bytes, 4)]
      /\ bsReadDwordLE(b) = [bs |-> rd.bs, value |-> Reverse(Padded(rd.bytes, 4))]
  BY DEF bsReadDword, bsReadDwordLE, Chars_2_DWb, Chars_2_DW, Result
<1> HIDE DEF rd
<1>3. v \in Seq(Octet) /\ Len(v) = 4 /\ Reverse(v) \in Seq(Octet) /\ Len(Reverse(v)) = 4
  BY FourBytes
<1>4. Reverse(Reverse(v)) = v
  <2> DEFINE u == Reverse(v)
  <2>1. u \in Seq(Octet) /\ Len(u) = 4 /\ \A i \in 1 .. 4 : u[i] = v[5 - i]
    BY <1>3 DEF Reverse
  <2> HIDE DEF u
  <2>2. Len(Reverse(u)) = 4 /\ Reverse(u) \in Seq(Octet) /\ \A i \in 1 .. 4 : Reverse(u)[i] = u[5 - i]
    <3>1. Reverse(u) = [i \in 1 .. 4 |-> u[5 - i]]
      BY <2>1 DEF Reverse
    <3>2. [i \in 1 .. 4 |-> u[5 - i]] \in [1 .. 4 -> Octet]
      <4>1. \A i \in 1 .. 4 : 5 - i \in 1 .. Len(u)
        BY <2>1
      <4>2. \A i \in 1 .. 4 : u[5 - i] \in Octet
        BY <2>1, <4>1, ElementOfSeq
      <4> QED
        BY <4>2
    <3> QED
      BY <3>1, <3>2, FunctionIsSeq
  <2>3. \A i \in 1 .. 4 : Reverse(u)[i] = v[i]
    <3>1. \A i \in 1 .. 4 : 5 - i \in 1 .. 4 /\ 5 - (5 - i) = i
      OBVIOUS
    <3> QED
      BY <3>1, <2>1, <2>2
  <2>4. Reverse(u) = v
    BY <2>2, <2>3, <1>3, SeqEqual
  <2> QED
    BY <2>4 DEF u
<1>5. Stands(b.data, b.ptr, v) => Passed(b, bsReadDword(b).bs, 4) /\ bsReadDword(b).value = v
  BY <1>1, <1>2, <1>3
<1>6. Stands(b.data, b.ptr, Reverse(v)) => Passed(b, bsReadDwordLE(b).bs, 4) /\ bsReadDwordLE(b).value = v
  <2>1. PICK u : u = Reverse(v)
    OBVIOUS
  <2> QED
    BY <2>1, <1>1, <1>2, <1>3, <1>4
<1> QED
  BY <1>5, <1>6

LEMMA TlvReadAny ==
  ASSUME NEW b, Fits(b)
  PROVE  Kept(b, bsReadTlv(b).bs) /\ bsReadTlv(b).type \in Nat /\ bsReadTlv(b).len \in Nat
<1> DEFINE t == bsReadWord(b)
           l == bsReadWord(t.bs)
<1>1. Kept(b, t.bs) /\ t.value \in Nat
  BY WordReadAny
<1>2. Kept(t.bs, l.bs) /\ l.value \in Nat
  <2>1. Fits(t.bs)
    BY <1>1 DEF Kept
  <2> HIDE DEF t
  <2> QED
    BY <2>1, WordReadAny
<1>3. bsReadTlv(b) = [bs |-> l.bs, type |-> t.value, len |-> l.value]
  BY DEF bsReadTlv
<1> HIDE DEF t, l
<1> QED
  BY <1>1, <1>2, <1>3, KeptTwice

LEMMA TlvReadAt ==
  ASSUME NEW b, Fits(b), NEW type \in Word, NEW n \in Word,
         Stands(b.data, b.ptr, Word_2_Charsb(type) \o Word_2_Charsb(n))
  PROVE  Passed(b, bsReadTlv(b).bs, 4) /\ bsReadTlv(b).type = type /\ bsReadTlv(b).len = n
<1> DEFINE t == bsReadWord(b)
           l == bsReadWord(t.bs)
           u == Word_2_Charsb(type)
           v == Word_2_Charsb(n)
<1>1. u \in Seq(Octet) /\ Len(u) = 2 /\ v \in Seq(Octet) /\ Len(v) = 2
  <2>1. type \in Int /\ n \in Int
    BY BytesAreNumbers
  <2> QED
    BY <2>1, TwoBytes, Zenon
<1>2. b.data \in Seq(Octet) /\ b.ptr \in Nat
  BY DEF Fits, Stream
<1>3. Stands(b.data, b.ptr, u) /\ Stands(b.data, b.ptr + Len(u), v)
  <2> HIDE DEF u, v
  <2>1. Stands(b.data, b.ptr, u \o v)
    BY DEF u, v
  <2> QED
    BY <2>1, <1>1, <1>2, AtParts, Zenon
<1>4. Passed(b, t.bs, 2) /\ t.value = type
  BY <1>3, WordReadAt
<1>5. Fits(t.bs) /\ t.bs.data = b.data /\ t.bs.ptr = b.ptr + 2
  BY <1>4 DEF Passed, Kept
<1>6. Passed(t.bs, l.bs, 2) /\ l.value = n
  <2>1. Stands(t.bs.data, t.bs.ptr, v)
    <3> HIDE DEF t, u, v
    <3> QED
      BY <1>1, <1>3, <1>5
  <2> HIDE DEF t
  <2> QED
    BY <2>1, <1>5, WordReadAt
<1>7. bsReadTlv(b) = [bs |-> l.bs, type |-> t.value, len |-> l.value]
  BY DEF bsReadTlv
<1> HIDE DEF t, l
<1>8. Passed(b, l.bs, 4)
  <2>1. 2 \in Nat /\ 2 + 2 = 4
    OBVIOUS
  <2>2. Passed(b, l.bs, 2 + 2)
    BY <2>1, <1>4, <1>6, PassedTwice, Zenon
  <2> QED
    BY <2>1, <2>2
<1> QED
  BY <1>4, <1>6, <1>7, <1>8

\* A TLV and its value.
LEMMA TlvWholeAt ==
  ASSUME NEW b, Fits(b), NEW m \in FieldSet, m.kind = "tlv", Says(m), Stands(b.data, b.ptr, Code(m)),
         NEW t, t = bsReadTlv(b)
  PROVE  /\ Passed(b, t.bs, 4) /\ t.type = m.type /\ t.len = Len(m.value) /\ t.len \in Nat
         /\ Passed(t.bs, bsRead(t.bs, t.len).bs, Len(m.value)) /\ bsRead(t.bs, t.len).bytes = m.value
         /\ Passed(b, bsRead(t.bs, t.len).bs, Taken(m)) /\ Taken(m) = 4 + Len(m.value)
         /\ b.ptr + Taken(m) <= b.len
<1> DEFINE u == Word_2_Charsb(m.type)
           v == Word_2_Charsb(Len(m.value))
<1>1. m.type \in Word /\ m.value \in Seq(Octet) /\ Len(m.value) \in Word /\ Len(m.value) \in Nat
  <2>1. Len(m.value) \in Word
    BY DEF Says
  <2>2. m.type \in Word /\ m.value \in Seq(Octet)
    BY FieldKinds
  <2> QED
    BY <2>1, <2>2, BytesAreNumbers
<1>2. u \in Seq(Octet) /\ Len(u) = 2 /\ v \in Seq(Octet) /\ Len(v) = 2
  <2>1. m.type \in Int /\ Len(m.value) \in Int
    BY <1>1, BytesAreNumbers
  <2> QED
    BY <2>1, TwoBytes, Zenon
<1>3. Code(m) = (u \o v) \o m.value /\ Taken(m) = 4 + Len(m.value)
  BY DEF Code, Taken, FieldSize
<1>4. b.data \in Seq(Octet) /\ b.ptr \in Nat
  BY DEF Fits, Stream
<1> HIDE DEF u, v
<1>5. u \o v \in Seq(Octet) /\ Len(u \o v) = 4
  <2>1. u \o v \in Seq(Octet) /\ Len(u \o v) = Len(u) + Len(v)
    BY <1>2, Joined, Zenon
  <2> QED
    BY <2>1, <1>2
<1>6. Stands(b.data, b.ptr, u \o v) /\ Stands(b.data, b.ptr + Len(u \o v), m.value)
  BY <1>1, <1>3, <1>4, <1>5, AtParts
<1>7. Passed(b, t.bs, 4) /\ t.type = m.type /\ t.len = Len(m.value)
  BY <1>1, <1>6, TlvReadAt DEF u, v
<1>8. Fits(t.bs) /\ t.bs.data = b.data /\ t.bs.ptr = b.ptr + 4
  BY <1>7 DEF Passed, Kept
<1>9. Stands(t.bs.data, t.bs.ptr, m.value)
  BY <1>5, <1>6, <1>8
<1>10. Passed(t.bs, bsRead(t.bs, t.len).bs, Len(m.value)) /\ bsRead(t.bs, t.len).bytes = m.value
  <2>1. PICK c : c = t.bs
    OBVIOUS
  <2> QED
    BY <2>1, <1>1, <1>7, <1>8, <1>9, ReadsAt
<1>11. Passed(b, bsRead(t.bs, t.len).bs, 4 + Len(m.value))
  <2>1. 4 \in Nat
    OBVIOUS
  <2> QED
    BY <2>1, <1>1, <1>7, <1>10, PassedTwice, Zenon
<1>12. b.ptr + Taken(m) <= b.len
  <2>1. b.ptr + 4 + Len(m.value) <= Len(b.data) /\ Len(b.data) <= b.len /\ b.len \in Nat /\ Len(b.data) \in Nat
    BY <1>8, <1>9, LenProperties DEF Stands, Fits, Stream, end
  <2> QED
    BY <2>1, <1>1, <1>3, <1>4
<1> QED
  BY <1>1, <1>3, <1>7, <1>10, <1>11, <1>12

LEMMA ReadsInside ==
  ASSUME NEW b, Fits(b), b.ptr <= end(b), NEW n \in Nat
  PROVE  bsRead(b, n).bs.fault = b.fault
<1> DEFINE got == Min({n, end(b) - b.ptr})
<1>1. b \in Stream /\ end(b) \in Nat /\ b.ptr \in Nat
  BY LenProperties DEF Fits, Stream, end
<1>2. ~(got < 0)
  <2>1. got = IF n <= end(b) - b.ptr THEN n ELSE end(b) - b.ptr
    BY <1>1, LeastOfTwo
  <2> HIDE DEF got
  <2> QED
    BY <2>1, <1>1
<1>3. bsRead(b, n).bs = IF got < 0 THEN [b EXCEPT !.fault = TRUE] ELSE [b EXCEPT !.ptr = @ + got]
  BY DEF bsRead
<1> HIDE DEF got
<1> QED
  BY <1>1, <1>2, <1>3 DEF Stream

LEMMA StringReadAny ==
  ASSUME NEW b, Fits(b), NEW kind, NEW junk \in Nat
  PROVE  Kept(b, bsReadString(b, kind, junk).bs)
<1> DEFINE l == IF kind = "string08" THEN bsReadByte(b) ELSE bsReadWord(b)
           rd == bsRead(l.bs, l.value + junk)
<1>1. Kept(b, l.bs) /\ l.value \in Nat
  BY ByteReadAny, WordReadAny, Octets
<1>2. bsReadString(b, kind, junk).bs = IF l.bs.fault THEN l.bs ELSE rd.bs
  BY DEF bsReadString, Result
<1> HIDE DEF l
<1>3. Kept(l.bs, rd.bs)
  <2>1. Fits(l.bs) /\ l.value + junk \in Nat
    BY <1>1 DEF Kept
  <2> QED
    BY <2>1, ReadsAny
<1> HIDE DEF rd
<1> QED
  BY <1>1, <1>2, <1>3, KeptTwice

LEMMA ByteIsItself ==
  ASSUME NEW n \in Byte
  PROVE  n % 256 = n
<1>1. \A k \in Int : 0 <= k /\ k <= 255 => k % 256 = k
  OBVIOUS
<1>2. n \in Int /\ 0 <= n /\ n <= 255
  BY DEF Byte
<1> QED
  BY <1>1, <1>2

LEMMA StringReadAt ==
  ASSUME NEW b, Fits(b), ~b.fault, NEW m \in FieldSet, m.kind \in {"string08", "string16"}, Says(m),
         Stands(b.data, b.ptr, Code(m))
  PROVE  /\ Passed(b, bsReadString(b, m.kind, 0).bs, Taken(m))
         /\ bsReadString(b, m.kind, 0).value = m.value
         /\ \A junk \in Nat : ~bsReadString(b, m.kind, junk).bs.fault
<1> DEFINE l == IF m.kind = "string08" THEN bsReadByte(b) ELSE bsReadWord(b)
           s == IF m.kind = "string08" THEN <<Len(m.value) % 256>> ELSE Word_2_Charsb(Len(m.value))
<1>1. m.value \in Seq(Octet) /\ Len(m.value) \in Nat
  BY FieldKinds, LenProperties
<1>2. /\ s \in Seq(Octet) /\ Code(m) = s \o m.value /\ Taken(m) = Len(s) + Len(m.value) /\ Len(s) \in Nat
      /\ Stands(b.data, b.ptr, s) => Passed(b, l.bs, Len(s)) /\ l.value = Len(m.value)
  <2>1. CASE m.kind = "string08"
    <3>1. Len(m.value) \in Byte
      BY <2>1 DEF Says
    <3>2. Len(m.value) % 256 = Len(m.value)
      BY <3>1, ByteIsItself
    <3>3. s = <<Len(m.value)>> /\ Code(m) = s \o m.value /\ l = bsReadByte(b) /\ Taken(m) = 1 + Len(m.value)
      BY <2>1, <3>2 DEF Code, Taken, FieldSize
    <3> HIDE DEF s, l
    <3>4. s \in Seq(Octet) /\ Len(s) = 1
      BY <3>1, <3>3, OneByte
    <3>5. ASSUME Stands(b.data, b.ptr, s)
          PROVE  Passed(b, l.bs, 1) /\ l.value = Len(m.value)
      <4>1. Stands(b.data, b.ptr, <<Len(m.value)>>)
        BY <3>3, <3>5
      <4>2. Passed(b, bsReadByte(b).bs, 1) /\ bsReadByte(b).value = Len(m.value)
        BY <4>1, <3>1, ByteReadAt, Zenon
      <4> QED
        BY <4>2, <3>3
    <3> QED
      BY <3>3, <3>4, <3>5
  <2>2. CASE m.kind = "string16"
    <3>1. Len(m.value) \in Word /\ Len(m.value) \in Int
      BY <2>2, BytesAreNumbers DEF Says
    <3>3. s = Word_2_Charsb(Len(m.value)) /\ Code(m) = s \o m.value /\ l = bsReadWord(b) /\ Taken(m) = 2 + Len(m.value)
      BY <2>2 DEF Code, Taken, FieldSize
    <3> HIDE DEF s, l
    <3>4. s \in Seq(Octet) /\ Len(s) = 2
      BY <3>1, <3>3, TwoBytes
    <3>5. ASSUME Stands(b.data, b.ptr, s)
          PROVE  Passed(b, l.bs, 2) /\ l.value = Len(m.value)
      <4>1. Stands(b.data, b.ptr, Word_2_Charsb(Len(m.value)))
        BY <3>3, <3>5
      <4>2. Passed(b, bsReadWord(b).bs, 2) /\ bsReadWord(b).value = Len(m.value)
        BY <4>1, <3>1, WordReadAt, Zenon
      <4> QED
        BY <4>2, <3>3
    <3> QED
      BY <3>3, <3>4, <3>5
  <2> QED
    BY <2>1, <2>2
<1>3. b.data \in Seq(Octet) /\ b.ptr \in Nat
  BY DEF Fits, Stream
<1>4. \A junk : bsReadString(b, m.kind, junk) =
        IF l.bs.fault THEN l ELSE [bs |-> bsRead(l.bs, l.value + junk).bs, value |-> bsRead(l.bs, l.value + junk).bytes]
  BY DEF bsReadString, Result
<1> HIDE DEF l, s
<1>5. Stands(b.data, b.ptr, s) /\ Stands(b.data, b.ptr + Len(s), m.value)
  BY <1>1, <1>2, <1>3, AtParts
<1>6. Passed(b, l.bs, Len(s)) /\ l.value = Len(m.value) /\ ~l.bs.fault
  BY <1>2, <1>5 DEF Passed
<1>7. Fits(l.bs) /\ l.bs.data = b.data /\ l.bs.ptr = b.ptr + Len(s)
  BY <1>6 DEF Passed, Kept
<1>8. Stands(l.bs.data, l.bs.ptr, m.value)
  BY <1>5, <1>7
<1> DEFINE rd == bsRead(l.bs, Len(m.value))
<1>9. Passed(l.bs, rd.bs, Len(m.value)) /\ rd.bytes = m.value
  <2>1. PICK c : c = l.bs
    OBVIOUS
  <2> QED
    BY <2>1, <1>1, <1>7, <1>8, ReadsAt
<1>10. Passed(b, rd.bs, Taken(m))
  <2> HIDE DEF rd
  <2> QED
    BY <1>1, <1>2, <1>6, <1>9, PassedTwice, Zenon
<1>11. bsReadString(b, m.kind, 0) = [bs |-> rd.bs, value |-> rd.bytes]
  <2>1. l.value + 0 = Len(m.value)
    BY <1>1, <1>6
  <2> QED
    BY <2>1, <1>4, <1>6
<1>12. ASSUME NEW junk \in Nat
       PROVE  ~bsReadString(b, m.kind, junk).bs.fault
  <2>1. l.value + junk \in Nat
    BY <1>1, <1>6
  <2>2. l.bs.ptr <= end(l.bs)
    <3>1. Len(l.bs.data) \in Nat /\ l.bs.ptr \in Nat /\ l.bs.ptr + Len(m.value) <= Len(l.bs.data)
      BY <1>7, <1>8, LenProperties DEF Stands, Fits, Stream
    <3> QED
      BY <3>1, <1>1 DEF end
  <2>3. bsRead(l.bs, l.value + junk).bs.fault = l.bs.fault
    BY <2>1, <2>2, <1>7, ReadsInside
  <2>4. PICK c : c = bsRead(l.bs, l.value + junk)
    OBVIOUS
  <2>5. bsReadString(b, m.kind, junk) = [bs |-> c.bs, value |-> c.bytes]
    BY <2>4, <1>4, <1>6
  <2>6. bsReadString(b, m.kind, junk).bs = c.bs
    BY <2>5
  <2> QED
    BY <2>3, <2>4, <2>6, <1>6
<1> HIDE DEF rd
<1> QED
  BY <1>9, <1>10, <1>11, <1>12

\* The head of the packet.
LEMMA FlapHeadAt ==
  ASSUME NEW b, Fits(b), NEW n \in Word, Stands(b.data, b.ptr, HeadBytes(n))
  PROVE  LET rd == bsReadFlapHead(b) IN rd.ok /\ rd.len = n /\ Passed(b, rd.bs, 6)
<1> DEFINE u == <<42>>
           v == <<2>>
           x == Word_2_Charsb(Seq0)
           y == Word_2_Charsb(n)
           c == bsReadByte(b)
           d == bsReadByte(c.bs)
           e == bsReadWord(d.bs)
           f == bsReadWord(e.bs)
<1>1. /\ u \in Seq(Octet) /\ Len(u) = 1 /\ v \in Seq(Octet) /\ Len(v) = 1 /\ 42 \in Byte /\ 2 \in Byte
      /\ x \in Seq(Octet) /\ Len(x) = 2 /\ y \in Seq(Octet) /\ Len(y) = 2 /\ Seq0 \in Word
  <2>1. Seq0 \in Word /\ 42 \in Byte /\ 2 \in Byte
    BY DEF Seq0, Word, Byte
  <2>2. Seq0 \in Int /\ n \in Int
    BY <2>1, BytesAreNumbers
  <2>3. x \in Seq(Octet) /\ Len(x) = 2 /\ y \in Seq(Octet) /\ Len(y) = 2
    BY <2>2, TwoBytes, Zenon
  <2>4. u \in Seq(Octet) /\ Len(u) = 1 /\ v \in Seq(Octet) /\ Len(v) = 1
    BY <2>1, OneByte
  <2> QED
    BY <2>1, <2>3, <2>4
<1>2. HeadBytes(n) = ((u \o v) \o x) \o y
  <2>1. <<42, 2>> = u \o v
    OBVIOUS
  <2> QED
    BY <2>1 DEF HeadBytes
<1>3. b.data \in Seq(Octet) /\ b.ptr \in Nat
  BY DEF Fits, Stream
<1>4. c = bsReadByte(b) /\ d = bsReadByte(c.bs) /\ e = bsReadWord(d.bs) /\ f = bsReadWord(e.bs)
  OBVIOUS
<1>5. bsReadFlapHead(b) = IF c.value # 42 THEN [bs |-> bsSeek(c.bs, c.bs.ptr - 1), ok |-> FALSE]
         ELSE [bs |-> f.bs, ok |-> TRUE, channelId |-> d.value, seq |-> e.value, len |-> f.value]
  BY DEF bsReadFlapHead
<1> HIDE DEF u, v, x, y, c, d, e, f
<1>6. /\ u \o v \in Seq(Octet) /\ Len(u \o v) = 2
      /\ (u \o v) \o x \in Seq(Octet) /\ Len((u \o v) \o x) = 4
  <2>1. u \o v \in Seq(Octet) /\ Len(u \o v) = Len(u) + Len(v)
    BY <1>1, Joined, Zenon
  <2>2. (u \o v) \o x \in Seq(Octet) /\ Len((u \o v) \o x) = Len(u \o v) + Len(x)
    BY <1>1, <2>1, Joined, Zenon
  <2> QED
    BY <1>1, <2>1, <2>2
<1>7. Stands(b.data, b.ptr, (u \o v) \o x) /\ Stands(b.data, b.ptr + Len((u \o v) \o x), y)
  BY <1>1, <1>2, <1>3, <1>6, AtParts
<1>8. Stands(b.data, b.ptr, u \o v) /\ Stands(b.data, b.ptr + Len(u \o v), x)
  BY <1>1, <1>3, <1>6, <1>7, AtParts
<1>9. Stands(b.data, b.ptr, u) /\ Stands(b.data, b.ptr + Len(u), v)
  BY <1>1, <1>3, <1>8, AtParts
<1>10. Passed(b, c.bs, 1) /\ c.value = 42
  BY <1>1, <1>4, <1>9, ByteReadAt DEF u
<1>11. Fits(c.bs) /\ c.bs.data = b.data /\ c.bs.ptr = b.ptr + 1
  BY <1>10 DEF Passed, Kept
<1>12. Passed(c.bs, d.bs, 1)
  <2>1. Stands(c.bs.data, c.bs.ptr, <<2>>)
    BY <1>1, <1>9, <1>11 DEF v
  <2> QED
    BY <2>1, <1>1, <1>4, <1>11, ByteReadAt
<1>13. Passed(b, d.bs, 2)
  <2>1. 1 \in Nat /\ 1 + 1 = 2
    OBVIOUS
  <2>2. Passed(b, d.bs, 1 + 1)
    BY <2>1, <1>10, <1>12, PassedTwice, Zenon
  <2> QED
    BY <2>1, <2>2
<1>14. Fits(d.bs) /\ d.bs.data = b.data /\ d.bs.ptr = b.ptr + 2
  BY <1>13 DEF Passed, Kept
<1>15. Passed(d.bs, e.bs, 2)
  <2>1. Stands(d.bs.data, d.bs.ptr, Word_2_Charsb(Seq0))
    BY <1>6, <1>8, <1>14 DEF x
  <2> QED
    BY <2>1, <1>1, <1>4, <1>14, WordReadAt
<1>16. Passed(b, e.bs, 4)
  <2>1. 2 \in Nat /\ 2 + 2 = 4
    OBVIOUS
  <2>2. Passed(b, e.bs, 2 + 2)
    BY <2>1, <1>13, <1>15, PassedTwice, Zenon
  <2> QED
    BY <2>1, <2>2
<1>17. Fits(e.bs) /\ e.bs.data = b.data /\ e.bs.ptr = b.ptr + 4
  BY <1>16 DEF Passed, Kept
<1>18. Passed(e.bs, f.bs, 2) /\ f.value = n
  <2>1. Stands(e.bs.data, e.bs.ptr, Word_2_Charsb(n))
    BY <1>6, <1>7, <1>17 DEF y
  <2> QED
    BY <2>1, <1>4, <1>17, WordReadAt
<1>19. Passed(b, f.bs, 6)
  <2>1. 2 \in Nat /\ 4 \in Nat /\ 4 + 2 = 6
    OBVIOUS
  <2>2. Passed(b, f.bs, 4 + 2)
    BY <2>1, <1>16, <1>18, PassedTwice, Zenon
  <2> QED
    BY <2>1, <2>2
<1>20. bsReadFlapHead(b) = [bs |-> f.bs, ok |-> TRUE, channelId |-> d.value, seq |-> e.value, len |-> f.value]
  BY <1>5, <1>10
<1> QED
  BY <1>18, <1>19, <1>20

-----------------------------------------------------------------------------
\* The receiver.

LEMMA CameInit == Init => Came
<1> SUFFICES ASSUME Init
             PROVE  Came
  OBVIOUS
<1>1. Fits(initBs) /\ ~initBs.fault
  BY EmptyStream DEF Writable
<1>2. phase = "build" /\ in = initBs /\ wire = <<>> /\ parsed = <<>> /\ cut = FALSE
  BY DEF Init
<1>3. wire \in Seq(Octet) /\ cut \in BOOLEAN
  <2>1. <<>> \in Seq(Octet)
    OBVIOUS
  <2>2. FALSE \in BOOLEAN
    OBVIOUS
  <2> QED
    BY <2>1, <2>2, <1>2, Zenon
<1> QED
  BY <1>1, <1>2, <1>3 DEF Came

LEMMA BuildCame == Came /\ (AppendField \/ OpenTlv \/ CloseTlv) => Came'
<1> SUFFICES ASSUME Came, AppendField \/ OpenTlv \/ CloseTlv
             PROVE  Came'
  OBVIOUS
<1>1. phase = "build" /\ UNCHANGED <<phase, wire, in, flap, parsed, cut>>
  BY DEF AppendField, OpenTlv, CloseTlv, Building, BuildOnly
<1> QED
  BY <1>1 DEF Came

LEMMA SendCame == Sender' /\ Came /\ Send => Came'
<1> SUFFICES ASSUME Sender', Came, Send
             PROVE  Came'
  OBVIOUS
<1>1. /\ phase = "build" /\ UNCHANGED <<in, parsed, cut>> /\ in = initBs /\ wire = <<>>
      /\ ~cut /\ parsed = <<>> /\ Fits(in) /\ cut \in BOOLEAN
  BY DEF Send, Building, Came
<1>2. initBs.data = <<>> /\ initBs.ptr = 0 /\ ~initBs.fault /\ end(initBs) = 0
  BY DEF initBs, end
<1>3. out'.data \in Seq(Octet) /\ NextHead \in Seq(Octet)
  <2>1. 42 \in Octet
    BY DEF Octet, Cipher
  <2> QED
    BY <2>1 DEF Sender, Typed, Writable, Fits, Stream, NextHead
<1>4. out'.data \o NextHead \in Seq(Octet)
  BY <1>3, Joined, Zenon
<1>5. CASE out.invalid
  <2>1. phase' = "dropped" /\ wire' = wire
    BY <1>5 DEF Send
  <2> QED
    BY <2>1, <1>1, <1>2 DEF Came
<1>6. CASE ~out.invalid
  <2>1. phase' = "head" /\ wire' = out'.data \o NextHead
    BY <1>6 DEF Send
  <2>2. in'.data \o wire' = wire'
    BY <2>1, <1>1, <1>2, <1>4, ConcatEmptySeq
  <2>3. end(in') = 0 /\ in'.ptr = 0 /\ ~in'.fault
    BY <1>1, <1>2
  <2>4. 0 <= SIZEOF_FLAP_HEAD
    BY DEF SIZEOF_FLAP_HEAD
  <2> QED
    BY <2>1, <2>2, <2>3, <2>4, <1>1, <1>4 DEF Came, end
<1> QED
  BY <1>5, <1>6

\* Whatever the receiver does, the packet stays what was sent.
LEMMA WholeAlone ==
  ASSUME NEW w, Packet(w), UNCHANGED <<out, open, made, size>>, ~out.invalid,
         phase \notin {"build", "dropped"}, phase' # "build",
         \A at : Layout(out.data, made, open, size, at) /\ Read(at) => Read(at)'
  PROVE  Packet(w)'
<1>1. PICK at : Layout(out.data, made, open, size, at) /\ Read(at)
  BY DEF Packet
<1>2. Read(at)'
  BY <1>1
<1>3. Layout(out'.data, made', open', size', at)
  BY <1>1
<1>4. Front6'
  BY DEF Packet, Front6, end
<1> QED
  BY <1>2, <1>3, <1>4 DEF Packet, end

LEMMA Halves ==
  ASSUME NEW s \in Seq(Octet), NEW n \in 0 .. Len(s)
  PROVE  /\ SubSeq(s, 1, n) \in Seq(Octet) /\ Len(SubSeq(s, 1, n)) = n
         /\ SubSeq(s, n + 1, Len(s)) \in Seq(Octet)
         /\ SubSeq(s, 1, n) \o SubSeq(s, n + 1, Len(s)) = s
<1>0. Len(s) \in Nat
  BY LenProperties
<1>1. PICK z \in Nat : z = 0
  OBVIOUS
<1>2. PICK k \in Nat : k = Len(s) - n
  BY <1>0
<1> DEFINE u == SubSeq(s, z + 1, z + n)
           v == SubSeq(s, n + 1, n + k)
<1>3. u \in Seq(Octet) /\ Len(u) = n /\ \A i \in 1 .. n : u[i] = s[z + i]
  <2>1. n \in Nat /\ z + n <= Len(s)
    BY <1>0, <1>1
  <2> QED
    BY <2>1, <1>1, Piece
<1>4. v \in Seq(Octet) /\ Len(v) = k /\ \A i \in 1 .. k : v[i] = s[n + i]
  <2>1. n \in Nat /\ n + k <= Len(s)
    BY <1>0, <1>2
  <2> QED
    BY <2>1, <1>2, Piece
<1>5. u = SubSeq(s, 1, n) /\ v = SubSeq(s, n + 1, Len(s))
  <2>1. z + 1 = 1 /\ z + n = n /\ n + k = Len(s)
    BY <1>0, <1>1, <1>2
  <2> QED
    BY <2>1
<1> HIDE DEF u, v
<1>6. u \o v \in Seq(Octet) /\ Len(u \o v) = Len(u) + Len(v)
      /\ \A i \in 1 .. Len(u) + Len(v) : (u \o v)[i] = IF i <= Len(u) THEN u[i] ELSE v[i - Len(u)]
  BY <1>3, <1>4, Joined, Zenon
<1>7. ASSUME NEW i \in 1 .. Len(s)
      PROVE  (u \o v)[i] = s[i]
  <2>1. i \in 1 .. Len(u) + Len(v)
    BY <1>0, <1>2, <1>3, <1>4
  <2>2. (u \o v)[i] = IF i <= n THEN u[i] ELSE v[i - n]
    BY <2>1, <1>3, <1>6
  <2>3. CASE i <= n
    <3>1. i \in 1 .. n /\ z + i = i
      BY <2>3, <1>1
    <3> QED
      BY <3>1, <2>2, <2>3, <1>3
  <2>4. CASE ~(i <= n)
    <3>1. i - n \in 1 .. k /\ n + (i - n) = i
      BY <2>4, <1>0, <1>2
    <3> QED
      BY <3>1, <2>2, <2>4, <1>4
  <2> QED
    BY <2>3, <2>4
<1>8. Len(u \o v) = Len(s)
  BY <1>0, <1>2, <1>3, <1>4, <1>6
<1>9. u \o v = s
  BY <1>6, <1>7, <1>8, SeqEqual
<1> QED
  BY <1>3, <1>4, <1>5, <1>9

\* What was read before and what was read since.
LEMMA ReadOn ==
  ASSUME Sender, Came, Receiving, NEW n \in 1 .. Min({Missing, Len(wire)}),
         in' = AppendFromSocket(Reserved(Missing), SubSeq(wire, 1, n)),
         wire' = SubSeq(wire, n + 1, Len(wire))
  PROVE  /\ Fits(in') /\ wire' \in Seq(Octet) /\ in'.data \o wire' = in.data \o wire
         /\ end(in') = end(in) + n /\ n <= Missing /\ n \in Nat /\ in'.ptr = in.ptr /\ in'.fault = in.fault
         /\ Missing \in Nat /\ end(in) \in Nat
<1>1. /\ Fits(in) /\ wire \in Seq(Octet) /\ in.data \in Seq(Octet) /\ end(in) \in Nat /\ end(in) = Len(in.data)
      /\ Len(wire) \in Nat
  BY LenProperties DEF Came, Fits, Stream, end
<1>2. Missing \in Int /\ Missing > 0 /\ in.ptr <= end(in)
  <2>1. end(out) \in Nat
    BY LenProperties DEF Sender, Typed, Writable, Fits, Stream, end
  <2>2. CASE phase = "head"
    BY <2>2, <1>1 DEF Came, Receiving, Missing, SIZEOF_FLAP_HEAD
  <2>3. CASE phase = "body"
    BY <2>1, <2>3, <1>1 DEF Came, Receiving, Missing, SIZEOF_FLAP_HEAD
  <2> QED
    BY <2>2, <2>3 DEF Receiving
<1>3. PICK more \in Nat : more = Missing
  BY <1>2
<1>4. n <= more /\ n <= Len(wire) /\ n \in Nat /\ n \in 0 .. Len(wire)
  <2>1. Min({more, Len(wire)}) = IF more <= Len(wire) THEN more ELSE Len(wire)
    BY <1>1, LeastOfTwo
  <2>2. n \in 1 .. (IF more <= Len(wire) THEN more ELSE Len(wire))
    BY <2>1, <1>3
  <2> QED
    BY <2>2, <1>1
<1> DEFINE c == Reserved(Missing)
           u == SubSeq(wire, 1, n)
           v == SubSeq(wire, n + 1, Len(wire))
<1>5. /\ u \in Seq(Octet) /\ Len(u) = n /\ v \in Seq(Octet) /\ u \o v = wire
  BY <1>1, <1>4, Halves, Zenon
<1>6. /\ Fits(c) /\ c.data = in.data /\ c.fault = in.fault /\ end(in) + more <= c.len /\ c.ptr = in.ptr
  <2>1. PICK d : d = reallocBsDataIfNeeded(in, more, FALSE)
    OBVIOUS
  <2>2. c = d
    BY <2>1, <1>3 DEF Reserved
  <2>3. FALSE \in BOOLEAN
    OBVIOUS
  <2>4. LET e == reallocBsDataIfNeeded(in, more, FALSE) IN
         /\ Fits(e) /\ e.data = in.data /\ e.fault = in.fault
         /\ ~e.full => e.invalid = in.invalid /\ end(in) + more <= e.len
         /\ in.ptr <= end(in) => e.ptr = in.ptr
         /\ ~FALSE => ~e.full
    BY <2>3, <1>1, Reallocated
  <2> HIDE DEF c
  <2> QED
    BY <2>1, <2>2, <2>4, <1>2
<1> HIDE DEF c, u, v
<1>7. in' = [c EXCEPT !.data = @ \o u] /\ wire' = v
  BY DEF AppendFromSocket, c, u, v
<1>8. /\ in.data \o u \in Seq(Octet) /\ Len(in.data \o u) = Len(in.data) + Len(u)
      /\ (in.data \o u) \o v = in.data \o (u \o v)
  BY <1>1, <1>5, Joined, JoinedTwice, Zenon
<1>9. PICK s \in Seq(Octet) : s = in.data \o u
  BY <1>8
<1>10. in' = [c EXCEPT !.data = s]
  BY <1>6, <1>7, <1>9 DEF Fits, Stream
<1>11. /\ in' \in Stream /\ in'.data = s /\ in'.len = c.len /\ in'.ptr = c.ptr /\ in'.fault = c.fault
  BY <1>6, <1>10 DEF Fits, Stream
<1>12. Len(s) = end(in) + n
  BY <1>1, <1>5, <1>8, <1>9
<1>13. end(in') = end(in) + n
  BY <1>11, <1>12 DEF end
<1>14. end(in) + n <= c.len
  <2>1. c.len \in Nat
    BY <1>6 DEF Fits, Stream
  <2> QED
    BY <2>1, <1>1, <1>4, <1>6
<1>15. Fits(in')
  BY <1>11, <1>13, <1>14 DEF Fits, end
<1>16. in'.data \o wire' = in.data \o wire
  BY <1>5, <1>7, <1>8, <1>9, <1>11
<1> QED
  BY <1>1, <1>3, <1>4, <1>5, <1>6, <1>7, <1>11, <1>13, <1>15, <1>16

\* The receiver asks for room, whether it is there or not.
LEMMA RoomAsked ==
  ASSUME NEW b, Fits(b), NEW more \in Nat, NEW oom \in BOOLEAN
  PROVE  LET c == reallocBsDataIfNeeded(b, more, oom) IN Fits(c) /\ c.fault = b.fault
BY Reallocated

\* What every step of the receiver needs to know.
LEMMA OnTheWay ==
  ASSUME NEW w, Sayable(w), Sender, Came, Packet(w), phase \in {"head", "body"}
  PROVE  /\ ~out.invalid /\ end(out) \in Nat /\ 6 <= end(out) /\ end(out) - 6 \in Word
         /\ Stands(out.data, 0, HeadBytes(end(out) - 6)) /\ out.data \in Seq(Octet)
<1>1. ~out.invalid
  BY DEF Sender, Sent
<1>2. end(out) \in Nat /\ out.data \in Seq(Octet)
  BY LenProperties DEF Sender, Typed, Writable, Fits, Stream, end
<1>3. 6 <= end(out)
  BY <1>1, <1>2, Positive
<1>4. end(out) - 6 \in Word
  <2>1. Len(made) \in Nat /\ Len(made) <= MaxFields
    BY LenProperties DEF Sender, Typed
  <2>2. Len(made) * w \in Nat /\ Len(made) * w < 65536
    BY <2>1, Bounded
  <2>3. end(out) <= 6 + Len(made) * w
    BY <1>1 DEF Packet, SIZEOF_FLAP_HEAD
  <2>4. end(out) - 6 \in Nat /\ end(out) - 6 < 65536
    BY <1>2, <1>3, <2>2, <2>3
  <2> QED
    BY <2>4, SmallWord
<1>5. Stands(out.data, 0, HeadBytes(end(out) - 6))
  BY <1>1 DEF Packet, Front6, SIZEOF_FLAP_HEAD
<1> QED
  BY <1>1, <1>2, <1>3, <1>4, <1>5

\* A head that ended early is read, and the room for what it did not announce
\* is asked for.
LEMMA HeadEnded ==
  ASSUME NEW w, Sayable(w), Sender, Came, Packet(w), HeadEnds
  PROVE  Came' /\ Packet(w)'
<1>1. PICK oom \in BOOLEAN, announced \in Leftovers :
         LET read == [Reserved(Missing) EXCEPT !.ptr = end(in)]
         IN /\ in' = reallocBsDataIfNeeded(read, announced, oom)
            /\ phase' = IF in'.full THEN "dropped" ELSE "parse"
  BY DEF HeadEnds
<1>2. /\ phase = "head" /\ UNCHANGED <<out, open, made, size, flap, parsed, wire>>
      /\ phase' \in {"dropped", "parse"} /\ cut' = TRUE /\ Missing > 0
  BY <1>1 DEF HeadEnds, Receiving, ReceiveOnly
<1>3. announced \in Nat
  <2>1. Leftovers \subseteq Word
    BY FieldsAssumption, Zenon
  <2>2. announced \in Word
    BY <2>1
  <2> QED
    BY <2>2 DEF Word
<1>4. /\ Fits(in) /\ ~in.fault /\ wire \in Seq(Octet) /\ end(in) \in Nat /\ ~out.invalid
  BY <1>2, OnTheWay, LenProperties DEF Came, Fits, Stream, end
<1>5. PICK more \in Nat : more = Missing
  BY <1>2, <1>4 DEF Missing, SIZEOF_FLAP_HEAD
<1>6. PICK c : c = reallocBsDataIfNeeded(in, more, FALSE)
  OBVIOUS
<1>7. Fits(c) /\ c.fault = in.fault
  BY <1>4, <1>5, <1>6, RoomAsked
<1>8. PICK read : read = [c EXCEPT !.ptr = end(in)]
  OBVIOUS
<1>9. Fits(read) /\ read.fault = in.fault
  BY <1>4, <1>7, <1>8 DEF Fits, Stream, end
<1>10. in' = reallocBsDataIfNeeded(read, announced, oom)
  BY <1>1, <1>5, <1>6, <1>8 DEF Reserved
<1>11. Fits(in') /\ ~in'.fault
  BY <1>3, <1>4, <1>9, <1>10, RoomAsked
<1>12. Came'
  BY <1>2, <1>4, <1>11 DEF Came
<1>13. Packet(w)'
  <2>1. ASSUME NEW at
        PROVE  Read(at)'
    BY <1>2 DEF Read
  <2>2. phase' # "build"
    BY <1>2
  <2> QED
    BY <2>1, <2>2, <1>2, <1>4, WholeAlone
<1> QED
  BY <1>12, <1>13

LEMMA SomeRead ==
  ASSUME NEW w, Sayable(w), Sender, Came, Packet(w), ReadSome
  PROVE  Came' /\ Packet(w)'
<1>1. PICK n \in 1 .. Min({Missing, Len(wire)}) :
           /\ in' = AppendFromSocket(Reserved(Missing), SubSeq(wire, 1, n))
           /\ wire' = SubSeq(wire, n + 1, Len(wire))
  BY DEF ReadSome
<1>2. /\ phase \in {"head", "body"} /\ phase' = phase /\ cut' = cut /\ UNCHANGED <<out, open, made, size, flap, parsed>>
      /\ Receiving
  BY DEF ReadSome, ReceiveOnly, Receiving
<1>3. /\ Fits(in') /\ wire' \in Seq(Octet) /\ in'.data \o wire' = in.data \o wire
      /\ end(in') = end(in) + n /\ n <= Missing /\ n \in Nat /\ in'.ptr = in.ptr /\ in'.fault = in.fault
      /\ Missing \in Nat /\ end(in) \in Nat
  BY <1>1, <1>2, ReadOn
<1>4. ~out.invalid /\ end(out) \in Nat
  BY <1>2, OnTheWay
<1>5. /\ phase = "head" => end(in') <= SIZEOF_FLAP_HEAD
      /\ phase = "body" => SIZEOF_FLAP_HEAD <= end(in') /\ end(in') <= end(out)
  <2>1. CASE phase = "head"
    BY <2>1, <1>3 DEF Missing, SIZEOF_FLAP_HEAD
  <2>2. CASE phase = "body"
    <3>1. flap.len = end(out) - 6 /\ 6 <= end(in)
      BY <2>2 DEF Came, SIZEOF_FLAP_HEAD
    <3>2. Missing = 6 + flap.len - end(in)
      BY <2>2 DEF Missing, SIZEOF_FLAP_HEAD
    <3> QED
      BY <3>1, <3>2, <2>2, <1>3, <1>4 DEF SIZEOF_FLAP_HEAD
  <2> QED
    BY <2>1, <2>2, <1>2
<1>6. Came'
  <2>1. /\ ~cut /\ parsed = <<>> /\ in.data \o wire = out.data \o NextHead /\ ~in.fault /\ cut \in BOOLEAN
        /\ phase = "head" => in.ptr = 0
        /\ phase = "body" => in.ptr = SIZEOF_FLAP_HEAD /\ flap.len = end(out) - SIZEOF_FLAP_HEAD
    BY <1>2 DEF Came
  <2>2. CASE phase = "head"
    BY <2>1, <2>2, <1>2, <1>3, <1>5 DEF Came, end
  <2>3. CASE phase = "body"
    BY <2>1, <2>3, <1>2, <1>3, <1>5 DEF Came, end
  <2> QED
    BY <2>2, <2>3, <1>2
<1>7. Packet(w)'
  BY <1>2, <1>4, WholeAlone DEF Read
<1> QED
  BY <1>6, <1>7

LEMMA FailureRead ==
  ASSUME NEW w, Sayable(w), Sender, Came, Packet(w), ReadFails \/ ReadEnds
  PROVE  Came' /\ Packet(w)'
<1>1. /\ phase \in {"head", "body"} /\ UNCHANGED <<out, open, made, size, flap, parsed, wire>>
      /\ phase' \in {"dropped", "parse"} /\ cut' \in BOOLEAN /\ (phase' = "parse" => cut') /\ Missing > 0
      /\ \E oom \in BOOLEAN : \/ in' = reallocBsDataIfNeeded(in, Missing, oom)
                             \/ in' = AppendError(reallocBsDataIfNeeded(in, Missing, oom))
  <2>1. TRUE \in BOOLEAN /\ FALSE \in BOOLEAN
    OBVIOUS
  <2>2. CASE ReadEnds
    <3>1. /\ phase = "body" /\ UNCHANGED <<out, open, made, size, flap, parsed, wire>> /\ phase' = "parse" /\ cut' = TRUE
          /\ Missing > 0 /\ in' = reallocBsDataIfNeeded(in, Missing, FALSE)
      BY <2>2 DEF ReadEnds, Receiving, ReceiveOnly, Reserved
    <3> QED
      BY <3>1, <2>1
  <2>3. CASE ReadFails
    <3>1. PICK oom \in BOOLEAN :
           /\ in' = IF oom THEN reallocBsDataIfNeeded(in, Missing, TRUE)
                    ELSE AppendError(reallocBsDataIfNeeded(in, Missing, FALSE))
           /\ phase' = IF phase = "head" \/ oom THEN "dropped" ELSE "parse"
           /\ cut' = (phase = "body")
      BY <2>3 DEF ReadFails, Reserved
    <3>2. phase \in {"head", "body"} /\ UNCHANGED <<out, open, made, size, flap, parsed, wire>> /\ Missing > 0
      BY <2>3 DEF ReadFails, Receiving, ReceiveOnly
    <3>3. /\ phase' \in {"dropped", "parse"} /\ (phase' = "parse" => phase = "body")
      BY <3>1, <3>2
    <3>4. cut' \in BOOLEAN /\ (phase' = "parse" => cut')
      BY <3>1, <3>3, Zenon
    <3>5. \E o \in BOOLEAN : \/ in' = reallocBsDataIfNeeded(in, Missing, o)
                             \/ in' = AppendError(reallocBsDataIfNeeded(in, Missing, o))
      BY <3>1, <2>1
    <3> QED
      BY <3>2, <3>3, <3>4, <3>5
  <2> QED
    BY <2>2, <2>3
<1>2. ~out.invalid /\ end(out) \in Nat
  BY <1>1, OnTheWay
<1>3. Fits(in') /\ in'.fault = in.fault
  <2>1. PICK oom \in BOOLEAN : \/ in' = reallocBsDataIfNeeded(in, Missing, oom)
                              \/ in' = AppendError(reallocBsDataIfNeeded(in, Missing, oom))
    BY <1>1
  <2>2. Missing \in Nat
    <3>1. end(in) \in Nat
      BY LenProperties DEF Came, Fits, Stream, end
    <3>2. CASE phase = "head"
      BY <3>1, <3>2, <1>1 DEF Missing, SIZEOF_FLAP_HEAD
    <3>3. CASE phase = "body"
      <4>1. flap.len = end(out) - 6
        BY <3>3 DEF Came, SIZEOF_FLAP_HEAD
      <4> QED
        BY <4>1, <3>1, <3>3, <1>1, <1>2 DEF Missing, SIZEOF_FLAP_HEAD
    <3> QED
      BY <3>2, <3>3, <1>1
  <2>3. PICK c : c = reallocBsDataIfNeeded(in, Missing, oom)
    OBVIOUS
  <2>4. Fits(c) /\ c.fault = in.fault
    <3>1. PICK more \in Nat : more = Missing
      BY <2>2
    <3>2. Fits(in)
      BY DEF Came
    <3>3. LET e == reallocBsDataIfNeeded(in, more, oom) IN Fits(e) /\ e.fault = in.fault
      BY <3>2, RoomAsked
    <3> QED
      BY <3>1, <3>3, <2>3
  <2>5. CASE in' = c
    BY <2>4, <2>5
  <2>6. CASE in' = AppendError(c)
    <3>1. c \in Stream /\ c.data \in Seq(Octet) /\ Len(c.data) \in Nat /\ Len(c.data) <= c.len /\ c.len \in Nat
      BY <2>4, LenProperties DEF Fits, Stream, end
    <3>2. PICK s \in Seq(Octet) : s = (IF c.data = <<>> THEN c.data ELSE Front(c.data)) /\ Len(s) <= Len(c.data)
      <4>1. CASE c.data = <<>>
        <5>1. (IF c.data = <<>> THEN c.data ELSE Front(c.data)) = c.data /\ Len(c.data) <= Len(c.data)
          BY <4>1, <3>1
        <5> QED
          BY <5>1, <3>1, Zenon
      <4>2. CASE c.data # <<>>
        <5>1. Len(c.data) - 1 \in 0 .. Len(c.data)
          BY <4>2, <3>1, EmptySeq
        <5>2. PICK k \in 0 .. Len(c.data) : k = Len(c.data) - 1
          BY <5>1
        <5>3. SubSeq(c.data, 1, k) \in Seq(Octet) /\ Len(SubSeq(c.data, 1, k)) = k
          BY <3>1, Halves
        <5>4. Front(c.data) = SubSeq(c.data, 1, k)
          BY <5>2 DEF Front
        <5> QED
          BY <5>2, <5>3, <5>4, <4>2, <3>1
      <4> QED
        BY <4>1, <4>2
    <3>3. in' = [c EXCEPT !.data = s]
      BY <2>6, <3>1, <3>2 DEF AppendError, Stream
    <3>4. in' \in Stream /\ in'.data = s /\ in'.len = c.len /\ in'.fault = c.fault
      BY <3>1, <3>3 DEF Stream
    <3>5. Len(s) <= c.len
      BY <3>1, <3>2, LenProperties
    <3> QED
      BY <3>4, <3>5, <2>4 DEF Fits, end
  <2> QED
    BY <2>1, <2>3, <2>5, <2>6
<1>4. Came'
  <2>1. ~in.fault /\ wire \in Seq(Octet)
    BY <1>1 DEF Came
  <2> QED
    BY <2>1, <1>1, <1>3 DEF Came
<1>5. Packet(w)'
  <2>1. ASSUME NEW at
        PROVE  Read(at)'
    BY <1>1 DEF Read
  <2>2. phase' # "build"
    BY <1>1
  <2> QED
    BY <2>1, <2>2, <1>1, <1>2, WholeAlone
<1> QED
  BY <1>4, <1>5

LEMMA SamePrefix ==
  ASSUME NEW a \in Seq(Octet), NEW b \in Seq(Octet), NEW c \in Seq(Octet), NEW d \in Seq(Octet),
         a \o b = c \o d, NEW j \in Nat, 1 <= j, j <= Len(a), j <= Len(c)
  PROVE  a[j] = c[j]
<1>1. /\ Len(a) \in Nat /\ Len(b) \in Nat
      /\ \A i \in 1 .. Len(a) + Len(b) : (a \o b)[i] = IF i <= Len(a) THEN a[i] ELSE b[i - Len(a)]
  BY Joined, Zenon
<1>2. /\ Len(c) \in Nat /\ Len(d) \in Nat
      /\ \A i \in 1 .. Len(c) + Len(d) : (c \o d)[i] = IF i <= Len(c) THEN c[i] ELSE d[i - Len(c)]
  BY Joined, Zenon
<1>3. (a \o b)[j] = a[j]
  <2>1. j \in 1 .. Len(a) + Len(b)
    BY <1>1
  <2> QED
    BY <2>1, <1>1
<1>4. (c \o d)[j] = c[j]
  <2>1. j \in 1 .. Len(c) + Len(d)
    BY <1>2
  <2> QED
    BY <2>1, <1>2
<1> QED
  BY <1>3, <1>4

LEMMA SameParts ==
  ASSUME NEW a \in Seq(Octet), NEW b \in Seq(Octet), NEW c \in Seq(Octet), NEW d \in Seq(Octet),
         a \o b = c \o d, Len(a) = Len(c)
  PROVE  a = c /\ b = d
<1>1. /\ Len(a) \in Nat /\ Len(b) \in Nat /\ Len(a \o b) = Len(a) + Len(b)
      /\ \A i \in 1 .. Len(a) + Len(b) : (a \o b)[i] = IF i <= Len(a) THEN a[i] ELSE b[i - Len(a)]
  BY Joined, Zenon
<1>2. /\ Len(c) \in Nat /\ Len(d) \in Nat /\ Len(c \o d) = Len(c) + Len(d)
      /\ \A i \in 1 .. Len(c) + Len(d) : (c \o d)[i] = IF i <= Len(c) THEN c[i] ELSE d[i - Len(c)]
  BY Joined, Zenon
<1>3. Len(b) = Len(d)
  BY <1>1, <1>2
<1>4. \A j \in 1 .. Len(a) : a[j] = c[j]
  <2>1. ASSUME NEW j \in 1 .. Len(a)
        PROVE  a[j] = c[j]
    <3>1. j \in Nat /\ 1 <= j /\ j <= Len(a) /\ j <= Len(c)
      BY <1>1
    <3> QED
      BY <3>1, SamePrefix
  <2> QED
    BY <2>1
<1>5. ASSUME NEW j \in 1 .. Len(b)
      PROVE  b[j] = d[j]
  <2>1. PICK i : i = Len(a) + j
    OBVIOUS
  <2>2. i \in 1 .. Len(a) + Len(b) /\ ~(i <= Len(a)) /\ i - Len(a) = j /\ i \in 1 .. Len(c) + Len(d)
        /\ ~(i <= Len(c)) /\ i - Len(c) = j
    BY <2>1, <1>1, <1>2, <1>3
  <2>3. (a \o b)[i] = b[j]
    BY <2>2, <1>1
  <2>4. (c \o d)[i] = d[j]
    BY <2>2, <1>2
  <2> QED
    BY <2>3, <2>4
<1>6. a = c
  BY <1>4, SeqEqual
<1>7. b = d
  BY <1>3, <1>5, SeqEqual
<1> QED
  BY <1>6, <1>7

LEMMA NextHeadTyped == NextHead \in Seq(Octet) /\ Len(NextHead) = 1
<1>1. 42 \in Byte
  BY DEF Byte
<1> QED
  BY <1>1, OneByte DEF NextHead

\* The receiver finds the length that was put down.
LEMMA HeadWasRead ==
  ASSUME NEW w, Sayable(w), Sender, Came, Packet(w), HeadRead
  PROVE  Came' /\ Packet(w)'
<1>1. /\ phase = "head" /\ phase' = "body" /\ UNCHANGED <<out, open, made, size, wire, parsed, cut>>
      /\ Missing = 0 /\ flap' = bsReadFlapHead([in EXCEPT !.ptr = 0])
      /\ in' = bsReadFlapHead([in EXCEPT !.ptr = 0]).bs
  BY DEF HeadRead
<1>2. /\ Fits(in) /\ in.data \in Seq(Octet) /\ wire \in Seq(Octet) /\ end(in) \in Nat /\ Len(in.data) = end(in)
      /\ in.data \o wire = out.data \o NextHead /\ ~in.fault /\ cut \in BOOLEAN /\ ~cut /\ parsed = <<>>
  BY <1>1, LenProperties DEF Came, Fits, Stream, end
<1>3. end(in) = 6
  BY <1>1, <1>2 DEF Missing, SIZEOF_FLAP_HEAD
<1> DEFINE n == end(out) - 6
<1>4. /\ ~out.invalid /\ end(out) \in Nat /\ 6 <= end(out) /\ n \in Word
      /\ Stands(out.data, 0, HeadBytes(n)) /\ out.data \in Seq(Octet) /\ Len(out.data) = end(out)
  BY <1>1, OnTheWay DEF end
<1>5. PICK b : b = [in EXCEPT !.ptr = 0]
  OBVIOUS
<1>6. b \in Stream /\ b.data = in.data /\ b.ptr = 0 /\ b.len = in.len /\ b.fault = in.fault
  BY <1>2, <1>5 DEF Fits, Stream
<1>7. Fits(b)
  BY <1>2, <1>6 DEF Fits, end
<1> HIDE DEF n
<1>8. HeadBytes(n) \in Seq(Octet) /\ Len(HeadBytes(n)) = 6
  BY <1>4, HeadBytesTyped, BytesAreNumbers
<1>9. Stands(b.data, b.ptr, HeadBytes(n))
  <2>1. ASSUME NEW j \in 1 .. 6
        PROVE  in.data[0 + j] = HeadBytes(n)[j]
    <3>1. j \in Nat /\ 1 <= j /\ j <= Len(in.data) /\ j <= Len(out.data) /\ 0 + j = j
      BY <1>2, <1>3, <1>4
    <3>2. in.data[j] = out.data[j]
      BY <3>1, <1>2, <1>4, NextHeadTyped, SamePrefix
    <3>3. out.data[0 + j] = HeadBytes(n)[j]
      BY <1>4, <1>8 DEF Stands
    <3> QED
      BY <3>1, <3>2, <3>3
  <2>2. 0 + 6 <= Len(in.data)
    BY <1>2, <1>3
  <2> QED
    BY <2>1, <2>2, <1>6, <1>8 DEF Stands
<1>10. PICK rd : rd = bsReadFlapHead(b)
  OBVIOUS
<1>11. rd.ok /\ rd.len = n /\ Passed(b, rd.bs, 6)
  BY <1>4, <1>7, <1>9, <1>10, FlapHeadAt
<1>12. in' = rd.bs /\ flap' = rd
  BY <1>1, <1>5, <1>10
<1>13. Fits(in') /\ in'.data = in.data /\ in'.ptr = 6 /\ in'.fault = in.fault
  BY <1>6, <1>11, <1>12 DEF Passed, Kept
<1>14. flap'.len = end(out) - 6
  BY <1>11, <1>12 DEF n
<1>15. Came'
  <2>1. 6 <= end(in) /\ end(in) <= end(out)
    BY <1>3, <1>4
  <2> QED
    BY <2>1, <1>1, <1>2, <1>13, <1>14 DEF Came, end, SIZEOF_FLAP_HEAD
<1>16. Packet(w)'
  BY <1>1, <1>4, WholeAlone DEF Read
<1> QED
  BY <1>15, <1>16

LEMMA BodyWasRead ==
  ASSUME NEW w, Sayable(w), Sender, Came, Packet(w), BodyRead
  PROVE  Came' /\ Packet(w)'
<1>1. /\ phase = "body" /\ phase' = "parse" /\ UNCHANGED <<out, open, made, size, wire, in, flap, parsed, cut>>
      /\ Missing <= 0
  BY DEF BodyRead
<1>2. /\ Fits(in) /\ in.data \in Seq(Octet) /\ wire \in Seq(Octet) /\ end(in) \in Nat /\ Len(in.data) = end(in)
      /\ in.data \o wire = out.data \o NextHead /\ ~in.fault /\ cut \in BOOLEAN /\ ~cut /\ parsed = <<>>
      /\ in.ptr = 6 /\ flap.len = end(out) - 6 /\ end(in) <= end(out)
  BY <1>1, LenProperties DEF Came, Fits, Stream, end, SIZEOF_FLAP_HEAD
<1>3. /\ ~out.invalid /\ end(out) \in Nat /\ out.data \in Seq(Octet) /\ Len(out.data) = end(out)
  BY <1>1, OnTheWay DEF end
<1>4. Len(in.data) = Len(out.data)
  <2>1. 6 + flap.len - end(in) <= 0
    BY <1>1 DEF Missing, SIZEOF_FLAP_HEAD
  <2> QED
    BY <2>1, <1>2, <1>3
<1>5. in.data = out.data /\ wire = NextHead
  BY <1>2, <1>3, <1>4, NextHeadTyped, SameParts
<1>6. Came'
  BY <1>1, <1>2 DEF Came, end
<1>7. Packet(w)'
  <2>1. ASSUME NEW at, Layout(out.data, made, open, size, at)
        PROVE  Read(at)'
    <3>1. at[0] = 6
      BY <2>1 DEF Layout, Placed, Ends, SIZEOF_FLAP_HEAD
    <3>2. Len(parsed) = 0 /\ SubSeq(made, 1, 0) = <<>> /\ Len(made) \in Nat
      BY <1>2, LenProperties DEF Sender, Typed
    <3> QED
      BY <3>1, <3>2, <1>1, <1>2, <1>5 DEF Read
  <2>2. phase' # "build"
    BY <1>1
  <2> QED
    BY <2>1, <2>2, <1>1, <1>3, WholeAlone
<1> QED
  BY <1>6, <1>7

-----------------------------------------------------------------------------
\* Taking the fields out.

\* Behind what it has read the receiver stands before the next item.
LEMMA BeforeNext ==
  ASSUME NEW w, Sayable(w), Sender, Came, Packet(w), phase = "parse", Len(parsed) < Len(made)
  PROVE  /\ ~out.invalid /\ Fits(in)
         /\ ~cut => /\ ~in.fault /\ Next1 \in Items /\ Says(Next1)
                    /\ Stands(in.data, in.ptr, Code(Next1)) /\ Taken(Next1) \in Nat
<1>1. ~out.invalid /\ Fits(in) /\ (in.fault => cut)
  BY DEF Sender, Sent, Came
<1>2. ASSUME ~cut
      PROVE  /\ ~in.fault /\ Next1 \in Items /\ Says(Next1)
             /\ Stands(in.data, in.ptr, Code(Next1)) /\ Taken(Next1) \in Nat
  <2>1. PICK at : Layout(out.data, made, open, size, at) /\ Read(at)
    BY <1>1 DEF Packet
  <2>2. in.data = out.data /\ parsed = SubSeq(made, 1, Len(parsed)) /\ in.ptr = at[Len(parsed)] /\ Len(parsed) <= Len(made)
    BY <2>1, <1>2 DEF Read
  <2>3. made \in Seq(Items) /\ Len(made) \in Nat
    BY LenProperties DEF Sender, Typed
  <2>4. PICK k \in 1 .. Len(made) : k = Len(parsed) + 1 /\ k - 1 = Len(parsed) /\ made[k] = Next1
    <3>1. Len(parsed) + 1 \in 1 .. Len(made) /\ (Len(parsed) + 1) - 1 = Len(parsed)
      BY <2>2, <2>3
    <3> QED
      BY <3>1 DEF Next1
  <2>5. made[k] \in Items /\ Says(made[k])
    BY <2>3, ElementOfSeq, <1>1 DEF Packet
  <2>6. Stands(out.data, at[k - 1], Code(made[k]))
    BY <2>1 DEF Layout, Placed, Bodies
  <2> QED
    BY <1>1, <1>2, <2>2, <2>4, <2>5, <2>6, ItemCode
<1> QED
  BY <1>1, <1>2

LEMMA OneMoreRead ==
  ASSUME NEW items \in Seq(Items), NEW k \in 0 .. Len(items), k < Len(items)
  PROVE  /\ Append(SubSeq(items, 1, k), items[k + 1]) = SubSeq(items, 1, k + 1)
         /\ Len(SubSeq(items, 1, k + 1)) = k + 1
<1>1. Len(items) \in Nat /\ k + 1 \in 1 .. Len(items)
  BY LenProperties
<1>2. /\ SubSeq(items, 1, k) \in Seq(Items) /\ Len(SubSeq(items, 1, k)) = k
      /\ \A i \in 1 .. k : SubSeq(items, 1, k)[i] = items[i]
  BY <1>1
<1>3. /\ SubSeq(items, 1, k + 1) \in Seq(Items) /\ Len(SubSeq(items, 1, k + 1)) = k + 1
      /\ \A i \in 1 .. k + 1 : SubSeq(items, 1, k + 1)[i] = items[i]
  BY <1>1
<1>4. items[k + 1] \in Items
  BY <1>1, ElementOfSeq
<1> DEFINE u == SubSeq(items, 1, k)
           v == SubSeq(items, 1, k + 1)
           m == items[k + 1]
<1> HIDE DEF u, v
<1>5. /\ Append(u, m) \in Seq(Items) /\ Len(Append(u, m)) = k + 1
      /\ \A i \in 1 .. k : Append(u, m)[i] = u[i]
      /\ Append(u, m)[k + 1] = m
  BY <1>1, <1>2, <1>4, AppendProperties DEF u
<1>6. \A i \in 1 .. k + 1 : Append(u, m)[i] = v[i]
  <2>1. ASSUME NEW i \in 1 .. k + 1
        PROVE  Append(u, m)[i] = v[i]
    <3>1. CASE i = k + 1
      BY <3>1, <1>1, <1>3, <1>5 DEF v
    <3>2. CASE i # k + 1
      <4>1. i \in 1 .. k
        BY <3>2, <1>1
      <4> QED
        BY <4>1, <1>2, <1>3, <1>5 DEF u, v
    <3> QED
      BY <3>1, <3>2
  <2> QED
    BY <2>1
<1>7. v \in Seq(Items) /\ Len(v) = k + 1
  BY <1>3 DEF v
<1>8. Append(u, m) = v
  BY <1>5, <1>6, <1>7, SeqEqual
<1> QED
  BY <1>3, <1>8 DEF u, v

LEMMA FieldTaken ==
  ASSUME NEW w, Sayable(w), Sender, Came, Packet(w), phase = "parse", Len(parsed) < Len(made),
         ParseOnly, Kept(in, in'), phase' \in {"parse", "lost"}, in'.fault => cut,
         phase' = "parse" /\ ~cut => Passed(in, in', Taken(Next1)) /\ parsed' = Append(parsed, Next1)
  PROVE  Came' /\ Packet(w)'
<1>1. UNCHANGED <<out, open, made, size, wire, flap, cut>> /\ Fits(in') /\ in'.data = in.data
  BY DEF ParseOnly, Kept
<1>2. ~out.invalid
  BY BeforeNext
<1>3. Came'
  BY <1>1 DEF Came
<1>4. ASSUME NEW at, Layout(out.data, made, open, size, at), Read(at)
      PROVE  Read(at)'
  <2> SUFFICES ASSUME phase' = "parse", ~cut
               PROVE  Read(at)'
    BY <1>1 DEF Read
  <2>1. /\ in.data = out.data /\ wire = NextHead /\ parsed = SubSeq(made, 1, Len(parsed)) /\ in.ptr = at[Len(parsed)]
        /\ Len(parsed) \in 0 .. Len(made)
    BY <1>4 DEF Read
  <2>2. Passed(in, in', Taken(Next1)) /\ parsed' = Append(parsed, Next1)
    OBVIOUS
  <2>3. made \in Seq(Items) /\ Len(made) \in Nat
    BY LenProperties DEF Sender, Typed
  <2>4. PICK k \in 0 .. Len(made) : k = Len(parsed)
    BY <2>1
  <2>5. k < Len(made) /\ Next1 = made[k + 1] /\ k + 1 \in 1 .. Len(made)
    BY <2>3, <2>4 DEF Next1
  <2>6. parsed' = SubSeq(made, 1, k + 1) /\ Len(parsed') = k + 1
    <3>1. /\ Append(SubSeq(made, 1, k), made[k + 1]) = SubSeq(made, 1, k + 1)
          /\ Len(SubSeq(made, 1, k + 1)) = k + 1
      BY <2>3, <2>5, OneMoreRead
    <3> QED
      BY <3>1, <2>1, <2>2, <2>4, <2>5
  <2>7. in'.ptr = at[k + 1]
    <3>1. at[k + 1] = at[(k + 1) - 1] + Taken(made[k + 1])
      BY <1>4, <2>5 DEF Layout, Placed, Ends
    <3>2. (k + 1) - 1 = k
      OBVIOUS
    <3>3. in'.ptr = in.ptr + Taken(Next1)
      BY <2>2 DEF Passed
    <3> QED
      BY <3>1, <3>2, <3>3, <2>1, <2>4, <2>5
  <2> QED
    BY <1>1, <2>1, <2>3, <2>5, <2>6, <2>7 DEF Read
<1>5. Packet(w)'
  <2>1. phase' # "build" /\ phase \notin {"build", "dropped"}
    OBVIOUS
  <2> QED
    BY <2>1, <1>1, <1>2, <1>4, WholeAlone
<1> QED
  BY <1>3, <1>5

LEMMA SameValue ==
  ASSUME NEW m \in Items
  PROVE  [m EXCEPT !.value = m.value] = m
<1>1. CASE m \in FieldSet
  BY <1>1 DEF FieldSet, Kinds
<1>2. CASE m \in Head5
  BY <1>2 DEF Head5
<1> QED
  BY <1>1, <1>2 DEF Items

LEMMA SameItem ==
  ASSUME NEW m \in Items
  PROVE  m = [kind |-> m.kind, type |-> m.type, value |-> m.value]
<1>1. CASE m \in FieldSet
  BY <1>1 DEF FieldSet, Kinds
<1>2. CASE m \in Head5
  BY <1>2 DEF Head5
<1> QED
  BY <1>1, <1>2 DEF Items

LEMMA KindOfField ==
  ASSUME NEW m \in Items, m.kind # "tlvhead"
  PROVE  m \in FieldSet
  BY HeadCode DEF Items

LEMMA NumberTaken ==
  ASSUME NEW w, Sayable(w), Sender, Came, Packet(w), ParseNumber
  PROVE  Came' /\ Packet(w)'
<1> DEFINE rd == CASE Next1.kind = "byte" -> bsReadByte(in)
                  [] Next1.kind = "word" -> bsReadWord(in)
                  [] Next1.kind = "wordLE" -> bsReadWordLE(in)
                  [] Next1.kind = "dword" -> bsReadDword(in)
                  [] Next1.kind = "dwordLE" -> bsReadDwordLE(in)
<1>1. /\ phase = "parse" /\ ~in.fault /\ Len(parsed) < Len(made) /\ phase' = phase /\ ParseOnly
      /\ Next1.kind \in {"byte", "word", "wordLE", "dword", "dwordLE"}
      /\ in' = rd.bs /\ parsed' = Append(parsed, [Next1 EXCEPT !.value = rd.value])
  BY DEF ParseNumber, Parsing, Took
<1>2. /\ Fits(in)
      /\ ~cut => /\ Next1 \in Items /\ Stands(in.data, in.ptr, Code(Next1))
  BY <1>1, BeforeNext
<1>3. PICK m : m = Next1
  OBVIOUS
<1>4. /\ m.kind = "byte" => rd = bsReadByte(in)
      /\ m.kind = "word" => rd = bsReadWord(in)
      /\ m.kind = "wordLE" => rd = bsReadWordLE(in)
      /\ m.kind = "dword" => rd = bsReadDword(in)
      /\ m.kind = "dwordLE" => rd = bsReadDwordLE(in)
  BY <1>3
<1> HIDE DEF rd
<1>5. Kept(in, in')
  <2>1. Kept(in, bsReadByte(in).bs)
    BY <1>2, ByteReadAny
  <2>2. Kept(in, bsReadWord(in).bs) /\ Kept(in, bsReadWordLE(in).bs)
    BY <1>2, WordReadAny
  <2>3. Kept(in, bsReadDword(in).bs) /\ Kept(in, bsReadDwordLE(in).bs)
    BY <1>2, DwordReadAny
  <2> QED
    BY <2>1, <2>2, <2>3, <1>1, <1>3, <1>4
<1>6. ASSUME ~cut
      PROVE  Passed(in, in', Taken(Next1)) /\ parsed' = Append(parsed, Next1)
  <2>1. m \in Items /\ m \in FieldSet /\ Stands(in.data, in.ptr, Code(m))
    BY <1>1, <1>2, <1>3, <1>6, KindOfField
  <2>2. Passed(in, rd.bs, Taken(m)) /\ rd.value = m.value
    <3>1. CASE m.kind = "byte"
      <4>1. m.value \in Byte /\ Code(m) = <<m.value>> /\ Taken(m) = 1
        BY <3>1, <2>1, FieldKinds DEF Code, Taken, FieldSize
      <4> QED
        BY <4>1, <3>1, <2>1, <1>2, <1>4, ByteReadAt
    <3>2. CASE m.kind = "word"
      <4>1. m.value \in Word /\ Code(m) = Word_2_Charsb(m.value) /\ Taken(m) = 2
        BY <3>2, <2>1, FieldKinds DEF Code, Taken, FieldSize
      <4> QED
        BY <4>1, <3>2, <2>1, <1>2, <1>4, WordReadAt
    <3>3. CASE m.kind = "wordLE"
      <4>1. m.value \in Word /\ Code(m) = Word_2_Chars(m.value) /\ Taken(m) = 2
        BY <3>3, <2>1, FieldKinds DEF Code, Taken, FieldSize
      <4> QED
        BY <4>1, <3>3, <2>1, <1>2, <1>4, WordLEReadAt
    <3>4. CASE m.kind = "dword"
      <4>1. m.value \in [1 .. 4 -> Byte] /\ Code(m) = m.value /\ Taken(m) = 4
        BY <3>4, <2>1, FieldKinds DEF Code, Taken, FieldSize, DW_2_Charsb
      <4> QED
        BY <4>1, <3>4, <2>1, <1>2, <1>4, DwordReadAt
    <3>5. CASE m.kind = "dwordLE"
      <4>1. m.value \in [1 .. 4 -> Byte] /\ Code(m) = Reverse(m.value) /\ Taken(m) = 4
        BY <3>5, <2>1, FieldKinds DEF Code, Taken, FieldSize, DW_2_Chars
      <4> QED
        BY <4>1, <3>5, <2>1, <1>2, <1>4, DwordReadAt
    <3> QED
      BY <3>1, <3>2, <3>3, <3>4, <3>5, <1>1, <1>3
  <2>3. [m EXCEPT !.value = rd.value] = m
    BY <2>1, <2>2, SameValue
  <2> QED
    BY <2>2, <2>3, <1>1, <1>3
<1>7. in'.fault => cut
  BY <1>1, <1>6 DEF Passed
<1> QED
  BY <1>1, <1>5, <1>6, <1>7, FieldTaken

LEMMA StringTaken ==
  ASSUME NEW w, Sayable(w), Sender, Came, Packet(w), ParseString
  PROVE  Came' /\ Packet(w)'
<1>1. PICK junk \in {0, 65536} :
           /\ in' = bsReadString(in, Next1.kind, junk).bs
           /\ parsed' = Append(parsed, [Next1 EXCEPT !.value = bsReadString(in, Next1.kind, junk).value])
           /\ phase' = IF junk = 0 THEN phase ELSE "lost"
  BY DEF ParseString, Took
<1>2. /\ phase = "parse" /\ ~in.fault /\ Len(parsed) < Len(made) /\ ParseOnly
      /\ Next1.kind \in {"string08", "string16"}
  BY DEF ParseString, Parsing
<1>3. /\ Fits(in)
      /\ ~cut => Next1 \in Items /\ Says(Next1) /\ Stands(in.data, in.ptr, Code(Next1))
  BY <1>2, BeforeNext
<1>4. PICK m : m = Next1
  OBVIOUS
<1>5. junk \in Nat /\ phase' \in {"parse", "lost"} /\ (phase' = "parse" => junk = 0)
  BY <1>1, <1>2
<1>6. Kept(in, in')
  BY <1>1, <1>3, <1>5, StringReadAny
<1>7. ASSUME ~cut
      PROVE  /\ ~in'.fault
             /\ junk = 0 => Passed(in, in', Taken(Next1)) /\ parsed' = Append(parsed, Next1)
  <2>1. m \in Items /\ m \in FieldSet /\ Stands(in.data, in.ptr, Code(m)) /\ Says(m) /\ m.kind \in {"string08", "string16"}
    BY <1>2, <1>3, <1>4, <1>7, KindOfField
  <2>2. /\ Passed(in, bsReadString(in, m.kind, 0).bs, Taken(m))
        /\ bsReadString(in, m.kind, 0).value = m.value
        /\ \A j \in Nat : ~bsReadString(in, m.kind, j).bs.fault
    BY <2>1, <1>2, <1>3, StringReadAt
  <2>3. [m EXCEPT !.value = m.value] = m
    BY <2>1, SameValue
  <2> QED
    BY <2>2, <2>3, <1>1, <1>4, <1>5
<1> QED
  BY <1>2, <1>5, <1>6, <1>7, FieldTaken

LEMMA TlvHeadTaken ==
  ASSUME NEW w, Sayable(w), Sender, Came, Packet(w), ParseTlvHead
  PROVE  Came' /\ Packet(w)'
<1>1. PICK t : t = bsReadTlv(in)
  OBVIOUS
<1>2. /\ phase = "parse" /\ ~in.fault /\ Len(parsed) < Len(made) /\ phase' = phase /\ ParseOnly
      /\ Next1.kind = "tlvhead" /\ in' = t.bs
      /\ parsed' = Append(parsed, [kind |-> "tlvhead", type |-> t.type, value |-> t.len])
  BY <1>1 DEF ParseTlvHead, Parsing
<1>3. /\ Fits(in)
      /\ ~cut => Next1 \in Items /\ Says(Next1) /\ Stands(in.data, in.ptr, Code(Next1))
  BY <1>2, BeforeNext
<1>4. Kept(in, in')
  BY <1>1, <1>2, <1>3, TlvReadAny
<1>5. ASSUME ~cut
      PROVE  Passed(in, in', Taken(Next1)) /\ parsed' = Append(parsed, Next1)
  <2>1. PICK m \in Items : m = Next1 /\ m.kind = "tlvhead" /\ Says(m) /\ Stands(in.data, in.ptr, Code(m))
    BY <1>2, <1>3, <1>5
  <2>2. m \in Head5
    BY <2>1, FieldCode DEF Items
  <2>3. Code(m) = Word_2_Charsb(5) \o Word_2_Charsb(m.value) /\ m.type = 5 /\ Taken(m) = 4
    BY <2>2, HeadCode
  <2>4. m.value \in Word
    BY <2>1 DEF Says
  <2>5. 5 \in Word
    BY DEF Word
  <2>6. Passed(in, t.bs, 4) /\ t.type = 5 /\ t.len = m.value
    <3>1. Stands(in.data, in.ptr, Word_2_Charsb(5) \o Word_2_Charsb(m.value))
      BY <2>1, <2>3
    <3>2. Passed(in, bsReadTlv(in).bs, 4) /\ bsReadTlv(in).type = 5 /\ bsReadTlv(in).len = m.value
      BY <3>1, <2>4, <2>5, <1>3, TlvReadAt, Zenon
    <3> QED
      BY <3>2, <1>1
  <2>7. m = [kind |-> m.kind, type |-> m.type, value |-> m.value]
    BY SameItem
  <2>8. [kind |-> "tlvhead", type |-> t.type, value |-> t.len] = m
    BY <2>1, <2>3, <2>6, <2>7, Zenon
  <2> QED
    BY <2>1, <2>3, <2>6, <2>8, <1>2
<1>6. in'.fault => cut
  BY <1>2, <1>5 DEF Passed
<1> QED
  BY <1>2, <1>4, <1>5, <1>6, FieldTaken

LEMMA TlvTaken ==
  ASSUME NEW w, Sayable(w), Sender, Came, Packet(w), ParseTlv
  PROVE  Came' /\ Packet(w)'
<1>1. PICK t : t = bsReadTlv(in)
  OBVIOUS
<1>2. PICK rd : rd = bsRead(t.bs, t.len)
  OBVIOUS
<1>3. /\ phase = "parse" /\ ~in.fault /\ Len(parsed) < Len(made) /\ phase' = phase /\ ParseOnly
      /\ Next1.kind = "tlv" /\ in' = (IF t.bs.fault THEN t.bs ELSE rd.bs)
      /\ parsed' = Append(parsed, [kind |-> "tlv", type |-> t.type, value |-> rd.bytes])
  BY <1>1, <1>2 DEF ParseTlv, Parsing
<1>4. /\ Fits(in)
      /\ ~cut => Next1 \in Items /\ Says(Next1) /\ Stands(in.data, in.ptr, Code(Next1))
  BY <1>3, BeforeNext
<1>5. Kept(in, in')
  <2>1. Kept(in, t.bs) /\ t.len \in Nat /\ Fits(t.bs)
    BY <1>1, <1>4, TlvReadAny, BytesAreNumbers DEF Kept
  <2>2. Kept(t.bs, rd.bs)
    BY <2>1, <1>2, ReadsAny
  <2>3. Kept(in, rd.bs)
    BY <2>1, <2>2, KeptTwice
  <2> QED
    BY <2>1, <2>3, <1>3
<1>6. ASSUME ~cut
      PROVE  Passed(in, in', Taken(Next1)) /\ parsed' = Append(parsed, Next1)
  <2>1. PICK m \in FieldSet : m \in Items /\ m = Next1 /\ m.kind = "tlv" /\ Says(m) /\ Stands(in.data, in.ptr, Code(m))
    BY <1>3, <1>4, <1>6, KindOfField
  <2>2. /\ Passed(in, t.bs, 4) /\ t.type = m.type
        /\ rd.bytes = m.value /\ Passed(in, rd.bs, Taken(m))
    BY <2>1, <1>1, <1>2, <1>4, TlvWholeAt
  <2>3. in' = rd.bs
    BY <2>2, <1>3 DEF Passed
  <2>4. m = [kind |-> m.kind, type |-> m.type, value |-> m.value]
    BY <2>1, SameItem
  <2>5. [kind |-> "tlv", type |-> t.type, value |-> rd.bytes] = m
    BY <2>1, <2>2, <2>4, Zenon
  <2> QED
    BY <2>1, <2>2, <2>3, <2>5, <1>3
<1>7. in'.fault => cut
  BY <1>3, <1>6 DEF Passed
<1> QED
  BY <1>3, <1>5, <1>6, <1>7, FieldTaken

LEMMA TlvSkipped ==
  ASSUME NEW w, Sayable(w), Sender, Came, Packet(w), SkipTlv
  PROVE  Came' /\ Packet(w)'
<1>1. PICK t : t = bsReadTlv(in)
  OBVIOUS
<1>2. PICK c : c = bsSeek(t.bs, t.bs.ptr + t.len)
  OBVIOUS
<1>3. /\ phase = "parse" /\ ~in.fault /\ Len(parsed) < Len(made) /\ phase' = phase /\ ParseOnly
      /\ Next1.kind = "tlv" /\ in' = (IF t.bs.fault THEN t.bs ELSE c)
      /\ parsed' = Append(parsed, [kind |-> "tlv", type |-> t.type, value |-> Next1.value])
  BY <1>1, <1>2 DEF SkipTlv, Parsing
<1>4. /\ Fits(in)
      /\ ~cut => Next1 \in Items /\ Says(Next1) /\ Stands(in.data, in.ptr, Code(Next1))
  BY <1>3, BeforeNext
<1>5. Kept(in, t.bs) /\ t.len \in Nat /\ Fits(t.bs) /\ t.bs \in Stream /\ t.bs.ptr + t.len \in Nat
  <2>1. Kept(in, t.bs) /\ t.len \in Nat
    BY <1>1, <1>4, TlvReadAny, BytesAreNumbers
  <2>2. Fits(t.bs) /\ t.bs \in Stream /\ t.bs.ptr \in Nat
    BY <2>1 DEF Kept, Fits, Stream
  <2> QED
    BY <2>1, <2>2
<1>6. PICK p \in Nat : p = t.bs.ptr + t.len
  BY <1>5
<1>7. c = IF p <= t.bs.len THEN [t.bs EXCEPT !.ptr = p] ELSE t.bs
  BY <1>2, <1>6 DEF bsSeek
<1>8. /\ c \in Stream /\ c.data = t.bs.data /\ c.len = t.bs.len /\ c.fault = t.bs.fault
      /\ p <= t.bs.len => c.ptr = p
  <2>1. CASE p <= t.bs.len
    BY <2>1, <1>5, <1>7 DEF Stream
  <2>2. CASE ~(p <= t.bs.len)
    BY <2>2, <1>5, <1>7
  <2> QED
    BY <2>1, <2>2
<1>9. Kept(in, in')
  <2>1. Kept(in, c)
    BY <1>5, <1>8 DEF Kept, Fits, end
  <2> QED
    BY <2>1, <1>3, <1>5
<1>10. ASSUME ~cut
      PROVE  Passed(in, in', Taken(Next1)) /\ parsed' = Append(parsed, Next1)
  <2>1. PICK m \in FieldSet : m \in Items /\ m = Next1 /\ m.kind = "tlv" /\ Says(m) /\ Stands(in.data, in.ptr, Code(m))
    BY <1>3, <1>4, <1>10, KindOfField
  <2>2. /\ Passed(in, t.bs, 4) /\ t.type = m.type /\ t.len = Len(m.value) /\ Taken(m) = 4 + Len(m.value)
        /\ in.ptr + Taken(m) <= in.len
    BY <2>1, <1>1, <1>4, TlvWholeAt
  <2>3. p = in.ptr + Taken(m) /\ p <= t.bs.len
    <3>1. t.bs.ptr = in.ptr + 4 /\ t.bs.len = in.len /\ in.ptr \in Nat /\ t.len \in Nat
      BY <2>2, <1>4, <1>5 DEF Passed, Kept, Fits, Stream
    <3>2. p = in.ptr + Taken(m)
      BY <3>1, <2>2, <1>6
    <3> QED
      BY <3>1, <3>2, <2>2
  <2>4. in' = c /\ Passed(in, in', Taken(m))
    <3>1. in' = c /\ ~t.bs.fault
      BY <2>2, <1>3 DEF Passed
    <3>2. c.ptr = in.ptr + Taken(m) /\ c.fault = in.fault
      BY <2>2, <2>3, <1>8 DEF Passed
    <3> QED
      BY <3>1, <3>2, <1>9 DEF Passed
  <2>5. m = [kind |-> m.kind, type |-> m.type, value |-> m.value]
    BY <2>1, SameItem
  <2>6. [kind |-> "tlv", type |-> t.type, value |-> Next1.value] = m
    BY <2>1, <2>2, <2>5, Zenon
  <2> QED
    BY <2>1, <2>4, <2>6, <1>3
<1>11. in'.fault => cut
  BY <1>3, <1>10 DEF Passed
<1> QED
  BY <1>3, <1>9, <1>10, <1>11, FieldTaken

LEMMA AllTaken ==
  ASSUME NEW w, Sayable(w), Sender, Came, Packet(w), Finish
  PROVE  Came' /\ Packet(w)'
<1>1. /\ phase = "parse" /\ phase' = "done" /\ ~in.fault /\ Len(parsed) = Len(made)
      /\ UNCHANGED <<out, open, made, size, wire, in, flap, parsed, cut>>
  BY DEF Finish
<1>2. Came'
  BY <1>1 DEF Came
<1>3. ~out.invalid
  BY <1>1 DEF Sender, Sent
<1>4. Packet(w)'
  <2>1. ASSUME NEW at, Read(at)
        PROVE  Read(at)'
    BY <1>1, <2>1 DEF Read
  <2>2. phase' # "build" /\ phase \notin {"build", "dropped"}
    BY <1>1
  <2> QED
    BY <2>1, <2>2, <1>1, <1>3, WholeAlone
<1> QED
  BY <1>2, <1>4

LEMMA FaultWhole ==
  ASSUME NEW w, Came, Packet(w), PrintFaults
  PROVE  Came' /\ Packet(w)'
<1>1. /\ phase = "build" /\ phase' = "dropped"
      /\ UNCHANGED <<out, open, made, size, wire, in, flap, parsed, cut>>
  BY DEF PrintFaults, Building
<1>2. Came'
  BY <1>1 DEF Came, initBs
<1>3. ASSUME NEW at, Layout(out.data, made, open, size, at)
      PROVE  Layout(out'.data, made', open', size', at) /\ Read(at)'
  BY <1>1, <1>3 DEF Read
<1>4. Front6'
  BY <1>1 DEF Front6
<1> QED
  BY <1>1, <1>2, <1>3, <1>4 DEF Packet, end

LEMMA PacketNext ==
  ASSUME NEW w, Sayable(w)
  PROVE  Sender /\ Came /\ Packet(w) /\ [Next]_vars => Sender' /\ Came' /\ Packet(w)'
<1> SUFFICES ASSUME Sender, Came, Packet(w), [Next]_vars
             PROVE  Came' /\ Packet(w)'
  BY SenderNext
<1>1. CASE AppendField
  BY <1>1, BuildCame, FieldWhole
<1>2. CASE OpenTlv
  BY <1>2, BuildCame, OpenWhole
<1>3. CASE CloseTlv
  BY <1>3, BuildCame, CloseWhole
<1>4. CASE Send
  BY <1>4, SenderNext, SendCame, SendWhole
<1>5. CASE ReadSome
  BY <1>5, SomeRead
<1>6. CASE ReadFails \/ HeadEnds \/ ReadEnds
  BY <1>6, FailureRead, HeadEnded
<1>7. CASE HeadRead
  BY <1>7, HeadWasRead
<1>8. CASE BodyRead
  BY <1>8, BodyWasRead
<1>9. CASE ParseNumber
  BY <1>9, NumberTaken
<1>10. CASE ParseString
  BY <1>10, StringTaken
<1>11. CASE ParseTlvHead
  BY <1>11, TlvHeadTaken
<1>12. CASE ParseTlv
  BY <1>12, TlvTaken
<1>13. CASE SkipTlv
  BY <1>13, TlvSkipped
<1>14. CASE Finish
  BY <1>14, AllTaken
<1>16. CASE PrintFaults
  BY <1>16, FaultWhole
<1>15. CASE UNCHANGED vars
  <2>1. UNCHANGED <<phase, out, open, made, size, wire, in, flap, parsed, cut>>
    BY <1>15 DEF vars
  <2>2. Came'
    BY <2>1 DEF Came, end
  <2>3. Packet(w)'
    <3>1. Front6 => Front6'
      BY <2>1 DEF Front6, end
    <3>2. \A at : Layout(out.data, made, open, size, at) /\ Read(at)
                    => Layout(out'.data, made', open', size', at) /\ Read(at)'
      BY <2>1 DEF Read
    <3> QED
      BY <2>1, <3>1, <3>2 DEF Packet, end
  <2> QED
    BY <2>2, <2>3
<1> QED
  BY <1>1, <1>2, <1>3, <1>4, <1>5, <1>6, <1>7, <1>8, <1>9, <1>10, <1>11, <1>12, <1>13, <1>14, <1>15, <1>16 DEF Next

\* The lengths a packet puts down can say what they count: a TLV's length and
\* the packet's are words, the length of a short string is a byte.
LengthsFit == \E w : Sayable(w)

\* What is read is what was written (bsAppend*, bsUpdateTlvLen, bsRead*), for
\* any fields whose lengths fit, any number of them and any pieces they came in.
THEOREM FieldsReadBack == ASSUME LengthsFit PROVE Spec => []RoundTrip
<1>1. PICK w : Sayable(w)
  BY DEF LengthsFit
<1>2. Init => Sender /\ Came /\ Packet(w)
  BY <1>1, SenderInit, CameInit, WholeInit
<1>3. Sender /\ Came /\ Packet(w) /\ [Next]_vars => Sender' /\ Came' /\ Packet(w)'
  BY <1>1, PacketNext
<1>4. Sender /\ Came /\ Packet(w) => RoundTrip
  <2> SUFFICES ASSUME Sender, Packet(w), ~cut, phase \in {"parse", "done"}
               PROVE  parsed = SubSeq(made, 1, Len(parsed))
    BY DEF RoundTrip
  <2>1. ~out.invalid
    BY DEF Sender, Sent
  <2> QED
    BY <2>1 DEF Packet, Read
<1> QED
  BY <1>2, <1>3, <1>4, PTL DEF Spec

\* The length in the head takes the whole packet off the wire and no more
\* (bsUpdateFlapHeadLen, serverResponseHandler).
THEOREM FramesWhole == ASSUME LengthsFit PROVE Spec => []FrameWhole
<1>1. PICK w : Sayable(w)
  BY DEF LengthsFit
<1>2. Init => Sender /\ Came /\ Packet(w)
  BY <1>1, SenderInit, CameInit, WholeInit
<1>3. Sender /\ Came /\ Packet(w) /\ [Next]_vars => Sender' /\ Came' /\ Packet(w)'
  BY <1>1, PacketNext
<1>4. Sender /\ Came /\ Packet(w) => FrameWhole
  <2> SUFFICES ASSUME Sender, Packet(w), ~cut, phase = "done"
               PROVE  wire = NextHead /\ in.ptr = end(in)
    BY DEF FrameWhole
  <2>1. ~out.invalid
    BY DEF Sender, Sent
  <2>2. PICK at : Layout(out.data, made, open, size, at) /\ Read(at)
    BY <2>1 DEF Packet
  <2>3. in.data = out.data /\ wire = NextHead /\ in.ptr = at[Len(made)]
    BY <2>2 DEF Read
  <2>4. at[Len(made)] = Len(out.data)
    BY <2>2 DEF Layout, Placed, Ends
  <2> QED
    BY <2>3, <2>4 DEF end
<1> QED
  BY <1>2, <1>3, <1>4, PTL DEF Spec

\* The bytes fit the allocation on both sides, and the receiver runs past its
\* bytes only in a body that ended early (reallocBsDataIfNeeded, bsRead).
THEOREM StreamsInBounds == ASSUME LengthsFit PROVE Spec => []InBounds
<1>1. PICK w : Sayable(w)
  BY DEF LengthsFit
<1>2. Init => Sender /\ Came /\ Packet(w)
  BY <1>1, SenderInit, CameInit, WholeInit
<1>3. Sender /\ Came /\ Packet(w) /\ [Next]_vars => Sender' /\ Came' /\ Packet(w)'
  BY <1>1, PacketNext
<1>4. Sender /\ Came /\ Packet(w) => InBounds
  BY DEF Sender, Typed, Writable, Fits, Came, InBounds
<1> QED
  BY <1>2, <1>3, <1>4, PTL DEF Spec
-----------------------------------------------------------------------------
\* Messages.

\* Sequences of bytes, one after the other, by names the provers do not look
\* behind.
Str == Seq(Octet)
Join(u, v) == u \o v
Sized(u, n) == u \in Str /\ Len(u) = n

\* A stream that holds u and then s, and can be written; and one with s
\* left to read.
Sound(b) == Writable(b) /\ ~b.fault /\ ~b.invalid
Holding(b, u, s) == Sound(b) /\ u \in Str /\ s \in Str /\ b.data = Join(u, s)
Before(b, s) == Fits(b) /\ ~b.fault /\ s \in Str /\ Stands(b.data, b.ptr, s) /\ Len(b.data) = b.ptr + Len(s)

\* The head of a TLV, and one before the length is known.
HeadOf(type, n) == Word_2_Charsb(type) \o Word_2_Charsb(n)
OpenHead(type) == HeadOf(type, 0)

\* As long as a word can tell.
Short(v) == Len(v) < 65536
-----------------------------------------------------------------------------
\* Messages: sequences of bytes.

LEMMA Number ==
  ASSUME NEW n \in Nat, n < 65536
  PROVE  Word_2_Charsb(n) = <<n \div 256, n % 256>>
<1>1. \A k \in Int : k % 256 \in 0 .. 255 /\ k = 256 * (k \div 256) + (k % 256) /\ k \div 256 \in Int
  OBVIOUS
<1>2. n \div 256 \in 0 .. 255
  <2>1. \A q \in Int, m \in 0 .. 255 : n = 256 * q + m => q \in 0 .. 255
    OBVIOUS
  <2> QED
    BY <1>1, <2>1
<1>3. \A k \in 0 .. 255 : k % 256 = k
  OBVIOUS
<1> QED
  BY <1>2, <1>3 DEF Word_2_Charsb

LEMMA ZeroSeq ==
  ASSUME NEW n \in Nat
  PROVE  Zeros(n) \in Seq(Octet) /\ Len(Zeros(n)) = n
<1>1. Zeros(n) \in [1 .. n -> Octet]
  BY DEF Zeros, Octet, Cipher
<1> QED
  BY <1>1, FunctionIsSeq

LEMMA SmallSeqs ==
  /\ \A x \in Octet : <<x>> \in Seq(Octet) /\ Len(<<x>>) = 1
  /\ \A x, y \in Octet : <<x, y>> \in Seq(Octet) /\ Len(<<x, y>>) = 2
  /\ \A x, y, z \in Octet : <<x, y, z>> \in Seq(Octet) /\ Len(<<x, y, z>>) = 3
  /\ \A x, y, z, w \in Octet : <<x, y, z, w>> \in Seq(Octet) /\ Len(<<x, y, z, w>>) = 4
  /\ <<>> \in Seq(Octet) /\ Len(<<>>) = 0
  OBVIOUS

LEMMA JoinedLen ==
  ASSUME NEW u \in Seq(Octet), NEW v \in Seq(Octet)
  PROVE  u \o v \in Seq(Octet) /\ Len(u \o v) = Len(u) + Len(v) /\ Len(u) \in Nat /\ Len(v) \in Nat
  BY Joined, Zenon

\* The bytes behind and before.
LEMMA BehindJoined ==
  ASSUME NEW u \in Seq(Octet), NEW v \in Seq(Octet)
  PROVE  SubSeq(u \o v, Len(u) + 1, Len(u \o v)) = v
<1>1. /\ u \o v \in Seq(Octet) /\ Len(u) \in Nat /\ Len(v) \in Nat /\ Len(u \o v) = Len(u) + Len(v)
      /\ \A i \in 1 .. Len(u) + Len(v) : (u \o v)[i] = IF i <= Len(u) THEN u[i] ELSE v[i - Len(u)]
  BY Joined, Zenon
<1>2. PICK d : d = u \o v
  BY Zenon
<1>3. PICK p \in Nat, k \in Nat : p = Len(u) /\ k = Len(v)
  BY <1>1
<1>4. /\ SubSeq(d, p + 1, p + k) \in Seq(Octet) /\ Len(SubSeq(d, p + 1, p + k)) = k
      /\ \A i \in 1 .. k : SubSeq(d, p + 1, p + k)[i] = d[p + i]
  BY <1>1, <1>2, <1>3, Piece
<1>5. \A i \in 1 .. k : d[p + i] = v[i]
  BY <1>1, <1>2, <1>3
<1>6. PICK e : e = SubSeq(d, p + 1, p + k)
  BY Zenon
<1>7. e \in Seq(Octet) /\ Len(e) = Len(v) /\ \A i \in 1 .. Len(e) : e[i] = v[i]
  BY <1>3, <1>4, <1>5, <1>6
<1>8. e = v
  BY <1>7, SeqEqual, Zenon
<1>9. Len(d) = p + k
  BY <1>1, <1>2, <1>3
<1> QED
  BY <1>2, <1>3, <1>6, <1>8, <1>9, Zenon

LEMMA WithinJoined ==
  ASSUME NEW u \in Seq(Octet), NEW v \in Seq(Octet), NEW w \in Seq(Octet),
         NEW d, d = (u \o v) \o w
  PROVE  Within(d, Len(u), Len(w)) = v
<1>1. PICK uv : uv = u \o v
  BY Zenon
<1>2. /\ uv \in Seq(Octet) /\ Len(u) \in Nat /\ Len(v) \in Nat /\ Len(w) \in Nat /\ Len(uv) = Len(u) + Len(v)
      /\ \A i \in 1 .. Len(u) + Len(v) : uv[i] = IF i <= Len(u) THEN u[i] ELSE v[i - Len(u)]
  BY <1>1, Joined, Zenon
<1>3. /\ d \in Seq(Octet) /\ Len(d) = Len(uv) + Len(w)
      /\ \A i \in 1 .. Len(uv) + Len(w) : d[i] = IF i <= Len(uv) THEN uv[i] ELSE w[i - Len(uv)]
  BY <1>1, <1>2, Joined, Zenon
<1>4. PICK p \in Nat, k \in Nat : p = Len(u) /\ k = Len(v)
  BY <1>2
<1>5. /\ SubSeq(d, p + 1, p + k) \in Seq(Octet) /\ Len(SubSeq(d, p + 1, p + k)) = k
      /\ \A i \in 1 .. k : SubSeq(d, p + 1, p + k)[i] = d[p + i]
  BY <1>2, <1>3, <1>4, Piece
<1>6. ASSUME NEW i \in 1 .. k
      PROVE  d[p + i] = v[i]
  <2>1. p + i \in 1 .. Len(uv) + Len(w) /\ p + i <= Len(uv) /\ p + i \in 1 .. Len(u) + Len(v) /\ ~(p + i <= Len(u))
        /\ (p + i) - Len(u) = i
    BY <1>2, <1>4
  <2> QED
    BY <2>1, <1>2, <1>3
<1>7. SubSeq(d, p + 1, p + k) = v
  BY <1>4, <1>5, <1>6, SeqEqual
<1>8. Len(d) - Len(w) = p + k
  BY <1>2, <1>3, <1>4
<1> QED
  BY <1>4, <1>7, <1>8 DEF Within

LEMMA JoinStr ==
  ASSUME NEW u \in Str, NEW v \in Str
  PROVE  Join(u, v) \in Str /\ Len(Join(u, v)) = Len(u) + Len(v) /\ Len(u) \in Nat /\ Len(v) \in Nat
  BY JoinedLen, Zenon DEF Str, Join

LEMMA JoinTwice ==
  ASSUME NEW u \in Str, NEW v \in Str, NEW w \in Str
  PROVE  Join(Join(u, v), w) = Join(u, Join(v, w))
  BY JoinedTwice, Zenon DEF Str, Join

LEMMA JoinEmpty ==
  ASSUME NEW u \in Str
  PROVE  Join(<<>>, u) = u /\ Join(u, <<>>) = u
  BY ConcatEmptySeq, Zenon DEF Str, Join

LEMMA StrNat ==
  ASSUME NEW u \in Str
  PROVE  Len(u) \in Nat
  BY LenProperties, Zenon DEF Str

LEMMA JoinSized ==
  ASSUME NEW u, NEW m, Sized(u, m), NEW v, NEW n, Sized(v, n)
  PROVE  Sized(Join(u, v), m + n)
  BY JoinStr, Zenon DEF Sized

LEMMA ItsSize ==
  ASSUME NEW u \in Str
  PROVE  Sized(u, Len(u)) /\ Len(u) \in Nat
  BY StrNat, Zenon DEF Sized

LEMMA SmallStrs ==
  /\ \A x \in Octet : Sized(<<x>>, 1)
  /\ \A x, y \in Octet : Sized(<<x, y>>, 2)
  /\ \A x, y, z \in Octet : Sized(<<x, y, z>>, 3)
  /\ \A x, y, z, w \in Octet : Sized(<<x, y, z, w>>, 4)
  /\ Sized(<<>>, 0)
  BY SmallSeqs, Zenon DEF Str, Sized

LEMMA ZeroStr ==
  ASSUME NEW n \in Nat
  PROVE  Sized(Zeros(n), n)
  BY ZeroSeq, Zenon DEF Str, Sized

LEMMA WordStr ==
  ASSUME NEW n \in Nat
  PROVE  Sized(Word_2_Charsb(n), 2) /\ Sized(Word_2_Chars(n), 2)
<1>1. n \in Int
  OBVIOUS
<1> QED
  BY <1>1, TwoBytes, Zenon DEF Str, Sized

LEMMA HeadStr ==
  ASSUME NEW type \in Nat, NEW n \in Nat
  PROVE  /\ HeadOf(type, n) = Join(Word_2_Charsb(type), Word_2_Charsb(n))
         /\ Sized(HeadOf(type, n), 4)
<1>1. HeadOf(type, n) = Join(Word_2_Charsb(type), Word_2_Charsb(n))
  BY Zenon DEF HeadOf, Join
<1>2. Sized(Join(Word_2_Charsb(type), Word_2_Charsb(n)), 2 + 2)
  BY WordStr, JoinSized, Zenon
<1> QED
  BY <1>1, <1>2

LEMMA WholeType ==
  ASSUME NEW type \in Nat, NEW v \in Str, Short(v)
  PROVE  /\ Whole(type, v) = Join(HeadOf(type, Len(v)), v)
         /\ Sized(Whole(type, v), 4 + Len(v))
<1>1. Len(v) \in Nat
  BY StrNat
<1>2. Word_2_Charsb(Len(v)) = <<Len(v) \div 256, Len(v) % 256>>
  BY <1>1, Number DEF Short
<1>3. Whole(type, v) = Join(HeadOf(type, Len(v)), v)
  BY <1>2, Zenon DEF Whole, HeadOf, Join
<1>4. Sized(HeadOf(type, Len(v)), 4)
  BY <1>1, HeadStr, Zenon
<1>5. Sized(v, Len(v))
  BY ItsSize, Zenon
<1>6. Sized(Join(HeadOf(type, Len(v)), v), 4 + Len(v))
  BY <1>4, <1>5, JoinSized, Zenon
<1> QED
  BY <1>3, <1>6, Zenon

-----------------------------------------------------------------------------
\* Messages: the sender.

LEMMA Puts ==
  ASSUME NEW b, NEW u, NEW s, Holding(b, u, s), NEW t \in Str
  PROVE  Holding(bsAppend(b, t, FALSE), u, Join(s, t))
<1> DEFINE c == reallocBsDataIfNeeded(b, Len(t), FALSE)
           d == bsAppend(b, t, FALSE)
<1>0. t \in Seq(Octet)
  BY Zenon DEF Str
<1>1. Grown(b, d, t)
  BY <1>0, AppendsBytes DEF Holding, Sound
<1>2. ~c.full /\ c.invalid = b.invalid
  <2>1. Len(t) \in Nat /\ Fits(b)
    BY StrNat DEF Holding, Sound, Writable
  <2> QED
    BY <2>1, Reallocated
<1>3. d.invalid = c.invalid
  <2>1. d = IF ~c.held /\ t # <<>> THEN [c EXCEPT !.fault = TRUE] ELSE [c EXCEPT !.data = @ \o t]
    BY <1>2 DEF bsAppend
  <2>2. c \in Stream
    <3>1. Len(t) \in Nat /\ Fits(b)
      BY StrNat DEF Holding, Sound, Writable
    <3> QED
      BY <3>1, Reallocated DEF Fits
  <2> HIDE DEF c, d
  <2> QED
    BY <2>1, <2>2 DEF Stream
<1> HIDE DEF c, d
<1>4. ~d.invalid /\ ~d.fault /\ Writable(d) /\ d.data = Join(b.data, t)
  BY <1>1, <1>2, <1>3 DEF Grown, Holding, Sound, Writable, Join
<1>5. Join(Join(u, s), t) = Join(u, Join(s, t)) /\ Join(s, t) \in Str
  BY JoinTwice, JoinStr, Zenon DEF Holding
<1> QED
  BY <1>4, <1>5 DEF Holding, Sound, d

LEMMA PutsFirst ==
  ASSUME NEW b, NEW u, Holding(b, u, <<>>), NEW t \in Str
  PROVE  Holding(bsAppend(b, t, FALSE), u, t)
  BY Puts, JoinEmpty

\* The head of a TLV whose length is not known yet.
LEMMA PutsTlv ==
  ASSUME NEW b, NEW type, NEW n
  PROVE  PutTlv(b, type, n) = bsAppend(b, HeadOf(type, n), FALSE)
  BY DEF PutTlv, bsAppendTlv, HeadOf

LEMMA Opens ==
  ASSUME NEW b, NEW u, NEW s, Holding(b, u, s), NEW type \in Nat
  PROVE  /\ Holding(PutTlv(b, type, 0), Join(Join(u, s), OpenHead(type)), <<>>)
         /\ end(b) = Len(Join(u, s))
<1>1. OpenHead(type) \in Str
  <2>1. 0 \in Nat
    OBVIOUS
  <2> QED
    BY <2>1, HeadStr, Zenon DEF OpenHead, Sized
<1>2. Holding(PutTlv(b, type, 0), u, Join(s, OpenHead(type)))
  BY <1>1, Puts, PutsTlv, Zenon DEF OpenHead
<1>3. u \in Str /\ s \in Str
  BY DEF Holding
<1>4. Join(Join(u, s), OpenHead(type)) = Join(u, Join(s, OpenHead(type))) /\ Join(u, s) \in Str
  BY <1>1, <1>3, JoinTwice, JoinStr, Zenon
<1>5. Join(Join(u, s), OpenHead(type)) \in Str
  BY <1>1, <1>4, JoinStr, Zenon
<1>6. Join(Join(Join(u, s), OpenHead(type)), <<>>) = Join(Join(u, s), OpenHead(type)) /\ <<>> \in Str
  BY <1>5, JoinEmpty, SmallStrs, Zenon DEF Sized
<1>7. Holding(PutTlv(b, type, 0), Join(Join(u, s), OpenHead(type)), <<>>)
  BY <1>2, <1>4, <1>5, <1>6 DEF Holding
<1> QED
  BY <1>7 DEF Holding, end

\* Two bytes in the middle.
LaidOut(d, u, w, v) ==
    /\ d \in Seq(Octet) /\ Len(d) = Len(u) + 2 + Len(v)
    /\ \A i \in 1 .. Len(u) + 2 + Len(v) :
           d[i] = IF i <= Len(u) THEN u[i] ELSE IF i <= Len(u) + 2 THEN w[i - Len(u)] ELSE v[i - (Len(u) + 2)]

LEMMA TwoWithin ==
  ASSUME NEW u \in Str, NEW w \in Str, Len(w) = 2, NEW v \in Str
  PROVE  LaidOut(Join(Join(u, w), v), u, w, v)
<1>1. PICK p, k : p = Len(u) /\ k = Len(v)
  BY Zenon
<1>2. PICK e : e = Join(u, w)
  BY Zenon
<1>3. PICK d : d = Join(e, v)
  BY Zenon
<1>4. /\ e \in Seq(Octet) /\ Len(e) = Len(u) + Len(w)
      /\ \A i \in 1 .. Len(u) + Len(w) : e[i] = IF i <= Len(u) THEN u[i] ELSE w[i - Len(u)]
  BY <1>2, Joined, Zenon DEF Join, Str
<1>5. /\ d \in Seq(Octet) /\ Len(d) = Len(e) + Len(v)
      /\ \A i \in 1 .. Len(e) + Len(v) : d[i] = IF i <= Len(e) THEN e[i] ELSE v[i - Len(e)]
  BY <1>3, <1>4, Joined, Zenon DEF Join, Str
<1>6. p \in Nat /\ k \in Nat
  BY <1>1, StrNat, Zenon
<1>7. Len(e) = p + 2 /\ Len(d) = p + 2 + k /\ Len(u) = p /\ Len(e) + Len(v) = p + 2 + k /\ Len(u) + Len(w) = p + 2
  BY <1>1, <1>4, <1>5, <1>6
<1>8. ASSUME NEW i \in 1 .. p + 2 + k
      PROVE  d[i] = IF i <= p THEN u[i] ELSE IF i <= p + 2 THEN w[i - p] ELSE v[i - (p + 2)]
  <2>1. d[i] = IF i <= p + 2 THEN e[i] ELSE v[i - (p + 2)]
    BY <1>5, <1>7
  <2>2. i <= p + 2 => e[i] = IF i <= p THEN u[i] ELSE w[i - p]
    <3>1. i <= p + 2 => i \in 1 .. p + 2
      BY <1>6
    <3> QED
      BY <3>1, <1>4, <1>7
  <2>3. i <= p => i <= p + 2
    BY <1>6
  <2> QED
    BY <2>1, <2>2, <2>3
<1> QED
  BY <1>1, <1>2, <1>3, <1>5, <1>7, <1>8, Zenon DEF LaidOut

\* Other bytes in their place.
LEMMA Patched ==
  ASSUME NEW u, NEW v, NEW y, NEW z, Len(z) = 2, NEW d, LaidOut(d, u, y, v), NEW f, LaidOut(f, u, z, v),
         NEW e \in Seq(Octet), Len(e) = Len(d), Len(u) \in Nat, Len(v) \in Nat, Stands(e, Len(u), z),
         \A i \in 1 .. Len(d) : i <= Len(u) \/ Len(u) + 2 < i => e[i] = d[i]
  PROVE  e = f
<1>1. PICK p \in Nat, k \in Nat : p = Len(u) /\ k = Len(v)
  BY Zenon
<1>2. /\ Len(d) = p + 2 + k
      /\ \A i \in 1 .. p + 2 + k : d[i] = IF i <= p THEN u[i] ELSE IF i <= p + 2 THEN y[i - p] ELSE v[i - (p + 2)]
  BY <1>1, Zenon DEF LaidOut
<1>3. /\ f \in Seq(Octet) /\ Len(f) = p + 2 + k
      /\ \A i \in 1 .. p + 2 + k : f[i] = IF i <= p THEN u[i] ELSE IF i <= p + 2 THEN z[i - p] ELSE v[i - (p + 2)]
  BY <1>1, Zenon DEF LaidOut
<1>4. /\ Len(e) = p + 2 + k
      /\ \A i \in 1 .. p + 2 + k : i <= p \/ p + 2 < i => e[i] = d[i]
      /\ Stands(e, p, z)
  BY <1>1, <1>2, Zenon
<1>5. ASSUME NEW i \in 1 .. p + 2 + k
      PROVE  e[i] = f[i]
  <2>1. CASE i <= p \/ p + 2 < i
    <3>1. e[i] = d[i]
      BY <2>1, <1>4, Zenon
    <3>2. d[i] = f[i]
      <4>1. i <= p \/ ~(i <= p + 2)
        BY <2>1, <1>1
      <4>2. ~(i <= p + 2) => ~(i <= p)
        BY <1>1
      <4> QED
        BY <4>1, <4>2, <1>2, <1>3, Zenon
    <3> QED
      BY <3>1, <3>2, Zenon
  <2>2. CASE ~(i <= p \/ p + 2 < i)
    <3>1. i - p \in 1 .. 2 /\ p + (i - p) = i /\ ~(i <= p) /\ i <= p + 2
      BY <2>2, <1>1
    <3>2. \A j \in 1 .. 2 : e[p + j] = z[j]
      BY <1>4, Zenon DEF Stands
    <3>3. e[i] = z[i - p]
      BY <3>1, <3>2, Zenon
    <3>4. f[i] = z[i - p]
      BY <3>1, <1>3, Zenon
    <3> QED
      BY <3>3, <3>4, Zenon
  <2> QED
    BY <2>1, <2>2, Zenon
<1>6. \A i \in 1 .. Len(e) : e[i] = f[i]
  BY <1>4, <1>5, Zenon
<1>7. Len(e) = Len(f)
  BY <1>3, <1>4, Zenon
<1> QED
  BY <1>3, <1>6, <1>7, SeqEqual, Zenon

LEMMA OwnHeadParts ==
  ASSUME NEW u \in Str, NEW type \in Nat, NEW v \in Str, Short(v)
  PROVE  \E x, y, z \in Str :
         /\ Len(y) = 2 /\ Len(z) = 2 /\ z = Word_2_Charsb(Len(v)) /\ Sized(Join(u, x), Len(u) + 2)
         /\ Join(Join(u, OpenHead(type)), v) = Join(Join(Join(u, x), y), v)
         /\ Join(u, Whole(type, v)) = Join(Join(Join(u, x), z), v)
<1>1. Len(v) \in Nat /\ 0 \in Nat
  BY StrNat
<1>2. PICK x, y, z : x = Word_2_Charsb(type) /\ y = Word_2_Charsb(0) /\ z = Word_2_Charsb(Len(v))
  BY Zenon
<1>3. Sized(x, 2) /\ Sized(y, 2) /\ Sized(z, 2)
  BY <1>1, <1>2, WordStr, Zenon
<1>4. x \in Str /\ y \in Str /\ z \in Str /\ Len(y) = 2 /\ Len(z) = 2
  BY <1>3, Zenon DEF Sized
<1>5. OpenHead(type) = Join(x, y)
  BY <1>1, <1>2, HeadStr, Zenon DEF OpenHead
<1>6. Whole(type, v) = Join(Join(x, z), v)
  <2>1. Whole(type, v) = Join(HeadOf(type, Len(v)), v)
    BY WholeType, Zenon
  <2>2. HeadOf(type, Len(v)) = Join(x, z)
    BY <1>1, <1>2, HeadStr, Zenon
  <2> QED
    BY <2>1, <2>2
<1>7. Join(u, Join(x, y)) = Join(Join(u, x), y) /\ Join(u, Join(x, z)) = Join(Join(u, x), z)
  BY <1>4, JoinTwice, Zenon
<1>8. Join(x, z) \in Str
  BY <1>4, JoinStr, Zenon
<1>9. Join(Join(u, Join(x, z)), v) = Join(u, Join(Join(x, z), v))
  BY <1>8, JoinTwice, Zenon
<1>10. Sized(u, Len(u))
  BY ItsSize, Zenon
<1>11. Sized(Join(u, x), Len(u) + 2)
  BY <1>3, <1>10, JoinSized, Zenon
<1>12. Join(Join(u, OpenHead(type)), v) = Join(Join(Join(u, x), y), v)
  BY <1>5, <1>7
<1>13. Join(u, Whole(type, v)) = Join(Join(Join(u, x), z), v)
  BY <1>6, <1>7, <1>9
<1> QED
  BY <1>2, <1>4, <1>11, <1>12, <1>13, Zenon

\* bsUpdateTlvLen puts down the length of what follows.
LEMMA Fills ==
  ASSUME NEW b, Sound(b), NEW u \in Str, NEW type \in Nat, NEW v \in Str, Short(v),
         b.data = Join(Join(u, OpenHead(type)), v)
  PROVE  /\ Sound(bsUpdateTlvLen(b, Len(u)))
         /\ bsUpdateTlvLen(b, Len(u)).data = Join(u, Whole(type, v))
<1>1. PICK x, y, z \in Str :
         /\ Len(y) = 2 /\ Len(z) = 2 /\ z = Word_2_Charsb(Len(v)) /\ Sized(Join(u, x), Len(u) + 2)
         /\ Join(Join(u, OpenHead(type)), v) = Join(Join(Join(u, x), y), v)
         /\ Join(u, Whole(type, v)) = Join(Join(Join(u, x), z), v)
  BY OwnHeadParts, Zenon
<1>2. PICK ux, p, n, m : ux = Join(u, x) /\ p = Len(ux) /\ n = Len(v) /\ m = Len(u)
  BY Zenon
<1>3. PICK c, d, f : c = bsUpdateTlvLen(b, m) /\ d = b.data /\ f = Join(Join(ux, z), v)
  BY Zenon
<1>4. ux \in Str /\ p = m + 2
  BY <1>1, <1>2, Zenon DEF Sized
<1>5. m \in Nat /\ n \in Nat
  BY <1>2, StrNat, Zenon
<1>6. p \in Nat /\ p \in Int /\ n \in Int /\ 0 <= p /\ p + 2 <= p + 2 + n /\ (p + 2 + n) - m - 4 = n
  BY <1>4, <1>5
<1>7. d = Join(Join(ux, y), v)
  BY <1>1, <1>2, <1>3
<1>8. LaidOut(d, ux, y, v)
  BY <1>1, <1>4, <1>7, TwoWithin
<1>9. LaidOut(f, ux, z, v)
  BY <1>1, <1>3, <1>4, TwoWithin
<1>10. Len(d) = p + 2 + n
  BY <1>2, <1>8, Zenon DEF LaidOut
<1>11. c = bsUpdateWord(b, p, n)
  BY <1>3, <1>4, <1>6, <1>10 DEF bsUpdateTlvLen, end, SIZEOF_TLV_HEAD, TLV_LEN_OFFSET
<1>12. /\ Writable(c) /\ c.invalid = b.invalid /\ c.fault = b.fault /\ end(c) = end(b)
       /\ 0 <= p /\ p + 2 <= end(b) =>
            /\ Stands(c.data, p, Word_2_Charsb(n))
            /\ \A i \in 1 .. end(b) : i <= p \/ p + 2 < i => c.data[i] = b.data[i]
  <2>1. Writable(b) /\ ~b.fault
    BY Zenon DEF Sound
  <2>2. p \in Int /\ n \in Int
    BY <1>6, Zenon
  <2> QED
    BY <2>1, <2>2, <1>11, Updated
<1>13. p + 2 <= end(b)
  BY <1>3, <1>6, <1>10 DEF end
<1>14. PICK e : e = c.data
  BY Zenon
<1>15. e \in Seq(Octet) /\ Len(e) = Len(d)
  BY <1>3, <1>12, <1>14 DEF end, Writable, Fits, Stream
<1>16. Stands(e, Len(ux), z) /\ \A i \in 1 .. Len(d) : i <= Len(ux) \/ Len(ux) + 2 < i => e[i] = d[i]
  <2>1. Stands(e, p, z)
    BY <1>1, <1>2, <1>6, <1>12, <1>13, <1>14, Zenon
  <2>2. \A i \in 1 .. Len(d) : i <= p \/ p + 2 < i => e[i] = d[i]
    BY <1>3, <1>6, <1>12, <1>13, <1>14, Zenon DEF end
  <2> QED
    BY <2>1, <2>2, <1>2, Zenon
<1>17. e = f
  <2>1. Len(z) = 2
    BY <1>1, Zenon
  <2>2. Len(ux) \in Nat /\ Len(v) \in Nat
    BY <1>2, <1>5, <1>6, Zenon
  <2> QED
    BY <2>1, <2>2, <1>8, <1>9, <1>15, <1>16, Patched
<1>18. f = Join(u, Whole(type, v))
  BY <1>1, <1>2, <1>3
<1> QED
  BY <1>2, <1>3, <1>12, <1>14, <1>17, <1>18, Zenon DEF Sound

\* What was open is whole.
LEMMA Closes ==
  ASSUME NEW b, NEW u \in Str, NEW s \in Str, NEW type \in Nat, NEW v, Short(v),
         Holding(b, Join(Join(u, s), OpenHead(type)), v)
  PROVE  Holding(bsUpdateTlvLen(b, Len(Join(u, s))), u, Join(s, Whole(type, v)))
<1>1. PICK w : w = Join(u, s)
  BY Zenon
<1>2. w \in Str
  BY <1>1, JoinStr, Zenon
<1>3. v \in Str /\ Sound(b) /\ b.data = Join(Join(w, OpenHead(type)), v)
  BY <1>1 DEF Holding
<1>4. PICK c : c = bsUpdateTlvLen(b, Len(w))
  BY Zenon
<1>5. Sound(c) /\ c.data = Join(w, Whole(type, v))
  BY <1>2, <1>3, <1>4, Fills, Zenon
<1>6. Whole(type, v) \in Str
  BY <1>3, WholeType, Zenon DEF Sized
<1>7. Join(Join(u, s), Whole(type, v)) = Join(u, Join(s, Whole(type, v))) /\ Join(s, Whole(type, v)) \in Str
  BY <1>6, JoinTwice, JoinStr, Zenon
<1> QED
  BY <1>1, <1>4, <1>5, <1>7 DEF Holding

LEMMA PutsByte ==
  ASSUME NEW b, NEW u, NEW s, Holding(b, u, s), NEW n \in Nat
  PROVE  Holding(PutByte(b, n), u, Join(s, <<n % 256>>))
<1>1. n % 256 \in Byte
  BY WordOfBytes
<1>2. n % 256 \in Octet
  BY <1>1, Octets, Zenon
<1>3. <<n % 256>> \in Str
  BY <1>2, SmallStrs, Zenon DEF Sized
<1> QED
  BY <1>3, Puts, Zenon DEF PutByte

LEMMA PutsWord ==
  ASSUME NEW b, NEW u, NEW s, Holding(b, u, s), NEW n \in Nat
  PROVE  /\ Holding(PutWord(b, n), u, Join(s, Word_2_Charsb(n)))
         /\ Holding(PutWordLE(b, n), u, Join(s, Word_2_Chars(n)))
<1>1. Word_2_Charsb(n) \in Str /\ Word_2_Chars(n) \in Str
  BY WordStr, Zenon DEF Sized
<1> QED
  BY <1>1, Puts, Zenon DEF PutWord, PutWordLE

LEMMA PutsBytes ==
  ASSUME NEW b, NEW u, NEW s, Holding(b, u, s), NEW t \in Str
  PROVE  Holding(PutBytes(b, t), u, Join(s, t))
  BY Puts, Zenon DEF PutBytes

LEMMA PutsHead ==
  ASSUME NEW b, NEW u, NEW s, Holding(b, u, s), NEW type \in Nat, NEW n \in Nat
  PROVE  Holding(PutTlv(b, type, n), u, Join(s, HeadOf(type, n)))
<1>1. HeadOf(type, n) \in Str
  BY HeadStr, Zenon DEF Sized
<1> QED
  BY <1>1, Puts, PutsTlv, Zenon

\* What a message of format 1 is made of.
Text257(charset, data) == Join(Join(Word_2_Charsb(charset), Word_2_Charsb(0)), data)
Inside1(charset, data) == Join(Whole(1281, <<1>>), Whole(257, Text257(charset, data)))
Charset(slave) == IF slave.utf8 THEN 2 ELSE 0

\* Far from what a word can hold, with all the heads around it.
Modest(v) == Len(v) <= 65000

LEMMA OneWhole ==
  ASSUME NEW type \in Nat
  PROVE  /\ Sized(Whole(type, << 1 >>), 5)
         /\ Whole(type, << 1 >>) = Join(HeadOf(type, 1), << 1 >>)
<1>1. 1 \in Octet
  BY DEF Octet, Cipher
<1>2. Sized(<<1>>, 1)
  BY <1>1, SmallStrs, Zenon
<1>3. <<1>> \in Str /\ Len(<<1>>) = 1
  BY <1>2, Zenon DEF Sized
<1>4. Short(<<1>>)
  BY <1>3 DEF Short
<1>5. Sized(Whole(type, <<1>>), 4 + Len(<<1>>)) /\ Whole(type, <<1>>) = Join(HeadOf(type, Len(<<1>>)), <<1>>)
  BY <1>3, <1>4, WholeType, Zenon
<1>6. PICK k : k = Len(<<1>>)
  BY Zenon
<1>7. k = 1 /\ 4 + k = 5
  BY <1>3, <1>6
<1> QED
  BY <1>5, <1>6, <1>7

LEMMA Sizes1 ==
  ASSUME NEW cs \in Nat, NEW data \in Str, Modest(data)
  PROVE  /\ Sized(Text257(cs, data), 4 + Len(data)) /\ Short(Text257(cs, data))
         /\ Sized(Whole(257, Text257(cs, data)), 8 + Len(data))
         /\ Sized(Inside1(cs, data), 13 + Len(data)) /\ Short(Inside1(cs, data))
<1>1. Sized(data, Len(data)) /\ Len(data) \in Nat /\ 0 \in Nat
  BY ItsSize
<1>2. PICK k \in Nat : k = Len(data)
  BY <1>1
<1>3. Sized(Word_2_Charsb(cs), 2) /\ Sized(Word_2_Charsb(0), 2)
  BY <1>1, WordStr, Zenon
<1>4. Sized(Join(Word_2_Charsb(cs), Word_2_Charsb(0)), 2 + 2)
  BY <1>3, JoinSized, Zenon
<1>5. Sized(Text257(cs, data), (2 + 2) + Len(data))
  BY <1>1, <1>4, JoinSized, Zenon DEF Text257
<1>6. PICK t : t = Text257(cs, data)
  BY Zenon
<1>7. k <= 65000 /\ (2 + 2) + k = 4 + k
  BY <1>2 DEF Modest
<1>8. Sized(t, 4 + k)
  BY <1>2, <1>5, <1>6, <1>7
<1>9. t \in Str /\ Len(t) = 4 + k
  BY <1>8, Zenon DEF Sized
<1>10. Short(t)
  BY <1>2, <1>7, <1>9 DEF Short
<1>11. PICK tB \in Nat : tB = 257
  OBVIOUS
<1>12. PICK w : w = Whole(tB, t)
  BY Zenon
<1>13. Sized(w, 4 + Len(t))
  BY <1>9, <1>10, <1>12, WholeType, Zenon
<1>14. Sized(w, 8 + k)
  BY <1>2, <1>9, <1>13
<1>15. PICK tA \in Nat : tA = 1281
  OBVIOUS
<1>16. Sized(Whole(tA, <<1>>), 5)
  BY OneWhole, Zenon
<1>17. Sized(Join(Whole(tA, <<1>>), w), 5 + (8 + k))
  BY <1>14, <1>16, JoinSized, Zenon
<1>18. PICK i : i = Join(Whole(tA, <<1>>), w)
  BY Zenon
<1>19. Sized(i, 13 + k)
  BY <1>2, <1>17, <1>18
<1>20. Short(i)
  <2>1. Len(i) = 13 + k
    BY <1>19, Zenon DEF Sized
  <2> QED
    BY <2>1, <1>2, <1>7 DEF Short
<1>21. i = Inside1(cs, data)
  BY <1>6, <1>11, <1>12, <1>15, <1>18 DEF Inside1
<1> QED
  BY <1>2, <1>6, <1>8, <1>10, <1>11, <1>12, <1>14, <1>19, <1>20, <1>21

LEMMA Body1Built ==
  ASSUME NEW b, NEW u, NEW s, Holding(b, u, s), NEW slave, NEW data \in Str, Modest(data)
  PROVE  Holding(bsAppendMessageBodyType1(b, slave, data), u, Join(s, Whole(2, Inside1(Charset(slave), data))))
<1>1. PICK tA \in Nat, tB \in Nat : tA = 1281 /\ tB = 257
  OBVIOUS
<1>2. PICK cs : cs = Charset(slave)
  BY Zenon
<1>3. cs \in Nat /\ 0 \in Nat /\ 1 \in Nat /\ 2 \in Nat /\ 1 % 256 = 1
  BY <1>2 DEF Charset
<1>4. PICK b1, b2, one, b3, b4, b5, two, b7 :
        /\ b1 = PutTlv(b, 2, 0) /\ b2 = PutTlv(b1, tA, 1) /\ one = PutByte(b2, 1)
        /\ b3 = PutTlv(one, tB, 0) /\ b4 = PutWord(b3, cs) /\ b5 = PutWord(b4, 0) /\ two = PutBytes(b5, data)
        /\ b7 = bsUpdateTlvLen(two, end(one))
  BY Zenon
<1>5. bsAppendMessageBodyType1(b, slave, data) = bsUpdateTlvLen(b7, end(b))
  BY <1>1, <1>2, <1>4 DEF bsAppendMessageBodyType1, Charset
<1>6. PICK v, w1, w2, in1 : v = Text257(cs, data) /\ w1 = Whole(tA, <<1>>) /\ w2 = Whole(tB, v) /\ in1 = Join(w1, w2)
  BY Zenon
<1>7. in1 = Inside1(cs, data)
  BY <1>1, <1>6 DEF Inside1
<1>8. Short(v) /\ Short(in1) /\ w1 \in Str /\ in1 \in Str
  <2>1. Sized(in1, 13 + Len(data)) /\ Short(v) /\ Short(in1)
    BY <1>3, <1>6, <1>7, Sizes1
  <2>2. Sized(w1, 5)
    BY <1>6, OneWhole
  <2> QED
    BY <2>1, <2>2, Zenon DEF Sized
<1>9. PICK u1, u2 : u1 = Join(Join(u, s), OpenHead(2)) /\ u2 = Join(Join(u1, w1), OpenHead(tB))
  BY Zenon
<1>10. Holding(b1, u1, <<>>) /\ end(b) = Len(Join(u, s))
  BY <1>3, <1>4, <1>9, Opens
<1>11. Holding(b2, u1, HeadOf(tA, 1))
  <2>1. Holding(PutTlv(b1, tA, 1), u1, Join(<<>>, HeadOf(tA, 1)))
    BY <1>3, <1>10, PutsHead, Zenon
  <2>2. HeadOf(tA, 1) \in Str
    BY <1>3, HeadStr, Zenon DEF Sized
  <2> QED
    BY <2>1, <2>2, <1>4, JoinEmpty
<1>12. Holding(one, u1, w1)
  <2>1. Holding(PutByte(b2, 1), u1, Join(HeadOf(tA, 1), <<1 % 256>>))
    BY <1>3, <1>11, PutsByte, Zenon
  <2>2. w1 = Join(HeadOf(tA, 1), <<1>>)
    BY <1>6, OneWhole
  <2> QED
    BY <2>1, <2>2, <1>3, <1>4
<1>13. Holding(b3, u2, <<>>) /\ end(one) = Len(Join(u1, w1))
  BY <1>4, <1>9, <1>12, Opens
<1>14. Holding(b4, u2, Word_2_Charsb(cs))
  <2>1. Holding(PutWord(b3, cs), u2, Join(<<>>, Word_2_Charsb(cs)))
    BY <1>3, <1>13, PutsWord, Zenon
  <2>2. Word_2_Charsb(cs) \in Str
    BY <1>3, WordStr, Zenon DEF Sized
  <2> QED
    BY <2>1, <2>2, <1>4, JoinEmpty
<1>15. Holding(b5, u2, Join(Word_2_Charsb(cs), Word_2_Charsb(0)))
  <2>1. Holding(PutWord(b4, 0), u2, Join(Word_2_Charsb(cs), Word_2_Charsb(0)))
    BY <1>3, <1>14, PutsWord, Zenon
  <2> QED
    BY <2>1, <1>4
<1>16. Holding(two, u2, v)
  <2>1. Holding(PutBytes(b5, data), u2, Join(Join(Word_2_Charsb(cs), Word_2_Charsb(0)), data))
    BY <1>15, PutsBytes, Zenon
  <2> QED
    BY <2>1, <1>4, <1>6 DEF Text257
<1>17. u1 \in Str /\ u \in Str /\ s \in Str
  BY <1>10, Zenon DEF Holding
<1>18. Holding(b7, u1, Join(w1, Whole(tB, v)))
  <2>1. Holding(two, Join(Join(u1, w1), OpenHead(tB)), v)
    BY <1>9, <1>16
  <2>2. Holding(bsUpdateTlvLen(two, Len(Join(u1, w1))), u1, Join(w1, Whole(tB, v)))
    BY <2>1, <1>8, <1>17, Closes, Zenon
  <2> QED
    BY <2>2, <1>4, <1>13
<1>19. Holding(bsUpdateTlvLen(b7, end(b)), u, Join(s, Whole(2, in1)))
  <2>1. Holding(b7, Join(Join(u, s), OpenHead(2)), in1)
    BY <1>6, <1>9, <1>18
  <2>2. Holding(bsUpdateTlvLen(b7, Len(Join(u, s))), u, Join(s, Whole(2, in1)))
    BY <2>1, <1>3, <1>8, <1>17, Closes, Zenon
  <2> QED
    BY <2>2, <1>10
<1> QED
  BY <1>2, <1>5, <1>7, <1>19

\* What is built on top of u and s, and what is built behind s.
LEMMA Rebased ==
  ASSUME NEW b, NEW u, NEW s, Holding(b, u, s)
  PROVE  Holding(b, Join(u, s), <<>>)
<1>1. Join(u, s) \in Str /\ Sound(b) /\ b.data = Join(u, s)
  BY JoinStr, Zenon DEF Holding
<1>2. Join(Join(u, s), <<>>) = Join(u, s) /\ <<>> \in Str
  BY <1>1, JoinEmpty, SmallStrs, Zenon DEF Sized
<1> QED
  BY <1>1, <1>2 DEF Holding

LEMMA Unbased ==
  ASSUME NEW b, NEW u \in Str, NEW s \in Str, NEW t, Holding(b, Join(u, s), t)
  PROVE  Holding(b, u, Join(s, t))
<1>1. t \in Str /\ Sound(b) /\ b.data = Join(Join(u, s), t)
  BY Zenon DEF Holding
<1>2. Join(Join(u, s), t) = Join(u, Join(s, t)) /\ Join(s, t) \in Str
  BY <1>1, JoinTwice, JoinStr, Zenon
<1> QED
  BY <1>1, <1>2 DEF Holding

LEMMA PutsOne ==
  ASSUME NEW b, NEW u, NEW s, Holding(b, u, s), NEW n \in Byte
  PROVE  Holding(PutByte(b, n), u, Join(s, <<n>>)) /\ Sized(<<n>>, 1)
<1>1. n \in Nat /\ n \in Octet
  BY BytesAreNumbers, Octets, Zenon
<1>2. n % 256 = n
  BY ByteIsItself
<1>3. Holding(PutByte(b, n), u, Join(s, <<n % 256>>))
  BY <1>1, PutsByte, Zenon
<1> QED
  BY <1>1, <1>2, <1>3, SmallStrs

\* What a message of format 4 is made of.
Start4(type) == Join(Join(<<49, 0, 0, 0>>, <<type>>), <<0>>)
Text4(data) == Join(Join(<<(Len(data) + 1) % 256>>, data), <<0>>)
Inside4(type, data) == Join(Start4(type), Text4(data))

LEMMA Sizes4 ==
  ASSUME NEW type \in Byte, NEW data \in Str, Modest(data)
  PROVE  /\ Sized(Start4(type), 6) /\ Sized(Text4(data), 2 + Len(data))
         /\ Sized(Inside4(type, data), 8 + Len(data)) /\ Short(Inside4(type, data))
<1>1. Sized(data, Len(data)) /\ Len(data) \in Nat
  BY ItsSize
<1>2. PICK k \in Nat : k = Len(data)
  BY <1>1
<1>3. PICK m : m = (k + 1) % 256
  BY Zenon
<1>4. m \in Byte /\ 0 \in Byte /\ 49 \in Byte
  <2>1. \A j \in Int : j % 256 \in Byte
    BY WordOfBytes, Zenon
  <2>2. k + 1 \in Int
    BY <1>2
  <2>3. 0 \in Byte /\ 49 \in Byte
    BY DEF Byte
  <2> QED
    BY <2>1, <2>2, <2>3, <1>3, Zenon
<1>5. Sized(<<m>>, 1) /\ Sized(<<0>>, 1) /\ Sized(<<type>>, 1) /\ Sized(<<49, 0, 0, 0>>, 4)
  <2>1. m \in Octet /\ 0 \in Octet /\ 49 \in Octet /\ type \in Octet
    BY <1>4, Octets, Zenon
  <2> QED
    BY <2>1, SmallStrs, Zenon
<1>6. Sized(Join(<<m>>, data), 1 + Len(data))
  BY <1>1, <1>5, JoinSized, Zenon
<1>7. Sized(Text4(data), (1 + Len(data)) + 1)
  <2>1. Sized(Join(Join(<<m>>, data), <<0>>), (1 + Len(data)) + 1)
    BY <1>5, <1>6, JoinSized, Zenon
  <2> QED
    BY <2>1, <1>2, <1>3 DEF Text4
<1>8. Sized(Join(<<49, 0, 0, 0>>, <<type>>), 4 + 1)
  BY <1>5, JoinSized, Zenon
<1>9. Sized(Start4(type), (4 + 1) + 1)
  BY <1>5, <1>8, JoinSized, Zenon DEF Start4
<1>10. Sized(Inside4(type, data), ((4 + 1) + 1) + ((1 + Len(data)) + 1))
  BY <1>7, <1>9, JoinSized, Zenon DEF Inside4
<1>11. PICK i, t, p : i = Inside4(type, data) /\ t = Text4(data) /\ p = Start4(type)
  BY Zenon
<1>12. Sized(i, 8 + k) /\ Sized(t, 2 + k) /\ Sized(p, 6)
  BY <1>2, <1>7, <1>9, <1>10, <1>11
<1>13. Short(i)
  <2>1. Len(i) = 8 + k
    BY <1>12, Zenon DEF Sized
  <2> QED
    BY <2>1, <1>2 DEF Short, Modest
<1> QED
  BY <1>2, <1>11, <1>12, <1>13

LEMMA Body4Built ==
  ASSUME NEW b, NEW u, NEW s, Holding(b, u, s), NEW type \in Byte, NEW data \in Str, Modest(data)
  PROVE  Holding(bsAppendMessageBodyType4(b, type, data), u, Join(s, Whole(5, Inside4(type, data))))
<1>1. PICK n : n = Len(data) + 1
  BY Zenon
<1>2. n \in Nat /\ 0 \in Nat /\ 5 \in Nat /\ 0 \in Byte /\ 49 \in Byte
  BY <1>1, StrNat DEF Byte
<1>3. PICK b1, b2, b3, b4, b5, b6, b7 :
        /\ b1 = PutTlv(b, 5, 0) /\ b2 = PutBytes(b1, <<49, 0, 0, 0>>) /\ b3 = PutByte(b2, type)
        /\ b4 = PutByte(b3, 0) /\ b5 = PutByte(b4, n) /\ b6 = PutBytes(b5, data) /\ b7 = PutByte(b6, 0)
  BY Zenon
<1>4. bsAppendMessageBodyType4(b, type, data) = bsUpdateTlvLen(b7, end(b))
  BY <1>1, <1>3 DEF bsAppendMessageBodyType4
<1>5. PICK p, t, i : p = Start4(type) /\ t = Text4(data) /\ i = Inside4(type, data)
  BY Zenon
<1>6. Short(i) /\ p \in Str
  <2>1. Short(i) /\ Sized(p, 6)
    BY <1>5, Sizes4
  <2> QED
    BY <2>1, Zenon DEF Sized
<1>7. PICK u1 : u1 = Join(Join(u, s), OpenHead(5))
  BY Zenon
<1>8. Holding(b1, u1, <<>>) /\ end(b) = Len(Join(u, s))
  BY <1>2, <1>3, <1>7, Opens
<1>9. Sized(<<49, 0, 0, 0>>, 4)
  BY <1>2, Octets, SmallStrs
<1>10. Holding(b2, u1, <<49, 0, 0, 0>>)
  <2>1. <<49, 0, 0, 0>> \in Str
    BY <1>9, Zenon DEF Sized
  <2>2. Holding(PutBytes(b1, <<49, 0, 0, 0>>), u1, Join(<<>>, <<49, 0, 0, 0>>))
    BY <2>1, <1>8, PutsBytes, Zenon
  <2> QED
    BY <2>1, <2>2, <1>3, JoinEmpty
<1>11. Holding(b3, u1, Join(<<49, 0, 0, 0>>, <<type>>))
  <2>1. Holding(PutByte(b2, type), u1, Join(<<49, 0, 0, 0>>, <<type>>))
    BY <1>10, PutsOne, Zenon
  <2> QED
    BY <2>1, <1>3
<1>12. Holding(b4, u1, p)
  <2>1. Holding(PutByte(b3, 0), u1, Join(Join(<<49, 0, 0, 0>>, <<type>>), <<0>>))
    BY <1>2, <1>11, PutsOne, Zenon
  <2> QED
    BY <2>1, <1>3, <1>5 DEF Start4
<1>13. PICK u2 : u2 = Join(u1, p)
  BY Zenon
<1>14. Holding(b4, u2, <<>>)
  BY <1>12, <1>13, Rebased
<1>15. Holding(b5, u2, <<n % 256>>)
  <2>1. Holding(PutByte(b4, n), u2, Join(<<>>, <<n % 256>>))
    BY <1>2, <1>14, PutsByte, Zenon
  <2>2. n % 256 \in Octet
    BY <1>2, WordOfBytes, Octets
  <2>3. <<n % 256>> \in Str
    BY <2>2, SmallStrs, Zenon DEF Sized
  <2> QED
    BY <2>1, <2>3, <1>3, JoinEmpty
<1>16. Holding(b6, u2, Join(<<n % 256>>, data))
  <2>1. Holding(PutBytes(b5, data), u2, Join(<<n % 256>>, data))
    BY <1>15, PutsBytes, Zenon
  <2> QED
    BY <2>1, <1>3
<1>17. Holding(b7, u2, t)
  <2>1. Holding(PutByte(b6, 0), u2, Join(Join(<<n % 256>>, data), <<0>>))
    BY <1>2, <1>16, PutsOne, Zenon
  <2> QED
    BY <2>1, <1>1, <1>3, <1>5 DEF Text4
<1>18. u1 \in Str /\ u \in Str /\ s \in Str
  BY <1>8, Zenon DEF Holding
<1>19. Holding(b7, Join(Join(u, s), OpenHead(5)), i)
  <2>1. Holding(b7, Join(u1, p), t)
    BY <1>13, <1>17
  <2>2. Holding(b7, u1, Join(p, t))
    BY <2>1, <1>6, <1>18, Unbased, Zenon
  <2> QED
    BY <2>2, <1>5, <1>7 DEF Inside4
<1>20. Holding(bsUpdateTlvLen(b7, Len(Join(u, s))), u, Join(s, Whole(5, i)))
  BY <1>2, <1>6, <1>18, <1>19, Closes, Zenon
<1> QED
  BY <1>4, <1>5, <1>8, <1>20

LEMMA Firsts ==
  ASSUME NEW b, NEW u, Holding(b, u, <<>>)
  PROVE  /\ \A n \in Nat : Holding(PutWord(b, n), u, Word_2_Charsb(n)) /\ Holding(PutWordLE(b, n), u, Word_2_Chars(n))
         /\ \A t \in Str : Holding(PutBytes(b, t), u, t)
         /\ \A type, n \in Nat : Holding(PutTlv(b, type, n), u, HeadOf(type, n))
         /\ \A n \in Byte : Holding(PutByte(b, n), u, <<n>>)
<1>1. ASSUME NEW n \in Nat
      PROVE  Holding(PutWord(b, n), u, Word_2_Charsb(n)) /\ Holding(PutWordLE(b, n), u, Word_2_Chars(n))
  <2>1. Word_2_Charsb(n) \in Str /\ Word_2_Chars(n) \in Str
    BY WordStr, Zenon DEF Sized
  <2> QED
    BY <2>1, PutsFirst, Zenon DEF PutWord, PutWordLE
<1>2. ASSUME NEW t \in Str
      PROVE  Holding(PutBytes(b, t), u, t)
  BY PutsFirst, Zenon DEF PutBytes
<1>3. ASSUME NEW type \in Nat, NEW n \in Nat
      PROVE  Holding(PutTlv(b, type, n), u, HeadOf(type, n))
  <2>1. HeadOf(type, n) \in Str
    BY HeadStr, Zenon DEF Sized
  <2> QED
    BY <2>1, PutsFirst, PutsTlv, Zenon
<1>4. ASSUME NEW n \in Byte
      PROVE  Holding(PutByte(b, n), u, <<n>>)
  <2>1. Holding(PutByte(b, n), u, Join(<<>>, <<n>>)) /\ Sized(<<n>>, 1)
    BY PutsOne, Zenon
  <2>2. <<n>> \in Str
    BY <2>1, Zenon DEF Sized
  <2> QED
    BY <2>1, <2>2, JoinEmpty
<1> QED
  BY <1>1, <1>2, <1>3, <1>4, Zenon

\* What a message of format 2 is made of: c is the capability, k what is told of
\* the message, e what stands behind its text.
Cookie2(c) == DW0 \o DW0 \o c
Start2(c) == Join(Word_2_Charsb(0), Cookie2(c))
Heads2 == Join(Whole(10, Word_2_Charsb(1)), Whole(15, <<>>))
Caps2 == Zeros(16) \o <<0, 0, 3>> \o DW0
Fixed2 == Join(Join(Join(Join(Join(Join(Word_2_Chars(27), Word_2_Chars(8)), Caps2),
               Word_2_Chars(0)), Word_2_Chars(14)), Word_2_Chars(0)), Zeros(12))
Sent2(flags) == IF flags = ScanFlags THEN AutoFlags ELSE flags
Priority2(slave) == IF slave.dnd THEN 4 ELSE 33
Kind2(slave, type, flags) ==
    Join(Join(Join(<<type>>, <<Sent2(flags)>>), Word_2_Chars(0)), Word_2_Chars(Priority2(slave)))
Text2(data) == Join(Join(Word_2_Chars(Len(data) + 1), data), <<0>>)
End2(send) == Join(Colours(send), Guid(send))
Ext2(k, data, e) == Join(Fixed2, Join(k, Join(Text2(data), e)))
Inside2(c, k, data, e) == Join(Start2(c), Join(Heads2, Whole(Tlv2711, Ext2(k, data, e))))

LEMMA SmallBytes == 0 \in Byte /\ 1 \in Byte /\ 3 \in Byte /\ 255 \in Byte /\ 0 \in Octet /\ 3 \in Octet /\ 255 \in Octet
  BY DEF Byte, Octet, Cipher

LEMMA Constants2 ==
  /\ Sized(DW0, 4) /\ Sized(Caps2, 23) /\ Sized(Zeros(12), 12) /\ Sized(Zeros(16), 16)
  /\ Sized(<<0, 255, 255, 255>>, 4)
<1>1. 4 \in Nat /\ 16 \in Nat /\ 12 \in Nat
  OBVIOUS
<1>2. Sized(DW0, 4) /\ Sized(Zeros(16), 16) /\ Sized(Zeros(12), 12)
  BY <1>1, ZeroStr, Zenon DEF DW0
<1>3. Sized(<<0, 0, 3>>, 3) /\ Sized(<<0, 255, 255, 255>>, 4)
  BY SmallBytes, SmallStrs, Zenon
<1>4. Sized(Join(Zeros(16), <<0, 0, 3>>), 16 + 3)
  BY <1>2, <1>3, JoinSized, Zenon
<1>5. Sized(Join(Join(Zeros(16), <<0, 0, 3>>), DW0), (16 + 3) + 4)
  BY <1>2, <1>4, JoinSized, Zenon
<1>6. Caps2 = Join(Join(Zeros(16), <<0, 0, 3>>), DW0)
  BY Zenon DEF Caps2, Join
<1> QED
  BY <1>2, <1>3, <1>5, <1>6

\* The capability, whichever it is, and what stands behind the text.
LEMMA CapStr ==
  ASSUME NEW flags
  PROVE  \E n \in 0 .. 31 : Sized(Capability(flags), n)
<1>1. ASSUME flags = ScanFlags
      PROVE  Sized(Capability(flags), 16)
  BY <1>1, Constants2 DEF Capability
<1>2. ASSUME flags # ScanFlags
      PROVE  Sized(Capability(flags), 31)
  <2>1. Capability(flags) = CAP_PRECAP \o (CAP_PRECAP \o <<73>> \o CAP_POSCAP) \o CAP_POSCAP
    BY <1>2 DEF Capability, CAP_SRVRELAY
  <2>2. CAP_PRECAP \in Str /\ Len(CAP_PRECAP) = 3
    BY DEF CAP_PRECAP, Str, Octet, Cipher
  <2>3. CAP_POSCAP \in Str /\ Len(CAP_POSCAP) = 12
    BY DEF CAP_POSCAP, Str, Octet, Cipher
  <2>4. Sized(CAP_PRECAP, 3) /\ Sized(CAP_POSCAP, 12) /\ Sized(<<73>>, 1)
    <3>1. 73 \in Octet
      BY DEF Octet, Cipher
    <3> QED
      BY <2>2, <2>3, <3>1, SmallStrs, Zenon DEF Sized
  <2>5. Sized(Join(Join(CAP_PRECAP, <<73>>), CAP_POSCAP), (3 + 1) + 12)
    BY <2>4, JoinSized, Zenon
  <2>6. Sized(Join(Join(CAP_PRECAP, Join(Join(CAP_PRECAP, <<73>>), CAP_POSCAP)), CAP_POSCAP), (3 + ((3 + 1) + 12)) + 12)
    BY <2>4, <2>5, JoinSized, Zenon
  <2>7. Capability(flags) = Join(Join(CAP_PRECAP, Join(Join(CAP_PRECAP, <<73>>), CAP_POSCAP)), CAP_POSCAP)
    BY <2>1, Zenon DEF Join
  <2> QED
    BY <2>6, <2>7
<1>3. 16 \in 0 .. 31 /\ 31 \in 0 .. 31
  OBVIOUS
<1> QED
  BY <1>1, <1>2, <1>3, Zenon

LEMMA End2Str ==
  ASSUME NEW send
  PROVE  Colours(send) \in Str /\ Guid(send) \in Str /\ \E m \in 0 .. 50 : Sized(End2(send), m)
<1>1. PICK m \in {0, 8} : Sized(Colours(send), m)
  <2>1. Sized(Join(DW0, <<0, 255, 255, 255>>), 4 + 4) /\ Sized(<<>>, 0)
    BY Constants2, JoinSized, SmallStrs, Zenon
  <2>2. Colours(send) = Join(DW0, <<0, 255, 255, 255>>) \/ Colours(send) = <<>>
    BY Zenon DEF Colours, Join
  <2> QED
    BY <2>1, <2>2
<1>2. PICK n \in {0, 42} : Sized(Guid(send), n)
  <2>1. Sized(CAP_RTF_GUID, 38) /\ Sized(CAP_UTF8_GUID, 38)
    <3>1. CAP_RTF_GUID \in [1 .. 38 -> Octet] /\ CAP_UTF8_GUID \in [1 .. 38 -> Octet] /\ 38 \in Nat
      BY DEF CAP_RTF_GUID, CAP_UTF8_GUID, Octet, Cipher
    <3> QED
      BY <3>1, FunctionIsSeq DEF Sized, Str
  <2>2. Sized(<<0, 0, 0, 38>>, 4) /\ Sized(<<>>, 0)
    <3>1. 38 \in Octet
      BY DEF Octet, Cipher
    <3> QED
      BY <3>1, SmallBytes, SmallStrs, Zenon
  <2>3. Sized(Join(<<0, 0, 0, 38>>, CAP_RTF_GUID), 4 + 38) /\ Sized(Join(<<0, 0, 0, 38>>, CAP_UTF8_GUID), 4 + 38)
    BY <2>1, <2>2, JoinSized, Zenon
  <2>4. \/ Guid(send) = Join(<<0, 0, 0, 38>>, CAP_RTF_GUID) \/ Guid(send) = Join(<<0, 0, 0, 38>>, CAP_UTF8_GUID)
        \/ Guid(send) = <<>>
    BY Zenon DEF Guid, Join
  <2> QED
    BY <2>2, <2>3, <2>4
<1>3. Sized(End2(send), m + n)
  BY <1>1, <1>2, JoinSized, Zenon DEF End2
<1>4. m + n \in 0 .. 50
  OBVIOUS
<1> QED
  BY <1>1, <1>2, <1>3, <1>4, Zenon DEF Sized

LEMMA Kind2Str ==
  ASSUME NEW slave, NEW type \in Byte, NEW flags \in Byte
  PROVE  /\ Sized(Kind2(slave, type, flags), 6) /\ Sent2(flags) \in Byte /\ Priority2(slave) \in Nat
         /\ Sized(<<type>>, 1) /\ Sized(<<Sent2(flags)>>, 1)
<1>1. Sent2(flags) \in Byte /\ Priority2(slave) \in Nat /\ 0 \in Nat
  BY SmallBytes DEF Sent2, AutoFlags, Priority2
<1>2. Sized(<<type>>, 1) /\ Sized(<<Sent2(flags)>>, 1)
  BY <1>1, Octets, SmallStrs, Zenon
<1>3. Sized(Word_2_Chars(0), 2) /\ Sized(Word_2_Chars(Priority2(slave)), 2)
  BY <1>1, WordStr, Zenon
<1>4. Sized(Join(<<type>>, <<Sent2(flags)>>), 1 + 1)
  BY <1>2, JoinSized, Zenon
<1>5. Sized(Join(Join(<<type>>, <<Sent2(flags)>>), Word_2_Chars(0)), (1 + 1) + 2)
  BY <1>3, <1>4, JoinSized, Zenon
<1>6. Sized(Kind2(slave, type, flags), ((1 + 1) + 2) + 2)
  BY <1>3, <1>5, JoinSized, Zenon DEF Kind2
<1> QED
  BY <1>1, <1>2, <1>6

LEMMA Wholes2 ==
  /\ Whole(10, Word_2_Charsb(1)) = Join(HeadOf(10, 2), Word_2_Charsb(1)) /\ Sized(Whole(10, Word_2_Charsb(1)), 6)
  /\ \A type \in Nat : Whole(type, <<>>) = HeadOf(type, 0) /\ Sized(Whole(type, <<>>), 4)
  /\ Sized(Heads2, 10)
<1>1. 1 \in Nat /\ 10 \in Nat /\ 0 \in Nat
  OBVIOUS
<1>2. Sized(Word_2_Charsb(1), 2) /\ Sized(<<>>, 0)
  BY <1>1, WordStr, SmallStrs, Zenon
<1>3. PICK w : w = Word_2_Charsb(1)
  BY Zenon
<1>4. w \in Str /\ Len(w) = 2 /\ <<>> \in Str /\ Len(<<>>) = 0
  BY <1>2, <1>3 DEF Sized
<1>5. Short(w) /\ Short(<<>>)
  BY <1>1, <1>4 DEF Short
<1>6. Whole(10, w) = Join(HeadOf(10, Len(w)), w) /\ Sized(Whole(10, w), 4 + Len(w))
  BY <1>1, <1>4, <1>5, WholeType, Zenon
<1>7. Whole(10, w) = Join(HeadOf(10, 2), w) /\ Sized(Whole(10, w), 6)
  BY <1>4, <1>6
<1>8. ASSUME NEW type \in Nat
      PROVE  Whole(type, <<>>) = HeadOf(type, 0) /\ Sized(Whole(type, <<>>), 4)
  <2>1. Whole(type, <<>>) = Join(HeadOf(type, Len(<<>>)), <<>>)
    BY <1>4, <1>5, WholeType, Zenon
  <2>2. Sized(HeadOf(type, 0), 4)
    BY <1>1, HeadStr, Zenon
  <2>3. HeadOf(type, 0) \in Str
    BY <2>2, Zenon DEF Sized
  <2>4. Join(HeadOf(type, 0), <<>>) = HeadOf(type, 0)
    BY <2>3, JoinEmpty, Zenon
  <2>5. HeadOf(type, Len(<<>>)) = HeadOf(type, 0)
    BY <1>4, Zenon
  <2>6. Whole(type, <<>>) = HeadOf(type, 0)
    BY <2>1, <2>4, <2>5
  <2> QED
    BY <2>2, <2>6
<1>9. 15 \in Nat
  OBVIOUS
<1>10. Sized(Join(Whole(10, w), Whole(15, <<>>)), 6 + 4)
  BY <1>7, <1>8, <1>9, JoinSized, Zenon
<1>11. Heads2 = Join(Whole(10, w), Whole(15, <<>>))
  BY <1>3 DEF Heads2
<1>12. Sized(Heads2, 10)
  BY <1>10, <1>11
<1> QED
  BY <1>3, <1>7, <1>8, <1>12

LEMMA Sizes2 ==
  ASSUME NEW c, NEW n \in 0 .. 31, Sized(c, n), NEW k, Sized(k, 6), NEW data \in Str, Modest(data),
         NEW e, NEW m \in 0 .. 50, Sized(e, m)
  PROVE  /\ Sized(Cookie2(c), 8 + n) /\ Sized(Start2(c), 10 + n) /\ Sized(Fixed2, 45) /\ Sized(Text2(data), 3 + Len(data))
         /\ Ext2(k, data, e) \in Str /\ Short(Ext2(k, data, e))
         /\ Inside2(c, k, data, e) \in Str /\ Short(Inside2(c, k, data, e))
<1>1. Sized(data, Len(data)) /\ Len(data) \in Nat
  BY ItsSize
<1>2. PICK d \in Nat : d = Len(data)
  BY <1>1
<1>3. 0 \in Nat /\ 8 \in Nat /\ 14 \in Nat /\ 27 \in Nat /\ Len(data) + 1 \in Nat
  BY <1>1
<1>4. /\ Sized(Word_2_Charsb(0), 2) /\ Sized(Word_2_Chars(0), 2) /\ Sized(Word_2_Chars(8), 2) /\ Sized(Word_2_Chars(14), 2)
      /\ Sized(Word_2_Chars(27), 2) /\ Sized(Word_2_Chars(Len(data) + 1), 2)
  BY <1>3, WordStr, Zenon
<1>5. Sized(<<0>>, 1)
  BY SmallBytes, SmallStrs, Zenon
<1>6. Sized(Cookie2(c), (4 + 4) + n) /\ Sized(Start2(c), 2 + ((4 + 4) + n))
  <2>1. Sized(Join(DW0, DW0), 4 + 4)
    BY Constants2, JoinSized, Zenon
  <2>2. Sized(Join(Join(DW0, DW0), c), (4 + 4) + n)
    BY <2>1, JoinSized, Zenon
  <2>3. Sized(Cookie2(c), (4 + 4) + n)
    BY <2>2, Zenon DEF Cookie2, Join
  <2> QED
    BY <2>3, <1>4, JoinSized, Zenon DEF Start2
<1>7. Sized(Fixed2, (((((2 + 2) + 23) + 2) + 2) + 2) + 12)
  <2>1. PICK f1 : f1 = Join(Join(Word_2_Chars(27), Word_2_Chars(8)), Caps2)
    BY Zenon
  <2>2. Sized(Join(Word_2_Chars(27), Word_2_Chars(8)), 2 + 2)
    BY <1>4, JoinSized, Zenon
  <2>3. Sized(f1, (2 + 2) + 23)
    BY <2>1, <2>2, Constants2, JoinSized
  <2>4. Sized(Join(f1, Word_2_Chars(0)), ((2 + 2) + 23) + 2)
    BY <2>3, <1>4, JoinSized, Zenon
  <2>5. Sized(Join(Join(f1, Word_2_Chars(0)), Word_2_Chars(14)), (((2 + 2) + 23) + 2) + 2)
    BY <2>4, <1>4, JoinSized, Zenon
  <2>6. Sized(Join(Join(Join(f1, Word_2_Chars(0)), Word_2_Chars(14)), Word_2_Chars(0)), ((((2 + 2) + 23) + 2) + 2) + 2)
    BY <2>5, <1>4, JoinSized, Zenon
  <2>7. Sized(Join(Join(Join(Join(f1, Word_2_Chars(0)), Word_2_Chars(14)), Word_2_Chars(0)), Zeros(12)), (((((2 + 2) + 23) + 2) + 2) + 2) + 12)
    BY <2>6, Constants2, JoinSized, Zenon
  <2> QED
    BY <2>1, <2>7 DEF Fixed2
<1>9. Sized(Text2(data), (2 + Len(data)) + 1)
  <2>1. Sized(Join(Word_2_Chars(Len(data) + 1), data), 2 + Len(data))
    BY <1>1, <1>4, JoinSized, Zenon
  <2> QED
    BY <2>1, <1>5, JoinSized, Zenon DEF Text2
<1>10. PICK s2, f2, t2 : s2 = Start2(c) /\ f2 = Fixed2 /\ t2 = Text2(data)
  BY Zenon
<1>11. Sized(s2, 10 + n) /\ Sized(f2, 45) /\ Sized(t2, 3 + d)
  BY <1>2, <1>6, <1>7, <1>9, <1>10
<1>12. Sized(Join(t2, e), (3 + d) + m)
  BY <1>11, JoinSized, Zenon
<1>13. Sized(Join(k, Join(t2, e)), 6 + ((3 + d) + m))
  BY <1>12, JoinSized, Zenon
<1>14. Sized(Join(f2, Join(k, Join(t2, e))), 45 + (6 + ((3 + d) + m)))
  BY <1>11, <1>13, JoinSized, Zenon
<1>15. PICK x : x = Ext2(k, data, e)
  BY Zenon
<1>16. Sized(x, 54 + d + m)
  BY <1>10, <1>14, <1>15 DEF Ext2
<1>17. x \in Str /\ Len(x) = 54 + d + m
  BY <1>16, Zenon DEF Sized
<1>18. Short(x)
  BY <1>2, <1>17 DEF Short, Modest
<1>19. PICK tC \in Nat : tC = Tlv2711
  BY DEF Tlv2711
<1>20. Sized(Whole(tC, x), 4 + Len(x))
  BY <1>17, <1>18, WholeType, Zenon
<1>21. Sized(Whole(tC, x), 58 + d + m)
  BY <1>17, <1>20
<1>22. Sized(Join(Heads2, Whole(tC, x)), 10 + (58 + d + m))
  BY <1>21, Wholes2, JoinSized, Zenon
<1>23. Sized(Join(s2, Join(Heads2, Whole(tC, x))), (10 + n) + (10 + (58 + d + m)))
  BY <1>11, <1>22, JoinSized, Zenon
<1>24. PICK i : i = Inside2(c, k, data, e)
  BY Zenon
<1>25. i \in Str /\ Len(i) = (10 + n) + (10 + (58 + d + m))
  BY <1>10, <1>15, <1>19, <1>23, <1>24 DEF Inside2, Sized
<1>26. Short(i)
  BY <1>25, <1>2 DEF Short, Modest
<1> QED
  BY <1>2, <1>6, <1>7, <1>9, <1>15, <1>17, <1>18, <1>24, <1>25, <1>26
LEMMA Cookie2Built ==
  ASSUME NEW b, NEW u, Holding(b, u, <<>>), NEW c, Cookie2(c) \in Str
  PROVE  Holding(PutBytes(PutWord(b, 0), Cookie2(c)), u, Start2(c))
<1>1. 0 \in Nat
  OBVIOUS
<1>2. Holding(PutWord(b, 0), u, Word_2_Charsb(0))
  BY <1>1, Firsts, Zenon
<1> QED
  BY <1>2, PutsBytes, Zenon DEF Start2

LEMMA Heads2Built ==
  ASSUME NEW b, NEW u, Holding(b, u, <<>>)
  PROVE  Holding(PutTlv(PutWord(PutTlv(b, 10, 2), 1), 15, 0), u, Heads2)
<1>1. 0 \in Nat /\ 1 \in Nat /\ 2 \in Nat /\ 10 \in Nat /\ 15 \in Nat
  OBVIOUS
<1>2. Holding(PutTlv(b, 10, 2), u, HeadOf(10, 2))
  BY <1>1, Firsts, Zenon
<1>3. Holding(PutWord(PutTlv(b, 10, 2), 1), u, Join(HeadOf(10, 2), Word_2_Charsb(1)))
  BY <1>1, <1>2, PutsWord, Zenon
<1>4. Holding(PutTlv(PutWord(PutTlv(b, 10, 2), 1), 15, 0), u, Join(Join(HeadOf(10, 2), Word_2_Charsb(1)), HeadOf(15, 0)))
  BY <1>1, <1>3, PutsHead, Zenon
<1>5. Whole(10, Word_2_Charsb(1)) = Join(HeadOf(10, 2), Word_2_Charsb(1)) /\ Whole(15, <<>>) = HeadOf(15, 0)
  BY <1>1, Wholes2, Zenon
<1> QED
  BY <1>4, <1>5 DEF Heads2

LEMMA Fixed2Built ==
  ASSUME NEW b, NEW u, Holding(b, u, <<>>)
  PROVE  Holding(PutBytes(PutWordLE(PutWordLE(PutWordLE(PutBytes(PutWordLE(PutWordLE(b, 27), 8), Caps2), 0), 14), 0), Zeros(12)),
                 u, Fixed2)
<1>1. 0 \in Nat /\ 8 \in Nat /\ 14 \in Nat /\ 27 \in Nat /\ Caps2 \in Str /\ Zeros(12) \in Str
  <2>1. Caps2 \in Str /\ Zeros(12) \in Str
    BY Constants2, Zenon DEF Sized
  <2> QED
    BY <2>1
<1>2. PICK b1, b2, b3, b4, b5, b6 :
        /\ b1 = PutWordLE(b, 27) /\ b2 = PutWordLE(b1, 8) /\ b3 = PutBytes(b2, Caps2) /\ b4 = PutWordLE(b3, 0)
        /\ b5 = PutWordLE(b4, 14) /\ b6 = PutWordLE(b5, 0)
  BY Zenon
<1>3. PICK s1, s2, s3, s4, s5, s6 :
        /\ s1 = Word_2_Chars(27) /\ s2 = Join(s1, Word_2_Chars(8)) /\ s3 = Join(s2, Caps2) /\ s4 = Join(s3, Word_2_Chars(0))
        /\ s5 = Join(s4, Word_2_Chars(14)) /\ s6 = Join(s5, Word_2_Chars(0))
  BY Zenon
<1>4. Holding(b1, u, s1)
  <2>1. Holding(PutWordLE(b, 27), u, Word_2_Chars(27))
    BY <1>1, Firsts, Zenon
  <2> QED
    BY <2>1, <1>2, <1>3
<1>5. Holding(b2, u, s2)
  <2>1. Holding(PutWordLE(b1, 8), u, Join(s1, Word_2_Chars(8)))
    BY <1>1, <1>4, PutsWord, Zenon
  <2> QED
    BY <2>1, <1>2, <1>3
<1>6. Holding(b3, u, s3)
  <2>1. Holding(PutBytes(b2, Caps2), u, Join(s2, Caps2))
    BY <1>1, <1>5, PutsBytes, Zenon
  <2> QED
    BY <2>1, <1>2, <1>3
<1>7. Holding(b4, u, s4)
  <2>1. Holding(PutWordLE(b3, 0), u, Join(s3, Word_2_Chars(0)))
    BY <1>1, <1>6, PutsWord, Zenon
  <2> QED
    BY <2>1, <1>2, <1>3
<1>8. Holding(b5, u, s5)
  <2>1. Holding(PutWordLE(b4, 14), u, Join(s4, Word_2_Chars(14)))
    BY <1>1, <1>7, PutsWord, Zenon
  <2> QED
    BY <2>1, <1>2, <1>3
<1>9. Holding(b6, u, s6)
  <2>1. Holding(PutWordLE(b5, 0), u, Join(s5, Word_2_Chars(0)))
    BY <1>1, <1>8, PutsWord, Zenon
  <2> QED
    BY <2>1, <1>2, <1>3
<1>10. Holding(PutBytes(b6, Zeros(12)), u, Join(s6, Zeros(12)))
  BY <1>1, <1>9, PutsBytes, Zenon
<1>11. Join(s6, Zeros(12)) = Fixed2
  BY <1>3 DEF Fixed2
<1> QED
  BY <1>2, <1>10, <1>11

LEMMA Kind2Built ==
  ASSUME NEW b, NEW u, Holding(b, u, <<>>), NEW slave, NEW type \in Byte, NEW flags \in Byte
  PROVE  Holding(PutWordLE(PutWordLE(PutByte(PutByte(b, type), Sent2(flags)), 0), Priority2(slave)), u, Kind2(slave, type, flags))
<1>1. 0 \in Nat /\ Sent2(flags) \in Byte /\ Priority2(slave) \in Nat
  BY Kind2Str
<1>2. Holding(PutByte(b, type), u, <<type>>)
  BY Firsts, Zenon
<1>3. Holding(PutByte(PutByte(b, type), Sent2(flags)), u, Join(<<type>>, <<Sent2(flags)>>))
  BY <1>1, <1>2, PutsOne, Zenon
<1>4. Holding(PutWordLE(PutByte(PutByte(b, type), Sent2(flags)), 0), u, Join(Join(<<type>>, <<Sent2(flags)>>), Word_2_Chars(0)))
  BY <1>1, <1>3, PutsWord, Zenon
<1> QED
  BY <1>1, <1>4, PutsWord, Zenon DEF Kind2

LEMMA Text2Built ==
  ASSUME NEW b, NEW u, Holding(b, u, <<>>), NEW data \in Str
  PROVE  Holding(PutByte(PutBytes(PutWordLE(b, Len(data) + 1), data), 0), u, Text2(data))
<1>1. Len(data) + 1 \in Nat
  BY StrNat
<1>2. Holding(PutWordLE(b, Len(data) + 1), u, Word_2_Chars(Len(data) + 1))
  BY <1>1, Firsts, Zenon
<1>3. Holding(PutBytes(PutWordLE(b, Len(data) + 1), data), u, Join(Word_2_Chars(Len(data) + 1), data))
  BY <1>2, PutsBytes, Zenon
<1> QED
  BY <1>3, SmallBytes, PutsOne, Zenon DEF Text2

LEMMA Body2Built ==
  ASSUME NEW b, NEW u, NEW s, Holding(b, u, s), NEW slave, NEW type \in Byte, NEW flags \in Byte, NEW send,
         NEW data \in Str, Modest(data)
  PROVE  Holding(bsAppendMessageBodyType2(b, slave, type, flags, send, data), u,
                 Join(s, Whole(5, Inside2(Capability(flags), Kind2(slave, type, flags), data, End2(send)))))
<1>1. PICK tC \in Nat : tC = Tlv2711
  BY DEF Tlv2711
<1>2. 0 \in Nat /\ 5 \in Nat
  OBVIOUS
<1>3. PICK a, one, two, c, four, five, six, seven, d :
        /\ a = PutTlv(b, 5, 0) /\ one = PutBytes(PutWord(a, 0), Cookie2(Capability(flags)))
        /\ two = PutTlv(PutWord(PutTlv(one, 10, 2), 1), 15, 0) /\ c = PutTlv(two, tC, 0)
        /\ four = PutBytes(PutWordLE(PutWordLE(PutWordLE(PutBytes(PutWordLE(PutWordLE(c, 27), 8), Caps2), 0), 14), 0), Zeros(12))
        /\ five = PutWordLE(PutWordLE(PutByte(PutByte(four, type), Sent2(flags)), 0), Priority2(slave))
        /\ six = PutByte(PutBytes(PutWordLE(five, Len(data) + 1), data), 0)
        /\ seven = PutBytes(PutBytes(six, Colours(send)), Guid(send))
        /\ d = bsUpdateTlvLen(seven, end(two))
  BY Zenon
<1>4. bsAppendMessageBodyType2(b, slave, type, flags, send, data) = bsUpdateTlvLen(d, end(b))
  BY <1>1, <1>3 DEF bsAppendMessageBodyType2, Cookie2, Caps2, Sent2, Priority2
<1>5. PICK s2, h2, f2, k2, t2, e2, e, w, i : /\ s2 = Start2(Capability(flags)) /\ h2 = Heads2 /\ f2 = Fixed2
                                          /\ k2 = Kind2(slave, type, flags) /\ t2 = Text2(data) /\ e2 = End2(send)
                                          /\ e = Ext2(k2, data, e2) /\ w = Whole(tC, e)
                                          /\ i = Inside2(Capability(flags), k2, data, e2)
  BY Zenon
<1>6. /\ s2 \in Str /\ h2 \in Str /\ f2 \in Str /\ k2 \in Str /\ t2 \in Str /\ e2 \in Str /\ e \in Str
      /\ Short(e) /\ Short(i) /\ Cookie2(Capability(flags)) \in Str
  <2>1. PICK n \in 0 .. 31 : Sized(Capability(flags), n)
    BY CapStr
  <2>2. PICK m \in 0 .. 50 : Sized(e2, m)
    BY <1>5, End2Str
  <2>3. Sized(k2, 6) /\ Sized(h2, 10)
    BY <1>5, Kind2Str, Wholes2
  <2>4. PICK cp : cp = Capability(flags)
    BY Zenon
  <2>5. /\ Sized(Cookie2(cp), 8 + n) /\ Sized(Start2(cp), 10 + n) /\ Sized(Fixed2, 45) /\ Sized(Text2(data), 3 + Len(data))
        /\ Ext2(k2, data, e2) \in Str /\ Short(Ext2(k2, data, e2)) /\ Short(Inside2(cp, k2, data, e2))
    BY <2>1, <2>2, <2>3, <2>4, Sizes2, Zenon
  <2> QED
    BY <2>2, <2>3, <2>4, <2>5, <1>5 DEF Sized
<1>7. e = Join(f2, Join(k2, Join(t2, e2))) /\ i = Join(s2, Join(h2, w))
  BY <1>1, <1>5 DEF Ext2, Inside2
<1>8. PICK u1, u2, u3, u4, u5, u6 :
        /\ u1 = Join(Join(u, s), OpenHead(5)) /\ u2 = Join(u1, s2) /\ u3 = Join(Join(u2, h2), OpenHead(tC))
        /\ u4 = Join(u3, f2) /\ u5 = Join(u4, k2) /\ u6 = Join(u5, t2)
  BY Zenon
<1>9. Holding(a, u1, <<>>) /\ end(b) = Len(Join(u, s))
  BY <1>2, <1>3, <1>8, Opens
<1>10. Holding(one, u1, s2)
  BY <1>3, <1>5, <1>6, <1>9, Cookie2Built
<1>11. Holding(one, u2, <<>>)
  BY <1>8, <1>10, Rebased
<1>12. Holding(two, u2, h2)
  BY <1>3, <1>5, <1>11, Heads2Built
<1>13. Holding(c, u3, <<>>) /\ end(two) = Len(Join(u2, h2))
  BY <1>3, <1>8, <1>12, Opens
<1>14. Holding(four, u3, f2)
  BY <1>3, <1>5, <1>13, Fixed2Built
<1>15. Holding(four, u4, <<>>)
  BY <1>8, <1>14, Rebased
<1>16. Holding(five, u4, k2)
  BY <1>3, <1>5, <1>15, Kind2Built
<1>17. Holding(five, u5, <<>>)
  BY <1>8, <1>16, Rebased
<1>18. Holding(six, u5, t2)
  BY <1>3, <1>5, <1>17, Text2Built
<1>19. Holding(seven, u5, Join(t2, e2))
  <2>1. PICK c2, g2 : c2 = Colours(send) /\ g2 = Guid(send)
    BY Zenon
  <2>2. c2 \in Str /\ g2 \in Str /\ e2 = Join(c2, g2)
    BY <2>1, <1>5, End2Str DEF End2
  <2>3. Holding(PutBytes(PutBytes(six, c2), g2), u5, Join(Join(t2, c2), g2))
    BY <2>2, <1>18, PutsBytes, Zenon
  <2>4. Join(Join(t2, c2), g2) = Join(t2, e2)
    BY <2>2, <1>6, JoinTwice
  <2> QED
    BY <2>1, <2>3, <2>4, <1>3
<1>20. u1 \in Str /\ u2 \in Str /\ u3 \in Str /\ u4 \in Str /\ u5 \in Str /\ u \in Str /\ s \in Str
  BY <1>9, <1>11, <1>13, <1>15, <1>17, Zenon DEF Holding
<1>21. Holding(seven, u4, Join(k2, Join(t2, e2)))
  <2>1. Holding(seven, Join(u4, k2), Join(t2, e2))
    BY <1>8, <1>19
  <2> QED
    BY <2>1, <1>6, <1>20, Unbased, Zenon
<1>22. Holding(seven, u3, e)
  <2>1. Holding(seven, Join(u3, f2), Join(k2, Join(t2, e2)))
    BY <1>8, <1>21
  <2>2. Holding(seven, u3, Join(f2, Join(k2, Join(t2, e2))))
    BY <2>1, <1>6, <1>20, Unbased, Zenon
  <2> QED
    BY <2>2, <1>7
<1>23. Holding(d, u2, Join(h2, w))
  <2>1. Holding(seven, Join(Join(u2, h2), OpenHead(tC)), e)
    BY <1>8, <1>22
  <2>2. Holding(bsUpdateTlvLen(seven, Len(Join(u2, h2))), u2, Join(h2, Whole(tC, e)))
    BY <2>1, <1>6, <1>20, Closes, Zenon
  <2> QED
    BY <2>2, <1>3, <1>5, <1>13
<1>24. Holding(d, u1, i)
  <2>1. Holding(d, Join(u1, s2), Join(h2, w))
    BY <1>8, <1>23
  <2>2. Holding(d, u1, Join(s2, Join(h2, w)))
    BY <2>1, <1>6, <1>20, Unbased, Zenon
  <2> QED
    BY <2>2, <1>7
<1>25. Holding(bsUpdateTlvLen(d, Len(Join(u, s))), u, Join(s, Whole(5, i)))
  <2>1. Holding(d, Join(Join(u, s), OpenHead(5)), i)
    BY <1>8, <1>24
  <2> QED
    BY <2>1, <1>2, <1>6, <1>20, Closes, Zenon
<1> QED
  BY <1>4, <1>5, <1>9, <1>25

\* The packet behind its head.
Outer1(slave, data) == Join(Whole(2, Inside1(Charset(slave), data)), Whole(6, <<>>))
Outer2(slave, type, flags, send, data) ==
    Join(Whole(5, Inside2(Capability(flags), Kind2(slave, type, flags), data, End2(send))),
         Whole(IF flags = ScanFlags THEN 6 ELSE 3, <<>>))
Outer4(type, data) == Join(Whole(5, Inside4(type, data)), Whole(6, <<>>))
Outer(j) == CASE j.format = 1 -> Outer1(j.slave, j.data)
              [] j.format = 2 -> Outer2(j.slave, j.type, j.flags, j.send, j.data)
              [] j.format = 4 -> Outer4(j.type, j.data)
OwnHead(format) == Join(Join(Join(DW0 \o DW0, Word_2_Charsb(format)), <<1>>), UIN)

LEMMA UinStr == Sized(UIN, 1) /\ Len(UIN) = 1 /\ Sized(<< 1 >>, 1)
<1>1. 1 \in Octet /\ 49 \in Octet
  BY DEF Octet, Cipher
<1>2. Sized(<<49>>, 1) /\ Sized(<<1>>, 1)
  BY <1>1, SmallStrs, Zenon
<1> QED
  BY <1>2 DEF UIN

LEMMA OwnHeadBuilt ==
  ASSUME NEW format \in Nat
  PROVE  /\ Holding(bsAppendMessageHead(initBs, format), OwnHead(format), <<>>)
         /\ Sized(OwnHead(format), HeadLen)
<1>1. Holding(initBs, <<>>, <<>>)
  <2>1. Sound(initBs) /\ initBs.data = <<>>
    BY EmptyStream, Zenon DEF Sound
  <2>2. <<>> \in Str
    BY SmallStrs, Zenon DEF Sized
  <2>3. Join(<<>>, <<>>) = <<>>
    BY <2>2, JoinEmpty, Zenon
  <2> QED
    BY <2>1, <2>2, <2>3 DEF Holding
<1>2. PICK z : z = DW0 \o DW0
  BY Zenon
<1>3. Sized(z, 4 + 4)
  BY <1>2, Constants2, JoinSized, Zenon DEF Join
<1>4. z \in Str
  BY <1>3, Zenon DEF Sized
<1>5. PICK b1, b2, b3 : b1 = PutBytes(initBs, z) /\ b2 = PutWord(b1, format) /\ b3 = bsAppend(b2, <<1>>, FALSE)
  BY Zenon
<1>6. Holding(b1, <<>>, z)
  BY <1>1, <1>4, <1>5, Firsts
<1>7. Holding(b2, <<>>, Join(z, Word_2_Charsb(format)))
  BY <1>5, <1>6, PutsWord
<1>8. <<1>> \in Str /\ UIN \in Str
  BY UinStr, Zenon DEF Sized
<1>9. Holding(b3, <<>>, Join(Join(z, Word_2_Charsb(format)), <<1>>))
  BY <1>5, <1>7, <1>8, Puts
<1>10. PICK b4 : b4 = bsAppend(b3, UIN, FALSE)
  BY Zenon
<1>11. Holding(b4, <<>>, Join(Join(Join(z, Word_2_Charsb(format)), <<1>>), UIN))
  BY <1>8, <1>9, <1>10, Puts
<1>12. Holding(b4, <<>>, OwnHead(format))
  BY <1>2, <1>11 DEF OwnHead
<1>13. ~b3.fault
  BY <1>9, Zenon DEF Holding, Sound
<1>14. bsAppendMessageHead(initBs, format) = b4
  BY <1>2, <1>5, <1>10, <1>13, UinStr DEF bsAppendMessageHead, bsAppendString
<1>15. Holding(b4, Join(<<>>, OwnHead(format)), <<>>)
  BY <1>12, Rebased, Zenon
<1>16. Join(<<>>, OwnHead(format)) = OwnHead(format)
  BY <1>12, JoinEmpty, Zenon DEF Holding
<1>17. Sized(Word_2_Charsb(format), 2)
  BY WordStr, Zenon
<1>18. Sized(Join(z, Word_2_Charsb(format)), (4 + 4) + 2)
  BY <1>3, <1>17, JoinSized, Zenon
<1>19. Sized(Join(Join(z, Word_2_Charsb(format)), <<1>>), ((4 + 4) + 2) + 1)
  BY <1>18, UinStr, JoinSized, Zenon
<1>20. Sized(Join(Join(Join(z, Word_2_Charsb(format)), <<1>>), UIN), (((4 + 4) + 2) + 1) + 1)
  BY <1>19, UinStr, JoinSized, Zenon
<1>21. PICK k : k = Len(UIN)
  BY Zenon
<1>22. Sized(OwnHead(format), 11 + k)
  BY <1>2, <1>20, <1>21, UinStr DEF OwnHead
<1> QED
  BY <1>14, <1>15, <1>16, <1>21, <1>22 DEF HeadLen

\* sendMessage2Client: the head, the body and an empty TLV.
LEMMA SentBuilt ==
  ASSUME NEW slave, NEW type \in Byte, NEW flags \in Byte, NEW send, NEW data \in Str, Modest(data)
  PROVE  /\ Holding(sendMessage2Client(slave, 1, type, data, flags, send), OwnHead(1), Outer1(slave, data))
         /\ Holding(sendMessage2Client(slave, 2, type, data, flags, send), OwnHead(2), Outer2(slave, type, flags, send, data))
         /\ Holding(sendMessage2Client(slave, 4, type, data, flags, send), OwnHead(4), Outer4(type, data))
<1>1. 0 \in Nat /\ 1 \in Nat /\ 2 \in Nat /\ 3 \in Nat /\ 4 \in Nat /\ 5 \in Nat /\ 6 \in Nat
  OBVIOUS
<1>0. PICK last \in Nat : last = IF flags = ScanFlags THEN 6 ELSE 3
  OBVIOUS
<1>2. PICK h1, h2, h4 : /\ h1 = bsAppendMessageHead(initBs, 1) /\ h2 = bsAppendMessageHead(initBs, 2)
                        /\ h4 = bsAppendMessageHead(initBs, 4)
  BY Zenon
<1>3. Holding(h1, OwnHead(1), <<>>) /\ Holding(h2, OwnHead(2), <<>>) /\ Holding(h4, OwnHead(4), <<>>)
  BY <1>1, <1>2, OwnHeadBuilt
<1>4. PICK w1, w2, w4 : /\ w1 = Whole(2, Inside1(Charset(slave), data)) /\ w2 = Whole(5, Inside2(Capability(flags), Kind2(slave, type, flags), data, End2(send)))
                        /\ w4 = Whole(5, Inside4(type, data))
  BY Zenon
<1>5. PICK b1, b2, b4 : /\ b1 = bsAppendMessageBodyType1(h1, slave, data) /\ b2 = bsAppendMessageBodyType2(h2, slave, type, flags, send, data)
                        /\ b4 = bsAppendMessageBodyType4(h4, type, data)
  BY Zenon
<1>6. /\ Holding(b1, OwnHead(1), Join(<<>>, w1)) /\ Holding(b2, OwnHead(2), Join(<<>>, w2))
      /\ Holding(b4, OwnHead(4), Join(<<>>, w4))
  BY <1>3, <1>4, <1>5, Body1Built, Body2Built, Body4Built
<1>7. w1 \in Str /\ w2 \in Str /\ w4 \in Str
  <2>1. Charset(slave) \in Nat
    BY DEF Charset
  <2>2. PICK c : c = Charset(slave)
    BY Zenon
  <2>3. PICK i1, i2, i4 : i1 = Inside1(c, data) /\ i2 = Inside2(Capability(flags), Kind2(slave, type, flags), data, End2(send)) /\ i4 = Inside4(type, data)
    BY Zenon
  <2>4. Sized(i1, 13 + Len(data)) /\ Short(i1)
    BY <2>1, <2>2, <2>3, Sizes1
  <2>5. i2 \in Str /\ Short(i2) /\ Sized(i4, 8 + Len(data)) /\ Short(i4)
    <3>1. i2 \in Str /\ Short(i2)
      <4>1. PICK n \in 0 .. 31 : Sized(Capability(flags), n)
        BY CapStr
      <4>2. PICK m \in 0 .. 50 : Sized(End2(send), m)
        BY End2Str
      <4>3. Sized(Kind2(slave, type, flags), 6)
        BY Kind2Str
      <4> QED
        BY <2>3, <4>1, <4>2, <4>3, Sizes2
    <3> QED
      BY <2>3, <3>1, Sizes4
  <2>6. i1 \in Str /\ i2 \in Str /\ i4 \in Str
    BY <2>4, <2>5, Zenon DEF Sized
  <2>7. Whole(2, i1) \in Str /\ Whole(5, i2) \in Str /\ Whole(5, i4) \in Str
    BY <1>1, <2>4, <2>5, <2>6, WholeType, Zenon DEF Sized
  <2> QED
    BY <2>2, <2>3, <2>7, <1>4
<1>8. Holding(b1, OwnHead(1), w1) /\ Holding(b2, OwnHead(2), w2) /\ Holding(b4, OwnHead(4), w4)
  BY <1>6, <1>7, JoinEmpty
<1>9. /\ Holding(PutTlv(b1, 6, 0), OwnHead(1), Join(w1, HeadOf(6, 0)))
      /\ Holding(PutTlv(b2, last, 0), OwnHead(2), Join(w2, HeadOf(last, 0)))
      /\ Holding(PutTlv(b4, 6, 0), OwnHead(4), Join(w4, HeadOf(6, 0)))
  BY <1>1, <1>8, PutsHead, Zenon
<1>10. HeadOf(6, 0) = Whole(6, <<>>) /\ HeadOf(last, 0) = Whole(last, <<>>)
  BY <1>1, Wholes2, Zenon
<1>11. /\ Join(w1, HeadOf(6, 0)) = Outer1(slave, data) /\ Join(w2, HeadOf(last, 0)) = Outer2(slave, type, flags, send, data)
       /\ Join(w4, HeadOf(6, 0)) = Outer4(type, data)
  BY <1>0, <1>4, <1>10 DEF Outer1, Outer2, Outer4
<1>12. /\ sendMessage2Client(slave, 1, type, data, flags, send) = PutTlv(b1, 6, 0)
       /\ sendMessage2Client(slave, 2, type, data, flags, send) = PutTlv(b2, last, 0)
       /\ sendMessage2Client(slave, 4, type, data, flags, send) = PutTlv(b4, 6, 0)
  BY <1>0, <1>2, <1>5 DEF sendMessage2Client
<1> QED
  BY <1>9, <1>11, <1>12

-----------------------------------------------------------------------------
\* Messages: how the lengths nest.

LEMMA Behinds ==
  ASSUME NEW u, NEW n, Sized(u, n), NEW v \in Str
  PROVE  Behind(Join(u, v), n) = v
<1>1. u \in Seq(Octet) /\ v \in Seq(Octet)
  BY Zenon DEF Sized, Str
<1>2. SubSeq(u \o v, Len(u) + 1, Len(u \o v)) = v
  BY <1>1, BehindJoined, Zenon
<1> QED
  BY <1>2, Zenon DEF Behind, Join, Sized

LEMMA Withins ==
  ASSUME NEW u, NEW m, Sized(u, m), NEW v \in Str, NEW w, NEW n, Sized(w, n)
  PROVE  Within(Join(Join(u, v), w), m, n) = v
<1>1. u \in Seq(Octet) /\ v \in Seq(Octet) /\ w \in Seq(Octet)
  BY Zenon DEF Sized, Str
<1>2. PICK d : d = (u \o v) \o w
  BY Zenon
<1>3. Within(d, Len(u), Len(w)) = v
  BY <1>1, <1>2, WithinJoined, Zenon
<1> QED
  BY <1>2, <1>3, Zenon DEF Join, Sized

\* The byte behind n others.
LEMMA ByteBehind ==
  ASSUME NEW u, NEW n \in Nat, Sized(u, n), NEW x, <<x>> \in Str, NEW v \in Str
  PROVE  Join(u, Join(<<x>>, v))[n + 1] = x
<1>1. PICK w : w = Join(<<x>>, v)
  BY Zenon
<1>2. /\ w \in Str /\ Len(<<x>>) \in Nat /\ Len(v) \in Nat /\ Len(w) = Len(<<x>>) + Len(v)
      /\ \A i \in 1 .. Len(<<x>>) + Len(v) : w[i] = IF i <= Len(<<x>>) THEN <<x>>[i] ELSE v[i - Len(<<x>>)]
  <2>1. <<x>> \in Seq(Octet) /\ v \in Seq(Octet)
    BY Zenon DEF Str
  <2>2. PICK s : s = <<x>>
    BY Zenon
  <2>3. /\ s \o v \in Seq(Octet) /\ Len(s) \in Nat /\ Len(v) \in Nat /\ Len(s \o v) = Len(s) + Len(v)
        /\ \A i \in 1 .. Len(s) + Len(v) : (s \o v)[i] = IF i <= Len(s) THEN s[i] ELSE v[i - Len(s)]
    BY <2>1, <2>2, Joined, Zenon
  <2>4. w = s \o v
    BY <1>1, <2>2, Zenon DEF Join
  <2> QED
    BY <2>2, <2>3, <2>4 DEF Str
<1>3. PICK k \in Nat : k = Len(v)
  BY <1>2
<1>4. Len(<<x>>) = 1 /\ <<x>>[1] = x
  OBVIOUS
<1>5. Len(w) = 1 + k /\ w[1] = x
  <2>1. 1 \in 1 .. 1 + k /\ 1 <= 1
    BY <1>3
  <2> QED
    BY <2>1, <1>2, <1>3, <1>4
<1>6. PICK d : d = Join(u, w)
  BY Zenon
<1>7. \A i \in 1 .. Len(u) + Len(w) : d[i] = IF i <= Len(u) THEN u[i] ELSE w[i - Len(u)]
  <2>1. u \in Seq(Octet) /\ w \in Seq(Octet)
    BY <1>2, Zenon DEF Sized, Str
  <2> QED
    BY <2>1, <1>6, Joined, Zenon DEF Join
<1>8. Len(u) = n
  BY Zenon DEF Sized
<1>9. n + 1 \in 1 .. n + (1 + k) /\ ~(n + 1 <= n) /\ (n + 1) - n = 1
  BY <1>3
<1>10. d[n + 1] = w[(n + 1) - n]
  <2>1. n + 1 \in 1 .. Len(u) + Len(w) /\ ~(n + 1 <= Len(u)) /\ (n + 1) - Len(u) = (n + 1) - n
    BY <1>5, <1>8, <1>9, Zenon
  <2> QED
    BY <2>1, <1>7, Zenon
<1> QED
  BY <1>1, <1>5, <1>6, <1>9, <1>10

\* What a TLV that is followed by an empty one holds.
LEMMA HeldInside ==
  ASSUME NEW type \in Nat, NEW v \in Str, Short(v), NEW last \in Nat
  PROVE  Within(Join(Whole(type, v), Whole(last, <<>>)), 4, 4) = v
<1>1. Len(v) \in Nat
  BY StrNat
<1>2. Whole(type, v) = Join(HeadOf(type, Len(v)), v)
  BY WholeType, Zenon
<1>3. Sized(HeadOf(type, Len(v)), 4)
  BY <1>1, HeadStr, Zenon
<1>4. Sized(Whole(last, <<>>), 4)
  BY Wholes2, Zenon
<1>5. PICK h, w : h = HeadOf(type, Len(v)) /\ w = Whole(last, <<>>)
  BY Zenon
<1>6. Sized(h, 4) /\ Sized(w, 4)
  BY <1>3, <1>4, <1>5
<1>7. Within(Join(Join(h, v), w), 4, 4) = v
  BY <1>6, Withins
<1> QED
  BY <1>2, <1>5, <1>7

\* The three forms of BodyNests.
Nest1(slave, data, outer, body) ==
    /\ outer = Whole(2, body) \o Whole(6, <<>>)
    /\ body = Whole(1281, <<1>>)
              \o Whole(257, <<0, IF slave.utf8 THEN 2 ELSE 0>> \o <<0, 0>> \o data)
Nest2(slave, type, flags, send, data, outer, body, ext) ==
    /\ outer = Whole(5, body) \o Whole(IF flags = ScanFlags THEN 6 ELSE 3, <<>>)
    /\ Behind(body, 10 + Len(Capability(flags))) = Whole(10, <<0, 1>>) \o Whole(15, <<>>) \o Whole(Tlv2711, ext)
    /\ ext[46] = type
    /\ Behind(ext, 51) = Word_2_Chars(Len(data) + 1) \o data \o <<0>> \o Colours(send) \o Guid(send)
Nest4(type, data, outer, body) ==
    /\ outer = Whole(5, body) \o Whole(6, <<>>)
    /\ Behind(body, 6) =
          <<(Len(data) + 1) % 256>> \o data \o <<0>>
    /\ body[5] = type

LEMMA Nests1 ==
  ASSUME NEW slave, slave.utf8 \in BOOLEAN, NEW data \in Str, Modest(data), NEW outer, outer = Outer1(slave, data),
         NEW body, body = Within(outer, 4, 4)
  PROVE  Nest1(slave, data, outer, body)
<1>1. PICK cs : cs = Charset(slave)
  BY Zenon
<1>2. cs \in Nat /\ 2 \in Nat /\ 6 \in Nat
  BY <1>1 DEF Charset
<1>3. PICK i : i = Inside1(cs, data)
  BY Zenon
<1>4. Sized(i, 13 + Len(data)) /\ Short(i)
  BY <1>2, <1>3, Sizes1
<1>5. i \in Str
  BY <1>4, Zenon DEF Sized
<1>6. outer = Join(Whole(2, i), Whole(6, <<>>))
  BY <1>1, <1>3 DEF Outer1
<1>7. body = i
  BY <1>2, <1>4, <1>5, <1>6, HeldInside
<1>8. Word_2_Charsb(cs) = <<0, IF slave.utf8 THEN 2 ELSE 0>> /\ Word_2_Charsb(0) = <<0, 0>>
  <2>1. (0 \div 256) % 256 = 0 /\ 0 % 256 = 0 /\ (2 \div 256) % 256 = 0 /\ 2 % 256 = 2
    OBVIOUS
  <2> QED
    BY <2>1, <1>1 DEF Word_2_Charsb, Charset
<1>9. PICK h, z : h = <<0, IF slave.utf8 THEN 2 ELSE 0>> /\ z = <<0, 0>>
  BY Zenon
<1>10. PICK y : y = Join(Join(h, z), data)
  BY Zenon
<1>11. Text257(cs, data) = y
  BY <1>8, <1>9, <1>10 DEF Text257
<1>12. y = <<0, IF slave.utf8 THEN 2 ELSE 0>> \o <<0, 0>> \o data
  BY <1>9, <1>10, Zenon DEF Join
<1>13. body = Join(Whole(1281, <<1>>), Whole(257, y))
  BY <1>3, <1>7, <1>11 DEF Inside1
<1>14. body = Whole(1281, <<1>>) \o Whole(257, <<0, IF slave.utf8 THEN 2 ELSE 0>> \o <<0, 0>> \o data)
  BY <1>12, <1>13, Zenon DEF Join
<1>15. outer = Whole(2, body) \o Whole(6, <<>>)
  BY <1>6, <1>7, Zenon DEF Join
<1> QED
  BY <1>14, <1>15, Zenon DEF Nest1

\* The type of a message of format 4.
LEMMA Type4 ==
  ASSUME NEW type \in Byte, NEW t \in Str
  PROVE  Join(Start4(type), t)[5] = type
<1>1. Sized(<<49, 0, 0, 0>>, 4) /\ Sized(<<type>>, 1) /\ Sized(<<0>>, 1)
  <2>1. 49 \in Octet /\ 0 \in Octet /\ type \in Octet
    BY Octets DEF Octet, Cipher
  <2> QED
    BY <2>1, SmallStrs, Zenon
<1>2. PICK a, y, z : a = <<49, 0, 0, 0>> /\ y = <<type>> /\ z = <<0>>
  BY Zenon
<1>3. a \in Str /\ y \in Str /\ z \in Str
  BY <1>1, <1>2 DEF Sized
<1>4. Join(Join(a, y), z) = Join(a, Join(y, z))
  BY <1>3, JoinTwice, Zenon
<1>5. Join(y, z) \in Str /\ Join(z, t) \in Str
  BY <1>3, JoinStr, Zenon
<1>6. Join(Join(a, Join(y, z)), t) = Join(a, Join(Join(y, z), t))
  BY <1>3, <1>5, JoinTwice, Zenon
<1>7. Join(Join(y, z), t) = Join(y, Join(z, t))
  BY <1>3, JoinTwice, Zenon
<1>8. Join(Start4(type), t) = Join(a, Join(y, Join(z, t)))
  BY <1>2, <1>4, <1>6, <1>7 DEF Start4
<1>9. PICK e : e = Join(z, t)
  BY Zenon
<1>10. Sized(a, 4) /\ <<type>> \in Str /\ e \in Str /\ 4 \in Nat
  BY <1>1, <1>2, <1>3, <1>5, <1>9
<1>11. Join(a, Join(<<type>>, e))[4 + 1] = type
  BY <1>10, ByteBehind
<1> QED
  BY <1>2, <1>8, <1>9, <1>11

LEMMA Nests4 ==
  ASSUME NEW type \in Byte, NEW data \in Str, Modest(data), NEW outer, outer = Outer4(type, data),
         NEW body, body = Within(outer, 4, 4)
  PROVE  Nest4(type, data, outer, body)
<1>1. 5 \in Nat /\ 6 \in Nat /\ 4 \in Nat /\ 4 + 1 = 5
  OBVIOUS
<1>2. PICK i, p, t : i = Inside4(type, data) /\ p = Start4(type) /\ t = Text4(data)
  BY Zenon
<1>3. Sized(i, 8 + Len(data)) /\ Short(i) /\ Sized(p, 6) /\ Sized(t, 2 + Len(data))
  BY <1>2, Sizes4
<1>4. i \in Str /\ t \in Str
  BY <1>3, Zenon DEF Sized
<1>5. outer = Join(Whole(5, i), Whole(6, <<>>))
  BY <1>2 DEF Outer4
<1>6. body = i
  BY <1>1, <1>3, <1>4, <1>5, HeldInside
<1>7. i = Join(p, t)
  BY <1>2 DEF Inside4
<1>8. Behind(body, 6) = t
  BY <1>3, <1>4, <1>6, <1>7, Behinds
<1>9. t = <<(Len(data) + 1) % 256>> \o data \o <<0>>
  BY <1>2 DEF Text4, Join
<1>10. body[5] = type
  BY <1>2, <1>4, <1>6, <1>7, Type4
<1>11. outer = Whole(5, body) \o Whole(6, <<>>)
  BY <1>5, <1>6, Zenon DEF Join
<1> QED
  <2>1. Behind(body, 6) = <<(Len(data) + 1) % 256>> \o data \o <<0>>
    BY <1>8, <1>9, Zenon
  <2> QED
    BY <1>10, <1>11, <2>1, Zenon DEF Nest4
\* The type and the text of a message of format 2.
LEMMA Type2 ==
  ASSUME NEW slave, NEW type \in Byte, NEW flags \in Byte, NEW t \in Str, Sized(Fixed2, 45)
  PROVE  Join(Fixed2, Join(Kind2(slave, type, flags), t))[46] = type
<1>0. Priority2(slave) \in Nat
  BY Kind2Str, Zenon
<1>1. 0 \in Nat /\ Priority2(slave) \in Nat /\ 45 \in Nat /\ 45 + 1 = 46
  BY <1>0
<1>2. PICK y, z, v, w : y = <<type>> /\ z = <<Sent2(flags)>> /\ v = Word_2_Chars(0) /\ w = Word_2_Chars(Priority2(slave))
  BY Zenon
<1>3. y \in Str /\ z \in Str /\ v \in Str /\ w \in Str
  <2>1. Sized(<<type>>, 1) /\ Sized(<<Sent2(flags)>>, 1)
    BY Kind2Str, Zenon
  <2>2. Sized(Word_2_Chars(0), 2) /\ Sized(Word_2_Chars(Priority2(slave)), 2)
    BY <1>1, WordStr, Zenon
  <2> QED
    BY <2>1, <2>2, <1>2 DEF Sized
<1>4. Join(y, z) \in Str /\ Join(w, t) \in Str
  BY <1>3, JoinStr, Zenon
<1>5. Join(Join(y, z), v) \in Str /\ Join(v, Join(w, t)) \in Str
  BY <1>3, <1>4, JoinStr, Zenon
<1>6. PICK yz, wt, vwt : yz = Join(y, z) /\ wt = Join(w, t) /\ vwt = Join(v, wt)
  BY Zenon
<1>7. yz \in Str /\ wt \in Str /\ vwt \in Str /\ Join(yz, v) \in Str
  BY <1>4, <1>5, <1>6
<1>8. /\ Join(Join(Join(yz, v), w), t) = Join(Join(yz, v), wt) /\ Join(Join(yz, v), wt) = Join(yz, vwt)
      /\ Join(yz, vwt) = Join(y, Join(z, vwt))
  <2>1. Join(Join(Join(yz, v), w), t) = Join(Join(yz, v), Join(w, t))
    BY <1>3, <1>7, JoinTwice
  <2>2. Join(Join(yz, v), wt) = Join(yz, Join(v, wt))
    BY <1>3, <1>7, JoinTwice
  <2>3. Join(Join(y, z), vwt) = Join(y, Join(z, vwt))
    BY <1>3, <1>7, JoinTwice
  <2> QED
    BY <2>1, <2>2, <2>3, <1>6
<1>9. PICK q : q = Join(z, vwt)
  BY Zenon
<1>10. q \in Str
  BY <1>3, <1>7, <1>9, JoinStr
<1>11. Join(Kind2(slave, type, flags), t) = Join(<<type>>, q)
  BY <1>2, <1>6, <1>8, <1>9 DEF Kind2
<1>12. <<type>> \in Str
  BY <1>2, <1>3
<1>13. PICK f : f = Fixed2
  BY Zenon
<1>14. Join(f, Join(<<type>>, q))[45 + 1] = type
  BY <1>1, <1>10, <1>12, <1>13, ByteBehind
<1> QED
  BY <1>1, <1>11, <1>13, <1>14

LEMMA Nests2 ==
  ASSUME NEW slave, NEW type \in Byte, NEW flags \in Byte, NEW send, NEW data \in Str, Modest(data),
         NEW outer, outer = Outer2(slave, type, flags, send, data), NEW body, body = Within(outer, 4, 4),
         NEW ext, ext = Behind(body, (10 + Len(Capability(flags))) + 14)
  PROVE  Nest2(slave, type, flags, send, data, outer, body, ext)
<1>1. 5 \in Nat /\ 1 \in Nat /\ Tlv2711 \in Nat
  BY DEF Tlv2711
<1>2. PICK last, c, k2, e2 :
        /\ last \in Nat /\ last = (IF flags = ScanFlags THEN 6 ELSE 3) /\ c = Capability(flags)
        /\ k2 = Kind2(slave, type, flags) /\ e2 = End2(send)
  <2>1. PICK last \in Nat : last = IF flags = ScanFlags THEN 6 ELSE 3
    OBVIOUS
  <2> QED
    BY <2>1, Zenon
<1>20. PICK n \in 0 .. 31 : Sized(c, n)
  BY <1>2, CapStr
<1>21. PICK m \in 0 .. 50 : Sized(e2, m)
  BY <1>2, End2Str
<1>3. PICK i, x, s2, f2, t2 : /\ i = Inside2(c, k2, data, e2) /\ x = Ext2(k2, data, e2) /\ s2 = Start2(c)
                              /\ f2 = Fixed2 /\ t2 = Text2(data)
  BY Zenon
<1>4. /\ Sized(s2, 10 + n) /\ Sized(f2, 45) /\ Sized(k2, 6) /\ Sized(t2, 3 + Len(data)) /\ Sized(Heads2, 10)
      /\ x \in Str /\ Short(x) /\ i \in Str /\ Short(i)
  <2>1. Sized(k2, 6)
    BY <1>2, Kind2Str
  <2> QED
    BY <2>1, <1>20, <1>21, <1>3, Sizes2, Wholes2
<1>5. s2 \in Str /\ f2 \in Str /\ k2 \in Str /\ t2 \in Str /\ Heads2 \in Str /\ e2 \in Str /\ Len(c) = n
  BY <1>20, <1>21, <1>4, Zenon DEF Sized
<1>6. outer = Join(Whole(5, i), Whole(last, <<>>))
  BY <1>2, <1>3 DEF Outer2
<1>7. body = i
  BY <1>1, <1>2, <1>4, <1>6, HeldInside
<1>8. PICK h, w : h = HeadOf(Tlv2711, Len(x)) /\ w = Whole(Tlv2711, x)
  BY Zenon
<1>9. w = Join(h, x) /\ Sized(h, 4) /\ h \in Str /\ w \in Str
  <2>1. w = Join(h, x) /\ Sized(w, 4 + Len(x))
    BY <1>1, <1>4, <1>8, WholeType
  <2>2. Len(x) \in Nat
    BY <1>4, StrNat
  <2>3. Sized(h, 4)
    BY <1>1, <1>8, <2>2, HeadStr
  <2> QED
    BY <2>1, <2>3, Zenon DEF Sized
<1>10. i = Join(s2, Join(Heads2, w)) /\ x = Join(f2, Join(k2, Join(t2, e2)))
  BY <1>3, <1>8 DEF Inside2, Ext2
<1>11. Join(Heads2, w) \in Str /\ Join(t2, e2) \in Str
  BY <1>5, <1>9, JoinStr, Zenon
<1>12. Behind(body, 10 + n) = Join(Heads2, w)
  BY <1>4, <1>7, <1>10, <1>11, Behinds
<1>13. ext = x
  <2>1. PICK hh : hh = Join(Heads2, h)
    BY Zenon
  <2>2. Join(Join(Heads2, h), x) = Join(Heads2, Join(h, x)) /\ Join(Heads2, h) \in Str
    <3>1. Heads2 \in Str /\ h \in Str /\ x \in Str
      BY <1>4, <1>5, <1>9, Zenon
    <3>2. Join(Join(Heads2, h), x) = Join(Heads2, Join(h, x))
      BY <3>1, JoinTwice
    <3> QED
      BY <3>1, <3>2, JoinStr
  <2>3. Join(Join(s2, hh), x) = Join(s2, Join(hh, x))
    BY <1>4, <1>5, <2>1, <2>2, JoinTwice
  <2>4. Sized(hh, 10 + 4)
    BY <1>4, <1>9, <2>1, JoinSized
  <2>5. PICK p : p = Join(s2, hh)
    BY Zenon
  <2>6. Sized(p, (10 + n) + (10 + 4))
    BY <1>4, <2>4, <2>5, JoinSized
  <2>7. Sized(p, (10 + n) + 14)
    BY <2>6
  <2>8. Behind(Join(p, x), (10 + n) + 14) = x
    BY <2>7, <1>4, Behinds
  <2>9. body = Join(p, x)
    BY <1>7, <1>9, <1>10, <2>1, <2>2, <2>3, <2>5
  <2> QED
    BY <2>8, <2>9, <1>2, <1>5, <1>20
<1>14. ext[46] = type
  <2>1. Join(Fixed2, Join(Kind2(slave, type, flags), Join(t2, e2)))[46] = type
    BY <1>3, <1>4, <1>11, Type2
  <2> QED
    BY <2>1, <1>2, <1>3, <1>10, <1>13
<1>15. Behind(ext, 51) = Join(t2, e2)
  <2>1. PICK p, t : p = Join(f2, k2) /\ t = Join(t2, e2)
    BY Zenon
  <2>2. Join(p, t) = Join(f2, Join(k2, t)) /\ t \in Str
    BY <2>1, <1>5, <1>11, JoinTwice
  <2>3. Sized(p, 45 + 6)
    BY <1>4, <2>1, JoinSized
  <2>4. Sized(p, 51)
    BY <2>3
  <2>5. Behind(Join(p, t), 51) = t
    BY <2>2, <2>4, Behinds
  <2> QED
    BY <2>1, <2>2, <2>5, <1>10, <1>13
<1>16. Join(t2, e2) = Word_2_Chars(Len(data) + 1) \o data \o <<0>> \o Colours(send) \o Guid(send)
  <2>1. PICK c2, g2 : c2 = Colours(send) /\ g2 = Guid(send)
    BY Zenon
  <2>2. c2 \in Str /\ g2 \in Str /\ e2 = Join(c2, g2)
    BY <2>1, <1>2, End2Str DEF End2
  <2>3. Join(t2, e2) = Join(Join(t2, c2), g2)
    BY <2>2, <1>5, JoinTwice
  <2> QED
    BY <2>1, <2>3, <1>3, Zenon DEF Text2, Join
<1>17. Join(Heads2, w) = Whole(10, <<0, 1>>) \o Whole(15, <<>>) \o Whole(Tlv2711, ext)
  <2>1. Word_2_Charsb(1) = <<0, 1>>
    <3>1. (1 \div 256) % 256 = 0 /\ 1 % 256 = 1
      OBVIOUS
    <3> QED
      BY <3>1 DEF Word_2_Charsb
  <2>2. Heads2 = Whole(10, <<0, 1>>) \o Whole(15, <<>>)
    BY <2>1, Zenon DEF Heads2, Join
  <2> QED
    BY <2>2, <1>8, <1>13, Zenon DEF Join
<1>18. outer = Whole(5, body) \o Whole(IF flags = ScanFlags THEN 6 ELSE 3, <<>>)
  BY <1>2, <1>6, <1>7, Zenon DEF Join
<1>19. Behind(body, 10 + Len(Capability(flags))) = Join(Heads2, w)
  BY <1>2, <1>5, <1>12
<1> QED
  BY <1>14, <1>15, <1>16, <1>17, <1>18, <1>19, Zenon DEF Nest2


-----------------------------------------------------------------------------
\* What is sent.

Flat(f, s, n) == f = [i \in 1 .. n |-> IF i = 1 THEN s[i] ELSE Join(f[i - 1], s[i])]

LEMMA FlatOne ==
  ASSUME NEW s, NEW f, NEW n \in Nat, Flat(f, s, n), NEW i \in 1 .. n
  PROVE  f[i] = IF i = 1 THEN s[i] ELSE Join(f[i - 1], s[i])
  BY DEF Flat

LEMMA FlatMore ==
  ASSUME NEW s, NEW k \in Nat, NEW g, Flat(g, s, k)
  PROVE  \E h : Flat(h, s, k + 1)
<1> DEFINE h == [i \in 1 .. k + 1 |-> IF i <= k THEN g[i] ELSE IF i = 1 THEN s[i] ELSE Join(g[i - 1], s[i])]
<1>1. ASSUME NEW i \in 1 .. k + 1
      PROVE  h[i] = IF i = 1 THEN s[i] ELSE Join(h[i - 1], s[i])
  <2>1. CASE i <= k
    <3>1. i \in 1 .. k /\ (i # 1 => i - 1 \in 1 .. k + 1 /\ i - 1 <= k)
      BY <2>1
    <3>2. g[i] = IF i = 1 THEN s[i] ELSE Join(g[i - 1], s[i])
      BY <3>1, FlatOne
    <3>3. h[i] = g[i] /\ (i # 1 => h[i - 1] = g[i - 1])
      BY <2>1, <3>1
    <3> HIDE DEF h
    <3> QED
      BY <3>2, <3>3
  <2>2. CASE ~(i <= k)
    <3>1. i # 1 => i - 1 \in 1 .. k + 1 /\ i - 1 <= k
      BY <2>2
    <3>2. h[i] = (IF i = 1 THEN s[i] ELSE Join(g[i - 1], s[i])) /\ (i # 1 => h[i - 1] = g[i - 1])
      BY <2>2, <3>1
    <3> HIDE DEF h
    <3> QED
      BY <3>2
  <2> QED
    BY <2>1, <2>2
<1>2. h = [i \in 1 .. k + 1 |-> h[i]]
  OBVIOUS
<1> HIDE DEF h
<1>3. Flat(h, s, k + 1)
  BY <1>1, <1>2 DEF Flat
<1> QED
  BY <1>3

LEMMA FlatExists ==
  ASSUME NEW s, NEW n \in Nat
  PROVE  \E g : Flat(g, s, n)
<1> DEFINE T == {k \in Nat : ~(\E g : Flat(g, s, k))}
<1>1. ASSUME T # {}
      PROVE  FALSE
  <2>1. PICK k \in T : \A m \in T : k <= m
    <3>1. T \subseteq Nat
      OBVIOUS
    <3> HIDE DEF T
    <3> QED
      BY <1>1, <3>1, Least
  <2>2. k \in Nat /\ ~(\E g : Flat(g, s, k))
    BY <2>1
  <2>3. CASE k = 0
    <3>1. Flat([i \in 1 .. 0 |-> 0], s, 0)
      BY DEF Flat
    <3> QED
      BY <2>2, <2>3, <3>1
  <2>4. CASE k # 0
    <3>1. k - 1 \in Nat /\ ~(k <= k - 1) /\ (k - 1) + 1 = k
      BY <2>2, <2>4
    <3>2. k - 1 \notin T
      BY <2>1, <3>1
    <3>3. PICK g : Flat(g, s, k - 1)
      BY <3>1, <3>2
    <3>4. \E h : Flat(h, s, (k - 1) + 1)
      <4> HIDE DEF T
      <4> QED
        BY <3>1, <3>3, FlatMore, Zenon
    <3> QED
      BY <2>2, <3>1, <3>4
  <2> QED
    BY <2>3, <2>4
<1> QED
  BY <1>1

\* Bytes, none of them enciphered.
Raw(v) == v \in Seq(Byte)

LEMMA RawStr ==
  ASSUME NEW v, Raw(v)
  PROVE  v \in Str /\ Len(v) \in Nat /\ v \in [1 .. Len(v) -> Byte]
<1>1. v \in Seq(Byte)
  BY DEF Raw
<1>2. v \in Seq(Octet)
  BY <1>1, OctetSeq, Zenon
<1>3. Len(v) \in Nat /\ v \in [1 .. Len(v) -> Byte]
  BY <1>1, LenProperties, Zenon
<1> QED
  BY <1>2, <1>3, Zenon DEF Str

LEMMA JoinRaw ==
  ASSUME NEW u, Raw(u), NEW v, Raw(v)
  PROVE  Raw(Join(u, v)) /\ Len(Join(u, v)) = Len(u) + Len(v) /\ Len(u) \in Nat /\ Len(v) \in Nat
<1>1. Raw(Join(u, v))
  BY ConcatProperties, Zenon DEF Raw, Join
<1>2. u \in Str /\ v \in Str
  BY RawStr, Zenon
<1>3. Len(Join(u, v)) = Len(u) + Len(v) /\ Len(u) \in Nat /\ Len(v) \in Nat
  BY <1>2, JoinStr, Zenon
<1> QED
  BY <1>1, <1>3, Zenon

\* Pieces of at most two bytes.
Couple(v) == Raw(v) /\ Len(v) <= 2

LEMMA FlatBounds ==
  ASSUME NEW s, NEW n \in Nat, NEW f, Flat(f, s, n), \A i \in 1 .. n : Couple(s[i])
  PROVE  \A i \in 1 .. n : Raw(f[i]) /\ Len(f[i]) <= 2 * i
<1> DEFINE T == {k \in 1 .. n : ~(Raw(f[k]) /\ Len(f[k]) <= 2 * k)}
<1>1. ASSUME T # {}
      PROVE  FALSE
  <2>1. PICK k \in T : \A m \in T : k <= m
    <3>1. T \subseteq Nat
      OBVIOUS
    <3> HIDE DEF T
    <3> QED
      BY <1>1, <3>1, Least
  <2>2. k \in 1 .. n /\ ~(Raw(f[k]) /\ Len(f[k]) <= 2 * k)
    BY <2>1
  <2>3. Raw(s[k]) /\ Len(s[k]) <= 2 /\ Len(s[k]) \in Nat
    BY <2>2, RawStr DEF Couple
  <2>4. f[k] = IF k = 1 THEN s[k] ELSE Join(f[k - 1], s[k])
    BY <2>2, FlatOne
  <2>5. CASE k = 1
    BY <2>2, <2>3, <2>4, <2>5
  <2>6. CASE k # 1
    <3>1. k - 1 \in 1 .. n /\ ~(k <= k - 1)
      BY <2>2, <2>6
    <3>2. Raw(f[k - 1]) /\ Len(f[k - 1]) <= 2 * (k - 1)
      BY <2>1, <3>1
    <3> HIDE DEF T
    <3>3. /\ Raw(Join(f[k - 1], s[k]))
          /\ Len(Join(f[k - 1], s[k])) = Len(f[k - 1]) + Len(s[k]) /\ Len(f[k - 1]) \in Nat
      BY <2>3, <3>2, JoinRaw, Zenon
    <3>4. \A a, c, m \in Nat : a <= 2 * (m - 1) /\ c <= 2 => a + c <= 2 * m
      OBVIOUS
    <3>5. k \in Nat
      BY <2>2
    <3>6. Len(f[k - 1]) + Len(s[k]) <= 2 * k
      BY <2>3, <3>2, <3>3, <3>4, <3>5
    <3>7. f[k] = Join(f[k - 1], s[k])
      BY <2>4, <2>6
    <3>8. Raw(f[k]) /\ Len(f[k]) <= 2 * k
      BY <3>3, <3>6, <3>7
    <3> QED
      BY <2>2, <3>8
  <2> QED
    BY <2>5, <2>6
<1> QED
  BY <1>1

\* A flattened sequence of couples.
LEMMA Flattened ==
  ASSUME NEW n \in Nat, NEW s, s \in [1 .. n -> Seq(Byte)], \A i \in 1 .. n : Couple(s[i])
  PROVE  Raw(FlattenSeq(s)) /\ Len(FlattenSeq(s)) <= 2 * n
<1>1. Len(s) = n
  BY LenProperties
<1>2. CASE n = 0
  <2>1. FlattenSeq(s) = s
    BY <1>1, <1>2 DEF FlattenSeq
  <2>2. s = <<>>
    BY <1>2
  <2>3. Raw(<<>>) /\ Len(<<>>) = 0
    BY DEF Raw
  <2> QED
    BY <2>1, <2>2, <2>3, <1>2
<1>3. CASE n # 0
  <2> DEFINE f == CHOOSE g : Flat(g, s, n)
  <2>1. Flat(f, s, n)
    <3>1. \E g : Flat(g, s, n)
      BY FlatExists, Zenon
    <3> QED
      BY <3>1, Zenon
  <2>2. FlattenSeq(s) = f[n]
    BY <1>1, <1>3 DEF FlattenSeq, Flat, Join
  <2> HIDE DEF f
  <2>3. n \in 1 .. n
    BY <1>3
  <2> QED
    BY <2>1, <2>2, <2>3, FlatBounds
<1> QED
  BY <1>2, <1>3

\* A text, and what it becomes on its way out.
Brief(v) == Len(v) <= 30000

LEMMA TextStr ==
  ASSUME NEW text \in Texts \cup Letters
  PROVE  /\ Raw(text) /\ Len(text) \in Nat /\ Brief(text)
         /\ \A i \in 1 .. Len(text) : text[i] \in 1 .. 255
<1>1. text \in Seq(1 .. 255) /\ Brief(text)
  BY TextsAssumption DEF Brief
<1>2. text \in [1 .. Len(text) -> 1 .. 255] /\ Len(text) \in Nat
  <2>1. PICK S : S = 1 .. 255
    BY Zenon
  <2>2. text \in Seq(S)
    BY <1>1, <2>1
  <2>3. text \in [1 .. Len(text) -> S] /\ Len(text) \in Nat
    BY <2>2, LenProperties, Zenon
  <2> QED
    BY <2>1, <2>3, Zenon
<1>3. \A i \in 1 .. Len(text) : text[i] \in 1 .. 255
  BY <1>2, Zenon
<1>4. \A c \in 1 .. 255 : c \in Byte
  BY DEF Byte
<1>5. text \in [1 .. Len(text) -> Byte]
  BY <1>2, <1>3, <1>4
<1>7. Raw(text)
  BY <1>2, <1>5, FunctionIsSeq, Zenon DEF Raw
<1> QED
  BY <1>1, <1>2, <1>3, <1>7, Zenon

LEMMA Utf8Couple ==
  ASSUME NEW c \in 1 .. 255
  PROVE  Couple(Utf8(c))
<1>1. CASE c < 128
  <2>1. c \in Byte
    BY DEF Byte
  <2>2. Raw(<<c>>) /\ Len(<<c>>) = 1
    BY <2>1 DEF Raw
  <2> QED
    BY <1>1, <2>2 DEF Utf8, Couple
<1>2. CASE ~(c < 128)
  <2>1. \A k \in 0 .. 255 : k \div 64 \in 0 .. 3 /\ k % 64 \in 0 .. 63
    OBVIOUS
  <2>2. PICK x, y : x = 192 + (c \div 64) /\ y = 128 + (c % 64)
    BY Zenon
  <2>3. x \in Byte /\ y \in Byte
    BY <2>1, <2>2 DEF Byte
  <2>4. Raw(<<x, y>>) /\ Len(<<x, y>>) = 2
    BY <2>3 DEF Raw
  <2>5. Utf8(c) = <<x, y>>
    BY <1>2, <2>2 DEF Utf8
  <2> QED
    BY <2>4, <2>5 DEF Couple
<1> QED
  BY <1>1, <1>2

LEMMA CharsetStr ==
  ASSUME NEW text \in Texts, NEW utf8 \in BOOLEAN
  PROVE  Raw(YSM_Charset(text, utf8)) /\ Modest(YSM_Charset(text, utf8))
<1>1. /\ Raw(text) /\ Len(text) \in Nat /\ Brief(text)
      /\ \A i \in 1 .. Len(text) : text[i] \in 1 .. 255
  BY TextStr, Zenon
<1>2. CASE ~utf8
  BY <1>1, <1>2 DEF YSM_Charset, Brief, Modest
<1>3. CASE utf8
  <2> DEFINE s == [i \in 1 .. Len(text) |-> Utf8(text[i])]
  <2>1. \A i \in 1 .. Len(text) : Couple(s[i])
    <3>1. TAKE i \in 1 .. Len(text)
    <3>2. s[i] = Utf8(text[i])
      OBVIOUS
    <3> HIDE DEF s
    <3>3. text[i] \in 1 .. 255
      BY <1>1, Zenon
    <3>4. Couple(Utf8(text[i]))
      BY <3>3, Utf8Couple, Zenon
    <3> QED
      BY <3>2, <3>4, Zenon
  <2>2. s \in [1 .. Len(text) -> Seq(Byte)]
    BY <2>1 DEF Couple, Raw
  <2>3. YSM_Charset(text, utf8) = FlattenSeq(s)
    BY <1>3 DEF YSM_Charset
  <2> HIDE DEF s
  <2>4. Raw(FlattenSeq(s)) /\ Len(FlattenSeq(s)) <= 2 * Len(text)
    <3>1. PICK n \in Nat : n = Len(text)
      BY <1>1
    <3>2. s \in [1 .. n -> Seq(Byte)] /\ \A i \in 1 .. n : Couple(s[i])
      BY <2>1, <2>2, <3>1
    <3>3. Raw(FlattenSeq(s)) /\ Len(FlattenSeq(s)) <= 2 * n
      BY <3>2, Flattened, Zenon
    <3> QED
      BY <3>1, <3>3
  <2>5. Len(FlattenSeq(s)) \in Nat
    BY <2>4, RawStr, Zenon
  <2> QED
    BY <1>1, <2>3, <2>4, <2>5 DEF Brief, Modest
<1> QED
  BY <1>2, <1>3

\* What YSM_EncryptAnyData makes of n bytes of data: nothing of it is clear behind
\* the head, and it stays below the limit.
LEMMA EncipheredStr ==
  ASSUME NEW data, Raw(data), NEW n \in Nat, n <= Len(data), n + 20 <= MAX_MSGDATA_LEN, NEW e, e = Enciphered(data, n)
  PROVE  /\ e \in Str /\ Len(e) <= MAX_MSGDATA_LEN
         /\ \A i \in 5 .. Len(e) : e[i] >= Cipher
<1> DEFINE m == n + MAX_CRYPT_PADDING - (n % MAX_CRYPT_PADDING)
           z == [i \in 1 .. m |-> Cipher + IF i <= n THEN data[i] ELSE 0]
<1>1. MAX_MSGDATA_LEN \in Nat /\ Len(data) \in Nat /\ \A i \in 1 .. Len(data) : data[i] \in Byte
  <2>1. MAX_MSGDATA_LEN \in Nat
    BY TextsAssumption
  <2>2. Len(data) \in Nat /\ data \in [1 .. Len(data) -> Byte]
    BY RawStr, Zenon
  <2> QED
    BY <2>1, <2>2, Zenon
<1>2. m \in Nat /\ 4 + m <= MAX_MSGDATA_LEN
  <2>1. \A k \in Nat : k % 16 \in 0 .. 15
    OBVIOUS
  <2> QED
    BY <1>1, <2>1 DEF MAX_CRYPT_PADDING
<1>3. \A i \in 1 .. m : z[i] \in Octet /\ z[i] >= Cipher
  <2>1. TAKE i \in 1 .. m
  <2>2. z[i] = Cipher + IF i <= n THEN data[i] ELSE 0
    OBVIOUS
  <2>3. i <= n => data[i] \in Byte
    BY <1>1, <1>2
  <2>4. (\A w \in Byte : Cipher + w \in Octet /\ Cipher + w >= Cipher) /\ Cipher + 0 \in Octet /\ Cipher + 0 >= Cipher
    BY DEF Octet, Cipher, Byte
  <2> HIDE DEF z, m
  <2>5. CASE i <= n
    <3>1. z[i] = Cipher + data[i]
      BY <2>2, <2>5
    <3> QED
      BY <2>3, <2>4, <2>5, <3>1
  <2>6. CASE ~(i <= n)
    <3>1. z[i] = Cipher + 0
      BY <2>2, <2>6
    <3> QED
      BY <2>4, <3>1
  <2> QED
    BY <2>5, <2>6
<1>4. z \in [1 .. m -> Octet]
  BY <1>3
<1>5. z \in Str /\ Len(z) = m
  <2> HIDE DEF z, m
  <2> QED
    BY <1>2, <1>4, FunctionIsSeq, Zenon DEF Str
<1>6. PICK a, y : a = <<222, 175>> /\ y = Word_2_Chars(n)
  BY Zenon
<1>7. Sized(a, 2) /\ Sized(y, 2)
  <2>1. 222 \in Octet /\ 175 \in Octet
    BY DEF Octet, Cipher
  <2>2. Sized(<<222, 175>>, 2)
    BY <2>1, SmallStrs, Zenon
  <2>3. Sized(Word_2_Chars(n), 2)
    BY WordStr, Zenon
  <2> QED
    BY <1>6, <2>2, <2>3
<1>8. PICK x : x = Join(a, y)
  BY Zenon
<1>9. Sized(x, 4)
  <2>1. Sized(x, 2 + 2)
    BY <1>7, <1>8, JoinSized, Zenon
  <2> QED
    BY <2>1
<1>10. e = Join(x, z)
  BY <1>6, <1>8, Zenon DEF Enciphered, Join
<1> HIDE DEF z, m
<1>11. x \in Seq(Octet) /\ z \in Seq(Octet) /\ Len(x) = 4
  BY <1>5, <1>9 DEF Sized, Str
<1>12. /\ e \in Seq(Octet) /\ Len(e) = Len(x) + Len(z)
       /\ \A i \in 1 .. Len(x) + Len(z) : e[i] = IF i <= Len(x) THEN x[i] ELSE z[i - Len(x)]
  <2>1. e = x \o z
    BY <1>10, Zenon DEF Join
  <2>2. /\ x \o z \in Seq(Octet) /\ Len(x \o z) = Len(x) + Len(z)
        /\ \A i \in 1 .. Len(x) + Len(z) : (x \o z)[i] = IF i <= Len(x) THEN x[i] ELSE z[i - Len(x)]
    BY <1>11, Joined, Zenon
  <2> QED
    BY <2>1, <2>2, Zenon
<1>13. ASSUME NEW i \in 5 .. Len(e)
       PROVE  e[i] >= Cipher
  <2>1. i \in 1 .. Len(x) + Len(z) /\ ~(i <= Len(x)) /\ i - Len(x) \in 1 .. m
    BY <1>2, <1>5, <1>11, <1>12
  <2>2. e[i] = z[i - Len(x)]
    BY <1>12, <2>1
  <2> QED
    BY <1>3, <2>1, <2>2
<1> QED
  BY <1>2, <1>5, <1>11, <1>12, <1>13 DEF Str

\* A message as it is handed to the packing: how long it is, and that it is
\* enciphered when 'msg' sends it to a contact with a key.
Secret(how, slave, data) ==
    how = "msg" /\ slave.key =>
        (\A i \in 5 .. Len(data) : data[i] >= Cipher) /\ Len(data) <= MAX_MSGDATA_LEN
Payload(how, slave, data) == data \in Str /\ Modest(data) /\ Secret(how, slave, data)

LEMMA EncryptedStr ==
  ASSUME NEW slave \in Slaves, NEW data, Raw(data), Modest(data), NEW e, e = YSM_EncryptAnyData(slave, data)
  PROVE  /\ e \in Str /\ Modest(e)
         /\ slave.key /\ slave.crypt => (\A i \in 5 .. Len(e) : e[i] >= Cipher) /\ Len(e) <= MAX_MSGDATA_LEN
<1>1. data \in Str /\ Len(data) \in Nat
  BY RawStr, Zenon
<1>2. CASE ~slave.key \/ ~slave.crypt
  <2>1. e = data
    BY <1>2 DEF YSM_EncryptAnyData
  <2>2. Modest(e)
    BY <1>1, <2>1 DEF Modest
  <2> QED
    BY <1>1, <1>2, <2>1, <2>2
<1>3. CASE slave.key /\ slave.crypt
  <2>1. MAX_MSGDATA_LEN \in Nat /\ 20 <= MAX_MSGDATA_LEN /\ MAX_MSGDATA_LEN <= 30000
    BY TextsAssumption
  <2> DEFINE n == IF Len(data) + SIZEOF_HEAD + MAX_CRYPT_PADDING >= MAX_MSGDATA_LEN
                  THEN MAX_MSGDATA_LEN - SIZEOF_HEAD - MAX_CRYPT_PADDING ELSE Len(data)
  <2>2. n \in Nat /\ n <= Len(data) /\ n + 20 <= MAX_MSGDATA_LEN
    BY <1>1, <2>1 DEF SIZEOF_HEAD, MAX_CRYPT_PADDING
  <2>3. e = Enciphered(data, n)
    BY <1>3 DEF YSM_EncryptAnyData
  <2> HIDE DEF n
  <2>4. e \in Str /\ Len(e) <= MAX_MSGDATA_LEN /\ \A i \in 5 .. Len(e) : e[i] >= Cipher
    BY <2>2, <2>3, EncipheredStr, Zenon
  <2>5. Len(e) \in Nat
    BY <2>4, StrNat, Zenon
  <2>6. Modest(e)
    BY <2>1, <2>4, <2>5 DEF Modest
  <2> QED
    BY <2>4, <2>6
<1> QED
  BY <1>2, <1>3

\* What sendMessage hands on.  Only 'msg' refuses a contact with a key whose
\* client does not decipher.
LEMMA SentPayload ==
  ASSUME NEW how, NEW slave \in Slaves, how = "msg" => (slave.key => slave.crypt), NEW text \in Texts
  PROVE  Payload(how, slave, YSM_EncryptAnyData(slave, YSM_Charset(text, slave.utf8)))
<1>1. slave.utf8 \in BOOLEAN
  BY DEF Slaves
<1>2. PICK d : d = YSM_Charset(text, slave.utf8)
  BY Zenon
<1>3. Raw(d) /\ Modest(d)
  BY <1>1, <1>2, CharsetStr
<1>4. PICK e : e = YSM_EncryptAnyData(slave, d)
  BY Zenon
<1>5. /\ e \in Str /\ Modest(e)
      /\ slave.key /\ slave.crypt => (\A i \in 5 .. Len(e) : e[i] >= Cipher) /\ Len(e) <= MAX_MSGDATA_LEN
  BY <1>3, <1>4, EncryptedStr
<1>6. Secret(how, slave, e)
  BY <1>5 DEF Secret
<1> QED
  BY <1>2, <1>4, <1>5, <1>6 DEF Payload

\* What the other commands hand on.
LEMMA OtherPayload ==
  ASSUME NEW text \in Texts, NEW slave
  PROVE  /\ Payload("url", slave, text \o <<Separator>> \o text \o << 0 >>)
         /\ Payload("contacts", slave, <<49, Separator>> \o text)
         /\ Payload("rtf", slave, text \o << 0 >>)
<1>1. Raw(text) /\ Brief(text)
  BY TextStr, Zenon
<1>2. PICK x, y, z : x = <<Separator>> /\ y = <<0>> /\ z = <<49, Separator>>
  BY Zenon
<1>3. Raw(x) /\ Len(x) = 1 /\ Raw(y) /\ Len(y) = 1 /\ Raw(z) /\ Len(z) = 2
  <2>1. Separator \in Byte /\ 0 \in Byte /\ 49 \in Byte
    BY DEF Separator, Byte
  <2> QED
    BY <1>2, <2>1 DEF Raw
<1>4. PICK a, b, c, d, e : /\ a = Join(text, x) /\ b = Join(a, text) /\ c = Join(b, y) /\ d = Join(z, text)
                           /\ e = Join(text, y)
  BY Zenon
<1>5. Raw(a) /\ Len(a) = Len(text) + Len(x) /\ Len(text) \in Nat /\ Len(a) \in Nat
  BY <1>1, <1>3, <1>4, JoinRaw, RawStr
<1>6. Raw(b) /\ Len(b) = Len(a) + Len(text) /\ Len(b) \in Nat
  BY <1>1, <1>4, <1>5, JoinRaw, RawStr
<1>7. Raw(c) /\ Len(c) = Len(b) + Len(y)
  BY <1>3, <1>4, <1>6, JoinRaw
<1>8. Raw(d) /\ Len(d) = Len(z) + Len(text) /\ Raw(e) /\ Len(e) = Len(text) + Len(y)
  BY <1>1, <1>3, <1>4, JoinRaw
<1>9. Modest(c) /\ Modest(d) /\ Modest(e)
  BY <1>1, <1>3, <1>5, <1>6, <1>7, <1>8 DEF Modest, Brief
<1>10. c \in Str /\ d \in Str /\ e \in Str
  BY <1>7, <1>8, RawStr, Zenon
<1>11. c = text \o <<Separator>> \o text \o <<0>> /\ d = <<49, Separator>> \o text /\ e = text \o <<0>>
  BY <1>2, <1>4, Zenon DEF Join
<1>12. Payload("url", slave, c) /\ Payload("contacts", slave, d) /\ Payload("rtf", slave, e)
  BY <1>9, <1>10 DEF Payload, Secret
<1> QED
  BY <1>11, <1>12, Zenon

LEMMA AutoPayload ==
  ASSUME NEW slave, NEW data \in {<< 0 >>, <<0, 1, 0>>}
  PROVE  Payload("auto", slave, data) /\ Payload("scan", slave, data)
<1>1. 0 \in Octet /\ 1 \in Octet
  BY DEF Octet, Cipher
<1>2. Sized(<<0>>, 1) /\ Sized(<<0, 1, 0>>, 3)
  BY <1>1, SmallStrs, Zenon
<1>3. PICK n \in Nat : Sized(data, n) /\ n <= 65000
  BY <1>2
<1>4. data \in Str /\ Modest(data)
  BY <1>3 DEF Sized, Modest
<1> QED
  BY <1>4 DEF Payload, Secret

-----------------------------------------------------------------------------
\* The stages of a message.

Own(j) ==
    /\ j.how \notin {"foreign", "odd"} /\ j.slave \in Slaves /\ j.type \in Byte /\ j.format \in {1, 2, 4}
    /\ j.flags \in Byte /\ (j.how = "scan" <=> j.flags = ScanFlags)
    /\ Payload(j.how, j.slave, j.data)
Foreign(j) == j.how = "foreign" /\ j.text \in Letters /\ j.type \in Byte /\ j.format \in {0, 4} /\ j.said \in Word
Odd(j) == j.how = "odd" /\ j.data \in Garbled /\ j.format \in {1, 2, 4}

\* A message of our own, packed behind the head.
Packed(j, b) == Own(j) /\ Holding(b, OwnHead(j.format), Outer(j))

LEMMA SendsPacked ==
  ASSUME NEW how, how \notin {"foreign", "odd"}, NEW slave \in Slaves, NEW type \in Byte, NEW text, NEW payload,
         Payload(how, slave, payload), NEW format \in {1, 2, 4}, NEW flags \in Byte,
         how = "scan" <=> flags = ScanFlags, NEW send, Sends(how, slave, type, text, payload, format, flags, send)
  PROVE  stage = "idle" /\ stage' = "sent" /\ Packed(job', bs')
<1>1. /\ stage = "idle" /\ stage' = "sent"
      /\ job' = [how |-> how, slave |-> slave, type |-> type, text |-> text, data |-> payload, format |-> format,
                 flags |-> flags, send |-> send]
      /\ bs' = sendMessage2Client(slave, format, type, payload, flags, send)
  BY DEF Sends
<1>2. /\ job'.how = how /\ job'.slave = slave /\ job'.type = type /\ job'.text = text /\ job'.data = payload
      /\ job'.format = format /\ job'.flags = flags /\ job'.send = send
  BY <1>1
<1>3. Own(job')
  BY <1>2 DEF Own
<1>4. payload \in Str /\ Modest(payload)
  BY DEF Payload
<1>5. /\ Holding(sendMessage2Client(slave, 1, type, payload, flags, send), OwnHead(1), Outer1(slave, payload))
      /\ Holding(sendMessage2Client(slave, 2, type, payload, flags, send), OwnHead(2), Outer2(slave, type, flags, send, payload))
      /\ Holding(sendMessage2Client(slave, 4, type, payload, flags, send), OwnHead(4), Outer4(type, payload))
  BY <1>4, SentBuilt, Zenon
<1>6. CASE format = 1
  <2>1. Outer(job') = Outer1(slave, payload)
    BY <1>2, <1>6 DEF Outer
  <2> QED
    BY <1>1, <1>2, <1>3, <1>5, <1>6, <2>1 DEF Packed
<1>7. CASE format = 2
  <2>1. Outer(job') = Outer2(slave, type, flags, send, payload)
    BY <1>2, <1>7 DEF Outer
  <2> QED
    BY <1>1, <1>2, <1>3, <1>5, <1>7, <2>1 DEF Packed
<1>8. CASE format = 4
  <2>1. Outer(job') = Outer4(type, payload)
    BY <1>2, <1>8 DEF Outer
  <2> QED
    BY <1>1, <1>2, <1>3, <1>5, <1>8, <2>1 DEF Packed
<1> QED
  BY <1>6, <1>7, <1>8

\* Every command that sends.
LEMMA CommandsPack ==
  ASSUME \/ cmdMSG_main \/ cmdMPLAIN \/ YSM_DoChatCommand
         \/ YSM_SendUrl \/ YSM_SendContact \/ YSM_SendRTF
         \/ YSM_RequestAutoMessage \/ YSM_Scan_Slave
  PROVE  stage = "idle" /\ stage' = "sent" /\ Packed(job', bs')
<1>1. /\ NORMAL \in Byte /\ URL \in Byte /\ CONTACTS \in Byte /\ GETAWAY \in Byte /\ GETDND \in Byte
      /\ 0 \in Byte /\ AutoFlags \in Byte /\ ScanFlags \in Byte /\ 0 # ScanFlags /\ AutoFlags # ScanFlags
  BY DEF NORMAL, URL, CONTACTS, GETAWAY, GETDND, AutoFlags, ScanFlags, Byte
<1>2. ASSUME NEW how, how \notin {"foreign", "odd", "scan"}, NEW slave \in Slaves, how = "msg" => (slave.key => slave.crypt),
             NEW text \in Texts, sendMessage(how, slave, text)
      PROVE  stage = "idle" /\ stage' = "sent" /\ Packed(job', bs')
  <2>1. PICK data : data = YSM_EncryptAnyData(slave, YSM_Charset(text, slave.utf8))
    BY Zenon
  <2>2. Payload(how, slave, data)
    BY <1>2, <2>1, SentPayload
  <2>3. PICK format \in {1, 2, 4} : format = IF slave.relay THEN 2 ELSE 1
    OBVIOUS
  <2>4. \E send : Sends(how, slave, NORMAL, text, data, format, 0, send)
    BY <1>2, <2>1, <2>3, Zenon DEF sendMessage
  <2> QED
    BY <1>1, <1>2, <2>2, <2>4, SendsPacked
<1>3. CASE cmdMSG_main
  <2>1. PICK slave \in Slaves, text \in Texts : (slave.key => slave.crypt) /\ sendMessage("msg", slave, text)
    BY <1>3 DEF cmdMSG_main
  <2> QED
    BY <1>2, <2>1
<1>4. CASE cmdMPLAIN
  <2>1. PICK slave \in Slaves, text \in Texts : sendMessage("mplain", [slave EXCEPT !.crypt = FALSE], text)
    BY <1>4 DEF cmdMPLAIN
  <2>2. [slave EXCEPT !.crypt = FALSE] \in Slaves
    BY DEF Slaves
  <2> QED
    BY <1>2, <2>1, <2>2
<1>5. CASE YSM_DoChatCommand
  <2>1. PICK slave \in Slaves, text \in Texts : sendMessage("chat", slave, text)
    BY <1>5 DEF YSM_DoChatCommand
  <2> QED
    BY <1>2, <2>1
<1>6. Plain \in Slaves
  BY DEF Plain, Slaves
<1>7. CASE YSM_SendUrl
  <2>1. PICK text \in Texts : Sends("url", Plain, URL, text, text \o <<Separator>> \o text \o <<0>>, 4, 0, {})
    BY <1>7 DEF YSM_SendUrl
  <2>2. PICK data : data = text \o <<Separator>> \o text \o <<0>>
    BY Zenon
  <2>3. Payload("url", Plain, data) /\ Sends("url", Plain, URL, text, data, 4, 0, {})
    BY <2>1, <2>2, OtherPayload
  <2> QED
    BY <1>1, <1>6, <2>3, SendsPacked
<1>8. CASE YSM_SendContact
  <2>1. PICK text \in Texts : Sends("contacts", Plain, CONTACTS, text, <<49, Separator>> \o text, 4, 0, {})
    BY <1>8 DEF YSM_SendContact
  <2>2. PICK data : data = <<49, Separator>> \o text
    BY Zenon
  <2>3. Payload("contacts", Plain, data) /\ Sends("contacts", Plain, CONTACTS, text, data, 4, 0, {})
    BY <2>1, <2>2, OtherPayload
  <2> QED
    BY <1>1, <1>6, <2>3, SendsPacked
<1>9. CASE YSM_SendRTF
  <2>1. PICK slave \in Slaves, text \in Texts :
           Sends("rtf", slave, NORMAL, text, text \o <<0>>, 2, 0, {"NORM", "RTF"})
    BY <1>9 DEF YSM_SendRTF
  <2>2. PICK data : data = text \o <<0>>
    BY Zenon
  <2>3. Payload("rtf", slave, data) /\ Sends("rtf", slave, NORMAL, text, data, 2, 0, {"NORM", "RTF"})
    BY <2>1, <2>2, OtherPayload
  <2> QED
    BY <1>1, <2>3, SendsPacked
<1>10. CASE YSM_RequestAutoMessage
  <2>1. PICK slave \in Slaves, type \in Byte : Sends("auto", slave, type, <<>>, <<0>>, 2, AutoFlags, {"NORM"})
    BY <1>1, <1>10 DEF YSM_RequestAutoMessage
  <2>2. Payload("auto", slave, <<0>>)
    BY AutoPayload, Zenon
  <2> QED
    BY <1>1, <2>1, <2>2, SendsPacked
<1>11. CASE YSM_Scan_Slave
  <2>1. PICK slave \in Slaves : Sends("scan", slave, GETAWAY, <<>>, <<0, 1, 0>>, 2, ScanFlags, {})
    BY <1>11 DEF YSM_Scan_Slave
  <2>2. Payload("scan", slave, <<0, 1, 0>>)
    BY AutoPayload, Zenon
  <2> QED
    BY <1>1, <2>1, <2>2, SendsPacked
<1> QED
  BY <1>3, <1>4, <1>5, <1>7, <1>8, <1>9, <1>10, <1>11

-----------------------------------------------------------------------------

-----------------------------------------------------------------------------
\* What is on its way was packed whole.
PackInv == stage = "sent" => Packed(job, bs)

LEMMA PackInit == MsgInit => PackInv
  BY DEF MsgInit, PackInv

\* Nothing but a command sends; the next stage comes before the next command.
LEMMA PackStep == PackInv /\ [MsgNext]_msgVars => PackInv'
<1> SUFFICES ASSUME PackInv, [MsgNext]_msgVars
             PROVE  PackInv'
  OBVIOUS
<1>1. CASE \/ cmdMSG_main \/ cmdMPLAIN \/ YSM_DoChatCommand
           \/ YSM_SendUrl \/ YSM_SendContact \/ YSM_SendRTF
           \/ YSM_RequestAutoMessage \/ YSM_Scan_Slave
  BY <1>1, CommandsPack DEF PackInv
<1>2. CASE Relays \/ SomebodyWrites
  BY <1>2 DEF Relays, SomebodyWrites, PackInv
<1>3. CASE receiveMessage \/ OfflineMessage
  BY <1>3 DEF receiveMessage, OfflineMessage, PackInv
<1>4. CASE YSM_ReceiveMessageType1 \/ NextInner
  <2>1. stage' # "sent"
    BY <1>4 DEF YSM_ReceiveMessageType1, NextInner, Unread
  <2> QED
    BY <2>1 DEF PackInv
<1>5. CASE YSM_ReceiveMessageType2 \/ Next2711
  <2>1. ASSUME NEW b, YSM_ReceiveMessageType2Common(b)
        PROVE  stage' # "sent"
    BY <2>1 DEF YSM_ReceiveMessageType2Common
  <2>2. stage' # "sent"
    BY <1>5, <2>1 DEF YSM_ReceiveMessageType2, Next2711, Unread
  <2> QED
    BY <2>2 DEF PackInv
<1>6. CASE YSM_ReceiveMessageType4
  BY <1>6 DEF YSM_ReceiveMessageType4, Unread, PackInv
<1>7. CASE YSM_ReceiveMessageData \/ NextMessage
  BY <1>7 DEF YSM_ReceiveMessageData, NextMessage, PackInv
<1>8. CASE UNCHANGED msgVars
  BY <1>8 DEF msgVars, PackInv
<1> QED
  BY <1>1, <1>2, <1>3, <1>4, <1>5, <1>6, <1>7, <1>8 DEF MsgNext

LEMMA PackAlways == MsgSpec => []PackInv
<1>1. MsgInit => PackInv
  BY PackInit
<1>2. PackInv /\ [MsgNext]_msgVars => PackInv'
  BY PackStep
<1> QED
  BY <1>1, <1>2, PTL DEF MsgSpec

Inward(j, outer) == Behind(Within(outer, 4, 4), (10 + Len(Capability(j.flags))) + 14)
Nest2J(j, outer) == Nest2(j.slave, j.type, j.flags, j.send, j.data, outer, Within(outer, 4, 4), Inward(j, outer))

LEMMA OwnNests ==
  ASSUME NEW j, j.slave \in Slaves, j.type \in Byte, j.flags \in Byte, j.data \in Str, Modest(j.data),
         NEW outer, outer = Outer(j)
  PROVE  /\ j.format = 1 => Nest1(j.slave, j.data, outer, Within(outer, 4, 4))
         /\ j.format = 2 => Nest2J(j, outer)
         /\ j.format = 4 => Nest4(j.type, j.data, outer, Within(outer, 4, 4))
<1>1. PICK slave, type, flags, send, data :
        /\ slave = j.slave /\ type = j.type /\ flags = j.flags /\ send = j.send /\ data = j.data
        /\ slave \in Slaves /\ type \in Byte /\ flags \in Byte /\ data \in Str /\ Modest(data)
  BY Zenon
<1>2. ASSUME j.format = 1
      PROVE  Nest1(slave, data, outer, Within(outer, 4, 4))
  <2>1. outer = Outer1(slave, data)
    BY <1>1, <1>2 DEF Outer
  <2>2. slave.utf8 \in BOOLEAN
    BY <1>1 DEF Slaves
  <2> QED
    BY <1>1, <2>1, <2>2, Nests1
<1>3. ASSUME j.format = 2
      PROVE  Nest2(slave, type, flags, send, data, outer, Within(outer, 4, 4),
                   Behind(Within(outer, 4, 4), (10 + Len(Capability(flags))) + 14))
  <2>1. outer = Outer2(slave, type, flags, send, data)
    BY <1>1, <1>3 DEF Outer
  <2> QED
    BY <1>1, <2>1, Nests2
<1>4. ASSUME j.format = 4
      PROVE  Nest4(type, data, outer, Within(outer, 4, 4))
  <2>1. outer = Outer4(type, data)
    BY <1>1, <1>4 DEF Outer
  <2> QED
    BY <1>1, <2>1, Nests4
<1> QED
  BY <1>1, <1>2, <1>3, <1>4 DEF Nest2J, Inward

LEMMA PackedNests == PackInv => BodyNests
<1> DEFINE outer == Behind(bs.data, HeadLen)
           body == Within(outer, 4, 4)
<1> SUFFICES ASSUME PackInv, stage = "sent"
             PROVE  CASE job.format = 1 -> Nest1(job.slave, job.data, outer, body)
                      [] job.format = 2 -> Nest2J(job, outer)
                      [] job.format = 4 -> Nest4(job.type, job.data, outer, body)
  <2>1. PackInv /\ stage = "sent" => (job.how = "scan" <=> job.flags = ScanFlags)
    BY DEF PackInv, Packed, Own
  <2> QED
    BY <2>1, Zenon DEF BodyNests, Nest1, Nest2, Nest4, Nest2J, Inward
<1>1. Own(job) /\ Holding(bs, OwnHead(job.format), Outer(job))
  BY DEF PackInv, Packed
<1>2. /\ job.slave \in Slaves /\ job.type \in Byte /\ job.flags \in Byte /\ job.format \in {1, 2, 4}
      /\ job.data \in Str /\ Modest(job.data)
  BY <1>1 DEF Own, Payload
<1>3. outer = Outer(job)
  <2>1. PICK f, h, o : f = job.format /\ h = OwnHead(f) /\ o = Outer(job)
    BY Zenon
  <2>2. bs.data = Join(h, o) /\ o \in Str
    BY <1>1, <2>1 DEF Holding
  <2>3. Sized(h, HeadLen)
    <3>1. f \in Nat
      BY <1>2, <2>1
    <3> QED
      BY <2>1, <3>1, OwnHeadBuilt
  <2>4. Behind(Join(h, o), HeadLen) = o
    BY <2>2, <2>3, Behinds, Zenon
  <2> QED
    BY <2>1, <2>2, <2>4
<1>4. PICK o : o = outer
  BY Zenon
<1> HIDE DEF outer
<1>5. /\ job.format = 1 => Nest1(job.slave, job.data, o, Within(o, 4, 4))
      /\ job.format = 2 => Nest2J(job, o)
      /\ job.format = 4 => Nest4(job.type, job.data, o, Within(o, 4, 4))
  <2>1. o = Outer(job)
    BY <1>3, <1>4
  <2> QED
    BY <1>2, <2>1, OwnNests, Zenon
<1> QED
  BY <1>2, <1>4, <1>5

LEMMA PackedClear == PackInv => NeverClear
  BY DEF PackInv, Packed, Own, Payload, Secret, NeverClear

\* The lengths filled in around a message nest, whatever its text, its type
\* and its format: sendMessage2Client leaves every TLV as long as what it holds.
THEOREM LengthsNest == MsgSpec => []BodyNests
<1>1. PackInv => BodyNests
  BY PackedNests
<1> QED
  BY <1>1, PackAlways, PTL

\* No message that 'msg' sends to a contact with a key is in clear, and none
\* is longer than the limit of YSM_EncryptAnyData, whatever its text.
THEOREM KeyKept == MsgSpec => []NeverClear
<1>1. PackInv => NeverClear
  BY PackedClear
<1> QED
  BY <1>1, PackAlways, PTL

-----------------------------------------------------------------------------
\* Reading what stands before the reader.

LEMMA Onward ==
  ASSUME NEW b, NEW x \in Str, NEW e \in Str, Before(b, Join(x, e)), NEW n, Len(x) = n, NEW c, Passed(b, c, n)
  PROVE  Before(c, e)
<1>1. Fits(b) /\ ~b.fault /\ Stands(b.data, b.ptr, x \o e) /\ Len(b.data) = b.ptr + Len(Join(x, e))
  BY DEF Before, Join
<1>2. b.data \in Seq(Octet) /\ b.ptr \in Nat /\ x \in Seq(Octet) /\ e \in Seq(Octet)
  BY <1>1 DEF Fits, Stream, Str
<1>3. Stands(b.data, b.ptr + Len(x), e)
  BY <1>1, <1>2, AtParts, Zenon
<1>4. Fits(c) /\ c.data = b.data /\ c.ptr = b.ptr + n /\ c.fault = b.fault
  BY DEF Passed, Kept
<1>5. Stands(c.data, c.ptr, e)
  BY <1>3, <1>4
<1>6. Len(Join(x, e)) = Len(x) + Len(e) /\ Len(x) \in Nat /\ Len(e) \in Nat
  BY JoinStr, Zenon
<1>7. Len(c.data) = c.ptr + Len(e)
  BY <1>1, <1>2, <1>4, <1>6
<1> QED
  BY <1>1, <1>4, <1>5, <1>7 DEF Before

LEMMA Ahead ==
  ASSUME NEW b, NEW x \in Str, NEW e \in Str, Before(b, Join(x, e))
  PROVE  Fits(b) /\ Stands(b.data, b.ptr, x) /\ x \in Seq(Octet)
<1>1. Fits(b) /\ ~b.fault /\ Stands(b.data, b.ptr, x \o e)
  BY DEF Before, Join
<1>2. b.data \in Seq(Octet) /\ b.ptr \in Nat /\ x \in Seq(Octet) /\ e \in Seq(Octet)
  BY <1>1 DEF Fits, Stream, Str
<1>3. Stands(b.data, b.ptr, x)
  BY <1>1, <1>2, AtParts, Zenon
<1> QED
  BY <1>1, <1>2, <1>3, Zenon

LEMMA ReadsBytes ==
  ASSUME NEW b, NEW x, NEW n, Sized(x, n), NEW e \in Str, Before(b, Join(x, e))
  PROVE  Before(bsRead(b, n).bs, e) /\ bsRead(b, n).bytes = x
<1>1. x \in Str /\ Len(x) = n
  BY DEF Sized
<1>2. Fits(b) /\ Stands(b.data, b.ptr, x) /\ x \in Seq(Octet)
  BY <1>1, Ahead, Zenon
<1>3. Passed(b, bsRead(b, Len(x)).bs, Len(x)) /\ bsRead(b, Len(x)).bytes = x
  BY <1>2, ReadsAt, Zenon
<1>4. PICK c : c = bsRead(b, Len(x)).bs
  BY Zenon
<1>5. Before(c, e)
  BY <1>1, <1>3, <1>4, Onward
<1> QED
  BY <1>1, <1>3, <1>4, <1>5

LEMMA ReadsByte ==
  ASSUME NEW b, NEW v \in Byte, NEW e \in Str, Before(b, Join(<<v>>, e))
  PROVE  Before(bsReadByte(b).bs, e) /\ bsReadByte(b).value = v
<1>1. Sized(<<v>>, 1)
  BY Octets, SmallStrs, Zenon
<1>2. <<v>> \in Str /\ Len(<<v>>) = 1
  BY <1>1, Zenon DEF Sized
<1>3. Fits(b) /\ Stands(b.data, b.ptr, <<v>>)
  BY <1>2, Ahead, Zenon
<1>4. Passed(b, bsReadByte(b).bs, 1) /\ bsReadByte(b).value = v
  BY <1>3, ByteReadAt, Zenon
<1> QED
  BY <1>2, <1>4, Onward, Zenon

LEMMA ReadsWord ==
  ASSUME NEW b, NEW v \in Word, NEW e \in Str, Before(b, Join(Word_2_Charsb(v), e))
  PROVE  Before(bsReadWord(b).bs, e) /\ bsReadWord(b).value = v
<1>1. v \in Nat
  BY BytesAreNumbers, Zenon
<1>2. Word_2_Charsb(v) \in Str /\ Len(Word_2_Charsb(v)) = 2
  BY <1>1, WordStr, Zenon DEF Sized
<1>3. Fits(b) /\ Stands(b.data, b.ptr, Word_2_Charsb(v))
  BY <1>2, Ahead, Zenon
<1>4. Passed(b, bsReadWord(b).bs, 2) /\ bsReadWord(b).value = v
  BY <1>3, WordReadAt, Zenon
<1> QED
  BY <1>2, <1>4, Onward, Zenon

LEMMA ReadsWordLE ==
  ASSUME NEW b, NEW v \in Word, NEW e \in Str, Before(b, Join(Word_2_Chars(v), e))
  PROVE  Before(bsReadWordLE(b).bs, e) /\ bsReadWordLE(b).value = v
<1>1. v \in Nat
  BY BytesAreNumbers, Zenon
<1>2. Word_2_Chars(v) \in Str /\ Len(Word_2_Chars(v)) = 2
  BY <1>1, WordStr, Zenon DEF Sized
<1>3. Fits(b) /\ Stands(b.data, b.ptr, Word_2_Chars(v))
  BY <1>2, Ahead, Zenon
<1>4. Passed(b, bsReadWordLE(b).bs, 2) /\ bsReadWordLE(b).value = v
  BY <1>3, WordLEReadAt, Zenon
<1> QED
  BY <1>2, <1>4, Onward, Zenon

LEMMA ReadsHead ==
  ASSUME NEW b, NEW type \in Word, NEW n \in Word, NEW e \in Str, Before(b, Join(HeadOf(type, n), e))
  PROVE  Before(bsReadTlv(b).bs, e) /\ bsReadTlv(b).type = type /\ bsReadTlv(b).len = n
<1>1. type \in Nat /\ n \in Nat
  BY BytesAreNumbers, Zenon
<1>2. HeadOf(type, n) \in Str /\ Len(HeadOf(type, n)) = 4
  BY <1>1, HeadStr, Zenon DEF Sized
<1>3. Fits(b) /\ Stands(b.data, b.ptr, HeadOf(type, n))
  BY <1>2, Ahead, Zenon
<1>4. Passed(b, bsReadTlv(b).bs, 4) /\ bsReadTlv(b).type = type /\ bsReadTlv(b).len = n
  BY <1>3, TlvReadAt, Zenon DEF HeadOf
<1> QED
  BY <1>2, <1>4, Onward, Zenon

\* A reader that has not run past the end; and one that went on from another.
Safe(b) == Fits(b) /\ ~b.fault /\ b.ptr <= end(b)
Goes(b, c) == Safe(c) /\ Kept(b, c)

LEMMA SafeNumbers ==
  ASSUME NEW b, Safe(b)
  PROVE  b \in Stream /\ Fits(b) /\ ~b.fault /\ b.data \in Seq(Octet) /\ b.ptr \in Nat /\ end(b) \in Nat /\ b.len \in Nat
         /\ end(b) = Len(b.data) /\ b.ptr <= end(b) /\ end(b) <= b.len
<1>1. b \in Stream /\ end(b) <= b.len /\ Fits(b) /\ ~b.fault /\ b.ptr <= end(b)
  BY DEF Safe, Fits
<1>2. b.data \in Seq(Octet) /\ b.ptr \in Nat /\ b.len \in Nat
  BY <1>1 DEF Stream
<1>3. Len(b.data) \in Nat
  BY <1>2, LenProperties, Zenon
<1> QED
  BY <1>1, <1>2, <1>3 DEF end

LEMMA BeforeSafe ==
  ASSUME NEW b, NEW s, Before(b, s)
  PROVE  Safe(b) /\ end(b) = b.ptr + Len(s) /\ Len(s) \in Nat
<1>1. Fits(b) /\ ~b.fault /\ s \in Str /\ Len(b.data) = b.ptr + Len(s)
  BY DEF Before
<1>2. Len(s) \in Nat /\ b.ptr \in Nat
  BY <1>1, StrNat DEF Fits, Stream
<1> QED
  BY <1>1, <1>2 DEF Safe, end

\* A seek to where there is something.
LEMMA SafeSeek ==
  ASSUME NEW b, NEW c, Goes(b, c), NEW p \in Nat, p <= end(b), NEW d, d = bsSeek(c, p)
  PROVE  Goes(b, d) /\ d.ptr = p /\ d.fault = c.fault /\ (Safe(b) => d.fault = b.fault)
<1>1. c \in Stream /\ Fits(c) /\ ~c.fault /\ c.len \in Nat /\ end(c) \in Nat /\ end(c) <= c.len
  BY SafeNumbers DEF Goes
<1>2. c.data = b.data /\ c.len = b.len /\ end(c) = end(b)
  BY DEF Goes, Kept, end
<1>3. d = [c EXCEPT !.ptr = p]
  BY <1>1, <1>2 DEF bsSeek
<1>4. d \in Stream /\ d.data = c.data /\ d.len = c.len /\ d.ptr = p /\ d.fault = c.fault
  BY <1>1, <1>3 DEF Stream
<1>5. Safe(b) => b.fault = c.fault
  BY <1>1 DEF Safe, Fits, Stream
<1> QED
  BY <1>1, <1>2, <1>4, <1>5 DEF Goes, Kept, Safe, Fits, end

\* What is skipped is there, so that the seek is within the allocation.
LEMMA Sought ==
  ASSUME NEW b, NEW x, NEW n, Sized(x, n), NEW e \in Str, Before(b, Join(x, e)), NEW c, Goes(b, c)
  PROVE  Before(bsSeek(c, b.ptr + n), e) /\ bsSeek(c, b.ptr + n).ptr = b.ptr + n /\ n \in Nat /\ b.ptr \in Nat
<1>1. x \in Str /\ Len(x) = n /\ n \in Nat
  BY StrNat DEF Sized
<1>2. Safe(b) /\ end(b) = b.ptr + Len(Join(x, e)) /\ Len(Join(x, e)) = Len(x) + Len(e) /\ Len(e) \in Nat
  BY <1>1, BeforeSafe, JoinStr
<1>3. b.ptr \in Nat
  BY <1>2, SafeNumbers
<1>4. PICK p, d : p = b.ptr + n /\ d = bsSeek(c, p)
  BY Zenon
<1>5. p \in Nat /\ p <= end(b)
  BY <1>1, <1>2, <1>3, <1>4
<1>6. Goes(b, d) /\ d.ptr = p /\ d.fault = b.fault
  BY <1>2, <1>4, <1>5, SafeSeek
<1>7. Passed(b, d, n)
  BY <1>4, <1>6 DEF Passed, Goes
<1>8. Before(d, e)
  BY <1>1, <1>7, Onward, Zenon
<1> QED
  BY <1>1, <1>3, <1>4, <1>6, <1>8

LEMMA Stays ==
  ASSUME NEW b, Safe(b)
  PROVE  Goes(b, b)
  BY DEF Goes, Kept, Safe

LEMMA Skips ==
  ASSUME NEW b, NEW x, NEW n, Sized(x, n), NEW e \in Str, Before(b, Join(x, e))
  PROVE  Before(Skip(b, n), e) /\ Skip(b, n).ptr = b.ptr + n
<1>1. Goes(b, b)
  BY BeforeSafe, Stays, Zenon
<1> QED
  BY <1>1, Sought, Zenon DEF Skip

\* Reading goes no further than there is, whatever is read.
LEMMA SafeRead ==
  ASSUME NEW a, NEW b, Goes(a, b), NEW n \in Nat
  PROVE  Goes(a, bsRead(b, n).bs)
<1> DEFINE got == Min({n, end(b) - b.ptr})
           rd == bsRead(b, n)
<1>1. Fits(b) /\ ~b.fault /\ b.ptr <= end(b) /\ b \in Stream /\ end(b) \in Nat /\ b.ptr \in Nat
  BY SafeNumbers DEF Goes
<1>2. b.data = a.data /\ b.len = a.len
  BY DEF Goes, Kept
<1>3. got = (IF n <= end(b) - b.ptr THEN n ELSE end(b) - b.ptr)
  BY <1>1, LeastOfTwo
<1>4. rd.bs = IF got < 0 THEN [b EXCEPT !.fault = TRUE] ELSE [b EXCEPT !.ptr = @ + got]
  BY DEF bsRead
<1> HIDE DEF got, rd
<1>5. got \in Nat /\ b.ptr + got <= end(b) /\ ~(got < 0)
  BY <1>1, <1>3
<1>6. PICK p \in Nat : p = b.ptr + got
  BY <1>1, <1>5
<1>7. rd.bs = [b EXCEPT !.ptr = p]
  BY <1>4, <1>5, <1>6
<1>8. PICK c : c = rd.bs
  BY Zenon
<1>9. c \in Stream /\ c.data = b.data /\ c.len = b.len /\ c.ptr = p /\ c.fault = b.fault
  BY <1>1, <1>7, <1>8 DEF Stream
<1>10. Goes(a, c)
  BY <1>1, <1>2, <1>5, <1>6, <1>9 DEF Goes, Kept, Safe, Fits, end
<1> QED
  BY <1>8, <1>10 DEF rd

LEMMA SafeReads ==
  ASSUME NEW a, NEW b, Goes(a, b)
  PROVE  /\ Goes(a, bsReadByte(b).bs) /\ bsReadByte(b).value \in Nat
         /\ Goes(a, bsReadWord(b).bs) /\ bsReadWord(b).value \in Nat
         /\ Goes(a, bsReadWordLE(b).bs) /\ bsReadWordLE(b).value \in Nat
<1>1. Fits(b)
  BY DEF Goes, Safe
<1>2. bsReadByte(b).value \in Octet /\ bsReadWord(b).value \in Nat /\ bsReadWordLE(b).value \in Nat
  BY <1>1, ByteReadAny, WordReadAny, Zenon
<1>3. bsReadByte(b).value \in Nat
  BY <1>2, Octets, Zenon
<1>4. 1 \in Nat /\ 2 \in Nat
  OBVIOUS
<1>5. Goes(a, bsRead(b, 1).bs) /\ Goes(a, bsRead(b, 2).bs)
  BY <1>4, SafeRead, Zenon
<1>6. bsReadByte(b).bs = bsRead(b, 1).bs /\ bsReadWord(b).bs = bsRead(b, 2).bs /\ bsReadWordLE(b).bs = bsRead(b, 2).bs
  BY DEF bsReadByte, bsReadWord, bsReadWordLE, Result
<1> QED
  BY <1>2, <1>3, <1>5, <1>6

LEMMA SafeTlv ==
  ASSUME NEW a, NEW b, Goes(a, b), NEW t, t = bsReadTlv(b)
  PROVE  Goes(a, t.bs) /\ t.type \in Nat /\ t.len \in Nat
<1>1. PICK w : w = bsReadWord(b)
  BY Zenon
<1>2. Goes(a, w.bs) /\ w.value \in Nat
  BY <1>1, SafeReads
<1>3. PICK l : l = bsReadWord(w.bs)
  BY Zenon
<1>4. Goes(a, l.bs) /\ l.value \in Nat
  BY <1>2, <1>3, SafeReads
<1>5. t = [bs |-> l.bs, type |-> w.value, len |-> l.value]
  BY <1>1, <1>3 DEF bsReadTlv
<1> QED
  BY <1>2, <1>4, <1>5

LEMMA SafeString ==
  ASSUME NEW a, NEW b, Goes(a, b), NEW n \in Nat
  PROVE  Goes(a, ReadToString(b, n).bs) /\ ReadToString(b, n).text = UpToZero(bsRead(b, n).bytes)
<1>1. Goes(a, bsRead(b, n).bs)
  BY SafeRead, Zenon
<1>2. PICK d : d = bsRead(b, n)
  BY Zenon
<1>3. ReadToString(b, n) = [bs |-> d.bs, text |-> UpToZero(d.bytes)]
  BY <1>2 DEF ReadToString
<1> QED
  BY <1>1, <1>2, <1>3

\* A stream that was filled at once, and is read from its start.
LEMMA Arrives ==
  ASSUME NEW s \in Str
  PROVE  Before(bsSeek(PutBytes(initBs, s), 0), s)
<1>1. Holding(initBs, <<>>, <<>>)
  <2>1. Sound(initBs) /\ initBs.data = <<>>
    BY EmptyStream, Zenon DEF Sound
  <2>2. <<>> \in Str
    BY SmallStrs, Zenon DEF Sized
  <2>3. Join(<<>>, <<>>) = <<>>
    BY <2>2, JoinEmpty, Zenon
  <2> QED
    BY <2>1, <2>2, <2>3 DEF Holding
<1>2. PICK b : b = PutBytes(initBs, s)
  BY Zenon
<1>3. Holding(b, <<>>, s)
  BY <1>1, <1>2, Firsts
<1>4. Join(<<>>, s) = s
  BY JoinEmpty, Zenon
<1>5. Fits(b) /\ ~b.fault /\ b.data = s
  BY <1>3, <1>4 DEF Holding, Sound, Writable
<1>6. b \in Stream /\ b.len \in Nat /\ Len(s) \in Nat
  BY <1>5, StrNat DEF Fits, Stream
<1>7. bsSeek(b, 0) = [b EXCEPT !.ptr = 0]
  BY <1>6 DEF bsSeek
<1>8. PICK c : c = bsSeek(b, 0)
  BY Zenon
<1>9. c \in Stream /\ c.data = b.data /\ c.len = b.len /\ c.ptr = 0 /\ c.fault = b.fault
  BY <1>6, <1>7, <1>8 DEF Stream
<1>10. Stands(s, 0, s)
  BY <1>6 DEF Stands
<1>11. Before(c, s)
  BY <1>5, <1>6, <1>9, <1>10 DEF Before, Fits, end
<1> QED
  BY <1>2, <1>8, <1>11

-----------------------------------------------------------------------------
\* The head the server puts before a message.

LEMMA Regrouped ==
  ASSUME NEW a \in Str, NEW b \in Str, NEW c \in Str, NEW d \in Str, NEW e \in Str
  PROVE  /\ Join(Join(Join(Join(a, b), c), d), e) = Join(a, Join(b, Join(c, Join(d, e))))
         /\ Join(Join(Join(a, b), c), d) \in Str /\ Join(a, Join(b, Join(c, Join(d, e)))) \in Str
<1>1. PICK p, q, s : p = Join(a, b) /\ q = Join(p, c) /\ s = Join(q, d)
  BY Zenon
<1>2. p \in Str
  BY <1>1, JoinStr
<1>3. q \in Str
  BY <1>1, <1>2, JoinStr
<1>4. s \in Str
  BY <1>1, <1>3, JoinStr
<1>5. PICK x, y, z : x = Join(d, e) /\ y = Join(c, x) /\ z = Join(b, y)
  BY Zenon
<1>6. x \in Str
  BY <1>5, JoinStr
<1>7. y \in Str
  BY <1>5, <1>6, JoinStr
<1>8. z \in Str
  BY <1>5, <1>7, JoinStr
<1>9. Join(a, z) \in Str
  BY <1>8, JoinStr
<1>10. Join(s, e) = Join(q, x)
  BY <1>1, <1>3, <1>5, JoinTwice
<1>11. Join(q, x) = Join(p, y)
  BY <1>1, <1>2, <1>5, <1>6, JoinTwice
<1>12. Join(p, y) = Join(a, z)
  BY <1>1, <1>5, <1>7, JoinTwice
<1> QED
  BY <1>1, <1>4, <1>5, <1>9, <1>10, <1>11, <1>12

LEMMA TwoTwo ==
  ASSUME NEW x \in Octet, NEW y \in Octet, NEW z \in Octet, NEW w \in Octet
  PROVE  Join(<<x, y>>, <<z, w>>) = <<x, y, z, w>>
<1>1. PICK p, q, e : p = <<x, y>> /\ q = <<z, w>> /\ e = <<x, y, z, w>>
  BY Zenon
<1>2. p \in Seq(Octet) /\ q \in Seq(Octet) /\ e \in Seq(Octet) /\ Len(p) = 2 /\ Len(q) = 2 /\ Len(e) = 4
  BY <1>1, SmallSeqs
<1>3. p[1] = x /\ p[2] = y /\ q[1] = z /\ q[2] = w /\ e[1] = x /\ e[2] = y /\ e[3] = z /\ e[4] = w
  BY <1>1
<1>4. PICK s : s = p \o q
  BY Zenon
<1>5. /\ s \in Seq(Octet) /\ Len(s) = Len(p) + Len(q)
      /\ \A i \in 1 .. Len(p) + Len(q) : s[i] = IF i <= Len(p) THEN p[i] ELSE q[i - Len(p)]
  <2>1. /\ p \o q \in Seq(Octet) /\ Len(p \o q) = Len(p) + Len(q)
        /\ \A i \in 1 .. Len(p) + Len(q) : (p \o q)[i] = IF i <= Len(p) THEN p[i] ELSE q[i - Len(p)]
    BY <1>2, Joined, Zenon
  <2> QED
    BY <2>1, <1>4, Zenon
<1>6. \A i \in 1 .. 4 : s[i] = IF i <= 2 THEN p[i] ELSE q[i - 2]
  BY <1>2, <1>5
<1>7. s[1] = p[1] /\ s[2] = p[2] /\ s[3] = q[1] /\ s[4] = q[2]
  BY <1>6
<1>8. \A i \in 1 .. 4 : i = 1 \/ i = 2 \/ i = 3 \/ i = 4
  OBVIOUS
<1>9. \A i \in 1 .. 4 : s[i] = e[i]
  BY <1>3, <1>7, <1>8
<1>10. Len(s) = 4
  BY <1>2, <1>5
<1>11. s = e
  BY <1>2, <1>5, <1>9, <1>10, SeqEqual
<1> QED
  BY <1>1, <1>4, <1>11, Zenon DEF Join

\* The two halves of the head.
FirstHalf(format) == Join(Join(Join(Zeros(8), Word_2_Charsb(format)), <<1>>), UIN)
SecondHalf == Join(Join(Join(Word_2_Charsb(0), Word_2_Charsb(1)), HeadOf(6, 4)), Zeros(4))

LEMMA HeadWords ==
  /\ Word_2_Charsb(0) = <<0, 0>> /\ Word_2_Charsb(1) = <<0, 1>>
  /\ Word_2_Charsb(4) = <<0, 4>> /\ Word_2_Charsb(5) = <<0, 5>> /\ Word_2_Charsb(6) = <<0, 6>>
<1>1. /\ (0 \div 256) % 256 = 0 /\ 0 % 256 = 0 /\ (1 \div 256) % 256 = 0 /\ 1 % 256 = 1
      /\ (4 \div 256) % 256 = 0 /\ 4 % 256 = 4 /\ (5 \div 256) % 256 = 0 /\ 5 % 256 = 5
      /\ (6 \div 256) % 256 = 0 /\ 6 % 256 = 6
  OBVIOUS
<1> QED
  BY <1>1 DEF Word_2_Charsb

LEMMA HeadPieces ==
  ASSUME NEW format \in Nat
  PROVE  /\ Sized(Zeros(8), 8) /\ Sized(Zeros(4), 4) /\ Sized(Word_2_Charsb(format), 2)
         /\ Sized(<< 1 >>, 1) /\ Sized(UIN, 1) /\ Sized(Word_2_Charsb(0), 2) /\ Sized(Word_2_Charsb(1), 2)
         /\ Sized(HeadOf(6, 4), 4)
<1>1. 8 \in Nat /\ 4 \in Nat /\ 0 \in Nat /\ 1 \in Nat /\ 6 \in Nat
  OBVIOUS
<1> QED
  BY <1>1, ZeroStr, WordStr, UinStr, HeadStr, Zenon

LEMMA HeadHalves ==
  ASSUME NEW format \in Nat
  PROVE  ServerHead(format) = Join(FirstHalf(format), SecondHalf)
<1>1. PICK a, b, c, d : a = Zeros(8) /\ b = Word_2_Charsb(format) /\ c = <<1>> /\ d = UIN
  BY Zenon
<1>2. PICK x, y, z, w, v : x = Zeros(2) /\ y = <<0, 1>> /\ z = <<0, 6, 0, 4>> /\ w = Zeros(4) /\ v = Join(Join(Join(a, b), c), d)
  BY Zenon
<1>3. Sized(a, 8) /\ Sized(b, 2) /\ Sized(c, 1) /\ Sized(d, 1) /\ Sized(w, 4)
  BY <1>1, <1>2, HeadPieces
<1>4. Sized(Word_2_Charsb(0), 2) /\ Sized(Word_2_Charsb(1), 2) /\ Sized(HeadOf(6, 4), 4)
  BY HeadPieces, Zenon
<1>5. x = Word_2_Charsb(0)
  <2>1. Zeros(2) = <<0, 0>>
    BY DEF Zeros
  <2> QED
    BY <1>2, <2>1, HeadWords
<1>6. y = Word_2_Charsb(1)
  BY <1>2, HeadWords
<1>7. z = HeadOf(6, 4)
  <2>0. 0 \in Octet /\ 6 \in Octet /\ 4 \in Octet
    BY DEF Octet, Cipher
  <2>1. <<0, 6>> \o <<0, 4>> = <<0, 6, 0, 4>>
    BY <2>0, TwoTwo, Zenon DEF Join
  <2>2. HeadOf(6, 4) = <<0, 6>> \o <<0, 4>>
    BY HeadWords, Zenon DEF HeadOf
  <2> QED
    BY <1>2, <2>1, <2>2, Zenon
<1>8. /\ a \in Str /\ b \in Str /\ c \in Str /\ d \in Str
      /\ x \in Str /\ y \in Str /\ z \in Str /\ w \in Str
  BY <1>3, <1>4, <1>5, <1>6, <1>7 DEF Sized
<1>9. v \in Str
  BY <1>2, <1>8, Regrouped
<1>10. ServerHead(format) = Join(Join(Join(Join(v, x), y), z), w)
  <2>1. Len(UIN) = 1
    BY UinStr, Zenon
  <2>2. ServerHead(format) = Zeros(8) \o Word_2_Charsb(format) \o <<1>> \o UIN
                             \o Zeros(2) \o <<0, 1>> \o <<0, 6, 0, 4>> \o Zeros(4)
    BY <2>1, Zenon DEF ServerHead
  <2> QED
    BY <2>2, <1>1, <1>2, Zenon DEF Join
<1>11. PICK s, t : s = Join(x, y) /\ t = Join(s, z)
  BY Zenon
<1>12. s \in Str /\ t \in Str
  BY <1>8, <1>11, JoinStr
<1>13. Join(Join(v, x), y) = Join(v, s)
  BY <1>8, <1>9, <1>11, JoinTwice
<1>14. Join(Join(v, s), z) = Join(v, t)
  BY <1>8, <1>9, <1>11, <1>12, JoinTwice
<1>15. Join(Join(v, t), w) = Join(v, Join(t, w))
  BY <1>8, <1>9, <1>12, JoinTwice
<1>16. v = FirstHalf(format)
  BY <1>1, <1>2 DEF FirstHalf
<1>17. Join(t, w) = SecondHalf
  BY <1>2, <1>5, <1>6, <1>7, <1>11 DEF SecondHalf
<1> QED
  BY <1>10, <1>13, <1>14, <1>15, <1>16, <1>17

\* The one TLV of the head is skipped.
After(b) == LET t == bsReadTlv(b) IN Skip(t.bs, t.len)

LEMMA SkipsOne ==
  ASSUME NEW b
  PROVE  SkipTlvs(b, 1) = After(b)
<1> DEFINE Good(f) == f = [n \in 0 .. 1 |-> IF n = 0 THEN b ELSE After(f[n - 1])]
           g == [n \in 0 .. 1 |-> IF n = 0 THEN b ELSE After(b)]
           f == CHOOSE h : Good(h)
<1>1. Good(g)
  <2>1. g[0] = b /\ g[1] = After(b)
    OBVIOUS
  <2>2. \A n \in 0 .. 1 : g[n] = IF n = 0 THEN b ELSE After(g[n - 1])
    <3> HIDE DEF g
    <3> QED
      BY <2>1
  <2>3. g = [n \in 0 .. 1 |-> g[n]]
    OBVIOUS
  <2> HIDE DEF g
  <2> QED
    BY <2>2, <2>3
<1>2. Good(f)
  <2> HIDE DEF Good, g
  <2> QED
    BY <1>1, Zenon
<1>3. SkipTlvs(b, 1) = f[1]
  BY Zenon DEF SkipTlvs, After
<1> HIDE DEF f
<1>4. f[1] = After(f[0]) /\ f[0] = b
  BY <1>2
<1> QED
  BY <1>3, <1>4

LEMMA ByteWord ==
  ASSUME NEW n \in Byte
  PROVE  n \in Word /\ n \in Nat
<1>1. n \in Nat /\ n < 65536
  BY DEF Byte
<1> QED
  BY <1>1, SmallWord

LEMMA OneTlvSkipped ==
  ASSUME NEW b, NEW e \in Str, Before(b, Join(HeadOf(6, 4), Join(Zeros(4), e))), NEW n, n = 1
  PROVE  Before(SkipTlvs(b, n), e)
<1>1. PICK k4, k6 : k4 = 4 /\ k6 = 6
  BY Zenon
<1>2. k4 \in Word /\ k6 \in Word /\ k4 \in Nat
  <2>1. k4 \in Byte /\ k6 \in Byte
    BY <1>1 DEF Byte
  <2> QED
    BY <2>1, ByteWord, Zenon
<1>3. PICK z : z = Zeros(k4)
  BY Zenon
<1>4. Sized(z, k4)
  BY <1>2, <1>3, ZeroStr
<1>5. z \in Str
  BY <1>4, Zenon DEF Sized
<1>6. Join(z, e) \in Str
  BY <1>5, JoinStr, Zenon
<1>7. Before(b, Join(HeadOf(k6, k4), Join(z, e)))
  BY <1>1, <1>3
<1>8. PICK t : t = bsReadTlv(b)
  BY Zenon
<1>9. Before(t.bs, Join(z, e)) /\ t.len = k4
  <2>1. Before(bsReadTlv(b).bs, Join(z, e)) /\ bsReadTlv(b).len = k4
    BY <1>2, <1>6, <1>7, ReadsHead, Zenon
  <2> QED
    BY <1>8, <2>1, Zenon
<1>10. Before(Skip(t.bs, k4), e)
  BY <1>4, <1>9, Skips, Zenon
<1>11. SkipTlvs(b, 1) = Skip(t.bs, t.len)
  <2>1. SkipTlvs(b, 1) = After(b)
    BY SkipsOne, Zenon
  <2> QED
    BY <1>8, <2>1, Zenon DEF After
<1> QED
  BY <1>9, <1>10, <1>11, Zenon

LEMMA FirstHalfRead ==
  ASSUME NEW format \in Word, NEW e \in Str, NEW b, Before(b, Join(FirstHalf(format), e))
  PROVE  LET w == bsReadWord(bsRead(b, 8).bs)
             u == bsReadByte(w.bs)
         IN w.value = format /\ Before(bsRead(u.bs, u.value).bs, e)
<1>1. format \in Nat
  BY BytesAreNumbers, Zenon
<1>2. PICK k1 : k1 = 1
  BY Zenon
<1>3. k1 \in Byte
  BY <1>2 DEF Byte
<1>4. PICK z8, wf, one : z8 = Zeros(8) /\ wf = Word_2_Charsb(format) /\ one = <<k1>>
  BY Zenon
<1>5. Sized(z8, 8) /\ Sized(wf, 2) /\ Sized(one, 1) /\ Sized(UIN, k1)
  BY <1>1, <1>2, <1>4, HeadPieces
<1>6. z8 \in Str /\ wf \in Str /\ one \in Str /\ UIN \in Str
  BY <1>5 DEF Sized
<1>7. PICK q4, q3, q2 : q4 = Join(UIN, e) /\ q3 = Join(one, q4) /\ q2 = Join(wf, q3)
  BY Zenon
<1>8. q4 \in Str
  BY <1>6, <1>7, JoinStr
<1>9. q3 \in Str
  BY <1>6, <1>7, <1>8, JoinStr
<1>10. q2 \in Str
  BY <1>6, <1>7, <1>9, JoinStr
<1>11. Before(b, Join(z8, q2))
  <2>1. Join(FirstHalf(format), e) = Join(z8, q2)
    BY <1>2, <1>4, <1>6, <1>7, Regrouped DEF FirstHalf
  <2> QED
    BY <2>1
<1>12. PICK b1 : b1 = bsRead(b, 8).bs
  BY Zenon
<1>13. Before(b1, q2)
  BY <1>5, <1>10, <1>11, <1>12, ReadsBytes
<1>14. PICK w : w = bsReadWord(b1)
  BY Zenon
<1>15. Before(w.bs, q3) /\ w.value = format
  BY <1>4, <1>7, <1>9, <1>13, <1>14, ReadsWord
<1>16. PICK u : u = bsReadByte(w.bs)
  BY Zenon
<1>17. Before(u.bs, q4) /\ u.value = k1
  BY <1>3, <1>4, <1>7, <1>8, <1>15, <1>16, ReadsByte
<1>18. Before(bsRead(u.bs, k1).bs, e)
  BY <1>5, <1>7, <1>17, ReadsBytes
<1> QED
  BY <1>12, <1>14, <1>15, <1>16, <1>17, <1>18, Zenon

LEMMA SecondHalfRead ==
  ASSUME NEW e \in Str, NEW b, Before(b, Join(SecondHalf, e))
  PROVE  LET c == bsReadWord(bsReadWord(b).bs)
         IN Before(SkipTlvs(c.bs, c.value), e)
<1>1. PICK k0, k1 : k0 = 0 /\ k1 = 1
  BY Zenon
<1>2. k0 \in Word /\ k1 \in Word
  <2>1. k0 \in Byte /\ k1 \in Byte
    BY <1>1 DEF Byte
  <2> QED
    BY <2>1, ByteWord, Zenon
<1>3. PICK z2, n1, h, z4 : z2 = Word_2_Charsb(k0) /\ n1 = Word_2_Charsb(k1) /\ h = HeadOf(6, 4) /\ z4 = Zeros(4)
  BY Zenon
<1>4. Sized(z2, 2) /\ Sized(n1, 2) /\ Sized(h, 4) /\ Sized(z4, 4)
  BY <1>1, <1>3, HeadPieces
<1>5. z2 \in Str /\ n1 \in Str /\ h \in Str /\ z4 \in Str
  BY <1>4 DEF Sized
<1>6. PICK r4, r3, r2 : r4 = Join(z4, e) /\ r3 = Join(h, r4) /\ r2 = Join(n1, r3)
  BY Zenon
<1>7. r4 \in Str
  BY <1>5, <1>6, JoinStr
<1>8. r3 \in Str
  BY <1>5, <1>6, <1>7, JoinStr
<1>9. r2 \in Str
  BY <1>5, <1>6, <1>8, JoinStr
<1>10. Before(b, Join(z2, r2))
  <2>1. Join(SecondHalf, e) = Join(z2, r2)
    BY <1>1, <1>3, <1>5, <1>6, Regrouped DEF SecondHalf
  <2> QED
    BY <2>1
<1>11. PICK v : v = bsReadWord(b)
  BY Zenon
<1>12. Before(v.bs, r2)
  BY <1>2, <1>3, <1>9, <1>10, <1>11, ReadsWord
<1>13. PICK c : c = bsReadWord(v.bs)
  BY Zenon
<1>14. Before(c.bs, r3) /\ c.value = k1
  BY <1>2, <1>3, <1>6, <1>8, <1>12, <1>13, ReadsWord
<1>15. Before(c.bs, Join(HeadOf(6, 4), Join(Zeros(4), e)))
  BY <1>3, <1>6, <1>14
<1>16. c.value = 1
  BY <1>1, <1>14
<1>17. Before(SkipTlvs(c.bs, c.value), e)
  BY <1>15, <1>16, OneTlvSkipped, Zenon
<1> QED
  BY <1>11, <1>13, <1>17, Zenon

LEMMA WholeHeadRead ==
  ASSUME NEW format \in Word, NEW e \in Str, NEW b, Before(b, Join(ServerHead(format), e))
  PROVE  LET w == bsReadWord(bsRead(b, 8).bs)
             u == bsReadByte(w.bs)
             v == bsReadWord(bsRead(u.bs, u.value).bs)
             c == bsReadWord(v.bs)
         IN w.value = format /\ Before(SkipTlvs(c.bs, c.value), e)
<1>1. format \in Nat
  BY BytesAreNumbers, Zenon
<1>2. PICK x, y : x = FirstHalf(format) /\ y = SecondHalf
  BY Zenon
<1>3. x \in Str /\ y \in Str
  <2>1. /\ Zeros(8) \in Str /\ Zeros(4) \in Str /\ Word_2_Charsb(format) \in Str /\ <<1>> \in Str /\ UIN \in Str
        /\ Word_2_Charsb(0) \in Str /\ Word_2_Charsb(1) \in Str /\ HeadOf(6, 4) \in Str
    BY <1>1, HeadPieces, Zenon DEF Sized
  <2>2. FirstHalf(format) \in Str
    BY <2>1, Regrouped, Zenon DEF FirstHalf
  <2>3. SecondHalf \in Str
    BY <2>1, Regrouped, Zenon DEF SecondHalf
  <2> QED
    BY <1>2, <2>2, <2>3
<1>4. Join(y, e) \in Str
  BY <1>3, JoinStr, Zenon
<1>5. Before(b, Join(x, Join(y, e)))
  <2>1. ServerHead(format) = Join(x, y)
    BY <1>1, <1>2, HeadHalves
  <2>2. Join(Join(x, y), e) = Join(x, Join(y, e))
    BY <1>3, JoinTwice, Zenon
  <2> QED
    BY <2>1, <2>2
<1>6. PICK w : w = bsReadWord(bsRead(b, 8).bs)
  BY Zenon
<1>7. PICK u : u = bsReadByte(w.bs)
  BY Zenon
<1>8. PICK b2 : b2 = bsRead(u.bs, u.value).bs
  BY Zenon
<1>9. Before(b, Join(FirstHalf(format), Join(SecondHalf, e))) /\ Join(SecondHalf, e) \in Str
  BY <1>2, <1>4, <1>5
<1>10. w.value = format /\ Before(b2, Join(SecondHalf, e))
  <2>1. LET ww == bsReadWord(bsRead(b, 8).bs)
            uu == bsReadByte(ww.bs)
        IN ww.value = format /\ Before(bsRead(uu.bs, uu.value).bs, Join(SecondHalf, e))
    BY <1>9, FirstHalfRead, Zenon
  <2> QED
    BY <1>6, <1>7, <1>8, <2>1, Zenon
<1>11. PICK v : v = bsReadWord(b2)
  BY Zenon
<1>12. PICK c : c = bsReadWord(v.bs)
  BY Zenon
<1>13. Before(SkipTlvs(c.bs, c.value), e)
  <2>1. LET cc == bsReadWord(bsReadWord(b2).bs)
        IN Before(SkipTlvs(cc.bs, cc.value), e)
    BY <1>10, SecondHalfRead, Zenon
  <2> QED
    BY <1>11, <1>12, <2>1, Zenon
<1> QED
  BY <1>6, <1>7, <1>8, <1>10, <1>11, <1>12, <1>13, Zenon

-----------------------------------------------------------------------------
\* What arrives.

LEMMA ServerHeadStr ==
  ASSUME NEW format \in Nat
  PROVE  ServerHead(format) \in Str
<1>1. /\ Zeros(8) \in Str /\ Zeros(4) \in Str /\ Word_2_Charsb(format) \in Str /\ <<1>> \in Str /\ UIN \in Str
      /\ Word_2_Charsb(0) \in Str /\ Word_2_Charsb(1) \in Str /\ HeadOf(6, 4) \in Str
  BY HeadPieces, Zenon DEF Sized
<1>2. FirstHalf(format) \in Str
  BY <1>1, Regrouped, Zenon DEF FirstHalf
<1>3. SecondHalf \in Str
  BY <1>1, Regrouped, Zenon DEF SecondHalf
<1>4. Join(FirstHalf(format), SecondHalf) \in Str
  BY <1>2, <1>3, JoinStr, Zenon
<1> QED
  BY <1>4, HeadHalves

\* Another client's message of format 4, and one that waited.
ForeignStart(type) == Join(<<49, 0, 0, 0>>, <<type, 0>>)
ForeignText(text) == Join(Word_2_Chars(Len(text) + 1), Join(text, << 0 >>))
ForeignBody(type, text) == Join(ForeignStart(type), ForeignText(text))
OfflineStart == Join(<<49, 0, 0, 0>>, Zeros(6))
OfflineText(text, last, said) == Join(Word_2_Charsb(said), Join(text, last))

LEMMA ForeignPieces ==
  ASSUME NEW type \in Byte, NEW text \in Letters
  PROVE  /\ Sized(<<49, 0, 0, 0>>, 4) /\ Sized(<<type, 0>>, 2) /\ Sized(<< 0 >>, 1) /\ Sized(Zeros(6), 6)
         /\ Sized(text, Len(text)) /\ Len(text) \in Nat /\ Brief(text)
         /\ Sized(Word_2_Chars(Len(text) + 1), 2) /\ Len(text) + 1 \in Word
<1>1. 49 \in Octet /\ 0 \in Octet /\ type \in Octet
  BY Octets DEF Octet, Cipher
<1>2. Sized(<<49, 0, 0, 0>>, 4) /\ Sized(<<type, 0>>, 2) /\ Sized(<<0>>, 1)
  BY <1>1, SmallStrs, Zenon
<1>3. Raw(text) /\ Brief(text)
  BY TextStr
<1>4. Sized(text, Len(text)) /\ Len(text) \in Nat
  BY <1>3, RawStr, ItsSize, Zenon
<1>5. Len(text) + 1 \in Nat /\ 6 \in Nat /\ Len(text) + 1 < 65536
  BY <1>3, <1>4 DEF Brief
<1>6. Sized(Zeros(6), 6)
  <2>1. PICK k \in Nat : k = 6
    OBVIOUS
  <2>2. Sized(Zeros(k), k)
    BY ZeroStr, Zenon
  <2> QED
    BY <2>1, <2>2
<1>7. PICK k \in Nat : k = Len(text) + 1
  BY <1>5
<1>8. Sized(Word_2_Chars(k), 2)
  BY WordStr, Zenon
<1>9. k \in Word
  BY <1>5, <1>7, SmallWord
<1> QED
  BY <1>2, <1>3, <1>4, <1>6, <1>7, <1>8, <1>9

LEMMA LastStr ==
  ASSUME NEW last \in Terminators
  PROVE  last \in Str /\ (last = <<>> \/ last = << 0 >>)
<1>1. 0 \in Octet
  BY DEF Octet, Cipher
<1>2. Sized(<<0>>, 1) /\ Sized(<<>>, 0)
  BY <1>1, SmallStrs, Zenon
<1>3. last = <<>> \/ last = <<0>>
  BY DEF Terminators
<1> QED
  BY <1>2, <1>3 DEF Sized

LEMMA ForeignSizes ==
  ASSUME NEW type \in Byte, NEW text \in Letters
  PROVE  /\ ForeignStart(type) \in Str /\ ForeignText(text) \in Str
         /\ ForeignBody(type, text) \in Str /\ Len(ForeignBody(type, text)) \in Word
<1>1. PICK a, t, z, w : a = <<49, 0, 0, 0>> /\ t = <<type, 0>> /\ z = <<0>> /\ w = Word_2_Chars(Len(text) + 1)
  BY Zenon
<1>2. Sized(a, 4) /\ Sized(t, 2) /\ Sized(z, 1) /\ Sized(w, 2) /\ Sized(text, Len(text)) /\ Len(text) \in Nat /\ Brief(text)
  BY <1>1, ForeignPieces
<1>3. Sized(Join(a, t), 4 + 2) /\ Sized(Join(text, z), Len(text) + 1)
  BY <1>2, JoinSized, Zenon
<1>4. Sized(Join(w, Join(text, z)), 2 + (Len(text) + 1))
  BY <1>2, <1>3, JoinSized, Zenon
<1>5. PICK b : b = Join(Join(a, t), Join(w, Join(text, z)))
  BY Zenon
<1>6. Sized(b, (4 + 2) + (2 + (Len(text) + 1)))
  BY <1>3, <1>4, <1>5, JoinSized
<1>7. b \in Str /\ Len(b) = (4 + 2) + (2 + (Len(text) + 1)) /\ Len(text) <= 30000
  BY <1>2, <1>6 DEF Sized, Brief
<1>8. Len(b) \in Nat /\ Len(b) < 65536
  BY <1>2, <1>7
<1>9. Len(b) \in Word
  BY <1>8, SmallWord
<1> QED
  BY <1>1, <1>3, <1>4, <1>5, <1>7, <1>9 DEF ForeignStart, ForeignText, ForeignBody, Sized

LEMMA ForeignArrives ==
  ASSUME NEW type \in Byte, NEW text \in Letters
  PROVE  Foreign4(type, text) =
            Join(ServerHead(4), Join(HeadOf(5, Len(ForeignBody(type, text))), ForeignBody(type, text)))
<1>1. PICK a, t, z, w, p : /\ a = <<49, 0, 0, 0>> /\ t = <<type, 0>> /\ z = <<0>> /\ w = Word_2_Chars(Len(text) + 1)
                           /\ p = Join(a, t)
  BY Zenon
<1>2. w \in Str /\ z \in Str /\ text \in Str /\ p \in Str
  BY <1>1, ForeignPieces, ForeignSizes DEF Sized, ForeignStart
<1>3. PICK b, h, k, n : /\ b = Join(Join(Join(p, w), text), z) /\ h = ServerHead(4) /\ k = Word_2_Charsb(5)
                        /\ n = Word_2_Charsb(Len(b))
  BY Zenon
<1>4. b = ForeignBody(type, text)
  <2>1. PICK s, e : s = Join(p, w) /\ e = Join(text, z)
    BY Zenon
  <2>2. s \in Str /\ e \in Str
    BY <1>2, <2>1, JoinStr
  <2>3. Join(Join(s, text), z) = Join(s, e)
    BY <1>2, <2>1, <2>2, JoinTwice
  <2>4. Join(s, e) = Join(p, Join(w, e))
    BY <1>2, <2>1, <2>2, JoinTwice
  <2> QED
    BY <1>1, <1>3, <2>1, <2>3, <2>4 DEF ForeignBody, ForeignStart, ForeignText
<1>5. b \in Str /\ Len(b) \in Nat
  BY <1>4, ForeignSizes, StrNat
<1>6. h \in Str /\ k \in Str /\ n \in Str
  <2>1. 4 \in Nat /\ 5 \in Nat
    OBVIOUS
  <2>2. ServerHead(4) \in Str /\ Word_2_Charsb(5) \in Str /\ Word_2_Charsb(Len(b)) \in Str
    BY <1>5, <2>1, ServerHeadStr, WordStr, Zenon DEF Sized
  <2> QED
    BY <1>3, <2>2
<1>7. Foreign4(type, text) = Join(Join(Join(h, k), n), b)
  <2>1. b = <<49, 0, 0, 0>> \o <<type, 0>> \o Word_2_Chars(Len(text) + 1) \o text \o <<0>>
    BY <1>1, <1>3, Zenon DEF Join
  <2>2. k = <<0, 5>>
    BY <1>3, HeadWords
  <2>3. Foreign4(type, text) = ((ServerHead(4) \o <<0, 5>>) \o Word_2_Charsb(Len(b))) \o b
    BY <2>1, Zenon DEF Foreign4
  <2> QED
    BY <1>3, <2>2, <2>3, Zenon DEF Join
<1>8. Join(k, n) \in Str
  BY <1>6, JoinStr, Zenon
<1>9. Join(Join(h, k), n) = Join(h, Join(k, n))
  BY <1>6, JoinTwice, Zenon
<1>10. Join(Join(h, Join(k, n)), b) = Join(h, Join(Join(k, n), b))
  BY <1>5, <1>6, <1>8, JoinTwice, Zenon
<1>11. Join(k, n) = HeadOf(5, Len(b))
  BY <1>3, Zenon DEF HeadOf, Join
<1> QED
  BY <1>3, <1>4, <1>7, <1>9, <1>10, <1>11

LEMMA OfflineArrives ==
  ASSUME NEW type \in Byte, NEW text \in Letters, NEW last \in Terminators, NEW said \in Nat
  PROVE  /\ Offline(type, text, last, said) = Join(Join(OfflineStart, <<type, 0>>), OfflineText(text, last, said))
         /\ OfflineText(text, last, said) \in Str /\ Join(text, last) \in Str /\ Sized(OfflineStart, 10)
         /\ Offline(type, text, last, said) \in Str
<1>1. PICK q, v, e : q = Join(OfflineStart, <<type, 0>>) /\ v = Word_2_Charsb(said) /\ e = Join(text, last)
  BY Zenon
<1>2. Sized(OfflineStart, 4 + 6) /\ Sized(Join(OfflineStart, <<type, 0>>), (4 + 6) + 2)
  <2>1. Sized(<<49, 0, 0, 0>>, 4) /\ Sized(Zeros(6), 6) /\ Sized(<<type, 0>>, 2)
    BY ForeignPieces, Zenon
  <2>2. Sized(OfflineStart, 4 + 6)
    BY <2>1, JoinSized, Zenon DEF OfflineStart
  <2> QED
    BY <2>1, <2>2, JoinSized, Zenon
<1>3. q \in Str /\ v \in Str /\ text \in Str /\ last \in Str
  <2>1. Sized(text, Len(text)) /\ Sized(Word_2_Charsb(said), 2)
    BY ForeignPieces, WordStr, Zenon
  <2> QED
    BY <1>1, <1>2, <2>1, LastStr DEF Sized
<1>4. e \in Str
  BY <1>1, <1>3, JoinStr
<1>5. PICK s : s = Join(q, v)
  BY Zenon
<1>6. s \in Str
  BY <1>3, <1>5, JoinStr
<1>7. Offline(type, text, last, said) = Join(Join(s, text), last)
  BY <1>1, <1>5, Zenon DEF Offline, OfflineStart, Join
<1>8. Join(Join(s, text), last) = Join(s, e)
  BY <1>1, <1>3, <1>6, JoinTwice
<1>9. Join(s, e) = Join(q, Join(v, e))
  BY <1>3, <1>4, <1>5, JoinTwice
<1>10. Join(v, e) \in Str
  BY <1>3, <1>4, JoinStr
<1>11. Join(q, Join(v, e)) \in Str
  BY <1>3, <1>10, JoinStr
<1> QED
  BY <1>1, <1>2, <1>4, <1>7, <1>8, <1>9, <1>10, <1>11 DEF OfflineText

-----------------------------------------------------------------------------
\* What is left to read of a message behind its head, and what arrives.
Rest(j) == IF j.how = "foreign" THEN Join(HeadOf(5, Len(ForeignBody(j.type, j.text))), ForeignBody(j.type, j.text))
           ELSE IF j.how = "odd" THEN j.data ELSE Outer(j)
Comes(j) == Own(j) \/ Foreign(j) \/ Odd(j)
Arriving ==
    \/ Comes(job) /\ job.format # 0 /\ Before(inBs, Join(ServerHead(job.format), Rest(job))) /\ Rest(job) \in Str
    \/ /\ Foreign(job) /\ job.format = 0
       /\ \E last \in Terminators : Before(inBs, Offline(job.type, job.text, last, job.said))

\* The server cuts our head off and puts its own before the rest.
LEMMA RelaysWhole ==
  ASSUME Packed(job, bs), Relays
  PROVE  Arriving'
<1>1. Own(job) /\ Holding(bs, OwnHead(job.format), Outer(job)) /\ job' = job
  BY DEF Packed, Relays
<1>2. job.format \in {1, 2, 4} /\ job.how \notin {"foreign", "odd"}
  BY <1>1 DEF Own
<1>3. PICK f, h, o : f = job.format /\ h = OwnHead(f) /\ o = Outer(job)
  BY Zenon
<1>4. f \in Nat /\ f # 0
  BY <1>2, <1>3
<1>5. bs.data = Join(h, o) /\ o \in Str
  BY <1>1, <1>3 DEF Holding
<1>6. Sized(h, HeadLen)
  BY <1>3, <1>4, OwnHeadBuilt
<1>7. Behind(Join(h, o), HeadLen) = o
  BY <1>5, <1>6, Behinds, Zenon
<1>8. SubSeq(bs.data, HeadLen + 1, end(bs)) = Behind(bs.data, HeadLen)
  BY Zenon DEF Behind, end
<1>9. PICK s : s = Join(ServerHead(f), o)
  BY Zenon
<1>10. s \in Str
  BY <1>4, <1>5, <1>9, ServerHeadStr, JoinStr
<1>11. inBs' = bsSeek(PutBytes(initBs, s), 0)
  <2>1. inBs' = bsSeek(PutBytes(initBs, Join(ServerHead(job.format), SubSeq(bs.data, HeadLen + 1, end(bs)))), 0)
    BY Zenon DEF Relays, Delivers, Join
  <2>2. SubSeq(bs.data, HeadLen + 1, end(bs)) = o
    BY <1>5, <1>7, <1>8
  <2> QED
    BY <1>3, <1>9, <2>1, <2>2
<1>12. Before(inBs', s)
  BY <1>10, <1>11, Arrives
<1>13. Rest(job) = o
  BY <1>2, <1>3 DEF Rest
<1> QED
  BY <1>1, <1>3, <1>4, <1>5, <1>9, <1>12, <1>13 DEF Arriving, Comes

LEMMA OddStr ==
  ASSUME NEW body \in Garbled
  PROVE  Raw(body) /\ body \in Str
<1>1. body \in Seq(0 .. 255)
  BY TextsAssumption
<1>2. Raw(body)
  BY <1>1 DEF Raw, Byte
<1> QED
  BY <1>2, RawStr, Zenon

LEMMA SaidWord ==
  ASSUME NEW text \in Letters, NEW last \in Terminators, NEW n, n = Len(text \o last)
  PROVE  n \in Word /\ Swapped(n) \in Word /\ Len(text) \in Word
<1>1. Len(text) \in Nat /\ Len(text) <= 30000 /\ text \in Str
  <2>1. Sized(text, Len(text)) /\ Len(text) \in Nat /\ Brief(text)
    BY TextStr, RawStr, ItsSize
  <2> QED
    BY <2>1 DEF Brief, Sized
<1>2. last \in Str /\ Len(last) \in {0, 1}
  <2>1. last \in Str /\ (last = <<>> \/ last = <<0>>)
    BY LastStr, Zenon
  <2> QED
    BY <2>1
<1>3. n = Len(text) + Len(last)
  <2>1. Len(Join(text, last)) = Len(text) + Len(last)
    BY <1>1, <1>2, JoinStr
  <2> QED
    BY <2>1, Zenon DEF Join
<1>4. n \in Nat /\ n < 65536 /\ Len(text) < 65536
  <2>1. PICK k, m : k = Len(text) /\ m = Len(last)
    BY Zenon
  <2>2. k \in Nat /\ k <= 30000 /\ m \in {0, 1} /\ n = k + m
    BY <1>1, <1>2, <1>3, <2>1
  <2>3. n \in Nat /\ n < 65536 /\ k < 65536
    BY <2>2
  <2> QED
    BY <2>1, <2>3
<1>5. \A k \in Int : k % 256 \in 0 .. 255
  OBVIOUS
<1>6. n % 256 \in 0 .. 255 /\ (n \div 256) % 256 \in 0 .. 255
  <2>1. n \in Int /\ n \div 256 \in Int
    BY <1>4
  <2> QED
    BY <1>5, <2>1
<1>7. Swapped(n) \in Nat /\ Swapped(n) < 65536
  BY <1>6 DEF Swapped
<1> QED
  BY <1>1, <1>4, <1>7, SmallWord

LEMMA SomebodyWhole ==
  ASSUME SomebodyWrites
  PROVE  Arriving'
<1>1. \A type \in {NORMAL, URL, AUTH, ADDED} : type \in Byte
  BY DEF NORMAL, URL, AUTH, ADDED, Byte
<1>2. CASE \E type \in {NORMAL, URL, AUTH, ADDED}, text \in Letters :
              /\ job' = [how |-> "foreign", type |-> type, text |-> text, format |-> 4, said |-> Len(text)]
              /\ Delivers(Foreign4(type, text))
  <2>1. PICK type \in Byte, text \in Letters :
              /\ job' = [how |-> "foreign", type |-> type, text |-> text, format |-> 4, said |-> Len(text)]
              /\ Delivers(Foreign4(type, text))
    BY <1>1, <1>2
  <2>2. /\ job'.how = "foreign" /\ job'.type = type /\ job'.text = text /\ job'.format = 4
        /\ job'.said = Len(text)
    BY <2>1
  <2>3. Len(text) \in Word
    <3>1. <<>> \in Terminators
      BY DEF Terminators
    <3> QED
      BY <3>1, SaidWord, Zenon
  <2>4. Foreign(job')
    BY <2>2, <2>3 DEF Foreign
  <2>5. PICK x : x = Rest(job')
    BY Zenon
  <2>6. x = Join(HeadOf(5, Len(ForeignBody(type, text))), ForeignBody(type, text))
    BY <2>2, <2>5 DEF Rest
  <2>7. x \in Str
    <3>1. 5 \in Nat /\ Len(ForeignBody(type, text)) \in Nat
      BY ForeignSizes, BytesAreNumbers, Zenon
    <3>2. HeadOf(5, Len(ForeignBody(type, text))) \in Str
      BY <3>1, HeadStr, Zenon DEF Sized
    <3> QED
      BY <2>6, <3>2, ForeignSizes, JoinStr
  <2>8. PICK s : s = Join(ServerHead(4), x)
    BY Zenon
  <2>9. s \in Str /\ s = Foreign4(type, text)
    <3>1. 4 \in Nat
      OBVIOUS
    <3>2. ServerHead(4) \in Str
      BY <3>1, ServerHeadStr, Zenon
    <3> QED
      BY <2>6, <2>7, <2>8, <3>2, ForeignArrives, JoinStr
  <2>10. inBs' = bsSeek(PutBytes(initBs, s), 0)
    BY <2>1, <2>9, Zenon DEF Delivers
  <2>11. Before(inBs', s)
    BY <2>9, <2>10, Arrives
  <2> QED
    BY <2>2, <2>4, <2>5, <2>7, <2>8, <2>11 DEF Arriving, Comes
<1>3. CASE \E type \in {NORMAL, URL, AUTH, ADDED}, text \in Letters, last \in Terminators, swap \in BOOLEAN :
              LET n == Len(text \o last)
                  said == IF swap THEN Swapped(n) ELSE n
              IN /\ job' = [how |-> "foreign", type |-> type, text |-> text, format |-> 0, said |-> said]
                 /\ Delivers(Offline(type, text, last, said))
  <2>1. PICK type \in Byte, text \in Letters, last \in Terminators, swap \in BOOLEAN :
              LET n == Len(text \o last)
                  said == IF swap THEN Swapped(n) ELSE n
              IN /\ job' = [how |-> "foreign", type |-> type, text |-> text, format |-> 0, said |-> said]
                 /\ Delivers(Offline(type, text, last, said))
    BY <1>1, <1>3
  <2>2. PICK said \in Word : /\ job' = [how |-> "foreign", type |-> type, text |-> text, format |-> 0, said |-> said]
                             /\ Delivers(Offline(type, text, last, said))
    BY <2>1, SaidWord
  <2>3. /\ job'.how = "foreign" /\ job'.type = type /\ job'.text = text /\ job'.format = 0
        /\ job'.said = said
    BY <2>2
  <2>4. Foreign(job')
    BY <2>3 DEF Foreign
  <2>5. PICK s : s = Offline(type, text, last, said)
    BY Zenon
  <2>6. s \in Str
    BY <2>5, OfflineArrives, BytesAreNumbers
  <2>7. inBs' = bsSeek(PutBytes(initBs, s), 0)
    BY <2>2, <2>5, Zenon DEF Delivers
  <2>8. Before(inBs', s)
    BY <2>6, <2>7, Arrives
  <2> QED
    BY <2>3, <2>4, <2>5, <2>8 DEF Arriving
<1>4. CASE \E body \in Garbled, format \in {1, 2, 4} :
              /\ job' = [how |-> "odd", data |-> body, format |-> format]
              /\ Delivers(ServerHead(format) \o body)
  <2>1. PICK body \in Garbled, format \in {1, 2, 4} :
              /\ job' = [how |-> "odd", data |-> body, format |-> format]
              /\ Delivers(ServerHead(format) \o body)
    BY <1>4
  <2>2. job'.how = "odd" /\ job'.data = body /\ job'.format = format /\ format # 0 /\ format \in Nat
    BY <2>1
  <2>3. Odd(job')
    BY <2>2 DEF Odd
  <2>4. PICK s : s = Join(ServerHead(format), body)
    BY Zenon
  <2>5. body \in Str
    BY OddStr, Zenon
  <2>6. s \in Str
    BY <2>2, <2>4, <2>5, ServerHeadStr, JoinStr
  <2>7. inBs' = bsSeek(PutBytes(initBs, s), 0)
    BY <2>1, <2>4, Zenon DEF Delivers, Join
  <2>8. Before(inBs', s)
    BY <2>6, <2>7, Arrives
  <2>9. Rest(job') = body
    BY <2>2 DEF Rest
  <2> QED
    BY <2>2, <2>3, <2>4, <2>5, <2>8, <2>9 DEF Arriving, Comes
<1> QED
  BY <1>2, <1>3, <1>4 DEF SomebodyWrites
-----------------------------------------------------------------------------
\* A text comes back, up to where it was cut or to the zero byte behind it.

LEMMA FirstPiece ==
  ASSUME NEW s \in Seq(Octet), NEW n \in Nat, n <= Len(s)
  PROVE  SubSeq(s, 1, n) \in Seq(Octet) /\ Len(SubSeq(s, 1, n)) = n /\ \A i \in 1 .. n : SubSeq(s, 1, n)[i] = s[i]
<1>1. 0 \in Nat /\ 0 + n <= Len(s)
  OBVIOUS
<1>2. /\ SubSeq(s, 0 + 1, 0 + n) \in Seq(Octet) /\ Len(SubSeq(s, 0 + 1, 0 + n)) = n
      /\ \A i \in 1 .. n : SubSeq(s, 0 + 1, 0 + n)[i] = s[0 + i]
  BY <1>1, Piece
<1>3. 0 + 1 = 1 /\ 0 + n = n /\ \A i \in 1 .. n : 0 + i = i
  OBVIOUS
<1>4. PICK t : t = SubSeq(s, 1, n)
  BY Zenon
<1>5. t \in Seq(Octet) /\ Len(t) = n /\ \A i \in 1 .. n : t[i] = s[i]
  BY <1>2, <1>3, <1>4
<1> QED
  BY <1>4, <1>5

LEMMA UpTo ==
  ASSUME NEW text \in Letters, NEW n \in Nat, n <= Len(text), NEW s \in Seq(Octet), \A i \in 1 .. n : s[i] = text[i],
         Len(s) = n \/ (Len(s) = n + 1 /\ s[n + 1] = 0)
  PROVE  UpToZero(s) = SubSeq(text, 1, n)
<1>1. text \in Seq(Octet) /\ \A i \in 1 .. Len(text) : text[i] \in 1 .. 255
  BY TextStr, RawStr DEF Str
<1>2. Len(text) \in Nat
  BY <1>1, LenProperties, Zenon
<1>3. PICK t : t = SubSeq(text, 1, n)
  BY Zenon
<1>4. t \in Seq(Octet) /\ Len(t) = n /\ \A i \in 1 .. n : t[i] = text[i]
  BY <1>1, <1>3, FirstPiece
<1>5. \A i \in 1 .. n : s[i] # 0
  <2>1. \A i \in 1 .. n : i \in 1 .. Len(text)
    BY <1>2
  <2>2. \A c \in 1 .. 255 : c # 0
    OBVIOUS
  <2> QED
    BY <1>1, <2>1, <2>2
<1>6. PICK zs : zs = {i \in 1 .. Len(s) : s[i] = 0}
  BY Zenon
<1>7. CASE Len(s) = n
  <2>1. zs = {}
    BY <1>5, <1>6, <1>7
  <2>2. UpToZero(s) = s
    BY <1>6, <2>1, Zenon DEF UpToZero
  <2>3. s = t
    BY <1>4, <1>7, SeqEqual
  <2> QED
    BY <1>3, <2>2, <2>3
<1>8. CASE Len(s) = n + 1 /\ s[n + 1] = 0
  <2>1. zs = {n + 1, n + 1}
    <3>1. \A i \in 1 .. n + 1 : i \in 1 .. n \/ i = n + 1
      OBVIOUS
    <3>2. n + 1 \in 1 .. n + 1
      OBVIOUS
    <3> QED
      BY <1>5, <1>6, <1>8, <3>1, <3>2
  <2>2. Min(zs) = n + 1
    <3>1. PICK m \in Int : m = n + 1
      OBVIOUS
    <3>2. Min({m, m}) = m
      BY LeastOfTwo
    <3> QED
      BY <2>1, <3>1, <3>2
  <2>3. UpToZero(s) = SubSeq(s, 1, Min(zs) - 1)
    <3>1. zs # {}
      BY <2>1
    <3> QED
      BY <1>6, <3>1, Zenon DEF UpToZero
  <2>4. UpToZero(s) = SubSeq(s, 1, n)
    <3>1. (n + 1) - 1 = n
      OBVIOUS
    <3> QED
      BY <2>2, <2>3, <3>1
  <2>5. PICK u : u = SubSeq(s, 1, n)
    BY Zenon
  <2>6. u \in Seq(Octet) /\ Len(u) = n /\ \A i \in 1 .. n : u[i] = s[i]
    <3>1. n <= Len(s)
      BY <1>8
    <3> QED
      BY <2>5, <3>1, FirstPiece
  <2>7. u = t
    BY <1>4, <2>6, SeqEqual
  <2> QED
    BY <1>3, <2>4, <2>5, <2>7
<1> QED
  BY <1>7, <1>8

LEMMA WholeText ==
  ASSUME NEW text \in Letters
  PROVE  SubSeq(text, 1, Len(text)) = text /\ Len(text) \in Nat
<1>1. text \in Seq(Octet)
  BY TextStr, RawStr DEF Str
<1>2. Len(text) \in Nat
  BY <1>1, LenProperties, Zenon
<1>3. PICK t : t = SubSeq(text, 1, Len(text))
  BY Zenon
<1>4. t \in Seq(Octet) /\ Len(t) = Len(text) /\ \A i \in 1 .. Len(text) : t[i] = text[i]
  BY <1>1, <1>2, <1>3, FirstPiece
<1>5. t = text
  BY <1>1, <1>4, SeqEqual
<1> QED
  BY <1>2, <1>3, <1>5

\* What a length that is too small leaves of it; one that is too large does not matter.
LEMMA TextReadBack ==
  ASSUME NEW text \in Letters, NEW last \in Terminators, NEW b, Before(b, Join(text, last)), NEW m \in Nat
  PROVE  LET t == UpToZero(bsRead(b, m).bytes) IN t = text \/ (m < Len(text) /\ t = SubSeq(text, 1, m))
<1>1. PICK e, k : e = Join(text, last) /\ k = Len(text)
  BY Zenon
<1>2. text \in Seq(Octet) /\ k \in Nat /\ last \in Seq(Octet) /\ (last = <<>> \/ last = <<0>>)
  BY <1>1, TextStr, RawStr, LastStr DEF Str
<1>3. PICK z \in Nat : z = Len(last)
  BY <1>2
<1>4. z = 0 \/ (z = 1 /\ last[1] = 0)
  BY <1>2, <1>3
<1>5. /\ e \in Seq(Octet) /\ Len(e) = k + z
      /\ \A i \in 1 .. k + z : e[i] = IF i <= k THEN text[i] ELSE last[i - k]
  BY <1>1, <1>2, <1>3, Joined, Zenon DEF Join
<1>6. b.data \in Seq(Octet) /\ b.ptr \in Nat /\ end(b) = b.ptr + (k + z) /\ Len(b.data) = end(b)
  BY <1>1, <1>5, BeforeSafe, SafeNumbers
<1>7. \A i \in 1 .. k + z : b.data[b.ptr + i] = e[i]
  BY <1>1, <1>5 DEF Before, Stands
<1>8. PICK got \in Nat : got = IF m <= k + z THEN m ELSE k + z
  BY <1>2
<1>9. PICK s : s = bsRead(b, m).bytes
  BY Zenon
<1>10. s = SubSeq(b.data, b.ptr + 1, b.ptr + got)
  <2>1. end(b) - b.ptr = k + z /\ ~(got < 0)
    BY <1>2, <1>6, <1>8
  <2>2. Min({m, end(b) - b.ptr}) = got
    BY <1>2, <1>8, <2>1, LeastOfTwo
  <2> QED
    BY <1>9, <2>1, <2>2 DEF bsRead
<1>11. s \in Seq(Octet) /\ Len(s) = got /\ \A i \in 1 .. got : s[i] = b.data[b.ptr + i]
  <2>1. b.ptr + got <= Len(b.data)
    BY <1>2, <1>6, <1>8
  <2> QED
    BY <1>6, <1>10, <2>1, Piece
<1>12. \A i \in 1 .. got : s[i] = IF i <= k THEN text[i] ELSE last[i - k]
  <2>1. \A i \in 1 .. got : i \in 1 .. k + z
    BY <1>2, <1>8
  <2> QED
    BY <1>5, <1>7, <1>11, <2>1
<1>13. PICK n \in Nat : n = IF m < k THEN m ELSE k
  BY <1>2
<1>14. n <= Len(text) /\ \A i \in 1 .. n : s[i] = text[i]
  <2>1. \A i \in 1 .. n : i \in 1 .. got /\ i <= k
    BY <1>2, <1>8, <1>13
  <2> QED
    BY <1>1, <1>2, <1>12, <1>13, <2>1
<1>15. Len(s) = n \/ (Len(s) = n + 1 /\ s[n + 1] = 0)
  <2>1. got = n \/ (got = k + 1 /\ n = k /\ z = 1)
    BY <1>2, <1>4, <1>8, <1>13
  <2>2. ASSUME got = k + 1, n = k, z = 1
        PROVE  s[n + 1] = 0
    <3>1. k + 1 \in 1 .. got /\ ~(k + 1 <= k) /\ (k + 1) - k = 1
      BY <1>2, <2>2
    <3> QED
      BY <1>4, <1>12, <2>2, <3>1
  <2> QED
    BY <1>11, <2>1, <2>2
<1>16. UpToZero(s) = SubSeq(text, 1, n)
  BY <1>11, <1>14, <1>15, UpTo
<1>17. SubSeq(text, 1, k) = text
  BY <1>1, WholeText
<1> QED
  BY <1>1, <1>9, <1>13, <1>16, <1>17


-----------------------------------------------------------------------------
\* The readers.

LEMMA PairJoin ==
  ASSUME NEW x \in Octet, NEW y \in Octet
  PROVE  <<x, y>> = Join(<<x>>, <<y>>)
<1>1. PICK p, q, e : p = <<x>> /\ q = <<y>> /\ e = <<x, y>>
  BY Zenon
<1>2. p \in Seq(Octet) /\ q \in Seq(Octet) /\ e \in Seq(Octet) /\ Len(p) = 1 /\ Len(q) = 1 /\ Len(e) = 2
  BY <1>1, SmallSeqs
<1>3. p[1] = x /\ q[1] = y /\ e[1] = x /\ e[2] = y
  BY <1>1
<1>4. PICK s : s = p \o q
  BY Zenon
<1>5. /\ s \in Seq(Octet) /\ Len(s) = Len(p) + Len(q)
      /\ \A i \in 1 .. Len(p) + Len(q) : s[i] = IF i <= Len(p) THEN p[i] ELSE q[i - Len(p)]
  <2>1. /\ p \o q \in Seq(Octet) /\ Len(p \o q) = Len(p) + Len(q)
        /\ \A i \in 1 .. Len(p) + Len(q) : (p \o q)[i] = IF i <= Len(p) THEN p[i] ELSE q[i - Len(p)]
    BY <1>2, Joined, Zenon
  <2> QED
    BY <2>1, <1>4, Zenon
<1>6. \A i \in 1 .. 2 : s[i] = IF i <= 1 THEN p[i] ELSE q[i - 1]
  BY <1>2, <1>5
<1>7. s[1] = p[1] /\ s[2] = q[1]
  BY <1>6
<1>8. \A i \in 1 .. 2 : i = 1 \/ i = 2
  OBVIOUS
<1>9. \A i \in 1 .. 2 : s[i] = e[i]
  BY <1>3, <1>7, <1>8
<1>10. Len(s) = 2
  BY <1>2, <1>5
<1>11. s = e
  BY <1>2, <1>5, <1>9, <1>10, SeqEqual
<1> QED
  BY <1>1, <1>4, <1>11, Zenon DEF Join

\* The type of a message, and the flags behind it that nobody reads.
LEMMA TypeRead ==
  ASSUME NEW start, NEW n, Sized(start, n), NEW type \in Byte, NEW e \in Str, NEW b,
         Before(b, Join(start, Join(<<type>>, Join(<< 0 >>, e)))), NEW t, t = bsReadByte(Skip(b, n))
  PROVE  t.value = type /\ Before(Skip(t.bs, 1), e)
<1>1. PICK y, z : y = <<type>> /\ z = <<0>>
  BY Zenon
<1>2. Sized(y, 1) /\ Sized(z, 1)
  <2>1. type \in Octet /\ 0 \in Octet
    BY Octets DEF Octet, Cipher
  <2>2. Sized(<<type>>, 1) /\ Sized(<<0>>, 1)
    BY <2>1, SmallStrs, Zenon
  <2> QED
    BY <1>1, <2>2
<1>3. y \in Str /\ z \in Str
  BY <1>2 DEF Sized
<1>4. PICK p, q : p = Join(z, e) /\ q = Join(y, p)
  BY Zenon
<1>5. p \in Str
  BY <1>3, <1>4, JoinStr
<1>6. q \in Str
  BY <1>3, <1>4, <1>5, JoinStr
<1>7. Before(b, Join(start, q))
  BY <1>1, <1>4
<1>8. PICK c : c = Skip(b, n)
  BY Zenon
<1>9. Before(c, Join(<<type>>, p))
  <2>1. Before(Skip(b, n), q)
    BY <1>6, <1>7, Skips, Zenon
  <2> QED
    BY <1>1, <1>4, <1>8, <2>1
<1>10. t.value = type /\ Before(t.bs, p)
  <2>1. bsReadByte(c).value = type /\ Before(bsReadByte(c).bs, p)
    BY <1>5, <1>9, ReadsByte, Zenon
  <2> QED
    BY <1>8, <2>1
<1>11. Before(Skip(t.bs, 1), e)
  <2>1. Before(t.bs, Join(z, e))
    BY <1>4, <1>10
  <2> QED
    BY <1>2, <2>1, Skips, Zenon
<1> QED
  BY <1>10, <1>11

LEMMA KindRead ==
  ASSUME NEW start, NEW n, Sized(start, n), NEW type \in Byte, NEW e \in Str, NEW b,
         Before(b, Join(start, Join(<<type>>, Join(<< 0 >>, e))))
  PROVE  bsReadByte(Skip(b, n)).value = type /\ Before(Skip(bsReadByte(Skip(b, n)).bs, 1), e)
<1>1. PICK t : t = bsReadByte(Skip(b, n))
  BY Zenon
<1>2. t.value = type /\ Before(Skip(t.bs, 1), e)
  BY <1>1, TypeRead
<1> QED
  BY <1>1, <1>2

LEMMA KindPair ==
  ASSUME NEW start \in Str, NEW type \in Byte, NEW e \in Str
  PROVE  Join(Join(start, <<type, 0>>), e) = Join(start, Join(<<type>>, Join(<< 0 >>, e)))
<1>1. type \in Octet /\ 0 \in Octet
  BY Octets DEF Octet, Cipher
<1>2. PICK y, z, w : y = <<type>> /\ z = <<0>> /\ w = <<type, 0>>
  BY Zenon
<1>3. y \in Str /\ z \in Str /\ w \in Str
  <2>1. Sized(<<type>>, 1) /\ Sized(<<0>>, 1) /\ Sized(<<type, 0>>, 2)
    BY <1>1, SmallStrs, Zenon
  <2> QED
    BY <1>2, <2>1 DEF Sized
<1>4. w = Join(y, z)
  <2>1. <<type, 0>> = Join(<<type>>, <<0>>)
    BY <1>1, PairJoin, Zenon
  <2> QED
    BY <1>2, <2>1
<1>5. Join(Join(start, w), e) = Join(start, Join(w, e))
  BY <1>3, JoinTwice
<1>6. Join(Join(y, z), e) = Join(y, Join(z, e))
  BY <1>3, JoinTwice
<1> QED
  BY <1>2, <1>4, <1>5, <1>6

LEMMA TypeModulo ==
  ASSUME NEW type \in Byte, NEW junk \in Nat
  PROVE  (type + 256 * junk) % 256 = type
<1>1. \A t \in 0 .. 255, k \in Nat : (t + 256 * k) % 256 = t
  OBVIOUS
<1> QED
  BY <1>1 DEF Byte

\* A message that waited.
LEMMA OfflineRead ==
  ASSUME NEW type \in Byte, NEW text \in Letters, NEW last \in Terminators, NEW said \in Word, NEW more \in Nat,
         more = 0 \/ Len(text) <= more, NEW b, Before(b, Offline(type, text, last, said)),
         NEW t, t = bsReadByte(Skip(b, 10)), NEW e, e = bsReadString(Skip(t.bs, 1), "string16", more),
         NEW v, v = UpToZero(e.value)
  PROVE  t.value = type /\ ~e.bs.fault /\ (v = text \/ (said < Len(text) /\ v = SubSeq(text, 1, said)))
<1>1. PICK start, rest : start = OfflineStart /\ rest = OfflineText(text, last, said)
  BY Zenon
<1>2. said \in Nat
  BY BytesAreNumbers, Zenon
<1>3. /\ Offline(type, text, last, said) = Join(Join(start, <<type, 0>>), rest)
      /\ Sized(start, 10) /\ start \in Str /\ rest \in Str /\ Join(text, last) \in Str
  BY <1>1, <1>2, OfflineArrives DEF Sized
<1>4. Before(b, Join(start, Join(<<type>>, Join(<<0>>, rest))))
  <2>1. Join(Join(start, <<type, 0>>), rest) = Join(start, Join(<<type>>, Join(<<0>>, rest)))
    BY <1>3, KindPair, Zenon
  <2> QED
    BY <1>3, <2>1
<1>5. PICK c : c = Skip(t.bs, 1)
  BY Zenon
<1>6. t.value = type /\ Before(c, rest)
  <2>1. PICK n : n = 10
    BY Zenon
  <2>2. Sized(start, n)
    BY <1>3, <2>1
  <2>3. bsReadByte(Skip(b, n)).value = type /\ Before(Skip(bsReadByte(Skip(b, n)).bs, 1), rest)
    BY <1>3, <1>4, <2>2, KindRead, Zenon
  <2> QED
    BY <1>5, <2>1, <2>3
<1>7. PICK l : l = bsReadWord(c)
  BY Zenon
<1>8. Before(l.bs, Join(text, last)) /\ l.value = said
  <2>1. Before(c, Join(Word_2_Charsb(said), Join(text, last)))
    BY <1>1, <1>6 DEF OfflineText
  <2>2. Before(bsReadWord(c).bs, Join(text, last)) /\ bsReadWord(c).value = said
    BY <1>3, <2>1, ReadsWord, Zenon
  <2> QED
    BY <1>7, <2>2, Zenon
<1>9. PICK m \in Nat : m = said + more
  BY <1>2
<1>10. PICK d : d = bsRead(l.bs, m)
  BY Zenon
<1>11. e = Result(d, d.bytes)
  <2>1. ~l.bs.fault
    BY <1>8 DEF Before
  <2>2. l.value + more = m
    BY <1>8, <1>9
  <2>3. e = IF l.bs.fault THEN l
            ELSE Result(bsRead(l.bs, l.value + more), bsRead(l.bs, l.value + more).bytes)
    BY <1>5, <1>7 DEF bsReadString
  <2> QED
    BY <1>10, <2>1, <2>2, <2>3
<1>12. e.bs = d.bs /\ e.value = d.bytes
  BY <1>11 DEF Result
<1>13. ~d.bs.fault
  <2>1. Goes(l.bs, l.bs)
    BY <1>8, BeforeSafe, Stays, Zenon
  <2>2. Goes(l.bs, bsRead(l.bs, m).bs)
    BY <2>1, SafeRead, Zenon
  <2> QED
    BY <1>10, <2>2 DEF Goes, Safe
<1>14. v = text \/ (m < Len(text) /\ v = SubSeq(text, 1, m))
  <2>1. LET u == UpToZero(bsRead(l.bs, m).bytes) IN u = text \/ (m < Len(text) /\ u = SubSeq(text, 1, m))
    BY <1>8, TextReadBack, Zenon
  <2> QED
    BY <1>10, <1>12, <2>1
<1>15. m < Len(text) => m = said
  BY <1>2, <1>9, WholeText
<1> QED
  BY <1>6, <1>12, <1>13, <1>14, <1>15

\* Another client's message of format 4.
LEMMA ForeignRead ==
  ASSUME NEW type \in Byte, NEW text \in Letters, NEW b,
         Before(b, Join(HeadOf(5, Len(ForeignBody(type, text))), ForeignBody(type, text))),
         NEW t, t = bsReadTlv(b), NEW k, k = bsReadByte(bsRead(t.bs, 4).bs),
         NEW l, l = bsReadWordLE(bsReadByte(k.bs).bs), NEW e, e = ReadToString(l.bs, l.value)
  PROVE  t.type = 5 /\ k.value = type /\ e.text = text
<1>1. PICK body, start, rest : body = ForeignBody(type, text) /\ start = <<49, 0, 0, 0>> /\ rest = ForeignText(text)
  BY Zenon
<1>2. body \in Str /\ Len(body) \in Word /\ rest \in Str /\ Sized(start, 4)
  BY <1>1, ForeignSizes, ForeignPieces
<1>3. PICK k5, k0 : k5 = 5 /\ k0 = 0
  BY Zenon
<1>4. k5 \in Word /\ k0 \in Byte
  <2>1. k5 \in Byte /\ k0 \in Byte
    BY <1>3 DEF Byte
  <2> QED
    BY <2>1, ByteWord, Zenon
<1>5. Before(t.bs, body) /\ t.type = k5
  <2>1. Before(b, Join(HeadOf(k5, Len(body)), body))
    BY <1>1, <1>3
  <2>2. Before(bsReadTlv(b).bs, body) /\ bsReadTlv(b).type = k5
    BY <1>2, <1>4, <2>1, ReadsHead, Zenon
  <2> QED
    BY <2>2
<1>6. PICK zs, ts : zs = Join(<<k0>>, rest) /\ ts = Join(<<type>>, zs)
  BY Zenon
<1>7. zs \in Str /\ ts \in Str
  <2>1. k0 \in Octet /\ type \in Octet
    BY <1>4, Octets, Zenon
  <2>2. Sized(<<k0>>, 1) /\ Sized(<<type>>, 1)
    BY <2>1, SmallStrs, Zenon
  <2>3. <<k0>> \in Str /\ <<type>> \in Str
    BY <2>2 DEF Sized
  <2>4. Join(<<k0>>, rest) \in Str
    BY <1>2, <2>3, JoinStr, Zenon
  <2>5. Join(<<type>>, zs) \in Str
    BY <1>6, <2>3, <2>4, JoinStr
  <2> QED
    BY <1>6, <2>4, <2>5
<1>8. Before(t.bs, Join(start, ts))
  <2>1. body = Join(Join(start, <<type, 0>>), rest)
    BY <1>1 DEF ForeignBody, ForeignStart
  <2>2. start \in Str
    BY <1>2 DEF Sized
  <2>3. Join(Join(start, <<type, 0>>), rest) = Join(start, Join(<<type>>, Join(<<0>>, rest)))
    BY <1>2, <2>2, KindPair, Zenon
  <2> QED
    BY <1>3, <1>5, <1>6, <2>1, <2>3
<1>9. PICK b4, z : b4 = bsRead(t.bs, 4).bs /\ z = bsReadByte(k.bs)
  BY Zenon
<1>10. Before(b4, Join(<<type>>, zs))
  <2>1. Before(bsRead(t.bs, 4).bs, ts)
    BY <1>2, <1>7, <1>8, ReadsBytes
  <2> QED
    BY <1>6, <1>9, <2>1
<1>11. k.value = type /\ Before(k.bs, Join(<<k0>>, rest))
  <2>1. bsReadByte(b4).value = type /\ Before(bsReadByte(b4).bs, zs)
    BY <1>7, <1>10, ReadsByte, Zenon
  <2> QED
    BY <1>6, <1>9, <2>1
<1>12. Before(z.bs, rest)
  <2>1. Before(bsReadByte(k.bs).bs, rest)
    BY <1>2, <1>4, <1>11, ReadsByte, Zenon
  <2> QED
    BY <1>9, <2>1
<1>13. PICK last, n : last = <<0>> /\ n = Len(text) + 1
  BY Zenon
<1>14. last \in Terminators /\ n \in Word /\ n \in Nat /\ Len(text) \in Nat /\ Join(text, last) \in Str
  <2>1. n \in Word /\ Sized(text, Len(text)) /\ Sized(last, 1) /\ Len(text) \in Nat
    BY <1>13, ForeignPieces
  <2>2. Join(text, last) \in Str
    BY <2>1, JoinStr DEF Sized
  <2> QED
    BY <1>13, <2>1, <2>2, BytesAreNumbers DEF Terminators
<1>15. Before(l.bs, Join(text, last)) /\ l.value = n
  <2>1. Before(z.bs, Join(Word_2_Chars(n), Join(text, last)))
    BY <1>1, <1>12, <1>13 DEF ForeignText
  <2>2. Before(bsReadWordLE(z.bs).bs, Join(text, last)) /\ bsReadWordLE(z.bs).value = n
    BY <1>14, <2>1, ReadsWordLE, Zenon
  <2> QED
    BY <1>9, <2>2
<1>16. e.text = UpToZero(bsRead(l.bs, n).bytes)
  <2>1. Goes(l.bs, l.bs)
    BY <1>15, BeforeSafe, Stays, Zenon
  <2>2. ReadToString(l.bs, n).text = UpToZero(bsRead(l.bs, n).bytes)
    BY <1>14, <2>1, SafeString, Zenon
  <2>3. e = ReadToString(l.bs, n)
    BY <1>15
  <2> QED
    BY <2>2, <2>3
<1>17. e.text = text \/ n < Len(text)
  <2>1. LET u == UpToZero(bsRead(l.bs, n).bytes) IN u = text \/ (n < Len(text) /\ u = SubSeq(text, 1, n))
    BY <1>14, <1>15, TextReadBack, Zenon
  <2> QED
    BY <1>16, <2>1
<1> QED
  BY <1>3, <1>5, <1>11, <1>13, <1>14, <1>17

\* Whatever is there is read safely in format 4.
LEMMA FourSafe ==
  ASSUME NEW b, Safe(b),
         NEW t, t = bsReadTlv(b), NEW k, k = bsReadByte(bsRead(t.bs, 4).bs),
         NEW l, l = bsReadWordLE(bsReadByte(k.bs).bs), NEW e, e = ReadToString(l.bs, l.value)
  PROVE  ~e.bs.fault
<1>1. Goes(b, b)
  BY Stays, Zenon
<1>2. Goes(b, t.bs)
  BY <1>1, SafeTlv, Zenon
<1>3. PICK c, z : c = bsRead(t.bs, 4).bs /\ z = bsReadByte(k.bs)
  BY Zenon
<1>4. Goes(b, c)
  <2>1. 4 \in Nat
    OBVIOUS
  <2>2. Goes(b, bsRead(t.bs, 4).bs)
    BY <1>2, <2>1, SafeRead, Zenon
  <2> QED
    BY <1>3, <2>2
<1>5. Goes(b, k.bs)
  BY <1>3, <1>4, SafeReads
<1>6. Goes(b, z.bs)
  BY <1>3, <1>5, SafeReads
<1>7. Goes(b, l.bs) /\ l.value \in Nat
  BY <1>3, <1>6, SafeReads
<1>8. Goes(b, ReadToString(l.bs, l.value).bs)
  BY <1>7, SafeString, Zenon
<1> QED
  BY <1>8 DEF Goes, Safe

-----------------------------------------------------------------------------
\* Reading our own messages of format 1: the TLVs inside, one after the other.

\* A TLV that stands whole before the reader.
LEMMA WholeRead ==
  ASSUME NEW type \in Word, NEW v \in Str, NEW n \in Word, n = Len(v), NEW e \in Str, NEW b,
         Before(b, Join(Join(HeadOf(type, n), v), e)), NEW t, t = bsReadTlv(b)
  PROVE  /\ t.type = type /\ t.len = n /\ Before(t.bs, Join(v, e)) /\ t.bs.ptr = b.ptr + 4 /\ b.ptr \in Nat
         /\ ~Cut(b) /\ Goes(t.bs, t.bs) /\ n \in Nat
         /\ Before(bsSeek(t.bs, t.bs.ptr + n), e) /\ bsSeek(t.bs, t.bs.ptr + n).ptr = b.ptr + 4 + n
<1>1. type \in Nat /\ n \in Nat
  BY BytesAreNumbers, Zenon
<1>2. PICK h, p : h = HeadOf(type, n) /\ p = Join(v, e)
  BY Zenon
<1>3. Sized(h, 4)
  BY <1>1, <1>2, HeadStr
<1>4. h \in Str /\ Len(h) = 4 /\ p \in Str
  BY <1>2, <1>3, JoinStr DEF Sized
<1>5. Before(b, Join(h, p))
  <2>1. Join(Join(h, v), e) = Join(h, Join(v, e))
    BY <1>4, JoinTwice, Zenon
  <2> QED
    BY <1>2, <2>1
<1>6. t.type = type /\ t.len = n /\ Before(t.bs, p)
  <2>1. Before(b, Join(HeadOf(type, n), p))
    BY <1>2, <1>5
  <2>2. bsReadTlv(b).type = type /\ bsReadTlv(b).len = n /\ Before(bsReadTlv(b).bs, p)
    BY <1>4, <2>1, ReadsHead, Zenon
  <2> QED
    BY <2>2
<1>7. Fits(b) /\ Stands(b.data, b.ptr, h)
  BY <1>4, <1>5, Ahead, Zenon
<1>8. Passed(b, t.bs, 4)
  <2>1. Stands(b.data, b.ptr, HeadOf(type, n))
    BY <1>2, <1>7
  <2>2. Passed(b, bsReadTlv(b).bs, 4)
    BY <1>7, <2>1, TlvReadAt, Zenon DEF HeadOf
  <2> QED
    BY <2>2
<1>9. t.bs.ptr = b.ptr + 4
  BY <1>8 DEF Passed
<1>10. b.ptr \in Nat /\ ~Cut(b)
  <2>1. Safe(b) /\ end(b) = b.ptr + Len(Join(h, p)) /\ Len(Join(h, p)) = Len(h) + Len(p) /\ Len(p) \in Nat
    BY <1>4, <1>5, BeforeSafe, JoinStr
  <2>2. b.ptr \in Nat
    BY <2>1, SafeNumbers
  <2> QED
    BY <1>4, <2>1, <2>2 DEF Cut, SIZEOF_TLV_HEAD
<1>11. Goes(t.bs, t.bs)
  BY <1>6, BeforeSafe, Stays, Zenon
<1>12. Before(bsSeek(t.bs, t.bs.ptr + n), e) /\ bsSeek(t.bs, t.bs.ptr + n).ptr = b.ptr + 4 + n
  <2>1. Sized(v, n) /\ Before(t.bs, Join(v, e))
    BY <1>2, <1>6 DEF Sized
  <2>2. PICK x : x = t.bs
    BY Zenon
  <2>3. Before(bsSeek(x, x.ptr + n), e) /\ bsSeek(x, x.ptr + n).ptr = x.ptr + n
    BY <1>11, <2>1, <2>2, Sought
  <2> QED
    BY <1>9, <2>2, <2>3
<1> QED
  BY <1>1, <1>2, <1>6, <1>9, <1>10, <1>11, <1>12

LEMMA InnerPieces ==
  ASSUME NEW cs \in Nat, NEW data \in Str, Modest(data), NEW tail \in Str
  PROVE  LET t == Text257(cs, data)
             k == Len(t)
         IN /\ t \in Str /\ k \in Word /\ k = 4 + Len(data) /\ Len(data) \in Nat
            /\ Len(Inside1(cs, data)) = 9 + k
            /\ Inside1(cs, data) = Join(Join(HeadOf(1281, 1), << 1 >>), Join(HeadOf(257, k), t))
            /\ Join(t, tail) = Join(Word_2_Charsb(cs), Join(Word_2_Charsb(0), Join(data, tail)))
<1>1. PICK t, k : t = Text257(cs, data) /\ k = Len(t)
  BY Zenon
<1>2. PICK n \in Nat : n = Len(data)
  BY StrNat
<1>3. Sized(t, 4 + n) /\ Short(t) /\ Sized(Inside1(cs, data), 13 + n)
  BY <1>1, <1>2, Sizes1
<1>4. t \in Str /\ k = 4 + n /\ k < 65536 /\ Len(Inside1(cs, data)) = 13 + n
  BY <1>1, <1>3 DEF Sized, Short
<1>5. k \in Word
  <2>1. k \in Nat
    BY <1>4
  <2> QED
    BY <1>4, <2>1, SmallWord
<1>6. Inside1(cs, data) = Join(Join(HeadOf(1281, 1), <<1>>), Join(HeadOf(257, k), t))
  <2>1. PICK a, c : a = 1281 /\ c = 257
    BY Zenon
  <2>2. a \in Nat /\ c \in Nat
    BY <2>1
  <2>3. Whole(a, <<1>>) = Join(HeadOf(a, 1), <<1>>)
    BY <2>2, OneWhole, Zenon
  <2>4. Whole(c, t) = Join(HeadOf(c, Len(t)), t)
    <3>1. t \in Str /\ Short(t)
      BY <1>3, <1>4
    <3> QED
      BY <2>2, <3>1, WholeType, Zenon
  <2>5. Inside1(cs, data) = Join(Whole(a, <<1>>), Whole(c, t))
    BY <1>1, <2>1 DEF Inside1
  <2> QED
    BY <1>1, <2>1, <2>3, <2>4, <2>5
<1>7. Join(t, tail) = Join(Word_2_Charsb(cs), Join(Word_2_Charsb(0), Join(data, tail)))
  <2>1. PICK u, v : u = Word_2_Charsb(cs) /\ v = Word_2_Charsb(0)
    BY Zenon
  <2>2. u \in Str /\ v \in Str
    <3>1. 0 \in Nat
      OBVIOUS
    <3>2. Word_2_Charsb(cs) \in Str /\ Word_2_Charsb(0) \in Str
      BY <3>1, WordStr, Zenon DEF Sized
    <3> QED
      BY <2>1, <3>2
  <2>3. t = Join(Join(u, v), data)
    BY <1>1, <2>1 DEF Text257
  <2>4. PICK q, d : q = Join(u, v) /\ d = Join(data, tail)
    BY Zenon
  <2>5. q \in Str /\ d \in Str
    BY <2>2, <2>4, JoinStr
  <2>6. Join(Join(q, data), tail) = Join(q, Join(data, tail))
    BY <2>5, JoinTwice, Zenon
  <2>7. Join(Join(u, v), d) = Join(u, Join(v, d))
    BY <2>2, <2>5, JoinTwice, Zenon
  <2> QED
    BY <2>1, <2>3, <2>4, <2>6, <2>7
<1> QED
  BY <1>1, <1>2, <1>4, <1>5, <1>6, <1>7


\* Where the reader stands in one of our own messages of format 1: before the
\* first TLV, before the text, or behind it.
FirstInner == Join(HeadOf(1281, 1), << 1 >>)
TextInner(cs, data) == Join(HeadOf(257, Len(Text257(cs, data))), Text257(cs, data))
OwnInner(b, c, m, cs, data) ==
    LET behind == Whole(6, <<>>)
    IN /\ c = [start |-> c.start, len |-> 13 + Len(data), msgLen |-> c.msgLen] /\ c.start \in Nat
       /\ \/ m = Empty /\ b.ptr = c.start /\ Before(b, Join(FirstInner, Join(TextInner(cs, data), behind)))
          \/ m = Empty /\ b.ptr = c.start + 5 /\ Before(b, Join(TextInner(cs, data), behind))
          \/ b.ptr = c.start + c.len /\ Before(b, behind) /\ m.data = UpToZero(data)

LEMMA InnerStrs ==
  ASSUME NEW cs \in Byte, NEW data \in Str, Modest(data)
  PROVE  /\ Whole(6, <<>>) \in Str /\ FirstInner \in Str /\ TextInner(cs, data) \in Str
         /\ Join(TextInner(cs, data), Whole(6, <<>>)) \in Str
         /\ Inside1(cs, data) = Join(FirstInner, TextInner(cs, data))
         /\ Len(Inside1(cs, data)) = 13 + Len(data) /\ Len(data) \in Nat
<1>1. cs \in Nat /\ 6 \in Nat /\ 1281 \in Nat /\ 257 \in Nat /\ 1 \in Nat
  BY ByteWord
<1>2. Whole(6, <<>>) \in Str
  BY <1>1, Wholes2, Zenon DEF Sized
<1>3. /\ Text257(cs, data) \in Str /\ Len(Text257(cs, data)) = 4 + Len(data) /\ Len(data) \in Nat
      /\ Len(Inside1(cs, data)) = 9 + Len(Text257(cs, data))
      /\ Inside1(cs, data) = Join(FirstInner, TextInner(cs, data))
  BY <1>1, <1>2, InnerPieces DEF FirstInner, TextInner
<1>4. FirstInner \in Str
  <2>1. 1 \in Octet
    BY DEF Octet, Cipher
  <2>2. Sized(<<1>>, 1) /\ Sized(HeadOf(1281, 1), 4)
    BY <1>1, <2>1, SmallStrs, HeadStr
  <2> QED
    BY <2>2, JoinStr DEF Sized, FirstInner
<1>5. TextInner(cs, data) \in Str
  <2>1. PICK k \in Nat : k = Len(Text257(cs, data))
    BY <1>3
  <2>2. Sized(HeadOf(257, k), 4)
    BY <1>1, HeadStr
  <2> QED
    BY <1>3, <2>1, <2>2, JoinStr DEF Sized, TextInner
<1>6. Len(Inside1(cs, data)) = 13 + Len(data)
  BY <1>3
<1> QED
  BY <1>2, <1>3, <1>4, <1>5, <1>6, JoinStr, Zenon

LEMMA OwnFirst ==
  ASSUME NEW slave, slave.utf8 \in BOOLEAN, NEW data \in Str, Modest(data), NEW b, Before(b, Outer1(slave, data)),
         NEW t, t = bsReadTlv(b), NEW c, c = [start |-> t.bs.ptr, len |-> t.len, msgLen |-> 0]
  PROVE  t.type = 2 /\ OwnInner(t.bs, c, Empty, Charset(slave), data) /\ Charset(slave) \in Byte
<1>1. PICK cs, k2, tail : cs = Charset(slave) /\ k2 = 2 /\ tail = Whole(6, <<>>)
  BY Zenon
<1>2. cs \in Byte /\ k2 \in Word /\ cs \in Nat /\ k2 \in Nat
  <2>1. cs \in Byte /\ k2 \in Byte
    BY <1>1 DEF Byte, Charset
  <2> QED
    BY <2>1, ByteWord, Zenon
<1>3. PICK i, n : i = Inside1(cs, data) /\ n = Len(i)
  BY Zenon
<1>4. i \in Str /\ Short(i)
  <2>1. Sized(i, 13 + Len(data)) /\ Short(i)
    BY <1>2, <1>3, Sizes1
  <2> QED
    BY <2>1, Zenon DEF Sized
<1>5. n \in Word
  <2>1. n \in Nat /\ n < 65536
    BY <1>3, <1>4, StrNat DEF Short
  <2> QED
    BY <2>1, SmallWord
<1>6. tail \in Str /\ i = Join(FirstInner, TextInner(cs, data)) /\ n = 13 + Len(data)
      /\ FirstInner \in Str /\ TextInner(cs, data) \in Str
  BY <1>1, <1>2, <1>3, InnerStrs
<1>7. Before(b, Join(Join(HeadOf(k2, n), i), tail))
  <2>1. Whole(k2, i) = Join(HeadOf(k2, Len(i)), i)
    BY <1>2, <1>4, WholeType, Zenon
  <2> QED
    BY <1>1, <1>3, <2>1 DEF Outer1
<1>8. t.type = k2 /\ t.len = n /\ Before(t.bs, Join(i, tail)) /\ t.bs.ptr = b.ptr + 4 /\ b.ptr \in Nat
  BY <1>2, <1>3, <1>4, <1>5, <1>6, <1>7, WholeRead
<1>9. Join(i, tail) = Join(FirstInner, Join(TextInner(cs, data), tail))
  BY <1>6, JoinTwice
<1>10. OwnInner(t.bs, c, Empty, cs, data)
  <2>1. c.start \in Nat /\ c.len = 13 + Len(data) /\ t.bs.ptr = c.start /\ c.msgLen = 0
    BY <1>6, <1>8
  <2>2. c = [start |-> c.start, len |-> 13 + Len(data), msgLen |-> c.msgLen]
    BY <2>1
  <2> QED
    BY <1>1, <1>8, <1>9, <2>1, <2>2 DEF OwnInner
<1> QED
  BY <1>1, <1>2, <1>8, <1>10

LEMMA OwnRound ==
  ASSUME NEW cs \in Byte, NEW data \in Str, Modest(data), OwnInner(inBs, loop, msg, cs, data), NextInner
  PROVE  \/ stage' = "tlvs" /\ OwnInner(inBs', loop', msg', cs, data)
         \/ stage' \in {"read", "shown"} /\ ~inBs'.fault /\ msg'.data = UpToZero(data)
<1>1. PICK tail, len, x, y, n : /\ tail = Whole(6, <<>>) /\ len = 13 + Len(data) /\ x = FirstInner
                                /\ y = TextInner(cs, data) /\ n = Len(data)
  BY Zenon
<1>2. /\ tail \in Str /\ x \in Str /\ y \in Str /\ Join(y, tail) \in Str /\ n \in Nat /\ len \in Nat /\ len = 13 + n
  BY <1>1, InnerStrs
<1>3. /\ loop = [start |-> loop.start, len |-> len, msgLen |-> loop.msgLen] /\ loop.start \in Nat
      /\ loop.len = len /\ ~inBs.fault
  BY <1>1 DEF OwnInner, Before
<1>4. PICK t, k, v : t = bsReadTlv(inBs) /\ k = 4 + n /\ v = Text257(cs, data)
  BY Zenon
<1>5. /\ v \in Str /\ k \in Word /\ k = Len(v) /\ k \in Nat
      /\ Join(v, tail) = Join(Word_2_Charsb(cs), Join(Word_2_Charsb(0), Join(data, tail)))
  BY <1>1, <1>2, <1>4, InnerPieces, ByteWord
<1>6. PICK over, w, d, p : /\ over = (inBs.ptr - loop.start >= loop.len \/ Cut(inBs)) /\ w = bsReadWord(t.bs)
                           /\ d = ReadToString(Skip(w.bs, 2), MsgLen(t)) /\ p = t.bs.ptr + t.len
  BY Zenon
<1>7. \/ /\ over /\ stage' \in {"read", "shown"} /\ inBs' = inBs /\ msg' = msg /\ loop' = loop
      \/ /\ ~over /\ t.type = 257 /\ stage' = "tlvs"
         /\ inBs' = bsSeek(d.bs, p) /\ msg' = WithText(msg, w.value, d.text)
         /\ loop' = [loop EXCEPT !.msgLen = MsgLen(t)]
      \/ /\ ~over /\ t.type # 257 /\ stage' = "tlvs" /\ inBs' = bsSeek(t.bs, p) /\ msg' = msg /\ loop' = loop
  BY <1>4, <1>6 DEF NextInner
<1>8. CASE msg = Empty /\ inBs.ptr = loop.start /\ Before(inBs, Join(x, Join(y, tail)))
  <2>1. PICK a, k1, one : a = 1281 /\ k1 = 1 /\ one = <<1>>
    BY Zenon
  <2>2. a \in Word /\ k1 \in Word /\ one \in Str /\ k1 = Len(one)
    <3>1. 1 \in Octet /\ k1 \in Byte
      BY <2>1 DEF Octet, Cipher, Byte
    <3>2. Sized(<<1>>, 1) /\ k1 \in Word
      BY <3>1, SmallStrs, ByteWord, Zenon
    <3>3. a \in Word
      BY <2>1, SmallWord
    <3> QED
      BY <2>1, <3>2, <3>3 DEF Sized
  <2>3. x = Join(HeadOf(a, k1), one)
    BY <1>1, <2>1 DEF FirstInner
  <2>4. PICK c : c = bsSeek(t.bs, t.bs.ptr + k1)
    BY Zenon
  <2>5. /\ t.type = a /\ t.len = k1 /\ ~Cut(inBs) /\ inBs.ptr \in Nat
        /\ Before(c, Join(y, tail)) /\ c.ptr = inBs.ptr + 4 + k1
    BY <1>2, <1>4, <1>8, <2>2, <2>3, <2>4, WholeRead
  <2>6. ~(inBs.ptr - loop.start >= loop.len)
    BY <1>2, <1>3, <1>8
  <2>7. t.type # 257
    BY <2>1, <2>5
  <2>8. stage' = "tlvs" /\ inBs' = c /\ msg' = msg /\ loop' = loop
    BY <1>6, <1>7, <2>4, <2>5, <2>6, <2>7
  <2>9. c.ptr = loop.start + 5
    BY <1>3, <1>8, <2>1, <2>5
  <2> QED
    BY <1>1, <1>3, <1>8, <2>5, <2>8, <2>9 DEF OwnInner
<1>9. CASE msg = Empty /\ inBs.ptr = loop.start + 5 /\ Before(inBs, Join(y, tail))
  <2>1. PICK c257 : c257 = 257
    BY Zenon
  <2>2. c257 \in Word
    BY <2>1, SmallWord
  <2>3. y = Join(HeadOf(c257, k), v)
    BY <1>1, <1>4, <1>5, <2>1 DEF TextInner
  <2>4. /\ t.type = c257 /\ t.len = k /\ ~Cut(inBs) /\ inBs.ptr \in Nat /\ Before(t.bs, Join(v, tail)) /\ Goes(t.bs, t.bs)
        /\ t.bs.ptr = inBs.ptr + 4
    <3>1. Before(inBs, Join(Join(HeadOf(c257, k), v), tail))
      BY <1>9, <2>3
    <3> QED
      BY <1>2, <1>4, <1>5, <2>2, <3>1, WholeRead
  <2>5. w = bsReadWord(t.bs)
    BY <1>6
  <2>6. PICK w0, q, s : w0 = Word_2_Charsb(0) /\ q = Join(data, tail) /\ s = Join(w0, q)
    BY Zenon
  <2>7. Sized(w0, 2) /\ w0 \in Str /\ q \in Str /\ s \in Str /\ cs \in Word
    <3>1. PICK z \in Nat : z = 0
      OBVIOUS
    <3>2. Sized(Word_2_Charsb(z), 2)
      BY WordStr, Zenon
    <3>3. w0 \in Str
      BY <2>6, <3>1, <3>2 DEF Sized
    <3>4. q \in Str
      BY <1>2, <2>6, JoinStr
    <3> QED
      BY <2>6, <3>1, <3>2, <3>3, <3>4, JoinStr, ByteWord
  <2>8. Before(w.bs, s)
    <3>1. Before(t.bs, Join(Word_2_Charsb(cs), s))
      BY <1>5, <2>4, <2>6
    <3>2. Before(bsReadWord(t.bs).bs, s)
      BY <2>7, <3>1, ReadsWord, Zenon
    <3> QED
      BY <2>5, <3>2
  <2>9. PICK e : e = Skip(w.bs, 2)
    BY Zenon
  <2>10. Before(e, q)
    <3>1. Before(w.bs, Join(w0, q))
      BY <2>6, <2>8
    <3>2. Before(Skip(w.bs, 2), q)
      BY <2>7, <3>1, Skips
    <3> QED
      BY <2>9, <3>2
  <2>11. Goes(t.bs, w.bs)
    BY <2>4, <2>5, SafeReads
  <2>12. Goes(t.bs, e)
    <3>1. Goes(w.bs, e)
      <4>1. Goes(w.bs, w.bs)
        BY <2>8, BeforeSafe, Stays, Zenon
      <4>2. Before(w.bs, Join(w0, q))
        BY <2>6, <2>8
      <4>3. Safe(e) /\ e.ptr = w.bs.ptr + 2
        <5>1. Skip(w.bs, 2).ptr = w.bs.ptr + 2
          BY <2>7, <4>2, Skips
        <5> QED
          BY <2>9, <2>10, <5>1, BeforeSafe
      <4>4. e = bsSeek(w.bs, w.bs.ptr + 2)
        BY <2>9 DEF Skip
      <4>5. PICK o \in Nat : o = w.bs.ptr + 2 /\ o <= end(w.bs)
        <5>1. w.bs.ptr \in Nat
          BY <2>8, BeforeSafe, SafeNumbers
        <5>2. end(w.bs) = w.bs.ptr + Len(s)
          BY <2>8, BeforeSafe
        <5>3. Len(s) = Len(w0) + Len(q) /\ Len(w0) = 2 /\ Len(q) \in Nat
          BY <2>6, <2>7, JoinStr, StrNat DEF Sized
        <5> QED
          BY <5>1, <5>2, <5>3
      <4> QED
        BY <4>1, <4>4, <4>5, SafeSeek
    <3> QED
      BY <2>11, <3>1 DEF Goes, Kept
  <2>13. d = ReadToString(e, n)
    <3>1. t.len - 4 = n /\ n < 65536
      BY <1>1, <1>2, <1>4, <2>4 DEF Modest
    <3>2. MsgLen(t) = n
      BY <1>2, <3>1 DEF MsgLen
    <3> QED
      BY <1>6, <2>9, <3>2
  <2>14. Goes(t.bs, d.bs) /\ d.text = UpToZero(data)
    <3>1. Goes(t.bs, ReadToString(e, n).bs) /\ ReadToString(e, n).text = UpToZero(bsRead(e, n).bytes)
      BY <1>2, <2>12, SafeString, Zenon
    <3>2. bsRead(e, n).bytes = data
      <4>1. Sized(data, n) /\ Before(e, Join(data, tail))
        BY <1>1, <2>6, <2>10 DEF Sized
      <4> QED
        BY <1>2, <4>1, ReadsBytes, Zenon
    <3> QED
      BY <2>13, <3>1, <3>2
  <2>15. PICK f : f = bsSeek(d.bs, t.bs.ptr + k)
    BY Zenon
  <2>16. Before(f, tail) /\ f.ptr = inBs.ptr + 4 + k
    <3>1. Sized(v, k)
      BY <1>5 DEF Sized
    <3>2. PICK b : b = t.bs
      BY Zenon
    <3>3. Before(b, Join(v, tail)) /\ Goes(b, d.bs)
      BY <2>4, <2>14, <3>2
    <3>4. Before(bsSeek(d.bs, b.ptr + k), tail) /\ bsSeek(d.bs, b.ptr + k).ptr = b.ptr + k
      BY <1>2, <3>1, <3>3, Sought, Zenon
    <3> QED
      BY <2>4, <2>15, <3>2, <3>4
  <2>18. ~(inBs.ptr - loop.start >= loop.len) /\ t.type = 257
    BY <1>2, <1>3, <1>9, <2>1, <2>4
  <2>19. /\ stage' = "tlvs" /\ inBs' = f /\ msg'.data = d.text
         /\ loop' = [start |-> loop.start, len |-> len, msgLen |-> MsgLen(t)]
    <3>1. f = bsSeek(d.bs, p)
      BY <1>6, <2>4, <2>15
    <3>2. ~over
      BY <1>6, <2>4, <2>18
    <3>3. /\ inBs' = f /\ stage' = "tlvs" /\ loop' = [loop EXCEPT !.msgLen = MsgLen(t)]
          /\ msg' = WithText(msg, w.value, d.text)
      BY <1>7, <2>18, <3>1, <3>2
    <3>4. msg'.data = d.text
      BY <1>9, <3>3 DEF Empty, WithText
    <3> QED
      BY <1>3, <3>3, <3>4
  <2>20. f.ptr = loop.start + loop.len
    BY <1>2, <1>3, <1>4, <1>9, <2>16
  <2>21. loop' = [start |-> loop'.start, len |-> 13 + Len(data), msgLen |-> loop'.msgLen]
    BY <1>1, <2>19
  <2>22. f.ptr = loop'.start + loop'.len /\ loop'.start \in Nat
    BY <1>3, <2>19, <2>20
  <2> QED
    BY <1>1, <2>14, <2>16, <2>19, <2>21, <2>22 DEF OwnInner
<1>10. CASE inBs.ptr = loop.start + loop.len /\ msg.data = UpToZero(data)
  <2>1. inBs.ptr - loop.start >= loop.len
    BY <1>2, <1>3, <1>10
  <2>2. stage' \in {"read", "shown"} /\ inBs' = inBs /\ msg' = msg
    BY <1>6, <1>7, <2>1
  <2> QED
    BY <1>3, <1>10, <2>2
<1> QED
  BY <1>1, <1>8, <1>9, <1>10 DEF OwnInner

-----------------------------------------------------------------------------
\* What another client sends in format 1: the rounds go from TLV to TLV.

LEMMA WordThere ==
  ASSUME NEW b, Safe(b), b.ptr + 2 <= end(b), NEW w, w = bsReadWord(b)
  PROVE  Passed(b, w.bs, 2) /\ w.value = 256 * b.data[b.ptr + 1] + b.data[b.ptr + 2]
<1>1. b.data \in Seq(Octet) /\ b.ptr \in Nat /\ end(b) = Len(b.data) /\ Fits(b)
  BY SafeNumbers
<1>2. PICK s : s = SubSeq(b.data, b.ptr + 1, b.ptr + 2)
  BY Zenon
<1>3. s \in Seq(Octet) /\ Len(s) = 2 /\ \A i \in 1 .. 2 : s[i] = b.data[b.ptr + i]
  <2>1. 2 \in Nat /\ b.ptr + 2 <= Len(b.data)
    BY <1>1
  <2> QED
    BY <1>1, <1>2, <2>1, Piece
<1>4. Stands(b.data, b.ptr, s)
  BY <1>1, <1>3 DEF Stands
<1>5. PICK rd : rd = bsRead(b, 2)
  BY Zenon
<1>6. Passed(b, rd.bs, 2) /\ rd.bytes = s
  <2>1. Passed(b, bsRead(b, Len(s)).bs, Len(s)) /\ bsRead(b, Len(s)).bytes = s
    BY <1>1, <1>3, <1>4, ReadsAt
  <2> QED
    BY <1>3, <1>5, <2>1
<1>7. w = [bs |-> rd.bs, value |-> Padded(rd.bytes, 2)[1] * 256 + Padded(rd.bytes, 2)[2]]
  BY <1>5 DEF bsReadWord, Chars_2_Wordb, Result
<1>8. Padded(s, 2) = s
  <2>1. 2 \in Nat
    OBVIOUS
  <2> QED
    BY <1>3, <2>1, PaddedFull, Zenon
<1>9. s[1] \in Nat /\ s[2] \in Nat /\ s[1] = b.data[b.ptr + 1] /\ s[2] = b.data[b.ptr + 2]
  <2>1. 1 \in 1 .. Len(s) /\ 2 \in 1 .. Len(s)
    BY <1>3
  <2>2. s[1] \in Octet /\ s[2] \in Octet
    BY <1>3, <2>1, ElementOfSeq
  <2> QED
    BY <1>3, <2>1, <2>2, Octets
<1>10. s[1] * 256 + s[2] = 256 * s[1] + s[2]
  BY <1>9
<1> QED
  BY <1>6, <1>7, <1>8, <1>9, <1>10

LEMMA TlvThere ==
  ASSUME NEW b, Safe(b), b.ptr + 4 <= end(b), NEW t, t = bsReadTlv(b)
  PROVE  /\ Passed(b, t.bs, 4) /\ Goes(b, t.bs) /\ t.len \in Nat
         /\ t.type = 256 * b.data[b.ptr + 1] + b.data[b.ptr + 2]
         /\ t.len = 256 * b.data[b.ptr + 3] + b.data[b.ptr + 4]
<1>1. b.ptr \in Nat /\ end(b) \in Nat
  BY SafeNumbers
<1>2. PICK w : w = bsReadWord(b)
  BY Zenon
<1>3. PICK c : c = w.bs
  BY Zenon
<1>4. PICK l : l = bsReadWord(c)
  BY Zenon
<1>5. Passed(b, c, 2) /\ w.value = 256 * b.data[b.ptr + 1] + b.data[b.ptr + 2]
  <2>1. b.ptr + 2 <= end(b)
    BY <1>1
  <2> QED
    BY <1>2, <1>3, <2>1, WordThere
<1>6. c.data = b.data /\ c.ptr = b.ptr + 2 /\ c.fault = b.fault /\ Fits(c) /\ c.len = b.len /\ end(c) = end(b)
  BY <1>5 DEF Passed, Kept, end
<1>7. Safe(c) /\ c.ptr + 2 <= end(c)
  BY <1>1, <1>6 DEF Safe
<1>8. Passed(c, l.bs, 2) /\ l.value = 256 * c.data[c.ptr + 1] + c.data[c.ptr + 2]
  BY <1>4, <1>7, WordThere
<1>9. t = [bs |-> l.bs, type |-> w.value, len |-> l.value]
  BY <1>2, <1>3, <1>4 DEF bsReadTlv
<1>10. Passed(b, l.bs, 4)
  BY <1>1, <1>6, <1>8 DEF Passed, Kept
<1>11. c.ptr + 1 = b.ptr + 3 /\ c.ptr + 2 = b.ptr + 4
  BY <1>1, <1>6
<1>12. Goes(b, t.bs) /\ t.len \in Nat
  <2>1. Goes(b, b)
    BY Stays, Zenon
  <2> QED
    BY <2>1, SafeTlv, Zenon
<1> QED
  BY <1>5, <1>6, <1>8, <1>9, <1>10, <1>11, <1>12

LEMMA TlvOnward ==
  ASSUME NEW b, Safe(b), NEW t, t = bsReadTlv(b)
  PROVE  Goes(b, t.bs) /\ t.bs.ptr >= b.ptr
<1>1. ASSUME NEW c, Safe(c), NEW w, w = bsReadWord(c)
      PROVE  Goes(c, w.bs) /\ w.bs.ptr >= c.ptr
  <2> DEFINE got == Min({2, end(c) - c.ptr})
  <2>1. c \in Stream /\ ~c.fault /\ c.ptr <= end(c) /\ end(c) \in Nat /\ c.ptr \in Nat
    BY <1>1, SafeNumbers
  <2>2. got = (IF 2 <= end(c) - c.ptr THEN 2 ELSE end(c) - c.ptr)
    BY <2>1, LeastOfTwo
  <2>3. w.bs = IF got < 0 THEN [c EXCEPT !.fault = TRUE] ELSE [c EXCEPT !.ptr = @ + got]
    <3>1. bsRead(c, 2).bs = IF got < 0 THEN [c EXCEPT !.fault = TRUE] ELSE [c EXCEPT !.ptr = @ + got]
      BY DEF bsRead
    <3>2. w.bs = bsRead(c, 2).bs
      BY <1>1 DEF bsReadWord, Result
    <3> HIDE DEF got
    <3> QED
      BY <3>1, <3>2
  <2> HIDE DEF got
  <2>4. got \in Nat /\ ~(got < 0)
    BY <2>1, <2>2
  <2>5. w.bs.ptr = c.ptr + got
    BY <2>1, <2>3, <2>4 DEF Stream
  <2>6. Goes(c, c)
    BY <1>1, Stays, Zenon
  <2>7. Goes(c, w.bs)
    BY <1>1, <2>6, SafeReads
  <2> QED
    BY <2>1, <2>4, <2>5, <2>7
<1>2. PICK w : w = bsReadWord(b)
  BY Zenon
<1>3. Goes(b, w.bs) /\ w.bs.ptr >= b.ptr /\ Safe(w.bs)
  BY <1>1, <1>2 DEF Goes
<1>4. PICK l : l = bsReadWord(w.bs)
  BY Zenon
<1>5. Goes(w.bs, l.bs) /\ l.bs.ptr >= w.bs.ptr
  BY <1>1, <1>3, <1>4
<1>6. t.bs = l.bs
  BY <1>2, <1>4 DEF bsReadTlv
<1>7. b.ptr \in Nat /\ w.bs.ptr \in Nat /\ l.bs.ptr \in Nat
  BY <1>3, <1>5, SafeNumbers DEF Goes
<1> QED
  BY <1>3, <1>5, <1>6, <1>7 DEF Goes, Kept

Tiling(s, ends) ==
    /\ ends \in SUBSET (0 .. Len(s)) /\ 0 \in ends
    /\ \A p \in ends : p + 4 <= Len(s) =>
          /\ p + 4 + (256 * s[p + 3] + s[p + 4]) \in ends
          /\ 256 * s[p + 1] + s[p + 2] = 257 => p + 8 <= Len(s)
OnTile(b, s) ==
    \E base \in Nat, ends \in SUBSET (0 .. Len(s)) :
        /\ Tiling(s, ends) /\ Stands(b.data, base, s) /\ end(b) = base + Len(s)
        /\ \E o \in ends : b.ptr = base + o
OddInner(b, s) == Tiled(s) => Safe(b) /\ (Cut(b) \/ OnTile(b, s))

LEMMA TiledBy ==
  ASSUME NEW s, Tiled(s)
  PROVE  \E ends \in SUBSET (0 .. Len(s)) : Tiling(s, ends)
  BY DEF Tiled, Tiling, SIZEOF_TLV_HEAD

LEMMA OddFirst ==
  ASSUME NEW s \in Str, NEW b, Before(b, s), NEW t, t = bsReadTlv(b)
  PROVE  Safe(t.bs) /\ OddInner(t.bs, Behind(s, 4))
<1>1. PICK n \in Nat : n = Len(s)
  BY StrNat
<1>2. Safe(b) /\ end(b) = b.ptr + n /\ b.ptr \in Nat /\ b.data \in Seq(Octet) /\ end(b) = Len(b.data)
  BY <1>1, BeforeSafe, SafeNumbers
<1>3. Goes(b, t.bs) /\ t.bs.ptr >= b.ptr
  BY <1>2, TlvOnward
<1>4. Safe(t.bs) /\ end(t.bs) = end(b) /\ t.bs.data = b.data /\ t.bs.ptr \in Nat /\ t.bs.ptr <= end(b)
  BY <1>3, SafeNumbers DEF Goes, Kept, end
<1>5. CASE n < 4
  BY <1>2, <1>3, <1>4, <1>5 DEF OddInner, Cut, SIZEOF_TLV_HEAD
<1>6. CASE n >= 4 /\ Tiled(Behind(s, 4))
  <2>1. PICK u, k : u = Behind(s, 4) /\ k = n - 4 /\ k \in Nat
    BY <1>6
  <2>2. s \in Seq(Octet)
    BY DEF Str
  <2>3. u \in Seq(Octet) /\ Len(u) = k /\ \A i \in 1 .. k : u[i] = s[4 + i]
    <3>1. 4 \in Nat /\ 4 + k = Len(s) /\ 4 + k <= Len(s)
      BY <1>1, <2>1
    <3>2. /\ SubSeq(s, 4 + 1, 4 + k) \in Seq(Octet) /\ Len(SubSeq(s, 4 + 1, 4 + k)) = k
          /\ \A i \in 1 .. k : SubSeq(s, 4 + 1, 4 + k)[i] = s[4 + i]
      BY <2>1, <2>2, <3>1, Piece
    <3>3. u = SubSeq(s, 4 + 1, 4 + k)
      BY <2>1, <3>1 DEF Behind
    <3> QED
      BY <3>2, <3>3
  <2>4. PICK ends \in SUBSET (0 .. Len(u)) : Tiling(u, ends)
    BY <1>6, <2>1, TiledBy
  <2>5. PICK base \in Nat : base = b.ptr + 4
    BY <1>2
  <2>6. t.bs.ptr = base + 0
    <3>1. Passed(b, t.bs, 4)
      BY <1>2, <1>6, TlvThere
    <3> QED
      BY <1>2, <2>5, <3>1 DEF Passed
  <2>7. Stands(t.bs.data, base, u)
    <3>1. \A i \in 1 .. n : b.data[b.ptr + i] = s[i]
      BY <1>1 DEF Before, Stands
    <3>2. \A i \in 1 .. k : 4 + i \in 1 .. n /\ b.ptr + (4 + i) = base + i
      BY <1>1, <1>2, <1>6, <2>1, <2>5
    <3>3. \A i \in 1 .. k : b.data[base + i] = u[i]
      BY <2>3, <3>1, <3>2
    <3>4. base + k <= Len(b.data)
      BY <1>2, <1>6, <2>1, <2>5
    <3> QED
      BY <1>4, <2>3, <3>3, <3>4 DEF Stands
  <2>8. end(t.bs) = base + Len(u)
    <3>1. end(t.bs) = b.ptr + n /\ b.ptr \in Nat
      BY <1>2, <1>4
    <3>2. Len(u) = n - 4 /\ base = b.ptr + 4
      BY <2>1, <2>3, <2>5
    <3> QED
      BY <1>1, <3>1, <3>2
  <2>9. 0 \in ends
    BY <2>4 DEF Tiling
  <2>10. OnTile(t.bs, u)
    BY <2>4, <2>6, <2>7, <2>8, <2>9 DEF OnTile
  <2> QED
    BY <1>4, <2>1, <2>10 DEF OddInner
<1>7. CASE ~Tiled(Behind(s, 4))
  BY <1>4, <1>7 DEF OddInner
<1> QED
  BY <1>5, <1>6, <1>7

\* Wherever the reader goes next is in the packet.
LEMMA TileThere ==
  ASSUME NEW b, Safe(b), ~Cut(b), NEW s \in Str, OnTile(b, s), NEW t, t = bsReadTlv(b), NEW p, p = t.bs.ptr + t.len
  PROVE  /\ Goes(b, t.bs) /\ p \in Nat /\ p <= end(b)
         /\ t.type = 257 => t.bs.ptr + 4 <= end(b)
         /\ \A c : Kept(b, c) /\ c.ptr = p => OnTile(c, s)
<1>1. PICK base \in Nat, ends \in SUBSET (0 .. Len(s)) :
        /\ Tiling(s, ends) /\ Stands(b.data, base, s) /\ end(b) = base + Len(s)
        /\ \E o \in ends : b.ptr = base + o
  BY DEF OnTile
<1>2. PICK o \in ends : b.ptr = base + o
  BY <1>1
<1>3. PICK n \in Nat : n = Len(s)
  BY StrNat
<1>4. o \in 0 .. n /\ ends \subseteq 0 .. n
  BY <1>1, <1>2, <1>3
<1>5. b.ptr + 4 <= end(b) /\ o + 4 <= n
  <2>1. b.ptr \in Nat /\ end(b) \in Nat /\ b.ptr <= end(b)
    BY SafeNumbers
  <2> QED
    <3>1. ~(end(b) - b.ptr \in 0 .. 3)
      BY DEF Cut, SIZEOF_TLV_HEAD
    <3>2. PICK e \in Nat, q \in Nat : e = end(b) /\ q = b.ptr
      BY <2>1
    <3>3. q + 4 <= e
      BY <2>1, <3>1, <3>2
    <3> QED
      BY <1>1, <1>2, <1>3, <1>4, <3>2, <3>3
<1>6. /\ Passed(b, t.bs, 4) /\ Goes(b, t.bs) /\ t.len \in Nat
      /\ t.type = 256 * b.data[b.ptr + 1] + b.data[b.ptr + 2]
      /\ t.len = 256 * b.data[b.ptr + 3] + b.data[b.ptr + 4]
  BY <1>5, TlvThere
<1>7. \A i \in 1 .. 4 : b.data[b.ptr + i] = s[o + i]
  <2>1. \A i \in 1 .. n : b.data[base + i] = s[i]
    BY <1>1, <1>3 DEF Stands
  <2>2. \A i \in 1 .. 4 : o + i \in 1 .. n /\ b.ptr + i = base + (o + i)
    BY <1>2, <1>3, <1>4, <1>5
  <2> QED
    BY <2>1, <2>2
<1>8. t.type = 256 * s[o + 1] + s[o + 2] /\ t.len = 256 * s[o + 3] + s[o + 4]
  BY <1>6, <1>7
<1>9. o + 4 + t.len \in ends /\ (t.type = 257 => o + 8 <= n)
  BY <1>1, <1>3, <1>5, <1>8 DEF Tiling
<1>10. t.bs.ptr = base + o + 4
  BY <1>2, <1>4, <1>6 DEF Passed
<1>11. p = base + (o + 4 + t.len) /\ p \in Nat /\ p <= end(b)
  <2>1. PICK k \in Nat, l \in Nat : k = o + 4 + t.len /\ l = t.len /\ k <= n
    BY <1>4, <1>6, <1>9
  <2>2. p = base + k /\ k = o + 4 + l
    BY <1>4, <1>10, <2>1
  <2> QED
    BY <1>1, <1>3, <2>1, <2>2
<1>12. t.type = 257 => t.bs.ptr + 4 <= end(b)
  BY <1>1, <1>3, <1>4, <1>9, <1>10
<1>13. ASSUME NEW c, Kept(b, c), c.ptr = p
       PROVE  OnTile(c, s)
  <2>1. c.data = b.data /\ end(c) = end(b)
    BY <1>13 DEF Kept, end
  <2>2. \E o1 \in ends : c.ptr = base + o1
    BY <1>9, <1>11, <1>13
  <2> QED
    BY <1>1, <2>1, <2>2 DEF OnTile
<1> QED
  BY <1>6, <1>11, <1>12, <1>13

LEMMA OddRound ==
  ASSUME NEW s \in Str, OddInner(inBs, s), NextInner
  PROVE  stage' \in {"tlvs", "read", "shown"} /\ OddInner(inBs', s)
<1>1. PICK t : t = bsReadTlv(inBs)
  BY Zenon
<1>2. PICK over, w, d, p : /\ over = (inBs.ptr - loop.start >= loop.len \/ Cut(inBs)) /\ w = bsReadWord(t.bs)
                           /\ d = ReadToString(Skip(w.bs, 2), MsgLen(t)) /\ p = t.bs.ptr + t.len
  BY Zenon
<1>3. \/ over /\ stage' \in {"read", "shown"} /\ inBs' = inBs
      \/ ~over /\ t.type = 257 /\ stage' = "tlvs" /\ inBs' = bsSeek(d.bs, p)
      \/ ~over /\ t.type # 257 /\ stage' = "tlvs" /\ inBs' = bsSeek(t.bs, p)
  BY <1>1, <1>2 DEF NextInner
<1>4. CASE over /\ stage' \in {"read", "shown"} /\ inBs' = inBs
  BY <1>4
<1>5. CASE ~over /\ Tiled(s)
  <2>1. PICK b : b = inBs
    BY Zenon
  <2>2. Safe(b) /\ ~Cut(b) /\ OnTile(b, s) /\ Goes(b, b)
    BY <1>2, <1>5, <2>1, Stays DEF OddInner
  <2>3. /\ Goes(b, t.bs) /\ p \in Nat /\ p <= end(b)
        /\ t.type = 257 => t.bs.ptr + 4 <= end(b)
        /\ \A c : Kept(b, c) /\ c.ptr = p => OnTile(c, s)
    BY <1>1, <1>2, <2>1, <2>2, TileThere
  <2>4. \A c : Goes(b, c) => Goes(b, bsSeek(c, p)) /\ bsSeek(c, p).ptr = p
    BY <2>3, SafeSeek
  <2>5. \A c : Goes(b, c) => OddInner(bsSeek(c, p), s)
    BY <2>3, <2>4 DEF OddInner, Goes
  <2>6. ASSUME t.type = 257
        PROVE  Goes(b, d.bs)
    <3>1. t.bs.ptr \in Nat /\ end(t.bs) = end(b) /\ Safe(t.bs) /\ end(b) \in Nat
      BY <2>3, SafeNumbers DEF Goes, Kept, end
    <3>2. Passed(t.bs, w.bs, 2)
      <4>1. PICK c : c = t.bs
        BY Zenon
      <4>2. c.ptr + 2 <= end(c)
        BY <2>3, <2>6, <3>1, <4>1
      <4> QED
        BY <1>2, <3>1, <4>1, <4>2, WordThere
    <3>3. Goes(b, w.bs)
      BY <1>2, <2>3, SafeReads
    <3>4. PICK o \in Nat : o = w.bs.ptr + 2 /\ o <= end(b)
      BY <2>3, <2>6, <3>1, <3>2 DEF Passed
    <3>5. PICK e : e = Skip(w.bs, 2)
      BY Zenon
    <3>6. Goes(b, e)
      <4>1. Goes(b, bsSeek(w.bs, o))
        BY <3>3, <3>4, SafeSeek
      <4> QED
        BY <3>4, <3>5, <4>1 DEF Skip
    <3>7. MsgLen(t) \in Nat
      <4>1. \A k \in Int : k % 65536 \in Nat
        OBVIOUS
      <4>2. t.len - 4 \in Int
        BY <1>1, <2>1, <2>2, SafeTlv
      <4> QED
        BY <4>1, <4>2 DEF MsgLen
    <3>8. Goes(b, ReadToString(e, MsgLen(t)).bs)
      BY <3>6, <3>7, SafeString, Zenon
    <3> QED
      BY <1>2, <3>5, <3>8
  <2> QED
    BY <1>3, <1>5, <2>3, <2>5, <2>6
<1>6. CASE ~over /\ ~Tiled(s)
  BY <1>3, <1>6 DEF OddInner
<1> QED
  BY <1>3, <1>4, <1>5, <1>6

-----------------------------------------------------------------------------
\* What the receiver holds, from stage to stage.
Rightly ==
    /\ ReadsWithin
    /\ channel = 1 /\ job.how # "odd" => msg.data = UpToZero(job.data)
    /\ job.how = "foreign" =>
          /\ msg.type % 256 = job.type
          /\ \/ msg.data = job.text
             \/ job.said < Len(job.text) /\ msg.data = SubSeq(job.text, 1, job.said)
Resting == Comes(job) /\ Before(inBs, Rest(job)) /\ channel = job.format /\ channel # 0
Looping ==
    \/ Own(job) /\ OwnInner(inBs, loop, msg, Charset(job.slave), job.data)
    \/ Odd(job) /\ OddInner(inBs, Behind(job.data, 4))
ReadInv ==
    /\ stage \in {"idle", "sent", "relayed", "typed", "tlvs", "search", "read", "shown"}
    /\ stage \in {"idle", "sent"} => ~inBs.fault
    /\ stage \in {"idle", "sent", "relayed"} => channel = 0
    /\ stage \in {"idle", "sent", "relayed", "typed"} => msg = Empty
    /\ stage = "sent" => Packed(job, bs)
    /\ stage = "relayed" => Arriving
    /\ stage = "typed" => Resting
    /\ stage = "tlvs" => channel = 1 /\ Looping
    /\ stage = "search" => channel = 2 /\ job.how # "foreign"
    /\ stage \in {"read", "shown"} => Rightly

LEMMA ReadStart == MsgInit => ReadInv
  BY DEF MsgInit, ReadInv, initBs

LEMMA CommandsLeave ==
  ASSUME \/ cmdMSG_main \/ cmdMPLAIN \/ YSM_DoChatCommand
         \/ YSM_SendUrl \/ YSM_SendContact \/ YSM_SendRTF
         \/ YSM_RequestAutoMessage \/ YSM_Scan_Slave
  PROVE  UNCHANGED <<inBs, msg, channel>>
  BY DEF cmdMSG_main, cmdMPLAIN, YSM_DoChatCommand, YSM_SendUrl, YSM_SendContact, YSM_SendRTF,
         YSM_RequestAutoMessage, YSM_Scan_Slave, sendMessage, Sends

LEMMA ReadSent ==
  ASSUME ReadInv, \/ cmdMSG_main \/ cmdMPLAIN \/ YSM_DoChatCommand
                  \/ YSM_SendUrl \/ YSM_SendContact \/ YSM_SendRTF
                  \/ YSM_RequestAutoMessage \/ YSM_Scan_Slave
  PROVE  ReadInv'
<1>1. stage = "idle" /\ stage' = "sent" /\ Packed(job', bs')
  BY CommandsPack
<1>2. inBs' = inBs /\ msg' = msg /\ channel' = channel
  BY CommandsLeave
<1> QED
  BY <1>1, <1>2 DEF ReadInv

LEMMA ReadRelayed ==
  ASSUME ReadInv, Relays \/ SomebodyWrites
  PROVE  ReadInv'
<1>1. stage' = "relayed" /\ channel' = channel /\ msg' = Empty /\ stage \in {"idle", "sent"}
  BY DEF Relays, SomebodyWrites, Delivers
<1>2. Arriving'
  <2>1. CASE Relays
    <3>1. stage = "sent"
      BY <2>1 DEF Relays
    <3>2. Packed(job, bs)
      BY <3>1 DEF ReadInv
    <3> QED
      BY <2>1, <3>2, RelaysWhole
  <2>2. CASE SomebodyWrites
    BY <2>2, SomebodyWhole
  <2> QED
    BY <2>1, <2>2
<1> QED
  BY <1>1, <1>2 DEF ReadInv

LEMMA ReadTyped ==
  ASSUME ReadInv, receiveMessage
  PROVE  ReadInv'
<1>1. stage = "relayed" /\ job.format # 0 /\ stage' = "typed" /\ job' = job /\ msg' = msg
  BY DEF receiveMessage
<1>2. PICK f, e : f = job.format /\ e = Rest(job)
  BY Zenon
<1>3. Comes(job) /\ Before(inBs, Join(ServerHead(f), e)) /\ e \in Str /\ msg = Empty
  BY <1>1, <1>2 DEF ReadInv, Arriving
<1>4. f \in Word
  <2>1. f \in {0, 1, 2, 4}
    BY <1>2, <1>3 DEF Comes, Own, Foreign, Odd
  <2>2. f \in Byte
    BY <2>1 DEF Byte
  <2> QED
    BY <2>2, ByteWord, Zenon
<1>5. LET w == bsReadWord(bsRead(inBs, 8).bs)
          u == bsReadByte(w.bs)
          v == bsReadWord(bsRead(u.bs, u.value).bs)
          c == bsReadWord(v.bs)
      IN w.value = f /\ Before(SkipTlvs(c.bs, c.value), e)
  BY <1>3, <1>4, WholeHeadRead
<1>6. channel' = f /\ Before(inBs', e)
  <2> DEFINE w == bsReadWord(bsRead(inBs, 8).bs)
             u == bsReadByte(w.bs)
             v == bsReadWord(bsRead(u.bs, u.value).bs)
             c == bsReadWord(v.bs)
  <2>1. channel' = w.value /\ inBs' = SkipTlvs(c.bs, c.value)
    BY Zenon DEF receiveMessage
  <2>2. w.value = f /\ Before(SkipTlvs(c.bs, c.value), e)
    BY <1>5, Zenon
  <2> HIDE DEF w, u, v, c
  <2> QED
    BY <2>1, <2>2
<1>7. Resting'
  BY <1>1, <1>2, <1>3, <1>6 DEF Resting
<1> QED
  BY <1>1, <1>3, <1>7 DEF ReadInv

LEMMA ReadOffline ==
  ASSUME ReadInv, OfflineMessage
  PROVE  ReadInv'
<1>1. stage = "relayed" /\ job.format = 0 /\ stage' = "read" /\ job' = job /\ channel' = 0
  BY DEF OfflineMessage
<1>2. Arriving /\ msg = Empty
  BY <1>1 DEF ReadInv
<1>3. PICK type, text, said : type = job.type /\ text = job.text /\ said = job.said
  BY Zenon
<1>4. Foreign(job) /\ \E last \in Terminators : Before(inBs, Offline(type, text, last, said))
  BY <1>1, <1>2, <1>3 DEF Arriving
<1>5. PICK last \in Terminators : Before(inBs, Offline(type, text, last, said))
  BY <1>4
<1>6. type \in Byte /\ text \in Letters /\ said \in Word /\ job.how = "foreign"
  BY <1>3, <1>4 DEF Foreign
<1> DEFINE t == bsReadByte(Skip(inBs, 10))
<1>7. \E junk \in Junk, more \in Junk :
        LET e == WaitingText(Skip(t.bs, 1), more)
        IN inBs' = e.bs /\ msg' = [msg EXCEPT !.type = t.value + 256 * junk, !.data = UpToZero(e.value)]
  BY Zenon DEF OfflineMessage
<1> HIDE DEF t
<1>8. PICK junk \in Junk, more \in Junk :
        LET e == WaitingText(Skip(t.bs, 1), more)
        IN inBs' = e.bs /\ msg' = [msg EXCEPT !.type = t.value + 256 * junk, !.data = UpToZero(e.value)]
  BY <1>7, Zenon
<1>9. PICK many : many = 65536 * more
  OBVIOUS
<1>10. PICK e, v : e = bsReadString(Skip(t.bs, 1), "string16", many) /\ v = UpToZero(e.value)
  BY Zenon
<1>11. inBs' = e.bs /\ msg' = [msg EXCEPT !.type = t.value + 256 * junk, !.data = v]
  <2>1. e = WaitingText(Skip(t.bs, 1), more)
    BY <1>9, <1>10 DEF WaitingText
  <2> QED
    BY <1>8, <1>10, <2>1
<1>12. junk \in Nat /\ more \in Nat
  BY TextsAssumption
<1>13. many \in Nat /\ (many = 0 \/ Len(text) <= many)
  <2>1. Len(text) \in Nat /\ Len(text) <= 30000
    BY <1>6, TextStr DEF Brief
  <2>2. more = 0 \/ more >= 1
    BY <1>12
  <2> QED
    BY <1>9, <1>12, <2>1, <2>2
<1>14. t.value = type /\ ~e.bs.fault /\ (v = text \/ (said < Len(text) /\ v = SubSeq(text, 1, said)))
  BY <1>5, <1>6, <1>10, <1>13, OfflineRead DEF t
<1>15. msg'.data = v /\ msg'.type = type + 256 * junk
  BY <1>2, <1>11, <1>14 DEF Empty
<1>16. (type + 256 * junk) % 256 = type
  BY <1>6, <1>12, TypeModulo
<1>17. Rightly'
  BY <1>1, <1>3, <1>11, <1>14, <1>15, <1>16 DEF Rightly, ReadsWithin
<1> QED
  BY <1>1, <1>17 DEF ReadInv

LEMMA ReadFirst ==
  ASSUME ReadInv, YSM_ReceiveMessageType1
  PROVE  ReadInv'
<1>1. stage = "typed" /\ channel = 1 /\ job' = job /\ channel' = channel
  BY DEF YSM_ReceiveMessageType1
<1>2. Comes(job) /\ Before(inBs, Rest(job)) /\ job.format = 1 /\ msg = Empty
  BY <1>1 DEF ReadInv, Resting
<1>3. PICK t : t = bsReadTlv(inBs)
  BY Zenon
<1>4. \/ t.type # 2 /\ stage' = "shown" /\ inBs' = inBs
      \/ t.type = 2 /\ stage' = "tlvs" /\ inBs' = t.bs /\ loop' = [start |-> t.bs.ptr, len |-> t.len, msgLen |-> 0]
         /\ msg' = msg
  BY <1>3 DEF YSM_ReceiveMessageType1, Unread
<1>5. CASE Own(job)
  <2>1. PICK slave, data : slave = job.slave /\ data = job.data
    BY Zenon
  <2>2. slave.utf8 \in BOOLEAN /\ data \in Str /\ Modest(data) /\ job.how \notin {"foreign", "odd"}
    BY <1>5, <2>1 DEF Own, Slaves, Payload
  <2>3. Before(inBs, Outer1(slave, data))
    BY <1>2, <2>1, <2>2 DEF Rest, Outer
  <2>4. PICK c : c = [start |-> t.bs.ptr, len |-> t.len, msgLen |-> 0]
    BY Zenon
  <2>5. t.type = 2 /\ OwnInner(t.bs, c, Empty, Charset(slave), data)
    BY <1>3, <2>2, <2>3, <2>4, OwnFirst
  <2>6. Looping'
    BY <1>1, <1>2, <1>4, <1>5, <2>1, <2>4, <2>5 DEF Looping
  <2> QED
    BY <1>1, <1>4, <2>5, <2>6 DEF ReadInv
<1>6. CASE Odd(job)
  <2>1. PICK s : s = job.data
    BY Zenon
  <2>2. s \in Str /\ job.how = "odd"
    BY <1>6, <2>1, OddStr DEF Odd
  <2>3. Before(inBs, s)
    BY <1>2, <2>1, <2>2 DEF Rest
  <2>4. OddInner(t.bs, Behind(s, 4))
    BY <1>3, <2>2, <2>3, OddFirst
  <2>5. ~inBs.fault
    BY <2>3 DEF Before
  <2>6. CASE stage' = "shown" /\ inBs' = inBs
    <3>1. Rightly'
      BY <1>1, <2>2, <2>5, <2>6 DEF Rightly, ReadsWithin
    <3> QED
      BY <2>6, <3>1 DEF ReadInv
  <2>7. CASE stage' = "tlvs" /\ inBs' = t.bs
    <3>1. Looping'
      BY <1>1, <1>6, <2>1, <2>4, <2>7 DEF Looping
    <3> QED
      BY <1>1, <2>7, <3>1 DEF ReadInv
  <2> QED
    BY <1>4, <2>6, <2>7
<1>7. ~Foreign(job)
  BY <1>2 DEF Foreign
<1> QED
  BY <1>2, <1>5, <1>6, <1>7 DEF Comes

LEMMA OddBehind ==
  ASSUME NEW body \in Garbled
  PROVE  Behind(body, 4) \in Str
<1>1. body \in Seq(Octet) /\ Len(body) \in Nat
  BY OddStr DEF Str
<1>2. SubSeq(body, 4 + 1, Len(body)) \in Seq(Octet)
  BY <1>1
<1> QED
  BY <1>2 DEF Behind, Str

LEMMA ReadInner ==
  ASSUME ReadInv, NextInner
  PROVE  ReadInv'
<1>1. stage = "tlvs" /\ job' = job /\ channel' = channel
  BY DEF NextInner
<1>2. channel = 1 /\ Looping
  BY <1>1 DEF ReadInv
<1>3. CASE Own(job) /\ OwnInner(inBs, loop, msg, Charset(job.slave), job.data)
  <2>1. PICK cs, data : cs = Charset(job.slave) /\ data = job.data
    BY Zenon
  <2>2. cs \in Byte /\ data \in Str /\ Modest(data) /\ job.how \notin {"foreign", "odd"}
    BY <1>3, <2>1 DEF Own, Payload, Charset, Byte
  <2>3. \/ stage' = "tlvs" /\ OwnInner(inBs', loop', msg', cs, data)
        \/ stage' \in {"read", "shown"} /\ ~inBs'.fault /\ msg'.data = UpToZero(data)
    BY <1>3, <2>1, <2>2, OwnRound
  <2>4. CASE stage' = "tlvs" /\ OwnInner(inBs', loop', msg', cs, data)
    <3>1. Looping'
      BY <1>1, <1>3, <2>1, <2>4 DEF Looping
    <3> QED
      BY <1>1, <1>2, <2>4, <3>1 DEF ReadInv
  <2>5. CASE stage' \in {"read", "shown"} /\ ~inBs'.fault /\ msg'.data = UpToZero(data)
    <3>1. Rightly'
      BY <1>1, <1>2, <2>1, <2>2, <2>5 DEF Rightly, ReadsWithin
    <3> QED
      BY <2>5, <3>1 DEF ReadInv
  <2> QED
    BY <2>3, <2>4, <2>5
<1>4. CASE Odd(job) /\ OddInner(inBs, Behind(job.data, 4))
  <2>1. PICK s : s = Behind(job.data, 4)
    BY Zenon
  <2>2. s \in Str /\ job.how = "odd"
    BY <1>4, <2>1, OddBehind DEF Odd
  <2>3. stage' \in {"tlvs", "read", "shown"} /\ OddInner(inBs', s)
    BY <1>4, <2>1, <2>2, OddRound
  <2>4. CASE stage' = "tlvs"
    <3>1. Looping'
      BY <1>1, <1>4, <2>1, <2>3 DEF Looping
    <3> QED
      BY <1>1, <1>2, <2>4, <3>1 DEF ReadInv
  <2>5. CASE stage' \in {"read", "shown"}
    <3>1. Tiled(s) => ~inBs'.fault
      BY <2>3 DEF OddInner, Safe
    <3>2. Rightly'
      BY <1>1, <1>2, <2>1, <2>2, <3>1 DEF Rightly, ReadsWithin, SIZEOF_TLV_HEAD
    <3> QED
      BY <2>5, <3>2 DEF ReadInv
  <2> QED
    BY <2>3, <2>4, <2>5
<1> QED
  BY <1>2, <1>3, <1>4 DEF Looping

LEMMA ReadSecond ==
  ASSUME ReadInv, YSM_ReceiveMessageType2
  PROVE  ReadInv'
<1>1. stage = "typed" /\ channel = 2 /\ job' = job /\ channel' = channel /\ stage' \in {"shown", "search"}
  BY DEF YSM_ReceiveMessageType2, Unread
<1>2. Comes(job) /\ job.format = 2
  BY <1>1 DEF ReadInv, Resting
<1>3. job.how # "foreign"
  BY <1>2 DEF Comes, Own, Foreign, Odd
<1>4. Rightly'
  BY <1>1, <1>3 DEF Rightly, ReadsWithin
<1> QED
  BY <1>1, <1>3, <1>4 DEF ReadInv

LEMMA ReadSearch ==
  ASSUME ReadInv, Next2711
  PROVE  ReadInv'
<1>1. ASSUME NEW b, YSM_ReceiveMessageType2Common(b)
      PROVE  stage' \in {"read", "shown"}
  BY <1>1 DEF YSM_ReceiveMessageType2Common
<1>2. stage = "search" /\ job' = job /\ channel' = channel
  BY DEF Next2711
<1>3. stage' = stage \/ stage' \in {"read", "shown"}
  BY <1>1 DEF Next2711, Unread
<1>4. channel = 2 /\ job.how # "foreign"
  BY <1>2 DEF ReadInv
<1>5. Rightly'
  BY <1>2, <1>4 DEF Rightly, ReadsWithin
<1> QED
  BY <1>2, <1>3, <1>4, <1>5 DEF ReadInv

LEMMA ReadFourth ==
  ASSUME ReadInv, YSM_ReceiveMessageType4
  PROVE  ReadInv'
<1>1. stage = "typed" /\ channel = 4 /\ job' = job /\ channel' = channel
  BY DEF YSM_ReceiveMessageType4
<1>2. Comes(job) /\ Before(inBs, Rest(job)) /\ job.format = 4 /\ msg = Empty
  BY <1>1 DEF ReadInv, Resting
<1>3. PICK t, k, l, e : /\ t = bsReadTlv(inBs) /\ k = bsReadByte(bsRead(t.bs, 4).bs)
                        /\ l = bsReadWordLE(bsReadByte(k.bs).bs) /\ e = ReadToString(l.bs, l.value)
  BY Zenon
<1>4. \/ t.type # 5 /\ stage' = "shown" /\ inBs' = inBs
      \/ /\ t.type = 5 /\ stage' = "read" /\ inBs' = e.bs
         /\ msg' = [msg EXCEPT !.type = k.value, !.data = e.text]
  BY <1>3 DEF YSM_ReceiveMessageType4, Unread
<1>5. Safe(inBs) /\ ~inBs.fault
  BY <1>2, BeforeSafe DEF Before
<1>6. ~inBs'.fault
  <2>1. PICK b : b = inBs
    BY Zenon
  <2>2. ~e.bs.fault
    BY <1>3, <1>5, <2>1, FourSafe
  <2> QED
    BY <1>4, <1>5, <2>2
<1>7. stage' \in {"read", "shown"} /\ ReadsWithin'
  BY <1>4, <1>6 DEF ReadsWithin
<1>8. CASE job.how # "foreign"
  <2>1. Rightly'
    BY <1>1, <1>7, <1>8 DEF Rightly
  <2> QED
    BY <1>7, <2>1 DEF ReadInv
<1>9. CASE job.how = "foreign"
  <2>1. PICK type, text : type = job.type /\ text = job.text
    BY Zenon
  <2>2. type \in Byte /\ text \in Letters
    BY <1>2, <1>9, <2>1 DEF Comes, Own, Foreign, Odd
  <2>3. Before(inBs, Join(HeadOf(5, Len(ForeignBody(type, text))), ForeignBody(type, text)))
    BY <1>2, <1>9, <2>1 DEF Rest
  <2>4. t.type = 5 /\ k.value = type /\ e.text = text
    <3>1. PICK b : b = inBs
      BY Zenon
    <3> QED
      BY <1>3, <2>2, <2>3, <3>1, ForeignRead
  <2>5. msg'.type = type /\ msg'.data = text
    BY <1>2, <1>4, <2>4 DEF Empty
  <2>6. type % 256 = type
    BY <2>2 DEF Byte
  <2>7. Rightly'
    BY <1>1, <1>7, <2>1, <2>5, <2>6 DEF Rightly
  <2> QED
    BY <1>7, <2>7 DEF ReadInv
<1> QED
  BY <1>8, <1>9

LEMMA ReadStep == ReadInv /\ [MsgNext]_msgVars => ReadInv'
<1> SUFFICES ASSUME ReadInv, [MsgNext]_msgVars
             PROVE  ReadInv'
  OBVIOUS
<1>1. CASE YSM_ReceiveMessageData
  <2>1. /\ stage \in {"read", "shown"} /\ stage' = "shown" /\ job' = job /\ inBs' = inBs /\ msg' = msg
        /\ channel' = channel
    BY <1>1 DEF YSM_ReceiveMessageData
  <2>2. Rightly'
    BY <2>1 DEF ReadInv, Rightly, ReadsWithin
  <2> QED
    BY <2>1, <2>2 DEF ReadInv
<1>2. CASE NextMessage
  BY <1>2 DEF NextMessage, ReadInv, initBs
<1>3. CASE UNCHANGED msgVars
  <2>1. UNCHANGED <<stage, job, bs, inBs, msg, channel, loop>>
    BY <1>3 DEF msgVars
  <2>2. UNCHANGED <<Arriving, Resting, Looping, Rightly>>
    BY <2>1 DEF Arriving, Resting, Looping, Rightly, ReadsWithin
  <2> QED
    BY <2>1, <2>2 DEF ReadInv
<1> QED
  BY <1>1, <1>2, <1>3, ReadSent, ReadRelayed, ReadTyped, ReadOffline, ReadFirst, ReadInner, ReadSecond, ReadSearch,
     ReadFourth DEF MsgNext

LEMMA ReadAlways == MsgSpec => []ReadInv
<1>1. MsgInit => ReadInv
  BY ReadStart
<1>2. ReadInv /\ [MsgNext]_msgVars => ReadInv'
  BY ReadStep
<1> QED
  BY <1>1, <1>2, PTL DEF MsgSpec

\* The text that is read is the text that was written, for every text: that of
\* a message of format 1 of our own, through every round of the loop over its
\* TLVs, and the text and the type of another client's message; of one that
\* waited at the server, as much as its length lets through, whatever the
\* uninitialized half of that length holds.
THEOREM WrittenIsRead == MsgSpec => []TextRead
<1>1. ReadInv => TextRead
  BY DEF ReadInv, Rightly, TextRead
<1> QED
  BY <1>1, ReadAlways, PTL

\* No bytes that another client puts behind the head of a message of format 4,
\* and no length an offline message claims, make the reader leave its packet;
\* nor does a message of format 1 whose inner TLVs follow one another within
\* it, whatever their types and the outer length.
THEOREM ReaderStays == MsgSpec => []ReadsWithin
<1>1. ASSUME ReadInv
      PROVE  ReadsWithin
  <2>1. CASE stage \in {"idle", "sent", "search", "read", "shown"}
    BY <1>1, <2>1 DEF ReadInv, Rightly, ReadsWithin
  <2>2. CASE stage \in {"relayed", "typed"}
    BY <1>1, <2>2 DEF ReadInv, Arriving, Resting, Before, ReadsWithin
  <2>3. CASE stage = "tlvs"
    <3>1. CASE Own(job) /\ OwnInner(inBs, loop, msg, Charset(job.slave), job.data)
      <4>1. ~inBs.fault
        BY <3>1 DEF OwnInner, Before
      <4> QED
        BY <4>1 DEF ReadsWithin
    <3>2. CASE Odd(job) /\ OddInner(inBs, Behind(job.data, 4))
      BY <1>1, <2>3, <3>2 DEF ReadInv, Odd, OddInner, Safe, ReadsWithin, SIZEOF_TLV_HEAD
    <3> QED
      BY <1>1, <2>3, <3>1, <3>2 DEF ReadInv, Looping
  <2> QED
    BY <1>1, <2>1, <2>2, <2>3 DEF ReadInv
<1>2. ReadInv => ReadsWithin
  BY <1>1
<1> QED
  BY <1>2, ReadAlways, PTL
=============================================================================
