------------------------------- MODULE Bytes -------------------------------
(***************************************************************************)
(* Byte streams (src/bytestream.c), the conversions of src/toolbox.c and   *)
(* the OSCAR fields written to and read from a stream (src/bs_oscar.c).    *)
(*                                                                         *)
(* Bytes are numbers below 256; a word is a number below 65536; a double   *)
(* word, which TLC's integers do not hold, is the sequence of its four     *)
(* bytes, most significant first.                                          *)
(***************************************************************************)
EXTENDS Integers, Sequences, SequencesExt, FiniteSetsExt

CONSTANT BS_INIT_LEN        \* the size of the first allocation

ASSUME InitLenAssumption == BS_INIT_LEN \in Nat \ {0}

None == -1
SIZEOF_FLAP_HEAD == 6
FLAP_LEN_OFFSET == 4
SIZEOF_TLV_HEAD == 4
TLV_LEN_OFFSET == 2

-----------------------------------------------------------------------------
\* bytestream.c.  data holds the bytes below end; len is the size of the
\* allocation the code believes in, held whether there is one.

initBs == [data |-> <<>>, ptr |-> 0, len |-> 0, held |-> FALSE,
           invalid |-> FALSE, fault |-> FALSE, full |-> FALSE]

end(bs) == Len(bs.data)

\* reallocBsDataIfNeeded: with no allocation yet, len is set before the first
\* one is tried, and keeps the value when it fails.
reallocBsDataIfNeeded_silent(bs, extra, oom) ==    \* slip: forgets the flag
    LET unit == IF bs.len = 0 THEN BS_INIT_LEN ELSE bs.len
        newLen == ((end(bs) + extra) \div unit + 1) * unit
    IN IF end(bs) + extra <= bs.len THEN [bs EXCEPT !.full = FALSE]
       ELSE IF oom THEN [bs EXCEPT !.full = TRUE]
       ELSE [bs EXCEPT !.len = newLen, !.held = TRUE, !.full = FALSE]
reallocBsDataIfNeeded_short(bs, extra, oom) ==     \* slip: rounds down
    LET unit == IF bs.len = 0 THEN BS_INIT_LEN ELSE bs.len
        newLen == ((end(bs) + extra) \div unit) * unit
    IN IF end(bs) + extra <= bs.len THEN [bs EXCEPT !.full = FALSE]
       ELSE IF oom THEN [bs EXCEPT !.len = unit, !.invalid = TRUE, !.full = TRUE]
       ELSE [bs EXCEPT !.len = newLen, !.held = TRUE, !.full = FALSE]
reallocBsDataIfNeeded(bs, extra, oom) ==
    LET unit == IF bs.len = 0 THEN BS_INIT_LEN ELSE bs.len
        newLen == ((end(bs) + extra) \div unit + 1) * unit
    IN IF end(bs) + extra <= bs.len THEN [bs EXCEPT !.full = FALSE]
       ELSE IF oom THEN [bs EXCEPT !.len = unit, !.invalid = TRUE, !.full = TRUE]
       ELSE [bs EXCEPT !.len = newLen, !.held = TRUE, !.full = FALSE,
                       !.ptr = Min({@, newLen - 1})]

\* The position bsAppend returns.
Appended(bs, n) == IF bs.full THEN None ELSE end(bs) - n

bsAppend(bs, bytes, oom) ==
    LET b == reallocBsDataIfNeeded(bs, Len(bytes), oom)
    IN IF b.full THEN b
       ELSE IF ~b.held /\ bytes # <<>> THEN [b EXCEPT !.fault = TRUE]
       ELSE [b EXCEPT !.data = @ \o bytes]

\* bsRead clips at the end, but not when ptr is past it: the count is then
\* negative and memcpy runs away.
bsRead(bs, n) ==
    LET got == Min({n, end(bs) - bs.ptr})
    IN IF got < 0 THEN [bs |-> [bs EXCEPT !.fault = TRUE], bytes |-> <<>>]
       ELSE [bs |-> [bs EXCEPT !.ptr = @ + got],
             bytes |-> SubSeq(bs.data, bs.ptr + 1, bs.ptr + got)]

\* bsSeek is bounded by the allocation, not by the end; beyond it, it does nothing.
bsSeek(bs, pos) == IF pos <= bs.len THEN [bs EXCEPT !.ptr = pos] ELSE bs

bsUpdate(bs, pos, bytes) ==
    IF pos + Len(bytes) > end(bs) THEN bs
    ELSE [bs EXCEPT !.data = [i \in 1 .. end(bs) |->
              IF i \in pos + 1 .. pos + Len(bytes) THEN bytes[i - pos] ELSE @[i]]]

\* bsAppendFromSocket: what was read counts, and so does the -1 of an error,
\* which is taken for a large unsigned number and moves the end back.
AppendFromSocket(bs, bytes) == [bs EXCEPT !.data = @ \o bytes]
AppendError(bs) == [bs EXCEPT !.data = IF @ = <<>> THEN @ ELSE Front(@)]

-----------------------------------------------------------------------------
\* Conversions of toolbox.c.  Bytes the stream could not supply are whatever
\* the buffer held: 0 stands for them.

Word_2_Charsb(n) == <<(n \div 256) % 256, n % 256>>
Word_2_Chars(n) == <<n % 256, (n \div 256) % 256>>
DW_2_Charsb(d) == d
DW_2_Chars(d) == Reverse(d)
Padded(bytes, n) == bytes \o [i \in 1 .. n - Len(bytes) |-> 0]
Chars_2_Wordb(s) == Padded(s, 2)[1] * 256 + Padded(s, 2)[2]
Chars_2_Word(s) == Padded(s, 2)[2] * 256 + Padded(s, 2)[1]
Chars_2_DWb(s) == Padded(s, 4)
Chars_2_DW(s) == Reverse(Padded(s, 4))

-----------------------------------------------------------------------------
\* bs_oscar.c, writing.  A field is a record of its kind, its type (of a TLV)
\* and its value.

bsAppendFlapHead(bs, channel, seq, len, oom) ==
    bsAppend(bs, <<42, channel>> \o Word_2_Charsb(seq) \o Word_2_Charsb(len), oom)

bsAppendTlv(bs, type, len, value, oom) ==
    LET b == bsAppend(bs, Word_2_Charsb(type) \o Word_2_Charsb(len), oom)
    IN IF value # <<>> /\ Appended(b, SIZEOF_TLV_HEAD) > 0 /\ ~b.fault
       THEN bsAppend(b, value, oom) ELSE b

\* bsAppendVprintfType: the length, and then the characters that a second
\* vsnprintf leaves in the buffer.  It is handed the va_list that the first
\* one has used up, so they may be others than those counted (chars), though
\* as many.
bsAppendString(bs, prefix, chars, oom) ==
    LET b == bsAppend(bs, prefix, oom) IN IF b.fault THEN b ELSE bsAppend(b, chars, oom)

bsUpdateWord(bs, pos, n) == bsUpdate(bs, pos, Word_2_Charsb(n))
bsUpdateFlapHeadLen_offByOne(bs, flapPos) ==       \* slip: one byte too few
    bsUpdateWord(bs, flapPos + FLAP_LEN_OFFSET, end(bs) - flapPos - SIZEOF_FLAP_HEAD - 1)
bsUpdateFlapHeadLen(bs, flapPos) ==
    bsUpdateWord(bs, flapPos + FLAP_LEN_OFFSET, end(bs) - flapPos - SIZEOF_FLAP_HEAD)
bsUpdateTlvLen_whole(bs, tlvPos) ==                \* slip: counts the head
    bsUpdateWord(bs, tlvPos + TLV_LEN_OFFSET, end(bs) - tlvPos)
bsUpdateTlvLen(bs, tlvPos) ==
    bsUpdateWord(bs, tlvPos + TLV_LEN_OFFSET, end(bs) - tlvPos - SIZEOF_TLV_HEAD)

-----------------------------------------------------------------------------
\* bs_oscar.c, reading: the stream afterwards and the value read.

Result(r, value) == [bs |-> r.bs, value |-> value]
bsReadByte(bs) == LET r == bsRead(bs, 1) IN Result(r, Padded(r.bytes, 1)[1])
bsReadWord(bs) == LET r == bsRead(bs, 2) IN Result(r, Chars_2_Wordb(r.bytes))
bsReadWordLE(bs) == LET r == bsRead(bs, 2) IN Result(r, Chars_2_Word(r.bytes))
bsReadDword(bs) == LET r == bsRead(bs, 4) IN Result(r, Chars_2_DWb(r.bytes))
bsReadDwordLE(bs) == LET r == bsRead(bs, 4) IN Result(r, Chars_2_DW(r.bytes))

\* bsReadTlv: the type and the length.
bsReadTlv(bs) ==
    LET t == bsReadWord(bs)
        l == bsReadWord(t.bs)
    IN [bs |-> l.bs, type |-> t.value, len |-> l.value]

\* bsReadString reads one or two bytes of a long that is not initialized;
\* junk is what the rest of it adds.
bsReadString(bs, kind, junk) ==
    LET l == IF kind = "string08" THEN bsReadByte(bs) ELSE bsReadWord(bs)
        r == bsRead(l.bs, l.value + junk)
    IN IF l.bs.fault THEN l ELSE Result(r, r.bytes)

\* bsReadFlapHead: a wrong start is put back.
bsReadFlapHead(bs) ==
    LET cmd == bsReadByte(bs)
        chan == bsReadByte(cmd.bs)
        seq == bsReadWord(chan.bs)
        len == bsReadWord(seq.bs)
    IN IF cmd.value # 42 THEN [bs |-> bsSeek(cmd.bs, cmd.bs.ptr - 1), ok |-> FALSE]
       ELSE [bs |-> len.bs, ok |-> TRUE, channelId |-> chan.value, seq |-> seq.value, len |-> len.value]
=============================================================================
