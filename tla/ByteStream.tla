---------------------------- MODULE ByteStream ----------------------------
(***************************************************************************)
(* The path of one FLAP packet: its sender appends fields to a byte stream *)
(* (Bytes) and fills in the lengths afterwards, writeBs (src/wrappers.c)   *)
(* sends what the stream holds, the receiver reads the head, then as many  *)
(* bytes as it announces, in pieces (serverResponseHandler,                *)
(* src/network.c), and takes the fields out again.  The sender is the      *)
(* daemon; the receiver is the daemon too, so that one half is checked     *)
(* against the other.                                                      *)
(***************************************************************************)
EXTENDS Bytes

CONSTANTS
    Fields,         \* the fields a packet may be built from
    MaxFields,      \* bound: how many of them
    Fails,          \* whether allocations and reads may fail
    Leftovers       \* the words that memory nobody wrote may hold

\* What a field may be.  The characters of a string are those in the buffer
\* it is appended from (bsAppendString), whatever was to be printed there.  A
\* string longer than its length can say is a field too.
Byte == 0 .. 255
Word == 0 .. 65535
Kinds(kinds, values) == [kind : kinds, type : Word, value : values]
FieldSet ==
    Kinds({"byte"}, Byte) \cup Kinds({"word", "wordLE"}, Word)
    \cup Kinds({"dword", "dwordLE"}, [1 .. 4 -> Byte])
    \cup Kinds({"tlv", "string08", "string16"}, Seq(Byte))

ASSUME FieldsAssumption == Fields \subseteq FieldSet /\ MaxFields \in Nat /\ Fails \in BOOLEAN /\ Leftovers \subseteq Word

VARIABLES
    phase,      \* "build", "head", "body", "parse", "done", "dropped" or "lost"
    out,        \* the sender's stream
    open,       \* offset of the TLV whose length is not filled in yet, or None
    made,       \* history: what was appended, in order
    size,       \* history: bytes appended to the open TLV
    wire,       \* bytes under way
    in,         \* the receiver's stream
    flap,       \* its struct flap_head
    parsed,     \* what the receiver has read, in order
    cut         \* history: the head or the body ended early

vars == <<phase, out, open, made, size, wire, in, flap, parsed, cut>>

bsAppendField(bs, f, oom) ==
    CASE f.kind = "byte"     -> bsAppend(bs, <<f.value>>, oom)
      [] f.kind = "word"     -> bsAppend(bs, Word_2_Charsb(f.value), oom)
      [] f.kind = "wordLE"   -> bsAppend(bs, Word_2_Chars(f.value), oom)
      [] f.kind = "dword"    -> bsAppend(bs, DW_2_Charsb(f.value), oom)
      [] f.kind = "dwordLE"  -> bsAppend(bs, DW_2_Chars(f.value), oom)
      [] f.kind = "tlv"      -> bsAppendTlv(bs, f.type, Len(f.value), f.value, oom)
      [] f.kind = "string08" -> bsAppendString(bs, <<Len(f.value) % 256>>, f.value, oom)
      [] f.kind = "string16" -> bsAppendString(bs, Word_2_Charsb(Len(f.value)), f.value, oom)

\* How many bytes a field takes, counted apart from the stream.
FieldSize(f) ==
    CASE f.kind = "byte" -> 1
      [] f.kind \in {"word", "wordLE"} -> 2
      [] f.kind \in {"dword", "dwordLE"} -> 4
      [] f.kind = "tlv" -> 4 + Len(f.value)
      [] f.kind = "string08" -> 1 + Len(f.value)
      [] f.kind = "string16" -> 2 + Len(f.value)

-----------------------------------------------------------------------------
Seq0 == 258
NextHead == <<42>>      \* the first byte of the packet that follows

Init ==
    /\ phase = "build"
    /\ \E oom \in (IF Fails THEN BOOLEAN ELSE {FALSE}) :
           out = bsAppendFlapHead(initBs, 2, Seq0, 0, oom)
    /\ open = None /\ made = <<>> /\ size = 0
    /\ wire = <<>> /\ in = initBs /\ flap = [ok |-> FALSE]
    /\ parsed = <<>> /\ cut = FALSE

Oom == IF Fails THEN BOOLEAN ELSE {FALSE}
Building == phase = "build" /\ ~out.fault
BuildOnly == UNCHANGED <<phase, wire, in, flap, parsed, cut>>

\* A field, inside a TLV that is open or outside.
AppendField ==
    /\ Building /\ Len(made) < MaxFields
    /\ \E f \in Fields, oom \in Oom :
           /\ out' = bsAppendField(out, f, oom)
           /\ made' = Append(made, f)
           /\ size' = size + FieldSize(f)
    /\ UNCHANGED open /\ BuildOnly

\* The used-up va_list has no string for a "%s": the daemon dies of what it
\* takes for one.
PrintFaults ==
    /\ Building /\ Len(made) < MaxFields
    /\ \E f \in Fields : f.kind \in {"string08", "string16"}
    /\ phase' = "dropped"
    /\ UNCHANGED <<out, open, made, size, wire, in, flap, parsed, cut>>

\* tlv = bsAppendTlv(bsd, type, 0, NULL); the length comes later.
OpenTlv ==
    /\ Building /\ open = None /\ Len(made) < MaxFields
    /\ \E oom \in Oom :
           LET b == bsAppendTlv(out, 5, 0, <<>>, oom)
           IN out' = b /\ open' = Appended(b, SIZEOF_TLV_HEAD)
    /\ made' = Append(made, [kind |-> "tlvhead", type |-> 5, value |-> 0])
    /\ size' = 0 /\ BuildOnly

\* bsUpdateTlvLen(bsd, tlv): the length the history puts down is counted from
\* the fields.
TlvIndex == Max({i \in 1 .. Len(made) : made[i].kind = "tlvhead"})
CloseTlv ==
    /\ Building /\ open # None
    /\ out' = bsUpdateTlvLen(out, open)
    /\ made' = [made EXCEPT ![TlvIndex].value = size]
    /\ open' = None
    /\ UNCHANGED size /\ BuildOnly

\* The length of the packet, and writeBs, which refuses an invalid stream.
Send ==
    /\ Building /\ open = None
    /\ out' = bsUpdateFlapHeadLen(out, 0)
    /\ IF out.invalid THEN phase' = "dropped" /\ UNCHANGED wire
       ELSE phase' = "head" /\ wire' = out'.data \o NextHead
    /\ UNCHANGED <<open, made, size, in, flap, parsed, cut>>

-----------------------------------------------------------------------------
\* The receiver, bsAppendReadLoop: each pass asks for what is still missing.

Missing == IF phase = "head" THEN SIZEOF_FLAP_HEAD - end(in)
           ELSE SIZEOF_FLAP_HEAD + flap.len - end(in)
Receiving == phase \in {"head", "body"} /\ Missing > 0
Reserved(n) == reallocBsDataIfNeeded(in, n, FALSE)
ReceiveOnly == UNCHANGED <<out, open, made, size, flap, parsed>>

ReadSome ==
    /\ Receiving
    /\ \E n \in 1 .. Min({Missing, Len(wire)}) :
           /\ in' = AppendFromSocket(Reserved(Missing), SubSeq(wire, 1, n))
           /\ wire' = SubSeq(wire, n + 1, Len(wire))
    /\ UNCHANGED <<phase, cut>> /\ ReceiveOnly

\* A read that fails, or one that finds no memory.  The head is given up; what
\* reads the body does not look at the result, except at the flag.
ReadFails ==
    /\ Receiving /\ Fails
    /\ \E oom \in BOOLEAN :
           /\ oom => Missing + end(in) > in.len
           /\ in' = IF oom THEN reallocBsDataIfNeeded(in, Missing, TRUE)
                    ELSE AppendError(Reserved(Missing))
           /\ phase' = IF phase = "head" \/ oom THEN "dropped" ELSE "parse"
           /\ cut' = (phase = "body")
    /\ UNCHANGED wire /\ ReceiveOnly

\* End of the stream: a short head is no error, the length it did not bring is
\* read off the stack, and the room for that many bytes is asked for; no more
\* come.
HeadEnds ==
    /\ Receiving /\ Fails /\ phase = "head"
    /\ \E oom \in BOOLEAN, announced \in Leftovers :
           LET read == [Reserved(Missing) EXCEPT !.ptr = end(in)]
           IN /\ in' = reallocBsDataIfNeeded(read, announced, oom)
              /\ phase' = IF in'.full THEN "dropped" ELSE "parse"
    /\ cut' = TRUE
    /\ UNCHANGED wire /\ ReceiveOnly

\* A short body is taken as it is.
ReadEnds ==
    /\ Receiving /\ Fails /\ phase = "body"
    /\ phase' = "parse" /\ cut' = TRUE
    /\ in' = Reserved(Missing)
    /\ UNCHANGED wire /\ ReceiveOnly

HeadRead ==
    /\ phase = "head" /\ Missing = 0
    /\ LET r == bsReadFlapHead([in EXCEPT !.ptr = 0])
       IN in' = r.bs /\ flap' = r
    /\ phase' = "body"
    /\ UNCHANGED <<out, open, made, size, wire, parsed, cut>>

BodyRead ==
    /\ phase = "body" /\ Missing <= 0
    /\ phase' = "parse"
    /\ UNCHANGED <<out, open, made, size, wire, in, flap, parsed, cut>>

-----------------------------------------------------------------------------
\* The handlers take the fields out in the order they know.

ParseOnly == UNCHANGED <<out, open, made, size, wire, flap, cut>>
Next1 == made[Len(parsed) + 1]
Parsing(kinds) == phase = "parse" /\ ~in.fault /\ Len(parsed) < Len(made) /\ Next1.kind \in kinds
Took(r) == in' = r.bs /\ parsed' = Append(parsed, [Next1 EXCEPT !.value = r.value])

ParseNumber ==
    /\ Parsing({"byte", "word", "wordLE", "dword", "dwordLE"})
    /\ Took(CASE Next1.kind = "byte" -> bsReadByte(in)
              [] Next1.kind = "word" -> bsReadWord(in)
              [] Next1.kind = "wordLE" -> bsReadWordLE(in)
              [] Next1.kind = "dword" -> bsReadDword(in)
              [] Next1.kind = "dwordLE" -> bsReadDwordLE(in))
    /\ UNCHANGED phase /\ ParseOnly

\* With junk in the upper bytes the string swallows the rest of the packet, or
\* cannot be allocated and the daemon exits.
ParseString ==
    /\ Parsing({"string08", "string16"})
    /\ \E junk \in {0, 65536} :
           /\ Took(bsReadString(in, Next1.kind, junk))
           /\ phase' = IF junk = 0 THEN phase ELSE "lost"
    /\ ParseOnly

ParseTlvHead ==
    /\ Parsing({"tlvhead"})
    /\ LET t == bsReadTlv(in) IN
           /\ in' = t.bs
           /\ parsed' = Append(parsed, [kind |-> "tlvhead", type |-> t.type, value |-> t.len])
    /\ UNCHANGED phase /\ ParseOnly

\* A TLV whose value is wanted: bsReadTlv, then that many bytes.
ParseTlv ==
    /\ Parsing({"tlv"})
    /\ LET t == bsReadTlv(in)
           r == bsRead(t.bs, t.len)
       IN /\ in' = IF t.bs.fault THEN t.bs ELSE r.bs
          /\ parsed' = Append(parsed, [kind |-> "tlv", type |-> t.type, value |-> r.bytes])
    /\ UNCHANGED phase /\ ParseOnly

\* A TLV that is skipped: bsSeek(bsd, pos + tlv.len, BS_SEEK_SET).
SkipTlv ==
    /\ Parsing({"tlv"})
    /\ LET t == bsReadTlv(in)
       IN /\ in' = IF t.bs.fault THEN t.bs ELSE bsSeek(t.bs, t.bs.ptr + t.len)
          /\ parsed' = Append(parsed, [kind |-> "tlv", type |-> t.type, value |-> Next1.value])
    /\ UNCHANGED phase /\ ParseOnly

Finish ==
    /\ phase = "parse" /\ ~in.fault /\ Len(parsed) = Len(made)
    /\ phase' = "done"
    /\ UNCHANGED <<out, open, made, size, wire, in, flap, parsed, cut>>

Next ==
    \/ AppendField \/ PrintFaults \/ OpenTlv \/ CloseTlv \/ Send
    \/ ReadSome \/ ReadFails \/ HeadEnds \/ ReadEnds \/ HeadRead \/ BodyRead
    \/ ParseNumber \/ ParseString \/ ParseTlvHead \/ ParseTlv \/ SkipTlv \/ Finish

Spec == Init /\ [][Next]_vars

-----------------------------------------------------------------------------
\* What is read is what was written: of a packet that came whole, every field
\* has the value it was appended with, in the order of appending, whatever
\* pieces it came in, whatever was grown or skipped on the way, and the
\* lengths filled in afterwards count exactly the fields they stand for.
\* (A string whose length word was read over junk is left out.)
RoundTrip ==
    (~cut /\ phase \in {"parse", "done"})
        => parsed = SubSeq(made, 1, Len(parsed))

\* The length in the head takes the whole packet off the wire and no more:
\* the next packet begins at a head.
FrameWhole == phase = "done" /\ ~cut => wire = NextHead /\ in.ptr = end(in)

\* The bytes fit the allocation on both sides; memory that is not there is
\* written to only after the very first allocation failed
\* (reallocBsDataIfNeeded sets len before it tries); and the receiver runs
\* past its bytes only in a packet that ended early, which nobody looked at.
InBounds ==
    /\ end(out) <= out.len /\ end(in) <= in.len
    /\ out.fault => ~out.held /\ out.invalid
    /\ in.fault => cut

\* A stream that lost a field to a failed allocation is never sent.
Taken(f) == IF f.kind = "tlvhead" THEN SIZEOF_TLV_HEAD ELSE FieldSize(f)
HoleNeverSent ==
    LET total[n \in 0 .. Len(made)] == IF n = 0 THEN 0 ELSE total[n - 1] + Taken(made[n])
    IN phase \notin {"build", "dropped"} => end(out) = SIZEOF_FLAP_HEAD + total[Len(made)]
=============================================================================
