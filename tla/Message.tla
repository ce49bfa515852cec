------------------------------ MODULE Message ------------------------------
(***************************************************************************)
(* The way of a message: the prompt composes it, converts and enciphers it *)
(* (src/prompt.c, src/charset.c, src/crypt.c), packs it in one of three    *)
(* formats (src/network.c), the server relays it, and receiveMessage       *)
(* unpacks and shows it.  Both ends are the daemon; the server, and the    *)
(* other clients that write to it, are external.                           *)
(*                                                                         *)
(* A text is a sequence of bytes of CP1252, the default of both character  *)
(* sets, so that only UTF-8 changes it.  A byte b enciphered is            *)
(* Cipher + b: what the key was does not matter, because nothing in this   *)
(* version deciphers a message.                                            *)
(*                                                                         *)
(* A loop of a reader is one step a round, because the packet says how     *)
(* many rounds there are; nothing else moves until it is over.             *)
(***************************************************************************)
EXTENDS Bytes

CONSTANTS
    MAX_MSGDATA_LEN,
    Texts,          \* the texts the user writes
    Letters,        \* those that others write
    Garbled,         \* what may stand behind the head of a message, right or wrong
    Junk            \* what an uninitialized variable may hold

\* A text is a C string, and with its twin in a URL, all its bytes doubled by
\* UTF-8, it is shorter than what a word can say: what the user types fits the
\* 8192 bytes of the control connection's buffer.
ASSUME TextsAssumption ==
    /\ \A text \in Texts \cup Letters : text \in Seq(1 .. 255) /\ Len(text) <= 30000
    /\ \A body \in Garbled : body \in Seq(0 .. 255) /\ Len(body) <= 30000
    /\ MAX_MSGDATA_LEN \in 20 .. 30000
    /\ Junk \subseteq Nat

VARIABLES
    stage,      \* "idle", "sent", "relayed", "typed", "tlvs", "search", "read" or "shown"
    job,        \* who wrote what to whom
    bs,         \* the packet
    inBs,       \* the stream at the receiver
    msg,        \* its msg_t
    channel,    \* its format
    loop,       \* what the loop of a reader goes by
    shown,      \* what was printed of it: at most one
    acked, exited

msgVars == <<stage, job, bs, inBs, msg, channel, loop, shown, acked, exited>>

\* YSM_MESSAGE_*.
UNDEF == 0
NORMAL == 1
FILE == 3
URL == 4
AUTH == 6
AUTHNOT == 7
AUTHOK == 8
ADDED == 12
PAGER == 13
CONTACTS == 19
GREET == 26
GETAWAY == 232
GETDND == 235

\* What is looked at in a slave: its capabilities, whether it has a key and its
\* client is known to decipher, and whether its status is STATUS_DND.
Slaves == [utf8 : BOOLEAN, relay : BOOLEAN, key : BOOLEAN, crypt : BOOLEAN, dnd : BOOLEAN]
Plain == [utf8 |-> FALSE, relay |-> FALSE, key |-> FALSE, crypt |-> FALSE, dnd |-> FALSE]

Nobody == [how |-> "nobody"]
NoLoop == [start |-> 0, len |-> 0, msgLen |-> 0]
Empty == [type |-> UNDEF, data |-> <<>>, ucs2 |-> FALSE]
UIN == <<49>>
Separator == 254
Cipher == 1000
Zeros(n) == [i \in 1 .. n |-> 0]
DW0 == Zeros(4)
Tlv2711 == 10001        \* its extended data

-----------------------------------------------------------------------------
\* YSM_Charset, outgoing, and YSM_EncryptAnyData.

Utf8(c) == IF c < 128 THEN <<c>> ELSE <<192 + (c \div 64), 128 + (c % 64)>>
YSM_Charset(text, utf8) == IF utf8 THEN FlattenSeq([i \in 1 .. Len(text) |-> Utf8(text[i])]) ELSE text

SIZEOF_HEAD == 4
MAX_CRYPT_PADDING == 16
Enciphered(data, n) ==
    <<222, 175>> \o Word_2_Chars(n)
    \o [i \in 1 .. n + MAX_CRYPT_PADDING - (n % MAX_CRYPT_PADDING) |->
            Cipher + IF i <= n THEN data[i] ELSE 0]
YSM_EncryptAnyData_uncut(slave, data) ==           \* slip: forgets the limit
    IF ~slave.key \/ ~slave.crypt THEN data ELSE Enciphered(data, Len(data))
YSM_EncryptAnyData(slave, data) ==
    IF ~slave.key \/ ~slave.crypt THEN data
    ELSE Enciphered(data,
             IF Len(data) + SIZEOF_HEAD + MAX_CRYPT_PADDING >= MAX_MSGDATA_LEN
             THEN MAX_MSGDATA_LEN - SIZEOF_HEAD - MAX_CRYPT_PADDING ELSE Len(data))

-----------------------------------------------------------------------------
\* Building the SNAC.  Allocations succeed here.

PutByte(b, n) == bsAppend(b, <<n % 256>>, FALSE)
PutWord(b, n) == bsAppend(b, Word_2_Charsb(n), FALSE)
PutWordLE(b, n) == bsAppend(b, Word_2_Chars(n), FALSE)
PutBytes(b, bytes) == bsAppend(b, bytes, FALSE)
PutTlv(b, type, len) == bsAppendTlv(b, type, len, <<>>, FALSE)

bsAppendMessageHead(b, format) ==
    bsAppendString(PutWord(PutBytes(b, DW0 \o DW0), format), <<Len(UIN)>>, UIN, FALSE)

bsAppendMessageBodyType1(b, slave, data) ==
    LET tlv2 == end(b)
        one == PutByte(PutTlv(PutTlv(b, 2, 0), 1281, 1), 1)
        tlv257 == end(one)
        two == PutBytes(PutWord(PutWord(PutTlv(one, 257, 0), IF slave.utf8 THEN 2 ELSE 0), 0), data)
    IN bsUpdateTlvLen(bsUpdateTlvLen(two, tlv257), tlv2)

\* A scan has flags of its own, which it does not send.
ScanFlags == 25
AutoFlags == 3
CAP_PRECAP == <<9, 70, 19>>
CAP_POSCAP == <<76, 127, 17, 209, 130, 34, 68, 69, 83, 84, 0, 0>>
CAP_SRVRELAY == CAP_PRECAP \o <<73>> \o CAP_POSCAP
Capability(flags) ==
    IF flags = ScanFlags THEN Zeros(16) ELSE CAP_PRECAP \o CAP_SRVRELAY \o CAP_POSCAP

\* Behind the text: the colours, and which encoding it has.  The 38 characters of
\* a GUID tell no more here than which of the two it is.
CAP_RTF_GUID == [i \in 1 .. 38 |-> 57]
CAP_UTF8_GUID == [i \in 1 .. 38 |-> 48]
Colours(send) == IF "NORM" \in send THEN DW0 \o <<0, 255, 255, 255>> ELSE <<>>
Guid(send) ==
    IF "RTF" \in send THEN <<0, 0, 0, 38>> \o CAP_RTF_GUID
    ELSE IF "UTF8" \in send THEN <<0, 0, 0, 38>> \o CAP_UTF8_GUID
    ELSE <<>>

bsAppendMessageBodyType2(b, slave, type, flags, send, data) ==
    LET tlv5 == end(b)
        one == PutBytes(PutWord(PutTlv(b, 5, 0), 0), DW0 \o DW0 \o Capability(flags))
        two == PutTlv(PutWord(PutTlv(one, 10, 2), 1), 15, 0)
        tlv2711 == end(two)
        three == PutBytes(PutWordLE(PutWordLE(PutTlv(two, Tlv2711, 0), 27), 8), Zeros(16) \o <<0, 0, 3>> \o DW0)
        four == PutBytes(PutWordLE(PutWordLE(PutWordLE(three, 0), 14), 0), Zeros(12))
        sent == IF flags = ScanFlags THEN AutoFlags ELSE flags
        five == PutWordLE(PutWordLE(PutByte(PutByte(four, type), sent), 0), IF slave.dnd THEN 4 ELSE 33)
        six == PutByte(PutBytes(PutWordLE(five, Len(data) + 1), data), 0)
        seven == PutBytes(PutBytes(six, Colours(send)), Guid(send))
    IN bsUpdateTlvLen(bsUpdateTlvLen(seven, tlv2711), tlv5)

bsAppendMessageBodyType4_unclosed(b, type, data) ==         \* slip: leaves the length
    PutByte(PutBytes(PutByte(PutByte(PutByte(PutBytes(PutTlv(b, 5, 0), <<49, 0, 0, 0>>), type), 0), Len(data) + 1), data), 0)
bsAppendMessageBodyType4(b, type, data) ==
    bsUpdateTlvLen(
        PutByte(PutBytes(PutByte(PutByte(PutByte(PutBytes(PutTlv(b, 5, 0), <<49, 0, 0, 0>>), type), 0), Len(data) + 1), data), 0),
        end(b))

\* The flags of formats 1 and 4 are always zero.
sendMessage2Client(slave, format, type, data, flags, send) ==
    LET head == bsAppendMessageHead(initBs, format)
    IN CASE format = 1 -> PutTlv(bsAppendMessageBodyType1(head, slave, data), 6, 0)
         [] format = 2 -> PutTlv(bsAppendMessageBodyType2(head, slave, type, flags, send, data),
                                 IF flags = ScanFlags THEN 6 ELSE 3, 0)
         [] format = 4 -> PutTlv(bsAppendMessageBodyType4(head, type, data), 6, 0)

-----------------------------------------------------------------------------
Sends(how, slave, type, text, payload, format, flags, send) ==
    /\ stage = "idle"
    /\ stage' = "sent"
    /\ job' = [how |-> how, slave |-> slave, type |-> type, text |-> text, data |-> payload,
               format |-> format, flags |-> flags, send |-> send]
    /\ bs' = sendMessage2Client(slave, format, type, payload, flags, send)
    /\ UNCHANGED <<inBs, msg, channel, loop, shown, acked, exited>>

sendMessage(how, slave, text) ==
    Sends(how, slave, NORMAL, text, YSM_EncryptAnyData(slave, YSM_Charset(text, slave.utf8)),
          IF slave.relay THEN 2 ELSE 1, 0, {"NORM"} \cup IF slave.utf8 THEN {"UTF8"} ELSE {})

\* cmdMSG_main: a slave with a key gets nothing unless its client is known to
\* decipher; 'mplain' clears the fingerprint around sendMessage.
cmdMSG_main ==
    \E slave \in Slaves, text \in Texts :
        /\ slave.key => slave.crypt
        /\ sendMessage("msg", slave, text)
cmdMPLAIN ==
    \E slave \in Slaves, text \in Texts :
        sendMessage("mplain", [slave EXCEPT !.crypt = FALSE], text)

\* YSM_DoChatCommand and the reply of YSM_PostIncoming test no key.
YSM_DoChatCommand ==
    \E slave \in Slaves, text \in Texts : sendMessage("chat", slave, text)

YSM_SendUrl ==
    \E text \in Texts :
        Sends("url", Plain, URL, text, text \o <<Separator>> \o text \o <<0>>, 4, 0, {})
YSM_SendContact ==
    \E text \in Texts : Sends("contacts", Plain, CONTACTS, text, <<49, Separator>> \o text, 4, 0, {})
\* The message is a constant of the code; its terminator is sent too.
YSM_SendRTF ==
    \E slave \in Slaves, text \in Texts :
        Sends("rtf", slave, NORMAL, text, text \o <<0>>, 2, 0, {"NORM", "RTF"})
YSM_RequestAutoMessage ==
    \E slave \in Slaves :
        Sends("auto", slave, IF slave.dnd THEN GETDND ELSE GETAWAY, <<>>, <<0>>, 2, AutoFlags, {"NORM"})
YSM_Scan_Slave ==
    \E slave \in Slaves : Sends("scan", slave, GETAWAY, <<>>, <<0, 1, 0>>, 2, ScanFlags, {})

-----------------------------------------------------------------------------
\* The server: the message's id, its format, the sender and a TLV with the
\* sender's status come before what was sent behind the head.

HeadLen == 11 + Len(UIN)
ServerHead(format) ==
    Zeros(8) \o Word_2_Charsb(format) \o <<Len(UIN)>> \o UIN
    \o Zeros(2) \o <<0, 1>> \o <<0, 6, 0, 4>> \o Zeros(4)

Delivers(bytes) == inBs' = bsSeek(PutBytes(initBs, bytes), 0) /\ msg' = Empty

Relays ==
    /\ stage = "sent"
    /\ stage' = "relayed"
    /\ Delivers(ServerHead(job.format) \o SubSeq(bs.data, HeadLen + 1, end(bs)))
    /\ UNCHANGED <<job, bs, channel, loop, shown, acked, exited>>

\* Another client's message of format 4, whose length is a word; or the same
\* while we were offline, which comes back in answer to our request: with or
\* without the terminator, and with its length in either order.
Foreign4(type, text) ==
    LET body == <<49, 0, 0, 0>> \o <<type, 0>> \o Word_2_Chars(Len(text) + 1) \o text \o <<0>>
    IN ServerHead(4) \o <<0, 5>> \o Word_2_Charsb(Len(body)) \o body
Terminators == {<<>>, <<0>>}
Swapped(n) == 256 * (n % 256) + ((n \div 256) % 256)
Offline(type, text, last, said) ==
    <<49, 0, 0, 0>> \o Zeros(6) \o <<type, 0>> \o Word_2_Charsb(said) \o text \o last

SomebodyWrites ==
    /\ stage = "idle"
    /\ stage' = "relayed"
    /\ \/ \E type \in {NORMAL, URL, AUTH, ADDED}, text \in Letters :
              /\ job' = [how |-> "foreign", type |-> type, text |-> text, format |-> 4, said |-> Len(text)]
              /\ Delivers(Foreign4(type, text))
       \/ \E type \in {NORMAL, URL, AUTH, ADDED}, text \in Letters, last \in Terminators, swap \in BOOLEAN :
              LET n == Len(text \o last)
                  said == IF swap THEN Swapped(n) ELSE n
              IN /\ job' = [how |-> "foreign", type |-> type, text |-> text, format |-> 0, said |-> said]
                 /\ Delivers(Offline(type, text, last, said))
       \/ \E body \in Garbled, format \in {1, 2, 4} :
              /\ job' = [how |-> "odd", data |-> body, format |-> format]
              /\ Delivers(ServerHead(format) \o body)
    /\ UNCHANGED <<bs, channel, loop, shown, acked, exited>>

-----------------------------------------------------------------------------
\* Reading.

Skip(b, n) == bsSeek(b, b.ptr + n)
\* bsReadToString: a string ends at the first zero byte.
UpToZero(s) == LET z == {i \in 1 .. Len(s) : s[i] = 0}
               IN IF z = {} THEN s ELSE SubSeq(s, 1, Min(z) - 1)
ReadToString(b, n) == LET r == bsRead(b, n) IN [bs |-> r.bs, text |-> UpToZero(r.bytes)]
\* Fewer bytes are left than a TLV's head has.
Cut(b) == end(b) - b.ptr \in 0 .. SIZEOF_TLV_HEAD - 1

\* receiveMessage up to the formats, and the head of an offline message
\* (case 0x41 of incomingMultiUse), whose msg_t is not initialized.
SkipTlvs(b, count) ==
    LET f[n \in 0 .. count] == IF n = 0 THEN b ELSE LET t == bsReadTlv(f[n - 1]) IN Skip(t.bs, t.len)
    IN f[count]

receiveMessage ==
    /\ stage = "relayed" /\ job.format # 0
    /\ LET format == bsReadWord(bsRead(inBs, 8).bs)
           uinLen == bsReadByte(format.bs)
           warn == bsReadWord(bsRead(uinLen.bs, uinLen.value).bs)
           count == bsReadWord(warn.bs)
       IN /\ channel' = format.value
          /\ inBs' = SkipTlvs(count.bs, count.value)
    /\ stage' = "typed"
    /\ UNCHANGED <<job, bs, msg, loop, shown, acked, exited>>

\* The reader returns and nothing comes of the message.
Unread == stage' = "shown" /\ UNCHANGED <<inBs, msg, loop, acked>>

\* The type is one byte of a longer enumeration, the rest of which is junk;
\* and so is the rest of the length of the text.
WaitingText(b, more) == bsReadString(b, "string16", 65536 * more)
OfflineMessage ==
    /\ stage = "relayed" /\ job.format = 0
    /\ LET type == bsReadByte(Skip(inBs, 10))
       IN \E junk \in Junk, more \in Junk :
              LET r == WaitingText(Skip(type.bs, 1), more)
              IN /\ inBs' = r.bs
                 /\ msg' = [msg EXCEPT !.type = type.value + 256 * junk, !.data = UpToZero(r.value)]
    /\ stage' = "read" /\ channel' = 0
    /\ UNCHANGED <<job, bs, loop, shown, acked, exited>>

\* Format 1, up to the loop over the inner TLVs, and a round of that loop.
YSM_ReceiveMessageType1 ==
    /\ stage = "typed" /\ channel = 1
    /\ LET t == bsReadTlv(inBs)
       IN \/ t.type # 2 /\ Unread
          \/ /\ t.type = 2
             /\ stage' = "tlvs" /\ inBs' = t.bs
             /\ loop' = [start |-> t.bs.ptr, len |-> t.len, msgLen |-> 0]
             /\ UNCHANGED <<msg, acked>>
    /\ UNCHANGED <<job, bs, channel, shown, exited>>

MsgLen(t) == (t.len - 4) % 65536
WithText(m, charset, text) == [m EXCEPT !.data = text, !.ucs2 = @ \/ charset = 2]

\* Nothing sets the type.
NextInner ==
    /\ stage = "tlvs" /\ ~inBs.fault
    /\ LET over == inBs.ptr - loop.start >= loop.len \/ Cut(inBs)
           t == bsReadTlv(inBs)
           charset == bsReadWord(t.bs)
           text == ReadToString(Skip(charset.bs, 2), MsgLen(t))
           next == t.bs.ptr + t.len
       IN \/ /\ over
             /\ stage' = IF loop.msgLen > 0 THEN "read" ELSE "shown"
             /\ UNCHANGED <<inBs, msg, loop>>
          \/ /\ ~over /\ t.type = 257
             /\ inBs' = bsSeek(text.bs, next)
             /\ msg' = WithText(msg, charset.value, text.text)
             /\ loop' = [loop EXCEPT !.msgLen = MsgLen(t)]
             /\ UNCHANGED stage
          \/ ~over /\ t.type # 257 /\ inBs' = bsSeek(t.bs, next) /\ UNCHANGED <<stage, msg, loop>>
    /\ UNCHANGED <<job, bs, channel, shown, acked, exited>>

\* Format 2: the end of the data is computed from a variable that nobody has set.
YSM_ReceiveMessageType2 ==
    /\ stage = "typed" /\ channel = 2
    /\ LET t == bsReadTlv(inBs)
           cmd == bsReadWord(t.bs)
           known == IF end(inBs) - inBs.ptr < 6 THEN BOOLEAN ELSE {cmd.value \in {0, 1, 2}}
       IN \/ (t.type # 5 \/ FALSE \in known) /\ Unread
          \/ /\ t.type = 5 /\ TRUE \in known
             /\ stage' = "search" /\ inBs' = Skip(cmd.bs, 24)
             /\ \E junk \in Junk : loop' = [NoLoop EXCEPT !.len = t.bs.ptr + junk]
             /\ UNCHANGED <<msg, acked>>
    /\ UNCHANGED <<job, bs, channel, shown, exited>>

\* What was found is read behind: an empty message is acknowledged and no more.
\* Behind the text of a normal one are the colours, and perhaps a GUID.
YSM_ReceiveMessageType2Common(b) ==
    LET seq == bsReadWordLE(Skip(b, 2))
        type == bsReadByte(Skip(Skip(seq.bs, 2), 12))
        status == bsReadWordLE(bsReadByte(type.bs).bs)
        priority == bsReadWordLE(status.bs)
        len == bsReadWordLE(priority.bs)
        text == ReadToString(len.bs, len.value)
        guidLen == bsReadDwordLE(Skip(text.bs, 8))
        ignored == IF end(b) - status.bs.ptr \in 0 .. 3 THEN BOOLEAN
                   ELSE {len.value <= 1 /\ priority.value = 2 /\ ~len.bs.fault}
    IN \/ /\ TRUE \in ignored
          /\ stage' = "shown" /\ acked' = TRUE /\ inBs' = len.bs
          /\ msg' = [msg EXCEPT !.type = type.value]
       \/ /\ FALSE \in ignored
          /\ stage' = "read"
          /\ inBs' = IF type.value # NORMAL THEN text.bs
                     ELSE IF guidLen.value = <<0, 0, 0, 39>> THEN bsRead(guidLen.bs, 39).bs ELSE guidLen.bs
          /\ msg' = [msg EXCEPT !.type = type.value, !.data = text.text]
          /\ UNCHANGED acked

\* A round of the loop that looks for the TLV 0x2711; the stream is set behind it,
\* not into it.  Of a head that is cut, the type and the length may be anything,
\* so that the loop goes on where it is, or beyond the end, or never ends.
Next2711 ==
    /\ stage = "search" /\ ~inBs.fault
    /\ \/ inBs.ptr >= loop.len /\ Unread
       \/ /\ inBs.ptr < loop.len
          /\ \E junk \in Junk, guess \in BOOLEAN :
                LET t == bsReadTlv(inBs)
                    len == IF Cut(inBs) THEN junk ELSE t.len
                    found == IF Cut(inBs) THEN guess ELSE t.type = Tlv2711
                    next == bsSeek(IF found THEN Skip(t.bs, 29) ELSE t.bs, t.bs.ptr + len)
                IN \/ found /\ YSM_ReceiveMessageType2Common(next)
                   \/ ~found /\ inBs' = next /\ UNCHANGED <<stage, msg, acked>>
          /\ UNCHANGED loop
    /\ UNCHANGED <<job, bs, channel, shown, exited>>

YSM_ReceiveMessageType4_byte ==                    \* slip: reads the length as one byte
    /\ stage = "typed" /\ channel = 4
    /\ LET t == bsReadTlv(inBs)
           type == bsReadByte(bsRead(t.bs, 4).bs)
           len == bsReadByte(bsReadByte(type.bs).bs)
           r == ReadToString(len.bs, len.value)
       IN \/ t.type # 5 /\ Unread
          \/ /\ t.type = 5
             /\ inBs' = r.bs /\ stage' = "read" /\ msg' = [msg EXCEPT !.type = type.value, !.data = r.text]
             /\ UNCHANGED <<loop, acked>>
    /\ UNCHANGED <<job, bs, channel, shown, exited>>
YSM_ReceiveMessageType4_behind ==                  \* slip: skips what it does not look at
    /\ stage = "typed" /\ channel = 4
    /\ LET t == bsReadTlv(inBs)
           type == bsReadByte(Skip(t.bs, 4))
           len == bsReadWordLE(Skip(type.bs, 1))
           r == ReadToString(len.bs, len.value)
       IN \/ t.type # 5 /\ Unread
          \/ /\ t.type = 5
             /\ inBs' = r.bs /\ stage' = "read" /\ msg' = [msg EXCEPT !.type = type.value, !.data = r.text]
             /\ UNCHANGED <<loop, acked>>
    /\ UNCHANGED <<job, bs, channel, shown, exited>>
YSM_ReceiveMessageType4 ==
    /\ stage = "typed" /\ channel = 4
    /\ LET t == bsReadTlv(inBs)
           type == bsReadByte(bsRead(t.bs, 4).bs)
           len == bsReadWordLE(bsReadByte(type.bs).bs)
           r == ReadToString(len.bs, len.value)
       IN \/ t.type # 5 /\ Unread
          \/ /\ t.type = 5
             /\ inBs' = r.bs /\ stage' = "read" /\ msg' = [msg EXCEPT !.type = type.value, !.data = r.text]
             /\ UNCHANGED <<loop, acked>>
    /\ UNCHANGED <<job, bs, channel, shown, exited>>

-----------------------------------------------------------------------------
\* YSM_ReceiveMessageData and displayMessage.

\* parseAuthMessage: the fifth separator and what follows it.
Separators(s, n) == {i \in 1 .. Len(s) : s[i] = Separator /\
                        Cardinality({j \in 1 .. i : s[j] = Separator}) = n}
parseAuthMessage(s) ==
    IF Separators(s, 5) = {} THEN <<>> ELSE SubSeq(s, Min(Separators(s, 5)), Len(s))

parseMessageData(s) ==
    [i \in 1 .. Len(s) |-> IF s[i] < 32 /\ s[i] \notin {8, 9, 10, 13} THEN 32 ELSE s[i]]

Prints(text) == shown' = <<[type |-> msg.type, text |-> text]>> /\ UNCHANGED exited

\* An unknown type is passed over; one that displayMessage has no case for ends
\* the daemon.  FILE and GREET go to the direct connections, whose answer decides.
YSM_ReceiveMessageData ==
    /\ stage = "read" /\ ~inBs.fault
    /\ \/ msg.type = NORMAL /\ Prints(parseMessageData(msg.data))
       \/ msg.type = AUTH /\ Prints(parseAuthMessage(msg.data))
       \/ msg.type \in {ADDED, AUTHOK, AUTHNOT} /\ Prints(<<>>)
       \/ msg.type \in {URL, CONTACTS, PAGER} /\ exited' = TRUE /\ UNCHANGED shown
       \/ /\ msg.type \notin {NORMAL, AUTH, ADDED, AUTHOK, AUTHNOT, URL, CONTACTS, PAGER}
          /\ UNCHANGED <<shown, exited>>
    /\ \/ acked' = (channel = 2)
       \/ msg.type \in {FILE, GREET} /\ acked' = FALSE
    /\ stage' = "shown"
    /\ UNCHANGED <<job, bs, inBs, msg, channel, loop>>

NextMessage ==
    /\ stage = "shown" /\ ~exited
    /\ stage' = "idle" /\ job' = Nobody /\ bs' = initBs /\ inBs' = initBs /\ msg' = Empty
    /\ channel' = 0 /\ loop' = NoLoop /\ shown' = <<>> /\ acked' = FALSE
    /\ UNCHANGED exited

-----------------------------------------------------------------------------
MsgInit ==
    /\ stage = "idle" /\ job = Nobody /\ bs = initBs /\ inBs = initBs /\ msg = Empty
    /\ channel = 0 /\ loop = NoLoop /\ shown = <<>> /\ acked = FALSE /\ exited = FALSE

MsgNext ==
    \/ cmdMSG_main \/ cmdMPLAIN \/ YSM_DoChatCommand
    \/ YSM_SendUrl \/ YSM_SendContact \/ YSM_SendRTF \/ YSM_RequestAutoMessage \/ YSM_Scan_Slave
    \/ Relays \/ SomebodyWrites
    \/ receiveMessage \/ OfflineMessage
    \/ YSM_ReceiveMessageType1 \/ NextInner
    \/ YSM_ReceiveMessageType2 \/ Next2711
    \/ YSM_ReceiveMessageType4
    \/ YSM_ReceiveMessageData \/ NextMessage

MsgSpec == MsgInit /\ [][MsgNext]_msgVars

-----------------------------------------------------------------------------
\* A TLV whose length is that of what it holds.
Whole(type, value) == Word_2_Charsb(type) \o <<Len(value) \div 256, Len(value) % 256>> \o value
Behind(s, n) == SubSeq(s, n + 1, Len(s))
Within(s, before, after) == SubSeq(s, before + 1, Len(s) - after)

\* The lengths filled in around a message nest: at every level the TLVs tile
\* the bytes of the level above, and inside is the message, its length before
\* it, and behind it in format 2 the colours and the GUID its flags ask for.  In
\* format 4 that length is one byte, too few for a URL or for contacts of more
\* than 254 bytes.
BodyNests ==
    stage = "sent" =>
        LET outer == Behind(bs.data, HeadLen)
            body == Within(outer, 4, 4)
        IN CASE job.format = 1 ->
                  /\ outer = Whole(2, body) \o Whole(6, <<>>)
                  /\ body = Whole(1281, <<1>>)
                            \o Whole(257, <<0, IF job.slave.utf8 THEN 2 ELSE 0>> \o <<0, 0>> \o job.data)
             [] job.format = 2 ->
                  LET head == 10 + Len(Capability(job.flags))
                      ext == Behind(body, head + 14)
                  IN /\ outer = Whole(5, body) \o Whole(IF job.how = "scan" THEN 6 ELSE 3, <<>>)
                     /\ Behind(body, head) = Whole(10, <<0, 1>>) \o Whole(15, <<>>) \o Whole(Tlv2711, ext)
                     /\ ext[46] = job.type
                     /\ Behind(ext, 51) = Word_2_Chars(Len(job.data) + 1) \o job.data \o <<0>>
                                            \o Colours(job.send) \o Guid(job.send)
             [] job.format = 4 ->
                  /\ outer = Whole(5, body) \o Whole(6, <<>>)
                  /\ Behind(body, 6) =
                        <<(Len(job.data) + 1) % 256>> \o job.data \o <<0>>
                  /\ body[5] = job.type

\* What was written is what is read: the text of our own message of format 1,
\* and the type and the text of one of format 4 that another client packed, and
\* of one that waited while the daemon was offline.  The length of that one is
\* read with its bytes swapped: where that makes it too small, the text is cut.
TextRead ==
    stage \in {"read", "shown"} =>
        /\ channel = 1 /\ job.how # "odd" => msg.data = UpToZero(job.data)
        /\ job.how = "foreign" =>
              /\ msg.type % 256 = job.type
              /\ \/ msg.data = job.text
                 \/ job.said < Len(job.text) /\ msg.data = SubSeq(job.text, 1, job.said)

\* With a key for a contact, no message the user sends by 'msg' shows a byte of
\* its text on the wire, cut short or not: cmdMSG_main lets it pass only to a
\* client that YSM_EncryptAnyData enciphers for.
NeverClear ==
    stage = "sent" /\ job.how = "msg" /\ job.slave.key =>
        /\ \A i \in 5 .. Len(job.data) : job.data[i] >= Cipher
        /\ Len(job.data) <= MAX_MSGDATA_LEN

\* The TLVs behind the head of a message of format 1 follow one another within
\* its bytes, and one with a text has the four bytes that come before it.
Tiled(s) ==
    \E ends \in SUBSET (0 .. Len(s)) :
        /\ 0 \in ends
        /\ \A p \in ends :
              p + SIZEOF_TLV_HEAD <= Len(s) =>
                  LET type == 256 * s[p + 1] + s[p + 2]
                      len == 256 * s[p + 3] + s[p + 4]
                  IN p + SIZEOF_TLV_HEAD + len \in ends /\ (type = 257 => p + 8 <= Len(s))

\* Whatever another client sends in format 4, and whatever length an offline
\* message claims, the reader stays within the bytes it has; it does so in
\* format 1 when the inner TLVs are whole, whatever the outer one says.  It
\* trusts them otherwise, and everything in format 2.
ReadsWithin ==
    inBs.fault => \/ channel = 2
                  \/ channel = 1 /\ job.how = "odd" /\ ~Tiled(Behind(job.data, SIZEOF_TLV_HEAD))

\* "only normal messages come in type1": one sent to a contact without the
\* advanced format is shown.  It is not.
NormalShown == stage = "shown" /\ channel = 1 => shown # <<>>
=============================================================================
