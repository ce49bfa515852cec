# ysmd in TLA+

ysmd is a daemon that keeps a user signed in to the ICQ network. It is a C
program of a handful of threads that share a contact list, one connection to
the ICQ servers, a pool of byte buffers and a set of direct connections, most
of it without locks. This directory holds a model of it: TLA+ modules
translated from `src/src`, TLC configurations that check them on small
instances, and proofs that TLAPS checks.

## 1. The system

### Threads (`main.c`)

| thread | what it does |
| --- | --- |
| prompt thread (`promptThread`) | accepts a control connection, reads lines, runs the commands of `commands.c` |
| network thread (`networkThread`) | while `g_state.connected`, reads one FLAP from `g_model.network.socket` and handles it |
| cycle thread (`cycleThread`) | every 100 ms: keep-alive, idle timer, `dcSelect` on the direct connections |
| direct-connection thread (`dcThread`) | accepts direct connections of other clients |
| a thread made by the `opendc` command | is handed a number where it expects a pointer |

### Components

| component | state | operations | modules |
| --- | --- | --- | --- |
| contact list: `slaves.c`, `ylist.c` | `g_slave_list` (doubly linked, `length`), each slave's number, nickname, flags, server ids | add, update from the server's roster, delete, look up, walk, free; guarded by `g_slave_list_mutex` where the caller remembers it | `Roster`, `SlaveList`, `SlaveLock` |
| disk: `setup.c` 410-630, `slaves.c` `updateSlave` | the slaves file | load, add a line, remove a line, update = remove + add | `SlaveFile` |
| session: `network.c`, `main.c`, `wrappers.c` | `g_state.connected`, `g_sinfo.flags`/`seqnum`, the socket | connect, sign in, follow the redirection, read FLAPs, send, disconnect, reconnect | `Login`, `Session` |
| server-side list (SSI): `network.c` 3040-3910, 4416-4578 | ids per slave, `blentries`, pending request ids | roster download, add/remove/update items, acknowledgement | `Ssi` |
| status and messages: `network.c`, `prompt.c`, `charset.c`, `crypt.c` | own status, privacy item, each slave's status and client, chat mode, stored messages | change the status, buddy notices, receive, decode, encipher, delete stored messages | `Presence`, `Message` |
| byte streams: `bytestream.c`, `bs_oscar.c` | a pool of 255 descriptors | allocate, append, read, fill in lengths, send, free | `Bytes`, `ByteStream`, `BsPool` |
| direct connections: `direct.c` | a flag machine and a socket per slave | handshake, packets and their cipher, closing | `Direct` |
| control: `control.c`, `prompt.c`, `commands.c` | a line buffer | accept, split into lines and words, look the command up | `Control`; the commands themselves are in the module whose state they change |
| configuration, output, timers: `setup.c`, `toolbox.c`, `output.c` | `g_cfg` | read at the start | none |

The components meet in shared globals: every thread reads and writes the
session's without a lock, every handler takes and returns byte streams, the
list is walked by all threads, a direct connection's failed write reconnects
the session (`YSM_WRITE`), and descriptors are handed out again by the kernel
to whoever opens one next.

### What is hard about it

* **The list** is edited pointer by pointer, `pre` is not set by one of the two
  insertions, and its order and its uniqueness are assumed by later operations.
* **The mutex** is a default one. A handler that returns early without
  unlocking stops the daemon when the next thread, or the same one, locks it.
  Some accessors take no lock.
* **The session** is spread over three or more threads that test `connected`
  between their steps, write the global socket, and number FLAPs by
  read-modify-write of a global. Servers redirect, refuse, hang up and fall
  silent; failed writes on a direct connection start a reconnect in whatever
  thread met them.
* **The disk** is written by truncation and rewrite; updates are a removal and
  an addition; a crash may come anywhere.
* **The byte streams** share a pool without a lock, with a path that leaks and
  writes that start over; lengths are filled in afterwards, and what is read is
  trusted to be as long as it says.
* **Status** is changed by two threads in three steps each, and kept at the
  server in two places; stored messages are deleted there by one request.
* **Direct connections** are accepted by one thread, read by another and closed
  by a third, with a socket number that outlives the socket.
* **Ids and queues**: 16-bit sequence numbers and request ids wrap, request ids
  are shared between kinds of requests, counters are not returned to 0.

`PROJECT.json` lists the hazards with their lines, and the properties that
would notice.

## 2. Modules

| module | what it is |
| --- | --- |
| `Roster` | abstract contact list: a map from numbers to nicknames |
| `SlaveList` | the doubly linked list, pointer by pointer; implements `Roster` |
| `SlaveLock` | who holds the mutex, and what the threads do to the list with and without it |
| `SlaveFile` | the slaves file, with crashes and restarts |
| `SlaveFile_proofs` | what the file holds follows what the daemon knows, for all texts and files |
| `Login` | abstract session: offline, auth, handover, online, exited |
| `Session` | connection, threads and servers; implements `Login` |
| `Session_proofs` | sequence numbers, who gets password and cookie, and the refinement, for all constants |
| `Ssi` | the server-side list: ids and flags of the contacts, requests and their answers |
| `Ssi_proofs` | answers find their contacts, and both sides agree on who is ignored, for all constants |
| `Presence` | who is online, for whom we are, and what becomes of messages |
| `Presence_proofs` | own status, contacts' statuses and stored messages, for all constants |
| `Bytes` | the readers and writers of a byte stream, as operators |
| `ByteStream` | one packet, field by field, over the wire and back |
| `Message` | one text, through charset, cipher, format, server and reader |
| `BsPool` | the pool of streams and the threads' ways through it |
| `Heap_proofs` | what is allocated and linked: shape of the list and its refinement; owners, slots and whole packets for a pool of any size |
| `Streams_proofs` | `ByteStream` and `Message`: fields, frames and bounds for packets of any fields; lengths, cipher and texts of messages, and what the reader makes of any bytes, for all constants |
| `Direct` | direct connections of two contacts, with descriptors that are handed out again |
| `Direct_proofs` | descriptors, handshake and packets, for all constants |
| `Control` | lines over the control connection, words, and the lookup |
| `Commands_proofs` | both `SlaveLock` and `Control`: mutual exclusion and what it guarantees; lines in order and the words they mean, for all constants |
| `MC...` | definitions for TLC: symmetry, small inputs, what the server has stored |

### SlaveList

A block of memory is a member of `Node`; `start`, `suc`, `pre` and `length` are
the fields of `ylist.h`, `uin` and `nick` those of a slave. Each operation of
`ylist.c` is one operator on them; `AddNew`, `AddDownloaded`, `DeleteSlave`,
`Rename` and `freeSlaveList` are the operations that `slaves.c`, `setup.c` and
`commands.c` build from them. They run, or are meant to run, under the mutex,
so each is one step. The comparison of nicknames (`strcasecmp`) is a function
`Fold` from nicknames to positions, so two nicknames may be equal to it and
differ. A loop over the list is the least set closed under `suc`: an operator
that needs no recursion and can be reasoned about.

`deleteListNode` never frees the block. It is modelled as one that `calloc` may
return again, which is the more demanding reading, since its fields are then
reused. `proc` says whether the process lives: two operations can dereference a
null pointer, and a fault is a state of its own (`deleteFault`, `renameFault`).
`g_cfg.updateNicks` is a variable that never changes after the start.

### SlaveLock

Every handler that touches the list is one of seven jobs (use, walk, add,
delete, message, roster, poll), from its `lockSlaveList` to its return. Inside,
finding, splicing, linking and unlinking are separate steps, so that another
thread can interleave wherever the mutex does not keep it out. The returns that
forget to unlock are actions (`addsClone`, `refusesVictim`,
`receiveMessage_noTlvs`). Of the list only `suc` is kept; a deleted block is
not handed out again, because it is never freed.

### SlaveFile

A line is the sequence of the fields that colons separate, and whether it ends
with a newline; only a crash leaves one that does not. Reading (`readSlaves`)
passes over comments and lines without a nickname or a number; a nickname with a
colon shifts the fields, and one that begins with `#` makes a comment.
`addLine` and `removeLine` are what
`addSlaveToDisk` and `deleteSlaveFromDisk` write back, including how a line is
printed again after `strtok` has cut it. A change of the file is three steps,
`Copies`, `Truncates`, `Writes`; between them the process may be killed, which
leaves any prefix of what was being written (`Partial`), and start again.
`fopen` and `tmpfile` may fail once per start. `updateSlave` is the removal and
the addition that follows it (`then |-> "add"`).

Met on the way, and part of the model: a line without a number makes
`deleteSlaveFromDisk` take the length of a null pointer (`CopyFaults`); the
slaves file is not created by either function when it is missing; the key a
user sets is never written (the code that would is under `#if 0`).

### Session

A step is what a thread does between two of its accesses to the shared globals,
or between two calls that block. Threads: `net`, `ctl` (prompt), `cycle`, and
`Dc`, those that write to direct connections and so may call
`networkReconnect`. A connection is a member of `Conn`; the server at its other
end is modelled as far as the client can tell (it greets; after an answer the
authorization server redirects or refuses; the BOS server sends
`SERVER_IS_READY` and then SNACs; either may close at any time, with or without
saying so). `inbox` and `sent` are the two directions.

Details that matter and are kept: `LoginA` reports success to its caller even
when the greeting is wrong; `readHeader` at the end of the stream yields a FLAP
from uninitialised memory, so the FLAP is any one of a set; a body that was not
read because `connected` was cleared in between leaves a FLAP without TLVs;
`incomingFlapCloseConnection` closes the socket of the moment, not the one it
read from; the keep-alive and commands send from other threads.

Left out: descriptor numbers and their reuse (a closed connection stays closed;
`Direct` has them), SNAC contents, partial reads and writes (`ByteStream`,
`BsPool`), and the proxy's negotiation.

### Ssi

`info[s]` holds the fields of a contact's `slave_t` that matter here: the flags
`FL_DOWNLOADED`, `FL_AUTHREQ`, `FL_SCANNED`, the ids of `budType` and `reqId`.
`blentries` is `g_sinfo.blentries`; a request id is the kind of the request with
the change count modulo `W`. `AddItem` is `YSM_BuddyAddItem`: it counts the
change, generates an item id if it needs one, writes the request id into the
contact and sends. Each command that calls it is one step under the mutex; the
two that call it several times (`cmdSAVE_all`, `ignore`) hold the mutex in `ctl`
and take a step per contact, since the network thread reads the roster, item by
item, without the mutex in between (`buddyAddSlave`). An answer is handled in a
step that finds the contacts (`YSM_BuddyIncomingChange`, up to the first that is
downloaded already) and one for each of them (`incomingChangeOf`).

`toServer` and `toClient` are the two directions of the connection: in order,
and lost together when the session ends. The server sends the roster on request;
it may accept, refuse, ask for authorization or put off a contact, may decline an
ignore or other list entry for reasons of its own and must decline an item whose
id or contact it has already, removes what a request names exactly,
and answers in order. The entries it declined without a clash are `denied`: the
client keeps their ids as if they were there, and `IgnoredAgrees` counts them
with what is stored. The session itself is reduced to `SignsIn` and
`SessionEnds`. The random request id of a scan is taken to differ from all
others. That `cmdDELSLAVE` refuses an ignored contact and keeps the mutex is in
`SlaveLock`; here the refused command is left out.

Left out: `EDIT_BEGIN` and `EDIT_END`, the group items and the lists of ids sent
with them, `visibleId` (its command is compiled out), the scan of the whole list.

### Presence

The daemon's status (`g_model.status`) is changed by the prompt (`cmdSTATUS`,
`cmdDISCONNECT`) and by the network thread (after the roster, in
`incomingServerReady`) through `changeStatus`, which is three steps of a thread:
the status is sent, the privacy setting is chosen by the old and the new one,
the new one is stored. A contact has `st` (status) and `fprint` (what kind of
client it is taken for). What the server sends is a queue of notices that the
network thread takes one by one: the personal settings, the roster with our
privacy item, statuses, messages, stored messages and their end. The server
keeps our status and setting, the contacts it tells us about, and stored
messages until it is told to delete them. A session ends by a command, by the
server or by `networkReconnect`; only the last resets the statuses
(`st`, never `fprint`).

What the texts of messages become is left to `Message`: here a message is
displayed, passed over for its format, or makes the daemon read past its bytes.
`privacyId` says whether the client knows the id of its privacy item, which is 0
until the first roster has told it (`network.c:2628`, `3877`): a setting sent
before names no item and is lost. The roster repairs that where it calls
`changeStatus`, unless it comes between such a setting and the store of its
status. History variables (`overlap`, `missed`, `swallowed`, `unread`) name the
cases the properties except. What they except is in the code: two `changeStatus`
at once, or a first roster in the middle of one; contacts that were online when
a session ended and are still shown as that; a server without a privacy item, at
which the daemon is visible while it signs in as invisible; messages that came
in chat mode and are dropped, although `chat`'s help text says they are logged.

Left out: the text of automatic replies and when they are sent, user
information requests, `YSM_BuddyChangeStatus` for a change code it does not
know, which returns with the mutex locked (the server sends two codes), and the
exit in `displayMessage` for URL and contact messages (`Message` has it).

### Bytes and ByteStream

`Bytes` has a stream as a record (`data`, `ptr`, `len`, whether it is held,
whether it has failed) and an operator for each function of `bytestream.c` and
`bs_oscar.c`. `fault` is set where C would read or write outside the
allocation. `ByteStream` makes a packet field by field (numbers of four widths
and two byte orders, strings with two kinds of lengths, TLVs with their values
inside or filled in afterwards), with a reallocation that may fail at any time,
sends it, reads head and body in pieces of any size, with failures and ends of
the stream, and parses it with the matching readers. A string whose length is
read into an uninitialised `long` is represented by junk. `HeadEnds` is the end
of the stream inside a head: no error for `bsAppendReadLoop`, so that the handler
goes on with a length it reads off the stack (`Leftovers`) and with whatever
body that asks for.

`bsAppendVprintfType` (`bs_oscar.c:253`, `264`) hands one `va_list` to `vsnprintf`
twice. What the first call counted is the length that is written and the number
of bytes that is appended; what the second prints is undefined. So the
characters of a string field are those that stand in the buffer, of any value
and as many as were counted (`FieldSet` has them all), and where a `%s` is to be
printed the daemon may die instead (`PrintFaults`). That they are the characters
asked for is claimed by no property.

Kept as found: `reallocBsDataIfNeeded` sets `len` before it tries; a stream that
failed once refuses to be sent; the result of reading a body is ignored; a TLV
at offset 0 of an empty stream (`bsAppendTlv` with a length of 0) writes no
value; a seek past the end succeeds and the next read faults.

### Message

One text at a time: a command (`msg`, `mplain`, `chat`, a URL, contacts, a text
as RTF, the request for an automatic message, a scan) packs it for a slave with
any mix of UTF-8, advanced format, key, deciphering client and "do not disturb",
in format 1, 2 or 4, and the server relays it to the same code's reader. Flags,
priority, capability and trailing TLV are those that the sender asks for: the
colours stand behind a normal message only (`Colours`), and behind them, for a
UTF-8 client or RTF, the length of a GUID and the GUID (`Guid`); a scan has TLV
6 behind it, an automatic message's request has flags and a priority of its own.
`bs.data` are the bytes that go out, made with `Bytes`; the cipher is a shift
that marks a byte as enciphered, since nothing in this version deciphers.

Other clients send format 4 and stored messages as they should be, a stored text
with its length in either byte order and with or without a zero behind it; and
bodies of formats 1, 2 and 4 that are anything at all (`Garbled`: lengths beyond
the end, TLVs too short for what is read from them, heads that are cut). The
proofs let `Garbled` be any bytes. The loops of the readers are steps:
`NextInner` is a round over the TLVs inside format 1, `Next2711` one of the
search in format 2, which goes by the position alone (`network.c:1411`): at a
head that is cut (`Cut`) type and length are what they were, so it may stay
where it is for ever. `Whole` is a TLV whose length is that of what it holds.

Kept as found: messages of format 1 are read and, their type being undefined
there, never shown; format 2 is read up to a bound taken from a TLV that was not
read yet, so that it may run past its bytes, and its capability of 31 bytes is
skipped as one of 16; the GUID is written with a big-endian 38 and looked for with
a little-endian 39; stored messages are read into an uninitialised structure,
with the bytes of their length in the wrong order (`WaitingText`); format 4 is
written with its length in a byte and read with it in a word, so that one of our
own is not read back, only read within its bytes; format 1 announces UCS-2 and
carries UTF-8; `chat`, `url` and automatic replies do not look at the contact's
client before they encipher or not; a text that does not fit is cut before it
is enciphered. Left out: the truncation at `YSM_ICONV_MAXLEN`, incoming conversion
and deciphering, both compiled out; junk in a length so great that the sum wraps
at 2^32; the early return for a message without TLVs, which is in `SlaveLock`.

### BsPool

A thread has a stack of streams, at most `Depth` of them: who composes a packet
holds its stream while `sendSnac` takes another, `changeStatus` holds one while
`sendUpdatePrivacy` and its `sendSnac` do the same, and the network thread holds
the packet it has read over all of that. A user is a place on such a stack
(`Under`, `Over`); the first of the network thread is the incoming packet (`In`).
A stream is the sequence of pieces appended to it, each named for who appended
it, so that a stream two users share shows. `initBs` is a step per slot, the
allocation, and the store (`Looks`, `Allocates`, `Stores`, `Exhausted`);
`freeBs` is the release and the emptying of the slot. `writeBs` hands the
buffer over from its start each time, until what was written adds up to the
length, or, where a short write made it miss the length, until the socket
fails. `HeadFails` is the return of `serverResponseHandler` that keeps its
stream. The two streams that `initNetwork` takes and keeps (`network.c:21`) are not
in the pool of the model: it is that much smaller.

### Direct

Descriptors are one table of the process, shared with the connection to the
server, and the lowest free one is handed out. Per slave `d_con` has the socket
number, which stays after `YSM_CloseDC`, and the flags. `dcThread` accepts, reads
the first packet and answers; the cycle thread (`dcSelect`) reads and answers
what follows; the prompt sends and closes. `peer` is what the other side got, in
order. Packets are deciphered symbolically: a byte is the set of the symbols it
is the XOR of, so that `YSM_EncryptDCPacket` and the reader's inverse can be
compared for every draw of the check byte and every length.

`Put` is a write to a number: where that has become the connection to the server
since, the packet goes into the ICQ session and nothing is noticed
(`direct.c:231`, `wrappers.c:118`); on a connection whose client has gone it fails,
now or later, and ends the session. A `PEER_INIT2` that is cut short (`SHORT`)
is passed over (`direct.c:448`), and the connection goes on waiting for one.

Left out: outgoing connections, because `cmdOPENDC` passes the number of the
slave as the thread's argument, which dereferences it; file transfers, since
what starts one is compiled out (`YSM_DC_IncomingMessageGREET`,
`YSM_DC_IncomingMessageFILE`), but for `cmdFILEACCEPT`, whose test of `victim`
is inverted. Texts above 215 bytes overflow the length byte and are misframed;
`Texts` stays below. `deleteSlave` does not close the contact's socket, and
`YSM_DC_Wait4Client` uses a slave without the mutex: contacts are not deleted
here.

### Control

A client writes lines, TCP cuts them into pieces, and `wire`, `buf` and `ptr`
are what has not arrived, the receive buffer and where its scan stands. The scan
takes a line, moves the rest to the front, and goes on at the second byte. Lines
are split into words as `YSM_ParseCommand` does, in place and with `argc`
corrected afterwards, and looked up in rows of `g_command_list`. `WordsMeant`
compares that with a definition of its own of the words of a line: the longest
stretches without a blank (`Words`). What a command then does is in the modules
whose state it changes. `argv` has `MAX_CMD_ARGS` places on the stack
(`ysm.h:31`, `prompt.c:160`) and nothing counts what is put there: a line with
more arguments, or as many and a blank at its end (`Overruns`), overwrites what
stands behind, after which the daemon is gone (`sock = "smashed"`) or not.
`argc` does not count the command, so a blank line makes it -1; the model counts
the command. A command with too few arguments prints "command not found" after
its usage, which is not modelled.

## 3. Runs

| run | what it shows |
| --- | --- |
| `list` | `ChainComplete`: insertions, deletions, renames and updates in every order keep the chain complete; the list implements `Roster` |
| `lock` | every pair of handlers interleaved: what is used is listed, no change of the list is lost, only three returns keep the mutex, handlers end |
| `slave_file` | with crashes, restarts and files that cannot be opened: deleted contacts stay deleted, only odd nicknames are lost, nothing is invented, only a torn line faults |
| `session` | numbers without gaps, the cookie goes to a BOS server, the session implements `Login` |
| `session_live` | a reconnect ends, in a session or in the exit |
| `ssi` | an answer is applied to the contact it answers, both sides agree on who is ignored, uploads are settled |
| `presence` | own status and privacy, statuses of contacts and stored messages agree with the server whenever nothing is under way |
| `byte_stream` | what is read is what was written, the packet takes its bytes and no more, neither side leaves its memory, no packet with a hole is sent |
| `message` | lengths nest, texts survive where the code can read them, what must be enciphered does not leave in clear, and of whatever others send, only format 2 and a format 1 whose inner TLVs do not tile it are read past their bytes |
| `bs_pool` | each stream has one owner, slots are given back on every path but one, packets leave whole until a write is short, and whoever begins a packet comes to its end, though the pool may be full |
| `direct` | the handshake keeps its order, packets are framed and deciphered, no descriptor leaks, is closed for another, or outlives its client |
| `control` | each line is carried out once, in order and in the end, and means what its words say if `argv` has room for it |

All of them pass. Three more configurations state the remaining invariants and
liveness properties of the same instances, and pass as well: `SlaveListMore`
(`TypeOK`, `ChainAcyclic`, `PreNullOrRight`, `LengthCounts`, `UinUnique`,
`Sorted`, `NickSharedOnlyByNumber`), `SlaveLockMore` (`TypeOK`, `OwnerInside`,
`WalksTheList`, `PollSeesSlaves`, `PollEnds`) and `SessionMore` (`TypeOK`,
`AnsweredConnection`, `OneOpen`, `ByeNoticed`). Run them
like the others, e.g. `tlc -config SlaveListMore.cfg MCSlaveList`.

### Where the code does otherwise

Each of these configurations checks one property that a comment or the name of
a command promises, and TLC finds it violated. They are kept so that a repair of
the code, brought into the module, can be seen to work.

| configuration | property | what happens |
| --- | --- | --- |
| `SlaveListDelete` | `DeleteSafe` | `ylist.c:68` dereferences `pre`, which insertion behind another slave does not set (`ylist.c:31`), although `ylist.c:70` minds that the node "could be the last element in the list" |
| `SessionRelogin` | `CookieFollowed` | `network.c:2352` does not follow the redirection while `FL_LOGGEDIN` is left from an earlier session, although "server sends BOS address and cookie, so we can continue login sequence" (`network.c:2354`) |
| `SessionKeepAlive` | `EofNoticed` | the failed keep-alive of `network.c:452` is reported to nobody; the ChangeLog (626) has it "realise of disconnects with the keepalive packet and automatically reconnect" |
| `SlaveLockClone` | `AlwaysReleased` | `setup.c:477` returns with the mutex when a contact is added twice: the next command stops |
| `SlaveLockRoster` | `NoneLost` | the roster is inserted without the mutex (`network.c:3364`); "slave list must be locked in a caller function" (`network.c:3439`) is said of its neighbour |
| `SsiReconnect` | `AnswerMatches` | the new session sets the change count back (`network.c:3825`) and an answer finds a contact of the lost one, whose id was left "so we then know whos who" (`network.c:3194`) |
| `SsiDelete` | `DeletionTakesEffect` | `network.c:3388` names the wrong ids; `BuddyDelSlave` "removes a slave from the server-side contact list" (`network.c:3372`) with the group id "required when deleting from srv" (`slaves.c:215`) |
| `SlaveFileKey` | `KeySurvives` | `cmdKEY` says "update the configuration file with the new key for this slave" (`commands.c:1321`); no line with a key is ever written |
| `PresenceChat` | `MessageKept` | in chat mode other messages are dropped (`prompt.c:309`); the text of `chat` says they are "logged using AFK" (`commands.c:564`) |
| `MessageShown` | `NormalShown` | "only normal messages come in type1" (`network.c:1287`), but their type is not set and `displayMessage` shows nothing |
| `DirectClose` | `OwnClosed` | `YSM_CloseDC` keeps the number of what it closes (`direct.c:572`): a second `closedc` closes what has got it since |

### Bounds

* `list`: three blocks, three valid numbers and an invalid one, three nicknames
  of which two fold to the same, both settings of `updateNicks`. Three blocks
  give a head, a middle and a last slave, so every case of insertion and
  deletion occurs, with every combination of set and unset `pre`. `ListShape`
  and `ImplementsRoster` carry the shape and the refinement to any size.
* `lock`: two slaves, one of which may be protected, the prompt and network
  thread and one of the cycle/direct-connection threads, so every pair of
  handlers meets. No symmetry, because liveness is checked. The safety part is
  proved for any number.
* `slave_file`: two contacts, one of whose numbers may lose its last digit and
  still be one; a nickname of one field, one with a colon, one that looks like a
  comment; one crash per behaviour and any number of restarts; at most two
  lines. Three steps make a change, so the crash meets each of them, in an
  addition, a removal, and between the halves of an update.
* `session`: three connections are a sign-in, a redirection and one more
  sign-in or redirection; `W = 4` makes the numbers wrap inside a session of
  four FLAPs, and starting at `HelloSeq = 3` makes the answer to the greeting
  wrap too; one reconnecting thread, one retry. `MaxFlaps` bounds what a
  server sends on one connection and `MaxSent` what is sent on it: the handler
  is the same for every further FLAP.
* `session_live`: two connections and no numbering (`W = 1`), since liveness
  does not depend on it. No symmetry is used.
* `ssi`: two contacts, of which one is on the server: the one gets its id and
  flag from the roster, the other by an upload, and their requests mix.
  `MaxChanges = 6` is enough for a roster, an upload that is put off twice, and
  an `ignore` with its second request; two requests and answers may be on
  their way when a command begins, and one scan. `W = 256` as in the code:
  the wrap is out of reach of the bound, and needs 256 changes within one
  answer.
* `presence`: one contact, one message, two sessions, two commands, one change
  of the contact's status, two notices on their way: 5.6 million states. Two
  sessions let everything that outlives one be met by the next; two commands
  let the prompt change the status before and during a sign-in. The contact's
  notices do not depend on those of another.
* `byte_stream`: three fields of nine kinds, `BS_INIT_LEN = 8` so that the
  buffer grows once or twice in a packet, and three lengths that a cut head may
  leave (none, a short one, the greatest); 399 thousand states. Three fields are
  an open TLV with two inside, or a field on either side of one.
* `message`: five texts (plain, one that UTF-8 lengthens, control characters,
  separators, one longer than fits), all capabilities of the receiver, junk of
  three values; from others six texts, one of them of 256 bytes so that its
  swapped length is 1, and 16 bodies in each of three formats; 12,849 states.
  After its sending or coming a message is nearly a straight line.
* `bs_pool`: two threads with two streams each, four slots, five packets, one
  short write; 275 thousand states. With as many slots as users the first
  leaked stream is what exhausts the pool.
* `direct`: four descriptors, two connections, two contacts, one drop of the
  session and one message; 899 thousand states. Four are the listener, the server
  and both connections, so every number that is freed is wanted again.
* `control`: a buffer of 16 bytes, an `argv` of four places, three lines per
  client of eleven shapes (with blanks anywhere, just filling `argv`, overrunning
  it by a word or by a blank), two clients; 194 thousand states.

`CHECK_DEADLOCK FALSE` everywhere: the daemon may exit or die (`proc`,
`alive`), connections, packets and commands of the instance run out, and in
`lock` a mutex that was kept stops every thread, which `Released` and
`AlwaysReleased` speak about.

### Scenario constants

Some properties hold only if something does not happen. These are constants, so
that what is excluded can be named and let in again:

* `Overlap` (Session): commands and reconnects begin at any point, even between
  the network thread's closing of one connection and its answer on the next.
  With `TRUE`, `CookieGoesToBos` is violated: the global socket is replaced
  under the network thread, and the cookie goes to an authorization server.
* `Senders` (Session): who sends besides the replies of the start-up. With the
  prompt thread among the senders `SeqConsecutive` is violated: the two threads
  take and set `g_sinfo.seqnum` in separate steps. `session_live` lets the
  prompt and cycle threads send, and does not check the numbers.
* `Relogin` (Session): the user connects again while `FL_LOGGEDIN` is still
  set; it is only `TRUE` in `SessionRelogin`.
* `BadHello` (Session): a server greets with something else or hangs up.
  `networkSignIn` then reports success and leaves the socket open: `OneOpen` and
  `ReconnectEnds` are violated with `TRUE`, so `session_live` has `FALSE`.
* `Protected`, `Clones`, `WwpPagers` (SlaveLock) open the three returns that keep
  the mutex, `Rosters` the insertion without it. Each of the three violates
  `AlwaysReleased` by itself; `SlaveLockClone` checks the one that needs only a
  typing error of the user.
* `Overlap` (SlaveFile): the network thread adds contacts of the roster to the
  file while the prompt changes it, without the mutex. With `TRUE` one's lines are
  lost in the other's, and `NoneReturns` and `OnlyOddNicksLost` are violated.
* `Hasty` (Ssi): the user changes the list after signing in and before the roster
  has come. With `TRUE`, `AnswerMatches` is violated within one session: the
  roster sets the change count back to what the first requests have used.
* `Stored` (Ssi): what the server has. An ignore item with a higher id than its
  contact's lets the id generator, which looks at `budId` only, return an id that
  is taken if the roster lists the contact last.
* `Sessions` (Ssi): 1 in `ssi`, since a second one violates `AnswerMatches`
  (`SsiReconnect`).
* `Races` (BsPool): two threads meet in `initBs` with the same slot. The second
  store then overwrites the first, and both threads go on with one stream. All
  properties but `PacketsEnd` speak of what happens until then (`raced`); with
  `FALSE` the run has no such states, which would be too many for it. The proofs
  cover both values.
* `Faults` (Direct): `again`, `race`, `second`, `LONG` and `AUTO` each violate
  `OwnClosed` or `NoneForgotten`, `CUT` violates `GoneNoticed`: a connection that
  ends inside a packet is read for ever. What each means is said in the module;
  `direct` has none of them, `DirectClose` has `again`.
* `EmptyLines`, `Bursts` (Control): an empty line right after a command is
  glued to the next one, and a client that has more on its way than the buffer
  holds loses a part of it, since the buffer is reset when it is full but for one
  byte; either violates `LinesInOrder`.
* `updateNicks` (SlaveList) is on by default in `setup.c`; with it the list is
  neither sorted nor free of doubled nicknames, hence the premise of `Sorted`
  and `NickSharedOnlyByNumber`.

### Fairness

`Session!Fairness`: the network and cycle threads, a thread inside
`networkReconnect` and one inside `networkSignIn` go on if they can (weak
fairness: they are loops with no condition to wait for but the network), a
handler sends finitely many FLAPs (strong fairness of `handled`), and a server
whose client has closed the connection closes it as well. Nothing is assumed of
the user, of the direct connections, or of a server with an open connection: it
need not greet, answer, speak or close. `SlaveLock!FairSpec`: every thread that
can take a step inside a handler does; which of several waiting threads gets the
mutex is left open, and no thread need begin anything. `Ssi!FairSpec`: the threads
go on with a loop or an answer they have begun, and the server answers while the
connection lasts; `MaxChanges` is also what makes it stop putting a contact off.
`BsPool!Fairness`: each user goes on with the packet it has begun; nobody need
begin one. A count that a short write has led past the length ends only when
the socket fails, which nobody owes (`PacketsEnd` names it: `Overshot`); and the
incoming packet waits for a server that need not speak.
`Direct!FairSpec`: the accepting thread and the cycle thread run, the latter
looks at every contact in turn, the prompt finishes what it has begun and the
session comes back; no client need do anything. `Control!CtlFairSpec`: the prompt
thread runs. `SlaveFile`, `Presence`, `ByteStream` and `Message` state only safety.

## 4. Proofs

`Heap_proofs`, about `SlaveList`

* `ListShape`: the type invariant, `ChainComplete`, `ChainAcyclic`,
  `PreNullOrRight`, `LengthCounts` and `UinUnique` hold for all sets of blocks,
  numbers and nicknames. The inductive invariant `IInv` adds what the walks
  rest on: pointers of listed blocks lead to listed blocks, free blocks are
  zeroed, and (`Covered`) every set that holds `start` and is closed under `suc`
  holds all listed blocks. `Covered` replaces induction along the list: given a
  set closed under the new pointers, one closed under the old ones is built
  from it (`UnshiftKeeps`, `InsertAfterKeeps`, `DeleteKeeps`).
* `ImplementsRoster`: `Spec => IsRoster`. Each operation changes the map by one
  contact; `OthersKept` says that the rest stays.

`Commands_proofs`, about `SlaveLock`

* `LockSafe`: without rosters, and for any slaves and threads, the handlers
  exclude each other, a slave that is used or walked over is in the list, no
  insertion or deletion is lost, and `dcSelect` stands only on finished slaves -
  although three returns keep the mutex. `NoneFreedInUse` names one of them, the
  property `UsedIsListed` of the run. `IInv` consists of `ListInv` (`Refs`,
  `OneBack`, `Covered`, and `GoneRefs`: what a deleted slave leads to is or was
  in the list) and `At(t)`, what thread `t` may rely on at its place in the
  handler. `Frame` reduces a step to the list and to the place of the thread
  that moves: the others are outside, or the list does not change.
* `OnlyThreeKeep`: `KeptByThree`; a handler leaves with the mutex only by the
  returns of `addSlave`, `cmdDELSLAVE` and `receiveMessage`.

`Commands_proofs`, about `Control`: for lines of any length and number, a buffer
and an `argv` of any size and pieces of any size, while the client sends no
empty line and has no more on its way than the buffer takes (`~EmptyLines`,
`~Bursts`, as in the run); what either does otherwise is said in section 3

* `InOrder` (`LinesInOrder`). The bytes in the buffer and those on the wire are
  one stretch, and the invariant `LinesInv` says that there is a layout of it
  (`Laid`): places, in order, at which the lines stand that are typed and
  not yet carried out, each followed by its line end. `LinesAssumption`, that a
  line has no line end inside, is what makes the first line end that the scan
  finds the end of the first of them. The scan may begin at the second byte
  only because no line is empty, and no byte is thrown away because the
  buffer never fills up.
* `MeantByWords` (`WordsMeant`), by `AllMeant`: for any line that has room in
  `argv` (`HasRoom`, counted by its words and a blank at its end, and not by the
  parser), the one pass of `YSM_ParseCommand` over the blanks and its
  corrected `argc` give the words of the line, the first two
  without the blanks before them, and so the command they name. The places of
  the cuts and the ends of the words are matched by their rank (`Nth`): between
  one cut and the next is exactly one word, and only behind the last may be none;
  which is also why `HasRoom` is what `YSM_ParseCommand` needs (`Overruns`). Of the
  other lines nothing is claimed.

`Heap_proofs`, about `BsPool`: for a pool of any size, any number of threads and
of streams that each holds over one another, packets, failures and short writes

* `OneOwner` (`PoolSound`), `EverySlot` (`GivenBack`), `WholeUntilShort`
  (`WholePackets`). `PoolInv` is the type invariant and, while no two users have
  met inside `initBs` with the same slot, `Owns` and `Counts`. `Owns` says what
  each user may rely on at its step (the slot it holds is taken and the stream
  in it holds what the user has appended so far; the slot it is about to store
  into is free) and that no two users hold or store the same thing. `Counts`
  says that the slots nobody holds are as many as the packets without a head,
  and bounds who can be high up in the pool.
* The last is the hard one. `initBs` looks at one slot after the other while
  other slots are given back behind it, so that a user could find every slot
  taken although there was a free one at every moment. A user's place is the
  slot it holds or looks at; `Crowd` says that whenever somebody is at slot `i`
  or above, the users and left-behind slots up there are `i` fewer than all of
  them together: a user steps over a slot only past the user that holds it,
  whose place is there, or past a packet that was left in it (`LooksCrowd`).
  Hence whoever comes to the end of the pool proves that more packets were left
  behind than there are slots less users (`ExhaustedCounts`). With the 255 slots
  of the code and its handful of threads, it takes some 250 heads that cannot be
  read before a descriptor of -1 is used.

`Streams_proofs`, about `ByteStream`: for any fields of the kinds the code has, any
number of them in a packet, allocations that fail at any time and bytes that
come in any pieces

* `NoHoleSent` (`HoleNeverSent`), without a hypothesis. A stream that no failed
  allocation has marked invalid is as long as the items appended to it, a TLV's
  head counted as four bytes (`Sender`); `writeBs` refuses one that is marked.
* `FieldsReadBack` (`RoundTrip`), `FramesWhole` (`FrameWhole`) and
  `StreamsInBounds` (`InBounds`), under `LengthsFit`: there is a size that no field
  exceeds and of which `MaxFields` make less than 2^16 bytes, and a short string
  has less than 256. The code counts on it without a check: the lengths it puts
  down are words and bytes of what they should say. The run's fields satisfy it.
  What the bytes mean is said with a layout: the offsets at which the items
  end (`Placed`), each item's bytes standing between its offset and the one before;
  and, while a TLV is open, which item its head is and how much has been appended
  behind it (`Opened`), so that `bsUpdateTlvLen` writes that item's length over,
  and nothing else. What has arrived and what is still on the wire are together
  what was sent (`Came`). The receiver has come to one of the offsets and has
  taken out the items before it (`Read`); each reader is shown to undo its writer
  on the bytes between two offsets.

`Streams_proofs`, about `Message`: for any texts of up to 30000 bytes, any bytes
that others send, any contacts, any limit of the cipher from 20 to 30000 bytes
(it is 2547), and whatever uninitialized variables hold

* `LengthsNest` (`BodyNests`) and `KeyKept` (`NeverClear`). `PackInv` says of a
  packet that is about to leave that it is the head and, behind it, the body its
  format calls for (`Packed`), built from `Whole` TLVs, with the colours and the
  GUID that the flags of the sender ask for. Each append is followed on the
  bytes (`Holding`: what stands before the place of interest, and what behind),
  a TLV whose length is still zero being told from a whole one, until
  `bsUpdateTlvLen` closes it (`Closes`); none of the lengths exceeds a word,
  because the payload is short enough (`Modest`) after charset and cipher. The
  cut of `YSM_EncryptAnyData` comes before the padding, and the padding fits the
  limit.
* `WrittenIsRead` (`TextRead`) and `ReaderStays` (`ReadsWithin`). `ReadInv` has
  a part for each stage: what is relayed stands whole before the reader
  (`Arriving`), behind the server's head stands what its format calls for
  (`Resting`), and what has been read is right (`Rightly`). `Before` says which
  bytes the reader has in front of it, and each reader takes its field off them
  (`ReadsByte`, `ReadsWord`, `ReadsHead`, `Skips`, ...). The loop over the inner
  TLVs of format 1 is followed round by round: in a message of our own it stands
  before the first TLV, before the one with the text, or at the end
  (`OwnInner`); in one of another client it stands at one of the ends that make
  the message `Tiled` (`OddInner`), and a seek beyond the end of the packet ends
  the loop whatever the outer length says. Of any other bytes, and of our own
  format 4, whose length is written as a byte, nothing is known of what is read
  but that a reader within its bytes stays there (`Safe`, `Goes`): reads are
  clipped, and format 4 never seeks. `ReaderStays` leaves format 2 out, which
  does run past its bytes, and a format 1 whose inner TLVs do not follow one
  another within it, for the same reason.

`Session_proofs`, for any connections, direct-connection threads, retries and
width of the sequence numbers, under `Calm`: commands and reconnects start
between the handlers (no `Overlap`), and the network thread alone sends SNACs -
the conditions of the run `session`, without which the properties fail

* `SecretsStay` (`CookieGoesToBos`), `OneAfterAnother` (`SeqConsecutive`),
  `KnownServer` (`AnsweredConnection`) and, unless the user connects again with
  `FL_LOGGEDIN` left set, `ImplementsLogin` (`IsLogin`). `IInv` has three layers.
  `Places`, `OneAtATime` and `NetInSession` say whose turn it is: a thread that
  signs in finds the session down and the others idle or blocked in a read, and
  the network thread holds a FLAP only of the session of the moment.
  `Ends` and `AnsweredConnection` say what is at the other end of the socket: a
  greeted connection is fresh, a connected one has been answered or has ended.
  `Ordered` and `Numbering` say how far server and client have come: the first
  FLAP that is read is the greeting, the second is SERVER_IS_READY with the
  number after it, and the last number sent is `seqnum`, or the `lseq` that the
  reply in progress holds. All that is said of a server only until it hangs up:
  afterwards the header read from nothing may look like anything, but nothing
  that is sent arrives either.
* `ImplementsLogin` needs `FlagTells`: the flag `FL_LOGGEDIN` tells which of the
  two servers a connected socket leads to. `cmdDISCONNECT` leaves the flag set,
  and a second `connect` breaks it; hence `~Relogin`.

`Ssi_proofs`, for any contacts, any number of requests on their way and any
answers, under `Calm`: one session, whose roster is read before the user changes
anything - the conditions of the run `ssi`

* `AnswersFound`: until the change count has gone round (`FirstRound`), an answer
  carries the request id of a contact that is not stored only if it answers that
  contact's upload (`AnswerMatches`). `IInv` is `Types` and `Numbers`: a message
  is about whom its id says (`Plain`); only a downloaded contact has the id of an
  update or a removal (`Numbered`); before the roster comes, which sets the count
  back, no upload is on its way and no contact has the id of one (`Quiet`);
  and afterwards every id in use is at most the count, and an upload on its way
  is about the contact that has its id (`Given`). `NextNumber` and `NoNumber`
  reduce the actions to two kinds: those that give the next number and those
  that give none. `FirstRound` is needed: with a count of two or three values TLC
  violates `AnswerMatches` in one session. The code's count has 256, and an id
  stays in the contact after its answer, so it takes that many changes.
* `IgnoredFollowed` (`IgnoredAgrees`), with the entries that the server declined
  of its own accord counted in (`denied`), for a server that holds only contacts, in
  groups, when the session begins (`OnlyContacts`; the run's server does, and
  see `Stored` above for what an earlier client's ignore items do). Client and
  server disagree as long as requests are on their way, so the invariant is about
  all of them: `Leads` says that the requests, applied one after the other to
  what the server has, make of it what the client has, and that each
  finds what it needs - an addition, no entry with its id or contact, so that
  the server declines it only of its own accord. A command adds a request at the end
  (`LeadsFurther`), the server takes one from the front (`LeadsFirst`). That an id
  is new is `NewId`: no id of a contact is above its `budId` (`Fits`), though
  `ignore` and `save` overwrite it, and the generator looks for the greatest.
  And nobody is ignored before the roster has been read (`Unread`), which
  replaces `budId` by a smaller one.

`Presence_proofs`, for any contacts and messages, any number of sessions,
commands and changes and a queue of any length

* `KeptUntilRead` (`StoredNotLost`): the server deletes no stored message that
  the daemon has not read, although the daemon asks for the deletion of all of
  them and names none. `IInv` adds to the types what the order of the notices
  guarantees while the daemon is alive (`Order`): each message that the notice
  of the end stands for has been handled, is in hand, or is ahead of that notice
  in the queue (`Follows`); and once the notice itself is in hand, all of them
  have been handled (`AllSeen`). The reader takes the notices one at a time and
  in order, and the request goes out with the last notice in hand. The sets are
  assumed finite (`FiniteAssumption`): the server puts them in some order, and
  `Listing` says that none of them is left out.
* `OwnFollowed` (`OwnAgrees`): when the session is up and nothing is under way,
  the server shows the status the daemon has, and the privacy setting that this
  status calls for, unless two status changes have overlapped, or the first
  roster one. `OwnInv` is
  `OwnTypes`; `Stage`, at which step of `changeStatus` a thread is and how far the
  sign-in has come; and `OwnFollows`, what the server has by then: after
  the first step the new status, after the second its setting, and what
  the roster still on its way will say of it.
* `ContactsFollowed` (`ContactsAgree`): when no notice is on its way, a contact
  has the status and the client the server knows. `ContactInv` looks at the
  notices with the one in hand as one line (`Contact`): the last notice in it
  about a contact says what the server knows (`Tells`, `After`), and if there is
  none, the daemon knows it already (`Knows`). What a session leaves behind
  when it ends is excepted by the property, not by a hypothesis.

`Direct_proofs`, for any contacts, descriptors, texts, connections and drops of
the session, under `Tame`: of the faults of `Faults` only `CUT`, which stalls the
cycle thread but breaks nothing; each of the others violates `OwnClosed` or
`NoneForgotten` (the run `direct` has none at all)

* `HeldByOne` (`NoneForgotten`), `OnlyItsOwn` (`OwnClosed`), `InOrder`
  (`PeerFollows`) and, for texts of up to 215 bytes, `MessagesArrive`
  (`PeerReads`). The inductive invariant is about descriptors first: a contact
  has one connection, waiting or held, and the number that an open session of a
  contact has leads to it (`OneEach`, `Sessions`); the number in the hands of a
  thread is the one it opened or the one the contact has now, although others
  close and open in between (`Threads`, `Turns`). `Turns` and `Clients` say how
  far each client's handshake has come, by who is to write next: the accepting
  thread tells the cycle thread of the contact before it has written its own
  answers, and only what the client has yet to send keeps the two in order. The
  bound of 215 bytes is the code's: above it the length byte overflows.

`SlaveFile_proofs`, for any contacts, nicknames, numbers and file, any number of
changes, crashes and restarts, and any way a partial write may cut a line. The
hypotheses are about texts, and TLC evaluates them for the run (`TextAssumption`
in `MCSlaveFile`): nicknames have no empty field and none but the first reads as
a number of a contact (`PlainNicks`), what a partial write leaves of a number is a
prefix (`CutNumbers`), the file before the first start has lines with a
nickname and a number (`WellStored`)

* `NumbersKnown` (`NothingInvented`) and `OnlyTornFaults` (`FaultOnlyByTornLine`),
  with and without the network thread writing at the same time. Every line,
  in the file or in the copy that is about to be written over it, names a number
  that was known, or the beginning of one once a crash has torn the file
  (`Lines`), and a line without a number needs a torn file (`Faults`).
* `DeletedStayDeleted` (`NoneReturns`) and `OthersNotLost` (`OnlyOddNicksLost`),
  without the network thread (`~Overlap`): `Agree` says what file and copy hold of
  each contact at each of the three steps of a change, and in between the
  halves of an update.
* Reading and rewriting are recursive functions of the number of lines.
  Induction over it is done with sets (`Induct`: a set of numbers that holds 0
  and with each its successor holds them all), which needs no operator as a
  parameter.

The proofs assume what the modules assume of their constants (`NodeAssumption`,
`UinAssumption`, `NickAssumption`, `PoolAssumption`, `StoredAssumption`,
`FiniteAssumption`, `BoundsAssumption`, ...), which TLC evaluates in the runs.

`TextsAssumption` bounds the texts of `Message`. What the user types is below
it, since a line fits the 8192 bytes of the buffer in `control.c:109`; another
client's text could be about twice as long, and well-formed ones between are not
covered.

Only model-checked: `AnswerMatches` after the change
count has gone round or in a second session, where it does not hold; `Sorted` and
`NickSharedOnlyByNumber`; and all liveness (`ReconnectEnds`, `ByeNoticed`,
`Released`, `PollEnds`, `SaveEnds`, `PacketsEnd`, `GoneNoticed`, `Answered`),
which the prover cannot treat.

## 5. Other disagreements with the source's own words

Besides those of section 3, these were met in the course of the modelling and
are part of the models:

* `commands.c:871` tests the old name of `rename` the wrong way round, so the
  branch commented "The old_name exists, renaming a valid slave" has a null
  `victim` (`Rename`, `proc = "renameFault"`).
* `slaves.c:221` overwrites a nickname in place (see `updateNicks` above).
* `commands.c:327` and `network.c:1531` return with the mutex locked
  (`refusesVictim`, `receiveMessage_noTlvs`).
* `network.c:425` numbers FLAPs without a lock (see `Senders`).
* `network.c:2358` keeps the connection in progress in a global (see `Overlap`).
* `network.c:3111` returns for a null contact, so `YSM_BuddyCreateGroup` sends
  nothing, although its message says "CREATING YSM Group".
* `commands.c:829` asks again for a contact in the group `YSM_BUDDY_GROUP`, which
  is an item type (`Ssi!cmdREQ`, group `"other"`).
* `network.c:3588` marks a contact the server refuses as stored, so it is not
  uploaded again (`Ssi!incomingChangeOf`).
* `network.c:3152` replaces the id of a contact by that of its ignore item
  (`Ssi!Changed`).
* `network.c:2789` notes the capability of format 2 as 16 bytes; 31 are written,
  because the common beginning and end are put around a capability that has
  them already (`icqv7.h:40`). The daemon's
  own reader skips 16 (`Message!Capability`, `Next2711`).
* `network.c:1340` looks for a GUID behind a text with a little-endian length of
  39; `network.c:2846` writes one with a big-endian 38 (`Message!Guid`).
* `network.c:1411` looks for a TLV by the position alone: at the end of a packet
  that lies about its lengths the search may never end, with the mutex of the
  contact list locked (`Message!Next2711`).
* `network.c:1979` reads the length of a stored message with its bytes swapped
  (`Message!WaitingText`).
* `bs_oscar.c:264` prints from a `va_list` that has been used up
  (`ByteStream!PrintFaults`).
* `prompt.c:160` has room for `MAX_CMD_ARGS` words and no check
  (`Control!Overruns`).
* `network.c:471` returns without giving its stream back (`BsPool!HeadFails`),
  and `wrappers.c:111` sends a short packet again from its start
  (`BsPool!Writes`).
* A client that connects while the daemon negotiates with it replaces the
  socket of the first connection, which nobody closes (`Direct`, fault `second`);
  an oversized packet and an automatic session are closed twice (`LONG`, `AUTO`);
  and a write to a direct connection that fails reconnects the ICQ session
  (`YSM_WRITE`).
* A nickname with an empty field, such as `bob:`, comes back: `setup.c:508` prints
  `bob::31000::`, `readSlaves` finds no number in the second field and passes
  over it, and the next removal of another contact prints the two words that
  `strtok` finds, `bob:31000::`, which the start after that reads
  (`SlaveFile!Printed`). A nickname whose second field is a number names that
  contact. `PlainNicks` in `SlaveFile` is what the proofs except.
* Reading a direct connection fails while the session is down, because
  `YSM_READ` tests `connected`.

## 6. Plan

Done: the list, its mutex and its file; the session; the server-side list;
presence and messages; byte streams and their pool; direct connections; the
control connection. Left, in order of what the daemon depends on most:

1. Compositions: `SlaveLock` over `SlaveList` (the steps under the mutex amount
   to the atomic ones), `Session` with `Ssi` and `Presence`, which both reduce
   the session to its beginning and its end.
2. `Ssi`: the group items with their lists of ids, the scan of the whole list.
3. `Presence`: automatic replies and user information.

## 7. Not modelled

The wording of messages, commands and output; hex dumps; parsing of the
configuration file; incoming charset conversion, deciphering and file
transfers, which are compiled out or cannot be reached; outgoing direct
connections, whose thread dereferences a number; the proxy's negotiation; the
vendored block cipher; the companion programs under `src/src/utils`, the
converters and the build system. They keep no state that the threads above
share, or are not part of the daemon. Three hazards have no property that holds:
that nobody hears of a failed write or the end of the stream
(`SessionKeepAlive`), the queue of the scan, and the freeing of the list at the
exit; `PROJECT.json` says why.
