------------------------------- MODULE Direct -------------------------------
(* Direct connections (src/direct.c): a contact's client connects to the      *)
(* daemon, the two negotiate, and messages pass without the servers.  Three   *)
(* threads work on the contacts' d_con without a lock: dcThread accepts,      *)
(* cycleThread reads (dcSelect), the prompt closes.  The descriptors are one  *)
(* table of the process, which the connection to the ICQ server shares and    *)
(* whose free numbers the kernel gives out again, the lowest first.           *)
(*                                                                            *)
(* Faults names what the environment does beyond the plain use:               *)
(*   again   closedc for a contact whose session is over                      *)
(*   race    closedc, or a message, for a contact whose connection another    *)
(*           thread is at work on                                             *)
(*   second  a client opens a connection while the daemon has one of it       *)
(*   LONG    a packet of MAX_PEER_DATA_SIZE or more                           *)
(*   AUTO    a PEER_INIT2 that asks for an automatic session                  *)
(*   CUT     a connection that ends inside a packet                           *)
EXTENDS Integers, Sequences, FiniteSets

CONSTANTS Slave,       \* the contacts, all of them listed
          NoSlave,
          Faults,
          MaxFd,       \* bound: descriptors
          MaxConns,    \* bound: connections that clients open
          Callers,     \* bound: the slaves whose clients open the n-th of them
          MaxDrops,    \* bound: times the connection to the server drops
          MaxSent,     \* bound: messages sent over direct connections
          Texts        \* lengths of these messages

ASSUME ContactsAssumption == NoSlave \notin Slave
ASSUME BoundsAssumption == MaxFd \in Nat /\ MaxConns \in Nat /\ Texts \subseteq Nat

VARIABLES table,    \* descriptor -> what it stands for
          d_con,    \* slave -> [rSocket, flags]
          peer,     \* the connections' other ends, in the order they were opened
          backlog,  \* connections nobody has accepted yet
          dc,       \* dcThread: [at, sock, slave]
          cycle,    \* cycleThread: [at, sock, slave, buf]
          prompt,   \* the prompt in YSM_CloseDC: [at, slave]
          net,      \* g_state.connected
          drops, sent,
          foreign   \* for a contact, a descriptor was read or closed that is not its own

vars == <<table, d_con, peer, backlog, dc, cycle, prompt, net, drops, sent, foreign>>

Fd == 1..MaxFd
Unused == 0           \* what a number stands for; from 1 on, a connection
Listening == -1
ToServer == -2
Kinds == {"INIT", "ACK", "INIT2", "SHORT", "MSG", "BAD", "LONG", "AUTO", "CUT"}
Packet(k) == [kind |-> k]
Idle == [at |-> "idle", sock |-> 0, slave |-> NoSlave]
Looking == [at |-> "look", sock |-> 0, slave |-> NoSlave, buf |-> Packet("BAD")]
Flags == {"EXPECTDATA", "EXPECTNEG", "INCOMINGNEG", "CONNECTED"}

(***************************************************************************)
(* The packets' cipher.  A byte is the set of the symbols it is the XOR of.*)
(***************************************************************************)
a (+) b == (a \ b) \cup (b \ a)
FF == {<<"ff">>}
Number(n) == {<<"number", n>>}
TableAt(x) == {<<"dc_string_table", x>>}
KeyAt(check, n, i) == {<<"key", check, n, i>>}

(* The loops run to a quarter of the length, rounded up to a block of four. *)
Ciphered(n) == LET last == (n + 3) \div 4 IN 4 * ((last + 3) \div 4)

CheckCode(buf, m1, x2) ==
  [i \in 0..3 |-> CASE i = 3 -> Number(m1) (+) buf[4]
                    [] i = 2 -> buf[m1] (+) FF (+) buf[6]
                    [] i = 1 -> Number(x2) (+) buf[4]
                    [] i = 0 -> TableAt(x2) (+) FF (+) buf[6]]

YSM_EncryptDCPacket_whole(buf, n, m1, x2) ==
  LET check == CheckCode(buf, m1, x2)
  IN  [i \in 0..(n-1) |-> IF i < 4 THEN check[i]
                          ELSE IF i < Ciphered(n) THEN buf[i] (+) KeyAt(check, n + 1, i)
                          ELSE buf[i]]

YSM_EncryptDCPacket(buf, n, m1, x2) ==
  LET check == CheckCode(buf, m1, x2)
  IN  [i \in 0..(n-1) |-> IF i < 4 THEN check[i]
                          ELSE IF i < Ciphered(n) THEN buf[i] (+) KeyAt(check, n, i)
                          ELSE buf[i]]

(* What the receiver makes of the bytes, and whether it accepts them. *)
YSM_DecryptDCPacket(buf, n) ==
  LET check == [i \in 0..3 |-> buf[i]]
      clear == [i \in 0..(n-1) |-> IF i < 4 \/ i >= Ciphered(n) THEN buf[i]
                                   ELSE buf[i] (+) KeyAt(check, n, i)]
      names(cell, m) == cell = Number(m)
      m1Is(m) == names(check[3] (+) clear[4], m)
      x2Is(x) == names(check[1] (+) clear[4], x)
  IN [ok |-> /\ \E m \in 10..(n-1) : m1Is(m) /\ check[2] (+) clear[6] = clear[m] (+) FF
             /\ \A x \in 0..219 : x2Is(x) => check[0] (+) clear[6] = TableAt(x) (+) FF,
      clear |-> clear]

(* A message: two bytes of length, of which only the low one is set, and the *)
(* rest, which is 31 bytes of heads and an end, the text and the colours.    *)
Colours == 8
MessageLen(text) == 33 + text + Colours + 1 - 2
Plain(n) == [i \in 0..(n-1) |-> {<<"byte", i>>}]

YSM_DC_MessageBase(text, m1) ==
  [kind |-> "MSG", said |-> MessageLen(text) % 256, len |-> MessageLen(text),
   buf |-> YSM_EncryptDCPacket(Plain(MessageLen(text) - 1), MessageLen(text) - 1, m1, 0)]

(* The ends of the range that rand() draws M1 from. *)
Draws(text) == LET n == MessageLen(text) - 1
                   top == IF n < 255 THEN n ELSE 255 IN {10, top - 1}

(* What the contact's client makes of a message. *)
Received(text, m1) ==
  LET p == YSM_DC_MessageBase(text, m1)
      d == YSM_DecryptDCPacket(p.buf, p.len - 1)
  IN [kind |-> "MSG", framed |-> p.said = p.len, accepted |-> d.ok,
      clear |-> \A j \in 4..(p.len - 2) : d.clear[j] = Plain(p.len - 1)[j]]
Arrives == [text \in Texts |-> [m1 \in Draws(text) |-> Received(text, m1)]]

(***************************************************************************)
(* Descriptors                                                             *)
(***************************************************************************)
Free == {f \in Fd : table[f] = Unused}
Lowest == CHOOSE f \in Free : \A g \in Free : f <= g
IsConn(f) == f \in Fd /\ table[f] \in 1..MaxConns
Server == {f \in Fd : table[f] = ToServer}

(* close() on behalf of slave s, whatever the number stands for by now. *)
Strange(f, s) == f \in Fd \ Free /\ ~(IsConn(f) /\ peer[table[f]].slave = s)
Close(f, s) ==
  /\ table' = IF f \in Fd THEN [table EXCEPT ![f] = Unused] ELSE table
  /\ foreign' = (foreign \/ Strange(f, s))

(* YSM_WRITE: what cannot be written makes the thread reconnect the session  *)
(* with the server, which has nothing to do with it (networkReconnect); the   *)
(* thread stays in there until the session is up, here it may go on earlier.  *)
(* A client that has gone need not be noticed; and where the number has become*)
(* the connection to the server, the packet goes into the session, unnoticed. *)
Broken(f) == ~IsConn(f) \/ ~peer[table[f]].open
Put(f, ps) ==
  IF Broken(f)
  THEN /\ UNCHANGED peer
       /\ \/ /\ f \notin Server
             /\ table' = [g \in Fd |-> IF table[g] = ToServer THEN Unused ELSE table[g]]
             /\ net' = FALSE
          \/ (f \in Server \/ IsConn(f)) /\ UNCHANGED <<table, net>>
  ELSE /\ peer' = [peer EXCEPT ![table[f]].got = @ \o ps]
       /\ UNCHANGED <<table, net>>

Init ==
  /\ table = [f \in Fd |-> IF f = 1 THEN Listening ELSE IF f = 2 THEN ToServer ELSE Unused]
  /\ d_con = [s \in Slave |-> [rSocket |-> -1, flags |-> {}]]
  /\ peer = <<>>
  /\ backlog = <<>>
  /\ dc = Idle
  /\ cycle = Looking
  /\ prompt = [at |-> "idle", slave |-> NoSlave]
  /\ net = TRUE
  /\ drops = 0
  /\ sent = 0
  /\ foreign = FALSE

(***************************************************************************)
(* The clients of the contacts and the server                              *)
(***************************************************************************)
Has(s) == \/ \E f \in Fd : IsConn(f) /\ peer[table[f]].slave = s
          \/ \E i \in DOMAIN backlog : peer[backlog[i]].slave = s
          \/ d_con[s].flags # {}

PeerConnects(s) ==
  /\ Len(peer) < MaxConns /\ s \in Callers[Len(peer) + 1]
  /\ "second" \in Faults \/ ~Has(s)
  /\ peer' = Append(peer, [slave |-> s, open |-> TRUE,
                           out |-> <<>>, got |-> <<>>, stage |-> 0])
  /\ backlog' = Append(backlog, Len(peer) + 1)
  /\ UNCHANGED <<table, d_con, dc, cycle, prompt, net, drops, sent, foreign>>

Sends(c, ps, stage) ==
  /\ peer' = [peer EXCEPT ![c].out = @ \o ps, ![c].stage = stage]
  /\ UNCHANGED <<table, d_con, backlog, dc, cycle, prompt, net, drops, sent, foreign>>

(* What a client does when the daemon has closed reaches nobody. *)
Holds(c) == \E f \in Fd : table[f] = c
Alive(c) == peer[c].open /\ (Holds(c) \/ \E i \in DOMAIN backlog : backlog[i] = c)

Got(c, k) == \E i \in DOMAIN peer[c].got : peer[c].got[i].kind = k

(* A client negotiates by turns, or ends with a packet that does not belong. *)
PeerSends(c) ==
  /\ Alive(c)
  /\ \/ peer[c].stage = 0 /\ Sends(c, <<Packet("INIT")>>, 1)
     \/ /\ peer[c].stage = 1 /\ Got(c, "ACK") /\ Got(c, "INIT")
        /\ \E k \in {"INIT2", "SHORT"} : Sends(c, <<Packet("ACK"), Packet(k)>>, 2)
     \/ /\ peer[c].stage = 2 /\ Got(c, "INIT2") /\ Sends(c, <<Packet("MSG")>>, 3)
     \/ /\ peer[c].stage < 3
        /\ \E k \in {"BAD"} \cup (Faults \cap {"LONG", "AUTO", "CUT"}) : Sends(c, <<Packet(k)>>, 3)

PeerCloses(c) ==
  /\ Alive(c)
  /\ peer' = [peer EXCEPT ![c].open = FALSE]
  /\ UNCHANGED <<table, d_con, backlog, dc, cycle, prompt, net, drops, sent, foreign>>

Drops ==
  /\ net /\ drops < MaxDrops
  /\ drops' = drops + 1
  /\ net' = FALSE
  /\ table' = [f \in Fd |-> IF table[f] = ToServer THEN Unused ELSE table[f]]
  /\ UNCHANGED <<d_con, peer, backlog, dc, cycle, prompt, sent, foreign>>

Reconnects ==
  /\ ~net /\ Free # {}
  /\ net' = TRUE
  /\ table' = [table EXCEPT ![Lowest] = ToServer]
  /\ UNCHANGED <<d_con, peer, backlog, dc, cycle, prompt, drops, sent, foreign>>

(***************************************************************************)
(* dcThread: YSM_DC_Wait4Client                                            *)
(***************************************************************************)
Accepts ==
  /\ dc.at = "idle" /\ backlog # <<>> /\ Free # {}
  /\ table' = [table EXCEPT ![Lowest] = Head(backlog)]
  /\ backlog' = Tail(backlog)
  /\ dc' = [at |-> "first", sock |-> Lowest, slave |-> NoSlave]
  /\ UNCHANGED <<d_con, peer, cycle, prompt, net, drops, sent, foreign>>

(* The connection is closed and the thread goes back to accept(). *)
Refuses_keeps(ps) ==
  /\ dc' = Idle
  /\ peer' = ps
  /\ UNCHANGED <<table, d_con, backlog, cycle, prompt, net, drops, sent, foreign>>

Refuses(ps) ==
  /\ Close(dc.sock, peer[table[dc.sock]].slave)
  /\ dc' = Idle
  /\ peer' = ps
  /\ UNCHANGED <<d_con, backlog, cycle, prompt, net, drops, sent>>

(* A first packet other than "INIT" is any that the checks refuse: of another *)
(* length or an old version, from a number that is not listed, or with other *)
(* addresses than the server told.  It comes within a second, or the client  *)
(* is turned away.  One that is too long closes the connection twice.        *)
FirstPacket ==
  LET c == table[dc.sock]
      s == peer[c].slave
      rest == [peer EXCEPT ![c].out = Tail(@)]
      kind == IF ~IsConn(dc.sock) THEN "LOST" ELSE IF peer[c].out = <<>> THEN "NONE"
              ELSE Head(peer[c].out).kind
      accepted == net /\ kind = "INIT" /\ "CONNECTED" \notin d_con[s].flags
  IN
  /\ dc.at \in {"first", "again"}
  /\ \/ /\ dc.at = "again" \/ (dc.at = "first" /\ kind = "LOST")
        /\ Close(dc.sock, dc.slave)
        /\ dc' = Idle
        /\ UNCHANGED <<d_con, peer, backlog, cycle, prompt, net, drops, sent>>
     \/ /\ dc.at = "first" /\ kind # "LOST" /\ ~accepted
        /\ net => kind \notin {"LONG", "CUT"}
        /\ Refuses(IF kind = "NONE" THEN peer ELSE rest)
     \/ /\ dc.at = "first" /\ net /\ kind = "LONG"
        /\ Close(dc.sock, s)
        /\ dc' = [dc EXCEPT !.at = "again", !.slave = s]
        /\ peer' = rest
        /\ UNCHANGED <<d_con, backlog, cycle, prompt, net, drops, sent>>
     \/ /\ dc.at = "first" /\ accepted
        /\ d_con' = [d_con EXCEPT ![s] = [rSocket |-> dc.sock,
                       flags |-> @.flags \cup {"EXPECTDATA", "INCOMINGNEG", "EXPECTNEG"}]]
        /\ dc' = [dc EXCEPT !.at = "B", !.slave = s]
        /\ peer' = rest
        /\ UNCHANGED <<table, backlog, cycle, prompt, net, drops, sent, foreign>>

(* PEER_INITACK, then our PEER_INIT, to the socket the slave has by then. *)
InitAB ==
  /\ \/ dc.at = "B" /\ Put(d_con[dc.slave].rSocket, <<Packet("INIT")>>) /\ dc' = [dc EXCEPT !.at = "A"]
     \/ dc.at = "A" /\ Put(d_con[dc.slave].rSocket, <<Packet("ACK")>>) /\ dc' = Idle
  /\ UNCHANGED <<d_con, backlog, cycle, prompt, drops, sent, foreign>>

InitBA ==
  /\ \/ dc.at = "B" /\ Put(d_con[dc.slave].rSocket, <<Packet("ACK")>>) /\ dc' = [dc EXCEPT !.at = "A"]
     \/ dc.at = "A" /\ Put(d_con[dc.slave].rSocket, <<Packet("INIT")>>) /\ dc' = Idle
  /\ UNCHANGED <<d_con, backlog, cycle, prompt, drops, sent, foreign>>

(***************************************************************************)
(* cycleThread: dcSelect, for one slave                                    *)
(***************************************************************************)
Readable_data(f) == IsConn(f) /\ peer[table[f]].out # <<>>
Readable(f) == IsConn(f) /\ (peer[table[f]].out # <<>> \/ ~peer[table[f]].open)

dcSelect(s) ==
  LET f == d_con[s].rSocket IN
  /\ cycle.at = "look" /\ "EXPECTDATA" \in d_con[s].flags
  /\ "race" \in Faults \/ prompt.slave # s
  /\ \/ Readable(f) /\ cycle' = [cycle EXCEPT !.at = "read", !.sock = f, !.slave = s]
     \/ f \in Free /\ cycle' = [cycle EXCEPT !.at = "close", !.slave = s]
  /\ UNCHANGED <<table, d_con, peer, backlog, dc, prompt, net, drops, sent, foreign>>

ReadPacket_closes ==
  LET f == cycle.sock
      c == table[f]
  IN
  /\ cycle.at = "read"
  /\ IF ~net \/ ~IsConn(f) \/ peer[c].out = <<>>
     THEN /\ cycle' = [cycle EXCEPT !.at = "close"]
          /\ Close(f, cycle.slave)
          /\ UNCHANGED peer
     ELSE /\ peer' = [peer EXCEPT ![c].out = Tail(@)]
          /\ cycle' = [cycle EXCEPT !.at = "respond", !.buf = Head(peer[c].out)]
          /\ UNCHANGED <<table, foreign>>
  /\ UNCHANGED <<d_con, backlog, dc, prompt, net, drops, sent>>

ReadPacket ==
  LET f == cycle.sock
      c == table[f]
      kind == IF ~net \/ ~IsConn(f) \/ peer[c].out = <<>> THEN "END" ELSE Head(peer[c].out).kind
  IN
  /\ cycle.at = "read" /\ kind # "CUT"          \* a cut packet is read for ever
  /\ peer' = IF kind = "END" THEN peer ELSE [peer EXCEPT ![c].out = Tail(@)]
  /\ cycle' = IF kind \in {"END", "LONG"} THEN [cycle EXCEPT !.at = "close"]
              ELSE [cycle EXCEPT !.at = "respond", !.buf = Packet(kind)]
  /\ IF kind = "LONG" THEN Close(f, cycle.slave)
     ELSE foreign' = (foreign \/ Strange(f, cycle.slave)) /\ UNCHANGED table
  /\ UNCHANGED <<d_con, backlog, dc, prompt, net, drops, sent>>

(* YSM_DC_CommonResponse *)
Flag(f) == f \in d_con[cycle.slave].flags
Negotiates ==
  /\ cycle.at = "respond" /\ Flag("EXPECTNEG")
  /\ \/ /\ cycle.buf.kind = "INIT"
        /\ Put(cycle.sock, <<Packet("ACK"), Packet("INIT2")>>)
        /\ cycle' = Looking /\ UNCHANGED foreign
     \/ /\ cycle.buf.kind \in {"ACK", "SHORT"}         \* a PEER_INIT2 cut short
        /\ cycle' = Looking /\ UNCHANGED <<table, peer, net, foreign>>
     \/ /\ cycle.buf.kind = "INIT2" /\ Flag("INCOMINGNEG")
        /\ Put(cycle.sock, <<Packet("INIT2")>>)
        /\ cycle' = [cycle EXCEPT !.at = "connected"] /\ UNCHANGED foreign
     \/ /\ cycle.buf.kind = "AUTO"
        /\ Close(d_con[cycle.slave].rSocket, cycle.slave)
        /\ cycle' = [cycle EXCEPT !.at = "close"] /\ UNCHANGED <<peer, net>>
     \/ /\ cycle.buf.kind \in {"BAD", "MSG"}
        /\ cycle' = [cycle EXCEPT !.at = "close"] /\ UNCHANGED <<table, peer, net, foreign>>
  /\ UNCHANGED <<d_con, backlog, dc, prompt, drops, sent>>

Negotiated ==
  /\ cycle.at = "connected"
  /\ d_con' = [d_con EXCEPT ![cycle.slave].flags = (@ \cup {"CONNECTED"}) \ {"EXPECTNEG"}]
  /\ cycle' = Looking
  /\ UNCHANGED <<table, peer, backlog, dc, prompt, net, drops, sent, foreign>>

(* A message is deciphered and goes nowhere; all else ends the session. *)
Misc ==
  /\ cycle.at = "respond" /\ ~Flag("EXPECTNEG")
  /\ cycle' = IF cycle.buf.kind = "MSG" /\ Flag("CONNECTED") THEN Looking
              ELSE [cycle EXCEPT !.at = "close"]
  /\ UNCHANGED <<table, d_con, peer, backlog, dc, prompt, net, drops, sent, foreign>>

(* YSM_CloseDC: the socket, whose number stays, then the flags. *)
CloseSocket(s) == Close(d_con[s].rSocket, s)
ResetFlags(s) == d_con' = [d_con EXCEPT ![s].flags = {}]

CycleCloses ==
  \/ /\ cycle.at = "close"
     /\ CloseSocket(cycle.slave)
     /\ cycle' = [cycle EXCEPT !.at = "reset"]
     /\ UNCHANGED <<d_con, peer, backlog, dc, prompt, net, drops, sent>>
  \/ /\ cycle.at = "reset"
     /\ ResetFlags(cycle.slave)
     /\ cycle' = Looking
     /\ UNCHANGED <<table, peer, backlog, dc, prompt, net, drops, sent, foreign>>

(***************************************************************************)
(* The prompt                                                              *)
(***************************************************************************)
cmdCLOSEDC(s) ==
  /\ prompt.at = "idle"
  /\ "again" \in Faults \/ "EXPECTDATA" \in d_con[s].flags
  /\ "race" \in Faults \/ (cycle.slave # s /\ dc.slave # s)
  /\ d_con[s].rSocket # 0
  /\ CloseSocket(s)
  /\ prompt' = [at |-> "reset", slave |-> s]
  /\ UNCHANGED <<d_con, peer, backlog, dc, cycle, net, drops, sent>>

PromptResets ==
  /\ prompt.at = "reset"
  /\ ResetFlags(prompt.slave)
  /\ prompt' = [at |-> "idle", slave |-> NoSlave]
  /\ UNCHANGED <<table, peer, backlog, dc, cycle, net, drops, sent, foreign>>

(* YSM_SendContact and YSM_SendUrl to a contact with a session. *)
YSM_DC_Message(s, text, m1) ==
  LET f == d_con[s].rSocket IN
  /\ prompt.at = "idle" /\ sent < MaxSent
  /\ "CONNECTED" \in d_con[s].flags
  /\ "race" \in Faults \/ cycle.slave # s
  /\ sent' = sent + 1
  /\ peer' = IF Broken(f) THEN peer
             ELSE [peer EXCEPT ![table[f]].got = Append(@, Arrives[text][m1])]
  /\ UNCHANGED <<table, d_con, backlog, dc, cycle, prompt, net, drops, foreign>>

DcThread == Accepts \/ FirstPacket \/ InitBA
CycleThread == (\E s \in Slave : dcSelect(s)) \/ ReadPacket \/ Negotiates \/ Negotiated \/ Misc \/ CycleCloses

Next ==
  \/ \E s \in Slave : PeerConnects(s)
  \/ \E c \in DOMAIN peer : PeerSends(c) \/ PeerCloses(c)
  \/ Drops \/ Reconnects
  \/ DcThread \/ CycleThread
  \/ \E s \in Slave : cmdCLOSEDC(s)
  \/ PromptResets
  \/ \E s \in Slave, text \in Texts : \E m1 \in Draws(text) : YSM_DC_Message(s, text, m1)

Spec == Init /\ [][Next]_vars

FairSpec ==
  /\ Spec
  /\ WF_vars(DcThread)
  /\ \A s \in Slave : WF_vars(dcSelect(s))
  /\ WF_vars(ReadPacket \/ Negotiates \/ Negotiated \/ Misc \/ CycleCloses)
  /\ WF_vars(PromptResets)
  /\ WF_vars(Reconnects)

-----------------------------------------------------------------------------
(* What a client gets on its connection comes in the order of the handshake: *)
(* the answer to its first packet, ours, the second one, then messages, and  *)
(* none of them twice, though two threads write (direct.c:223, direct.c:1139,*)
(* direct.c:1147).                                                           *)
Handshake == <<"ACK", "INIT", "INIT2">>
PeerFollows ==
  \A c \in DOMAIN peer : \A i \in DOMAIN peer[c].got :
    peer[c].got[i].kind = IF i <= 3 THEN Handshake[i] ELSE "MSG"

(* A message says its length, and the client deciphers what the daemon has   *)
(* enciphered, wherever the cipher's check byte was drawn (direct.c:1357).   *)
PeerReads ==
  \A c \in DOMAIN peer : \A i \in DOMAIN peer[c].got :
    peer[c].got[i].kind = "MSG" =>
      peer[c].got[i].framed /\ peer[c].got[i].accepted /\ peer[c].got[i].clear

(* Every connection the process holds is in the hands of dcThread or is the  *)
(* session of the contact that opened it: none is forgotten and left open.   *)
NoneForgotten ==
  \A f \in Fd : IsConn(f) =>
    \/ dc.at = "first" /\ dc.sock = f
    \/ LET d == d_con[peer[table[f]].slave] IN d.rSocket = f /\ "EXPECTDATA" \in d.flags

(* On behalf of a contact the daemon reads and closes connections of that    *)
(* contact, never a number that has become the connection to the server.     *)
OwnClosed == ~foreign

(* A connection that its client has closed is closed by the daemon too. *)
GoneNoticed ==
  \A c \in 1..MaxConns :
    (c \in DOMAIN peer /\ ~peer[c].open /\ Holds(c)) ~> ~Holds(c)
=============================================================================
