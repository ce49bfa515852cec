------------------------------- MODULE Session -------------------------------
(***************************************************************************)
(* The connection of the daemon to the ICQ network: signing in at the       *)
(* authorization server, following its redirection to the BOS server,       *)
(* reading the server's FLAPs, sending, disconnecting, and reconnecting     *)
(* after a failed write on a direct connection.                             *)
(*                                                                         *)
(* The threads of main.c share g_state.connected, g_sinfo.flags,            *)
(* g_sinfo.seqnum and g_model.network.socket without any lock, so a step    *)
(* here is what a thread does between two of its accesses to them, or       *)
(* between two calls that block.  A connection is a member of Conn; the     *)
(* descriptor numbers are not modelled, and neither is their reuse.         *)
(*                                                                         *)
(* Four constants choose the scenario: Senders, Overlap, Relogin, BadHello. *)
(***************************************************************************)
EXTENDS Naturals, Sequences

CONSTANTS
    Conn, NoConn,  \* TCP connections that can be opened; socket == -1
    Dc,            \* threads that write to direct connections with YSM_WRITE
    W,             \* FLAP sequence numbers are 0 .. W-1 (2^16 in the program)
    HelloSeq,      \* sequence number of the first FLAP of a server
    MaxRetries,    \* retries before networkReconnect gives up: (300 - 10) / 5
    MaxFlaps,      \* bound: FLAPs a server sends on one connection
    MaxSent,       \* bound: FLAPs that are sent on one connection
    Senders,       \* threads that send SNACs besides the startup's replies
    Overlap,       \* may commands and reconnects start at any point at all?
    Relogin,       \* does the user connect again when FL_LOGGEDIN is left set?
    BadHello       \* may a server greet with something else, or not at all?

ASSUME ConnAssumption == NoConn \notin Conn
ASSUME SeqAssumption  == W \in Nat \ {0} /\ HelloSeq \in 0..W-1
ASSUME ThreadAssumption ==
    /\ {"net", "ctl", "cycle"} \cap Dc = {}
    /\ Senders \subseteq {"net", "ctl", "cycle"}
ASSUME BoundAssumption == {MaxRetries, MaxFlaps, MaxSent} \subseteq Nat
ASSUME ScenarioAssumption == {Overlap, Relogin, BadHello} \subseteq BOOLEAN

VARIABLES
    connected,     \* g_state.connected
    loggedIn,      \* g_sinfo.flags & FL_LOGGEDIN
    seqnum,        \* g_sinfo.seqnum
    socket,        \* g_model.network.socket
    peer,          \* what a connection leads to: "none" while it is unused
    open,          \* the connections whose descriptor is not closed
    eof,           \* the connections the server has closed
    inbox,         \* FLAPs of the server that are not read yet
    served,        \* how many FLAPs the server has sent
    sent,          \* FLAPs that were sent on the connection, in order
    pc,            \* where each thread is
    lseq,          \* argument lseq of each thread's sendSnac
    reading,       \* network thread: the connection it reads
    flap,          \* network thread: the FLAP in its hands
    retries,       \* networkReconnect: failed attempts
    proc           \* "running" or "exited"

conns == <<peer, open, eof, inbox, served, sent>>
globals == <<connected, loggedIn, seqnum, socket>>
vars == <<globals, conns, pc, lseq, reading, flap, retries, proc>>

Thread == {"net", "ctl", "cycle"} \cup Dc
Seqs == 0..W-1
Flap == [kind : {"hello", "bad", "bos", "bye", "ready", "snac"}, seq : Seqs]
Sent == [kind : {"login", "cookie", "snac"}, seq : Seqs]
State == {"idle", "head", "body", "handle", "put", "bos", "cookie",
          "wait", "connect", "hello"}

TypeOK ==
    /\ connected \in BOOLEAN /\ loggedIn \in BOOLEAN
    /\ seqnum \in Seqs
    /\ socket \in Conn \cup {NoConn}
    /\ peer \in [Conn -> {"none", "auth", "bos"}]
    /\ open \subseteq Conn /\ eof \subseteq Conn
    /\ inbox \in [Conn -> Seq(Flap)]
    /\ served \in [Conn -> Nat]
    /\ sent \in [Conn -> Seq(Sent)]
    /\ pc \in [Thread -> State]
    /\ lseq \in [Thread -> Seqs]
    /\ reading \in Conn \cup {NoConn}
    /\ flap \in Flap
    /\ retries \in [Dc -> 0..MaxRetries]
    /\ proc \in {"running", "exited"}

Goto(t, s) == pc' = [pc EXCEPT ![t] = s]

(* Without Overlap a command or a reconnect starts only while every other   *)
(* thread is at one of the places P.                                        *)
Undisturbed(t, P) == Overlap \/ \A s \in Thread \ {t} : pc[s] \in P

------------------------------------------------------------------------------
(* The servers: hello; then, once answered, the authorization server sends  *)
(* the BOS address and a cookie or refuses, and the BOS server sends        *)
(* SERVER_IS_READY and other SNACs until it closes.                         *)

ServerSeq(c) == (HelloSeq + served[c]) % W

Push(c, k) ==
    /\ inbox' = [inbox EXCEPT ![c] = Append(@, [kind |-> k, seq |-> ServerSeq(c)])]
    /\ served' = [served EXCEPT ![c] = @ + 1]

ServerSends(c) ==
    /\ sent[c] # <<>> /\ c \notin eof
    /\ \/ /\ peer[c] = "auth"
          /\ \E k \in {"bos", "bye"} : Push(c, k)
          /\ eof' = eof \cup {c}
       \/ /\ peer[c] = "bos" /\ served[c] < MaxFlaps
          /\ Push(c, IF served[c] = 1 THEN "ready" ELSE "snac")
          /\ UNCHANGED eof
       \/ /\ peer[c] = "bos" /\ served[c] > 1
          /\ Push(c, "bye")
          /\ eof' = eof \cup {c}
    /\ UNCHANGED <<globals, peer, open, sent, pc, lseq, reading, flap, retries, proc>>

ServerCloses(c) ==
    /\ peer[c] # "none" /\ c \notin eof
    /\ eof' = eof \cup {c}
    /\ UNCHANGED <<globals, peer, open, inbox, served, sent,
                   pc, lseq, reading, flap, retries, proc>>

------------------------------------------------------------------------------
(* Primitives.                                                              *)

(* YSM_Connect succeeds: a fresh connection, and the server's greeting, or  *)
(* its hanging up at once.                                                  *)
Opens(c, p) ==
    /\ peer[c] = "none"
    /\ peer' = [peer EXCEPT ![c] = p]
    /\ open' = open \cup {c}
    /\ socket' = c
    /\ served' = [served EXCEPT ![c] = 1]
    /\ \/ /\ \E k \in IF BadHello THEN {"hello", "bad"} ELSE {"hello"} :
                inbox' = [inbox EXCEPT ![c] = <<[kind |-> k, seq |-> HelloSeq]>>]
          /\ UNCHANGED eof
       \/ BadHello /\ eof' = eof \cup {c} /\ UNCHANGED inbox

(* writeBs: nothing happens when the descriptor is closed, and what is sent *)
(* to a server that has closed is lost.                                     *)
Write(k, n) ==
    sent' = IF socket \in open \ eof
            THEN [sent EXCEPT ![socket] = Append(@, [kind |-> k, seq |-> n])]
            ELSE sent

(* The greeting is answered with its own sequence number plus one.          *)
Answer(k) ==
    /\ inbox' = [inbox EXCEPT ![socket] = Tail(@)]
    /\ Write(k, (Head(inbox[socket]).seq + 1) % W)

Readable == socket \in open /\ inbox[socket] # <<>>
Greeted  == Readable /\ Head(inbox[socket]).kind = "hello"
Hopeless == ~Readable /\ (socket \in open => socket \in eof)

------------------------------------------------------------------------------
(* networkSignIn, called by cmdCONNECT and by networkReconnect.             *)

SignInConnects(t) ==
    /\ pc[t] = "connect" /\ Undisturbed(t, {"idle"})
    /\ \E c \in Conn : Opens(c, "auth")
    /\ Goto(t, "hello")
    /\ UNCHANGED <<connected, loggedIn, seqnum, sent, lseq, reading, flap, retries, proc>>

(* YSM_Init_LoginA.  A read error or a wrong greeting leaves the socket     *)
(* open and connected unset, and networkSignIn returns the socket all the   *)
(* same.                                                                    *)
LoginA(t) ==
    /\ pc[t] = "hello"
    /\ \/ Greeted /\ Answer("login") /\ connected' = TRUE
       \/ Readable /\ ~Greeted /\ inbox' = [inbox EXCEPT ![socket] = Tail(@)]
          /\ UNCHANGED <<connected, sent>>
       \/ Hopeless /\ UNCHANGED <<connected, inbox, sent>>
    /\ Goto(t, "idle")
    /\ UNCHANGED <<loggedIn, seqnum, socket, peer, open, eof, served,
                   lseq, reading, flap, retries, proc>>

------------------------------------------------------------------------------
(* The prompt thread.                                                       *)

cmdCONNECT ==
    /\ pc["ctl"] = "idle" /\ ~connected
    /\ Undisturbed("ctl", {"idle"})
    /\ Relogin \/ ~loggedIn
    /\ Goto("ctl", "connect")
    /\ UNCHANGED <<globals, conns, lseq, reading, flap, retries, proc>>

connectFailed ==
    /\ pc["ctl"] = "connect"
    /\ socket' = NoConn
    /\ Goto("ctl", "idle")
    /\ UNCHANGED <<connected, loggedIn, seqnum, conns, lseq, reading, flap, retries, proc>>

cmdDISCONNECT ==
    /\ pc["ctl"] = "idle" /\ Undisturbed("ctl", {"idle", "head"})
    /\ connected' = FALSE
    /\ open' = open \ {socket}
    /\ UNCHANGED <<loggedIn, seqnum, socket, peer, eof, inbox, served, sent,
                   pc, lseq, reading, flap, retries, proc>>

cmdQUIT ==
    /\ pc["ctl"] = "idle"
    /\ proc' = "exited"
    /\ UNCHANGED <<globals, conns, pc, lseq, reading, flap, retries>>

------------------------------------------------------------------------------
(* sendSnac, from a thread that passes g_sinfo.seqnum++: the argument is    *)
(* taken in one step, the number set and the FLAP written in another.  The  *)
(* network thread does it while it handles a SNAC, the cycle thread for a   *)
(* keep-alive, the prompt thread for a command, connected or not.           *)

Sends_unbounded(t) ==                \* slip: seqnum taken for wider than 16 bits
    /\ t \in Senders
    /\ CASE t = "net"   -> pc[t] = "handle" /\ flap.kind = "snac"
         [] t = "cycle" -> pc[t] = "idle" /\ connected
         [] t = "ctl"   -> pc[t] = "idle"
    /\ socket # NoConn => Len(sent[socket]) < MaxSent
    /\ lseq' = [lseq EXCEPT ![t] = seqnum]
    /\ seqnum' = seqnum + 1
    /\ Goto(t, "put")
    /\ UNCHANGED <<connected, loggedIn, socket, conns, reading, flap, retries, proc>>

Sends(t) ==
    /\ t \in Senders
    /\ CASE t = "net"   -> pc[t] = "handle" /\ flap.kind = "snac"
         [] t = "cycle" -> pc[t] = "idle" /\ connected
         [] t = "ctl"   -> pc[t] = "idle"
    /\ socket # NoConn => Len(sent[socket]) < MaxSent
    /\ lseq' = [lseq EXCEPT ![t] = seqnum]
    /\ seqnum' = (seqnum + 1) % W
    /\ Goto(t, "put")
    /\ UNCHANGED <<connected, loggedIn, socket, conns, reading, flap, retries, proc>>

sendSnac_keepsNumber(t) ==           \* slip: seqnum is not updated by the reply
    /\ pc[t] = "put"
    /\ seqnum' = seqnum
    /\ Write("snac", (lseq[t] + 1) % W)
    /\ Goto(t, IF t = "net" /\ flap.kind = "snac" THEN "handle" ELSE "idle")
    /\ UNCHANGED <<connected, loggedIn, socket, peer, open, eof, inbox, served,
                   lseq, reading, flap, retries, proc>>

sendSnac(t) ==
    /\ pc[t] = "put"
    /\ seqnum' = (lseq[t] + 1) % W
    /\ Write("snac", (lseq[t] + 1) % W)
    /\ Goto(t, IF t = "net" /\ flap.kind = "snac" THEN "handle" ELSE "idle")
    /\ UNCHANGED <<connected, loggedIn, socket, peer, open, eof, inbox, served,
                   lseq, reading, flap, retries, proc>>

------------------------------------------------------------------------------
(* networkReconnect, in a thread whose write to a direct connection failed. *)

networkReconnect_keepsFlag(t) ==     \* slip: forgets to clear FL_LOGGEDIN
    /\ pc[t] = "idle" /\ Undisturbed(t, {"idle", "head"})
    /\ connected' = FALSE
    /\ retries' = [retries EXCEPT ![t] = 0]
    /\ Goto(t, "wait")
    /\ UNCHANGED <<loggedIn, seqnum, socket, conns, lseq, reading, flap, proc>>

networkReconnect(t) ==
    /\ pc[t] = "idle" /\ Undisturbed(t, {"idle", "head"})
    /\ loggedIn' = FALSE
    /\ connected' = FALSE
    /\ retries' = [retries EXCEPT ![t] = 0]
    /\ Goto(t, "wait")
    /\ UNCHANGED <<seqnum, socket, conns, lseq, reading, flap, proc>>

retryAfterSleep_open(t) ==           \* slip: forgets close()
    /\ pc[t] = "wait"
    /\ Goto(t, "connect")
    /\ UNCHANGED <<globals, conns, lseq, reading, flap, retries, proc>>

retryAfterSleep(t) ==
    /\ pc[t] = "wait"
    /\ open' = open \ {socket}
    /\ Goto(t, "connect")
    /\ UNCHANGED <<globals, peer, eof, inbox, served, sent,
                   lseq, reading, flap, retries, proc>>

retryFailed_once(t) ==               \* slip: y <= 0 taken for the end of the loop
    /\ pc[t] = "connect"
    /\ socket' = NoConn
    /\ Goto(t, "idle")
    /\ UNCHANGED <<connected, loggedIn, seqnum, conns, lseq, reading, flap, retries, proc>>

retryFailed(t) ==
    /\ pc[t] = "connect"
    /\ socket' = NoConn
    /\ IF retries[t] < MaxRetries
       THEN retries' = [retries EXCEPT ![t] = @ + 1] /\ UNCHANGED proc
       ELSE proc' = "exited" /\ UNCHANGED retries
    /\ Goto(t, "wait")
    /\ UNCHANGED <<connected, loggedIn, seqnum, conns, lseq, reading, flap>>

------------------------------------------------------------------------------
(* The network thread: serverResponseHandler.                               *)

networkThread ==
    /\ pc["net"] = "idle" /\ connected /\ socket \in open
    /\ reading' = socket
    /\ Goto("net", "head")
    /\ UNCHANGED <<globals, conns, lseq, flap, retries, proc>>

(* Reading the header.  Without connected the FLAP is dropped.  At the end  *)
(* of the stream the header is read into no bytes at all, and the FLAP is   *)
(* whatever the stack holds; there is no body then.                         *)
Stale == {f \in Flap : f.kind \notin {"bos", "bad"}}

readHeader ==
    /\ pc["net"] = "head"
    /\ \/ /\ inbox[reading] # <<>>
          /\ flap' = Head(inbox[reading])
          /\ inbox' = [inbox EXCEPT ![reading] = Tail(@)]
       \/ /\ inbox[reading] = <<>> /\ reading \in eof
          /\ flap' \in IF connected THEN Stale ELSE {flap}
          /\ UNCHANGED inbox
    /\ Goto("net", IF connected THEN "body" ELSE "idle")
    /\ UNCHANGED <<globals, peer, open, eof, served, sent, lseq, reading, retries, proc>>

(* Reading the body.  When connected was cleared in between, no body is     *)
(* read and the FLAP is handled without it: a close with no TLVs, a SNAC    *)
(* with an unread head.                                                     *)
Bodyless(f) ==
    CASE f.kind \in {"bos", "bye"}    -> {[f EXCEPT !.kind = "bye"]}
      [] f.kind \in {"ready", "snac"} -> {[f EXCEPT !.kind = k] : k \in {"ready", "snac"}}
      [] OTHER                        -> {f}

readBody ==
    /\ pc["net"] = "body"
    /\ flap' \in IF connected THEN {flap} ELSE Bodyless(flap)
    /\ Goto("net", "handle")
    /\ UNCHANGED <<globals, conns, lseq, reading, retries, proc>>

(* incomingFlapSnacData.                                                    *)
serverIsReady ==
    /\ pc["net"] = "handle" /\ flap.kind = "ready"
    /\ lseq' = [lseq EXCEPT !["net"] = flap.seq]
    /\ Goto("net", "put")
    /\ UNCHANGED <<globals, conns, reading, flap, retries, proc>>

handled ==
    /\ pc["net"] = "handle" /\ flap.kind \in {"hello", "bad", "snac"}
    /\ Goto("net", "idle")
    /\ UNCHANGED <<globals, conns, lseq, reading, flap, retries, proc>>

(* incomingFlapCloseConnection: closes the socket of the moment, and goes   *)
(* on to the BOS server when an address and a cookie came with the close.   *)
incomingFlapCloseConnection_stays == \* slip: forgets connected = FALSE
    /\ pc["net"] = "handle" /\ flap.kind \in {"bos", "bye"}
    /\ open' = open \ {socket}
    /\ Goto("net", IF flap.kind = "bos" /\ ~loggedIn THEN "bos" ELSE "idle")
    /\ UNCHANGED <<connected, loggedIn, seqnum, socket, peer, eof, inbox, served, sent,
                   lseq, reading, flap, retries, proc>>

incomingFlapCloseConnection ==
    /\ pc["net"] = "handle" /\ flap.kind \in {"bos", "bye"}
    /\ connected' = FALSE
    /\ open' = open \ {socket}
    /\ Goto("net", IF flap.kind = "bos" /\ ~loggedIn THEN "bos" ELSE "idle")
    /\ UNCHANGED <<loggedIn, seqnum, socket, peer, eof, inbox, served, sent,
                   lseq, reading, flap, retries, proc>>

connectToBos_auth ==                 \* slip: signs in at the first server again
    /\ pc["net"] = "bos"
    /\ \E c \in Conn : Opens(c, "auth")
    /\ seqnum' \in Seqs
    /\ Goto("net", "cookie")
    /\ UNCHANGED <<connected, loggedIn, sent, lseq, reading, flap, retries, proc>>

connectToBos ==
    /\ pc["net"] = "bos"
    /\ \E c \in Conn : Opens(c, "bos")
    /\ seqnum' \in IF W > 1 THEN 0..W-2 ELSE {0}
    /\ Goto("net", "cookie")
    /\ UNCHANGED <<connected, loggedIn, sent, lseq, reading, flap, retries, proc>>

bosUnreachable ==
    /\ pc["net"] = "bos"
    /\ socket' = NoConn
    /\ proc' = "exited"
    /\ UNCHANGED <<connected, loggedIn, seqnum, conns, pc, lseq, reading, flap, retries>>

loginSendCookie_early ==             \* slip: connected before the greeting is read
    /\ pc["net"] = "cookie"
    /\ connected' = TRUE /\ loggedIn' = TRUE
    /\ Goto("net", "idle")
    /\ UNCHANGED <<seqnum, socket, conns, lseq, reading, flap, retries, proc>>

loginSendCookie ==
    /\ pc["net"] = "cookie"
    /\ \/ /\ Greeted /\ Answer("cookie")
          /\ connected' = TRUE /\ loggedIn' = TRUE
          /\ Goto("net", "idle")
          /\ UNCHANGED proc
       \/ /\ ~Greeted /\ (Readable \/ Hopeless)
          /\ proc' = "exited"
          /\ UNCHANGED <<connected, loggedIn, inbox, sent, pc>>
    /\ UNCHANGED <<seqnum, socket, peer, open, eof, served,
                   lseq, reading, flap, retries>>

------------------------------------------------------------------------------
Init ==
    /\ connected = FALSE /\ loggedIn = FALSE
    /\ seqnum = 1 % W
    /\ socket = NoConn
    /\ peer = [c \in Conn |-> "none"]
    /\ open = {} /\ eof = {}
    /\ inbox = [c \in Conn |-> <<>>]
    /\ served = [c \in Conn |-> 0]
    /\ sent = [c \in Conn |-> <<>>]
    /\ pc = [t \in Thread |-> "idle"]
    /\ lseq = [t \in Thread |-> 0]
    /\ reading = NoConn
    /\ flap = [kind |-> "hello", seq |-> 0]
    /\ retries = [t \in Dc |-> 0]
    /\ proc = "running"

Net == \/ networkThread \/ readHeader \/ readBody
       \/ serverIsReady \/ handled \/ Sends("net") \/ sendSnac("net")
       \/ incomingFlapCloseConnection
       \/ connectToBos \/ bosUnreachable \/ loginSendCookie

Ctl == \/ cmdCONNECT \/ connectFailed \/ SignInConnects("ctl") \/ LoginA("ctl")
       \/ cmdDISCONNECT \/ cmdQUIT \/ Sends("ctl") \/ sendSnac("ctl")

Cycle == Sends("cycle") \/ sendSnac("cycle")

Reconnecting(t) == \/ retryAfterSleep(t) \/ retryFailed(t)
                   \/ SignInConnects(t) \/ LoginA(t)

Server(c) == ServerSends(c) \/ ServerCloses(c)

Next == /\ proc = "running"
        /\ \/ Net \/ Ctl \/ Cycle
           \/ \E t \in Dc : networkReconnect(t) \/ Reconnecting(t)
           \/ \E c \in Conn : Server(c)

Spec == Init /\ [][Next]_vars

(* Every thread that can run does, a handler sends finitely many FLAPs, and *)
(* a server whose client has closed the connection closes it too.  Commands *)
(* and direct connections owe nothing.                                      *)
Running(A) == proc = "running" /\ A

Fairness ==
    /\ WF_vars(Running(Net)) /\ WF_vars(Running(Cycle))
    /\ SF_vars(Running(handled))
    /\ WF_vars(Running(SignInConnects("ctl") \/ LoginA("ctl")))
    /\ \A t \in Dc : WF_vars(Running(Reconnecting(t)))
    /\ \A c \in Conn : WF_vars(Running(c \notin open /\ ServerCloses(c)))

FairSpec == Spec /\ Fairness

------------------------------------------------------------------------------
(* Properties.                                                              *)

(* g_state.connected is set only while the socket of the moment is an open  *)
(* connection whose server was answered, unless it hung up before           *)
(* (YSM_Init_LoginA, loginSendCookie): what the threads read and send goes  *)
(* to a server that knows them.                                             *)
AnsweredConnection ==
    connected => socket \in open /\ (sent[socket] # <<>> \/ socket \in eof)

(* The FLAPs that a connection carries are numbered consecutively, from the *)
(* answer to the greeting, through SERVER_IS_READY (numbered after the      *)
(* server's own FLAP), to the SNACs numbered from g_sinfo.seqnum.           *)
SeqConsecutive ==
    \A c \in Conn : \A i \in 1..Len(sent[c]) - 1 :
        sent[c][i + 1].seq = (sent[c][i].seq + 1) % W

(* The login cookie is sent to a BOS server and the password to an          *)
(* authorization server, each as the first FLAP of its connection.          *)
CookieGoesToBos ==
    \A c \in Conn : \A i \in 1..Len(sent[c]) :
        /\ sent[c][i].kind = "cookie" <=> i = 1 /\ peer[c] = "bos"
        /\ sent[c][i].kind = "login"  <=> i = 1 /\ peer[c] = "auth"

(* A new connection is opened only after the old one was closed: sessions,  *)
(* redirections and reconnects leave no descriptor behind.                  *)
OneOpen == \A c, d \in open : c = d

(* An address and a cookie from the server are followed: the network thread *)
(* goes on with the login sequence.                                         *)
CookieFollowed ==
    [][pc["net"] = "handle" /\ flap.kind = "bos" /\ pc'["net"] # "handle"
       => pc'["net"] = "bos"]_vars

(* A reconnect that was started ends in a session or in the daemon's exit,  *)
(* never with a silent loss of the network.                                 *)
ReconnectEnds == \A t \in Dc : pc[t] = "wait" ~> connected \/ proc = "exited"

(* A close that the server announces is noticed: the session ends or goes   *)
(* over to the BOS server.                                                  *)
Announced(c) == \E i \in 1..Len(inbox[c]) : inbox[c][i].kind \in {"bos", "bye"}
ByeNoticed ==
    \A c \in Conn : connected /\ socket = c /\ Announced(c)
                        ~> ~connected \/ socket # c \/ proc = "exited"

(* A connection that the server has silently closed is noticed, by the      *)
(* network thread's reads or by the keep-alive.                             *)
EofNoticed ==
    \A c \in Conn : connected /\ socket = c /\ c \in eof
                        ~> ~connected \/ socket # c \/ proc = "exited"

(* What the session promises, for the refinement.                           *)
Phase == IF proc = "exited" THEN "exited"
         ELSE IF pc["net"] \in {"bos", "cookie"} THEN "handover"
         ELSE IF ~connected THEN "offline"
         ELSE IF loggedIn THEN "online" ELSE "auth"

L == INSTANCE Login WITH
        phase <- Phase,
        talksTo <- IF Phase \in {"auth", "online"} THEN peer[socket] ELSE "none"

(* The session goes from phase to phase as a login does, and is online      *)
(* exactly with the BOS server.                                             *)
IsLogin == L!Spec
==============================================================================
