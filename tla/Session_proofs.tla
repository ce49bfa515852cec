---------------------------- MODULE Session_proofs ----------------------------
(***************************************************************************)
(* What the session keeps for any connections, numbers, retries and bounds, *)
(* as long as commands and reconnects start between the handlers and only   *)
(* the network thread sends SNACs.                                          *)
(***************************************************************************)
EXTENDS Session, SequenceTheorems, TLAPS

Calm == ~Overlap /\ Senders \subseteq {"net"}

-----------------------------------------------------------------------------
\* Types: TypeOK, and that the network thread reads a connection.

TypeInv == TypeOK /\ (pc["net"] = "head" => reading \in Conn)

LEMMA ModW == \A n \in Nat : n % W \in Seqs
  BY SeqAssumption DEF Seqs

LEMMA TypeInit == Init => TypeInv
<1> SUFFICES ASSUME Init PROVE TypeInv
  OBVIOUS
<1>1. 0 \in Seqs /\ 1 % W \in Seqs
  BY SeqAssumption, ModW DEF Seqs
<1>2. <<>> \in Seq(Flap) /\ <<>> \in Seq(Sent)
  OBVIOUS
<1>3. 0 \in 0..MaxRetries
  BY BoundAssumption
<1>4. flap \in Flap /\ retries \in [Dc -> 0..MaxRetries] /\ seqnum \in Seqs
  BY <1>1, <1>3 DEF Init, Flap
<1> QED
  BY <1>1, <1>2, <1>4 DEF Init, TypeInv, TypeOK, State, Thread

\* The primitives keep the types.
LEMMA WriteType ==
  ASSUME TypeOK, NEW k \in {"login", "cookie", "snac"}, NEW n \in Seqs, Write(k, n)
  PROVE  sent' \in [Conn -> Seq(Sent)]
<1>1. [kind |-> k, seq |-> n] \in Sent
  BY DEF Sent
<1>2. CASE socket \in open \ eof
  <2>1. socket \in Conn /\ sent[socket] \in Seq(Sent)
    BY <1>2 DEF TypeOK
  <2>2. Append(sent[socket], [kind |-> k, seq |-> n]) \in Seq(Sent)
    BY <1>1, <2>1
  <2> QED
    BY <1>2, <2>1, <2>2 DEF Write, TypeOK
<1>3. CASE socket \notin open \ eof
  BY <1>3 DEF Write, TypeOK
<1> QED
  BY <1>2, <1>3

LEMMA TailType ==
  ASSUME TypeOK, NEW c \in Conn, inbox[c] # <<>>
  PROVE  /\ Head(inbox[c]) \in Flap /\ Tail(inbox[c]) \in Seq(Flap)
         /\ [inbox EXCEPT ![c] = Tail(@)] \in [Conn -> Seq(Flap)]
<1>1. inbox[c] \in Seq(Flap)
  BY DEF TypeOK
<1>2. Head(inbox[c]) \in Flap /\ Tail(inbox[c]) \in Seq(Flap)
  BY <1>1
<1> QED
  BY <1>2 DEF TypeOK

LEMMA AnswerType ==
  ASSUME TypeOK, Greeted, NEW k \in {"login", "cookie"}, Answer(k)
  PROVE  sent' \in [Conn -> Seq(Sent)] /\ inbox' \in [Conn -> Seq(Flap)]
<1>1. socket \in Conn /\ inbox[socket] # <<>>
  BY DEF Greeted, Readable, TypeOK
<1>2. Head(inbox[socket]).seq \in Nat
  BY <1>1, TailType, SeqAssumption DEF Flap, Seqs
<1>3. (Head(inbox[socket]).seq + 1) % W \in Seqs
  BY <1>2, ModW
<1> QED
  BY <1>1, <1>3, TailType, WriteType DEF Answer

LEMMA OpensType ==
  ASSUME TypeOK, NEW c \in Conn, NEW p \in {"auth", "bos"}, Opens(c, p)
  PROVE  /\ peer' \in [Conn -> {"none", "auth", "bos"}]
         /\ open' \subseteq Conn /\ eof' \subseteq Conn
         /\ socket' \in Conn
         /\ inbox' \in [Conn -> Seq(Flap)] /\ served' \in [Conn -> Nat]
<1>1. \A k \in {"hello", "bad"} : <<[kind |-> k, seq |-> HelloSeq]>> \in Seq(Flap)
  BY SeqAssumption DEF Flap, Seqs
<1>2. inbox' \in [Conn -> Seq(Flap)]
  BY <1>1 DEF Opens, TypeOK
<1> QED
  BY <1>2 DEF Opens, TypeOK

LEMMA PushType ==
  ASSUME TypeOK, NEW c \in Conn, NEW k \in {"bos", "bye", "ready", "snac"}, Push(c, k)
  PROVE  inbox' \in [Conn -> Seq(Flap)] /\ served' \in [Conn -> Nat]
<1>1. ServerSeq(c) \in Seqs
  <2>1. HelloSeq + served[c] \in Nat
    BY SeqAssumption DEF TypeOK
  <2> QED
    BY <2>1, ModW DEF ServerSeq
<1>2. [kind |-> k, seq |-> ServerSeq(c)] \in Flap
  BY <1>1 DEF Flap
<1>3. inbox[c] \in Seq(Flap)
  BY DEF TypeOK
<1>4. Append(inbox[c], [kind |-> k, seq |-> ServerSeq(c)]) \in Seq(Flap)
  BY <1>2, <1>3
<1> QED
  BY <1>4 DEF Push, TypeOK

LEMMA TypeStep == TypeInv /\ [Next]_vars => TypeInv'
<1> SUFFICES ASSUME TypeInv, [Next]_vars PROVE TypeInv'
  OBVIOUS
<1> USE ThreadAssumption DEF TypeInv, Goto, State, globals, conns, Thread
<1>1. ASSUME networkThread PROVE TypeInv'
  BY <1>1 DEF networkThread, TypeOK
<1>2. ASSUME readHeader PROVE TypeInv'
  <2>1. CASE /\ inbox[reading] # <<>> /\ flap' = Head(inbox[reading])
             /\ inbox' = [inbox EXCEPT ![reading] = Tail(@)]
    <3>1. flap' \in Flap /\ inbox' \in [Conn -> Seq(Flap)]
      BY <1>2, <2>1, TailType DEF readHeader
    <3> QED
      BY <1>2, <3>1 DEF readHeader, TypeOK
  <2>2. CASE flap' \in (IF connected THEN Stale ELSE {flap}) /\ inbox' = inbox
    BY <1>2, <2>2 DEF readHeader, Stale, TypeOK
  <2> QED
    BY <1>2, <2>1, <2>2 DEF readHeader
<1>3. ASSUME readBody PROVE TypeInv'
  <2>1. \A k \in {"bye", "ready", "snac"} : [flap EXCEPT !.kind = k] \in Flap
    BY DEF TypeOK, Flap
  <2>2. flap' \in Flap
    BY <1>3, <2>1 DEF readBody, Bodyless, TypeOK
  <2> QED
    BY <1>3, <2>2 DEF readBody, TypeOK
<1>4. ASSUME serverIsReady PROVE TypeInv'
  <2>1. flap.seq \in Seqs
    BY DEF TypeOK, Flap
  <2> QED
    BY <1>4, <2>1 DEF serverIsReady, TypeOK
<1>5. ASSUME handled PROVE TypeInv'
  BY <1>5 DEF handled, TypeOK
<1>6. ASSUME NEW t \in {"net", "ctl", "cycle"}, Sends(t) PROVE TypeInv'
  <2>1. seqnum + 1 \in Nat
    BY SeqAssumption DEF TypeOK, Seqs
  <2>2. (seqnum + 1) % W \in Seqs
    BY <2>1, ModW
  <2> QED
    BY <1>6, <2>2 DEF Sends, TypeOK
<1>7. ASSUME NEW t \in {"net", "ctl", "cycle"}, sendSnac(t) PROVE TypeInv'
  <2>1. lseq[t] \in Nat
    BY SeqAssumption DEF TypeOK, Seqs, Thread
  <2>2. (lseq[t] + 1) % W \in Seqs
    BY <2>1, ModW
  <2>3. sent' \in [Conn -> Seq(Sent)]
    BY <1>7, <2>2, WriteType DEF sendSnac
  <2> QED
    BY <1>7, <2>2, <2>3 DEF sendSnac, TypeOK
<1>8. ASSUME incomingFlapCloseConnection PROVE TypeInv'
  BY <1>8 DEF incomingFlapCloseConnection, TypeOK
<1>9. ASSUME connectToBos PROVE TypeInv'
  <2>1. PICK c \in Conn : Opens(c, "bos")
    BY <1>9 DEF connectToBos
  <2>2. seqnum' \in Seqs
    BY <1>9, SeqAssumption DEF connectToBos, Seqs
  <2> QED
    BY <1>9, <2>1, <2>2, OpensType DEF connectToBos, TypeOK
<1>10. ASSUME bosUnreachable PROVE TypeInv'
  BY <1>10 DEF bosUnreachable, TypeOK
<1>11. ASSUME loginSendCookie PROVE TypeInv'
  <2>1. sent' \in [Conn -> Seq(Sent)] /\ inbox' \in [Conn -> Seq(Flap)]
    BY <1>11, AnswerType DEF loginSendCookie, TypeOK
  <2> QED
    BY <1>11, <2>1 DEF loginSendCookie, TypeOK
<1>12. ASSUME cmdCONNECT \/ connectFailed \/ cmdDISCONNECT \/ cmdQUIT PROVE TypeInv'
  BY <1>12 DEF cmdCONNECT, connectFailed, cmdDISCONNECT, cmdQUIT, TypeOK
<1>13. ASSUME NEW t \in Thread, SignInConnects(t) PROVE TypeInv'
  <2>1. PICK c \in Conn : Opens(c, "auth")
    BY <1>13 DEF SignInConnects
  <2> QED
    BY <1>13, <2>1, OpensType DEF SignInConnects, TypeOK
<1>14. ASSUME NEW t \in Thread, LoginA(t) PROVE TypeInv'
  <2>1. sent' \in [Conn -> Seq(Sent)] /\ inbox' \in [Conn -> Seq(Flap)]
    <3>1. CASE Greeted /\ Answer("login")
      BY <3>1, AnswerType
    <3>2. CASE Readable /\ inbox' = [inbox EXCEPT ![socket] = Tail(@)] /\ sent' = sent
      <4>1. socket \in Conn /\ inbox[socket] # <<>>
        BY <3>2 DEF Readable, TypeOK
      <4> QED
        BY <3>2, <4>1, TailType DEF TypeOK
    <3>3. CASE inbox' = inbox /\ sent' = sent
      BY <3>3 DEF TypeOK
    <3> QED
      BY <1>14, <3>1, <3>2, <3>3 DEF LoginA
  <2> QED
    BY <1>14, <2>1 DEF LoginA, TypeOK
<1>15. ASSUME NEW t \in Dc, networkReconnect(t) \/ retryAfterSleep(t) PROVE TypeInv'
  <2>1. CASE networkReconnect(t)
    <3>1. 0 \in 0..MaxRetries
      BY BoundAssumption
    <3>2. retries' \in [Dc -> 0..MaxRetries]
      BY <2>1, <3>1 DEF networkReconnect, TypeOK
    <3> QED
      BY <2>1, <3>2 DEF networkReconnect, TypeOK
  <2>2. CASE retryAfterSleep(t)
    BY <2>2 DEF retryAfterSleep, TypeOK
  <2> QED
    BY <1>15, <2>1, <2>2
<1>16. ASSUME NEW t \in Dc, retryFailed(t) PROVE TypeInv'
  <2>1. retries[t] < MaxRetries => retries[t] + 1 \in 0..MaxRetries
    BY BoundAssumption DEF TypeOK
  <2> QED
    BY <1>16, <2>1 DEF retryFailed, TypeOK
<1>17. ASSUME NEW c \in Conn, ServerSends(c) PROVE TypeInv'
  <2>1. inbox' \in [Conn -> Seq(Flap)] /\ served' \in [Conn -> Nat]
    BY <1>17, PushType DEF ServerSends
  <2> QED
    BY <1>17, <2>1 DEF ServerSends, TypeOK
<1>18. ASSUME NEW c \in Conn, ServerCloses(c) PROVE TypeInv'
  BY <1>18 DEF ServerCloses, TypeOK
<1>19. CASE UNCHANGED vars
  BY <1>19 DEF vars, TypeOK
<1> QED
  BY <1>1, <1>2, <1>3, <1>4, <1>5, <1>6, <1>7, <1>8, <1>9, <1>10, <1>11, <1>12, <1>13,
     <1>14, <1>15, <1>16, <1>17, <1>18, <1>19
     DEF Next, Net, Ctl, Cycle, Reconnecting, Server, Thread
-----------------------------------------------------------------------------
\* What a step rests on, part by part.

\* Where each thread can be, and that a thread that signs in (cmdCONNECT,
\* networkReconnect) finds the session down and the others out of its way.
Signing(t) == pc[t] \in {"wait", "connect", "hello"}

Places ==
    /\ pc["net"] \in {"idle", "head", "body", "handle", "put", "bos", "cookie"}
    /\ pc["ctl"] \in {"idle", "connect", "hello"}
    /\ pc["cycle"] = "idle"
    /\ \A t \in Dc : pc[t] \in {"idle", "wait", "connect", "hello"}

OneAtATime ==
    \A t \in Thread : Signing(t) =>
        /\ ~connected
        /\ \A s \in Thread \ {t} : /\ pc[s] \in {"idle", "head"}
                                   /\ pc[t] = "hello" => pc[s] = "idle"

\* The network thread holds a FLAP only of the session of the moment, and the
\* session is down from the redirection to the answer of the BOS server.
NetInSession ==
    /\ pc["net"] \in {"body", "handle", "put"} => connected
    /\ pc["net"] \in {"head", "body", "handle", "put"} /\ connected => reading = socket
    /\ pc["net"] \in {"bos", "cookie"} => ~connected

\* The server at the other end: the connection of the moment is open to a server
\* of kind p, and nothing has been sent to it yet.
Unanswered(p) == socket \in open /\ peer[socket] = p /\ sent[socket] = <<>>

\* Nothing has been sent on an unused connection, nor on one that is greeted.
Ends ==
    /\ \A c \in Conn : peer[c] = "none" => sent[c] = <<>>
    /\ \A t \in Thread : pc[t] = "hello" => Unanswered("auth")
    /\ pc["net"] = "cookie" => Unanswered("bos")

\* FL_LOGGEDIN tells the two servers apart, unless the user may connect again
\* with the flag set.
FlagTells ==
    /\ connected => peer[socket] = IF loggedIn THEN "bos" ELSE "auth"
    /\ \A t \in Thread : Signing(t) => ~loggedIn

\* What a server that has not hung up has sent, and how many of its FLAPs have
\* been read.
Got(c) == served[c] - Len(inbox[c])

Ordered(c) ==
    /\ served[c] >= 1 /\ Got(c) >= 0
    /\ sent[c] = <<>> => served[c] = 1
    /\ \A i \in 1..Len(inbox[c]) :
          /\ Got(c) + i = 1 => inbox[c][i].seq = HelloSeq /\ inbox[c][i].kind \in {"hello", "bad"}
          /\ Got(c) + i = 2 => inbox[c][i].seq = (HelloSeq + 1) % W /\ inbox[c][i].kind = "ready"
          /\ Got(c) + i > 2 => inbox[c][i].kind = "snac"

InOrder == \A c \in Conn \ eof : peer[c] # "none" => Ordered(c)

\* The number of the last FLAP that was sent is where the next one goes on.
LastSeq == sent[socket][Len(sent[socket])].seq

Numbering ==
    connected /\ socket \notin eof =>
        IF pc["net"] \in {"body", "handle", "put"}
        THEN \/ /\ Got(socket) = 2 /\ flap.kind = "ready"
                /\ flap.seq = LastSeq
                /\ pc["net"] = "put" => lseq["net"] = LastSeq
             \/ /\ Got(socket) > 2 /\ flap.kind = "snac"
                /\ LastSeq = IF pc["net"] = "put" THEN lseq["net"] ELSE seqnum
        ELSE \/ Got(socket) = 1 /\ LastSeq = (HelloSeq + 1) % W
             \/ Got(socket) > 1 /\ LastSeq = seqnum

IInv == /\ Calm /\ TypeInv
        /\ Places /\ OneAtATime /\ NetInSession /\ Ends
        /\ AnsweredConnection /\ CookieGoesToBos /\ SeqConsecutive
        /\ InOrder /\ Numbering
        /\ Relogin \/ FlagTells
-----------------------------------------------------------------------------
\* Turns: who can be where.

Turns == Places /\ OneAtATime /\ NetInSession

LEMMA TurnsStep ==
  ASSUME TypeInv, Calm, Turns, [Next]_vars PROVE Turns'
<1> USE ThreadAssumption
    DEF TypeInv, TypeOK, Calm, Turns, Places, OneAtATime, NetInSession, Signing, Thread,
        Goto, Undisturbed, globals, conns
<1>1. ASSUME networkThread PROVE Turns'
  BY <1>1 DEF networkThread
<1>2. ASSUME readHeader PROVE Turns'
  BY <1>2 DEF readHeader
<1>3. ASSUME readBody PROVE Turns'
  BY <1>3 DEF readBody
<1>4. ASSUME serverIsReady PROVE Turns'
  BY <1>4 DEF serverIsReady
<1>5. ASSUME handled PROVE Turns'
  BY <1>5 DEF handled
<1>6. ASSUME NEW t \in {"net", "ctl", "cycle"}, Sends(t) PROVE Turns'
  BY <1>6 DEF Sends
<1>7. ASSUME NEW t \in {"net", "ctl", "cycle"}, sendSnac(t) PROVE Turns'
  BY <1>7 DEF sendSnac
<1>8. ASSUME incomingFlapCloseConnection PROVE Turns'
  BY <1>8 DEF incomingFlapCloseConnection
<1>9. ASSUME connectToBos PROVE Turns'
  BY <1>9 DEF connectToBos
<1>10. ASSUME bosUnreachable PROVE Turns'
  BY <1>10 DEF bosUnreachable
<1>11. ASSUME loginSendCookie PROVE Turns'
  <2>1. pc["net"] = "cookie" /\ \A t \in Thread : ~Signing(t)
    BY <1>11 DEF loginSendCookie
  <2>2. CASE pc' = [pc EXCEPT !["net"] = "idle"]
    BY <1>11, <2>1, <2>2 DEF loginSendCookie
  <2>3. CASE pc' = pc /\ connected' = connected
    BY <1>11, <2>3 DEF loginSendCookie
  <2> QED
    BY <1>11, <2>2, <2>3 DEF loginSendCookie
<1>12. ASSUME cmdCONNECT PROVE Turns'
  BY <1>12 DEF cmdCONNECT
<1>13. ASSUME connectFailed PROVE Turns'
  BY <1>13 DEF connectFailed
<1>14. ASSUME cmdDISCONNECT \/ cmdQUIT PROVE Turns'
  BY <1>14 DEF cmdDISCONNECT, cmdQUIT
<1>15. ASSUME NEW t \in Thread, SignInConnects(t) PROVE Turns'
  BY <1>15 DEF SignInConnects
<1>16. ASSUME NEW t \in Thread, LoginA(t) PROVE Turns'
  BY <1>16 DEF LoginA
<1>17. ASSUME NEW t \in Dc, networkReconnect(t) PROVE Turns'
  BY <1>17 DEF networkReconnect
<1>18. ASSUME NEW t \in Dc, retryAfterSleep(t) PROVE Turns'
  BY <1>18 DEF retryAfterSleep
<1>19. ASSUME NEW t \in Dc, retryFailed(t) PROVE Turns'
  BY <1>19 DEF retryFailed
<1>20. ASSUME NEW c \in Conn, ServerSends(c) \/ ServerCloses(c) PROVE Turns'
  BY <1>20 DEF ServerSends, ServerCloses
<1>21. CASE UNCHANGED vars
  BY <1>21 DEF vars
<1> QED
  BY <1>1, <1>2, <1>3, <1>4, <1>5, <1>6, <1>7, <1>8, <1>9, <1>10, <1>11, <1>12, <1>13,
     <1>14, <1>15, <1>16, <1>17, <1>18, <1>19, <1>20, <1>21
     DEF Next, Net, Ctl, Cycle, Reconnecting, Server
-----------------------------------------------------------------------------
\* The wire: what is written on a connection, and what that does to the two
\* properties about it.

Wire == CookieGoesToBos /\ SeqConsecutive

LEMMA Written ==
  ASSUME TypeOK, NEW k \in {"login", "cookie", "snac"}, NEW n \in Seqs, Write(k, n),
         socket \in open \ eof
  PROVE  /\ sent[socket] \in Seq(Sent) /\ sent'[socket] \in Seq(Sent)
         /\ Len(sent[socket]) \in Nat
         /\ Len(sent'[socket]) = Len(sent[socket]) + 1
         /\ \A i \in 1..Len(sent[socket]) : sent'[socket][i] = sent[socket][i]
         /\ sent'[socket][Len(sent[socket]) + 1] = [kind |-> k, seq |-> n]
         /\ \A c \in Conn \ {socket} : sent'[c] = sent[c]
<1>1. [kind |-> k, seq |-> n] \in Sent
  BY DEF Sent
<1>2. socket \in Conn /\ sent[socket] \in Seq(Sent)
  BY DEF TypeOK
<1>3. sent'[socket] = Append(sent[socket], [kind |-> k, seq |-> n])
  BY <1>2 DEF Write, TypeOK
<1>4. \A c \in Conn \ {socket} : sent'[c] = sent[c]
  BY <1>2 DEF Write, TypeOK
<1> QED
  BY <1>1, <1>2, <1>3, <1>4, AppendProperties

LEMMA Unwritten ==
  ASSUME TypeOK, NEW k, NEW n, Write(k, n), socket \notin open \ eof PROVE sent' = sent
  BY DEF Write

LEMMA SameWire ==
  ASSUME Wire, sent' = sent, peer' = peer PROVE Wire'
  BY DEF Wire, CookieGoesToBos, SeqConsecutive

LEMMA FirstOnWire ==
  ASSUME TypeOK, Wire, peer' = peer,
         NEW k \in {"login", "cookie"}, NEW n \in Seqs, Write(k, n),
         Unanswered(IF k = "login" THEN "auth" ELSE "bos")
  PROVE  Wire'
<1>1. CASE socket \in open \ eof
  <2>1. Len(sent[socket]) = 0 /\ socket \in Conn
    BY <1>1 DEF Unanswered, TypeOK
  <2>2. Len(sent'[socket]) = 1 /\ sent'[socket][1] = [kind |-> k, seq |-> n]
        /\ \A c \in Conn \ {socket} : sent'[c] = sent[c]
    BY <1>1, <2>1, Written
  <2>3. CookieGoesToBos'
    BY <2>1, <2>2 DEF CookieGoesToBos, Wire, Unanswered
  <2>4. SeqConsecutive'
    BY <2>1, <2>2 DEF SeqConsecutive, Wire
  <2> QED
    BY <2>3, <2>4 DEF Wire
<1>2. CASE socket \notin open \ eof
  BY <1>2, Unwritten, SameWire
<1> QED
  BY <1>1, <1>2

LEMMA NextOnWire ==
  ASSUME TypeOK, Wire, peer' = peer, NEW n \in Seqs, Write("snac", n),
         socket \in open \ eof => sent[socket] # <<>> /\ n = (LastSeq + 1) % W
  PROVE  Wire'
<1>1. CASE socket \in open \ eof
  <2> DEFINE l == Len(sent[socket])
  <2>1. socket \in Conn /\ l \in Nat /\ l > 0
    BY <1>1, Written, EmptySeq DEF TypeOK
  <2>2. /\ Len(sent'[socket]) = l + 1
        /\ \A i \in 1..l : sent'[socket][i] = sent[socket][i]
        /\ sent'[socket][l + 1] = [kind |-> "snac", seq |-> n]
        /\ \A c \in Conn \ {socket} : sent'[c] = sent[c]
    BY <1>1, Written
  <2>3. CookieGoesToBos'
    <3> SUFFICES ASSUME NEW c \in Conn, NEW i \in 1..Len(sent'[c])
                 PROVE  /\ sent'[c][i].kind = "cookie" <=> i = 1 /\ peer[c] = "bos"
                        /\ sent'[c][i].kind = "login"  <=> i = 1 /\ peer[c] = "auth"
      BY DEF CookieGoesToBos
    <3>1. CASE c = socket /\ i = l + 1
      BY <2>1, <2>2, <3>1
    <3>2. CASE ~(c = socket /\ i = l + 1)
      <4>1. i \in 1..Len(sent[c]) /\ sent'[c][i] = sent[c][i]
        BY <2>1, <2>2, <3>2
      <4> QED
        BY <4>1 DEF Wire, CookieGoesToBos
    <3> QED
      BY <3>1, <3>2
  <2>4. SeqConsecutive'
    <3> SUFFICES ASSUME NEW c \in Conn, NEW i \in 1..Len(sent'[c]) - 1
                 PROVE  sent'[c][i + 1].seq = (sent'[c][i].seq + 1) % W
      BY DEF SeqConsecutive
    <3>1. CASE c = socket /\ i = l
      BY <1>1, <2>1, <2>2, <3>1 DEF LastSeq
    <3>2. CASE ~(c = socket /\ i = l)
      <4>1. i \in 1..Len(sent[c]) - 1 /\ sent'[c][i] = sent[c][i] /\ sent'[c][i + 1] = sent[c][i + 1]
        <5>1. CASE c = socket
          BY <2>1, <2>2, <3>2, <5>1
        <5>2. CASE c # socket
          BY <2>2, <5>2
        <5> QED
          BY <5>1, <5>2
      <4> QED
        BY <4>1 DEF Wire, SeqConsecutive
    <3> QED
      BY <3>1, <3>2
  <2> QED
    BY <2>3, <2>4 DEF Wire
<1>2. CASE socket \notin open \ eof
  BY <1>2, Unwritten, SameWire
<1> QED
  BY <1>1, <1>2
-----------------------------------------------------------------------------
\* The line: the server at the other end of the socket, and the wire to it.

Line == Ends /\ AnsweredConnection /\ Wire

\* An answer to a greeting is the first FLAP of the connection.
LEMMA AnswerKeeps ==
  ASSUME TypeOK, Ends, Wire, peer' = peer, NEW k \in {"login", "cookie"}, Greeted, Answer(k),
         Unanswered(IF k = "login" THEN "auth" ELSE "bos")
  PROVE  /\ Wire' /\ socket \in Conn
         /\ \A c \in Conn : peer[c] = "none" => sent'[c] = <<>>
         /\ sent'[socket] # <<>> \/ socket \in eof
<1>1. socket \in Conn /\ inbox[socket] # <<>>
  BY DEF Greeted, Readable, TypeOK
<1>2. Head(inbox[socket]).seq \in Nat
  BY <1>1, TailType, SeqAssumption DEF Flap, Seqs
<1> DEFINE n == (Head(inbox[socket]).seq + 1) % W
<1>3. n \in Seqs /\ Write(k, n)
  BY <1>2, ModW DEF Answer
<1>4. Wire'
  BY <1>3, FirstOnWire
<1>5. \A c \in Conn : peer[c] = "none" => sent'[c] = <<>>
  <2>1. \A c \in Conn \ {socket} : sent'[c] = sent[c]
    BY <1>3, Written, Unwritten
  <2> QED
    BY <2>1 DEF Ends, Unanswered
<1>6. sent'[socket] # <<>> \/ socket \in eof
  <2>1. CASE socket \in open \ eof
    <3>1. Len(sent'[socket]) = Len(sent[socket]) + 1 /\ Len(sent[socket]) \in Nat
      BY <1>3, <2>1, Written
    <3> QED
      BY <3>1, EmptySeq
  <2> QED
    BY <2>1 DEF Unanswered
<1> QED
  BY <1>1, <1>4, <1>5, <1>6

LEMMA LineStep ==
  ASSUME TypeInv, Calm, Turns, Line, Numbering, [Next]_vars PROVE Line'
<1> USE ThreadAssumption
    DEF TypeInv, Calm, Turns, Places, OneAtATime, NetInSession, Signing, Thread,
        Goto, globals, conns, Line, Ends, AnsweredConnection, Unanswered
<1>1. ASSUME networkThread PROVE Line'
  BY <1>1, SameWire DEF networkThread, TypeOK
<1>2. ASSUME readHeader PROVE Line'
  BY <1>2, SameWire DEF readHeader, TypeOK
<1>3. ASSUME readBody PROVE Line'
  BY <1>3, SameWire DEF readBody, TypeOK
<1>4. ASSUME serverIsReady PROVE Line'
  BY <1>4, SameWire DEF serverIsReady, TypeOK
<1>5. ASSUME handled PROVE Line'
  BY <1>5, SameWire DEF handled, TypeOK
<1>6. ASSUME NEW t \in {"net", "ctl", "cycle"}, Sends(t) PROVE Line'
  BY <1>6, SameWire DEF Sends, TypeOK
<1>7. ASSUME NEW t \in {"net", "ctl", "cycle"}, sendSnac(t) PROVE Line'
  <2>1. t = "net" /\ connected /\ socket \in Conn
    BY <1>7 DEF sendSnac, TypeOK
  <2> DEFINE n == (lseq["net"] + 1) % W
  <2>2. n \in Seqs /\ Write("snac", n) /\ peer' = peer
    <3>1. lseq["net"] \in Nat
      BY SeqAssumption DEF TypeOK, Seqs
    <3> QED
      BY <1>7, <2>1, <3>1, ModW DEF sendSnac
  <2>3. socket \in open \ eof => sent[socket] # <<>> /\ n = (LastSeq + 1) % W
    BY <1>7, <2>1 DEF sendSnac, Numbering
  <2>4. Wire'
    BY <2>2, <2>3, NextOnWire
  <2>5. \A c \in Conn : sent[c] # <<>> <=> sent'[c] # <<>>
    <3>1. CASE socket \in open \ eof
      <4>1. Len(sent'[socket]) = Len(sent[socket]) + 1 /\ Len(sent[socket]) \in Nat
            /\ \A c \in Conn \ {socket} : sent'[c] = sent[c]
        BY <2>2, <3>1, Written
      <4>2. sent'[socket] # <<>>
        BY <4>1, EmptySeq
      <4> QED
        BY <2>3, <3>1, <4>1, <4>2
    <3> QED
      BY <2>2, <3>1, Unwritten
  <2> QED
    BY <1>7, <2>1, <2>4, <2>5 DEF sendSnac, TypeOK
<1>8. ASSUME incomingFlapCloseConnection PROVE Line'
  BY <1>8, SameWire DEF incomingFlapCloseConnection, TypeOK
<1>9. ASSUME NEW c \in Conn, NEW p \in {"auth", "bos"}, Opens(c, p), sent' = sent,
             connected' = connected, ~connected,
             p = "auth" => pc'["net"] # "cookie",
             p = "bos" => \A t \in Thread : pc'[t] # "hello"
      PROVE  Line'
  <2>1. /\ peer[c] = "none" /\ sent[c] = <<>> /\ Len(sent[c]) = 0
        /\ peer' = [peer EXCEPT ![c] = p] /\ socket' = c /\ c \in open'
    BY <1>9 DEF Opens
  <2>2. Wire'
    BY <1>9, <2>1 DEF Wire, CookieGoesToBos, SeqConsecutive, TypeOK
  <2> QED
    BY <1>9, <2>1, <2>2 DEF TypeOK
<1>10. ASSUME connectToBos PROVE Line'
  BY <1>9, <1>10 DEF connectToBos, TypeOK
<1>11. ASSUME bosUnreachable PROVE Line'
  BY <1>11, SameWire DEF bosUnreachable, TypeOK
<1>12. ASSUME loginSendCookie PROVE Line'
  <2>1. CASE Greeted /\ Answer("cookie")
    BY <1>12, <2>1, AnswerKeeps DEF loginSendCookie, TypeOK
  <2>2. CASE sent' = sent /\ connected' = connected /\ pc' = pc
    BY <1>12, <2>2, SameWire DEF loginSendCookie, TypeOK
  <2> QED
    BY <1>12, <2>1, <2>2 DEF loginSendCookie
<1>13. ASSUME cmdCONNECT \/ connectFailed \/ cmdDISCONNECT \/ cmdQUIT PROVE Line'
  BY <1>13, SameWire DEF cmdCONNECT, connectFailed, cmdDISCONNECT, cmdQUIT, Undisturbed, TypeOK
<1>14. ASSUME NEW t \in Thread, SignInConnects(t) PROVE Line'
  BY <1>9, <1>14 DEF SignInConnects, Undisturbed, TypeOK
<1>15. ASSUME NEW t \in Thread, LoginA(t) PROVE Line'
  <2>1. CASE Greeted /\ Answer("login")
    BY <1>15, <2>1, AnswerKeeps DEF LoginA, TypeOK
  <2>2. CASE sent' = sent /\ connected' = connected
    BY <1>15, <2>2, SameWire DEF LoginA, TypeOK
  <2> QED
    BY <1>15, <2>1, <2>2 DEF LoginA
<1>16. ASSUME NEW t \in Dc, networkReconnect(t) PROVE Line'
  BY <1>16, SameWire DEF networkReconnect, TypeOK
<1>17. ASSUME NEW t \in Dc, retryAfterSleep(t) \/ retryFailed(t) PROVE Line'
  <2>1. ~connected /\ \A s \in Thread : pc[s] # "hello" /\ pc[s] # "cookie"
    BY <1>17 DEF retryAfterSleep, retryFailed
  <2>2. \A s \in Thread : pc'[s] # "hello" /\ pc'[s] # "cookie"
    BY <1>17, <2>1 DEF retryAfterSleep, retryFailed, TypeOK
  <2>3. connected' = connected /\ sent' = sent /\ peer' = peer
    BY <1>17 DEF retryAfterSleep, retryFailed
  <2> QED
    BY <2>1, <2>2, <2>3, SameWire
<1>18. ASSUME NEW c \in Conn, ServerSends(c) \/ ServerCloses(c) PROVE Line'
  BY <1>18, SameWire DEF ServerSends, ServerCloses, TypeOK
<1>19. CASE UNCHANGED vars
  BY <1>19, SameWire DEF vars
<1> QED
  BY <1>1, <1>2, <1>3, <1>4, <1>5, <1>6, <1>7, <1>8, <1>10, <1>11, <1>12, <1>13,
     <1>14, <1>15, <1>16, <1>17, <1>18, <1>19
     DEF Next, Net, Ctl, Cycle, Reconnecting, Server
-----------------------------------------------------------------------------
\* The order of the server's FLAPs.

LEMMA TailOf ==
  ASSUME NEW S, NEW s \in Seq(S), s # <<>>, NEW t, t = Tail(s)
  PROVE  /\ Len(s) \in Nat \ {0} /\ Len(t) = Len(s) - 1 /\ Head(s) = s[1]
         /\ \A i \in 1..Len(t) : t[i] = s[i + 1] /\ i + 1 \in 1..Len(s)
<1>1. Len(s) \in Nat \ {0} /\ Len(t) = Len(s) - 1 /\ Head(s) = s[1]
  BY EmptySeq, HeadTailProperties
<1>2. \A i \in 1..Len(t) : t[i] = s[i + 1]
  BY HeadTailProperties
<1>3. \A i \in 1..Len(t) : i + 1 \in 1..Len(s)
  BY <1>1
<1> QED
  BY <1>1, <1>2, <1>3

LEMMA Consumed ==
  ASSUME TypeOK, NEW c \in Conn, inbox[c] # <<>>,
         inbox' = [inbox EXCEPT ![c] = Tail(@)], served' = served
  PROVE  /\ Len(inbox[c]) \in Nat \ {0} /\ served[c] \in Nat
         /\ Len(inbox'[c]) = Len(inbox[c]) - 1
         /\ Got(c)' = Got(c) + 1
         /\ \A i \in 1..Len(inbox'[c]) : inbox'[c][i] = inbox[c][i + 1] /\ i + 1 \in 1..Len(inbox[c])
         /\ Head(inbox[c]) = inbox[c][1]
         /\ \A d \in Conn \ {c} : inbox'[d] = inbox[d] /\ Got(d)' = Got(d)
<1>1. inbox[c] \in Seq(Flap) /\ inbox'[c] = Tail(inbox[c])
  BY DEF TypeOK
<1>2. Len(inbox[c]) \in Nat \ {0} /\ served[c] \in Nat
  BY <1>1, EmptySeq DEF TypeOK
<1>3. /\ Len(inbox'[c]) = Len(inbox[c]) - 1 /\ Head(inbox[c]) = inbox[c][1]
      /\ \A i \in 1..Len(inbox'[c]) : inbox'[c][i] = inbox[c][i + 1] /\ i + 1 \in 1..Len(inbox[c])
  BY <1>1, TailOf
<1>4. Got(c)' = Got(c) + 1
  BY <1>2, <1>3 DEF Got
<1>5. \A d \in Conn \ {c} : inbox'[d] = inbox[d] /\ Got(d)' = Got(d)
  BY DEF Got, TypeOK
<1> QED
  BY <1>2, <1>3, <1>4, <1>5

LEMMA ReadInOrder ==
  ASSUME TypeOK, NEW c \in Conn, inbox[c] # <<>>,
         inbox' = [inbox EXCEPT ![c] = Tail(@)], served' = served,
         NEW d \in Conn, Ordered(d), sent[d] # <<>> => sent'[d] # <<>>
  PROVE  Ordered(d)'
<1>1. served[d] \in Nat /\ Len(inbox[d]) \in Nat /\ Got(d) \in Int
  BY DEF TypeOK, Got
<1>2. CASE d = c
  <2>0. /\ Got(d)' = Got(d) + 1
        /\ \A i \in 1..Len(inbox'[d]) : inbox'[d][i] = inbox[d][i + 1] /\ i + 1 \in 1..Len(inbox[d])
    BY <1>2, Consumed
  <2>1. \A i \in 1..Len(inbox'[d]) : Got(d)' + i = Got(d) + (i + 1)
    BY <1>1, <2>0
  <2>2. served'[d] >= 1 /\ Got(d)' >= 0 /\ (sent'[d] = <<>> => served'[d] = 1)
    BY <1>1, <2>0 DEF Ordered
  <2>3. ASSUME NEW i \in 1..Len(inbox'[d])
        PROVE  /\ Got(d)' + i = 1 => inbox'[d][i].seq = HelloSeq /\ inbox'[d][i].kind \in {"hello", "bad"}
               /\ Got(d)' + i = 2 => inbox'[d][i].seq = (HelloSeq + 1) % W /\ inbox'[d][i].kind = "ready"
               /\ Got(d)' + i > 2 => inbox'[d][i].kind = "snac"
    <3>1. inbox'[d][i] = inbox[d][i + 1] /\ i + 1 \in 1..Len(inbox[d])
          /\ Got(d)' + i = Got(d) + (i + 1)
      BY <2>0, <2>1
    <3> QED
      BY <3>1 DEF Ordered
  <2> QED
    BY <2>2, <2>3 DEF Ordered
<1>3. CASE d # c
  <2>1. inbox'[d] = inbox[d] /\ Got(d)' = Got(d)
    BY <1>3, Consumed
  <2> QED
    BY <2>1 DEF Ordered
<1> QED
  BY <1>2, <1>3

\* Nothing but the server's own steps and the reads touches the FLAPs.
LEMMA SameInOrder ==
  ASSUME InOrder, inbox' = inbox, served' = served, peer' = peer, eof \subseteq eof',
         \A c \in Conn : sent[c] # <<>> => sent'[c] # <<>>
  PROVE  InOrder'
  BY DEF InOrder, Ordered, Got

LEMMA SentGrows ==
  ASSUME TypeOK, NEW k \in {"login", "cookie", "snac"}, NEW n \in Seqs, Write(k, n)
  PROVE  \A c \in Conn : sent[c] # <<>> => sent'[c] # <<>>
<1>1. CASE socket \in open \ eof
  <2>1. Len(sent'[socket]) = Len(sent[socket]) + 1 /\ Len(sent[socket]) \in Nat
        /\ \A c \in Conn \ {socket} : sent'[c] = sent[c]
    BY <1>1, Written
  <2>2. sent'[socket] # <<>>
    BY <2>1, EmptySeq
  <2> QED
    BY <2>1, <2>2
<1> QED
  BY <1>1, Unwritten

LEMMA AnswerInOrder ==
  ASSUME TypeOK, InOrder, Greeted, NEW k \in {"login", "cookie"}, Answer(k),
         served' = served, peer' = peer, eof' = eof
  PROVE  InOrder'
<1>1. socket \in Conn /\ inbox[socket] # <<>> /\ inbox' = [inbox EXCEPT ![socket] = Tail(@)]
  BY DEF Greeted, Readable, Answer, TypeOK
<1>2. Head(inbox[socket]).seq \in Nat
  BY <1>1, TailType, SeqAssumption DEF Flap, Seqs
<1>3. \A c \in Conn : sent[c] # <<>> => sent'[c] # <<>>
  BY <1>2, ModW, SentGrows DEF Answer
<1>4. \A c \in Conn : Ordered(c) => Ordered(c)'
  BY <1>1, <1>3, ReadInOrder
<1> QED
  BY <1>4 DEF InOrder

LEMMA InOrderStep ==
  ASSUME TypeInv, Ends, InOrder, [Next]_vars PROVE InOrder'
<1> USE DEF TypeInv, globals, conns
<1>1. ASSUME networkThread \/ readBody \/ serverIsReady \/ handled PROVE InOrder'
  BY <1>1, SameInOrder DEF networkThread, readBody, serverIsReady, handled
<1>2. ASSUME readHeader PROVE InOrder'
  <2>1. CASE inbox[reading] # <<>> /\ inbox' = [inbox EXCEPT ![reading] = Tail(@)]
    <3>1. reading \in Conn /\ served' = served /\ sent' = sent /\ peer' = peer /\ eof' = eof
      BY <1>2 DEF readHeader
    <3>2. \A c \in Conn : Ordered(c) => Ordered(c)'
      BY <2>1, <3>1, ReadInOrder
    <3> QED
      BY <3>1, <3>2 DEF InOrder
  <2>2. CASE inbox' = inbox
    BY <1>2, <2>2, SameInOrder DEF readHeader
  <2> QED
    BY <1>2, <2>1, <2>2 DEF readHeader
<1>3. ASSUME NEW t \in {"net", "ctl", "cycle"}, Sends(t) PROVE InOrder'
  BY <1>3, SameInOrder DEF Sends
<1>4. ASSUME NEW t \in {"net", "ctl", "cycle"}, sendSnac(t) PROVE InOrder'
  <2>1. lseq[t] \in Nat
    BY SeqAssumption DEF TypeOK, Seqs, Thread
  <2>2. \A c \in Conn : sent[c] # <<>> => sent'[c] # <<>>
    BY <1>4, <2>1, ModW, SentGrows DEF sendSnac
  <2> QED
    BY <1>4, <2>2, SameInOrder DEF sendSnac
<1>5. ASSUME NEW c \in Conn, NEW p \in {"auth", "bos"}, Opens(c, p), sent' = sent PROVE InOrder'
  <2>1. \A d \in Conn \ {c} : /\ inbox'[d] = inbox[d] /\ served'[d] = served[d]
                              /\ peer'[d] = peer[d] /\ eof \subseteq eof' 
    BY <1>5 DEF Opens, TypeOK
  <2>2. \A d \in Conn \ {c} : Ordered(d) => Ordered(d)'
    BY <1>5, <2>1 DEF Ordered, Got
  <2>3. c \notin eof' => Ordered(c)'
    <3> SUFFICES ASSUME c \notin eof' PROVE Ordered(c)'
      OBVIOUS
    <3>1. PICK k \in {"hello", "bad"} : inbox'[c] = <<[kind |-> k, seq |-> HelloSeq]>>
      BY <1>5 DEF Opens, TypeOK
    <3>2. served'[c] = 1
      BY <1>5 DEF Opens, TypeOK
    <3> QED
      BY <3>1, <3>2 DEF Ordered, Got
  <2> QED
    BY <2>1, <2>2, <2>3 DEF InOrder
<1>6. ASSUME incomingFlapCloseConnection \/ bosUnreachable PROVE InOrder'
  BY <1>6, SameInOrder DEF incomingFlapCloseConnection, bosUnreachable
<1>7. ASSUME connectToBos PROVE InOrder'
  BY <1>5, <1>7 DEF connectToBos
<1>8. ASSUME loginSendCookie PROVE InOrder'
  <2>1. CASE Greeted /\ Answer("cookie")
    BY <1>8, <2>1, AnswerInOrder DEF loginSendCookie
  <2>2. CASE inbox' = inbox /\ sent' = sent
    BY <1>8, <2>2, SameInOrder DEF loginSendCookie
  <2> QED
    BY <1>8, <2>1, <2>2 DEF loginSendCookie
<1>9. ASSUME cmdCONNECT \/ connectFailed \/ cmdDISCONNECT \/ cmdQUIT PROVE InOrder'
  BY <1>9, SameInOrder DEF cmdCONNECT, connectFailed, cmdDISCONNECT, cmdQUIT
<1>10. ASSUME NEW t \in Thread, SignInConnects(t) PROVE InOrder'
  BY <1>5, <1>10 DEF SignInConnects
<1>11. ASSUME NEW t \in Thread, LoginA(t) PROVE InOrder'
  <2>1. CASE Greeted /\ Answer("login")
    BY <1>11, <2>1, AnswerInOrder DEF LoginA
  <2>2. CASE Readable /\ inbox' = [inbox EXCEPT ![socket] = Tail(@)] /\ sent' = sent
    <3>1. socket \in Conn /\ inbox[socket] # <<>> /\ served' = served /\ peer' = peer /\ eof' = eof
      BY <1>11, <2>2 DEF LoginA, Readable, TypeOK
    <3>2. \A c \in Conn : Ordered(c) => Ordered(c)'
      BY <2>2, <3>1, ReadInOrder
    <3> QED
      BY <3>1, <3>2 DEF InOrder
  <2>3. CASE inbox' = inbox /\ sent' = sent
    BY <1>11, <2>3, SameInOrder DEF LoginA
  <2> QED
    BY <1>11, <2>1, <2>2, <2>3 DEF LoginA
<1>12. ASSUME NEW t \in Dc, networkReconnect(t) \/ retryAfterSleep(t) \/ retryFailed(t) PROVE InOrder'
  BY <1>12, SameInOrder DEF networkReconnect, retryAfterSleep, retryFailed
<1>13. ASSUME NEW c \in Conn, ServerSends(c) PROVE InOrder'
  <2>1. /\ peer' = peer /\ sent' = sent /\ eof \subseteq eof' /\ sent[c] # <<>>
        /\ \A d \in Conn \ {c} : inbox'[d] = inbox[d] /\ served'[d] = served[d]
    BY <1>13 DEF ServerSends, Push, TypeOK
  <2>2. \A d \in Conn \ {c} : Ordered(d) => Ordered(d)'
    BY <2>1 DEF Ordered, Got
  <2>3. c \notin eof' /\ Ordered(c) => Ordered(c)'
    <3> SUFFICES ASSUME c \notin eof', Ordered(c) PROVE Ordered(c)'
      OBVIOUS
    <3> DEFINE k == IF served[c] = 1 THEN "ready" ELSE "snac"
               f == [kind |-> k, seq |-> ServerSeq(c)]
    <3>1. Push(c, k)
      BY <1>13 DEF ServerSends
    <3>2. inbox[c] \in Seq(Flap) /\ served[c] \in Nat /\ Len(inbox[c]) \in Nat
      BY DEF TypeOK
    <3>3. inbox'[c] = Append(inbox[c], f) /\ served'[c] = served[c] + 1
      BY <3>1 DEF Push, TypeOK
    <3>4. f \in Flap
      <4>1. HelloSeq + served[c] \in Nat
        BY <3>2, SeqAssumption
      <4> QED
        BY <4>1, ModW DEF ServerSeq, Flap
    <3> HIDE DEF f
    <3>5. /\ Len(inbox'[c]) = Len(inbox[c]) + 1
          /\ \A i \in 1..Len(inbox[c]) : inbox'[c][i] = inbox[c][i]
          /\ inbox'[c][Len(inbox[c]) + 1] = f
      BY <3>2, <3>3, <3>4, AppendProperties
    <3>6. Got(c)' = Got(c) /\ Got(c) + Len(inbox[c]) + 1 = served[c] + 1
      BY <3>2, <3>3, <3>5 DEF Got
    <3>7. f.kind = k /\ (served[c] = 1 => f.seq = (HelloSeq + 1) % W)
      BY DEF f, ServerSeq
    <3>8. ASSUME NEW i \in 1..Len(inbox'[c])
          PROVE  /\ Got(c)' + i = 1 => inbox'[c][i].seq = HelloSeq /\ inbox'[c][i].kind \in {"hello", "bad"}
                 /\ Got(c)' + i = 2 => inbox'[c][i].seq = (HelloSeq + 1) % W /\ inbox'[c][i].kind = "ready"
                 /\ Got(c)' + i > 2 => inbox'[c][i].kind = "snac"
      <4>1. CASE i \in 1..Len(inbox[c])
        BY <3>5, <3>6, <4>1 DEF Ordered
      <4>2. CASE i = Len(inbox[c]) + 1
        <5>1. Got(c)' + i = served[c] + 1 /\ inbox'[c][i] = f /\ served[c] >= 1
          BY <3>2, <3>5, <3>6, <4>2 DEF Ordered, Got
        <5> QED
          BY <3>2, <3>7, <5>1
      <4> QED
        BY <3>2, <3>5, <4>1, <4>2
    <3> QED
      BY <2>1, <3>2, <3>3, <3>6, <3>8 DEF Ordered
  <2> QED
    BY <2>1, <2>2, <2>3 DEF InOrder
<1>14. ASSUME NEW c \in Conn, ServerCloses(c) PROVE InOrder'
  BY <1>14, SameInOrder DEF ServerCloses
<1>15. CASE UNCHANGED vars
  BY <1>15, SameInOrder DEF vars
<1> QED
  BY <1>1, <1>2, <1>3, <1>4, <1>6, <1>7, <1>8, <1>9, <1>10, <1>11, <1>12, <1>13, <1>14, <1>15
     DEF Next, Net, Ctl, Cycle, Reconnecting, Server, Thread
-----------------------------------------------------------------------------
\* The numbers, and what FL_LOGGEDIN tells.

\* Steps that read and write nothing of the session leave the numbering alone.
LEMMA SameNumbering ==
  ASSUME Numbering, connected' => connected, eof \subseteq eof',
         socket' = socket, sent' = sent, served' = served, inbox' = inbox,
         pc'["net"] = pc["net"], flap' = flap, lseq'["net"] = lseq["net"], seqnum' = seqnum
  PROVE  Numbering'
  BY DEF Numbering, Got, LastSeq

LEMMA LastWritten ==
  ASSUME TypeOK, NEW k \in {"login", "cookie", "snac"}, NEW n \in Seqs, Write(k, n),
         socket \in open \ eof, socket' = socket
  PROVE  LastSeq' = n
<1>1. Len(sent'[socket]) = Len(sent[socket]) + 1
      /\ sent'[socket][Len(sent[socket]) + 1] = [kind |-> k, seq |-> n]
  BY Written
<1>2. LastSeq' = sent'[socket][Len(sent'[socket])].seq
  BY DEF LastSeq
<1> QED
  BY <1>1, <1>2

LEMMA GotRead ==
  ASSUME TypeOK, socket \in Conn, inbox[socket] # <<>>, socket' = socket,
         inbox' = [inbox EXCEPT ![socket] = Tail(@)], served' = served
  PROVE  /\ Got(socket) \in Int /\ Got(socket)' = Got(socket) + 1
         /\ Head(inbox[socket]) = inbox[socket][1] /\ Len(inbox[socket]) \in Nat \ {0}
<1>1. Len(inbox[socket]) \in Nat \ {0} /\ served[socket] \in Nat
      /\ Len(inbox'[socket]) = Len(inbox[socket]) - 1 /\ Head(inbox[socket]) = inbox[socket][1]
  BY Consumed
<1> QED
  BY <1>1 DEF Got

\* After the answer to the greeting of a server that has not hung up, one FLAP
\* of it has been read and its number plus one has been sent.
LEMMA AnswerNumbers ==
  ASSUME TypeOK, Ends, InOrder, Greeted, NEW k \in {"login", "cookie"}, Answer(k),
         Unanswered(IF k = "login" THEN "auth" ELSE "bos"), served' = served, socket' = socket,
         eof' = eof, pc'["net"] = "idle"
  PROVE  Numbering'
<1> SUFFICES ASSUME socket \notin eof PROVE Got(socket)' = 1 /\ LastSeq' = (HelloSeq + 1) % W
  BY DEF Numbering
<1>1. socket \in Conn /\ inbox[socket] # <<>> /\ inbox' = [inbox EXCEPT ![socket] = Tail(@)]
  BY DEF Greeted, Readable, Answer, TypeOK
<1>2. Ordered(socket) /\ served[socket] = 1
  BY <1>1 DEF InOrder, Ordered, Unanswered
<1>3. Len(inbox[socket]) = 1 /\ Got(socket) = 0
  <2>1. Len(inbox[socket]) \in Nat /\ Len(inbox[socket]) > 0
    BY <1>1, EmptySeq DEF TypeOK
  <2>2. Got(socket) = 1 - Len(inbox[socket]) /\ Got(socket) >= 0
    BY <1>2 DEF Ordered, Got
  <2>3. \A l \in Nat : l > 0 /\ 1 - l >= 0 => l = 1 /\ 1 - l = 0
    OBVIOUS
  <2> QED
    BY <2>1, <2>2, <2>3
<1>4. Head(inbox[socket]).seq = HelloSeq
  <2>1. Head(inbox[socket]) = inbox[socket][1] /\ 1 \in 1..Len(inbox[socket]) /\ Got(socket) + 1 = 1
    BY <1>1, <1>3, GotRead
  <2> QED
    BY <1>2, <2>1 DEF Ordered
<1>5. Got(socket)' = 1
  BY <1>1, <1>3, GotRead
<1>6. (HelloSeq + 1) % W \in Seqs /\ Write(k, (HelloSeq + 1) % W)
  <2>1. HelloSeq + 1 \in Nat
    BY SeqAssumption
  <2> QED
    BY <1>4, <2>1, ModW DEF Answer
<1>7. LastSeq' = (HelloSeq + 1) % W
  <2>1. socket \in open \ eof
    BY DEF Unanswered
  <2> QED
    BY <1>6, <2>1, LastWritten
<1> QED
  BY <1>5, <1>7

LEMMA NumberingStep ==
  ASSUME TypeInv, Calm, Turns, Ends, AnsweredConnection, InOrder, Numbering, [Next]_vars
  PROVE  Numbering'
<1> USE ThreadAssumption
    DEF TypeInv, Calm, Turns, Places, OneAtATime, NetInSession, Signing, Thread,
        Goto, globals, conns
<1>1. ASSUME networkThread PROVE Numbering'
  BY <1>1 DEF networkThread, Numbering, Got, LastSeq, TypeOK
<1>2. ASSUME readHeader PROVE Numbering'
  <2> SUFFICES ASSUME connected', socket \notin eof
               PROVE  Numbering'
    BY <1>2 DEF readHeader, Numbering
  <2>1. /\ connected /\ reading = socket /\ socket \in Conn /\ inbox[socket] # <<>>
        /\ flap' = Head(inbox[socket]) /\ inbox' = [inbox EXCEPT ![socket] = Tail(@)]
        /\ served' = served /\ pc'["net"] = "body"
    BY <1>2 DEF readHeader, TypeOK
  <2>2. Ordered(socket)
    <3>1. sent[socket] # <<>>
      BY <2>1 DEF AnsweredConnection
    <3> QED
      BY <2>1, <3>1 DEF Ends, InOrder
  <2>3. Got(socket)' = Got(socket) + 1 /\ flap' = inbox[socket][1]
        /\ 1 \in 1..Len(inbox[socket]) /\ Got(socket) \in Int
    <3>1. socket' = socket
      BY <1>2 DEF readHeader
    <3> QED
      BY <2>1, <3>1, GotRead
  <2>4. UNCHANGED <<socket, sent, seqnum, LastSeq>>
    BY <1>2 DEF readHeader, LastSeq
  <2>5. CASE Got(socket) = 1 /\ LastSeq = (HelloSeq + 1) % W
    <3>1. flap'.seq = (HelloSeq + 1) % W /\ flap'.kind = "ready"
      BY <2>2, <2>3, <2>5 DEF Ordered
    <3> QED
      BY <2>1, <2>3, <2>4, <2>5, <3>1 DEF Numbering
  <2>6. CASE Got(socket) > 1 /\ LastSeq = seqnum
    <3>1. flap'.kind = "snac"
      BY <2>2, <2>3, <2>6 DEF Ordered
    <3> QED
      BY <2>1, <2>3, <2>4, <2>6, <3>1 DEF Numbering
  <2> QED
    BY <1>2, <2>1, <2>5, <2>6 DEF readHeader, Numbering
<1>3. ASSUME readBody PROVE Numbering'
  BY <1>3 DEF readBody, Numbering, Got, LastSeq, TypeOK
<1>4. ASSUME serverIsReady PROVE Numbering'
  BY <1>4 DEF serverIsReady, Numbering, Got, LastSeq, TypeOK
<1>5. ASSUME handled PROVE Numbering'
  <2>1. UNCHANGED <<socket, connected, eof, seqnum, LastSeq, Got(socket)>> /\ pc'["net"] = "idle"
    BY <1>5 DEF handled, LastSeq, Got, TypeOK
  <2>2. connected /\ socket \notin eof => Got(socket) > 2 /\ LastSeq = seqnum
    BY <1>5 DEF handled, Numbering
  <2>3. connected => Got(socket) \in Int
    BY DEF AnsweredConnection, Got, TypeOK
  <2>4. connected /\ socket \notin eof => Got(socket) > 1
    BY <2>2, <2>3
  <2> QED
    BY <2>1, <2>2, <2>4 DEF Numbering
<1>6. ASSUME NEW t \in {"net", "ctl", "cycle"}, Sends(t) PROVE Numbering'
  BY <1>6 DEF Sends, Numbering, Got, LastSeq, TypeOK
<1>7. ASSUME NEW t \in {"net", "ctl", "cycle"}, sendSnac(t) PROVE Numbering'
  <2> SUFFICES ASSUME socket \notin eof PROVE Numbering'
    BY <1>7 DEF sendSnac, Numbering
  <2>1. t = "net" /\ connected /\ socket \in open \ eof
    BY <1>7 DEF sendSnac, AnsweredConnection
  <2> DEFINE n == (lseq["net"] + 1) % W
  <2>2. n \in Seqs /\ Write("snac", n) /\ seqnum' = n
    <3>1. lseq["net"] \in Nat
      BY SeqAssumption DEF TypeOK, Seqs
    <3> QED
      BY <1>7, <2>1, <3>1, ModW DEF sendSnac
  <2>3. LastSeq' = n
    <3>1. socket' = socket
      BY <1>7 DEF sendSnac
    <3> QED
      BY <2>1, <2>2, <3>1, LastWritten
  <2>4. Got(socket)' = Got(socket) /\ flap' = flap /\ socket' = socket /\ eof' = eof
        /\ pc'["net"] = IF flap.kind = "snac" THEN "handle" ELSE "idle"
    BY <1>7, <2>1 DEF sendSnac, Got, TypeOK
  <2>5. \/ Got(socket) = 2 /\ flap.kind = "ready"
        \/ Got(socket) > 2 /\ flap.kind = "snac"
    BY <1>7, <2>1 DEF sendSnac, Numbering
  <2> HIDE DEF n
  <2> QED
    BY <2>2, <2>3, <2>4, <2>5 DEF Numbering
<1>8. ASSUME ~connected' PROVE Numbering'
  BY <1>8 DEF Numbering
<1>9. ASSUME incomingFlapCloseConnection \/ connectToBos \/ bosUnreachable PROVE Numbering'
  BY <1>8, <1>9 DEF incomingFlapCloseConnection, connectToBos, bosUnreachable
<1>10. ASSUME loginSendCookie PROVE Numbering'
  <2>1. CASE Greeted /\ Answer("cookie") /\ pc' = [pc EXCEPT !["net"] = "idle"]
    BY <1>10, <2>1, AnswerNumbers DEF loginSendCookie, Ends, TypeOK
  <2>2. CASE connected' = connected
    BY <1>8, <1>10, <2>2 DEF loginSendCookie
  <2> QED
    BY <1>10, <2>1, <2>2 DEF loginSendCookie
<1>11. ASSUME cmdCONNECT \/ cmdDISCONNECT PROVE Numbering'
  BY <1>8, <1>11 DEF cmdCONNECT, cmdDISCONNECT
<1>12. ASSUME connectFailed PROVE Numbering'
  BY <1>8, <1>12 DEF connectFailed
<1>13. ASSUME cmdQUIT PROVE Numbering'
  BY <1>13, SameNumbering DEF cmdQUIT
<1>14. ASSUME NEW t \in Thread, SignInConnects(t) PROVE Numbering'
  BY <1>8, <1>14 DEF SignInConnects
<1>15. ASSUME NEW t \in Thread, LoginA(t) PROVE Numbering'
  <2>1. CASE Greeted /\ Answer("login")
    <3>1. pc'["net"] = "idle" /\ served' = served /\ socket' = socket /\ eof' = eof
      BY <1>15 DEF LoginA, TypeOK
    <3> QED
      BY <1>15, <2>1, <3>1, AnswerNumbers DEF LoginA, Ends
  <2>2. CASE connected' = connected
    BY <1>8, <1>15, <2>2 DEF LoginA
  <2> QED
    BY <1>15, <2>1, <2>2 DEF LoginA
<1>16. ASSUME NEW t \in Dc, networkReconnect(t) \/ retryAfterSleep(t) \/ retryFailed(t) PROVE Numbering'
  BY <1>8, <1>16 DEF networkReconnect, retryAfterSleep, retryFailed
<1>17. ASSUME NEW c \in Conn, ServerSends(c) PROVE Numbering'
  <2> SUFFICES ASSUME socket \notin eof', connected PROVE Numbering'
    BY <1>17 DEF ServerSends, Numbering
  <2>1. UNCHANGED <<socket, sent, seqnum, flap, lseq, pc, LastSeq>> /\ eof \subseteq eof' /\ socket \in Conn
    BY <1>17 DEF ServerSends, LastSeq, AnsweredConnection, TypeOK
  <2>2. Got(socket)' = Got(socket)
    <3>1. CASE c = socket
      <4>1. PICK k \in {"ready", "snac"} : Push(c, k)
        BY <1>17, <3>1 DEF ServerSends
      <4>2. inbox[c] \in Seq(Flap) /\ Len(inbox[c]) \in Nat /\ served[c] \in Nat
        BY DEF TypeOK
      <4> DEFINE f == [kind |-> k, seq |-> ServerSeq(c)]
      <4>3. inbox'[c] = Append(inbox[c], f) /\ served'[c] = served[c] + 1
        BY <4>1 DEF Push, TypeOK
      <4>4. f \in Flap
        <5>1. HelloSeq + served[c] \in Nat
          BY <4>2, SeqAssumption
        <5> QED
          BY <5>1, ModW DEF ServerSeq, Flap
      <4> HIDE DEF f
      <4>5. Len(inbox'[c]) = Len(inbox[c]) + 1
        BY <4>2, <4>3, <4>4, AppendProperties
      <4> QED
        BY <2>1, <3>1, <4>2, <4>3, <4>5 DEF Got
    <3>2. CASE c # socket
      BY <1>17, <2>1, <3>2 DEF ServerSends, Push, Got, TypeOK
    <3> QED
      BY <3>1, <3>2
  <2> QED
    BY <2>1, <2>2 DEF Numbering
<1>18. ASSUME NEW c \in Conn, ServerCloses(c) PROVE Numbering'
  BY <1>18, SameNumbering DEF ServerCloses
<1>19. CASE UNCHANGED vars
  BY <1>19, SameNumbering DEF vars
<1> QED
  BY <1>1, <1>2, <1>3, <1>4, <1>5, <1>6, <1>7, <1>9, <1>10, <1>11, <1>12, <1>13,
     <1>14, <1>15, <1>16, <1>17, <1>18, <1>19
     DEF Next, Net, Ctl, Cycle, Reconnecting, Server
LEMMA SameFlag ==
  ASSUME FlagTells, UNCHANGED <<connected, loggedIn, socket, peer>>,
         \A t \in Thread : Signing(t)' => Signing(t)
  PROVE  FlagTells'
  BY DEF FlagTells

LEMMA FlagStep ==
  ASSUME TypeInv, Calm, Turns, Line, FlagTells, ~Relogin, [Next]_vars PROVE FlagTells'
<1> USE ThreadAssumption
    DEF TypeInv, Calm, Turns, Places, OneAtATime, NetInSession, Signing, Thread,
        Goto, globals, conns, Line, Ends, AnsweredConnection, Unanswered, FlagTells
<1>1. ASSUME networkThread \/ readHeader \/ readBody \/ serverIsReady \/ handled PROVE FlagTells'
  BY <1>1 DEF networkThread, readHeader, readBody, serverIsReady, handled, TypeOK
<1>2. ASSUME NEW t \in {"net", "ctl", "cycle"}, Sends(t) \/ sendSnac(t) PROVE FlagTells'
  <2>1. UNCHANGED <<connected, loggedIn, socket, peer>>
    BY <1>2 DEF Sends, sendSnac
  <2>2. \A s \in Thread : Signing(s)' => Signing(s)
    BY <1>2 DEF Sends, sendSnac, TypeOK
  <2> QED
    BY <2>1, <2>2, SameFlag
<1>3. ASSUME incomingFlapCloseConnection \/ connectToBos \/ bosUnreachable PROVE FlagTells'
  BY <1>3 DEF incomingFlapCloseConnection, connectToBos, bosUnreachable, TypeOK
<1>4. ASSUME loginSendCookie PROVE FlagTells'
  <2>1. /\ peer' = peer /\ socket' = socket /\ peer[socket] = "bos"
        /\ \A t \in Thread : ~Signing(t)
    BY <1>4 DEF loginSendCookie
  <2>2. \A t \in Thread : ~Signing(t)'
    BY <1>4, <2>1 DEF loginSendCookie, TypeOK
  <2>3. connected' => loggedIn' = TRUE
    BY <1>4 DEF loginSendCookie
  <2> QED
    BY <2>1, <2>2, <2>3
<1>5. ASSUME cmdCONNECT \/ connectFailed \/ cmdDISCONNECT \/ cmdQUIT PROVE FlagTells'
  BY <1>5 DEF cmdCONNECT, connectFailed, cmdDISCONNECT, cmdQUIT, TypeOK
<1>6. ASSUME NEW t \in Thread, SignInConnects(t) \/ LoginA(t) PROVE FlagTells'
  BY <1>6 DEF SignInConnects, LoginA, TypeOK
<1>7. ASSUME NEW t \in Dc, networkReconnect(t) PROVE FlagTells'
  BY <1>7 DEF networkReconnect, TypeOK
<1>8. ASSUME NEW t \in Dc, retryAfterSleep(t) \/ retryFailed(t) PROVE FlagTells'
  <2>0. pc[t] \in {"wait", "connect", "hello"} /\ connected' = connected /\ loggedIn' = loggedIn
    BY <1>8 DEF retryAfterSleep, retryFailed
  <2>1. ~connected' /\ loggedIn' = loggedIn /\ ~loggedIn
    BY <2>0
  <2> QED
    BY <2>1
<1>9. ASSUME NEW c \in Conn, ServerSends(c) \/ ServerCloses(c) PROVE FlagTells'
  BY <1>9 DEF ServerSends, ServerCloses, TypeOK
<1>10. CASE UNCHANGED vars
  BY <1>10 DEF vars
<1> QED
  BY <1>1, <1>2, <1>3, <1>4, <1>5, <1>6, <1>7, <1>8, <1>9, <1>10
     DEF Next, Net, Ctl, Cycle, Reconnecting, Server

-----------------------------------------------------------------------------
\* The inductive invariant.

LEMMA InitIInv == Init /\ Calm => IInv
<1> SUFFICES ASSUME Init, Calm PROVE IInv
  OBVIOUS
<1>1. TypeInv
  BY TypeInit
<1>2. Places /\ OneAtATime /\ NetInSession /\ Ends /\ FlagTells
  BY ThreadAssumption
     DEF Init, Places, OneAtATime, Signing, NetInSession, Ends, Unanswered, FlagTells, Thread
<1>3. AnsweredConnection /\ CookieGoesToBos /\ SeqConsecutive
  BY DEF Init, AnsweredConnection, CookieGoesToBos, SeqConsecutive
<1>4. InOrder /\ Numbering
  BY DEF Init, InOrder, Numbering
<1> QED
  BY <1>1, <1>2, <1>3, <1>4 DEF IInv

LEMMA NextIInv == IInv /\ [Next]_vars => IInv'
<1> SUFFICES ASSUME IInv, [Next]_vars PROVE IInv'
  OBVIOUS
<1>1. TypeInv /\ Calm /\ Turns /\ Line /\ InOrder /\ Numbering /\ (Relogin \/ FlagTells)
  BY DEF IInv, Turns, Line, Wire
<1>2. TypeInv' /\ Calm'
  BY <1>1, TypeStep DEF Calm
<1>3. Turns' /\ Line'
  BY <1>1, TurnsStep, LineStep
<1>4. InOrder' /\ Numbering'
  BY <1>1, InOrderStep, NumberingStep DEF Line
<1>5. (Relogin \/ FlagTells)'
  BY <1>1, FlagStep
<1> QED
  BY <1>2, <1>3, <1>4, <1>5 DEF IInv, Turns, Line, Wire

LEMMA Invariant == Spec /\ Calm => []IInv
  BY InitIInv, NextIInv, PTL DEF Spec

-----------------------------------------------------------------------------
\* The password goes to an authorization server and the cookie to a BOS server,
\* each as the first FLAP of its connection (YSM_Init_LoginA, loginSendCookie).
THEOREM SecretsStay == Spec /\ Calm => []CookieGoesToBos
<1>1. IInv => CookieGoesToBos
  BY DEF IInv
<1> QED
  BY <1>1, Invariant, PTL

\* The FLAPs of a connection are numbered one after the other modulo W, from the
\* answer to the greeting over SERVER_IS_READY's own number to g_sinfo.seqnum.
THEOREM OneAfterAnother == Spec /\ Calm => []SeqConsecutive
<1>1. IInv => SeqConsecutive
  BY DEF IInv
<1> QED
  BY <1>1, Invariant, PTL

\* g_state.connected is set only while the socket is open and the server at its
\* end has been answered or has hung up.
THEOREM KnownServer == Spec /\ Calm => []AnsweredConnection
<1>1. IInv => AnsweredConnection
  BY DEF IInv
<1> QED
  BY <1>1, Invariant, PTL

-----------------------------------------------------------------------------
\* The refinement: each step of the threads is a step of the login or none.

TalksTo == IF Phase \in {"auth", "online"} THEN peer[socket] ELSE "none"

LEMMA LoginStep ==
  ASSUME IInv, ~Relogin, [Next]_vars PROVE L!Next \/ UNCHANGED <<Phase, TalksTo>>
<1> USE ThreadAssumption
    DEF IInv, TypeInv, Calm, Turns, Places, OneAtATime, NetInSession, Signing, Thread,
        Goto, globals, conns, Ends, AnsweredConnection, Unanswered, FlagTells,
        Phase, TalksTo, L!Next
<1> DEFINE Same == UNCHANGED <<Phase, TalksTo>>
<1>1. ASSUME networkThread \/ readHeader \/ readBody \/ serverIsReady \/ handled PROVE Same
  BY <1>1 DEF networkThread, readHeader, readBody, serverIsReady, handled, TypeOK
<1>2. ASSUME NEW t \in {"net", "ctl", "cycle"}, Sends(t) \/ sendSnac(t) PROVE Same
  <2>1. UNCHANGED <<connected, loggedIn, socket, peer, proc>>
    BY <1>2 DEF Sends, sendSnac
  <2>2. t = "net" /\ pc["net"] \in {"handle", "put"} /\ pc'["net"] \in {"put", "handle", "idle"}
    BY <1>2 DEF Sends, sendSnac, TypeOK
  <2> QED
    BY <2>1, <2>2
<1>3. ASSUME incomingFlapCloseConnection, proc = "running" PROVE L!Next
  BY <1>3 DEF incomingFlapCloseConnection, TypeOK, L!Redirect, L!Drop
<1>4. ASSUME connectToBos, proc = "running" PROVE Same
  BY <1>4 DEF connectToBos, TypeOK
<1>5. ASSUME bosUnreachable, proc = "running" PROVE L!Next
  BY <1>5 DEF bosUnreachable, L!Exit
<1>6. ASSUME loginSendCookie, proc = "running" PROVE L!Next
  BY <1>6 DEF loginSendCookie, TypeOK, L!Welcome, L!Exit
<1>7. ASSUME cmdCONNECT \/ connectFailed PROVE Same
  BY <1>7 DEF cmdCONNECT, connectFailed, TypeOK
<1>8. ASSUME cmdDISCONNECT, proc = "running" PROVE L!Next \/ Same
  BY <1>8 DEF cmdDISCONNECT, Undisturbed, TypeOK, L!Drop
<1>9. ASSUME cmdQUIT, proc = "running" PROVE L!Next
  BY <1>9 DEF cmdQUIT, L!Exit
<1>10. ASSUME NEW t \in Thread, SignInConnects(t) PROVE Same
  BY <1>10 DEF SignInConnects, TypeOK
<1>11. ASSUME NEW t \in Thread, LoginA(t), proc = "running" PROVE L!Next \/ Same
  BY <1>11 DEF LoginA, TypeOK, L!SignIn
<1>12. ASSUME NEW t \in Dc, networkReconnect(t), proc = "running" PROVE L!Next \/ Same
  BY <1>12 DEF networkReconnect, Undisturbed, TypeOK, L!Drop
<1>13. ASSUME NEW t \in Dc, retryAfterSleep(t) PROVE Same
  BY <1>13 DEF retryAfterSleep, TypeOK
<1>14. ASSUME NEW t \in Dc, retryFailed(t), proc = "running" PROVE L!Next \/ Same
  BY <1>14 DEF retryFailed, TypeOK, L!Exit
<1>15. ASSUME NEW c \in Conn, ServerSends(c) \/ ServerCloses(c) PROVE Same
  BY <1>15 DEF ServerSends, ServerCloses
<1>16. CASE UNCHANGED vars
  BY <1>16 DEF vars
<1> QED
  BY <1>1, <1>2, <1>3, <1>4, <1>5, <1>6, <1>7, <1>8, <1>9, <1>10, <1>11, <1>12, <1>13,
     <1>14, <1>15, <1>16
     DEF Next, Net, Ctl, Cycle, Reconnecting, Server

\* Unless the user connects again with FL_LOGGEDIN left set, the session is a
\* login: over the authorization server to the BOS server, online only there.
THEOREM ImplementsLogin == Spec /\ Calm /\ ~Relogin => IsLogin
<1> SUFFICES ASSUME ~Relogin PROVE Spec /\ Calm => IsLogin
  OBVIOUS
<1>1. Init => L!Init
  BY ThreadAssumption DEF Init, Phase, Thread, L!Init
<1>2. IInv /\ [Next]_vars => [L!Next]_<<Phase, TalksTo>>
  BY LoginStep
<1> QED
  BY <1>1, <1>2, Invariant, PTL DEF Spec, IsLogin, L!Spec, TalksTo
=============================================================================
