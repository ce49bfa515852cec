---------------------------- MODULE Direct_proofs ----------------------------
(***************************************************************************)
(* The daemon's side of a direct connection keeps the handshake, closes     *)
(* what it holds and touches nothing of others, for any contacts,           *)
(* descriptors, connections and drops of the server, as long as the         *)
(* environment stays away from the faults that the runs show to break it.   *)
(***************************************************************************)
EXTENDS Direct, SequenceTheorems, WellFoundedInduction, TLAPS

\* The faults under which the theorems hold: a cut packet only stalls the
\* cycle thread.
Tame == Faults \subseteq {"CUT"}

-----------------------------------------------------------------------------
\* What is in the variables.

Answers == [kind : {"ACK", "INIT", "INIT2"}]
Spoken == UNION {{Arrives[text][m1] : m1 \in Draws(text)} : text \in Texts}
Sent == [kind : {"INIT", "ACK", "INIT2", "SHORT", "MSG", "BAD", "CUT"}]
Ends == [slave : Slave, open : BOOLEAN, out : Seq(Sent),
         got : Seq(Answers \cup Spoken), stage : 0..3]
Fresh == {{}, {"EXPECTDATA", "INCOMINGNEG", "EXPECTNEG"}, {"EXPECTDATA", "INCOMINGNEG", "CONNECTED"}}

TypeInv ==
  /\ table \in [Fd -> Int]
  /\ d_con \in [Slave -> [rSocket : Int, flags : Fresh]]
  /\ peer \in Seq(Ends) /\ Len(peer) <= MaxConns
  /\ backlog \in Seq(1..MaxConns)
  /\ dc \in [at : {"idle", "first", "B", "A"}, sock : Int, slave : Slave \cup {NoSlave}]
  /\ cycle \in [at : {"look", "read", "respond", "connected", "close", "reset"},
                sock : Int, slave : Slave \cup {NoSlave}, buf : Sent]
  /\ prompt \in [at : {"idle", "reset"}, slave : Slave \cup {NoSlave}]

-----------------------------------------------------------------------------
\* The connections and whose they are.

Of(c) == peer[c].slave
Mine(f, s) == IsConn(f) /\ Of(table[f]) = s
Open(s) == d_con[s].flags # {}
Closing(s) == \/ cycle.at = "reset" /\ cycle.slave = s
              \/ prompt.at = "reset" /\ prompt.slave = s
At(f) == dc.at = "first" /\ dc.sock = f

\* A contact has one connection, waiting or held.
OneEach ==
  /\ \A f \in Fd : IsConn(f) => table[f] \in 1..Len(peer)
  /\ \A i \in 1..Len(backlog) : backlog[i] \in 1..Len(peer)
  /\ \A f, g \in Fd : IsConn(f) /\ IsConn(g) /\ Of(table[f]) = Of(table[g]) => f = g
  /\ \A i, j \in 1..Len(backlog) : Of(backlog[i]) = Of(backlog[j]) => i = j
  /\ \A i \in 1..Len(backlog) : ~Open(Of(backlog[i])) /\ \A f \in Fd : ~Mine(f, Of(backlog[i]))

\* A session's connection is its own until YSM_CloseDC has closed it, and a
\* connection that is nobody's session is in the hands of dcThread.
Sessions ==
  /\ \A s \in Slave : Open(s) /\ ~Closing(s) => Mine(d_con[s].rSocket, s)
  /\ \A s \in Slave : Closing(s) => Open(s) /\ \A f \in Fd : ~Mine(f, s)
  /\ \A f \in Fd : IsConn(f) => \/ At(f) /\ ~Open(Of(table[f]))
                                \/ ~At(f) /\ Open(Of(table[f])) /\ d_con[Of(table[f])].rSocket = f

\* What the threads have in hand.
Threads ==
  /\ dc.at = "idle" => dc = Idle
  /\ dc.at = "first" => IsConn(dc.sock) /\ dc.slave = NoSlave
  /\ dc.at \in {"B", "A"} => /\ dc.slave \in Slave
                             /\ \A f \in Fd : IsConn(f) /\ d_con[dc.slave].rSocket = f => Mine(f, dc.slave)
  /\ cycle.at = "look" => cycle.slave = NoSlave
  /\ cycle.at # "look" => cycle.slave \in Slave /\ Open(cycle.slave)
  /\ cycle.at \in {"read", "respond", "connected", "close"} =>
       /\ d_con[cycle.slave].rSocket = cycle.sock \/ cycle.at = "close"
       /\ ~(prompt.at = "reset" /\ prompt.slave = cycle.slave)
  /\ cycle.at = "reset" => ~(prompt.at = "reset" /\ prompt.slave = cycle.slave)
  /\ prompt.at = "idle" => prompt.slave = NoSlave
  /\ prompt.at = "reset" => prompt.slave \in Slave

\* How far the handshake is: what a client that is still there has got.
Written(f) ==
  LET s == Of(table[f])
      n == Len(peer[table[f]].got)
      early == dc.slave = s /\ dc.at \in {"B", "A"}
      ends == cycle.at = "connected" /\ cycle.slave = s
  IN /\ ~Open(s) => n = 0
     /\ Open(s) /\ early => /\ n = (IF dc.at = "B" THEN 0 ELSE 1)
                            /\ "CONNECTED" \notin d_con[s].flags /\ ~ends
     /\ Open(s) /\ ~early => IF "CONNECTED" \in d_con[s].flags THEN n >= 3
                             ELSE IF ends THEN n = 3 ELSE n = 2

Turns ==
  /\ \A i \in 1..Len(backlog) : Len(peer[backlog[i]].got) = 0
  /\ \A f \in Fd : IsConn(f) /\ peer[table[f]].open => Written(f)
  /\ \A f \in Fd : IsConn(f) /\ Open(Of(table[f])) =>
       /\ peer[table[f]].stage # 0
       /\ \A i \in 1..Len(peer[table[f]].out) : peer[table[f]].out[i].kind # "INIT"

\* The client's turns: its second packets answer what it has got.
Client(c) ==
  /\ peer[c].stage = 0 => Len(peer[c].out) = 0
  /\ peer[c].stage = 2 => Len(peer[c].got) >= 2
  /\ \A i \in 1..Len(peer[c].out) :
       /\ peer[c].out[i].kind = "INIT" => i = 1
       /\ peer[c].out[i].kind = "INIT2" => Len(peer[c].got) >= 2
Clients ==
  /\ \A c \in 1..Len(peer) : Client(c)
  /\ cycle.at = "respond" =>
       /\ cycle.buf.kind \notin {"INIT", "CUT"}
       /\ cycle.buf.kind = "INIT2" => Len(peer[table[cycle.sock]].got) >= 2

IInv == TypeInv /\ OneEach /\ Sessions /\ Threads /\ Turns /\ Clients /\ PeerFollows /\ OwnClosed

-----------------------------------------------------------------------------
\* Numbers and sequences.

\* A set of numbers that is not empty has a least one.
LEMMA Least ==
  ASSUME NEW T, T \subseteq Nat, T # {}
  PROVE  \E n \in T : \A m \in T : n <= m
<1> DEFINE R == {ss \in Nat \X Nat : ss[1] < ss[2]}
<1>1. IsWellFoundedOn(R, Nat)
  BY NatLessThanWellFounded DEF OpToRel
<1>2. PICK n \in T : \A m \in T : ~(<<m, n>> \in R)
  <2> HIDE DEF R
  <2> QED
    BY <1>1, WFMin
<1>3. ASSUME NEW m \in T, m < n
      PROVE  FALSE
  <2> DEFINE p == <<m, n>>
  <2>1. p \in Nat \X Nat /\ p[1] < p[2]
    BY <1>3
  <2>2. p \in R
    BY <2>1
  <2> QED
    BY <2>2, <1>2
<1> QED
  BY <1>3

\* The kernel gives out a number that is free.
LEMMA LowestIsFree ==
  ASSUME Free # {}
  PROVE  Lowest \in Free
<1>1. Free \subseteq Nat
  BY BoundsAssumption DEF Free, Fd
<1>2. \E f \in Free : \A g \in Free : f <= g
  BY <1>1, Least
<1> QED
  BY <1>2 DEF Lowest

\* Taking the first packet of what has come.
LEMMA Taken ==
  ASSUME NEW S, NEW q \in Seq(S), q # <<>>
  PROVE  /\ Len(q) \in Nat \ {0} /\ Head(q) = q[1] /\ Head(q) \in S
         /\ Tail(q) \in Seq(S) /\ Len(Tail(q)) = Len(q) - 1
         /\ \A i \in 1..Len(q)-1 : Tail(q)[i] = q[i+1]
  BY HeadTailProperties, EmptySeq, LenProperties

\* Writing one packet after what is there, or two.
LEMMA Put1 ==
  ASSUME NEW S, NEW q \in Seq(S), NEW x \in S
  PROVE  /\ q \o <<x>> \in Seq(S) /\ Len(q \o <<x>>) = Len(q) + 1
         /\ \A i \in 1..Len(q) : (q \o <<x>>)[i] = q[i]
         /\ (q \o <<x>>)[Len(q) + 1] = x
  OBVIOUS

LEMMA Put2 ==
  ASSUME NEW S, NEW q \in Seq(S), NEW x \in S, NEW y \in S
  PROVE  /\ q \o <<x, y>> \in Seq(S) /\ Len(q \o <<x, y>>) = Len(q) + 2
         /\ \A i \in 1..Len(q) : (q \o <<x, y>>)[i] = q[i]
         /\ (q \o <<x, y>>)[Len(q) + 1] = x
         /\ (q \o <<x, y>>)[Len(q) + 2] = y
  OBVIOUS

\* One connection's other end changes and keeps its contact.
LEMMA OneChanges ==
  ASSUME NEW c \in 1..Len(peer), NEW e \in Ends, peer \in Seq(Ends), e.slave = peer[c].slave,
         peer' = [peer EXCEPT ![c] = e]
  PROVE  /\ peer' \in Seq(Ends) /\ Len(peer') = Len(peer) /\ peer'[c] = e
         /\ \A b \in 1..Len(peer) : b # c => peer'[b] = peer[b]
         /\ \A b \in 1..Len(peer) : peer'[b].slave = peer[b].slave
         /\ DOMAIN peer' = 1..Len(peer) /\ DOMAIN peer = 1..Len(peer)
  BY ExceptSeq
-----------------------------------------------------------------------------
\* What does not take part in a step stays as it is.

USE ContactsAssumption, BoundsAssumption DEF IsConn, Of, Mine, Open, Closing, At

LEMMA AnEnd ==
  ASSUME TypeInv, NEW c \in 1..Len(peer)
  PROVE  /\ peer[c] \in Ends /\ peer[c].slave \in Slave /\ c \in DOMAIN peer
         /\ peer[c].got \in Seq(Answers \cup Spoken) /\ Len(peer[c].got) \in Nat
         /\ peer[c].out \in Seq(Sent) /\ Len(peer[c].out) \in Nat
<1>1. peer[c] \in Ends /\ c \in DOMAIN peer
  BY LenProperties DEF TypeInv
<1> QED
  BY <1>1, LenProperties DEF Ends

LEMMA OneEachStays ==
  ASSUME OneEach, UNCHANGED backlog,
         \A b \in 1..Len(peer) : b \in 1..Len(peer') /\ peer'[b].slave = peer[b].slave,
         \A f \in Fd : table'[f] \in 1..MaxConns => table'[f] = table[f],
         \A s : d_con'[s].flags # {} => d_con[s].flags # {}
  PROVE  OneEach'
<1>1. \A f \in Fd : table'[f] \in 1..MaxConns =>
        table'[f] \in 1..Len(peer) /\ table[f] \in 1..MaxConns /\ peer'[table'[f]].slave = peer[table[f]].slave
  BY DEF OneEach
<1>2. \A i \in 1..Len(backlog) :
        backlog[i] \in 1..Len(peer) /\ peer'[backlog[i]].slave = peer[backlog[i]].slave
  BY DEF OneEach
<1>3. ASSUME NEW f \in Fd, NEW g \in Fd, table'[f] \in 1..MaxConns, table'[g] \in 1..MaxConns,
             peer'[table'[f]].slave = peer'[table'[g]].slave
      PROVE  f = g
  <2>1. peer[table[f]].slave = peer[table[g]].slave
    BY <1>1, <1>3
  <2>2. table[f] \in 1..MaxConns /\ table[g] \in 1..MaxConns
    BY <1>1, <1>3
  <2> QED
    BY <2>1, <2>2 DEF OneEach
<1>4. \A i, j \in 1..Len(backlog) : peer'[backlog[i]].slave = peer'[backlog[j]].slave => i = j
  BY <1>2 DEF OneEach
<1>5. ASSUME NEW i \in 1..Len(backlog)
      PROVE  d_con'[peer'[backlog[i]].slave].flags = {}
  BY <1>2 DEF OneEach
<1>6. ASSUME NEW i \in 1..Len(backlog), NEW f \in Fd, table'[f] \in 1..MaxConns,
             peer'[table'[f]].slave = peer'[backlog[i]].slave
      PROVE  FALSE
  <2>1. table[f] \in 1..MaxConns /\ peer[table[f]].slave = peer[backlog[i]].slave
    BY <1>1, <1>2, <1>6
  <2> QED
    BY <2>1 DEF OneEach
<1> QED
  BY <1>1, <1>2, <1>3, <1>4, <1>5, <1>6 DEF OneEach

LEMMA TurnsStay ==
  ASSUME OneEach, Turns, UNCHANGED backlog,
         \A b \in 1..Len(peer) : /\ peer'[b].slave = peer[b].slave
                                 /\ peer'[b].open => peer[b].open,
         \A f \in Fd : table'[f] \in 1..MaxConns => table'[f] = table[f],
         \A i \in 1..Len(backlog) : peer'[backlog[i]].got = peer[backlog[i]].got,
         \A f \in Fd : table'[f] \in 1..MaxConns /\ peer'[table[f]].open => (Written(f) => Written(f)'),
         \A f \in Fd : table'[f] \in 1..MaxConns /\ d_con'[peer[table[f]].slave].flags # {} =>
            /\ peer'[table[f]].stage # 0
            /\ \A i \in 1..Len(peer'[table[f]].out) : peer'[table[f]].out[i].kind # "INIT"
  PROVE  Turns'
<1>1. \A f \in Fd : table'[f] \in 1..MaxConns =>
        table'[f] \in 1..Len(peer) /\ table[f] \in 1..MaxConns /\ table'[f] = table[f]
  BY DEF OneEach
<1>2. \A i \in 1..Len(backlog) : Len(peer'[backlog[i]].got) = 0
  BY DEF Turns
<1>3. ASSUME NEW f \in Fd, table'[f] \in 1..MaxConns, peer'[table[f]].open
      PROVE  Written(f)'
  BY <1>1, <1>3 DEF Turns
<1>4. ASSUME NEW f \in Fd, table'[f] \in 1..MaxConns, d_con'[peer'[table'[f]].slave].flags # {}
      PROVE  /\ peer'[table'[f]].stage # 0
             /\ \A i \in 1..Len(peer'[table'[f]].out) : peer'[table'[f]].out[i].kind # "INIT"
  BY <1>1, <1>4
<1>5. \A f \in Fd : table'[f] \in 1..MaxConns /\ peer'[table'[f]].open => Written(f)'
  BY <1>1, <1>3
<1> QED
  BY <1>2, <1>4, <1>5 DEF Turns
-----------------------------------------------------------------------------
\* What the environment does.

\* What the cycle thread works on is the connection of the contact it works for.
LEMMA Holding ==
  ASSUME IInv, cycle.at \in {"read", "respond", "connected", "close"}
  PROVE  /\ cycle.slave \in Slave /\ Open(cycle.slave) /\ ~Closing(cycle.slave)
         /\ Mine(d_con[cycle.slave].rSocket, cycle.slave)
         /\ cycle.at # "close" => d_con[cycle.slave].rSocket = cycle.sock
  BY DEF IInv, Sessions, Threads

LEMMA DropsKeeps == IInv /\ Drops => IInv'
<1> SUFFICES ASSUME IInv, Drops PROVE IInv'
  OBVIOUS
<1> USE DEF IInv, Drops
<1>1. \A f \in Fd : table'[f] \in Int /\ (table[f] \in 1..MaxConns => table'[f] = table[f])
                    /\ (table'[f] \in 1..MaxConns => table'[f] = table[f])
  BY DEF TypeInv, ToServer, Unused
<1>3. TypeInv'
  BY DEF TypeInv, Unused
<1>4. OneEach'
  BY <1>1, OneEachStays
<1>5. Sessions'
  BY <1>1 DEF Sessions
<1>6. Threads'
  BY <1>1 DEF Threads, Idle
<1>7. Turns'
  <2>1. ASSUME NEW f \in Fd, table'[f] \in 1..MaxConns, peer[table'[f]].open
        PROVE  Written(f)'
    <3>1. Written(f) /\ table'[f] = table[f]
      BY <1>1, <2>1 DEF Turns
    <3>2. UNCHANGED <<d_con, peer, backlog, dc, cycle>>
      OBVIOUS
    <3> HIDE DEF Drops
    <3> QED
      BY <3>1, <3>2 DEF Written
  <2> QED
    BY <1>1, <2>1 DEF Turns
<1>8. Clients'
  BY <1>1, Holding DEF Clients, Client
<1> QED
  BY <1>3, <1>4, <1>5, <1>6, <1>7, <1>8 DEF PeerFollows, OwnClosed

LEMMA ReconnectsKeeps == IInv /\ Reconnects => IInv'
<1> SUFFICES ASSUME IInv, Reconnects PROVE IInv'
  OBVIOUS
<1> USE DEF IInv
<1>1. /\ table' = [table EXCEPT ![Lowest] = ToServer] /\ Lowest \in Fd /\ table[Lowest] = 0
      /\ UNCHANGED <<d_con, peer, backlog, dc, cycle, prompt, foreign>>
  BY LowestIsFree DEF Reconnects, Free, Unused
<1>2. \A f \in Fd : table'[f] \in Int /\ (table[f] \in 1..MaxConns => table'[f] = table[f])
                    /\ (table'[f] \in 1..MaxConns => table'[f] = table[f])
  BY <1>1 DEF TypeInv, ToServer
<1>3. TypeInv'
  BY <1>1, <1>2 DEF TypeInv
<1>4. OneEach'
  BY <1>1, <1>2, OneEachStays
<1>5. Sessions'
  BY <1>1, <1>2 DEF Sessions
<1>6. Threads'
  BY <1>1, <1>2 DEF Threads, Idle
<1>7. Turns'
  <2>1. ASSUME NEW f \in Fd, table'[f] \in 1..MaxConns, peer[table'[f]].open
        PROVE  Written(f)'
    <3>1. Written(f) /\ table'[f] = table[f]
      BY <1>2, <2>1 DEF Turns
    <3> QED
      BY <3>1, <1>1 DEF Written
  <2>2. \A f \in Fd : table'[f] \in 1..MaxConns /\ d_con'[peer[table[f]].slave].flags # {} =>
            /\ peer'[table[f]].stage # 0
            /\ \A i \in 1..Len(peer'[table[f]].out) : peer'[table[f]].out[i].kind # "INIT"
    BY <1>1, <1>2 DEF Turns
  <2> QED
    BY <1>1, <1>2, <2>1, <2>2, TurnsStay
<1>8. Clients'
  BY <1>1, <1>2, Holding DEF Clients, Client
<1> QED
  BY <1>1, <1>3, <1>4, <1>5, <1>6, <1>7, <1>8 DEF PeerFollows, OwnClosed

\* A client's packets and its leaving change what will be read, not what it got.
LEMMA ClientsTurn ==
  ASSUME IInv, NEW c \in DOMAIN peer, NEW e \in Ends, peer' = [peer EXCEPT ![c] = e],
         e.slave = peer[c].slave, e.open => peer[c].open, e.got = peer[c].got,
         UNCHANGED <<table, d_con, backlog, dc, cycle, prompt, foreign>>,
         Client(c)',
         \A f \in Fd : table[f] = c /\ Open(Of(c)) =>
            e.stage # 0 /\ \A i \in 1..Len(e.out) : e.out[i].kind # "INIT"
  PROVE  IInv'
<1> USE DEF IInv
<1>1. /\ peer' \in Seq(Ends) /\ Len(peer') = Len(peer) /\ peer'[c] = e
      /\ DOMAIN peer = 1..Len(peer) /\ DOMAIN peer' = 1..Len(peer)
      /\ \A b \in 1..Len(peer) : b # c => peer'[b] = peer[b]
      /\ \A b \in 1..Len(peer) : peer'[b].slave = peer[b].slave
  BY OneChanges DEF TypeInv
<1>2. \A b \in 1..Len(peer) : peer'[b].got = peer[b].got /\ (peer'[b].open => peer[b].open)
  BY <1>1
<1>3. TypeInv'
  BY <1>1 DEF TypeInv
<1>4. OneEach'
  BY <1>1, OneEachStays
<1>5. Sessions'
  BY <1>1 DEF Sessions, OneEach
<1>6. Threads'
  BY <1>1 DEF Threads, Idle, OneEach
<1>7. Turns'
  <2>1. ASSUME NEW f \in Fd, table[f] \in 1..MaxConns, peer'[table[f]].open
        PROVE  Written(f)'
    <3>1. Written(f) /\ table[f] \in 1..Len(peer)
      BY <1>2, <2>1 DEF Turns, OneEach
    <3> QED
      BY <3>1, <1>1, <1>2 DEF Written
  <2>2. \A i \in 1..Len(backlog) : Len(peer'[backlog[i]].got) = 0
    BY <1>2 DEF Turns, OneEach
  <2>3. ASSUME NEW f \in Fd, table[f] \in 1..MaxConns, Open(peer'[table[f]].slave)
        PROVE  /\ peer'[table[f]].stage # 0
               /\ \A i \in 1..Len(peer'[table[f]].out) : peer'[table[f]].out[i].kind # "INIT"
    BY <2>3, <1>1 DEF Turns, OneEach
  <2> QED
    BY <2>1, <2>2, <2>3 DEF Turns
<1>8. Clients'
  BY <1>1, <1>2, Holding DEF Clients, Client, OneEach
<1>9. PeerFollows'
  BY <1>1, <1>2 DEF PeerFollows
<1> QED
  BY <1>3, <1>4, <1>5, <1>6, <1>7, <1>8, <1>9 DEF OwnClosed

LEMMA PeerClosesKeeps == ASSUME IInv, NEW c \in DOMAIN peer, PeerCloses(c) PROVE IInv'
<1> DEFINE e == [peer[c] EXCEPT !.open = FALSE]
<1>1. /\ peer \in Seq(Ends) /\ DOMAIN peer = 1..Len(peer) /\ peer[c] \in Ends
  BY LenProperties DEF IInv, TypeInv
<1>2. /\ e \in Ends /\ e.slave = peer[c].slave /\ ~e.open /\ e.got = peer[c].got
      /\ e.out = peer[c].out /\ e.stage = peer[c].stage
  BY <1>1 DEF Ends
<1>3. /\ peer' = [peer EXCEPT ![c] = e] /\ UNCHANGED <<table, d_con, backlog, dc, cycle, prompt, foreign>>
  BY DEF PeerCloses
<1>4. peer'[c] = e
  BY <1>1, <1>2, <1>3
<1> HIDE DEF e
<1>5. Client(c)'
  BY <1>1, <1>2, <1>4 DEF IInv, Clients, Client
<1>6. ASSUME NEW f \in Fd, table[f] = c, Open(Of(c))
      PROVE  e.stage # 0 /\ \A i \in 1..Len(e.out) : e.out[i].kind # "INIT"
  <2>1. c \in 1..MaxConns
    BY <1>1 DEF IInv, TypeInv
  <2> QED
    BY <1>2, <1>6, <2>1 DEF IInv, Turns
<1> QED
  BY <1>1, <1>2, <1>3, <1>5, <1>6, ClientsTurn

LEMMA SendsKeeps ==
  ASSUME IInv, NEW c \in DOMAIN peer, NEW ps \in Seq(Sent), NEW n \in 1..3, Sends(c, ps, n),
         n = 2 => Len(peer[c].got) >= 2,
         \A i \in 1..Len(ps) : ps[i].kind = "INIT2" => Len(peer[c].got) >= 2,
         (\A i \in 1..Len(ps) : ps[i].kind # "INIT") \/ (peer[c].stage = 0 /\ Len(ps) = 1)
  PROVE  IInv'
<1> DEFINE e == [peer[c] EXCEPT !.out = @ \o ps, !.stage = n]
<1>1. /\ peer \in Seq(Ends) /\ DOMAIN peer = 1..Len(peer) /\ peer[c] \in Ends
      /\ c \in 1..Len(peer) /\ Len(peer) <= MaxConns
  BY LenProperties DEF IInv, TypeInv
<1>2. peer[c].out \in Seq(Sent)
  BY <1>1 DEF Ends
<1> DEFINE q == peer[c].out
           r == q \o ps
<1>3. /\ r \in Seq(Sent) /\ Len(r) = Len(q) + Len(ps) /\ Len(q) \in Nat /\ Len(ps) \in Nat
      /\ \A i \in 1..Len(r) : IF i <= Len(q) THEN r[i] = q[i]
                              ELSE i - Len(q) \in 1..Len(ps) /\ r[i] = ps[i - Len(q)]
  <2> HIDE DEF q
  <2> QED
    BY <1>2, ConcatProperties, LenProperties DEF q
<1>4. /\ e \in Ends /\ e.slave = peer[c].slave /\ e.open = peer[c].open /\ e.got = peer[c].got
      /\ e.out = r /\ e.stage = n
  <2>1. r \in Seq(Sent)
    BY <1>3
  <2> HIDE DEF r
  <2>2. e = [peer[c] EXCEPT !.out = r, !.stage = n]
    BY DEF r
  <2>3. n \in 0..3
    OBVIOUS
  <2> DEFINE p == peer[c]
  <2>4. p \in Ends /\ e = [p EXCEPT !.out = r, !.stage = n]
    BY <1>1, <2>2
  <2>5. peer[c] = p
    OBVIOUS
  <2> HIDE DEF e, p
  <2> QED
    BY <2>1, <2>3, <2>4, <2>5 DEF Ends
<1>5. /\ peer' = [peer EXCEPT ![c] = e] /\ UNCHANGED <<table, d_con, backlog, dc, cycle, prompt, foreign>>
  BY <1>1 DEF Sends
<1>6. peer'[c] = e
  BY <1>1, <1>4, <1>5
<1>7. /\ peer[c].stage = 0 => Len(q) = 0
      /\ \A i \in 1..Len(q) : /\ q[i].kind = "INIT" => i = 1
                              /\ q[i].kind = "INIT2" => Len(peer[c].got) >= 2
  BY <1>1 DEF IInv, Clients, Client
<1> HIDE DEF e, q, r
<1>8. Client(c)'
  <2>1. ASSUME NEW i \in 1..Len(r)
        PROVE  /\ r[i].kind = "INIT" => i = 1
               /\ r[i].kind = "INIT2" => Len(peer[c].got) >= 2
    <3>1. CASE i <= Len(q)
      <4>1. i \in 1..Len(q) /\ r[i] = q[i]
        BY <1>3, <3>1
      <4> QED
        BY <4>1, <1>7
    <3>2. CASE ~(i <= Len(q))
      <4>1. i - Len(q) \in 1..Len(ps) /\ r[i] = ps[i - Len(q)]
        BY <1>3, <3>2
      <4>2. r[i].kind = "INIT" => Len(q) = 0 /\ Len(ps) = 1
        BY <4>1, <1>7
      <4> QED
        BY <4>1, <4>2, <1>3
    <3> QED
      BY <3>1, <3>2
  <2>2. n = 2 => Len(peer[c].got) >= 2
    OBVIOUS
  <2> QED
    BY <1>4, <1>6, <2>1, <2>2 DEF Client
<1>9. ASSUME NEW f \in Fd, table[f] = c, Open(Of(c))
      PROVE  e.stage # 0 /\ \A i \in 1..Len(e.out) : e.out[i].kind # "INIT"
  <2>1. c \in 1..MaxConns /\ peer[c].stage # 0
    BY <1>1, <1>9 DEF IInv, Turns
  <2>2. \A i \in 1..Len(q) : q[i].kind # "INIT"
    BY <1>9, <2>1 DEF IInv, Turns, q
  <2>3. ASSUME NEW i \in 1..Len(r)
        PROVE  r[i].kind # "INIT"
    <3>1. \A j \in 1..Len(ps) : ps[j].kind # "INIT"
      BY <2>1
    <3>2. CASE i <= Len(q)
      BY <1>3, <2>2, <3>2
    <3>3. CASE ~(i <= Len(q))
      BY <1>3, <3>1, <3>3
    <3> QED
      BY <3>2, <3>3
  <2> QED
    BY <1>4, <2>3
<1> QED
  BY <1>1, <1>4, <1>5, <1>8, <1>9, ClientsTurn

LEMMA PeerSendsKeeps == ASSUME Tame, IInv, NEW c \in DOMAIN peer, PeerSends(c) PROVE IInv'
<1>1. /\ peer \in Seq(Ends) /\ DOMAIN peer = 1..Len(peer) /\ peer[c] \in Ends
  BY LenProperties DEF IInv, TypeInv
<1>2. peer[c].got \in Seq(Answers \cup Spoken)
  BY <1>1 DEF Ends
<1>3. CASE Sends(c, <<Packet("INIT")>>, 1) /\ peer[c].stage = 0
  <2> DEFINE ps == <<Packet("INIT")>>
  <2>1. ps \in Seq(Sent) /\ Len(ps) = 1 /\ ps[1].kind = "INIT"
    BY DEF Packet, Sent
  <2>2. Sends(c, ps, 1)
    BY <1>3
  <2> HIDE DEF ps
  <2> QED
    BY <1>3, <2>1, <2>2, SendsKeeps
<1>4. ASSUME NEW k \in {"INIT2", "SHORT"},
             Sends(c, <<Packet("ACK"), Packet(k)>>, 2) /\ Got(c, "ACK") /\ Got(c, "INIT")
      PROVE  IInv'
  <2>1. PICK i \in DOMAIN peer[c].got : peer[c].got[i].kind = "INIT"
    BY <1>4 DEF Got
  <2>2. i = 2
    BY <2>1, <1>1, <1>2 DEF IInv, PeerFollows, Handshake
  <2>3. Len(peer[c].got) >= 2
    BY <2>1, <2>2, <1>2, LenProperties
  <2> DEFINE ps == <<Packet("ACK"), Packet(k)>>
  <2>4. ps \in Seq(Sent) /\ Len(ps) = 2 /\ ps[1].kind = "ACK" /\ ps[2].kind = k
    BY DEF Packet, Sent
  <2>5. Sends(c, ps, 2)
    BY <1>4
  <2> HIDE DEF ps
  <2> QED
    BY <2>3, <2>4, <2>5, SendsKeeps
<1>5. CASE \E k \in {"MSG", "BAD", "CUT"} : Sends(c, <<Packet(k)>>, 3)
  <2>1. PICK k \in {"MSG", "BAD", "CUT"} : Sends(c, <<Packet(k)>>, 3)
    BY <1>5
  <2> DEFINE ps == <<Packet(k)>>
  <2>2. ps \in Seq(Sent) /\ Len(ps) = 1 /\ ps[1].kind = k
    BY DEF Packet, Sent
  <2>3. Sends(c, ps, 3)
    BY <2>1
  <2> HIDE DEF ps
  <2> QED
    BY <2>2, <2>3, SendsKeeps
<1> QED
  BY <1>3, <1>4, <1>5 DEF PeerSends, Tame

LEMMA PeerConnectsKeeps == ASSUME Tame, IInv, NEW s \in Slave, PeerConnects(s) PROVE IInv'
<1> USE DEF IInv
<1> DEFINE e == [slave |-> s, open |-> TRUE, out |-> <<>>, got |-> <<>>, stage |-> 0]
           n == Len(peer) + 1
           m == Len(backlog) + 1
<1>1. /\ peer \in Seq(Ends) /\ Len(peer) \in Nat /\ DOMAIN peer = 1..Len(peer) /\ n <= MaxConns
      /\ backlog \in Seq(1..MaxConns) /\ Len(backlog) \in Nat
  BY LenProperties DEF TypeInv, PeerConnects
<1>2. e \in Ends
  BY DEF Ends
<1>3. /\ peer' = Append(peer, e) /\ backlog' = Append(backlog, n)
      /\ UNCHANGED <<table, d_con, dc, cycle, prompt, foreign>>
  BY DEF PeerConnects
<1>4. ~Has(s)
  BY DEF PeerConnects, Tame
<1> HIDE DEF e
<1>5. /\ peer' \in Seq(Ends) /\ Len(peer') = n /\ peer'[n] = e /\ DOMAIN peer' = 1..n
      /\ \A b \in 1..Len(peer) : peer'[b] = peer[b] /\ b # n
  BY <1>1, <1>2, <1>3
<1>6. /\ backlog' \in Seq(1..MaxConns) /\ Len(backlog') = m /\ backlog'[m] = n
      /\ \A i \in 1..Len(backlog) : backlog'[i] = backlog[i]
  BY <1>1, <1>3
<1>7. e.slave = s /\ e.stage = 0 /\ Len(e.out) = 0 /\ Len(e.got) = 0 /\ DOMAIN e.got = {}
  BY DEF e
<1>8. /\ d_con[s].flags = {} /\ \A f \in Fd : table[f] \in 1..MaxConns => peer[table[f]].slave # s
      /\ \A i \in 1..Len(backlog) : peer[backlog[i]].slave # s
  BY <1>1, <1>4 DEF Has
<1>9. TypeInv'
  BY <1>1, <1>3, <1>5, <1>6 DEF TypeInv
<1> HIDE DEF n, m
<1>10. \A f \in Fd : table[f] \in 1..MaxConns => table[f] \in 1..Len(peer) /\ table[f] \in 1..n /\ peer'[table[f]] = peer[table[f]]
  BY <1>1, <1>5 DEF OneEach, n
<1>11. \A i \in 1..m : \/ i = m /\ backlog'[i] = n /\ peer'[backlog'[i]] = e
                       \/ i \in 1..Len(backlog) /\ backlog'[i] = backlog[i] /\ backlog[i] \in 1..Len(peer)
                          /\ peer'[backlog'[i]] = peer[backlog[i]]
  BY <1>1, <1>5, <1>6 DEF OneEach, m, n
<1>12. OneEach'
  <2>1. ASSUME NEW i \in 1..m
        PROVE  /\ backlog'[i] \in 1..n
               /\ d_con[peer'[backlog'[i]].slave].flags = {}
               /\ \A f \in Fd : ~(table[f] \in 1..MaxConns /\ peer'[table[f]].slave = peer'[backlog'[i]].slave)
    <3>1. CASE i = m
      <4>1. backlog'[i] = n /\ peer'[backlog'[i]].slave = s
        BY <3>1, <1>5, <1>6, <1>7
      <4> QED
        BY <4>1, <1>1, <1>8, <1>10 DEF n
    <3>2. CASE i # m
      <4>1. i \in 1..Len(backlog) /\ backlog'[i] = backlog[i] /\ backlog[i] \in 1..Len(peer)
            /\ peer'[backlog'[i]] = peer[backlog[i]]
        BY <3>2, <1>11
      <4>2. /\ d_con[peer[backlog[i]].slave].flags = {}
            /\ \A f \in Fd : ~(table[f] \in 1..MaxConns /\ peer[table[f]].slave = peer[backlog[i]].slave)
        BY <4>1 DEF OneEach
      <4> QED
        BY <4>1, <4>2, <1>1, <1>10 DEF n
    <3> QED
      BY <3>1, <3>2
  <2>2. ASSUME NEW f \in Fd, NEW g \in Fd, table[f] \in 1..MaxConns, table[g] \in 1..MaxConns,
               peer'[table[f]].slave = peer'[table[g]].slave
        PROVE  f = g
    <3>1. peer[table[f]].slave = peer[table[g]].slave
      BY <1>10, <2>2
    <3> QED
      BY <2>2, <3>1 DEF OneEach
  <2>3. ASSUME NEW i \in 1..m, NEW j \in 1..m, peer'[backlog'[i]].slave = peer'[backlog'[j]].slave
        PROVE  i = j
    <3>1. \A k \in 1..m : k # m => peer'[backlog'[k]].slave # s
      BY <1>8, <1>11
    <3>3. \A k \in 1..m : k = m => peer'[backlog'[k]].slave = s
      BY <1>5, <1>6, <1>7
    <3>4. CASE i = m \/ j = m
      BY <2>3, <3>1, <3>3, <3>4
    <3>2. CASE i # m /\ j # m
      <4>1. /\ i \in 1..Len(backlog) /\ j \in 1..Len(backlog)
            /\ peer[backlog[i]].slave = peer[backlog[j]].slave
        BY <2>3, <3>2, <1>11
      <4> QED
        BY <4>1 DEF OneEach
    <3> QED
      BY <3>2, <3>4
  <2>4. \A f \in Fd : table[f] \in 1..MaxConns => table[f] \in 1..n
    BY <1>10
  <2>5. Len(peer') = n /\ Len(backlog') = m /\ table' = table /\ d_con' = d_con
    BY <1>3, <1>5, <1>6
  <2> QED
    BY <2>1, <2>2, <2>3, <2>4, <2>5 DEF OneEach
<1>13. Sessions'
  <2>2. \A f \in Fd : IsConn(f) => (At(f) /\ ~Open(peer'[table[f]].slave)) \/
          (~At(f) /\ Open(peer'[table[f]].slave) /\ d_con[peer'[table[f]].slave].rSocket = f)
    BY <1>10 DEF Sessions
  <2>3. \A t \in Slave : Open(t) /\ ~Closing(t) => IsConn(d_con[t].rSocket) /\ peer'[table[d_con[t].rSocket]].slave = t
    BY <1>10 DEF Sessions
  <2>4. \A t \in Slave : Closing(t) => Open(t) /\ \A f \in Fd : ~(IsConn(f) /\ peer'[table[f]].slave = t)
    BY <1>10 DEF Sessions
  <2> QED
    BY <1>3, <2>2, <2>3, <2>4 DEF Sessions
<1>14. Threads'
  BY <1>3, <1>10 DEF Threads, Idle
<1>15. Turns'
  <2>1. \A i \in 1..Len(backlog') : Len(peer'[backlog'[i]].got) = 0
    BY <1>6, <1>7, <1>11 DEF Turns
  <2>2. ASSUME NEW f \in Fd, table[f] \in 1..MaxConns, peer'[table[f]].open
        PROVE  Written(f)'
    <3>1. Written(f) /\ peer'[table[f]] = peer[table[f]]
      BY <1>10, <2>2 DEF Turns
    <3> QED
      BY <1>3, <3>1 DEF Written
  <2>3. \A f \in Fd : table[f] \in 1..MaxConns /\ d_con[peer'[table[f]].slave].flags # {} =>
            /\ peer'[table[f]].stage # 0
            /\ \A i \in 1..Len(peer'[table[f]].out) : peer'[table[f]].out[i].kind # "INIT"
    BY <1>10 DEF Turns
  <2> QED
    BY <1>3, <2>1, <2>2, <2>3 DEF Turns
<1>16. Clients'
  <2>1. ASSUME NEW c \in 1..Len(peer')
        PROVE  Client(c)'
    <3>1. CASE c = n
      BY <3>1, <1>5, <1>7 DEF Client
    <3>2. CASE c \in 1..Len(peer)
      BY <3>2, <1>5 DEF Clients, Client
    <3> QED
      BY <2>1, <1>1, <1>5, <3>1, <3>2 DEF n
  <2>2. cycle.at = "respond" => Len(peer'[table[cycle.sock]].got) = Len(peer[table[cycle.sock]].got)
    BY <1>10, Holding
  <2> QED
    BY <1>3, <2>1, <2>2 DEF Clients
<1>17. PeerFollows'
  <2>1. ASSUME NEW c \in 1..n, NEW i \in DOMAIN peer'[c].got
        PROVE  peer'[c].got[i].kind = IF i <= 3 THEN Handshake[i] ELSE "MSG"
    <3>1. c \in 1..Len(peer) /\ peer'[c] = peer[c]
      BY <1>1, <1>5, <1>7 DEF n
    <3> QED
      BY <3>1, <1>1, <2>1 DEF PeerFollows
  <2> QED
    BY <1>5, <2>1 DEF PeerFollows
<1> QED
  BY <1>3, <1>9, <1>12, <1>13, <1>14, <1>15, <1>16, <1>17 DEF OwnClosed

-----------------------------------------------------------------------------
\* Reading takes the first of what a client has sent, and changes nothing else.

NoInit(q) == \A i \in 1..Len(q) : q[i].kind # "INIT"
OutOnly ==
  /\ peer' \in Seq(Ends) /\ Len(peer') = Len(peer)
  /\ DOMAIN peer = 1..Len(peer) /\ DOMAIN peer' = 1..Len(peer)
  /\ \A b \in 1..Len(peer) :
       /\ peer'[b].slave = peer[b].slave /\ peer'[b].open = peer[b].open
       /\ peer'[b].got = peer[b].got /\ peer'[b].stage = peer[b].stage
       /\ Client(b) => Client(b)'
       /\ NoInit(peer[b].out) => NoInit(peer'[b].out)

LEMMA Reads ==
  ASSUME TypeInv, NEW c \in 1..Len(peer), Client(c), peer[c].out # <<>>,
         peer' = [peer EXCEPT ![c].out = Tail(@)]
  PROVE  OutOnly /\ NoInit(peer'[c].out) /\ Head(peer[c].out) \in Sent /\ Head(peer[c].out) = peer[c].out[1]
         /\ peer[c].stage # 0 /\ Len(peer[c].out) >= 1
<1> DEFINE q == peer[c].out
           p == peer[c]
           e == [p EXCEPT !.out = Tail(q)]
<1>1. p \in Ends /\ q \in Seq(Sent) /\ DOMAIN peer = 1..Len(peer) /\ peer \in Seq(Ends)
  BY AnEnd, LenProperties DEF TypeInv
<1>2. /\ Len(q) \in Nat \ {0} /\ Head(q) = q[1] /\ Head(q) \in Sent
      /\ Tail(q) \in Seq(Sent) /\ Len(Tail(q)) = Len(q) - 1
      /\ \A i \in 1..Len(q)-1 : Tail(q)[i] = q[i+1]
  <2> HIDE DEF q
  <2> QED
    BY <1>1, Taken DEF q
<1>3. /\ e \in Ends /\ e.slave = p.slave /\ e.open = p.open /\ e.got = p.got
      /\ e.out = Tail(q) /\ e.stage = p.stage
  <2> HIDE DEF p, q
  <2> QED
    BY <1>1, <1>2 DEF Ends
<1>4. peer' = [peer EXCEPT ![c] = e]
  OBVIOUS
<1>5. Client(c) /\ peer[c] = p /\ peer[c].out = q
  OBVIOUS
<1> HIDE DEF e, p, q
<1>6. /\ peer' \in Seq(Ends) /\ Len(peer') = Len(peer) /\ peer'[c] = e
      /\ \A b \in 1..Len(peer) : b # c => peer'[b] = peer[b]
      /\ DOMAIN peer' = 1..Len(peer)
  BY <1>1, <1>3, <1>4, <1>5, OneChanges
<1>7. \A i \in 1..Len(Tail(q)) : i + 1 \in 1..Len(q) /\ Tail(q)[i] = q[i+1] /\ i + 1 # 1
  BY <1>2
<1>8. NoInit(peer'[c].out)
  BY <1>3, <1>5, <1>6, <1>7 DEF NoInit, Client
<1>9. p.stage # 0
  BY <1>2, <1>5 DEF Client
<1>10. Client(c)'
  <2>1. \A i \in 1..Len(Tail(q)) : Tail(q)[i].kind = "INIT2" => Len(p.got) >= 2
    BY <1>5, <1>7 DEF Client
  <2> QED
    BY <1>3, <1>5, <1>6, <1>8, <1>9, <2>1 DEF Client, NoInit
<1>11. ASSUME NEW b \in 1..Len(peer), b # c
       PROVE  Client(b) => Client(b)'
  BY <1>6, <1>11 DEF Client
<1>12. ASSUME NEW b \in 1..Len(peer)
       PROVE  /\ peer'[b].slave = peer[b].slave /\ peer'[b].open = peer[b].open
              /\ peer'[b].got = peer[b].got /\ peer'[b].stage = peer[b].stage
              /\ Client(b) => Client(b)'
              /\ NoInit(peer[b].out) => NoInit(peer'[b].out)
  BY <1>3, <1>5, <1>6, <1>8, <1>10, <1>11
<1> QED
  BY <1>1, <1>2, <1>5, <1>6, <1>8, <1>9, <1>12 DEF OutOnly

\* Not reading changes nothing at all.
LEMMA ReadsNot == ASSUME TypeInv, peer' = peer PROVE OutOnly
<1>1. \A b \in 1..Len(peer) : Client(b) => Client(b)'
  BY DEF Client
<1> QED
  BY <1>1, LenProperties DEF OutOnly, TypeInv

LEMMA OutOnlyKeeps ==
  ASSUME IInv, OutOnly
  PROVE  PeerFollows' /\ (\A c \in 1..Len(peer') : Client(c)')
         /\ \A c \in 1..Len(peer) : peer[c].slave \in Slave /\ peer'[c].slave = peer[c].slave
  BY AnEnd DEF IInv, PeerFollows, OutOnly, Clients

\* YSM_CloseDC and close() on a connection of the contact they are called for.
LEMMA ClosesOwn ==
  ASSUME TypeInv, OwnClosed, NEW f, NEW s, Mine(f, s), Close(f, s)
  PROVE  /\ f \in Fd /\ table' \in [Fd -> Int] /\ OwnClosed' /\ table'[f] = 0
         /\ \A g \in Fd : g # f => table'[g] = table[g]
         /\ \A g \in Fd : table'[g] \in 1..MaxConns => table'[g] = table[g] /\ g # f
<1>1. ~Strange(f, s)
  BY DEF Strange
<1>2. OwnClosed'
  BY <1>1, Zenon DEF Close, OwnClosed
<1>3. table' = [table EXCEPT ![f] = 0] /\ f \in Fd
  BY DEF Close, Unused
<1> QED
  BY <1>2, <1>3 DEF TypeInv

LEMMA Refused ==
  ASSUME IInv, NEW s, dc.at = "first", Mine(dc.sock, s), Close(dc.sock, s), dc' = Idle, OutOnly,
         UNCHANGED <<d_con, backlog, cycle, prompt>>
  PROVE  IInv'
<1> USE DEF IInv
<1> DEFINE f == dc.sock
<1>1. /\ f \in Fd /\ table' \in [Fd -> Int] /\ OwnClosed' /\ table'[f] = 0
      /\ \A g \in Fd : g # f => table'[g] = table[g]
      /\ \A g \in Fd : table'[g] \in 1..MaxConns => table'[g] = table[g] /\ g # f
  BY ClosesOwn
<1>2. dc'.at = "idle" /\ dc'.slave = NoSlave /\ dc' = Idle
  BY DEF Idle
<1> HIDE DEF f
<1>3. TypeInv'
  BY <1>1, <1>2 DEF TypeInv, OutOnly, Idle
<1>4. OneEach'
  BY <1>1, OneEachStays DEF OutOnly
<1>5. ~Open(s) /\ At(f) /\ \A g \in Fd : Mine(g, s) => g = f
  BY DEF Sessions, OneEach, f
<1>6. Sessions'
  <2>1. ASSUME NEW t \in Slave, Open(t), ~Closing(t)
        PROVE  Mine(d_con[t].rSocket, t)'
    <3>1. Mine(d_con[t].rSocket, t) /\ t # s
      BY <2>1, <1>5 DEF Sessions
    <3>2. d_con[t].rSocket # f
      BY <3>1 DEF f
    <3> QED
      BY <3>1, <3>2, <1>1 DEF OneEach, OutOnly
  <2>2. ASSUME NEW t \in Slave, Closing(t)
        PROVE  Open(t) /\ \A g \in Fd : ~Mine(g, t)'
    BY <2>2, <1>1 DEF Sessions, OneEach, OutOnly
  <2>3. ASSUME NEW g \in Fd, table'[g] \in 1..MaxConns
        PROVE  Open(peer'[table'[g]].slave) /\ d_con[peer'[table'[g]].slave].rSocket = g
    <3>1. table'[g] = table[g] /\ g # f
      BY <2>3, <1>1
    <3>2. ~At(g)
      BY <3>1 DEF f
    <3>3. peer'[table'[g]].slave = peer[table[g]].slave
      BY <2>3, <3>1 DEF OneEach, OutOnly
    <3> QED
      BY <2>3, <3>1, <3>2, <3>3 DEF Sessions
  <2> QED
    BY <1>2, <2>1, <2>2, <2>3 DEF Sessions
<1>7. Threads'
  BY <1>1, <1>2 DEF Threads
<1>8. Turns'
  <2>1. ASSUME NEW g \in Fd, table'[g] \in 1..MaxConns, Written(g)
        PROVE  Written(g)'
    <3>1. table'[g] = table[g] /\ table[g] \in 1..Len(peer)
      BY <1>1, <2>1 DEF OneEach
    <3>2. peer'[table'[g]].slave = peer[table[g]].slave /\ peer'[table'[g]].got = peer[table[g]].got
      BY <3>1 DEF OutOnly
    <3> QED
      BY <2>1, <3>1, <3>2, <1>2 DEF Written
  <2>2. \A g \in Fd : table'[g] \in 1..MaxConns /\ d_con'[peer[table[g]].slave].flags # {} =>
            /\ peer'[table[g]].stage # 0
            /\ \A i \in 1..Len(peer'[table[g]].out) : peer'[table[g]].out[i].kind # "INIT"
    <3> SUFFICES ASSUME NEW g \in Fd, table'[g] \in 1..MaxConns, d_con'[peer[table[g]].slave].flags # {}
                 PROVE  peer'[table[g]].stage # 0 /\ NoInit(peer'[table[g]].out)
      BY DEF NoInit
    <3>1. table'[g] = table[g] /\ table[g] \in 1..Len(peer)
      BY <1>1 DEF OneEach
    <3>2. peer[table[g]].stage # 0 /\ NoInit(peer[table[g]].out)
      BY <3>1 DEF Turns, NoInit
    <3> QED
      BY <3>1, <3>2 DEF OutOnly
  <2>3. \A i \in 1..Len(backlog) : peer'[backlog[i]].got = peer[backlog[i]].got
    BY DEF OutOnly, OneEach
  <2> QED
    BY <1>1, <2>1, <2>2, <2>3, TurnsStay DEF OutOnly
<1>9. Clients'
  <2>1. ASSUME cycle.at = "respond"
        PROVE  table'[cycle.sock] = table[cycle.sock] /\ table[cycle.sock] \in 1..Len(peer)
    BY <1>1, <1>5, <2>1, Holding DEF OneEach
  <2> QED
    BY <2>1, OutOnlyKeeps DEF Clients, OutOnly
<1> QED
  BY <1>1, <1>3, <1>4, <1>6, <1>7, <1>8, <1>9, OutOnlyKeeps

-----------------------------------------------------------------------------
\* Writing puts one packet or more after what a client has got.

GotOnly(c) ==
  /\ peer' \in Seq(Ends) /\ Len(peer') = Len(peer)
  /\ DOMAIN peer = 1..Len(peer) /\ DOMAIN peer' = 1..Len(peer)
  /\ \A b \in 1..Len(peer) :
       /\ peer'[b].slave = peer[b].slave /\ peer'[b].open = peer[b].open
       /\ peer'[b].out = peer[b].out /\ peer'[b].stage = peer[b].stage
       /\ Len(peer'[b].got) >= Len(peer[b].got)
       /\ b # c => peer'[b].got = peer[b].got
       /\ Client(b) => Client(b)'
  /\ Len(peer'[c].got) = Len(peer[c].got) + 1

LEMMA Writes ==
  ASSUME TypeInv, PeerFollows, NEW c \in 1..Len(peer), NEW x \in Answers \cup Spoken,
         peer' = [peer EXCEPT ![c].got = @ \o <<x>>],
         x.kind = IF Len(peer[c].got) < 3 THEN Handshake[Len(peer[c].got) + 1] ELSE "MSG"
  PROVE  GotOnly(c) /\ PeerFollows'
<1> DEFINE p == peer[c]
           q == peer[c].got
           r == q \o <<x>>
           e == [p EXCEPT !.got = r]
<1>1. /\ p \in Ends /\ q \in Seq(Answers \cup Spoken) /\ DOMAIN peer = 1..Len(peer) /\ peer \in Seq(Ends)
      /\ Len(q) \in Nat
  BY AnEnd, LenProperties DEF TypeInv
<1>2. /\ r \in Seq(Answers \cup Spoken) /\ Len(r) = Len(q) + 1
      /\ \A i \in 1..Len(q) : r[i] = q[i]
      /\ r[Len(q) + 1] = x
  <2> HIDE DEF q
  <2> QED
    BY <1>1, Put1
<1>3. peer' = [peer EXCEPT ![c] = e] /\ peer[c] = p /\ p.got = q
  OBVIOUS
<1>4. x.kind = IF Len(q) < 3 THEN Handshake[Len(q) + 1] ELSE "MSG"
  OBVIOUS
<1> HIDE DEF p, q, r
<1>5. /\ e \in Ends /\ e.slave = p.slave /\ e.open = p.open /\ e.got = r
      /\ e.out = p.out /\ e.stage = p.stage
  BY <1>1, <1>2 DEF Ends
<1> HIDE DEF e
<1>6. /\ peer' \in Seq(Ends) /\ Len(peer') = Len(peer) /\ peer'[c] = e
      /\ \A b \in 1..Len(peer) : b # c => peer'[b] = peer[b]
      /\ DOMAIN peer' = 1..Len(peer)
  BY <1>1, <1>3, <1>5, OneChanges
<1>7. ASSUME NEW b \in 1..Len(peer)
      PROVE  /\ peer'[b].slave = peer[b].slave /\ peer'[b].open = peer[b].open
             /\ peer'[b].out = peer[b].out /\ peer'[b].stage = peer[b].stage
             /\ Len(peer'[b].got) >= Len(peer[b].got) /\ Len(peer[b].got) \in Nat
             /\ b # c => peer'[b].got = peer[b].got
             /\ Len(peer'[b].got) \in Nat
  <2>1. Len(peer[b].got) \in Nat
    BY AnEnd
  <2> QED
    BY <2>1, <1>1, <1>2, <1>3, <1>5, <1>6
<1>8. ASSUME NEW b \in 1..Len(peer), Client(b)
      PROVE  Client(b)'
  <2>1. peer'[b].out = peer[b].out /\ peer'[b].stage = peer[b].stage
    BY <1>7
  <2>2. Len(peer[b].got) >= 2 => Len(peer'[b].got) >= 2
    BY <1>7
  <2> QED
    BY <1>8, <2>1, <2>2 DEF Client
<1>9. GotOnly(c)
  BY <1>1, <1>2, <1>3, <1>5, <1>6, <1>7, <1>8 DEF GotOnly
<1>10. PeerFollows'
  <2>1. ASSUME NEW b \in 1..Len(peer), NEW i \in DOMAIN peer'[b].got
        PROVE  peer'[b].got[i].kind = IF i <= 3 THEN Handshake[i] ELSE "MSG"
    <3>1. CASE b # c
      <4>1. peer'[b] = peer[b]
        BY <1>6, <3>1
      <4> QED
        BY <2>1, <4>1, <1>1 DEF PeerFollows
    <3>2. CASE b = c
      <4>4. DOMAIN r = 1..(Len(q) + 1)
        BY <1>2, LenProperties
      <4>1. peer'[b].got = r /\ i \in 1..(Len(q) + 1)
        BY <2>1, <3>2, <4>4, <1>5, <1>6
      <4>2. CASE i = Len(q) + 1
        <5>1. peer'[b].got[i] = x
          BY <4>1, <4>2, <1>2
        <5>2. i <= 3 <=> Len(q) < 3
          BY <4>2, <1>1
        <5> QED
          BY <5>1, <5>2, <4>2, <1>4
      <4>3. CASE i # Len(q) + 1
        <5>1. i \in 1..Len(q) /\ i \in DOMAIN peer[c].got
          BY <4>1, <4>3, <1>1, <1>3, LenProperties
        <5>2. peer'[b].got[i] = peer[c].got[i]
          BY <4>1, <5>1, <1>2, <1>3
        <5> QED
          BY <5>1, <5>2, <1>1 DEF PeerFollows
      <4> QED
        BY <4>2, <4>3
    <3> QED
      BY <3>1, <3>2
  <2> QED
    BY <1>6, <2>1 DEF PeerFollows
<1> QED
  BY <1>9, <1>10

\* The state stays sound when a session's client, still there, has got a packet
\* and the writer has gone on.
LEMMA WriterGoesOn ==
  ASSUME IInv, NEW s, NEW f, Mine(f, s), Open(s), GotOnly(table[f]), PeerFollows',
         UNCHANGED <<table, d_con, backlog, prompt, foreign>>,
         TypeInv', Threads', Written(f)',
         \A t : (cycle'.at = "reset" /\ cycle'.slave = t) <=> (cycle.at = "reset" /\ cycle.slave = t),
         \A t : t # s => ((cycle'.at = "connected" /\ cycle'.slave = t) <=> (cycle.at = "connected" /\ cycle.slave = t)),
         \A t : t # s => ((dc'.slave = t /\ dc'.at \in {"B", "A"}) <=> (dc.slave = t /\ dc.at \in {"B", "A"})),
         dc'.at # dc.at => dc.slave = s,
         dc'.at = "first" <=> dc.at = "first", dc'.sock = dc.sock \/ dc.at # "first",
         cycle'.at = "respond" => cycle' = cycle
  PROVE  IInv'
<1> USE DEF IInv
<1>1. \A g \in Fd : table[g] \in 1..MaxConns =>
        /\ table[g] \in 1..Len(peer) /\ peer'[table[g]].slave = peer[table[g]].slave
        /\ peer'[table[g]].open = peer[table[g]].open
  BY DEF OneEach, GotOnly
<1>2. OneEach'
  BY OneEachStays DEF GotOnly
<1>3. Sessions'
  <2>1. \A t : Closing(t)' <=> Closing(t)
    OBVIOUS
  <2>2. \A t \in Slave : Open(t) /\ ~Closing(t) => Mine(d_con[t].rSocket, t)'
    BY <1>1 DEF Sessions
  <2>3. \A t \in Slave : Closing(t) => Open(t) /\ \A g \in Fd : ~(table[g] \in 1..MaxConns /\ peer'[table[g]].slave = t)
    BY <1>1 DEF Sessions
  <2>4. \A g \in Fd : At(g)' <=> At(g)
    OBVIOUS
  <2>5. ASSUME NEW g \in Fd, table[g] \in 1..MaxConns
        PROVE  \/ At(g) /\ ~Open(peer'[table[g]].slave)
               \/ ~At(g) /\ Open(peer'[table[g]].slave) /\ d_con[peer'[table[g]].slave].rSocket = g
    BY <1>1, <2>5 DEF Sessions
  <2> QED
    BY <2>1, <2>2, <2>3, <2>4, <2>5 DEF Sessions
<1>4. Turns'
  <2>1. ASSUME NEW g \in Fd, table[g] \in 1..MaxConns, g # f, Written(g)
        PROVE  Written(g)'
    <3>1. peer[table[g]].slave # s /\ table[g] # table[f]
      BY <2>1 DEF OneEach
    <3>2. peer'[table[g]].slave = peer[table[g]].slave /\ peer'[table[g]].got = peer[table[g]].got
      BY <1>1, <2>1, <3>1 DEF GotOnly
    <3>3. /\ (cycle'.at = "connected" /\ cycle'.slave = peer[table[g]].slave)
               <=> (cycle.at = "connected" /\ cycle.slave = peer[table[g]].slave)
          /\ (dc'.slave = peer[table[g]].slave /\ dc'.at \in {"B", "A"})
               <=> (dc.slave = peer[table[g]].slave /\ dc.at \in {"B", "A"})
          /\ dc.slave = peer[table[g]].slave => dc'.at = dc.at
      BY <3>1
    <3> QED
      BY <2>1, <3>2, <3>3 DEF Written
  <2>2. \A i \in 1..Len(backlog) : peer'[backlog[i]].got = peer[backlog[i]].got
    <3> SUFFICES ASSUME NEW i \in 1..Len(backlog) PROVE backlog[i] # table[f] /\ backlog[i] \in 1..Len(peer)
      BY DEF GotOnly
    <3> QED
      BY DEF OneEach
  <2>3. \A g \in Fd : table[g] \in 1..MaxConns /\ d_con'[peer[table[g]].slave].flags # {} =>
            /\ peer'[table[g]].stage # 0
            /\ \A i \in 1..Len(peer'[table[g]].out) : peer'[table[g]].out[i].kind # "INIT"
    <3> SUFFICES ASSUME NEW g \in Fd, table[g] \in 1..MaxConns, d_con[peer[table[g]].slave].flags # {}
                 PROVE  peer'[table[g]].stage # 0 /\ NoInit(peer'[table[g]].out)
      BY DEF NoInit
    <3>1. peer[table[g]].stage # 0 /\ NoInit(peer[table[g]].out)
      BY DEF Turns, NoInit
    <3> QED
      BY <3>1, <1>1 DEF GotOnly
  <2>4. \A b \in 1..Len(peer) : peer'[b].slave = peer[b].slave /\ (peer'[b].open => peer[b].open)
    BY DEF GotOnly
  <2> QED
    BY <2>1, <2>2, <2>3, <2>4, TurnsStay
<1>5. Clients'
  <2>1. \A c \in 1..Len(peer') : Client(c)'
    BY DEF GotOnly, Clients
  <2>2. ASSUME cycle'.at = "respond", cycle.buf.kind = "INIT2"
        PROVE  cycle' = cycle /\ Len(peer'[table[cycle.sock]].got) >= 2
    <3>1. cycle' = cycle /\ cycle.at = "respond"
      BY <2>2
    <3>2. table[cycle.sock] \in 1..Len(peer) /\ Len(peer[table[cycle.sock]].got) >= 2
      BY <2>2, <3>1, <1>1, Holding DEF Clients
    <3>3. Len(peer[table[cycle.sock]].got) \in Nat /\ Len(peer'[table[cycle.sock]].got) \in Nat
      BY <3>2, AnEnd, LenProperties DEF GotOnly, Ends
    <3> QED
      BY <3>1, <3>2, <3>3 DEF GotOnly
  <2> QED
    BY <2>1, <2>2 DEF Clients
<1> QED
  BY <1>2, <1>3, <1>4, <1>5 DEF OwnClosed

-----------------------------------------------------------------------------
\* The cycle thread.

\* The cycle thread goes on to the next place: it starts on a session, reads,
\* or lets go of one, and the rest stays as it is.
LEMMA CycleMoves ==
  ASSUME IInv, UNCHANGED <<table, d_con, peer, backlog, dc, prompt>>, OwnClosed', TypeInv', Threads',
         cycle.at \notin {"connected", "reset"}, cycle'.at \notin {"connected", "reset"},
         cycle'.at = "respond" => cycle.at = "respond" /\ cycle' = cycle
  PROVE  IInv'
<1> USE DEF IInv
<1>1. OneEach'
  BY OneEachStays
<1>2. Sessions'
  BY DEF Sessions
<1>3. Turns'
  <2>1. ASSUME NEW f \in Fd, Written(f)
        PROVE  Written(f)'
    BY <2>1 DEF Written
  <2>2. \A f \in Fd : table[f] \in 1..MaxConns /\ d_con[peer[table[f]].slave].flags # {} =>
            /\ peer[table[f]].stage # 0
            /\ \A i \in 1..Len(peer[table[f]].out) : peer[table[f]].out[i].kind # "INIT"
    BY DEF Turns
  <2> QED
    BY <1>1, <2>1, <2>2, TurnsStay
<1>4. Clients'
  BY DEF Clients, Client
<1> QED
  BY <1>1, <1>2, <1>3, <1>4 DEF PeerFollows

LEMMA Looks ==
  ASSUME TypeInv, UNCHANGED <<table, d_con, peer, backlog, dc, prompt>>, cycle' = Looking
  PROVE  TypeInv'
  BY DEF TypeInv, Looking, Packet, Sent

LEMMA dcSelectKeeps == ASSUME Tame, IInv, NEW s \in Slave, dcSelect(s) PROVE IInv'
<1> DEFINE f == d_con[s].rSocket
<1>1. /\ cycle.at = "look" /\ "EXPECTDATA" \in d_con[s].flags /\ prompt.slave # s
      /\ UNCHANGED <<table, d_con, peer, backlog, dc, prompt, foreign>>
  BY DEF dcSelect, Tame
<1>2. Open(s) /\ Mine(f, s)
  BY <1>1 DEF IInv, Sessions
<1>3. cycle' = [cycle EXCEPT !.at = "read", !.sock = f, !.slave = s]
  BY <1>2 DEF dcSelect, Free, Unused
<1>4. TypeInv'
  BY <1>1, <1>3 DEF IInv, TypeInv
<1>5. Threads'
  BY <1>1, <1>2, <1>3 DEF IInv, TypeInv, Threads, Idle
<1>6. cycle'.at = "read"
  BY <1>3 DEF IInv, TypeInv
<1>7. OwnClosed'
  BY <1>1 DEF IInv, OwnClosed
<1> QED
  BY <1>1, <1>4, <1>5, <1>6, <1>7, CycleMoves

LEMMA MiscKeeps == IInv /\ Misc => IInv'
<1> SUFFICES ASSUME IInv, Misc PROVE IInv'
  OBVIOUS
<1>1. /\ cycle.at = "respond" /\ UNCHANGED <<table, d_con, peer, backlog, dc, prompt, foreign>>
      /\ cycle' = Looking \/ cycle' = [cycle EXCEPT !.at = "close"]
  BY DEF Misc
<1>2. TypeInv'
  <2>1. CASE cycle' = Looking
    BY <1>1, <2>1, Looks DEF IInv
  <2>2. CASE cycle' = [cycle EXCEPT !.at = "close"]
    BY <1>1, <2>2 DEF IInv, TypeInv
  <2> QED
    BY <1>1, <2>1, <2>2
<1>3. Threads'
  BY <1>1 DEF IInv, TypeInv, Threads, Idle, Looking
<1>4. cycle'.at \in {"look", "close"}
  BY <1>1 DEF IInv, TypeInv, Looking
<1>5. OwnClosed'
  BY <1>1 DEF IInv, OwnClosed
<1> QED
  BY <1>1, <1>2, <1>3, <1>4, <1>5, CycleMoves

LEMMA NegotiatedKeeps == IInv /\ Negotiated => IInv'
<1> SUFFICES ASSUME IInv, Negotiated PROVE IInv'
  OBVIOUS
<1> USE DEF IInv
<1> DEFINE w == cycle.slave
           t == d_con[w].flags
           after == (t \cup {"CONNECTED"}) \ {"EXPECTNEG"}
<1>1. /\ cycle.at = "connected" /\ cycle' = Looking
      /\ d_con' = [d_con EXCEPT ![w].flags = after]
      /\ UNCHANGED <<table, peer, backlog, dc, prompt, foreign>>
  BY DEF Negotiated
<1>2. w \in Slave /\ t # {} /\ t \in Fresh /\ d_con[w] \in [rSocket : Int, flags : Fresh]
  BY <1>1, Holding DEF TypeInv
<1>3. after = {"EXPECTDATA", "INCOMINGNEG", "CONNECTED"}
  BY <1>2 DEF Fresh
<1>4. /\ d_con' \in [Slave -> [rSocket : Int, flags : Fresh]]
      /\ d_con'[w].flags = {"EXPECTDATA", "INCOMINGNEG", "CONNECTED"}
      /\ \A u \in Slave : u # w => d_con'[u].flags = d_con[u].flags
      /\ \A u \in Slave : d_con'[u].rSocket = d_con[u].rSocket
  BY <1>1, <1>2, <1>3 DEF TypeInv, Fresh
<1> HIDE DEF after, t
<1>5. cycle'.at = "look" /\ cycle'.slave = NoSlave
  BY <1>1 DEF Looking
<1>6. TypeInv'
  BY <1>1, <1>4 DEF TypeInv, Looking, Packet, Sent
<1>7. \A c \in 1..Len(peer) : peer[c].slave \in Slave /\ Len(peer[c].got) \in Nat
  BY AnEnd
<1>8. \A u \in Slave : d_con'[u].flags # {} <=> d_con[u].flags # {}
  BY <1>2, <1>4 DEF t
<1>9. OneEach'
  BY <1>1, <1>7, <1>8 DEF OneEach
<1>10. Sessions'
  BY <1>1, <1>4, <1>5, <1>7, <1>8 DEF Sessions, OneEach
<1>11. Threads'
  BY <1>1, <1>4, <1>5, <1>8 DEF Threads, Idle
<1>12. Turns'
  <2>1. ASSUME NEW f \in Fd, table[f] \in 1..MaxConns, peer[table[f]].open
        PROVE  Written(f)'
    <3>1. Written(f) /\ peer[table[f]].slave \in Slave
      BY <2>1, <1>7 DEF Turns, OneEach
    <3>2. CASE peer[table[f]].slave = w
      <4>1. "CONNECTED" \in d_con'[w].flags /\ d_con'[w].flags # {} /\ d_con[w].flags # {}
        BY <1>2, <1>4 DEF t
      <4>2. Len(peer[table[f]].got) \in Nat
        BY <2>1, <1>7 DEF OneEach
      <4>3. /\ cycle.at = "connected" /\ cycle.slave = peer[table[f]].slave
            /\ d_con[peer[table[f]].slave].flags # {} /\ Written(f)
        BY <1>1, <1>2, <3>1, <3>2 DEF t
      <4>5. ~(dc.slave = peer[table[f]].slave /\ dc.at \in {"B", "A"})
        BY <4>3 DEF Written
      <4>6. Len(peer[table[f]].got) >= 3
        BY <4>2, <4>3, <4>5 DEF Written
      <4>4. UNCHANGED <<table, peer, dc>>
        BY <1>1
      <4> HIDE DEF w
      <4> QED
        BY <3>2, <4>1, <4>4, <4>5, <4>6 DEF Written
    <3>3. CASE peer[table[f]].slave # w
      BY <3>1, <3>3, <1>1, <1>4, <1>5 DEF Written
    <3> QED
      BY <3>2, <3>3
  <2>2. \A f \in Fd : table[f] \in 1..MaxConns /\ d_con'[peer[table[f]].slave].flags # {} =>
            /\ peer[table[f]].stage # 0
            /\ \A i \in 1..Len(peer[table[f]].out) : peer[table[f]].out[i].kind # "INIT"
    BY <1>7, <1>8 DEF Turns, OneEach
  <2> QED
    BY <1>1, <2>1, <2>2 DEF Turns
<1>13. Clients'
  BY <1>1, <1>5 DEF Clients, Client
<1> QED
  BY <1>1, <1>6, <1>9, <1>10, <1>11, <1>12, <1>13 DEF PeerFollows, OwnClosed

\* A connection's state is written in the same way when a thread has read from it.
LEMMA ReadersTurn ==
  ASSUME IInv, OutOnly, UNCHANGED <<table, d_con, backlog, dc, prompt>>, cycle.at = "read",
         cycle'.at = "respond"
  PROVE  OneEach' /\ Sessions' /\ Turns'
<1> USE DEF IInv
<1>1. \A f \in Fd : table[f] \in 1..MaxConns =>
        table[f] \in 1..Len(peer) /\ peer'[table[f]].slave = peer[table[f]].slave
  BY DEF OneEach, OutOnly
<1>2. OneEach'
  BY OneEachStays DEF OutOnly
<1>3. Sessions'
  BY <1>1 DEF Sessions
<1>4. Turns'
  <2>1. ASSUME NEW f \in Fd, table[f] \in 1..MaxConns, Written(f)
        PROVE  Written(f)'
    <3>1. peer'[table[f]].slave = peer[table[f]].slave /\ peer'[table[f]].got = peer[table[f]].got
      BY <1>1, <2>1 DEF OutOnly
    <3> QED
      BY <2>1, <3>1 DEF Written
  <2>2. ASSUME NEW f \in Fd, table[f] \in 1..MaxConns, d_con[peer[table[f]].slave].flags # {}
        PROVE  peer'[table[f]].stage # 0 /\ NoInit(peer'[table[f]].out)
    BY <1>1, <2>2 DEF Turns, OutOnly, NoInit
  <2>3. \A i \in 1..Len(backlog) : peer'[backlog[i]].got = peer[backlog[i]].got
    BY DEF OutOnly, OneEach
  <2> QED
    BY <2>1, <2>2, <2>3, TurnsStay DEF OutOnly, NoInit
<1> QED
  BY <1>2, <1>3, <1>4

LEMMA ReadPacketKeeps == IInv /\ ReadPacket => IInv'
<1> SUFFICES ASSUME IInv, ReadPacket PROVE IInv'
  OBVIOUS
<1> DEFINE f == cycle.sock
           c == table[f]
           w == cycle.slave
<1>1. /\ cycle.at = "read" /\ Mine(f, w) /\ w \in Slave /\ Open(w) /\ ~Closing(w)
      /\ d_con[w].rSocket = f
  BY Holding DEF ReadPacket
<1>2. ~Strange(f, w)
  BY <1>1 DEF Strange
<1>3. UNCHANGED <<d_con, backlog, dc, prompt>>
  BY DEF ReadPacket
<1>4. CASE ~net \/ peer[c].out = <<>>
  <2>1. /\ UNCHANGED <<table, peer>> /\ cycle' = [cycle EXCEPT !.at = "close"]
        /\ foreign' = (foreign \/ Strange(f, w))
    BY <1>4 DEF ReadPacket
  <2>2. OwnClosed'
    BY <1>2, <2>1, Zenon DEF IInv, OwnClosed
  <2>3. TypeInv' /\ cycle'.at = "close" /\ cycle'.slave = w
    BY <1>3, <2>1 DEF IInv, TypeInv
  <2>4. Threads'
    BY <1>1, <1>3, <2>1, <2>3 DEF IInv, Threads, Idle
  <2> QED
    BY <1>1, <1>3, <2>1, <2>2, <2>3, <2>4, CycleMoves
<1>5. CASE ~(~net \/ peer[c].out = <<>>)
  <2> DEFINE k == Head(peer[c].out).kind
  <2>1. c \in 1..Len(peer) /\ f \in Fd
    BY <1>1 DEF IInv, OneEach
  <2> DEFINE q == peer[c].out
  <2>13. Head(q) \in Sent
    <3>1. q \in Seq(Sent) /\ q # <<>>
      BY <1>5, <2>1, AnEnd DEF IInv
    <3> HIDE DEF q
    <3> QED
      BY <3>1, Taken
  <2>14. k # "END" /\ k # "LONG"
    BY <2>13 DEF Sent
  <2>2. /\ peer' = [peer EXCEPT ![c].out = Tail(@)] /\ k # "CUT"
    BY <1>1, <1>5, <2>14 DEF ReadPacket
  <2>3. /\ OutOnly /\ NoInit(peer'[c].out) /\ Head(peer[c].out) \in Sent
        /\ Head(peer[c].out) = peer[c].out[1] /\ Len(peer[c].out) >= 1
    BY <1>5, <2>1, <2>2, Reads DEF IInv, Clients
  <2>4. k \in {"INIT", "ACK", "INIT2", "SHORT", "MSG", "BAD"} /\ k # "LONG" /\ k # "END"
    BY <2>2, <2>3 DEF Sent
  <2>5. /\ UNCHANGED table /\ cycle' = [cycle EXCEPT !.at = "respond", !.buf = Packet(k)]
        /\ foreign' = (foreign \/ Strange(f, w))
    BY <1>1, <1>5, <2>4 DEF ReadPacket
  <2>6. OwnClosed'
    BY <1>2, <2>5, Zenon DEF IInv, OwnClosed
  <2>7. Len(peer[c].out) \in Nat /\ 1 \in 1..Len(peer[c].out)
    BY <2>1, <2>3, AnEnd DEF IInv
  <2>8. k # "INIT" /\ (k = "INIT2" => Len(peer[c].got) >= 2)
    <3>1. peer[c].out[1].kind # "INIT"
      BY <1>1, <2>1, <2>7 DEF IInv, Turns
    <3>2. peer[c].out[1].kind = "INIT2" => Len(peer[c].got) >= 2
      BY <2>1, <2>7 DEF IInv, Clients, Client
    <3> QED
      BY <2>3, <3>1, <3>2
  <2> HIDE DEF k, c, f, w
  <2>9. TypeInv' /\ cycle'.at = "respond" /\ cycle'.slave = cycle.slave /\ cycle'.sock = cycle.sock
        /\ cycle'.buf.kind = k
    BY <1>3, <2>3, <2>4, <2>5 DEF IInv, TypeInv, OutOnly, Packet, Sent
  <2>10. Threads'
    BY <1>1, <1>3, <2>3, <2>5, <2>9 DEF IInv, Threads, Idle, OutOnly, OneEach, w, f
  <2>11. OneEach' /\ Sessions' /\ Turns'
    BY <1>1, <1>3, <2>3, <2>5, <2>9, ReadersTurn
  <2>12. Clients'
    <3>1. k = "INIT2" => Len(peer'[c].got) >= 2
      BY <2>1, <2>3, <2>8 DEF OutOnly
    <3>2. table'[cycle'.sock] = c
      BY <2>5, <2>9 DEF c, f
    <3> QED
      BY <2>3, <2>4, <2>8, <2>9, <3>1, <3>2, OutOnlyKeeps DEF Clients
  <2> QED
    BY <2>3, <2>6, <2>9, <2>10, <2>11, <2>12, OutOnlyKeeps DEF IInv
<1> QED
  BY <1>4, <1>5

-----------------------------------------------------------------------------
\* YSM_CloseDC, by the cycle thread or by the prompt: the socket, then the flags.

LEMMA SocketClosed ==
  ASSUME IInv, NEW s \in Slave, Open(s), ~Closing(s), CloseSocket(s),
         UNCHANGED <<d_con, peer, backlog, dc>>, cycle' \in [at : {"look", "read", "respond", "connected", "close", "reset"},
                sock : Int, slave : Slave \cup {NoSlave}, buf : Sent],
         prompt' \in [at : {"idle", "reset"}, slave : Slave \cup {NoSlave}],
         \A t : ((cycle'.at = "reset" /\ cycle'.slave = t) \/ (prompt'.at = "reset" /\ prompt'.slave = t))
                <=> (Closing(t) \/ t = s),
         cycle'.at \in {"respond", "connected"} \/ cycle.at \in {"respond", "connected"} => cycle' = cycle,
         cycle.at = "respond" => cycle.slave # s,
         Threads'
  PROVE  IInv'
<1> USE DEF IInv
<1> DEFINE f == d_con[s].rSocket
<1>1. Mine(f, s)
  BY DEF Sessions
<1>2. /\ f \in Fd /\ table' \in [Fd -> Int] /\ OwnClosed' /\ table'[f] = 0
      /\ \A g \in Fd : g # f => table'[g] = table[g]
      /\ \A g \in Fd : table'[g] \in 1..MaxConns => table'[g] = table[g] /\ g # f
  BY <1>1, ClosesOwn DEF CloseSocket
<1> HIDE DEF f
<1>3. TypeInv'
  BY <1>2 DEF TypeInv
<1>4. OneEach'
  BY <1>2, OneEachStays
<1>5. \A g \in Fd : Mine(g, s) => g = f
  BY <1>1 DEF OneEach
<1>6. Sessions'
  <2>1. ASSUME NEW t \in Slave, Open(t), ~Closing(t), t # s
        PROVE  Mine(d_con[t].rSocket, t)'
    <3>1. Mine(d_con[t].rSocket, t)
      BY <2>1 DEF Sessions
    <3>2. d_con[t].rSocket # f
      BY <3>1, <1>1, <2>1
    <3> QED
      BY <3>1, <3>2, <1>2
  <2>2. ASSUME NEW t \in Slave, Closing(t) \/ t = s
        PROVE  Open(t) /\ \A g \in Fd : ~(table'[g] \in 1..MaxConns /\ peer[table'[g]].slave = t)
    <3>1. CASE Closing(t)
      BY <3>1, <1>2 DEF Sessions
    <3>2. CASE t = s
      BY <3>2, <1>2, <1>5
    <3> QED
      BY <2>2, <3>1, <3>2
  <2>3. ASSUME NEW g \in Fd, table'[g] \in 1..MaxConns
        PROVE  \/ At(g) /\ ~Open(peer[table'[g]].slave)
               \/ ~At(g) /\ Open(peer[table'[g]].slave) /\ d_con[peer[table'[g]].slave].rSocket = g
    BY <2>3, <1>2 DEF Sessions
  <2> QED
    BY <2>1, <2>2, <2>3 DEF Sessions
<1>7. Turns'
  <2>1. ASSUME NEW g \in Fd, table'[g] \in 1..MaxConns, Written(g)
        PROVE  Written(g)'
    <3>1. table'[g] = table[g]
      BY <1>2, <2>1
    <3>2. (cycle'.at = "connected" /\ cycle'.slave = peer[table[g]].slave)
           <=> (cycle.at = "connected" /\ cycle.slave = peer[table[g]].slave)
      OBVIOUS
    <3> QED
      BY <2>1, <3>1, <3>2 DEF Written
  <2>2. \A g \in Fd : table'[g] \in 1..MaxConns /\ d_con'[peer[table[g]].slave].flags # {} =>
            /\ peer[table[g]].stage # 0
            /\ \A i \in 1..Len(peer[table[g]].out) : peer[table[g]].out[i].kind # "INIT"
    BY <1>2 DEF Turns
  <2> QED
    BY <1>2, <2>1, <2>2, TurnsStay
<1>8. Clients'
  <2>1. ASSUME cycle'.at = "respond"
        PROVE  cycle' = cycle /\ table'[cycle.sock] = table[cycle.sock]
    <3>1. cycle' = cycle
      BY <2>1
    <3>2. Mine(cycle.sock, cycle.slave) /\ cycle.slave # s
      BY <2>1, <3>1, Holding
    <3> QED
      BY <3>1, <3>2, <1>1, <1>2
  <2> QED
    BY <2>1 DEF Clients, Client
<1> QED
  BY <1>2, <1>3, <1>4, <1>6, <1>7, <1>8 DEF PeerFollows

LEMMA FlagsReset ==
  ASSUME IInv, NEW s \in Slave, Closing(s), ResetFlags(s), TypeInv', Threads',
         UNCHANGED <<table, peer, backlog, dc, foreign>>,
         \A t : ((cycle'.at = "reset" /\ cycle'.slave = t) \/ (prompt'.at = "reset" /\ prompt'.slave = t))
                <=> (Closing(t) /\ t # s),
         cycle' = cycle \/ (cycle.at = "reset" /\ cycle'.at = "look")
  PROVE  IInv'
<1> USE DEF IInv
<1>1. /\ d_con'[s].flags = {} /\ \A t \in Slave : d_con'[t].rSocket = d_con[t].rSocket
      /\ \A t \in Slave : t # s => d_con'[t] = d_con[t]
  BY DEF ResetFlags, TypeInv
<1>2. Open(s) /\ \A f \in Fd : ~Mine(f, s)
  BY DEF Sessions
<1>3. \A c \in 1..Len(peer) : peer[c].slave \in Slave
  BY AnEnd
<1>4. \A f \in Fd : table[f] \in 1..MaxConns => peer[table[f]].slave # s /\ peer[table[f]].slave \in Slave
  BY <1>2, <1>3 DEF OneEach
<1>5. OneEach'
  <2>1. ASSUME NEW i \in 1..Len(backlog)
        PROVE  d_con'[peer[backlog[i]].slave].flags = {}
    <3>1. peer[backlog[i]].slave \in Slave /\ d_con[peer[backlog[i]].slave].flags = {}
      BY <1>3 DEF OneEach
    <3> QED
      BY <3>1, <1>1
  <2> QED
    BY <2>1 DEF OneEach
<1>6. Sessions'
  BY <1>1, <1>2, <1>4 DEF Sessions
<1>7. Turns'
  <2>1. ASSUME NEW f \in Fd, table[f] \in 1..MaxConns, Written(f)
        PROVE  Written(f)'
    <3>1. d_con'[peer[table[f]].slave] = d_con[peer[table[f]].slave]
      BY <2>1, <1>1, <1>4
    <3>2. (cycle'.at = "connected" /\ cycle'.slave = peer[table[f]].slave)
           <=> (cycle.at = "connected" /\ cycle.slave = peer[table[f]].slave)
      OBVIOUS
    <3> QED
      BY <2>1, <3>1, <3>2 DEF Written
  <2>2. \A f \in Fd : table[f] \in 1..MaxConns =>
            /\ peer[table[f]].stage # 0
            /\ \A i \in 1..Len(peer[table[f]].out) : peer[table[f]].out[i].kind # "INIT"
          \/ d_con'[peer[table[f]].slave].flags = {}
    BY <1>1, <1>4 DEF Turns
  <2>3. \A i \in 1..Len(backlog) : Len(peer[backlog[i]].got) = 0
    BY DEF Turns
  <2> QED
    BY <2>1, <2>2, <2>3 DEF Turns
<1>8. Clients'
  BY DEF Clients, Client
<1> QED
  BY <1>5, <1>6, <1>7, <1>8 DEF PeerFollows, OwnClosed

LEMMA ResetKeepsType ==
  ASSUME TypeInv, NEW s, ResetFlags(s)
  PROVE  d_con' \in [Slave -> [rSocket : Int, flags : Fresh]]
<1>1. d_con \in [Slave -> [rSocket : Int, flags : Fresh]] /\ {} \in Fresh
  BY DEF TypeInv, Fresh
<1> QED
  BY <1>1 DEF ResetFlags

LEMMA CycleClosesKeeps == IInv /\ CycleCloses => IInv'
<1> SUFFICES ASSUME IInv, CycleCloses PROVE IInv'
  OBVIOUS
<1> DEFINE s == cycle.slave
<1>1. CASE /\ cycle.at = "close" /\ CloseSocket(s) /\ cycle' = [cycle EXCEPT !.at = "reset"]
           /\ UNCHANGED <<d_con, peer, backlog, dc, prompt>>
  <2>1. s \in Slave /\ Open(s) /\ ~Closing(s) /\ Mine(d_con[s].rSocket, s)
    BY <1>1, Holding
  <2>2. /\ cycle' \in [at : {"look", "read", "respond", "connected", "close", "reset"},
                sock : Int, slave : Slave \cup {NoSlave}, buf : Sent]
        /\ prompt' \in [at : {"idle", "reset"}, slave : Slave \cup {NoSlave}]
        /\ cycle'.at = "reset" /\ cycle'.slave = s /\ cycle'.sock = cycle.sock
    BY <1>1 DEF IInv, TypeInv
  <2>3. ~(prompt.at = "reset" /\ prompt.slave = s) /\ cycle.at = "close"
    BY <1>1, <2>1
  <2>4. \A f \in Fd : table'[f] \in 1..MaxConns => table'[f] = table[f]
    BY <1>1, <2>1, ClosesOwn DEF CloseSocket, IInv
  <2>5. Threads'
    <3>1. dc'.at = "first" => table'[dc'.sock] \in 1..MaxConns /\ dc'.sock \in Fd
      <4>1. dc.at = "first" => dc.sock # d_con[s].rSocket
        BY <2>1 DEF IInv, Threads, Sessions
      <4>2. \A f \in Fd : f # d_con[s].rSocket => table'[f] = table[f]
        BY <1>1, <2>1, ClosesOwn DEF CloseSocket, IInv
      <4> QED
        BY <1>1, <4>1, <4>2 DEF IInv, Threads
    <3> QED
      BY <1>1, <2>1, <2>2, <2>3, <2>4, <3>1 DEF IInv, Threads, Idle
  <2> QED
    BY <1>1, <2>1, <2>2, <2>3, <2>5, SocketClosed
<1>2. CASE /\ cycle.at = "reset" /\ ResetFlags(s) /\ cycle' = Looking
           /\ UNCHANGED <<table, peer, backlog, dc, prompt, foreign>>
  <2>1. s \in Slave /\ Closing(s) /\ cycle'.at = "look" /\ cycle'.slave = NoSlave
        /\ ~(prompt.at = "reset" /\ prompt.slave = s)
    BY <1>2 DEF IInv, Threads, Looking
  <2>2. TypeInv'
    <3>1. d_con' \in [Slave -> [rSocket : Int, flags : Fresh]]
      BY <1>2, ResetKeepsType DEF IInv
    <3>2. Looking \in [at : {"look", "read", "respond", "connected", "close", "reset"},
                sock : Int, slave : Slave \cup {NoSlave}, buf : Sent]
      BY DEF Looking, Packet, Sent
    <3> QED
      BY <1>2, <3>1, <3>2 DEF IInv, TypeInv
  <2>3. \A t \in Slave : d_con'[t].rSocket = d_con[t].rSocket
    BY <1>2 DEF ResetFlags, IInv, TypeInv
  <2>4. Threads'
    BY <1>2, <2>1, <2>3 DEF IInv, Threads, Idle
  <2> QED
    BY <1>2, <2>1, <2>2, <2>4, FlagsReset
<1> QED
  BY <1>1, <1>2 DEF CycleCloses

-----------------------------------------------------------------------------
\* The prompt.

LEMMA cmdCLOSEDCKeeps == ASSUME Tame, IInv, NEW s \in Slave, cmdCLOSEDC(s) PROVE IInv'
<1>1. /\ prompt.at = "idle" /\ "EXPECTDATA" \in d_con[s].flags /\ cycle.slave # s /\ dc.slave # s
      /\ CloseSocket(s) /\ prompt' = [at |-> "reset", slave |-> s]
      /\ UNCHANGED <<d_con, peer, backlog, dc, cycle>>
  BY DEF cmdCLOSEDC, Tame
<1>2. Open(s) /\ ~Closing(s)
  BY <1>1
<1>3. Mine(d_con[s].rSocket, s)
  BY <1>2 DEF IInv, Sessions
<1>4. \A f \in Fd : table'[f] \in 1..MaxConns => table'[f] = table[f]
  BY <1>1, <1>3, ClosesOwn DEF CloseSocket, IInv
<1>5. Threads'
  <2>1. dc'.at = "first" => table'[dc'.sock] \in 1..MaxConns /\ dc'.sock \in Fd
    <3>1. dc.at = "first" => dc.sock # d_con[s].rSocket
      BY <1>2, <1>3 DEF IInv, Threads, Sessions
    <3>2. \A f \in Fd : f # d_con[s].rSocket => table'[f] = table[f]
      BY <1>1, <1>3, ClosesOwn DEF CloseSocket, IInv
    <3> QED
      BY <1>1, <3>1, <3>2 DEF IInv, Threads
  <2>2. /\ prompt'.at = "reset" /\ prompt'.slave = s /\ cycle' = cycle
    BY <1>1
  <2> QED
    BY <1>1, <1>4, <2>1, <2>2 DEF IInv, Threads, Idle
<1>6. /\ cycle' \in [at : {"look", "read", "respond", "connected", "close", "reset"},
                sock : Int, slave : Slave \cup {NoSlave}, buf : Sent]
      /\ prompt' \in [at : {"idle", "reset"}, slave : Slave \cup {NoSlave}]
  BY <1>1 DEF IInv, TypeInv
<1>7. prompt'.at = "reset" /\ prompt'.slave = s /\ prompt.at = "idle"
  BY <1>1
<1> QED
  BY <1>1, <1>2, <1>5, <1>6, <1>7, SocketClosed

LEMMA PromptResetsKeeps == IInv /\ PromptResets => IInv'
<1> SUFFICES ASSUME IInv, PromptResets PROVE IInv'
  OBVIOUS
<1> DEFINE s == prompt.slave
<1>1. /\ prompt.at = "reset" /\ ResetFlags(s) /\ prompt' = [at |-> "idle", slave |-> NoSlave]
      /\ UNCHANGED <<table, peer, backlog, dc, cycle, foreign>>
  BY DEF PromptResets
<1>2. s \in Slave /\ Closing(s) /\ prompt'.at = "idle" /\ prompt'.slave = NoSlave
      /\ ~(cycle.at = "reset" /\ cycle.slave = s) /\ (cycle.at # "look" => cycle.slave # s)
  BY <1>1 DEF IInv, Threads, TypeInv
<1>3. TypeInv'
  BY <1>1, ResetKeepsType DEF IInv, TypeInv
<1>4. \A t \in Slave : d_con'[t].rSocket = d_con[t].rSocket /\ (t # s => d_con'[t] = d_con[t])
  BY <1>1 DEF ResetFlags, IInv, TypeInv
<1>5. Threads'
  BY <1>1, <1>2, <1>4 DEF IInv, Threads, Idle
<1> QED
  BY <1>1, <1>2, <1>3, <1>5, FlagsReset

-----------------------------------------------------------------------------
\* A write that fails leaves the connections alone and hands the thread over to
\* the connection to the server.
LEMMA Broke ==
  ASSUME TypeInv, NEW f, Broken(f), NEW ps, Put(f, ps)
  PROVE  /\ UNCHANGED peer /\ table' \in [Fd -> Int]
         /\ \A g \in Fd : /\ table[g] \in 1..MaxConns => table'[g] = table[g]
                          /\ table'[g] \in 1..MaxConns => table'[g] = table[g]
  BY DEF TypeInv, Put, ToServer, Unused

\* The state stays sound when a write has failed and the writer has gone on.
LEMMA GoesOnBroken ==
  ASSUME IInv, NEW s, UNCHANGED <<d_con, peer, backlog, prompt, foreign>>,
         \A g \in Fd : /\ table[g] \in 1..MaxConns => table'[g] = table[g]
                       /\ table'[g] \in 1..MaxConns => table'[g] = table[g],
         \A g \in Fd : Mine(g, s) => ~peer[table[g]].open,
         TypeInv', Threads',
         \A t : (cycle'.at = "reset" /\ cycle'.slave = t) <=> (cycle.at = "reset" /\ cycle.slave = t),
         \A t : t # s => ((cycle'.at = "connected" /\ cycle'.slave = t) <=> (cycle.at = "connected" /\ cycle.slave = t)),
         \A t : t # s => ((dc'.slave = t /\ dc'.at \in {"B", "A"}) <=> (dc.slave = t /\ dc.at \in {"B", "A"})),
         dc'.at # dc.at => dc.slave = s,
         dc'.at = "first" <=> dc.at = "first", dc'.sock = dc.sock \/ dc.at # "first",
         cycle'.at = "respond" => cycle' = cycle
  PROVE  IInv'
<1> USE DEF IInv
<1>1. OneEach'
  BY OneEachStays
<1>2. Sessions'
  <2>1. \A t : Closing(t)' <=> Closing(t)
    OBVIOUS
  <2>2. \A t \in Slave : Open(t) /\ ~Closing(t) => Mine(d_con[t].rSocket, t)'
    BY DEF Sessions
  <2>3. \A t \in Slave : Closing(t) => Open(t) /\ \A g \in Fd : ~(table'[g] \in 1..MaxConns /\ peer[table'[g]].slave = t)
    BY DEF Sessions
  <2>4. \A g \in Fd : At(g)' <=> At(g)
    OBVIOUS
  <2>5. ASSUME NEW g \in Fd, table'[g] \in 1..MaxConns
        PROVE  \/ At(g) /\ ~Open(peer[table'[g]].slave)
               \/ ~At(g) /\ Open(peer[table'[g]].slave) /\ d_con[peer[table'[g]].slave].rSocket = g
    BY <2>5 DEF Sessions
  <2> QED
    BY <2>1, <2>2, <2>3, <2>4, <2>5 DEF Sessions
<1>3. Turns'
  <2>1. ASSUME NEW g \in Fd, table'[g] \in 1..MaxConns, peer[table[g]].open, Written(g)
        PROVE  Written(g)'
    <3>1. table'[g] = table[g] /\ peer[table[g]].slave # s
      BY <2>1
    <3>3. /\ (cycle'.at = "connected" /\ cycle'.slave = peer[table[g]].slave)
               <=> (cycle.at = "connected" /\ cycle.slave = peer[table[g]].slave)
          /\ (dc'.slave = peer[table[g]].slave /\ dc'.at \in {"B", "A"})
               <=> (dc.slave = peer[table[g]].slave /\ dc.at \in {"B", "A"})
          /\ dc.slave = peer[table[g]].slave => dc'.at = dc.at
      BY <3>1
    <3> QED
      BY <2>1, <3>1, <3>3 DEF Written
  <2>2. \A f \in Fd : table'[f] \in 1..MaxConns /\ d_con[peer[table[f]].slave].flags # {} =>
            /\ peer[table[f]].stage # 0
            /\ \A i \in 1..Len(peer[table[f]].out) : peer[table[f]].out[i].kind # "INIT"
    BY DEF Turns
  <2> QED
    BY <2>1, <2>2, TurnsStay
<1>4. Clients'
  <2>1. ASSUME cycle'.at = "respond"
        PROVE  cycle' = cycle /\ table'[cycle.sock] = table[cycle.sock]
    BY <2>1, Holding
  <2> QED
    BY <2>1 DEF Clients, Client
<1> QED
  BY <1>1, <1>2, <1>3, <1>4 DEF PeerFollows, OwnClosed

-----------------------------------------------------------------------------
\* What the two threads write.

LEMMA InitBAKeeps == IInv /\ InitBA => IInv'
<1> SUFFICES ASSUME IInv, InitBA PROVE IInv'
  OBVIOUS
<1>7. PICK w : w = dc.slave
  OBVIOUS
<1>8. PICK f : f = d_con[w].rSocket
  OBVIOUS
<1> USE <1>7, <1>8
<1> DEFINE k == IF dc.at = "B" THEN "ACK" ELSE "INIT"
           c == table[f]
           x == Packet(k)
<1>1. /\ dc.at \in {"B", "A"} /\ Put(f, <<x>>)
      /\ dc' = IF dc.at = "B" THEN [dc EXCEPT !.at = "A"] ELSE Idle
      /\ UNCHANGED <<d_con, backlog, cycle, prompt, foreign>>
  BY DEF InitBA
<1>2. w \in Slave /\ \A g \in Fd : IsConn(g) /\ f = g => Mine(g, w)
  BY <1>1 DEF IInv, Threads
<1>3. /\ dc'.at \in {"A", "idle"} /\ dc'.at # dc.at /\ (dc'.at = "A" => dc'.slave = w)
      /\ (dc'.at = "A" <=> dc.at = "B") /\ (dc'.at = "idle" => dc' = Idle)
      /\ dc' \in [at : {"idle", "first", "B", "A"}, sock : Int, slave : Slave \cup {NoSlave}]
  <2>1. CASE dc.at = "B"
    BY <1>1, <2>1 DEF IInv, TypeInv
  <2>2. CASE dc.at = "A"
    BY <1>1, <2>2 DEF Idle
  <2> QED
    BY <1>1, <2>1, <2>2
<1>4. \A t : t # w => ((dc'.slave = t /\ dc'.at \in {"B", "A"}) <=> (dc.slave = t /\ dc.at \in {"B", "A"}))
  BY <1>3
<1>5. CASE Broken(f)
  <2>1. /\ UNCHANGED peer /\ table' \in [Fd -> Int]
        /\ \A g \in Fd : /\ table[g] \in 1..MaxConns => table'[g] = table[g]
                         /\ table'[g] \in 1..MaxConns => table'[g] = table[g]
    BY <1>1, <1>5, Broke DEF IInv
  <2>2. \A g \in Fd : Mine(g, w) => ~peer[table[g]].open
    BY <1>1, <1>2, <1>5 DEF IInv, Sessions, Broken
  <2>3. TypeInv'
    BY <1>1, <1>3, <2>1 DEF IInv, TypeInv
  <2>4. Threads'
    BY <1>1, <1>2, <1>3, <2>1 DEF IInv, Threads
  <2> QED
    BY <1>1, <1>3, <1>4, <2>1, <2>2, <2>3, <2>4, GoesOnBroken
<1>6. CASE ~Broken(f)
  <2>1. f \in Fd /\ Mine(f, w) /\ peer[c].open /\ c \in 1..Len(peer)
    BY <1>2, <1>6 DEF Broken, IInv, OneEach
  <2>2. UNCHANGED table /\ peer' = [peer EXCEPT ![c].got = @ \o <<x>>]
    BY <1>1, <1>6 DEF Put
  <2>3. Open(w) /\ Written(f)
    BY <1>1, <2>1 DEF IInv, Sessions, Turns
  <2>4. Len(peer[c].got) = (IF dc.at = "B" THEN 0 ELSE 1) /\ "CONNECTED" \notin d_con[w].flags
        /\ ~(cycle.at = "connected" /\ cycle.slave = w)
    BY <1>1, <2>1, <2>3 DEF Written
  <2>5. x \in Answers \cup Spoken /\ x.kind = k
    BY DEF Packet, Answers
  <2>6. x.kind = IF Len(peer[c].got) < 3 THEN Handshake[Len(peer[c].got) + 1] ELSE "MSG"
    BY <1>1, <2>4, <2>5 DEF Handshake
  <2> HIDE DEF x, k, c
  <2>7. GotOnly(c) /\ PeerFollows'
    BY <2>1, <2>2, <2>5, <2>6, Writes DEF IInv
  <2>8. TypeInv'
    BY <1>1, <1>3, <2>2, <2>7 DEF IInv, TypeInv, GotOnly
  <2>9. \A g \in Fd : table[g] \in 1..MaxConns => peer'[table[g]].slave = peer[table[g]].slave
    BY <2>7 DEF IInv, OneEach, GotOnly
  <2>10. Threads'
    BY <1>1, <1>2, <1>3, <2>2, <2>9 DEF IInv, Threads
  <2>11. Written(f)'
    <3>1. /\ Len(peer'[c].got) = (IF dc.at = "B" THEN 1 ELSE 2) /\ table'[f] = c /\ peer'[c].slave = w
          /\ d_con' = d_con /\ cycle' = cycle
      <4>1. Len(peer'[c].got) = Len(peer[c].got) + 1 /\ peer'[c].slave = peer[c].slave
        BY <2>1, <2>7 DEF GotOnly
      <4>2. table'[f] = c /\ peer[c].slave = w
        BY <2>1, <2>2 DEF c
      <4>3. d_con' = d_con /\ cycle' = cycle
        BY <1>1
      <4> QED
        BY <2>4, <4>1, <4>2, <4>3
    <3>4. /\ d_con'[peer'[table'[f]].slave].flags # {}
          /\ "CONNECTED" \notin d_con'[peer'[table'[f]].slave].flags
          /\ ~(cycle'.at = "connected" /\ cycle'.slave = peer'[table'[f]].slave)
      BY <3>1, <2>3, <2>4
    <3>2. CASE dc.at = "B"
      <4>1. dc'.at = "A" /\ dc'.slave = peer'[table'[f]].slave /\ Len(peer'[table'[f]].got) = 1
        BY <3>1, <3>2, <1>3
      <4> QED
        BY <3>4, <4>1 DEF Written
    <3>3. CASE dc.at = "A"
      <4>1. dc'.at = "idle" /\ Len(peer'[table'[f]].got) = 2
        BY <3>1, <3>3, <1>3
      <4> QED
        BY <3>4, <4>1 DEF Written
    <3> QED
      BY <1>1, <3>2, <3>3
  <2>12. /\ dc'.at # "first" /\ dc.at # "first" /\ cycle' = cycle /\ dc.slave = w /\ GotOnly(table[f])
         /\ UNCHANGED <<table, d_con, backlog, prompt, foreign>>
    BY <1>1, <1>3, <2>2, <2>7 DEF c
  <2> QED
    <3>1. \A t : (cycle'.at = "reset" /\ cycle'.slave = t) <=> (cycle.at = "reset" /\ cycle.slave = t)
      BY <2>12
    <3>2. \A t : t # w => ((cycle'.at = "connected" /\ cycle'.slave = t)
                          <=> (cycle.at = "connected" /\ cycle.slave = t))
      BY <2>12
    <3> QED
      BY <1>4, <2>1, <2>3, <2>7, <2>8, <2>10, <2>11, <2>12, <3>1, <3>2, WriterGoesOn
<1> QED
  BY <1>5, <1>6

LEMMA NegotiatesKeeps == IInv /\ Negotiates => IInv'
<1> SUFFICES ASSUME IInv, Negotiates PROVE IInv'
  OBVIOUS
<1>7. PICK w : w = cycle.slave
  OBVIOUS
<1>8. PICK f : f = cycle.sock
  OBVIOUS
<1> USE <1>7, <1>8
<1>1. /\ cycle.at = "respond" /\ "EXPECTNEG" \in d_con[w].flags
      /\ UNCHANGED <<d_con, backlog, dc, prompt>>
  BY DEF Negotiates, Flag
<1>2. /\ w \in Slave /\ Open(w) /\ ~Closing(w) /\ Mine(f, w) /\ d_con[w].rSocket = f
  BY <1>1, Holding
<1>3. cycle.buf.kind \in {"ACK", "INIT2", "SHORT", "MSG", "BAD"}
  BY <1>1 DEF IInv, TypeInv, Sent, Clients
<1>4. CASE cycle.buf.kind # "INIT2"
  <2>1. /\ UNCHANGED <<table, peer, foreign>>
        /\ cycle' = Looking \/ cycle' = [cycle EXCEPT !.at = "close"]
    BY <1>3, <1>4 DEF Negotiates
  <2>2. TypeInv'
    <3>1. CASE cycle' = Looking
      BY <1>1, <2>1, <3>1, Looks DEF IInv
    <3>2. CASE cycle' = [cycle EXCEPT !.at = "close"]
      BY <1>1, <2>1, <3>2 DEF IInv, TypeInv
    <3> QED
      BY <2>1, <3>1, <3>2
  <2>3. Threads'
    BY <1>1, <2>1 DEF IInv, TypeInv, Threads, Idle, Looking
  <2>4. cycle'.at \in {"look", "close"}
    BY <2>1 DEF IInv, TypeInv, Looking
  <2>5. OwnClosed'
    BY <2>1 DEF IInv, OwnClosed
  <2> QED
    BY <1>1, <2>1, <2>2, <2>3, <2>4, <2>5, CycleMoves
<1>5. CASE cycle.buf.kind = "INIT2"
  <2>1. /\ Put(f, <<Packet("INIT2")>>) /\ cycle' = [cycle EXCEPT !.at = "connected"] /\ UNCHANGED foreign
    BY <1>5 DEF Negotiates
  <2>2. /\ cycle'.at = "connected" /\ cycle'.slave = w /\ cycle'.sock = f
        /\ cycle' \in [at : {"look", "read", "respond", "connected", "close", "reset"},
                sock : Int, slave : Slave \cup {NoSlave}, buf : Sent]
    BY <2>1 DEF IInv, TypeInv
  <2>3. \A t : (cycle'.at = "reset" /\ cycle'.slave = t) <=> (cycle.at = "reset" /\ cycle.slave = t)
    BY <1>1, <2>2
  <2>4. \A t : t # w => ((cycle'.at = "connected" /\ cycle'.slave = t)
                          <=> (cycle.at = "connected" /\ cycle.slave = t))
    BY <1>1, <2>2
  <2>5. \A t : t # w => ((dc'.slave = t /\ dc'.at \in {"B", "A"}) <=> (dc.slave = t /\ dc.at \in {"B", "A"}))
    BY <1>1
  <2>6. cycle'.at # "respond" /\ dc' = dc
    BY <1>1, <2>2
  <2>7. CASE Broken(f)
    <3>1. /\ UNCHANGED peer /\ table' \in [Fd -> Int]
          /\ \A g \in Fd : /\ table[g] \in 1..MaxConns => table'[g] = table[g]
                           /\ table'[g] \in 1..MaxConns => table'[g] = table[g]
      BY <2>1, <2>7, Broke DEF IInv
    <3>2. \A g \in Fd : Mine(g, w) => ~peer[table[g]].open
      BY <1>2, <2>7 DEF IInv, OneEach, Broken
    <3>3. TypeInv'
      BY <1>1, <2>2, <3>1 DEF IInv, TypeInv
    <3>4. Threads'
      BY <1>1, <1>2, <2>2, <3>1 DEF IInv, Threads, Idle
    <3> QED
      BY <1>1, <2>1, <2>3, <2>4, <2>5, <2>6, <3>1, <3>2, <3>3, <3>4, GoesOnBroken
  <2>8. CASE ~Broken(f)
    <3> DEFINE x == Packet("INIT2")
               c == table[f]
    <3>1. f \in Fd /\ peer[c].open /\ c \in 1..Len(peer) /\ peer[c].slave = w
      BY <1>2, <2>8 DEF Broken, IInv, OneEach
    <3>2. UNCHANGED table /\ peer' = [peer EXCEPT ![c].got = @ \o <<x>>]
      BY <2>1, <2>8 DEF Put
    <3>3. Written(f) /\ Len(peer[c].got) \in Nat /\ Len(peer[c].got) >= 2
      BY <1>1, <1>2, <1>5, <3>1, AnEnd DEF IInv, Turns, Clients
    <3>4. ~(dc.slave = w /\ dc.at \in {"B", "A"})
      BY <1>2, <3>1, <3>3 DEF Written
    <3>5. "CONNECTED" \notin d_con[w].flags
      <4>1. d_con[w].flags \in Fresh
        BY <1>2 DEF IInv, TypeInv
      <4> QED
        BY <1>1, <4>1 DEF Fresh
    <3>6. Len(peer[c].got) = 2
      BY <1>1, <1>2, <3>1, <3>3, <3>4, <3>5 DEF Written
    <3>7. x \in Answers \cup Spoken /\ x.kind = "INIT2"
      BY DEF Packet, Answers
    <3>8. x.kind = IF Len(peer[c].got) < 3 THEN Handshake[Len(peer[c].got) + 1] ELSE "MSG"
      BY <3>6, <3>7 DEF Handshake
    <3> HIDE DEF x, c
    <3>9. GotOnly(c) /\ PeerFollows'
      BY <3>1, <3>2, <3>7, <3>8, Writes DEF IInv
    <3>10. TypeInv'
      BY <1>1, <2>2, <3>2, <3>9 DEF IInv, TypeInv, GotOnly
    <3>11. \A g \in Fd : table[g] \in 1..MaxConns => peer'[table[g]].slave = peer[table[g]].slave
      BY <3>9 DEF IInv, OneEach, GotOnly
    <3>12. Threads'
      BY <1>1, <1>2, <2>2, <3>2, <3>11 DEF IInv, Threads, Idle
    <3>13. Written(f)'
      <4>1. Len(peer'[c].got) = 3 /\ peer'[c].slave = w /\ table'[f] = c
        BY <3>1, <3>2, <3>6, <3>9 DEF GotOnly, c
      <4>2. /\ d_con'[peer'[table'[f]].slave].flags # {} /\ "CONNECTED" \notin d_con'[peer'[table'[f]].slave].flags
            /\ ~(dc'.slave = peer'[table'[f]].slave /\ dc'.at \in {"B", "A"})
            /\ cycle'.at = "connected" /\ cycle'.slave = peer'[table'[f]].slave
        BY <1>1, <1>2, <2>2, <3>4, <3>5, <4>1
      <4> QED
        BY <4>1, <4>2 DEF Written
    <3>14. GotOnly(table[f])
      BY <3>9 DEF c
    <3> QED
      BY <1>1, <1>2, <2>1, <2>3, <2>4, <2>5, <2>6, <3>2, <3>9, <3>10, <3>12, <3>13, <3>14, WriterGoesOn
  <2> QED
    BY <2>7, <2>8
<1> QED
  BY <1>4, <1>5

-----------------------------------------------------------------------------
\* A message over the connection.

LEMMA MessageKeeps ==
  ASSUME Tame, IInv, NEW s \in Slave, NEW text \in Texts, NEW m1 \in Draws(text), YSM_DC_Message(s, text, m1)
  PROVE  IInv'
<1>1. PICK f : f = d_con[s].rSocket
  OBVIOUS
<1>2. /\ prompt.at = "idle" /\ "CONNECTED" \in d_con[s].flags /\ cycle.slave # s
      /\ UNCHANGED <<table, d_con, backlog, dc, cycle, prompt, foreign>>
  BY DEF YSM_DC_Message, Tame
<1>3. Open(s) /\ ~Closing(s)
  BY <1>2
<1>4. Mine(f, s)
  BY <1>1, <1>3 DEF IInv, Sessions
<1>5. \A t : (cycle'.at = "reset" /\ cycle'.slave = t) <=> (cycle.at = "reset" /\ cycle.slave = t)
  BY <1>2
<1>6. \A t : t # s => ((cycle'.at = "connected" /\ cycle'.slave = t)
                          <=> (cycle.at = "connected" /\ cycle.slave = t))
  BY <1>2
<1>7. \A t : t # s => ((dc'.slave = t /\ dc'.at \in {"B", "A"}) <=> (dc.slave = t /\ dc.at \in {"B", "A"}))
  BY <1>2
<1>8. CASE Broken(f)
  <2>1. UNCHANGED peer
    BY <1>1, <1>8 DEF YSM_DC_Message
  <2>2. TypeInv' /\ Threads'
    BY <1>2, <2>1 DEF IInv, TypeInv, Threads, Idle
  <2>3. \A g \in Fd : Mine(g, s) => ~peer[table[g]].open
    BY <1>4, <1>8 DEF IInv, OneEach, Broken
  <2> QED
    BY <1>2, <1>5, <1>6, <1>7, <2>1, <2>2, <2>3, GoesOnBroken
<1>9. CASE ~Broken(f)
  <2> DEFINE x == Arrives[text][m1]
             c == table[f]
  <2>1. f \in Fd /\ peer[c].open /\ c \in 1..Len(peer) /\ peer[c].slave = s
    BY <1>4, <1>9 DEF Broken, IInv, OneEach
  <2>2. peer[c].got \in Seq(Answers \cup Spoken)
    BY <2>1, AnEnd DEF IInv
  <2>3. x \in Answers \cup Spoken /\ x.kind = "MSG"
    <3>1. x = Received(text, m1)
      BY DEF Arrives
    <3>2. Received(text, m1).kind = "MSG"
      BY DEF Received
    <3>3. x \in Spoken
      BY DEF Spoken
    <3> QED
      BY <3>1, <3>2, <3>3
  <2>4. peer' = [peer EXCEPT ![c].got = @ \o <<x>>]
    <3>1. peer' = [peer EXCEPT ![c].got = Append(@, x)]
      BY <1>1, <1>9 DEF YSM_DC_Message
    <3>2. Append(peer[c].got, x) = peer[c].got \o <<x>>
      <4> HIDE DEF x, c
      <4> QED
        BY <2>2, <2>3
    <3> QED
      BY <3>1, <3>2
  <2>5. Written(f) /\ Len(peer[c].got) \in Nat
    BY <1>4, <2>1, AnEnd DEF IInv, Turns
  <2>6. ~(dc.slave = s /\ dc.at \in {"B", "A"}) /\ Len(peer[c].got) >= 3
    <3>1. ~(dc.slave = s /\ dc.at \in {"B", "A"})
      BY <1>2, <1>3, <2>1, <2>5 DEF Written
    <3> QED
      BY <1>2, <1>3, <2>1, <2>5, <3>1 DEF Written
  <2>7. x.kind = IF Len(peer[c].got) < 3 THEN Handshake[Len(peer[c].got) + 1] ELSE "MSG"
    BY <2>3, <2>5, <2>6
  <2> HIDE DEF x, c
  <2>8. GotOnly(c) /\ PeerFollows'
    BY <2>1, <2>3, <2>4, <2>7, Writes DEF IInv
  <2>9. TypeInv'
    BY <1>2, <2>8 DEF IInv, TypeInv, GotOnly
  <2>10. \A g \in Fd : table[g] \in 1..MaxConns => peer'[table[g]].slave = peer[table[g]].slave
    BY <2>8 DEF IInv, OneEach, GotOnly
  <2>11. Threads'
    BY <1>2, <2>10 DEF IInv, Threads, Idle
  <2>12. Written(f)'
    <3>1. Len(peer'[c].got) >= 3 /\ peer'[c].slave = s /\ table'[f] = c
      BY <1>2, <2>1, <2>5, <2>6, <2>8 DEF GotOnly, c
    <3>2. /\ d_con'[peer'[table'[f]].slave].flags # {} /\ "CONNECTED" \in d_con'[peer'[table'[f]].slave].flags
          /\ ~(dc'.slave = peer'[table'[f]].slave /\ dc'.at \in {"B", "A"})
      BY <1>2, <1>3, <2>6, <3>1
    <3> QED
      BY <3>1, <3>2 DEF Written
  <2>13. GotOnly(table[f])
    BY <2>8 DEF c
  <2> QED
    BY <1>2, <1>3, <1>4, <1>5, <1>6, <1>7, <2>8, <2>9, <2>11, <2>12, <2>13, WriterGoesOn
<1> QED
  BY <1>8, <1>9

-----------------------------------------------------------------------------
\* dcThread takes a connection and reads its first packet.

LEMMA AcceptsKeeps == IInv /\ Accepts => IInv'
<1> SUFFICES ASSUME IInv, Accepts PROVE IInv'
  OBVIOUS
<1> USE DEF IInv
<1>1. PICK f : f = Lowest
  OBVIOUS
<1>2. PICK c : c = Head(backlog)
  OBVIOUS
<1>3. /\ dc.at = "idle" /\ backlog # <<>> /\ f \in Fd /\ table[f] = 0
      /\ table' = [table EXCEPT ![f] = c] /\ backlog' = Tail(backlog)
      /\ dc' = [at |-> "first", sock |-> f, slave |-> NoSlave]
      /\ UNCHANGED <<d_con, peer, cycle, prompt, foreign>>
  BY <1>1, <1>2, LowestIsFree DEF Accepts, Free, Unused
<1>4. /\ backlog \in Seq(1..MaxConns) /\ Len(backlog) \in Nat \ {0} /\ c = backlog[1] /\ c \in 1..MaxConns
      /\ Tail(backlog) \in Seq(1..MaxConns) /\ Len(backlog') = Len(backlog) - 1
      /\ \A i \in 1..Len(backlog)-1 : backlog'[i] = backlog[i+1]
  BY <1>2, <1>3, Taken DEF TypeInv
<1>5. /\ table'[f] = c /\ table' \in [Fd -> Int]
      /\ \A g \in Fd : g # f => table'[g] = table[g]
  BY <1>3, <1>4 DEF TypeInv
<1>6. PICK s : s = peer[c].slave
  OBVIOUS
<1>7. /\ c \in 1..Len(peer) /\ d_con[s].flags = {} /\ s \in Slave
      /\ \A g \in Fd : table[g] \in 1..MaxConns => peer[table[g]].slave # s
      /\ \A i \in 1..Len(backlog) : i # 1 => peer[backlog[i]].slave # s
  <2>1. 1 \in 1..Len(backlog)
    BY <1>4
  <2>2. c \in 1..Len(peer) /\ d_con[s].flags = {}
        /\ \A g \in Fd : table[g] \in 1..MaxConns => peer[table[g]].slave # s
    BY <1>4, <1>6, <2>1 DEF OneEach
  <2> QED
    BY <1>4, <1>6, <2>1, <2>2, AnEnd DEF OneEach
<1>8. \A i \in 1..Len(backlog') : /\ i + 1 \in 1..Len(backlog) /\ backlog'[i] = backlog[i+1] /\ i + 1 # 1
                                  /\ peer[backlog'[i]].slave # s
  <2> SUFFICES ASSUME NEW i \in 1..Len(backlog')
               PROVE  /\ i + 1 \in 1..Len(backlog) /\ backlog'[i] = backlog[i+1] /\ i + 1 # 1
                      /\ peer[backlog'[i]].slave # s
    OBVIOUS
  <2>1. i + 1 \in 1..Len(backlog) /\ backlog'[i] = backlog[i+1] /\ i + 1 # 1
    BY <1>4
  <2> QED
    BY <1>7, <2>1
<1>9. TypeInv'
  <2>1. dc' \in [at : {"idle", "first", "B", "A"}, sock : Int, slave : Slave \cup {NoSlave}]
    BY <1>3 DEF Fd
  <2>2. backlog' \in Seq(1..MaxConns)
    BY <1>3, <1>4
  <2> QED
    BY <1>3, <1>5, <2>1, <2>2 DEF TypeInv
<1>10. dc'.at = "first" /\ dc'.sock = f /\ dc'.slave = NoSlave
  BY <1>3
<1>11. OneEach'
  <2>1. \A g \in Fd : table'[g] \in 1..MaxConns => table'[g] \in 1..Len(peer)
    BY <1>5, <1>7 DEF OneEach
  <2>2. \A i \in 1..Len(backlog') : backlog'[i] \in 1..Len(peer)
    BY <1>8 DEF OneEach
  <2>3. ASSUME NEW g \in Fd, NEW h \in Fd, table'[g] \in 1..MaxConns, table'[h] \in 1..MaxConns,
               peer[table'[g]].slave = peer[table'[h]].slave
        PROVE  g = h
    <3>1. CASE g = f \/ h = f
      BY <2>3, <3>1, <1>5, <1>6, <1>7
    <3>2. CASE g # f /\ h # f
      BY <2>3, <3>2, <1>5 DEF OneEach
    <3> QED
      BY <3>1, <3>2
  <2>4. ASSUME NEW i \in 1..Len(backlog'), NEW j \in 1..Len(backlog'),
               peer[backlog'[i]].slave = peer[backlog'[j]].slave
        PROVE  i = j
    <3>1. i + 1 = j + 1
      BY <1>8, <2>4 DEF OneEach
    <3> QED
      BY <3>1
  <2>5. ASSUME NEW i \in 1..Len(backlog')
        PROVE  /\ d_con[peer[backlog'[i]].slave].flags = {}
               /\ \A g \in Fd : ~(table'[g] \in 1..MaxConns /\ peer[table'[g]].slave = peer[backlog'[i]].slave)
    <3>1. /\ d_con[peer[backlog'[i]].slave].flags = {}
          /\ \A g \in Fd : ~(table[g] \in 1..MaxConns /\ peer[table[g]].slave = peer[backlog'[i]].slave)
      <4>1. i + 1 \in 1..Len(backlog) /\ backlog'[i] = backlog[i+1]
        BY <1>8
      <4>2. \A k \in 1..Len(backlog) : /\ d_con[peer[backlog[k]].slave].flags = {}
              /\ \A g \in Fd : ~(table[g] \in 1..MaxConns /\ peer[table[g]].slave = peer[backlog[k]].slave)
        BY DEF OneEach
      <4> QED
        BY <4>1, <4>2
    <3>2. ASSUME NEW g \in Fd, table'[g] \in 1..MaxConns
          PROVE  peer[table'[g]].slave # peer[backlog'[i]].slave
      BY <3>1, <3>2, <1>5, <1>6, <1>8
    <3> QED
      BY <3>1, <3>2
  <2> QED
    BY <1>3, <2>1, <2>2, <2>3, <2>4, <2>5 DEF OneEach
<1>12. Sessions'
  <2>1. ASSUME NEW t \in Slave, Open(t), ~Closing(t)
        PROVE  Mine(d_con[t].rSocket, t)'
    <3>1. Mine(d_con[t].rSocket, t)
      BY <2>1 DEF Sessions
    <3> QED
      BY <3>1, <1>3, <1>5
  <2>2. ASSUME NEW t \in Slave, Closing(t)
        PROVE  Open(t) /\ \A g \in Fd : ~(table'[g] \in 1..MaxConns /\ peer[table'[g]].slave = t)
    BY <2>2, <1>5, <1>6, <1>7 DEF Sessions
  <2>3. ASSUME NEW g \in Fd, table'[g] \in 1..MaxConns
        PROVE  \/ g = f /\ ~Open(peer[table'[g]].slave)
               \/ g # f /\ Open(peer[table'[g]].slave) /\ d_con[peer[table'[g]].slave].rSocket = g
    BY <2>3, <1>3, <1>5, <1>6, <1>7 DEF Sessions
  <2> QED
    BY <1>3, <1>10, <2>1, <2>2, <2>3 DEF Sessions
<1>13. Threads'
  BY <1>3, <1>4, <1>5, <1>10 DEF Threads
<1>14. Turns'
  <2>1. \A i \in 1..Len(backlog') : Len(peer[backlog'[i]].got) = 0
    BY <1>8 DEF Turns
  <2>2. ASSUME NEW g \in Fd, table'[g] \in 1..MaxConns, peer[table'[g]].open
        PROVE  Written(g)'
    <3>1. CASE g = f
      <4>1. /\ table'[g] = c /\ Len(peer[c].got) = 0 /\ d_con[peer[c].slave].flags = {}
        BY <3>1, <1>4, <1>5, <1>6, <1>7 DEF Turns
      <4> QED
        BY <4>1, <1>3 DEF Written
    <3>2. CASE g # f
      <4>1. table'[g] = table[g] /\ Written(g)
        BY <2>2, <3>2, <1>5 DEF Turns
      <4>2. dc.at \notin {"B", "A"} /\ dc'.at \notin {"B", "A"}
        BY <1>3, <1>10
      <4>3. UNCHANGED <<peer, d_con, cycle>>
        BY <1>3
      <4> QED
        BY <4>1, <4>2, <4>3 DEF Written
    <3> QED
      BY <3>1, <3>2
  <2>3. \A g \in Fd : table'[g] \in 1..MaxConns /\ d_con[peer[table'[g]].slave].flags # {} =>
            /\ peer[table'[g]].stage # 0
            /\ \A i \in 1..Len(peer[table'[g]].out) : peer[table'[g]].out[i].kind # "INIT"
    BY <1>5, <1>6, <1>7 DEF Turns
  <2> QED
    BY <1>3, <2>1, <2>2, <2>3 DEF Turns
<1>15. Clients'
  <2>1. ASSUME cycle.at = "respond"
        PROVE  table'[cycle.sock] = table[cycle.sock]
    BY <2>1, Holding, <1>3, <1>5
  <2> QED
    BY <1>3, <2>1 DEF Clients, Client
<1> QED
  BY <1>3, <1>9, <1>11, <1>12, <1>13, <1>14, <1>15 DEF PeerFollows, OwnClosed

\* The first packet is the one the contact's session starts with.
LEMMA Accepted ==
  ASSUME IInv, NEW f, f = dc.sock, NEW s, NEW c, c = table[f], s = peer[c].slave, f \in Fd, c \in 1..MaxConns,
         dc.at = "first", OutOnly, NoInit(peer'[c].out), peer[c].stage # 0,
         d_con' = [d_con EXCEPT ![s] = [rSocket |-> f,
                     flags |-> @.flags \cup {"EXPECTDATA", "INCOMINGNEG", "EXPECTNEG"}]],
         dc' = [dc EXCEPT !.at = "B", !.slave = s],
         UNCHANGED <<table, backlog, cycle, prompt, foreign>>
  PROVE  IInv'
<1> USE DEF IInv
<1>1. c \in 1..Len(peer) /\ d_con[s].flags = {} /\ s \in Slave /\ peer'[c].slave = s
  BY OutOnlyKeeps DEF OneEach, Sessions
<1>2. /\ d_con' \in [Slave -> [rSocket : Int, flags : Fresh]]
      /\ d_con'[s].rSocket = f /\ d_con'[s].flags = {"EXPECTDATA", "INCOMINGNEG", "EXPECTNEG"}
      /\ \A t \in Slave : t # s => d_con'[t] = d_con[t]
  <2>1. d_con' = [d_con EXCEPT ![s] = [rSocket |-> f, flags |-> {"EXPECTDATA", "INCOMINGNEG", "EXPECTNEG"}]]
    BY <1>1
  <2>2. [rSocket |-> f, flags |-> {"EXPECTDATA", "INCOMINGNEG", "EXPECTNEG"}] \in [rSocket : Int, flags : Fresh]
    BY DEF Fresh, Fd
  <2> QED
    BY <1>1, <2>1, <2>2 DEF TypeInv
<1>3. dc'.at = "B" /\ dc'.slave = s /\ dc' \in [at : {"idle", "first", "B", "A"}, sock : Int, slave : Slave \cup {NoSlave}]
  BY <1>1 DEF TypeInv
<1>4. TypeInv'
  BY <1>2, <1>3 DEF TypeInv, OutOnly
<1>5. \A g \in Fd : table[g] \in 1..MaxConns =>
        /\ table[g] \in 1..Len(peer) /\ peer'[table[g]].slave = peer[table[g]].slave
        /\ peer[table[g]].slave \in Slave /\ (peer[table[g]].slave = s => g = f)
  BY OutOnlyKeeps DEF OneEach
<1>6. \A i \in 1..Len(backlog) : /\ backlog[i] \in 1..Len(peer) /\ peer'[backlog[i]].slave = peer[backlog[i]].slave
                                 /\ peer[backlog[i]].slave \in Slave /\ peer[backlog[i]].slave # s
  BY OutOnlyKeeps DEF OneEach
<1>7. OneEach'
  <2>1. ASSUME NEW g \in Fd, NEW h \in Fd, table[g] \in 1..MaxConns, table[h] \in 1..MaxConns,
               peer'[table[g]].slave = peer'[table[h]].slave
        PROVE  g = h
    <3>1. peer[table[g]].slave = peer[table[h]].slave
      BY <1>5, <2>1
    <3> QED
      BY <2>1, <3>1 DEF OneEach
  <2>2. \A i, j \in 1..Len(backlog) : peer'[backlog[i]].slave = peer'[backlog[j]].slave => i = j
    BY <1>6 DEF OneEach
  <2>3. ASSUME NEW i \in 1..Len(backlog)
        PROVE  /\ d_con'[peer'[backlog[i]].slave].flags = {}
               /\ \A g \in Fd : ~(table[g] \in 1..MaxConns /\ peer'[table[g]].slave = peer'[backlog[i]].slave)
    <3>1. /\ d_con[peer[backlog[i]].slave].flags = {}
          /\ \A g \in Fd : ~(table[g] \in 1..MaxConns /\ peer[table[g]].slave = peer[backlog[i]].slave)
      BY DEF OneEach
    <3>2. d_con'[peer'[backlog[i]].slave] = d_con[peer[backlog[i]].slave]
      BY <1>2, <1>6
    <3> QED
      BY <3>1, <3>2, <1>5, <1>6
  <2> QED
    BY <1>5, <1>6, <2>1, <2>2, <2>3 DEF OneEach, OutOnly
<1>8. ~Closing(s) /\ Open(s)' /\ \A t \in Slave : t # s => (Open(t)' <=> Open(t))
  BY <1>1, <1>2 DEF Sessions
<1>9. Sessions'
  <2>1. ASSUME NEW t \in Slave, d_con'[t].flags # {}, ~Closing(t)
        PROVE  d_con'[t].rSocket \in Fd /\ table[d_con'[t].rSocket] \in 1..MaxConns /\ peer'[table[d_con'[t].rSocket]].slave = t
    <3>1. CASE t = s
      BY <3>1, <1>1, <1>2
    <3>2. CASE t # s
      <4>1. d_con'[t] = d_con[t] /\ Mine(d_con[t].rSocket, t)
        BY <2>1, <3>2, <1>2 DEF Sessions
      <4> QED
        BY <4>1, <1>5
    <3> QED
      BY <3>1, <3>2
  <2>2. ASSUME NEW t \in Slave, Closing(t)
        PROVE  d_con'[t].flags # {} /\ \A g \in Fd : ~(table[g] \in 1..MaxConns /\ peer'[table[g]].slave = t)
    <3>1. t # s
      BY <2>2, <1>8
    <3> QED
      BY <2>2, <3>1, <1>2, <1>5 DEF Sessions
  <2>3. ASSUME NEW g \in Fd, table[g] \in 1..MaxConns
        PROVE  d_con'[peer'[table[g]].slave].flags # {} /\ d_con'[peer'[table[g]].slave].rSocket = g
    <3>1. CASE g = f
      BY <3>1, <1>1, <1>2
    <3>2. CASE g # f
      <4>1. ~At(g) /\ peer[table[g]].slave # s
        BY <2>3, <3>2, <1>5
      <4>2. d_con'[peer'[table[g]].slave] = d_con[peer[table[g]].slave]
        BY <2>3, <4>1, <1>2, <1>5
      <4> QED
        BY <2>3, <4>1, <4>2 DEF Sessions
    <3> QED
      BY <3>1, <3>2
  <2>4. dc'.at # "first"
    BY <1>3
  <2>5. UNCHANGED <<table, cycle, prompt>>
    OBVIOUS
  <2>6. \A t \in Slave : Open(t)' /\ ~Closing(t)' => Mine(d_con[t].rSocket, t)'
    BY <2>1, <2>5
  <2>7. \A t \in Slave : Closing(t)' => Open(t)' /\ \A g \in Fd : ~Mine(g, t)'
    BY <2>2, <2>5
  <2>8. \A g \in Fd : IsConn(g)' => ~At(g)' /\ Open(Of(table[g]))' /\ (d_con[Of(table[g])].rSocket = g)'
    BY <2>3, <2>4, <2>5
  <2> QED
    BY <2>6, <2>7, <2>8 DEF Sessions
<1>10. Threads'
  <2>1. cycle.at # "look" => cycle.slave # s /\ cycle.slave \in Slave
    BY <1>1 DEF Threads
  <2>2. \A g \in Fd : table[g] \in 1..MaxConns /\ d_con'[s].rSocket = g => peer'[table[g]].slave = s
    BY <1>1, <1>2
  <2>3. cycle.at # "look" => d_con'[cycle.slave] = d_con[cycle.slave]
    BY <2>1, <1>2
  <2> QED
    BY <1>1, <1>3, <2>1, <2>2, <2>3 DEF Threads
<1>11. Turns'
  <2>1. ASSUME NEW g \in Fd, table[g] \in 1..MaxConns, peer'[table[g]].open
        PROVE  Written(g)'
    <3>1. CASE g = f
      <4>1. Len(peer'[c].got) = 0
        <5>1. peer'[c].got = peer[c].got /\ peer[c].open
          BY <2>1, <3>1, <1>1 DEF OutOnly
        <5> QED
          BY <3>1, <1>1, <5>1 DEF Turns, Written
      <4>2. ~(cycle.at = "connected" /\ cycle.slave = s)
        BY <1>1 DEF Threads
      <4>3. /\ d_con'[peer'[table'[g]].slave].flags # {} /\ "CONNECTED" \notin d_con'[peer'[table'[g]].slave].flags
            /\ dc'.slave = peer'[table'[g]].slave /\ dc'.at = "B" /\ Len(peer'[table'[g]].got) = 0
            /\ ~(cycle'.at = "connected" /\ cycle'.slave = peer'[table'[g]].slave)
        BY <3>1, <1>1, <1>2, <1>3, <4>1, <4>2
      <4> QED
        BY <4>3 DEF Written
    <3>2. CASE g # f
      <4>1. /\ Written(g) /\ peer[table[g]].slave # s /\ peer'[table[g]].slave = peer[table[g]].slave
            /\ peer'[table[g]].got = peer[table[g]].got
        BY <2>1, <3>2, <1>5 DEF Turns, OutOnly
      <4>2. d_con'[peer[table[g]].slave] = d_con[peer[table[g]].slave]
        BY <2>1, <4>1, <1>2, <1>5
      <4>3. dc.at \notin {"B", "A"} /\ ~(dc'.slave = peer[table[g]].slave)
        BY <1>3, <4>1
      <4>4. UNCHANGED <<table, cycle>>
        OBVIOUS
      <4> QED
        BY <4>1, <4>2, <4>3, <4>4 DEF Written
    <3> QED
      BY <3>1, <3>2
  <2>2. ASSUME NEW g \in Fd, table[g] \in 1..MaxConns, d_con'[peer'[table[g]].slave].flags # {}
        PROVE  peer'[table[g]].stage # 0 /\ NoInit(peer'[table[g]].out)
    <3>1. CASE g = f
      BY <3>1, <1>1 DEF OutOnly
    <3>2. CASE g # f
      <4>1. d_con[peer[table[g]].slave].flags # {}
        BY <2>2, <3>2, <1>2, <1>5
      <4>2. peer[table[g]].stage # 0 /\ NoInit(peer[table[g]].out)
        BY <2>2, <4>1 DEF Turns, NoInit
      <4> QED
        BY <2>2, <4>2, <1>5 DEF OutOnly
    <3> QED
      BY <3>1, <3>2
  <2>3. \A i \in 1..Len(backlog) : Len(peer'[backlog[i]].got) = 0
    BY <1>6 DEF OutOnly, Turns
  <2> QED
    BY <2>1, <2>2, <2>3 DEF Turns, NoInit
<1>12. Clients'
  <2>1. cycle.at = "respond" => peer'[table[cycle.sock]].got = peer[table[cycle.sock]].got
    BY Holding, <1>5 DEF OutOnly
  <2> QED
    BY <2>1, OutOnlyKeeps DEF Clients
<1> QED
  BY <1>4, <1>7, <1>9, <1>10, <1>11, <1>12, OutOnlyKeeps DEF OwnClosed

LEMMA FirstPacketKeeps == IInv /\ Tame /\ FirstPacket => IInv'
<1> SUFFICES ASSUME IInv, Tame, FirstPacket PROVE IInv'
  OBVIOUS
<1>1. PICK f : f = dc.sock
  OBVIOUS
<1>2. PICK c : c = table[f]
  OBVIOUS
<1>3. PICK s : s = peer[c].slave
  OBVIOUS
<1> DEFINE q == peer[c].out
<1>4. dc.at = "first" /\ f \in Fd /\ c \in 1..MaxConns /\ c \in 1..Len(peer)
  BY <1>1, <1>2 DEF IInv, TypeInv, Threads, OneEach, FirstPacket
<1>5. q \in Seq(Sent) /\ Client(c) /\ (q # <<>> => Head(q) \in Sent)
  <2>1. q \in Seq(Sent) /\ Client(c)
    BY <1>4, AnEnd DEF IInv, Clients
  <2> HIDE DEF q
  <2> QED
    BY <2>1, Taken
<1>6. q # <<>> => Head(q).kind \notin {"LOST", "NONE", "LONG"}
  BY <1>5 DEF Sent
<1>7. d_con[s].flags = {}
  BY <1>1, <1>2, <1>3, <1>4 DEF IInv, Sessions
<1>8. CASE Refuses(peer)
  <2>1. OutOnly
    BY <1>8, ReadsNot DEF Refuses, IInv
  <2> QED
    BY <1>1, <1>2, <1>3, <1>4, <1>8, <2>1, Refused DEF Refuses
<1>9. CASE q # <<>> /\ Refuses([peer EXCEPT ![c].out = Tail(@)])
  <2>1. OutOnly
    BY <1>4, <1>5, <1>9, Reads DEF Refuses, IInv
  <2> QED
    BY <1>1, <1>2, <1>3, <1>4, <1>9, <2>1, Refused DEF Refuses
<1>10. CASE /\ q # <<>> /\ peer' = [peer EXCEPT ![c].out = Tail(@)]
            /\ d_con' = [d_con EXCEPT ![s] = [rSocket |-> f,
                     flags |-> @.flags \cup {"EXPECTDATA", "INCOMINGNEG", "EXPECTNEG"}]]
            /\ dc' = [dc EXCEPT !.at = "B", !.slave = s]
            /\ UNCHANGED <<table, backlog, cycle, prompt, foreign>>
  <2>1. OutOnly /\ NoInit(peer'[c].out) /\ peer[c].stage # 0
    BY <1>4, <1>5, <1>10, Reads DEF IInv
  <2> QED
    BY <1>1, <1>2, <1>3, <1>4, <1>10, <2>1, Accepted
<1> QED
  BY <1>1, <1>2, <1>3, <1>4, <1>6, <1>8, <1>9, <1>10 DEF FirstPacket

-----------------------------------------------------------------------------
\* The packets' cipher.

\* XOR with the same byte again gives the first byte back.
LEMMA XorTwice == \A x, y : (x (+) y) (+) y = x
  BY DEF (+)

LEMMA NumbersDiffer == ASSUME NEW m \in Nat, NEW k \in Nat, Number(m) = Number(k) PROVE m = k
<1>1. <<"number", m>> = <<"number", k>>
  BY DEF Number
<1> QED
  BY <1>1

\* What is deciphered is what was enciphered, and it is accepted, for packets of
\* any length of at least 39 bytes and any draw of the check byte in them.
LEMMA RoundTrip ==
  ASSUME NEW n \in Nat, n >= 39, NEW m1 \in 10..(n-1),
         NEW plain
  PROVE  LET d == YSM_DecryptDCPacket(YSM_EncryptDCPacket(plain, n, m1, 0), n)
         IN  d.ok /\ \A j \in 4..(n-1) : d.clear[j] = plain[j]
<1> DEFINE e == YSM_EncryptDCPacket(plain, n, m1, 0)
           code == CheckCode(plain, m1, 0)
           check == [i \in 0..3 |-> e[i]]
           clear == [i \in 0..(n-1) |-> IF i < 4 \/ i >= Ciphered(n) THEN e[i]
                                        ELSE e[i] (+) KeyAt(check, n, i)]
<1>1. \A i \in 0..3 : e[i] = code[i] /\ check[i] = code[i]
  BY DEF YSM_EncryptDCPacket
<1>2. check = code
  BY <1>1 DEF CheckCode
<1> HIDE DEF check, code
<1>3. \A j \in 4..(n-1) : e[j] = IF j < Ciphered(n) THEN plain[j] (+) KeyAt(check, n, j) ELSE plain[j]
  BY <1>2 DEF YSM_EncryptDCPacket, code
<1> HIDE DEF e
<1>4. Ciphered(n) \in Int
  BY DEF Ciphered
<1>5. ASSUME NEW j \in 4..(n-1)
      PROVE  clear[j] = plain[j]
  <2>1. j \in 0..(n-1) /\ ~(j < 4)
    OBVIOUS
  <2>2. CASE j < Ciphered(n)
    BY <1>3, <1>4, <2>1, <2>2, XorTwice
  <2>3. CASE ~(j < Ciphered(n))
    BY <1>3, <1>4, <2>1, <2>3
  <2> QED
    BY <2>2, <2>3
<1> HIDE DEF clear
<1>6. clear[4] = plain[4] /\ clear[6] = plain[6] /\ clear[m1] = plain[m1] /\ m1 \in 4..(n-1)
  BY <1>5
<1>7. /\ check[3] = Number(m1) (+) plain[4]
      /\ check[2] = plain[m1] (+) FF (+) plain[6]
      /\ check[1] = Number(0) (+) plain[4]
      /\ check[0] = TableAt(0) (+) FF (+) plain[6]
  BY <1>2 DEF code, CheckCode
<1>8. /\ check[3] (+) clear[4] = Number(m1)
      /\ check[2] (+) clear[6] = clear[m1] (+) FF
      /\ check[1] (+) clear[4] = Number(0)
      /\ check[0] (+) clear[6] = TableAt(0) (+) FF
  BY <1>6, <1>7, XorTwice
<1>9. \E m \in 10..(n-1) : check[3] (+) clear[4] = Number(m) /\ check[2] (+) clear[6] = clear[m] (+) FF
  BY <1>8
<1>10. \A x \in 0..219 : check[1] (+) clear[4] = Number(x) => check[0] (+) clear[6] = TableAt(x) (+) FF
  <2> SUFFICES ASSUME NEW x \in 0..219, check[1] (+) clear[4] = Number(x)
               PROVE  check[0] (+) clear[6] = TableAt(x) (+) FF
    OBVIOUS
  <2>1. x = 0
    <3>1. Number(0) = Number(x) /\ 0 \in Nat /\ x \in Nat
      BY <1>8
    <3> QED
      BY <3>1, NumbersDiffer
  <2> QED
    BY <1>8, <2>1
<1> QED
  BY <1>5, <1>9, <1>10 DEF YSM_DecryptDCPacket, e, check, clear

LEMMA MessagesRead ==
  ASSUME NEW text \in Texts, text <= 215, NEW m1 \in Draws(text)
  PROVE  LET r == Arrives[text][m1] IN r.framed /\ r.accepted /\ r.clear
<1> DEFINE n == MessageLen(text) - 1
<1>1. text \in Nat
  OBVIOUS
<1>2. MessageLen(text) = text + 40 /\ MessageLen(text) % 256 = MessageLen(text)
  BY <1>1 DEF MessageLen, Colours
<1>3. n \in Nat /\ n >= 39 /\ m1 \in 10..(n-1)
  BY <1>1, <1>2 DEF Draws
<1> DEFINE p == YSM_DC_MessageBase(text, m1)
           d == YSM_DecryptDCPacket(p.buf, p.len - 1)
<1>4. /\ p.len = MessageLen(text) /\ p.said = MessageLen(text) % 256
      /\ p.buf = YSM_EncryptDCPacket(Plain(n), n, m1, 0)
  BY DEF YSM_DC_MessageBase
<1>5. p.len - 1 = n
  BY <1>4
<1>6. d.ok /\ \A j \in 4..(n-1) : d.clear[j] = Plain(n)[j]
  <2> HIDE DEF n
  <2>1. d = YSM_DecryptDCPacket(YSM_EncryptDCPacket(Plain(n), n, m1, 0), n)
    BY <1>4, <1>5
  <2> HIDE DEF d, p
  <2> QED
    BY <1>3, <2>1, RoundTrip
<1>7. Arrives[text][m1] = Received(text, m1)
  BY DEF Arrives
<1> HIDE DEF n
<1>8. \A j \in 4..(p.len - 2) : d.clear[j] = Plain(p.len - 1)[j]
  <2>1. p.len - 2 = n - 1 /\ p.len - 1 = n
    <3>1. p.len = text + 40 /\ n = text + 40 - 1
      BY <1>2, <1>4 DEF n
    <3> HIDE DEF p
    <3> QED
      BY <1>1, <3>1
  <2> QED
    BY <1>6, <2>1
<1>9. p.said = p.len
  BY <1>2, <1>4
<1>10. Received(text, m1).framed /\ Received(text, m1).accepted /\ Received(text, m1).clear
  BY <1>6, <1>8, <1>9 DEF Received
<1> QED
  BY <1>7, <1>10

-----------------------------------------------------------------------------
\* The invariant.

LEMMA InitInv == Init => IInv
<1> SUFFICES ASSUME Init PROVE IInv
  OBVIOUS
<1> USE DEF Init
<1>1. \A f \in Fd : table[f] \notin 1..MaxConns
  BY DEF Listening, ToServer, Unused
<1>2. TypeInv
  BY DEF TypeInv, Listening, ToServer, Unused, Idle, Looking, Fresh, Packet, Sent
<1>3. OneEach /\ Sessions /\ Threads
  BY <1>1 DEF OneEach, Sessions, Threads, Idle, Looking
<1>4. Turns /\ Clients
  BY <1>1 DEF Turns, Clients, Looking
<1> QED
  BY <1>2, <1>3, <1>4 DEF IInv, PeerFollows, OwnClosed

LEMMA NextInv == Tame /\ IInv /\ [Next]_vars => IInv'
<1> SUFFICES ASSUME Tame, IInv, [Next]_vars PROVE IInv'
  OBVIOUS
<1>1. CASE UNCHANGED vars
  <2>1. UNCHANGED <<table, d_con, peer, backlog, dc, cycle, prompt, foreign>>
    BY <1>1 DEF vars
  <2>5. TypeInv' /\ Sessions'
    BY <2>1 DEF IInv, TypeInv, Sessions
  <2>2. OneEach'
    BY <2>1, OneEachStays DEF IInv
  <2>3. Threads' /\ Clients' /\ PeerFollows' /\ OwnClosed'
    BY <2>1 DEF IInv, Threads, Clients, Client, PeerFollows, OwnClosed
  <2>4. Turns'
    <3>1. \A f \in Fd : Written(f) => Written(f)'
      BY <2>1 DEF Written
    <3>2. \A f \in Fd : table'[f] \in 1..MaxConns /\ d_con'[peer[table[f]].slave].flags # {} =>
            /\ peer'[table[f]].stage # 0
            /\ \A i \in 1..Len(peer'[table[f]].out) : peer'[table[f]].out[i].kind # "INIT"
      BY <2>1 DEF IInv, Turns
    <3> QED
      BY <2>1, <3>1, <3>2, TurnsStay DEF IInv
  <2> QED
    BY <2>2, <2>3, <2>4, <2>5 DEF IInv
<1>2. CASE \E s \in Slave : PeerConnects(s)
  BY <1>2, PeerConnectsKeeps
<1>3. CASE \E c \in DOMAIN peer : PeerSends(c) \/ PeerCloses(c)
  BY <1>3, PeerSendsKeeps, PeerClosesKeeps
<1>4. CASE Drops \/ Reconnects
  BY <1>4, DropsKeeps, ReconnectsKeeps
<1>5. CASE DcThread
  BY <1>5, AcceptsKeeps, FirstPacketKeeps, InitBAKeeps DEF DcThread
<1>6. CASE CycleThread
  BY <1>6, dcSelectKeeps, ReadPacketKeeps, NegotiatesKeeps, NegotiatedKeeps, MiscKeeps, CycleClosesKeeps
     DEF CycleThread
<1>7. CASE \E s \in Slave : cmdCLOSEDC(s)
  BY <1>7, cmdCLOSEDCKeeps
<1>8. CASE PromptResets
  BY <1>8, PromptResetsKeeps
<1>9. CASE \E s \in Slave, text \in Texts : \E m1 \in Draws(text) : YSM_DC_Message(s, text, m1)
  BY <1>9, MessageKeeps
<1> QED
  BY <1>1, <1>2, <1>3, <1>4, <1>5, <1>6, <1>7, <1>8, <1>9 DEF Next

LEMMA Invariant == ASSUME Tame PROVE Spec => []IInv
<1>1. Init => IInv
  BY InitInv
<1>2. IInv /\ [Next]_vars => IInv'
  BY NextInv
<1> QED
  BY <1>1, <1>2, PTL DEF Spec

-----------------------------------------------------------------------------
\* No connection that the daemon holds is forgotten: each is in the hands of
\* dcThread or is the session of the contact that opened it (direct.c).
THEOREM HeldByOne == ASSUME Tame PROVE Spec => []NoneForgotten
<1>1. IInv => NoneForgotten
  <2> SUFFICES ASSUME IInv, NEW f \in Fd, IsConn(f), ~At(f)
               PROVE  LET e == d_con[peer[table[f]].slave] IN e.rSocket = f /\ "EXPECTDATA" \in e.flags
    BY DEF NoneForgotten
  <2> DEFINE s == peer[table[f]].slave
  <2>1. Open(s) /\ d_con[s].rSocket = f
    BY DEF IInv, Sessions
  <2>2. s \in Slave
    BY AnEnd DEF IInv, OneEach
  <2>3. d_con[s].flags \in Fresh
    BY <2>2 DEF IInv, TypeInv
  <2> QED
    BY <2>1, <2>3 DEF Fresh
<1> QED
  BY <1>1, Invariant, PTL

\* The daemon reads and closes connections of the contact it works for, never a
\* number that has become another's: three threads and no lock (direct.c:572).
THEOREM OnlyItsOwn == ASSUME Tame PROVE Spec => []OwnClosed
<1>1. IInv => OwnClosed
  BY DEF IInv
<1> QED
  BY <1>1, Invariant, PTL

\* Every client gets the handshake in its order and each packet of it once, then
\* messages, though two threads write to it (direct.c:223, direct.c:1139).
THEOREM InOrder == ASSUME Tame PROVE Spec => []PeerFollows
<1>1. IInv => PeerFollows
  BY DEF IInv
<1> QED
  BY <1>1, Invariant, PTL

\* Every message of up to 215 bytes says its length and is deciphered to what was
\* enciphered, wherever the check byte was drawn (direct.c:1357).
THEOREM MessagesArrive == ASSUME Tame, \A text \in Texts : text <= 215 PROVE Spec => []PeerReads
<1>1. IInv => PeerReads
  <2> SUFFICES ASSUME IInv, NEW c \in DOMAIN peer, NEW i \in DOMAIN peer[c].got, peer[c].got[i].kind = "MSG"
               PROVE  peer[c].got[i].framed /\ peer[c].got[i].accepted /\ peer[c].got[i].clear
    BY DEF PeerReads
  <2>1. c \in 1..Len(peer)
    BY LenProperties DEF IInv, TypeInv
  <2>2. peer[c].got \in Seq(Answers \cup Spoken)
    BY <2>1, AnEnd DEF IInv
  <2>3. peer[c].got[i] \in Answers \cup Spoken
    BY <2>2
  <2>4. PICK text \in Texts : \E m1 \in Draws(text) : peer[c].got[i] = Arrives[text][m1]
    BY <2>3 DEF Answers, Spoken
  <2> QED
    BY <2>4, MessagesRead
<1> QED
  BY <1>1, Invariant, PTL
=============================================================================
