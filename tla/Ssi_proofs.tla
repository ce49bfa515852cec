------------------------------- MODULE Ssi_proofs -------------------------------
(***************************************************************************)
(* The answers of the server reach the contacts they are meant for, and     *)
(* server and client come to agree on who is ignored, for any contacts, any *)
(* number of requests on their way and any answers, in one session that     *)
(* reads the roster first - the former until the change count of the        *)
(* request ids has gone round.                                              *)
(***************************************************************************)
EXTENDS Ssi, FiniteSetTheorems, WellFoundedInduction, TLAPS

-----------------------------------------------------------------------------
\* What is on its way, and what its number says.

Calm == Sessions = 1 /\ ~Hasty
FirstRound == blentries < W

Items(q) == {q[n] : n \in 1 .. Len(q)}
Flight == Items(toServer) \cup Items(toClient)

Adds(id) == id[1] = "add" /\ id[2] \in Nat /\ id = <<"add", id[2]>>
Scans(id, s) == id = <<"scan", s>>
Others(id) == \E k \in Nat : id = <<"update", k>> \/ id = <<"remove", k>>

\* A message is about whom its number says.
Plain(m) ==
    \/ m.op = "roster"
    \/ /\ IsFiniteSet(m.about) /\ m.about \subseteq Slave
       /\ \/ m.op = "add" /\ Adds(m.reqId)
          \/ m.op = "scan" /\ \E s : Scans(m.reqId, s) /\ m.about = {s}
          \/ m.op \in {"update", "remove"} /\ Others(m.reqId)

\* Only a downloaded contact has been updated or removed from a list.
Numbered(i, s) ==
    \/ i.reqId = NoId \/ Adds(i.reqId) \/ Scans(i.reqId, s)
    \/ Others(i.reqId) /\ "downloaded" \in i.flags

\* The roster of the one session has not been read.
Early == sessions = 0 \/ \E m \in Flight : m.op = "roster"

\* Until then nothing is uploaded: the commands wait for the roster.
Quiet ==
    /\ ctl.job = "none" /\ ack.rest = {}
    /\ \A m \in Flight : m.op # "add"
    /\ \A s \in Slave : ~Adds(info[s].reqId)

\* The numbers given so far, and the uploads they name.
Given ==
    /\ \A s \in Slave : Adds(info[s].reqId) => info[s].reqId[2] <= blentries
    /\ \A m \in Flight : m.op = "add" =>
          /\ m.reqId[2] <= blentries
          /\ \A s \in Slave : info[s].reqId = m.reqId => m.about = {s}

Numbers ==
    /\ \A m \in Flight : Plain(m)
    /\ \A s \in Slave : Numbered(info[s], s)
    /\ Early => Quiet
    /\ FirstRound => Given

-----------------------------------------------------------------------------
\* Types, as far as the argument needs them.

AnyInfo(i) ==
    /\ i = [flags |-> i.flags, budId |-> i.budId, grpId |-> i.grpId,
            ignoreId |-> i.ignoreId, invisibleId |-> i.invisibleId, reqId |-> i.reqId]
    /\ i.ignoreId # 0 => "downloaded" \in i.flags

AnyQueue(q) == Len(q) \in Nat /\ q = [n \in 1 .. Len(q) |-> q[n]]

OfSlaves(items) == IsFiniteSet(items) /\ \A i \in items : i.slave \in Slave

Types ==
    /\ info = [s \in Slave |-> info[s]] /\ \A s \in Slave : AnyInfo(info[s])
    /\ ctl = [job |-> ctl.job, rest |-> ctl.rest, left |-> ctl.left]
    /\ ack = [code |-> ack.code, rest |-> ack.rest]
    /\ blentries \in Nat
    /\ AnyQueue(toServer) /\ AnyQueue(toClient)
    /\ connected \in BOOLEAN /\ sessions \in {0, 1}
    /\ connected => sessions = 1
    /\ ~connected => toServer = <<>> /\ toClient = <<>>
    /\ listed \subseteq Slave /\ ack.rest \subseteq Slave
    /\ OfSlaves(stored) /\ \A i \in roster : i.slave \in Slave
    /\ \A m \in Items(toClient) : m.op = "roster" => OfSlaves(m.items)
    /\ ctl.job \in {"ignore", "unignore"} =>
          Head(ctl.rest) \in Slave /\ Downloaded(Head(ctl.rest))

IInv == Types /\ Numbers

-----------------------------------------------------------------------------
\* Queues.

LEMMA AppendItem ==
  ASSUME NEW q, AnyQueue(q), NEW m
  PROVE  AnyQueue(Append(q, m)) /\ Items(Append(q, m)) = Items(q) \cup {m}
<1> DEFINE T == Items(q) \cup {m}
<1>0. m \in T
  OBVIOUS
<1>1. q \in Seq(T)
  <2>1. \A n \in 1 .. Len(q) : q[n] \in T
    BY DEF Items
  <2> HIDE DEF T
  <2>2. q \in [1 .. Len(q) -> T] /\ Len(q) \in Nat
    BY <2>1 DEF AnyQueue
  <2> QED
    BY <2>2
<1>2. /\ Append(q, m) \in Seq(T) /\ Len(Append(q, m)) = Len(q) + 1 /\ Len(q) \in Nat
      /\ \A n \in 1 .. Len(q) : Append(q, m)[n] = q[n]
      /\ Append(q, m)[Len(q) + 1] = m
  <2> HIDE DEF T
  <2> QED
    BY <1>0, <1>1
<1> DEFINE a == Append(q, m)
<1>3. a \in Seq(T) /\ Len(a) \in Nat /\ Len(a) = Len(q) + 1
  BY <1>2
<1>4. AnyQueue(a)
  <2> HIDE DEF a, T
  <2> QED
    BY <1>3 DEF AnyQueue
<1>5. Items(a) = T
  <2>1. \A n \in 1 .. Len(a) : n \in 1 .. Len(q) \/ n = Len(q) + 1
    BY <1>2, <1>3
  <2>2. Len(q) + 1 \in 1 .. Len(a) /\ \A n \in 1 .. Len(q) : n \in 1 .. Len(a)
    BY <1>2, <1>3
  <2>3. Items(a) \subseteq T
    BY <1>2, <2>1 DEF Items
  <2>4. T \subseteq Items(a)
    BY <1>2, <2>2 DEF Items
  <2> QED
    BY <2>3, <2>4
<1> QED
  BY <1>4, <1>5

LEMMA TakeItem ==
  ASSUME NEW q, AnyQueue(q), q # <<>>
  PROVE  AnyQueue(Tail(q)) /\ Items(Tail(q)) \subseteq Items(q) /\ Head(q) \in Items(q)
<1> DEFINE T == Items(q)
<1>1. q \in Seq(T)
  <2>1. \A n \in 1 .. Len(q) : q[n] \in T
    BY DEF Items
  <2> HIDE DEF T
  <2>2. q \in [1 .. Len(q) -> T] /\ Len(q) \in Nat
    BY <2>1 DEF AnyQueue
  <2> QED
    BY <2>2
<1>2. Head(q) \in T /\ Tail(q) \in Seq(T)
  <2> HIDE DEF T
  <2> QED
    BY <1>1
<1> DEFINE r == Tail(q)
<1>3. AnyQueue(r) /\ \A n \in 1 .. Len(r) : r[n] \in T
  <2> HIDE DEF r, T
  <2>1. r \in Seq(T)
    BY <1>2 DEF r
  <2> QED
    BY <2>1 DEF AnyQueue
<1> QED
  BY <1>2, <1>3 DEF Items

LEMMA NothingQueued == AnyQueue(<<>>) /\ Items(<<>>) = {}
<1>1. Len(<<>>) = 0 /\ 1 .. 0 = {} /\ <<>> = [n \in 1 .. 0 |-> n]
  OBVIOUS
<1> QED
  BY <1>1 DEF AnyQueue, Items

\* A request id says what the request is, and a number.
LEMMA RequestId ==
  ASSUME blentries \in Nat, NEW op
  PROVE  /\ ReqId(op) = <<op, ReqId(op)[2]>> /\ ReqId(op)[1] = op /\ ReqId(op)[2] \in Nat
         /\ blentries + 1 < W => ReqId(op)[2] = blentries + 1
<1> DEFINE b == blentries + 1
<1>1. W \in Nat \ {0} /\ b \in Nat
  BY NumberAssumption
<1>2. b % W \in 0 .. W - 1 /\ (b < W => b % W = b)
  BY <1>1, SMTT(30)
<1>3. ReqId(op) = <<op, b % W>>
  BY DEF ReqId
<1> QED
  BY <1>1, <1>2, <1>3

-----------------------------------------------------------------------------
\* A step that gives no number: messages go on, contacts keep or lose theirs.

Copies(m, l) ==
    /\ l \in Flight /\ m.op = l.op
    /\ m.op # "roster" => m.about = l.about /\ m.reqId = l.reqId

LEMMA NoNumber ==
  ASSUME Numbers, blentries' = blentries,
         \A m \in Flight' : m.op = "roster" \/ \E l : Copies(m, l),
         \A s \in Slave : \/ info'[s].reqId = NoId
                          \/ /\ info'[s].reqId = info[s].reqId
                             /\ Downloaded(s) => "downloaded" \in info'[s].flags,
         Early' => Early /\ ctl'.job = "none" /\ ack'.rest = {}
  PROVE  Numbers'
<1>1. \A m \in Flight' : Plain(m)
  <2> TAKE m \in Flight'
  <2>1. CASE m.op = "roster"
    BY <2>1 DEF Plain
  <2>2. ASSUME NEW l, Copies(m, l), m.op # "roster" PROVE Plain(m)
    BY <2>2 DEF Plain, Copies, Numbers
  <2> QED
    BY <2>1, <2>2
<1>2. ~Adds(NoId)
  BY DEF NoId, Adds
<1>3. \A s \in Slave : Numbered(info'[s], s)
  BY DEF Numbers, Numbered, Downloaded
<1>4. ASSUME Early' PROVE Quiet'
  <2>1. Quiet /\ ctl'.job = "none" /\ ack'.rest = {}
    BY <1>4 DEF Numbers
  <2>2. \A m \in Flight' : m.op # "add"
    BY <2>1 DEF Quiet, Copies
  <2>3. \A s \in Slave : ~Adds(info'[s].reqId)
    BY <1>2, <2>1 DEF Quiet
  <2> QED
    BY <2>1, <2>2, <2>3 DEF Quiet
<1>5. ASSUME FirstRound' PROVE Given'
  <2>1. Given
    BY <1>5 DEF FirstRound, Numbers
  <2>2. \A s \in Slave : Adds(info'[s].reqId) => info'[s].reqId[2] <= blentries'
    BY <1>2, <2>1 DEF Given
  <2>3. ASSUME NEW m \in Flight', m.op = "add"
        PROVE  /\ m.reqId[2] <= blentries'
               /\ \A s \in Slave : info'[s].reqId = m.reqId => m.about = {s}
    <3>1. PICK l : Copies(m, l)
      BY <2>3
    <3>2. l \in Flight /\ l.op = "add" /\ m.reqId = l.reqId /\ m.about = l.about
      BY <2>3, <3>1 DEF Copies
    <3>3. Adds(m.reqId)
      BY <1>1, <2>3 DEF Plain
    <3> QED
      BY <1>2, <2>1, <3>2, <3>3 DEF Given
  <2> QED
    BY <2>2, <2>3 DEF Given
<1> QED
  BY <1>1, <1>3, <1>4, <1>5 DEF Numbers

-----------------------------------------------------------------------------
\* A step that gives the next number, to the request r about s.

LEMMA NextNumber ==
  ASSUME Types, Numbers, blentries' = blentries + 1,
         NEW op \in {"add", "update", "remove"}, NEW r, NEW s,
         r.op = op, r.reqId = ReqId(op), IsFiniteSet(r.about), r.about \subseteq Slave,
         op = "add" => ~Early /\ r.about = {s},
         Early' => Early /\ ctl'.job = "none" /\ ack'.rest = {},
         \A m \in Flight' : m \in Flight \/ m = r,
         \A t \in Slave \ {s} : info'[t] = info[t],
         s \in Slave => \/ info'[s] = info[s]
                        \/ info'[s].reqId = NoId
                        \/ /\ info'[s].reqId = ReqId(op)
                           /\ op # "add" => "downloaded" \in info'[s].flags
  PROVE  Numbers'
<1>1. /\ ReqId(op) = <<op, ReqId(op)[2]>> /\ ReqId(op)[1] = op /\ ReqId(op)[2] \in Nat
      /\ blentries + 1 < W => ReqId(op)[2] = blentries + 1
  BY RequestId DEF Types
<1>2. IF op = "add" THEN Adds(ReqId(op)) ELSE Others(ReqId(op)) /\ ~Adds(ReqId(op))
  BY <1>1 DEF Adds, Others
<1>3. ~Adds(NoId)
  BY DEF NoId, Adds
<1>4. \A m \in Flight' : Plain(m)
  <2>1. Plain(r)
    BY <1>2 DEF Plain
  <2> QED
    BY <2>1 DEF Numbers
<1>5. \A t \in Slave : Numbered(info'[t], t)
  <2> TAKE t \in Slave
  <2>1. Numbered(info[t], t)
    BY DEF Numbers
  <2>2. CASE info'[t] = info[t]
    BY <2>1, <2>2
  <2>3. CASE info'[t].reqId = NoId
    BY <2>3 DEF Numbered
  <2>4. CASE info'[t].reqId = ReqId(op) /\ (op # "add" => "downloaded" \in info'[t].flags)
    BY <1>2, <2>4 DEF Numbered
  <2> QED
    BY <2>2, <2>3, <2>4
<1>6. ASSUME Early' PROVE Quiet'
  <2>1. Early /\ Quiet /\ op # "add" /\ ctl'.job = "none" /\ ack'.rest = {}
    BY <1>6 DEF Numbers
  <2>2. \A m \in Flight' : m.op # "add"
    BY <2>1 DEF Quiet
  <2>3. \A t \in Slave : ~Adds(info'[t].reqId)
    BY <1>2, <1>3, <2>1 DEF Quiet
  <2> QED
    BY <2>1, <2>2, <2>3 DEF Quiet
<1>7. ASSUME FirstRound' PROVE Given'
  <2>1. blentries \in Nat /\ W \in Nat /\ blentries + 1 < W
    BY <1>7, NumberAssumption DEF Types, FirstRound
  <2>2. Given
    BY <2>1 DEF FirstRound, Numbers
  <2>3. ReqId(op)[2] = blentries + 1
    BY <1>1, <2>1
  <2>4. \A t \in Slave : Adds(info[t].reqId) => info[t].reqId[2] \in Nat /\ info[t].reqId[2] <= blentries
    BY <2>2 DEF Given, Adds
  <2>5. \A m \in Flight : m.op = "add" => /\ Adds(m.reqId) /\ m.reqId[2] \in Nat
                                          /\ m.reqId[2] <= blentries
    BY <2>2 DEF Given, Adds, Numbers, Plain
  <2>6. \A t \in Slave : Adds(info'[t].reqId) => info'[t].reqId[2] <= blentries'
    <3> TAKE t \in Slave
    <3>1. \/ info'[t] = info[t] \/ info'[t].reqId = NoId \/ info'[t].reqId = ReqId(op)
      OBVIOUS
    <3> QED
      BY <1>3, <2>1, <2>3, <2>4, <3>1
  <2>7. ASSUME NEW m \in Flight', m.op = "add"
        PROVE  m.reqId[2] <= blentries'
    BY <2>1, <2>3, <2>5, <2>7
  <2>8. ASSUME NEW m \in Flight', m.op = "add", NEW t \in Slave, info'[t].reqId = m.reqId
        PROVE  m.about = {t}
    <3>1. CASE m = r
      <4>1. op = "add" /\ m.about = {s}
        BY <2>8, <3>1
      <4>2. ASSUME t # s PROVE FALSE
        <5>1. info[t].reqId = ReqId(op)
          BY <2>8, <3>1, <4>2
        <5>2. Adds(info[t].reqId)
          BY <1>2, <4>1, <5>1
        <5> QED
          BY <2>1, <2>3, <2>4, <5>1, <5>2
      <4> QED
        BY <4>1, <4>2
    <3>2. CASE m # r
      <4>1. m \in Flight /\ Adds(m.reqId) /\ m.reqId[2] \in Nat /\ m.reqId[2] <= blentries
        BY <2>5, <2>8, <3>2
      <4>2. m.reqId # ReqId(op) /\ m.reqId # NoId
        BY <1>3, <2>1, <2>3, <4>1
      <4>3. info'[t] = info[t]
        BY <2>8, <4>2
      <4> QED
        BY <2>2, <2>8, <4>1, <4>3 DEF Given
    <3> QED
      BY <3>1, <3>2
  <2> QED
    BY <2>6, <2>7, <2>8 DEF Given
<1> QED
  BY <1>4, <1>5, <1>6, <1>7 DEF Numbers

-----------------------------------------------------------------------------
\* Sending.

LEMMA SendsOne ==
  ASSUME Types, NEW r, r.op # "roster", Sends(r), UNCHANGED <<connected, sessions, toClient>>
  PROVE  /\ AnyQueue(toServer') /\ (~connected' => toServer' = <<>> /\ toClient' = <<>>)
         /\ \A m \in Flight' : m \in Flight \/ m = r
         /\ Early' => Early
<1>1. AnyQueue(toServer') /\ Items(toServer') \subseteq Items(toServer) \cup {r}
  BY AppendItem DEF Sends, Types
<1>2. \A m \in Flight' : m \in Flight \/ m = r
  BY <1>1 DEF Flight
<1>3. ~connected' => toServer' = <<>> /\ toClient' = <<>>
  BY DEF Sends, Types
<1> QED
  BY <1>1, <1>2, <1>3 DEF Early

\* YSM_BuddyAddItem, whatever calls it.
LEMMA AddItemStep ==
  ASSUME IInv, NEW s \in Slave, NEW op \in {"add", "update", "remove"},
         NEW type, NEW grp, NEW bID, NEW i, AddItem(s, op, type, grp, bID, i),
         AnyInfo(i), op = "add" => ~Early,
         \/ i = Fresh
         \/ /\ i.reqId = ReqId(op)
            /\ op # "add" => "downloaded" \in i.flags
         ,
         roster' = roster, listed' \subseteq Slave, ack'.rest \subseteq Slave,
         ctl' = [job |-> ctl'.job, rest |-> ctl'.rest, left |-> ctl'.left],
         ack' = [code |-> ack'.code, rest |-> ack'.rest],
         ctl'.job \in {"ignore", "unignore"} =>
            Head(ctl'.rest) \in Slave /\ "downloaded" \in info'[Head(ctl'.rest)].flags,
         Early' => ctl'.job = "none" /\ ack'.rest = {}
  PROVE  IInv'
<1> DEFINE r == [op |-> op, type |-> type, grp |-> grp, id |-> ItemId(s, op, bID),
                 about |-> {s}, reqId |-> ReqId(op)]
<1>1. /\ blentries' = blentries + 1 /\ info' = [info EXCEPT ![s] = i] /\ Sends(r)
      /\ UNCHANGED <<connected, sessions, toClient, stored, denied>>
  BY DEF AddItem
<1>2. r.op = op /\ r.reqId = ReqId(op) /\ r.about = {s} /\ IsFiniteSet(r.about)
  BY FS_Singleton
<1> HIDE DEF r
<1>3. /\ AnyQueue(toServer') /\ (~connected' => toServer' = <<>> /\ toClient' = <<>>)
      /\ \A m \in Flight' : m \in Flight \/ m = r
      /\ Early' => Early
  BY <1>1, <1>2, SendsOne DEF IInv
<1>4. /\ info' = [t \in Slave |-> info'[t]] /\ info'[s] = i
      /\ \A t \in Slave \ {s} : info'[t] = info[t]
  BY <1>1 DEF IInv, Types
<1>5. i = Fresh => i.reqId = NoId
  BY DEF Fresh
<1>6. Numbers'
  BY <1>1, <1>2, <1>3, <1>4, <1>5, NextNumber DEF IInv
<1>7. Types'
  BY <1>1, <1>3, <1>4 DEF IInv, Types, Downloaded
<1> QED
  BY <1>6, <1>7 DEF IInv

-----------------------------------------------------------------------------
\* The commands.  A command that uploads waits until the roster has been read.

LEMMA Waited ==
  ASSUME IInv, Calm, Quota PROVE ~Early
<1>1. connected /\ Synced
  BY DEF Calm, Quota, Synced
<1>2. sessions = 1
  BY <1>1 DEF IInv, Types
<1>3. \A m \in Flight : m.op # "roster"
  BY <1>1 DEF Synced, Flight, Items
<1> QED
  BY <1>2, <1>3 DEF Early

LEMMA ChangedFor ==
  ASSUME IInv, NEW s \in Slave, NEW op, NEW bID
  PROVE  LET i == Changed(s, op, bID) IN
         /\ AnyInfo(i) /\ i.reqId = ReqId(op) /\ i.flags = info[s].flags
         /\ i.ignoreId = info[s].ignoreId
         /\ \A v : LET j == [i EXCEPT !.flags = v]
                   IN  /\ j.reqId = ReqId(op) /\ j.flags = v
                       /\ (info[s].ignoreId # 0 => "downloaded" \in v) => AnyInfo(j)
         /\ \A v : LET j == [i EXCEPT !.ignoreId = v]
                   IN  /\ j.reqId = ReqId(op) /\ j.flags = info[s].flags
                       /\ (v # 0 => Downloaded(s)) => AnyInfo(j)
         /\ \A v : LET j == [i EXCEPT !.invisibleId = v]
                   IN  AnyInfo(j) /\ j.reqId = ReqId(op) /\ j.flags = info[s].flags
<1> DEFINE b == Changed(s, op, bID).budId
           f == info[s]
<1>1. AnyInfo(f)
  BY DEF IInv, Types
<1>2. Changed(s, op, bID) = [flags |-> f.flags, budId |-> b, grpId |-> f.grpId,
            ignoreId |-> f.ignoreId, invisibleId |-> f.invisibleId, reqId |-> ReqId(op)]
  <2> DEFINE id == ReqId(op)
             n == IF op = "add" /\ bID = 0 THEN YSM_BuddyGenNewID ELSE f.budId
  <2>1. Changed(s, op, bID) = [[f EXCEPT !.reqId = id] EXCEPT !.budId = n]
    <3>1. [f EXCEPT !.reqId = id].budId = f.budId
      BY <1>1 DEF AnyInfo
    <3> QED
      BY <3>1 DEF Changed
  <2> HIDE DEF id, n, f
  <2>2. Changed(s, op, bID) = [flags |-> f.flags, budId |-> n, grpId |-> f.grpId,
              ignoreId |-> f.ignoreId, invisibleId |-> f.invisibleId, reqId |-> id]
    BY <1>1, <2>1 DEF AnyInfo
  <2> QED
    BY <2>2 DEF id
<1> HIDE DEF b
<1> QED
  BY <1>1, <1>2 DEF AnyInfo, Downloaded

LEMMA FreshFits == AnyInfo(Fresh) /\ Fresh.reqId = NoId
  BY DEF AnyInfo, Fresh

\* What a step that neither sends nor receives must keep.
LEMMA Aside ==
  ASSUME IInv, UNCHANGED <<blentries, scanqueue, network>>,
         roster' \subseteq roster, listed' \subseteq Slave, ack'.rest \subseteq Slave,
         info' = [s \in Slave |-> info'[s]],
         \A s \in Slave : AnyInfo(info'[s]),
         \A s \in Slave : \/ info'[s].reqId = NoId
                          \/ /\ info'[s].reqId = info[s].reqId
                             /\ Downloaded(s) => "downloaded" \in info'[s].flags,
         ctl' = [job |-> ctl'.job, rest |-> ctl'.rest, left |-> ctl'.left],
         ack' = [code |-> ack'.code, rest |-> ack'.rest],
         ctl'.job \in {"ignore", "unignore"} =>
            Head(ctl'.rest) \in Slave /\ "downloaded" \in info'[Head(ctl'.rest)].flags,
         Early => ctl'.job = "none" /\ ack'.rest = {}
  PROVE  IInv'
<1>1. Flight' = Flight /\ Early' = Early
  BY DEF network, Flight, Early
<1>2. Numbers'
  BY <1>1, NoNumber DEF IInv, Copies
<1>3. Types'
  BY DEF IInv, Types, network, Downloaded
<1> QED
  BY <1>2, <1>3 DEF IInv

LEMMA CommandStep ==
  ASSUME IInv, Calm, NEW s \in Slave,
         cmdSAVE(s) \/ cmdREQ(s) \/ cmdIGNORE_on(s) \/ cmdIGNORE_off(s)
  PROVE  IInv'
<1> USE DEF threads
<1>1. ~Early
  BY Waited DEF cmdSAVE, cmdREQ, cmdIGNORE_on, cmdIGNORE_off
<1>2. ASSUME NEW m \in Flight', m \notin Flight, m.op = "roster" PROVE FALSE
  <2>1. PICK op, r : Sends(r) /\ r.op = op /\ op # "roster" /\ toClient' = toClient
    BY DEF cmdSAVE, cmdREQ, cmdIGNORE_on, cmdIGNORE_off, AddItem
  <2> QED
    BY <1>2, <2>1, AppendItem DEF Sends, Flight, IInv, Types
<1>3. sessions' = sessions
  BY DEF cmdSAVE, cmdREQ, cmdIGNORE_on, cmdIGNORE_off, AddItem
<1>4. ~Early'
  BY <1>1, <1>2, <1>3 DEF Early
<1>5. CASE cmdSAVE(s)
  <2>1. AddItem(s, "add", "slave", "ysm", 0, Changed(s, "add", 0))
        /\ UNCHANGED <<listed, threads>>
    BY <1>5 DEF cmdSAVE
  <2>2. ctl.job = "none"
    BY <1>5 DEF cmdSAVE, Locks, Idle
  <2> QED
    BY <1>1, <1>4, <2>1, <2>2, ChangedFor, AddItemStep DEF IInv, Types
<1>6. CASE cmdREQ(s)
  <2> DEFINE v == info[s].flags \ {"authreq"}
             i == [Changed(s, "add", 0) EXCEPT !.flags = v]
  <2>1. AddItem(s, "add", "slave", "other", 0, i) /\ UNCHANGED <<listed, threads>>
    <3>1. Changed(s, "add", 0).flags = info[s].flags
      BY ChangedFor
    <3>2. [Changed(s, "add", 0) EXCEPT !.flags = @ \ {"authreq"}] = i
      BY <3>1
    <3> QED
      BY <1>6, <3>2 DEF cmdREQ
  <2>2. ctl.job = "none"
    BY <1>6 DEF cmdREQ, Locks, Idle
  <2>3. AnyInfo(i) /\ i.reqId = ReqId("add")
    <3>1. info[s].ignoreId # 0 => "downloaded" \in v
      BY DEF IInv, Types, AnyInfo
    <3> QED
      BY <3>1, ChangedFor
  <2> HIDE DEF i
  <2> QED
    BY <1>1, <1>4, <2>1, <2>2, <2>3, AddItemStep DEF IInv, Types
<1>7. CASE cmdIGNORE_on(s)
  <2> DEFINE v == ItemId(s, "add", 0)
             i == [Changed(s, "add", 0) EXCEPT !.ignoreId = v]
  <2>1. /\ AddItem(s, "add", "ign", "none", 0, i) /\ UNCHANGED <<listed, ack, roster>>
        /\ ctl' = [job |-> "ignore", rest |-> <<s>>, left |-> 0] /\ Downloaded(s)
    BY <1>7 DEF cmdIGNORE_on
  <2>2. AnyInfo(i) /\ i.reqId = ReqId("add") /\ i.flags = info[s].flags
    BY <2>1, ChangedFor
  <2> HIDE DEF i
  <2>3. info'[s] = i /\ Head(ctl'.rest) = s
    BY <2>1 DEF AddItem, IInv, Types
  <2>4. "downloaded" \in info'[s].flags
    BY <2>1, <2>2, <2>3 DEF Downloaded
  <2> QED
    BY <1>1, <1>4, <2>1, <2>2, <2>3, <2>4, AddItemStep DEF IInv, Types
<1>8. CASE cmdIGNORE_off(s)
  <2> DEFINE o == info[s].ignoreId
             i == [Changed(s, "remove", o) EXCEPT !.ignoreId = 0]
  <2>1. /\ AddItem(s, "remove", "ign", "none", o, i) /\ UNCHANGED <<listed, ack, roster>>
        /\ ctl' = [job |-> "unignore", rest |-> <<s>>, left |-> 0] /\ o # 0
    BY <1>8 DEF cmdIGNORE_off
  <2>2. AnyInfo(i) /\ i.reqId = ReqId("remove") /\ i.flags = info[s].flags
    BY <2>1, ChangedFor
  <2>3. "downloaded" \in i.flags
    BY <2>1, <2>2 DEF IInv, Types, AnyInfo
  <2> HIDE DEF i
  <2>4. info'[s] = i /\ Head(ctl'.rest) = s
    BY <2>1 DEF AddItem, IInv, Types
  <2> QED
    BY <1>1, <1>4, <2>1, <2>2, <2>3, <2>4, AddItemStep DEF IInv, Types
<1> QED
  BY <1>5, <1>6, <1>7, <1>8

LEMMA DeletionStep ==
  ASSUME IInv, Calm, NEW s \in Slave, cmdDELSLAVE(s) PROVE IInv'
<1> USE DEF threads
<1>1. /\ ctl.job = "none" /\ UNCHANGED <<ctl, ack, roster>>
      /\ listed' \subseteq Slave
  BY DEF cmdDELSLAVE, Locks, Idle, IInv, Types
<1>2. CASE Downloaded(s)
  <2>1. Quota /\ AddItem(s, "remove", "slave", info[s].grpId, info[s].budId, Fresh)
    BY <1>2 DEF cmdDELSLAVE
  <2>2. ~Early
    BY <2>1, Waited
  <2>3. \A m \in Flight' : m \in Flight \/ m.op = "remove"
    BY <2>1, AppendItem DEF AddItem, Sends, Flight, IInv, Types
  <2>4. ~Early'
    BY <2>1, <2>2, <2>3 DEF Early, AddItem
  <2> QED
    BY <1>1, <2>1, <2>4, FreshFits, AddItemStep DEF IInv, Types
<1>3. CASE ~Downloaded(s)
  <2>1. info' = [info EXCEPT ![s] = Fresh] /\ UNCHANGED <<blentries, scanqueue, network>>
    BY <1>3 DEF cmdDELSLAVE
  <2>2. info' = [t \in Slave |-> info'[t]] /\ info'[s] = Fresh
        /\ \A t \in Slave \ {s} : info'[t] = info[t]
    BY <2>1 DEF IInv, Types
  <2>3. /\ \A t \in Slave : AnyInfo(info'[t])
        /\ \A t \in Slave : info'[t] = info[t] \/ info'[t].reqId = NoId
    BY <2>2, FreshFits DEF IInv, Types
  <2>4. Early => ctl'.job = "none" /\ ack'.rest = {}
    BY <1>1 DEF IInv, Numbers, Quiet
  <2> QED
    BY <1>1, <2>1, <2>2, <2>3, <2>4, Aside DEF IInv, Types, Downloaded
<1> QED
  BY <1>2, <1>3

LEMMA QuietCommands ==
  ASSUME IInv, Calm, cmdSAVE_all \/ \E s \in Slave : cmdADDSLAVE(s) PROVE IInv'
<1>1. /\ listed' \subseteq Slave /\ UNCHANGED <<info, blentries, scanqueue, ack, roster, network>>
      /\ ctl' = [job |-> ctl'.job, rest |-> ctl'.rest, left |-> ctl'.left]
      /\ ctl'.job \notin {"ignore", "unignore"}
      /\ Early => ctl' = ctl
  <2>1. CASE cmdSAVE_all
    BY <2>1, Waited DEF cmdSAVE_all, contacts, IInv, Types
  <2>2. ASSUME NEW s \in Slave, cmdADDSLAVE(s)
        PROVE  listed' \subseteq Slave /\ UNCHANGED <<ctl, info, blentries, scanqueue, ack, roster, network>>
               /\ ctl.job = "none"
    BY <2>2 DEF cmdADDSLAVE, threads, Locks, Idle, IInv, Types
  <2> QED
    BY <2>1, <2>2 DEF IInv, Types
<1>2. Early => ctl'.job = "none" /\ ack'.rest = {}
  BY <1>1 DEF IInv, Numbers, Quiet
<1> QED
  BY <1>1, <1>2, Aside DEF IInv, Types, Downloaded

\* The commands that hold the mutex go on.
LEMMA GoesStep == ASSUME IInv, Goes PROVE IInv'
<1>1. ~Early /\ ctl.job # "none"
  BY DEF IInv, Numbers, Quiet, Goes, YSM_BuddyUploadList, YSM_BuddyInvisible
<1>2. /\ ack' = ack /\ roster' = roster /\ listed' = listed /\ sessions' = sessions
      /\ \A m \in Flight' : m \in Flight \/ m.op # "roster"
  <2> USE DEF contacts, network
  <2>1. toServer' = toServer \/ \E r : Sends(r) /\ r.op # "roster"
    BY DEF Goes, YSM_BuddyUploadList, YSM_BuddyInvisible, AddItem
  <2>2. toClient' = toClient
    BY DEF Goes, YSM_BuddyUploadList, YSM_BuddyInvisible, AddItem
  <2>3. \A m \in Flight' : m \in Flight \/ m.op # "roster"
    <3>1. CASE toServer' = toServer
      BY <2>2, <3>1 DEF Flight
    <3>2. ASSUME NEW r, Sends(r), r.op # "roster"
          PROVE  \A m \in Flight' : m \in Flight \/ m.op # "roster"
      <4>1. Items(toServer') \subseteq Items(toServer) \cup {r}
        BY <3>2, AppendItem DEF Sends, IInv, Types
      <4> QED
        BY <2>2, <3>2, <4>1 DEF Flight
    <3> QED
      BY <2>1, <3>1, <3>2
  <2> QED
    BY <2>3 DEF Goes, YSM_BuddyUploadList, YSM_BuddyInvisible, AddItem
<1>3. ~Early'
  BY <1>1, <1>2 DEF Early
<1>4. CASE YSM_BuddyUploadList
  <2>1. /\ ctl' = [job |-> ctl'.job, rest |-> ctl'.rest, left |-> ctl'.left]
        /\ ctl'.job \in {"none", "save"}
    <3> DEFINE x == Tail(ctl.rest)
               y == ctl.left - 1
    <3>1. \/ ctl' = Idle
          \/ ctl' = [ctl EXCEPT !.rest = x]
          \/ ctl' = [[ctl EXCEPT !.rest = x] EXCEPT !.left = y]
      <4>1. [ctl EXCEPT !.rest = x].left = ctl.left
        BY DEF IInv, Types
      <4> QED
        BY <1>4, <4>1 DEF YSM_BuddyUploadList
    <3>2. ctl.job = "save" /\ ctl = [job |-> ctl.job, rest |-> ctl.rest, left |-> ctl.left]
      BY <1>4 DEF YSM_BuddyUploadList, IInv, Types
    <3> HIDE DEF x, y
    <3> QED
      <4>1. CASE ctl' = Idle
        BY <4>1 DEF Idle
      <4>2. CASE ctl' = [ctl EXCEPT !.rest = x]
        BY <3>2, <4>2
      <4>3. CASE ctl' = [[ctl EXCEPT !.rest = x] EXCEPT !.left = y]
        BY <3>2, <4>3
      <4> QED
        BY <3>1, <4>1, <4>2, <4>3
  <2>2. CASE UNCHANGED <<contacts, network>>
    BY <1>1, <1>2, <2>1, <2>2, Aside DEF IInv, Types, contacts, Downloaded
  <2>3. CASE ~UNCHANGED <<contacts, network>>
    <3> DEFINE s == Head(ctl.rest)
    <3>1. s \in listed /\ AddItem(s, "add", "slave", "ysm", 0, Changed(s, "add", 0))
      BY <1>4, <2>3 DEF YSM_BuddyUploadList
    <3>2. s \in Slave
      BY <3>1 DEF IInv, Types
    <3> HIDE DEF s
    <3>3. AnyInfo(Changed(s, "add", 0)) /\ Changed(s, "add", 0).reqId = ReqId("add")
      BY <3>2, ChangedFor
    <3> QED
      BY <1>1, <1>2, <1>3, <2>1, <3>1, <3>2, <3>3, AddItemStep DEF IInv, Types
  <2> QED
    BY <2>2, <2>3
<1>5. CASE YSM_BuddyInvisible
  <2> DEFINE s == Head(ctl.rest)
             o == info[s].invisibleId
             v == ItemId(s, "add", 0)
             i == [Changed(s, "add", 0) EXCEPT !.invisibleId = v]
             j == [Changed(s, "remove", o) EXCEPT !.invisibleId = 0]
  <2>1. ctl' = Idle /\ ctl'.job = "none"
        /\ ctl' = [job |-> ctl'.job, rest |-> ctl'.rest, left |-> ctl'.left]
    BY <1>5 DEF YSM_BuddyInvisible, Idle
  <2>2. \/ AddItem(s, "add", "inv", "none", 0, i)
        \/ AddItem(s, "remove", "inv", "none", o, j)
        \/ UNCHANGED <<info, blentries, scanqueue, network>>
    BY <1>5 DEF YSM_BuddyInvisible
  <2>3. s \in Slave /\ Downloaded(s)
    BY <1>5 DEF YSM_BuddyInvisible, IInv, Types
  <2>4. /\ AnyInfo(i) /\ i.reqId = ReqId("add")
        /\ AnyInfo(j) /\ j.reqId = ReqId("remove") /\ "downloaded" \in j.flags
    <3>1. AnyInfo(i) /\ i.reqId = ReqId("add")
      <4> HIDE DEF s, v
      <4> QED
        BY <2>3, ChangedFor
    <3>2. AnyInfo(j) /\ j.reqId = ReqId("remove") /\ j.flags = info[s].flags
      <4> HIDE DEF s, o
      <4> QED
        BY <2>3, ChangedFor
    <3> HIDE DEF i, j
    <3> QED
      BY <2>3, <3>1, <3>2 DEF Downloaded
  <2> HIDE DEF i, j, o, s
  <2>5. CASE AddItem(s, "add", "inv", "none", 0, i)
    BY <1>1, <1>2, <1>3, <2>1, <2>3, <2>4, <2>5, AddItemStep DEF IInv, Types
  <2>6. CASE AddItem(s, "remove", "inv", "none", o, j)
    BY <1>1, <1>2, <1>3, <2>1, <2>3, <2>4, <2>6, AddItemStep DEF IInv, Types
  <2>7. CASE UNCHANGED <<info, blentries, scanqueue, network>>
    BY <1>1, <1>2, <2>1, <2>7, Aside DEF IInv, Types, Downloaded
  <2> QED
    BY <2>2, <2>5, <2>6, <2>7
<1> QED
  BY <1>4, <1>5 DEF Goes

LEMMA PrivacyStep == ASSUME IInv, sendUpdatePrivacy PROVE IInv'
<1> DEFINE r == [op |-> "update", about |-> {}, reqId |-> ReqId("update")]
<1>1. /\ blentries' = blentries + 1 /\ Sends(r)
      /\ UNCHANGED <<listed, info, threads, connected, sessions, toClient, stored, denied>>
  BY DEF sendUpdatePrivacy
<1>2. r.op = "update" /\ r.reqId = ReqId("update") /\ r.about = {} /\ IsFiniteSet(r.about)
  BY FS_EmptySet
<1> HIDE DEF r
<1>3. /\ AnyQueue(toServer') /\ (~connected' => toServer' = <<>> /\ toClient' = <<>>)
      /\ \A m \in Flight' : m \in Flight \/ m = r
      /\ Early' => Early
  BY <1>1, <1>2, SendsOne DEF IInv
<1>4. Early' => Early /\ ctl'.job = "none" /\ ack'.rest = {}
  BY <1>1, <1>3 DEF threads, IInv, Numbers, Quiet
<1>5. Numbers'
  BY <1>1, <1>2, <1>3, <1>4, NextNumber DEF IInv
<1>6. Types'
  BY <1>1, <1>3 DEF IInv, Types, threads, Downloaded
<1> QED
  BY <1>5, <1>6 DEF IInv

LEMMA ScanStep == ASSUME IInv, NEW s \in Slave, YSM_War_Scan(s) PROVE IInv'
<1> DEFINE r == [op |-> "scan", about |-> {s}, reqId |-> <<"scan", s>>]
           v == info[s].flags \cup {"scanned"}
           i == [info[s] EXCEPT !.flags = v, !.reqId = <<"scan", s>>]
<1>1. /\ Sends(r) /\ info' = [info EXCEPT ![s] = i]
      /\ UNCHANGED <<listed, blentries, threads, connected, sessions, toClient, stored, denied>>
  BY DEF YSM_War_Scan, IInv, Types
<1>2. r.op = "scan" /\ r.reqId = <<"scan", s>> /\ r.about = {s} /\ IsFiniteSet(r.about)
  BY FS_Singleton
<1>3. i.reqId = <<"scan", s>> /\ i.flags = v /\ AnyInfo(i)
  <2> DEFINE f == info[s]
             id == <<"scan", s>>
  <2>1. AnyInfo(f) /\ ("downloaded" \in f.flags => "downloaded" \in v)
    BY DEF IInv, Types
  <2>2. i = [[f EXCEPT !.flags = v] EXCEPT !.reqId = id]
    OBVIOUS
  <2> HIDE DEF f, v, id, i
  <2>3. i = [flags |-> v, budId |-> f.budId, grpId |-> f.grpId,
             ignoreId |-> f.ignoreId, invisibleId |-> f.invisibleId, reqId |-> id]
    BY <2>1, <2>2 DEF AnyInfo
  <2> QED
    BY <2>1, <2>3 DEF AnyInfo, id
<1> HIDE DEF r, i
<1>4. /\ AnyQueue(toServer') /\ (~connected' => toServer' = <<>> /\ toClient' = <<>>)
      /\ \A m \in Flight' : m \in Flight \/ m = r
      /\ Early' => Early
  BY <1>1, <1>2, SendsOne DEF IInv
<1>5. /\ info' = [t \in Slave |-> info'[t]] /\ info'[s] = i
      /\ \A t \in Slave \ {s} : info'[t] = info[t]
  BY <1>1 DEF IInv, Types
<1>6. ~Adds(<<"scan", s>>)
  BY DEF Adds
<1>7. Types'
  BY <1>1, <1>3, <1>4, <1>5 DEF IInv, Types, threads, Downloaded
<1>8. \A m \in Flight' : Plain(m)
  <2>1. Plain(r)
    BY <1>2 DEF Plain, Scans
  <2> QED
    BY <1>4, <2>1 DEF IInv, Numbers
<1>9. \A t \in Slave : Numbered(info'[t], t)
  <2>1. Numbered(i, s)
    BY <1>3 DEF Numbered, Scans
  <2> QED
    BY <1>5, <2>1 DEF IInv, Numbers
<1>10. Early' => Quiet'
  BY <1>1, <1>2, <1>3, <1>4, <1>5, <1>6 DEF IInv, Numbers, Quiet, threads
<1>11. ASSUME FirstRound' PROVE Given'
  <2>1. Given /\ blentries' = blentries
    BY <1>1, <1>11 DEF FirstRound, IInv, Numbers
  <2>2. \A m \in Flight' : m.op = "add" => m \in Flight /\ m.reqId # <<"scan", s>>
    BY <1>2, <1>4, <1>6 DEF IInv, Numbers, Plain
  <2> QED
    BY <1>3, <1>5, <1>6, <2>1, <2>2 DEF Given
<1> QED
  BY <1>7, <1>8, <1>9, <1>10, <1>11 DEF IInv, Numbers

-----------------------------------------------------------------------------
\* The network thread.

LEMMA Received ==
  ASSUME IInv, NEW ops, Reads(ops)
  PROVE  LET a == Head(toClient) IN
         /\ a \in Flight /\ a \in Items(toClient) /\ a.op \in ops
         /\ AnyQueue(toClient') /\ Items(toClient') \subseteq Items(toClient)
         /\ \A m \in Flight' : m \in Flight
         /\ Early' => Early
         /\ connected /\ toServer' = toServer /\ UNCHANGED <<connected, sessions, stored, denied>>
<1>1. /\ toClient # <<>> /\ Head(toClient).op \in ops /\ toClient' = Tail(toClient)
      /\ UNCHANGED <<connected, sessions, toServer, stored, denied>>
  BY DEF Reads
<1>2. /\ Head(toClient) \in Items(toClient)
      /\ AnyQueue(toClient') /\ Items(toClient') \subseteq Items(toClient)
  BY <1>1, TakeItem DEF IInv, Types
<1>3. \A m \in Flight' : m \in Flight
  BY <1>1, <1>2 DEF Flight
<1>4. connected
  BY <1>1 DEF IInv, Types
<1> QED
  BY <1>1, <1>2, <1>3, <1>4 DEF Flight, Early

LEMMA RosterStep == ASSUME IInv, YSM_BuddyIncomingList PROVE IInv'
<1> DEFINE items == Head(toClient).items
<1>1. /\ blentries' = Cardinality(items) + 1 /\ roster' = items
      /\ UNCHANGED <<listed, info, scanqueue, ctl, ack>> /\ Reads({"roster"})
  BY DEF YSM_BuddyIncomingList
<1>2. /\ Early /\ OfSlaves(items) /\ AnyQueue(toClient')
      /\ \A m \in Flight' : m \in Flight
      /\ \A m \in Items(toClient') : m \in Items(toClient)
      /\ connected /\ UNCHANGED <<connected, sessions, toServer, stored, denied>>
  <2>1. Head(toClient) \in Flight /\ Head(toClient) \in Items(toClient) /\ Head(toClient).op = "roster"
    BY <1>1, Received
  <2> QED
    BY <1>1, <2>1, Received DEF Early, IInv, Types
<1>3. Quiet
  BY <1>2 DEF IInv, Numbers
<1>4. blentries' \in Nat
  BY <1>1, <1>2, FS_CardinalityType DEF OfSlaves
<1>5. Types'
  BY <1>1, <1>2, <1>4 DEF IInv, Types, OfSlaves, Downloaded
<1>6. Numbers'
  BY <1>1, <1>2, <1>3 DEF IInv, Numbers, Quiet, Given
<1> QED
  BY <1>5, <1>6 DEF IInv

LEMMA ItemStep == ASSUME IInv, NEW x \in roster, buddyAddSlave(x) PROVE IInv'
<1> DEFINE s == x.slave
           f == info[s]
           v == f.flags \cup {"downloaded"}
           g == IF x.type = "ign" THEN x.id ELSE f.ignoreId
           h == IF x.type = "inv" THEN x.id ELSE f.invisibleId
           i == [flags |-> v, budId |-> x.id, grpId |-> x.grp, ignoreId |-> g,
                 invisibleId |-> h, reqId |-> f.reqId]
<1>1. s \in Slave /\ AnyInfo(f)
  BY DEF IInv, Types
<1>2. /\ roster' = roster \ {x} /\ listed' = listed \cup {s}
      /\ UNCHANGED <<blentries, scanqueue, ctl, ack, network>>
  BY DEF buddyAddSlave
<1>3. info' = [info EXCEPT ![s] = i]
  BY DEF buddyAddSlave
<1>4. AnyInfo(i) /\ i.reqId = f.reqId /\ "downloaded" \in i.flags
  BY DEF AnyInfo
<1> HIDE DEF i, s
<1>6. /\ info' = [t \in Slave |-> info'[t]] /\ info'[s] = i
      /\ \A t \in Slave \ {s} : info'[t] = info[t]
  BY <1>1, <1>3 DEF IInv, Types
<1>7. \A t \in Slave : /\ AnyInfo(info'[t]) /\ info'[t].reqId = info[t].reqId
                       /\ Downloaded(t) => "downloaded" \in info'[t].flags
  BY <1>4, <1>6 DEF IInv, Types, Downloaded
<1>8. Early => ctl'.job = "none" /\ ack'.rest = {}
  BY <1>2 DEF IInv, Numbers, Quiet
<1> QED
  BY <1>1, <1>2, <1>6, <1>7, <1>8, Aside DEF IInv, Types, Downloaded

LEMMA AnswerStep == ASSUME IInv, YSM_BuddyIncomingChange PROVE IInv'
<1> DEFINE a == Head(toClient)
           T == Matched(a)
<1>1. /\ Reads({"add", "update", "remove"})
      /\ ack' = [code |-> a.code, rest |-> T]
      /\ UNCHANGED <<listed, info, blentries, scanqueue, ctl, roster>>
  BY DEF YSM_BuddyIncomingChange, contacts
<1>2. /\ a \in Flight /\ a.op \in {"add", "update", "remove"}
      /\ AnyQueue(toClient')
      /\ \A m \in Items(toClient') : m \in Items(toClient)
      /\ \A m \in Flight' : m \in Flight
      /\ Early' => Early
      /\ connected /\ UNCHANGED <<connected, sessions, toServer, stored, denied>>
  BY <1>1, Received
<1>3. T \subseteq Slave
  BY DEF Matched, IInv, Types
<1>4. ASSUME Early, NEW s \in T PROVE FALSE
  <2>1. s \in Slave /\ s \in listed /\ info[s].reqId = a.reqId
    BY <1>3 DEF Matched
  <2>2. ~Adds(info[s].reqId) /\ a.op # "add"
    BY <1>2, <1>4, <2>1 DEF IInv, Numbers, Quiet
  <2>3. Others(a.reqId)
    BY <1>2, <2>2 DEF IInv, Numbers, Plain
  <2>4. info[s].reqId # NoId /\ ~Scans(info[s].reqId, s)
    BY <2>1, <2>3 DEF Others, NoId, Scans
  <2>5. Downloaded(s)
    BY <2>1, <2>2, <2>4 DEF IInv, Numbers, Numbered, Downloaded
  <2>6. Before(s, s)
    BY <2>1, <2>5 DEF Matched
  <2>7. PICK i, j \in 1 .. Len(Order) : i < j /\ Order[i] = s /\ Order[j] = s
    BY <2>6 DEF Before
  <2>8. i = j
    <3>1. DOMAIN Order = 1 .. Len(Order)
      BY OrderAssumption
    <3> QED
      BY <2>7, <3>1, OrderAssumption DEF IsInjective
  <2>9. Len(Order) \in Nat
    BY OrderAssumption
  <2> QED
    BY <2>7, <2>8, <2>9
<1> HIDE DEF a, T
<1>5. Early' => Early /\ ctl'.job = "none" /\ ack'.rest = {}
  BY <1>1, <1>2, <1>4 DEF IInv, Numbers, Quiet
<1>6. Numbers'
  BY <1>1, <1>2, <1>5, NoNumber DEF IInv, Copies, Downloaded
<1>7. Types'
  BY <1>1, <1>2, <1>3 DEF IInv, Types, Downloaded
<1> QED
  BY <1>6, <1>7 DEF IInv

LEMMA AppliesStep == ASSUME IInv, incomingChangeOf PROVE IInv'
<1>1. PICK s \in ack.rest :
         Applies(s, AddItem(s, "add", "slave", "ysm", 0, Changed(s, "add", 0)))
  BY DEF incomingChangeOf
<1>2. s \in Slave /\ ~Early
  BY DEF IInv, Types, Numbers, Quiet
<1> DEFINE v == info[s].flags \cup {"downloaded"}
           i == [Changed(s, "update", 0) EXCEPT !.flags = v]
           T == ack.rest \ {s}
           w == IF ack.code = "auth" THEN {"authreq"} ELSE {}
           g == [info[s] EXCEPT !.flags = v \cup w]
<1>3. /\ ack' = [ack EXCEPT !.rest = T] /\ UNCHANGED <<listed, ctl, roster>>
      /\ \/ AddItem(s, "update", "group", "ysm", 0,
                    [Changed(s, "update", 0) EXCEPT !.flags = @ \cup {"downloaded"}])
         \/ AddItem(s, "add", "slave", "ysm", 0, Changed(s, "add", 0))
         \/ /\ info' = [info EXCEPT ![s].flags = @ \cup {"downloaded"} \cup w]
            /\ UNCHANGED <<blentries, scanqueue, network>>
  BY <1>1 DEF Applies
<1>4. ack' = [code |-> ack'.code, rest |-> ack'.rest] /\ ack'.rest = T /\ T \subseteq Slave
  BY <1>3 DEF IInv, Types
<1>5. /\ AnyInfo(Changed(s, "add", 0)) /\ Changed(s, "add", 0).reqId = ReqId("add")
      /\ Changed(s, "update", 0).flags = info[s].flags
      /\ Changed(s, "add", 0).flags = info[s].flags
      /\ AnyInfo(i) /\ i.reqId = ReqId("update") /\ i.flags = v
  BY <1>2, ChangedFor
<1>6. [Changed(s, "update", 0) EXCEPT !.flags = @ \cup {"downloaded"}] = i
  BY <1>5
<1>7. \A m \in {Head(ctl.rest)} : ctl.job \in {"ignore", "unignore"} =>
         m \in Slave /\ "downloaded" \in info[m].flags
  BY DEF IInv, Types, Downloaded
<1> HIDE DEF i, T
<1>8. CASE AddItem(s, "update", "group", "ysm", 0, i)
  <2>1. \A t \in Slave : "downloaded" \in info[t].flags => "downloaded" \in info'[t].flags
    <3>1. info' = [info EXCEPT ![s] = i]
      BY <1>8 DEF AddItem
    <3> QED
      BY <1>5, <3>1 DEF IInv, Types
  <2>2. ~Early'
    <3>1. \A m \in Flight' : m \in Flight \/ m.op = "update"
      BY <1>8, AppendItem DEF AddItem, Sends, Flight, IInv, Types
    <3> QED
      BY <1>2, <1>8, <3>1 DEF Early, AddItem
  <2> QED
    BY <1>2, <1>3, <1>4, <1>5, <1>7, <1>8, <2>1, <2>2, AddItemStep DEF IInv, Types
<1>9. CASE AddItem(s, "add", "slave", "ysm", 0, Changed(s, "add", 0))
  <2>1. \A t \in Slave : "downloaded" \in info[t].flags => "downloaded" \in info'[t].flags
    <3>1. info' = [info EXCEPT ![s] = Changed(s, "add", 0)]
      BY <1>9 DEF AddItem
    <3> QED
      BY <1>5, <3>1 DEF IInv, Types
  <2>2. ~Early'
    <3>1. \A m \in Flight' : m \in Flight \/ m.op = "add"
      BY <1>9, AppendItem DEF AddItem, Sends, Flight, IInv, Types
    <3> QED
      BY <1>2, <1>9, <3>1 DEF Early, AddItem
  <2> QED
    BY <1>2, <1>3, <1>4, <1>5, <1>7, <1>9, <2>1, <2>2, AddItemStep DEF IInv, Types
<1>10. CASE /\ info' = [info EXCEPT ![s].flags = @ \cup {"downloaded"} \cup w]
            /\ UNCHANGED <<blentries, scanqueue, network>>
  <2>1. info' = [info EXCEPT ![s] = g]
    BY <1>2, <1>10 DEF IInv, Types
  <2>2. AnyInfo(g) /\ g.reqId = info[s].reqId /\ "downloaded" \in g.flags
    <3> DEFINE f == info[s]
               u == v \cup w
    <3>1. AnyInfo(f) /\ g = [f EXCEPT !.flags = u] /\ "downloaded" \in u
      BY <1>2 DEF IInv, Types
    <3> HIDE DEF f, u, g
    <3> QED
      BY <3>1 DEF AnyInfo, f
  <2> HIDE DEF g
  <2>3. /\ info' = [t \in Slave |-> info'[t]] /\ info'[s] = g
        /\ \A t \in Slave \ {s} : info'[t] = info[t]
    BY <1>2, <2>1 DEF IInv, Types
  <2>4. \A t \in Slave : /\ AnyInfo(info'[t]) /\ info'[t].reqId = info[t].reqId
                         /\ Downloaded(t) => "downloaded" \in info'[t].flags
    BY <2>2, <2>3 DEF IInv, Types, Downloaded
  <2> QED
    BY <1>2, <1>3, <1>4, <1>7, <1>10, <2>3, <2>4, Aside DEF IInv, Types, Downloaded
<1> QED
  BY <1>3, <1>6, <1>8, <1>9, <1>10

LEMMA ScanAnswerStep == ASSUME IInv, incomingScanRsp PROVE IInv'
<1> DEFINE m == {s \in listed : scanqueue # 0 /\ info[s].reqId = Head(toClient).reqId}
           F(s) == IF s \in m THEN [info[s] EXCEPT !.flags = @ \ {"scanned"}] ELSE info[s]
<1>1. /\ Reads({"scan"}) /\ info' = [s \in Slave |-> F(s)]
      /\ UNCHANGED <<listed, blentries, threads>>
  BY DEF incomingScanRsp
<1>2. /\ AnyQueue(toClient')
      /\ \A n \in Items(toClient') : n \in Items(toClient)
      /\ \A n \in Flight' : n \in Flight
      /\ Early' => Early
      /\ connected /\ UNCHANGED <<connected, sessions, toServer, stored, denied>>
  BY <1>1, Received
<1>3. \A s \in Slave : /\ AnyInfo(F(s)) /\ F(s).reqId = info[s].reqId
                       /\ Downloaded(s) => "downloaded" \in F(s).flags
  <2> TAKE s \in Slave
  <2> DEFINE f == info[s]
             v == f.flags \ {"scanned"}
             i == [f EXCEPT !.flags = v]
  <2>1. F(s) = f \/ F(s) = i
    OBVIOUS
  <2>2. AnyInfo(f) /\ ("downloaded" \in f.flags => "downloaded" \in v)
    BY DEF IInv, Types
  <2>3. AnyInfo(i) /\ i.reqId = f.reqId /\ i.flags = v
    <3> HIDE DEF f, v
    <3> QED
      BY <2>2 DEF AnyInfo
  <2> HIDE DEF i, F
  <2> QED
    BY <2>1, <2>2, <2>3 DEF Downloaded
<1> HIDE DEF F
<1>4. /\ info' = [s \in Slave |-> info'[s]]
      /\ \A s \in Slave : /\ AnyInfo(info'[s]) /\ info'[s].reqId = info[s].reqId
                          /\ Downloaded(s) => "downloaded" \in info'[s].flags
  BY <1>1, <1>3
<1>5. Early' => Early /\ ctl'.job = "none" /\ ack'.rest = {}
  BY <1>1, <1>2 DEF IInv, Numbers, Quiet, threads
<1>6. Numbers'
  BY <1>1, <1>2, <1>4, <1>5, NoNumber DEF IInv, Copies
<1>7. Types'
  BY <1>1, <1>2, <1>4 DEF IInv, Types, threads, Downloaded
<1> QED
  BY <1>6, <1>7 DEF IInv

-----------------------------------------------------------------------------
\* The session and the server.

LEMMA SessionStep == ASSUME IInv, Calm, SignsIn \/ SessionEnds PROVE IInv'
<1> USE DEF contacts, threads
<1>1. CASE SignsIn
  <2> DEFINE r == [op |-> "roster"]
  <2>1. /\ sessions = 0 /\ sessions' = 1 /\ connected' = TRUE
        /\ toServer' = <<r>> /\ toClient' = <<>>
        /\ UNCHANGED <<contacts, threads, stored, denied>>
    BY <1>1 DEF SignsIn, Calm, IInv, Types
  <2>2. AnyQueue(<<r>>) /\ Items(<<r>>) = {r}
    <3> HIDE DEF r
    <3> DEFINE q == <<>>
    <3>1. <<r>> = Append(q, r)
      OBVIOUS
    <3>2. AnyQueue(q) /\ Items(q) = {}
      BY NothingQueued
    <3> HIDE DEF q
    <3>3. AnyQueue(Append(q, r)) /\ Items(Append(q, r)) = Items(q) \cup {r}
      BY <3>2, AppendItem
    <3> QED
      BY <3>1, <3>2, <3>3
  <2>3. \A m \in Flight' : m.op = "roster"
    BY <2>1, <2>2, NothingQueued DEF Flight
  <2>4. Early' => Early /\ ctl'.job = "none" /\ ack'.rest = {}
    BY <2>1 DEF Early, IInv, Numbers, Quiet
  <2>5. Numbers'
    BY <2>1, <2>3, <2>4, NoNumber DEF IInv, Downloaded
  <2>6. Types'
    BY <2>1, <2>2, NothingQueued DEF IInv, Types, Downloaded
  <2> QED
    BY <2>5, <2>6 DEF IInv
<1>2. CASE SessionEnds
  <2>1. /\ connected /\ connected' = FALSE /\ toServer' = <<>> /\ toClient' = <<>>
        /\ UNCHANGED <<contacts, threads, sessions, stored, denied>>
    BY <1>2 DEF SessionEnds
  <2>2. Flight' = {}
    BY <2>1, NothingQueued DEF Flight
  <2>3. ~Early'
    BY <2>1, <2>2 DEF Early, IInv, Types
  <2>4. Numbers'
    BY <2>1, <2>2, <2>3, NoNumber DEF IInv, Downloaded
  <2>5. Types'
    BY <2>1, NothingQueued DEF IInv, Types, Downloaded
  <2> QED
    BY <2>4, <2>5 DEF IInv
<1> QED
  BY <1>1, <1>2

\* The server takes the oldest request; what it sends back is about the same.
LEMMA ServerStep == ASSUME IInv, Server PROVE IInv'
<1> DEFINE q == Head(toServer)
           e == [op |-> "roster", items |-> stored]
           a(code) == [op |-> q.op, code |-> code, about |-> q.about, reqId |-> q.reqId]
<1>1. /\ toServer # <<>> /\ toServer' = Tail(toServer)
      /\ UNCHANGED <<contacts, threads, connected, sessions>>
  BY DEF Server, ServerSendsRoster, ServerStores, ServerDeclines, ServerRemoves,
         ServerAnswers, Takes
<1>2. /\ q \in Flight /\ AnyQueue(toServer') /\ Items(toServer') \subseteq Items(toServer)
  BY <1>1, TakeItem DEF Flight, IInv, Types
<1>3. connected
  BY <1>1 DEF IInv, Types
<1>4. PICK m : /\ toClient' = Append(toClient, m)
               /\ \/ q.op = "roster" /\ m = e
                  \/ q.op # "roster" /\ \E code : m = a(code)
  BY DEF Server, ServerSendsRoster, ServerStores, ServerDeclines, ServerRemoves,
         ServerAnswers, Takes, Answers
<1>5. /\ m.op = "roster" => q.op = "roster" /\ OfSlaves(m.items)
      /\ Copies(m, q)
  <2>1. CASE q.op = "roster" /\ m = e
    BY <1>2, <2>1 DEF Copies, IInv, Types
  <2>2. ASSUME NEW code, q.op # "roster", m = a(code)
        PROVE  m.op # "roster" /\ Copies(m, q)
    <3>1. m.op = q.op /\ m.about = q.about /\ m.reqId = q.reqId
      BY <2>2
    <3> HIDE DEF q
    <3> QED
      BY <1>2, <2>2, <3>1 DEF Copies
  <2> QED
    BY <1>4, <2>1, <2>2
<1>6. AnyQueue(toClient') /\ Items(toClient') = Items(toClient) \cup {m}
  BY <1>4, AppendItem DEF IInv, Types
<1>7. OfSlaves(stored')
  <2>1. CASE stored' = stored
    BY <2>1 DEF IInv, Types
  <2>2. CASE ServerStores
    <3> DEFINE F(s) == [type |-> q.type, grp |-> q.grp, id |-> q.id, slave |-> s]
               S == {F(s) : s \in q.about}
    <3>1. q.op = "add" /\ stored' = stored \cup S
      BY <2>2 DEF ServerStores, Takes, Asked
    <3>2. IsFiniteSet(q.about) /\ q.about \subseteq Slave
      BY <1>2, <3>1 DEF IInv, Numbers, Plain
    <3> HIDE DEF q
    <3> DEFINE f == [s \in q.about |-> F(s)]
    <3>3. f \in Surjection(q.about, S)
      BY DEF Surjection
    <3>4. IsFiniteSet(S)
      BY <3>2, <3>3, FS_Surjection
    <3>5. \A i \in S : i.slave \in Slave
      BY <3>2
    <3> HIDE DEF S
    <3> QED
      BY <3>1, <3>4, <3>5, FS_Union DEF IInv, Types, OfSlaves
  <2>3. CASE ServerRemoves
    <3>1. stored' \subseteq stored
      BY <2>3 DEF ServerRemoves
    <3> QED
      BY <3>1, FS_Subset DEF IInv, Types, OfSlaves
  <2> QED
    BY <2>1, <2>2, <2>3 DEF Server, ServerSendsRoster, ServerDeclines, ServerAnswers
<1> HIDE DEF q
<1>8. /\ \A n \in Flight' : \E l : Copies(n, l)
      /\ Early' => Early
  <2>1. \A n \in Flight : Copies(n, n)
    BY DEF Copies
  <2>2. \A n \in Flight' : n \in Flight \/ n = m
    BY <1>2, <1>6 DEF Flight
  <2>3. Early' => Early
    BY <1>1, <1>2, <1>5, <2>2 DEF Early
  <2> QED
    BY <1>5, <2>1, <2>2, <2>3
<1>9. Early' => Early /\ ctl'.job = "none" /\ ack'.rest = {}
  BY <1>1, <1>8 DEF IInv, Numbers, Quiet, threads
<1>10. Numbers'
  BY <1>1, <1>8, <1>9, NoNumber DEF IInv, contacts, Downloaded
<1>11. Types'
  <2>1. \A n \in Items(toClient') : n.op = "roster" => OfSlaves(n.items)
    BY <1>5, <1>6 DEF IInv, Types
  <2> QED
    BY <1>1, <1>2, <1>3, <1>6, <1>7, <2>1 DEF IInv, Types, contacts, threads, Downloaded
<1> QED
  BY <1>10, <1>11 DEF IInv

-----------------------------------------------------------------------------
LEMMA InitIInv == Init => IInv
<1> SUFFICES ASSUME Init PROVE IInv
  OBVIOUS
<1>1. Flight = {} /\ AnyQueue(<<>>)
  BY NothingQueued DEF Init, Flight
<1>2. \A s \in Slave : info[s] = Fresh
  BY DEF Init
<1>3. OfSlaves(Stored)
  BY StoredAssumption DEF OfSlaves, Item
<1>4. Types
  <2>1. info = [s \in Slave |-> info[s]] /\ \A s \in Slave : AnyInfo(info[s])
    BY <1>2, FreshFits DEF Init
  <2> QED
    BY <1>1, <1>3, <2>1, NothingQueued DEF Init, Types, Idle, NoAck
<1>5. ~Adds(NoId)
  BY DEF NoId, Adds
<1>6. Numbers
  BY <1>1, <1>2, <1>5, FreshFits DEF Init, Numbers, Numbered, Quiet, Given, Idle, NoAck
<1> QED
  BY <1>4, <1>6 DEF IInv

LEMMA NextIInv == Calm /\ IInv /\ [Next]_vars => IInv'
<1> SUFFICES ASSUME Calm, IInv, [Next]_vars PROVE IInv'
  OBVIOUS
<1>1. CASE Prompt
  BY <1>1, CommandStep, DeletionStep, QuietCommands, PrivacyStep, ScanStep DEF Prompt
<1>2. CASE Goes
  BY <1>2, GoesStep
<1>3. CASE NetThread
  BY <1>3, RosterStep, ItemStep, AnswerStep, AppliesStep, ScanAnswerStep DEF NetThread
<1>4. CASE SignsIn \/ SessionEnds
  BY <1>4, SessionStep
<1>5. CASE Server
  BY <1>5, ServerStep
<1>6. CASE UNCHANGED vars
  <2>1. /\ UNCHANGED <<blentries, scanqueue, network, info, listed, ack, ctl, roster>>
    BY <1>6 DEF vars, contacts, threads
  <2>2. Early => ctl.job = "none" /\ ack.rest = {}
    BY DEF IInv, Numbers, Quiet
  <2> QED
    BY <2>1, <2>2, Aside DEF IInv, Types, Downloaded
<1> QED
  BY <1>1, <1>2, <1>3, <1>4, <1>5, <1>6 DEF Next

-----------------------------------------------------------------------------
\* Until the change count has gone round, an answer carries the request id of a
\* contact that is not on the server only if it answers that contact's upload
\* (YSM_BuddyAddItem leaves the id, YSM_BuddyIncomingChange looks for it): no
\* contact is marked as stored on the strength of another one's answer.
THEOREM AnswersFound == Spec /\ Calm => [](FirstRound => AnswerMatches)
<1> SUFFICES ASSUME Calm PROVE Spec => [](FirstRound => AnswerMatches)
  OBVIOUS
<1>1. IInv => (FirstRound => AnswerMatches)
  <2> SUFFICES ASSUME IInv, FirstRound PROVE AnswerMatches
    OBVIOUS
  <2> SUFFICES ASSUME NEW n \in 1 .. Len(toClient), NEW s \in listed,
                      toClient[n].op # "roster", toClient[n].reqId = info[s].reqId,
                      ~Downloaded(s)
               PROVE  toClient[n].op \in {"add", "scan"} /\ toClient[n].about = {s}
    BY DEF AnswerMatches
  <2> DEFINE m == toClient[n]
  <2>1. m \in Flight /\ s \in Slave
    BY DEF Flight, Items, IInv, Types
  <2>2. Plain(m) /\ Numbered(info[s], s) /\ Given
    BY <2>1 DEF IInv, Numbers
  <2> HIDE DEF m
  <2>3. ~Others(m.reqId)
    BY <2>2 DEF m, Numbered, Downloaded, Others, Adds, Scans, NoId
  <2>4. CASE m.op = "add"
    BY <2>1, <2>2, <2>4 DEF m, Given
  <2>5. CASE m.op = "scan"
    <3>1. PICK t : Scans(m.reqId, t) /\ m.about = {t}
      BY <2>2, <2>5 DEF Plain
    <3>2. Scans(m.reqId, s)
      BY <2>2, <3>1 DEF m, Numbered, Downloaded, Others, Adds, Scans, NoId
    <3> QED
      BY <2>5, <3>1, <3>2 DEF m, Scans
  <2> QED
    BY <2>2, <2>3, <2>4, <2>5 DEF m, Plain
<1>2. IInv /\ [Next]_vars => IInv'
  BY NextIInv
<1> QED
  BY <1>1, <1>2, InitIInv, PTL DEF Spec

-----------------------------------------------------------------------------
\* Whom the server ignores, and hides from: an entry is the list, the contact
\* and the item id.

\* No earlier client has ignored anybody, and its contacts are in groups.
OnlyContacts == \A i \in Stored : i.type = "slave" /\ i.grp # "none"

\* The entries it will not take count as if they were there.
Seen == stored \cup denied
OnServer == {<<i.type, i.slave, i.id>> : i \in {j \in Seen : j.type # "slave"}}
OnClient == {<<"ign", s, info[s].ignoreId>> : s \in {t \in Slave : info[t].ignoreId # 0}}
            \cup {<<"inv", s, info[s].invisibleId>> : s \in {t \in Slave : info[t].invisibleId # 0}}

\* What a request makes of the entries A: B.  What it adds it may add.
Adding(r, s, A, B) ==
    \/ r.type = "slave" /\ r.grp # "none" /\ B = A
    \/ /\ r.type \in {"ign", "inv"} /\ r.grp = "none"
       /\ B = A \cup {<<r.type, s, r.id>>}
       /\ \A e \in A : e[3] # r.id /\ ~(e[1] = r.type /\ e[2] = s)
Removing(r, A, B) ==
    \/ r.type = "slave" /\ B = A
    \/ /\ r.type \in {"ign", "inv"} /\ r.grp = "none"
       /\ B = {e \in A : ~(e[1] = r.type /\ e[3] = r.id)}
Makes(r, A, B) ==
    /\ r.op = "add" => r.id \in Nat /\ \E s \in Slave : r.about = {s} /\ Adding(r, s, A, B)
    /\ r.op = "remove" => Removing(r, A, B)
    /\ r.op \notin {"add", "remove"} => B = A

\* The requests on their way make B of A, one after the other.
Leads(q, A, B) ==
    \E h : h[0] = A /\ h[Len(q)] = B /\ \A n \in 1 .. Len(q) : Makes(q[n], h[n - 1], h[n])

\* The ids of a contact are not above its budId, the last id that was given to
\* it, so that the next one is above them all.
Fits(i) ==
    /\ i.budId \in Nat /\ i.ignoreId \in Nat /\ i.invisibleId \in Nat
    /\ i.ignoreId <= i.budId /\ i.invisibleId <= i.budId
Free(i) == i.ignoreId = 0 /\ i.invisibleId = 0

\* Nobody is ignored until the roster has been read.
Unread == Early \/ roster # {}
Ignoring == ctl.job \in {"ignore", "unignore"}

Own ==
    /\ \A s \in Slave : Fits(info[s]) /\ (s \notin listed \/ Unread => Free(info[s]))
    /\ \A s, t \in Slave : s # t =>
         /\ info[s].ignoreId # 0 => info[s].ignoreId # info[t].ignoreId
         /\ info[s].invisibleId # 0 => info[s].invisibleId # info[t].invisibleId
    /\ ack.rest \subseteq listed
    /\ Ignoring => Head(ctl.rest) \in listed /\ ~Unread

Saved(i) == i.type = "slave" /\ i.grp # "none" /\ i.id \in Nat
Listing(i) == i.type \in {"ign", "inv"} /\ i.grp = "none" /\ i.id \in Nat
Store ==
    /\ \A i \in Seen : Saved(i) \/ Listing(i)
    /\ Early => \A i \in Seen : Saved(i)
    /\ \A i \in roster : Saved(i)
    /\ \A m \in Items(toClient) : m.op = "roster" => \A i \in m.items : Saved(i)

Ids == Own /\ Store /\ (connected => Leads(toServer, OnServer, OnClient))

-----------------------------------------------------------------------------
\* Requests on their way.

LEMMA LeadsNowhere == ASSUME NEW A, NEW B PROVE Leads(<<>>, A, B) <=> A = B
<1>1. Len(<<>>) = 0 /\ 1 .. 0 = {}
  OBVIOUS
<1>2. ASSUME A = B PROVE Leads(<<>>, A, B)
  <2> DEFINE h == [n \in 0 .. 0 |-> A]
  <2>1. h[0] = A /\ h[Len(<<>>)] = B
    BY <1>1, <1>2
  <2> HIDE DEF h
  <2> QED
    BY <1>1, <2>1 DEF Leads
<1> QED
  BY <1>1, <1>2 DEF Leads

LEMMA LeadsFurther ==
  ASSUME NEW q, AnyQueue(q), NEW r, NEW A, NEW B, NEW C, Leads(q, A, B), Makes(r, B, C)
  PROVE  Leads(Append(q, r), A, C)
<1> DEFINE p == Append(q, r)
           n == Len(q)
<1>1. PICK h : h[0] = A /\ h[n] = B /\ \A k \in 1 .. n : Makes(q[k], h[k - 1], h[k])
  BY DEF Leads
<1>2. n \in Nat /\ Len(p) = n + 1 /\ p[n + 1] = r /\ \A k \in 1 .. n : p[k] = q[k]
  <2> DEFINE T == Items(q) \cup {r}
  <2>1. \A k \in 1 .. Len(q) : q[k] \in T
    BY DEF Items
  <2>2. r \in T
    OBVIOUS
  <2> HIDE DEF T
  <2>3. q \in [1 .. Len(q) -> T] /\ Len(q) \in Nat
    BY <2>1 DEF AnyQueue
  <2>4. q \in Seq(T)
    BY <2>3
  <2> QED
    BY <2>2, <2>4
<1> DEFINE g == [k \in 0 .. n + 1 |-> IF k = n + 1 THEN C ELSE h[k]]
<1> HIDE DEF p, n
<1>3. g[0] = A /\ g[n + 1] = C /\ g[n] = B
  BY <1>1, <1>2
<1>4. ASSUME NEW k \in 1 .. n + 1 PROVE Makes(p[k], g[k - 1], g[k])
  <2>1. CASE k = n + 1
    <3>1. (n + 1) - 1 = n
      BY <1>2
    <3> HIDE DEF g
    <3> QED
      BY <1>2, <1>3, <2>1, <3>1
  <2>2. CASE k # n + 1
    <3>1. k \in 1 .. n /\ g[k] = h[k] /\ g[k - 1] = h[k - 1]
      BY <1>2, <2>2
    <3> HIDE DEF g
    <3> QED
      BY <1>1, <1>2, <3>1
  <2> QED
    BY <2>1, <2>2
<1> HIDE DEF g
<1>5. Leads(p, A, C)
  BY <1>2, <1>3, <1>4 DEF Leads
<1> QED
  BY <1>5 DEF p

LEMMA LeadsFirst ==
  ASSUME NEW q, AnyQueue(q), q # <<>>, NEW A, NEW B, Leads(q, A, B)
  PROVE  \E C : Makes(Head(q), A, C) /\ Leads(Tail(q), C, B)
<1> DEFINE p == Tail(q)
           n == Len(q)
<1>1. PICK h : h[0] = A /\ h[n] = B /\ \A k \in 1 .. n : Makes(q[k], h[k - 1], h[k])
  BY DEF Leads
<1>2. /\ n \in Nat /\ n >= 1 /\ Len(p) = n - 1 /\ Head(q) = q[1]
      /\ \A k \in 1 .. n - 1 : p[k] = q[k + 1]
  <2> DEFINE T == Items(q)
  <2>1. \A k \in 1 .. Len(q) : q[k] \in T
    BY DEF Items
  <2> HIDE DEF T
  <2>2. q \in [1 .. Len(q) -> T] /\ Len(q) \in Nat
    BY <2>1 DEF AnyQueue
  <2>3. q \in Seq(T)
    BY <2>2
  <2> QED
    BY <2>3
<1> DEFINE g == [k \in 0 .. n - 1 |-> h[k + 1]]
<1> HIDE DEF p, n
<1>3. g[0] = h[1] /\ g[n - 1] = B
  BY <1>1, <1>2
<1>4. ASSUME NEW k \in 1 .. n - 1 PROVE Makes(p[k], g[k - 1], g[k])
  <2>1. k + 1 \in 1 .. n /\ g[k] = h[k + 1] /\ g[k - 1] = h[k] /\ (k + 1) - 1 = k
    BY <1>2
  <2> HIDE DEF g
  <2> QED
    BY <1>1, <1>2, <2>1
<1>5. Makes(Head(q), A, h[1])
  <2>1. 1 \in 1 .. n /\ 1 - 1 = 0
    BY <1>2
  <2> QED
    BY <1>1, <1>2, <2>1
<1> HIDE DEF g
<1>6. Leads(p, h[1], B)
  BY <1>2, <1>3, <1>4 DEF Leads
<1> QED
  BY <1>5, <1>6 DEF p

-----------------------------------------------------------------------------
\* YSM_BuddyGenNewID: the next id is above those of all listed contacts.

LEMMA Least == ASSUME NEW T, T \subseteq Nat, T # {} PROVE \E n \in T : \A m \in T : n <= m
<1> DEFINE R == {ss \in Nat \X Nat : ss[1] < ss[2]}
<1>1. IsWellFoundedOn(R, Nat)
  BY NatLessThanWellFounded DEF OpToRel
<1>2. PICK n \in T : \A m \in T : ~(<<m, n>> \in R)
  <2> HIDE DEF R
  <2> QED
    BY <1>1, WFMin
<1>3. ASSUME NEW m \in T, m < n PROVE FALSE
  <2> DEFINE p == <<m, n>>
  <2>1. p \in Nat \X Nat /\ p[1] < p[2]
    BY <1>3
  <2>2. p \in R
    BY <2>1
  <2> QED
    BY <2>2, <1>2
<1> QED
  BY <1>3

LEMMA Induct ==
  ASSUME NEW S, 0 \in S, \A n \in Nat : n \in S => n + 1 \in S PROVE Nat \subseteq S
<1> DEFINE T == Nat \ S
<1> SUFFICES ASSUME T # {} PROVE FALSE
  OBVIOUS
<1>1. PICK n \in T : \A m \in T : n <= m
  BY Least
<1>2. n # 0 /\ n - 1 \in Nat /\ n - 1 \in S
  BY <1>1
<1> QED
  BY <1>1, <1>2

LEMMA Bounded == ASSUME NEW T, T \subseteq Nat, IsFiniteSet(T) PROVE \E b \in Nat : \A m \in T : m <= b
<1> DEFINE n == Cardinality(T)
<1>1. n \in Nat /\ ExistsBijection(1 .. n, T)
  BY FS_CardinalityType
<1>2. PICK f \in [1 .. n -> T] : \A m \in T : \E k \in 1 .. n : f[k] = m
  BY <1>1 DEF ExistsBijection, Bijection, Injection, Surjection
<1> HIDE DEF n
<1> DEFINE S == {k \in Nat : \E b \in Nat : \A j \in 1 .. n : j <= k => f[j] <= b}
<1>3. 0 \in S
  <2>1. \A j \in 1 .. n : ~(j <= 0)
    BY <1>1
  <2> QED
    BY <2>1
<1>4. ASSUME NEW k \in Nat, k \in S PROVE k + 1 \in S
  <2>1. PICK b \in Nat : \A j \in 1 .. n : j <= k => f[j] <= b
    BY <1>4
  <2>2. CASE k + 1 \in 1 .. n
    <3> DEFINE c == b + f[k + 1]
    <3>1. f[k + 1] \in Nat /\ c \in Nat
      <4>1. f[k + 1] \in T
        BY <1>2, <2>2
      <4>2. f[k + 1] \in Nat
        BY <4>1
      <4>3. \A x, y \in Nat : x + y \in Nat
        OBVIOUS
      <4> QED
        BY <4>2, <4>3
    <3>2. \A j \in 1 .. n : j <= k + 1 => f[j] <= c
      <4> TAKE j \in 1 .. n
      <4>1. f[j] \in Nat
        BY <1>2
      <4>2. CASE j <= k
        BY <2>1, <3>1, <4>1, <4>2
      <4>3. CASE j = k + 1
        BY <3>1, <4>3
      <4> QED
        BY <4>2, <4>3
    <3> HIDE DEF c
    <3> QED
      BY <3>1, <3>2
  <2>3. CASE k + 1 \notin 1 .. n
    <3>1. \A j \in 1 .. n : j <= k + 1 => j <= k
      BY <1>1, <2>3
    <3> QED
      BY <2>1, <3>1
  <2> QED
    BY <2>2, <2>3
<1>5. n \in S
  <2> HIDE DEF S
  <2>1. \A k \in Nat : k \in S => k + 1 \in S
    BY <1>4
  <2>2. Nat \subseteq S
    BY <1>3, <2>1, Induct
  <2> QED
    BY <1>1, <2>2
<1>6. PICK b \in Nat : \A j \in 1 .. n : j <= n => f[j] <= b
  BY <1>5
<1>7. ASSUME NEW m \in T PROVE m <= b
  <2>1. PICK k \in 1 .. n : f[k] = m
    BY <1>2
  <2>2. k <= n
    BY <1>1
  <2> QED
    BY <1>6, <2>1, <2>2
<1> QED
  BY <1>7

LEMMA Greatest ==
  ASSUME NEW T, T \subseteq Nat, T # {}, IsFiniteSet(T)
  PROVE  \E n \in T : \A m \in T : n >= m
<1>1. PICK b \in Nat : \A m \in T : m <= b
  BY Bounded
<1> DEFINE U == {b - m : m \in T}
<1>2. U \subseteq Nat /\ U # {}
  <2>1. \A m \in T : b - m \in Nat
    BY <1>1
  <2> QED
    BY <2>1
<1> HIDE DEF U
<1>3. PICK u \in U : \A v \in U : u <= v
  BY <1>2, Least
<1>4. PICK n \in T : u = b - n
  BY DEF U
<1>5. \A m \in T : b - m \in U
  BY DEF U
<1>6. \A m \in T : b - n <= b - m
  BY <1>3, <1>4, <1>5
<1> QED
  BY <1>6

LEMMA FiniteSlaves == IsFiniteSet(Slave)
<1>1. Len(Order) \in Nat /\ Order \in [1 .. Len(Order) -> Slave]
  BY OrderAssumption
<1>2. Order \in Surjection(1 .. Len(Order), Slave)
  BY <1>1 DEF Surjection, Slave, Range
<1>3. IsFiniteSet(1 .. Len(Order))
  BY <1>1, FS_Interval
<1> QED
  BY <1>2, <1>3, FS_Surjection

LEMMA NewId ==
  ASSUME IInv, Own
  PROVE  /\ YSM_BuddyGenNewID \in Nat \ {0}
         /\ \A s \in Slave : info[s].ignoreId < YSM_BuddyGenNewID /\ info[s].invisibleId < YSM_BuddyGenNewID
<1> DEFINE given == {info[s].budId : s \in listed}
           T == {0} \cup given
<1>1. listed \subseteq Slave /\ IsFiniteSet(listed)
  BY FiniteSlaves, FS_Subset DEF IInv, Types
<1>2. IsFiniteSet(given)
  <2> DEFINE f == [s \in listed |-> info[s].budId]
  <2>1. f \in Surjection(listed, given)
    BY DEF Surjection
  <2> HIDE DEF f, given
  <2> QED
    BY <1>1, <2>1, FS_Surjection
<1>3. IsFiniteSet(T) /\ 0 \in T /\ T \subseteq Nat
  <2>1. given \subseteq Nat
    BY <1>1 DEF Own, Fits
  <2> HIDE DEF given
  <2>2. IsFiniteSet({0} \cup given)
    BY <1>2, FS_Singleton, FS_Union
  <2> QED
    BY <2>1, <2>2
<1> HIDE DEF T
<1>4. \E n \in T : \A m \in T : n >= m
  BY <1>3, Greatest
<1>5. Max(T) \in T /\ \A m \in T : Max(T) >= m
  BY <1>4 DEF Max
<1>6. YSM_BuddyGenNewID = 1 + Max(T)
  BY DEF YSM_BuddyGenNewID, T
<1>7. Max(T) \in Nat
  BY <1>3, <1>5
<1> HIDE DEF YSM_BuddyGenNewID
<1>8. ASSUME NEW s \in Slave
      PROVE  info[s].ignoreId < YSM_BuddyGenNewID /\ info[s].invisibleId < YSM_BuddyGenNewID
  <2>1. CASE s \in listed
    <3>1. info[s].budId \in T
      BY <2>1 DEF T
    <3>2. info[s].budId <= Max(T)
      BY <1>5, <3>1, <1>3
    <3> QED
      BY <1>6, <1>7, <3>2 DEF Own, Fits
  <2>2. CASE s \notin listed
    BY <1>6, <1>7, <2>2 DEF Own, Free
  <2> QED
    BY <2>1, <2>2
<1> QED
  BY <1>6, <1>7, <1>8

-----------------------------------------------------------------------------
\* What a change of a contact's ids makes of the entries.

Entry(e, s, i) ==
    \/ i.ignoreId # 0 /\ e = <<"ign", s, i.ignoreId>>
    \/ i.invisibleId # 0 /\ e = <<"inv", s, i.invisibleId>>

LEMMA Entries ==
  /\ \A e : e \in OnClient <=> \E s \in Slave : Entry(e, s, info[s])
  /\ \A e : e \in OnClient' <=> \E s \in Slave : Entry(e, s, info'[s])
<1>1. \A e : e \in OnClient <=> \E s \in Slave : Entry(e, s, info[s])
  BY DEF OnClient, Entry
<1>2. \A e : e \in OnClient' <=> \E s \in Slave : Entry(e, s, info'[s])
  BY DEF OnClient, Entry
<1> QED
  BY <1>1, <1>2

LEMMA SameEntries ==
  ASSUME \A s \in Slave : info'[s].ignoreId = info[s].ignoreId /\ info'[s].invisibleId = info[s].invisibleId
  PROVE  OnClient' = OnClient
<1>1. \A e : \A s \in Slave : Entry(e, s, info'[s]) <=> Entry(e, s, info[s])
  BY DEF Entry
<1>2. \A e : e \in OnClient' <=> e \in OnClient
  BY <1>1, Entries
<1> HIDE DEF OnClient
<1> QED
  BY <1>2

LEMMA OneMore ==
  ASSUME NEW s \in Slave, NEW e, ~Entry(e, s, info[s]), Entry(e, s, info'[s]),
         \A d : d # e => (Entry(d, s, info'[s]) <=> Entry(d, s, info[s])),
         \A t \in Slave \ {s} : info'[t] = info[t]
  PROVE  OnClient' = OnClient \cup {e}
<1>1. \A d : d \in OnClient' <=> d \in OnClient \/ d = e
  BY Entries
<1> QED
  BY <1>1

LEMMA OneLess ==
  ASSUME NEW s \in Slave, NEW e, Entry(e, s, info[s]), e[2] = s, ~Entry(e, s, info'[s]),
         \A d : d # e => (Entry(d, s, info'[s]) <=> Entry(d, s, info[s])),
         \A t \in Slave \ {s} : info'[t] = info[t],
         \A t \in Slave \ {s} : \A d : Entry(d, t, info[t]) => ~(d[1] = e[1] /\ d[3] = e[3]),
         \A d : Entry(d, s, info[s]) /\ d[1] = e[1] => d = e
  PROVE  OnClient' = {d \in OnClient : ~(d[1] = e[1] /\ d[3] = e[3])}
<1>1. \A t \in Slave \ {s} : \A d : Entry(d, t, info[t]) => d # e
  BY DEF Entry
<1>2. \A d : d \in OnClient' => d \in OnClient /\ ~(d[1] = e[1] /\ d[3] = e[3])
  BY <1>1, Entries
<1>3. \A d : d \in OnClient /\ ~(d[1] = e[1] /\ d[3] = e[3]) => d \in OnClient'
  BY Entries
<1> QED
  BY <1>2, <1>3

-----------------------------------------------------------------------------
\* A contact's ids change, or stay.

LEMMA OwnStep ==
  ASSUME IInv, Own, NEW s \in Slave, NEW i, info'[s] = i, Fits(i),
         \A t \in Slave \ {s} : info'[t] = info[t],
         s \notin listed' \/ Unread => Free(i),
         \A t \in listed : t # s => t \in listed', Unread' => Unread,
         i.ignoreId \in {0, info[s].ignoreId, YSM_BuddyGenNewID},
         i.invisibleId \in {0, info[s].invisibleId, YSM_BuddyGenNewID},
         ack'.rest \subseteq listed', Ignoring' => Head(ctl'.rest) \in listed' /\ ~Unread
  PROVE  Own'
<1>1. /\ YSM_BuddyGenNewID \in Nat \ {0}
      /\ \A t \in Slave : info[t].ignoreId < YSM_BuddyGenNewID /\ info[t].invisibleId < YSM_BuddyGenNewID
  BY NewId
<1> DEFINE new == YSM_BuddyGenNewID
<1> HIDE DEF new
<1>2. \A t \in Slave : info[t].ignoreId # new /\ info[t].invisibleId # new
  BY <1>1 DEF new, Own, Fits
<1>3. \A t \in Slave : Fits(info'[t]) /\ (t \notin listed' \/ Unread' => Free(info'[t]))
  BY DEF Own
<1>4. ASSUME NEW t \in Slave, NEW u \in Slave, t # u
      PROVE  /\ info'[t].ignoreId # 0 => info'[t].ignoreId # info'[u].ignoreId
             /\ info'[t].invisibleId # 0 => info'[t].invisibleId # info'[u].invisibleId
  <2>1. CASE t # s /\ u # s
    BY <1>4, <2>1 DEF Own
  <2>2. CASE t = s
    BY <1>2, <1>4, <2>2 DEF Own, new
  <2>3. CASE u = s
    BY <1>2, <1>4, <2>3 DEF Own, new
  <2> QED
    BY <2>1, <2>2, <2>3
<1> QED
  BY <1>3, <1>4 DEF Own

LEMMA SentLeads ==
  ASSUME Types, connected => Leads(toServer, OnServer, OnClient), NEW r, Sends(r),
         connected' = connected, OnServer' = OnServer, Makes(r, OnClient, OnClient')
  PROVE  connected' => Leads(toServer', OnServer', OnClient')
<1> DEFINE A == OnServer
           B == OnClient
           C == OnClient'
<1>1. AnyQueue(toServer) /\ (connected => toServer' = Append(toServer, r))
  BY DEF Types, Sends
<1> HIDE DEF A, B, C
<1>2. Makes(r, B, C) /\ (connected => Leads(toServer, A, B))
  BY DEF A, B, C
<1>3. connected => Leads(Append(toServer, r), A, C)
  BY <1>1, <1>2, LeadsFurther
<1> QED
  BY <1>1, <1>3 DEF A, C

\* YSM_BuddyAddItem, whatever calls it.
LEMMA AddItemIds ==
  ASSUME IInv, Ids, NEW s \in Slave, NEW op \in {"add", "update", "remove"},
         NEW type, NEW grp, NEW bID, NEW i, AddItem(s, op, type, grp, bID, i), Fits(i),
         s \notin listed' \/ Unread => Free(i), \A t \in listed : t # s => t \in listed',
         roster' = roster,
         i.ignoreId \in {0, info[s].ignoreId, YSM_BuddyGenNewID},
         i.invisibleId \in {0, info[s].invisibleId, YSM_BuddyGenNewID},
         ack'.rest \subseteq listed', Ignoring' => Head(ctl'.rest) \in listed' /\ ~Unread,
         Makes([op |-> op, type |-> type, grp |-> grp, id |-> ItemId(s, op, bID),
                about |-> {s}, reqId |-> ReqId(op)], OnClient, OnClient')
  PROVE  Ids'
<1> DEFINE r == [op |-> op, type |-> type, grp |-> grp, id |-> ItemId(s, op, bID),
                 about |-> {s}, reqId |-> ReqId(op)]
<1>1. /\ info' = [info EXCEPT ![s] = i] /\ Sends(r)
      /\ UNCHANGED <<connected, sessions, toClient, stored, denied>>
  BY DEF AddItem
<1>2. r.op # "roster" /\ Makes(r, OnClient, OnClient')
  OBVIOUS
<1> HIDE DEF r
<1>3. Early' => Early
  BY <1>1, <1>2, SendsOne DEF IInv
<1>4. Unread' => Unread
  BY <1>3 DEF Unread
<1>5. info'[s] = i /\ \A t \in Slave \ {s} : info'[t] = info[t]
  BY <1>1 DEF IInv, Types
<1>6. Own'
  BY <1>4, <1>5, OwnStep DEF Ids
<1>7. Store'
  BY <1>1, <1>3 DEF Ids, Store, Seen
<1>8. OnServer' = OnServer
  BY <1>1 DEF OnServer, Seen
<1>9. connected' => Leads(toServer', OnServer', OnClient')
  BY <1>1, <1>2, <1>8, SentLeads DEF Ids, IInv
<1> QED
  BY <1>6, <1>7, <1>9 DEF Ids

\* What YSM_BuddyAddItem leaves in the contact.
LEMMA ChangedIds ==
  ASSUME IInv, Own, NEW s \in Slave, NEW op, NEW bID \in Nat
  PROVE  LET i == Changed(s, op, bID) IN
         /\ Fits(i) /\ i.ignoreId = info[s].ignoreId /\ i.invisibleId = info[s].invisibleId
         /\ op = "add" /\ bID = 0 => i.budId = YSM_BuddyGenNewID
         /\ \A v : LET j == [i EXCEPT !.flags = v]
                   IN  j.ignoreId = i.ignoreId /\ j.invisibleId = i.invisibleId /\ j.budId = i.budId
         /\ \A v : LET j == [i EXCEPT !.ignoreId = v]
                   IN  j.ignoreId = v /\ j.invisibleId = i.invisibleId /\ j.budId = i.budId
         /\ \A v : LET j == [i EXCEPT !.invisibleId = v]
                   IN  j.ignoreId = i.ignoreId /\ j.invisibleId = v /\ j.budId = i.budId
<1> DEFINE f == info[s]
           id == ReqId(op)
           b == IF op = "add" /\ bID = 0 THEN YSM_BuddyGenNewID ELSE f.budId
<1>1. AnyInfo(f) /\ Fits(f)
  BY DEF IInv, Types, Own
<1>2. Changed(s, op, bID) = [[f EXCEPT !.reqId = id] EXCEPT !.budId = b]
  <2>1. [f EXCEPT !.reqId = id].budId = f.budId
    BY <1>1 DEF AnyInfo
  <2> QED
    BY <2>1 DEF Changed
<1>3. /\ b \in Nat /\ f.ignoreId <= b /\ f.invisibleId <= b
      /\ op = "add" /\ bID = 0 => b = YSM_BuddyGenNewID
  <2>1. CASE op = "add" /\ bID = 0
    BY <1>1, <2>1, NewId DEF Fits
  <2>2. CASE ~(op = "add" /\ bID = 0)
    BY <1>1, <2>2 DEF Fits
  <2> QED
    BY <2>1, <2>2
<1> HIDE DEF b, id, f
<1>4. Changed(s, op, bID) = [flags |-> f.flags, budId |-> b, grpId |-> f.grpId,
            ignoreId |-> f.ignoreId, invisibleId |-> f.invisibleId, reqId |-> id]
  BY <1>1, <1>2 DEF AnyInfo
<1> QED
  BY <1>1, <1>3, <1>4 DEF Fits, f

-----------------------------------------------------------------------------
\* Steps that leave the ids of the ignored alone.

LEMMA ElsewhereIds ==
  ASSUME IInv, Ids, listed \subseteq listed', stored' = stored, denied' = denied, connected' \in {connected, FALSE},
         \A t \in Slave : /\ Fits(info'[t])
                          /\ info'[t].ignoreId = info[t].ignoreId /\ info'[t].invisibleId = info[t].invisibleId,
         Early' => Early, roster' # {} => Unread, \A i \in roster' : Saved(i),
         \A m \in Items(toClient') : m.op = "roster" => m \in Items(toClient),
         connected' => toServer' = toServer \/ \E r : Sends(r) /\ r.op \notin {"add", "remove"},
         ack'.rest \subseteq listed', Ignoring' => Head(ctl'.rest) \in listed' /\ ~Unread
  PROVE  Ids'
<1>1. Unread' => Unread
  BY DEF Unread
<1>2. Own'
  <2>1. \A s \in Slave : Fits(info'[s]) /\ (s \notin listed' \/ Unread' => Free(info'[s]))
    BY <1>1 DEF Ids, Own, Free
  <2>2. \A s, t \in Slave : s # t =>
           /\ info'[s].ignoreId # 0 => info'[s].ignoreId # info'[t].ignoreId
           /\ info'[s].invisibleId # 0 => info'[s].invisibleId # info'[t].invisibleId
    BY DEF Ids, Own
  <2> QED
    BY <1>1, <2>1, <2>2 DEF Own
<1>3. Store'
  BY DEF Ids, Store, Seen
<1>4. OnServer' = OnServer /\ OnClient' = OnClient
  BY SameEntries DEF OnServer, Seen
<1>5. ASSUME connected' PROVE Leads(toServer', OnServer', OnClient')
  <2>1. connected /\ connected' = connected
    BY <1>5
  <2>2. ASSUME NEW r, Sends(r), r.op \notin {"add", "remove"} PROVE Leads(toServer', OnServer', OnClient')
    <3>1. Makes(r, OnClient, OnClient')
      BY <1>4, <2>2 DEF Makes
    <3> QED
      BY <1>4, <1>5, <2>1, <2>2, <3>1, SentLeads DEF IInv, Ids
  <2>3. CASE toServer' = toServer
    BY <1>4, <2>1, <2>3 DEF Ids
  <2> QED
    BY <1>5, <2>2, <2>3
<1> QED
  BY <1>2, <1>3, <1>5 DEF Ids

\* A contact is uploaded, or its group updated.
LEMMA UploadIds ==
  ASSUME IInv, Ids, NEW s \in listed, NEW op \in {"add", "update"}, NEW type, NEW grp, NEW i,
         AddItem(s, op, type, grp, 0, i), Fits(i),
         i.ignoreId = info[s].ignoreId, i.invisibleId = info[s].invisibleId,
         op = "add" => type = "slave" /\ grp # "none",
         UNCHANGED <<listed, roster>>,
         ack'.rest \subseteq listed', Ignoring' => Head(ctl'.rest) \in listed' /\ ~Unread
  PROVE  Ids'
<1> DEFINE r == [op |-> op, type |-> type, grp |-> grp, id |-> ItemId(s, op, 0),
                 about |-> {s}, reqId |-> ReqId(op)]
<1>1. s \in Slave
  BY DEF IInv, Types
<1>2. info'[s] = i /\ \A t \in Slave \ {s} : info'[t] = info[t]
  BY <1>1 DEF AddItem, IInv, Types
<1>3. OnClient' = OnClient
  BY <1>2, SameEntries
<1>4. Unread => Free(i)
  BY <1>1 DEF Ids, Own, Free
<1>5. Makes(r, OnClient, OnClient')
  <2>1. op = "add" => r.id \in Nat
    BY NewId DEF Ids, ItemId
  <2>2. r.op = op /\ r.type = type /\ r.grp = grp /\ r.about = {s}
    OBVIOUS
  <2> HIDE DEF r
  <2> QED
    BY <1>1, <1>3, <2>1, <2>2 DEF Makes, Adding
<1> QED
  BY <1>1, <1>4, <1>5, AddItemIds

LEMMA Waited2 == ASSUME IInv, Calm, Quota PROVE ~Unread
  BY Waited DEF Calm, Quota, Synced, Unread

LEMMA CommandIds ==
  ASSUME IInv, Calm, Ids, NEW s \in Slave, cmdSAVE(s) \/ cmdREQ(s)
  PROVE  Ids'
<1>1. /\ s \in listed /\ UNCHANGED <<listed, ctl, ack, roster>> /\ ctl.job = "none"
  BY DEF cmdSAVE, cmdREQ, threads, Locks, Idle
<1>2. ack'.rest \subseteq listed' /\ ~Ignoring'
  BY <1>1 DEF Ids, Own, Ignoring
<1>3. CASE cmdSAVE(s)
  BY <1>1, <1>2, <1>3, ChangedIds, UploadIds DEF cmdSAVE, Ids
<1>4. CASE cmdREQ(s)
  <2> DEFINE c == Changed(s, "add", 0)
             i == [c EXCEPT !.flags = c.flags \ {"authreq"}]
  <2>1. AddItem(s, "add", "slave", "other", 0, i)
    BY <1>4 DEF cmdREQ
  <2>2. Fits(i) /\ i.ignoreId = info[s].ignoreId /\ i.invisibleId = info[s].invisibleId
    BY ChangedIds DEF Ids, Fits
  <2> HIDE DEF i
  <2> QED
    BY <1>1, <1>2, <2>1, <2>2, UploadIds
<1> QED
  BY <1>3, <1>4

LEMMA IgnoreIds ==
  ASSUME IInv, Calm, Ids, NEW s \in Slave, cmdIGNORE_on(s)
  PROVE  Ids'
<1> DEFINE new == YSM_BuddyGenNewID
           c == Changed(s, "add", 0)
           i == [c EXCEPT !.ignoreId = new]
           e == <<"ign", s, new>>
           r == [op |-> "add", type |-> "ign", grp |-> "none", id |-> ItemId(s, "add", 0),
                 about |-> {s}, reqId |-> ReqId("add")]
<1>1. /\ s \in listed /\ UNCHANGED <<listed, ack, roster>> /\ ~Unread /\ info[s].ignoreId = 0
      /\ ctl' = [job |-> "ignore", rest |-> <<s>>, left |-> 0]
  BY Waited2 DEF cmdIGNORE_on
<1>2. ItemId(s, "add", 0) = new
  BY DEF ItemId
<1>3. AddItem(s, "add", "ign", "none", 0, i)
  BY <1>2 DEF cmdIGNORE_on
<1>4. new \in Nat \ {0} /\ \A t \in Slave : info[t].ignoreId < new /\ info[t].invisibleId < new
  BY NewId DEF Ids
<1>5. Fits(i) /\ i.ignoreId = new /\ i.invisibleId = info[s].invisibleId
  BY <1>4, ChangedIds DEF Ids, Fits
<1> HIDE DEF i, new
<1>6. info'[s] = i /\ \A t \in Slave \ {s} : info'[t] = info[t]
  BY <1>3 DEF AddItem, IInv, Types
<1>7. OnClient' = OnClient \cup {e}
  <2>1. ~Entry(e, s, info[s]) /\ Entry(e, s, info'[s])
    BY <1>1, <1>4, <1>5, <1>6 DEF Entry
  <2>2. \A d : d # e => (Entry(d, s, info'[s]) <=> Entry(d, s, info[s]))
    BY <1>1, <1>5, <1>6 DEF Entry
  <2> QED
    BY <1>6, <2>1, <2>2, OneMore
<1>8. \A d \in OnClient : d[3] # new /\ ~(d[1] = "ign" /\ d[2] = s)
  <2>1. ASSUME NEW d, NEW t \in Slave, Entry(d, t, info[t]) PROVE d[3] # new /\ ~(d[1] = "ign" /\ d[2] = s)
    <3>1. info[t].ignoreId # new /\ info[t].invisibleId # new
      BY <1>4 DEF Ids, Own, Fits
    <3> QED
      BY <1>1, <2>1, <3>1 DEF Entry
  <2> QED
    BY <2>1, Entries
<1>9. Makes(r, OnClient, OnClient')
  <2>1. r.op = "add" /\ r.type = "ign" /\ r.grp = "none" /\ r.id = new /\ r.about = {s}
    BY <1>2
  <2> HIDE DEF r
  <2> QED
    BY <1>4, <1>7, <1>8, <2>1 DEF Makes, Adding
<1>10. ack'.rest \subseteq listed' /\ Head(ctl'.rest) = s
  BY <1>1 DEF Ids, Own
<1> QED
  BY <1>1, <1>3, <1>5, <1>9, <1>10, AddItemIds DEF new

LEMMA UnignoreIds ==
  ASSUME IInv, Calm, Ids, NEW s \in Slave, cmdIGNORE_off(s)
  PROVE  Ids'
<1> DEFINE old == info[s].ignoreId
           c == Changed(s, "remove", old)
           i == [c EXCEPT !.ignoreId = 0]
           e == <<"ign", s, old>>
           r == [op |-> "remove", type |-> "ign", grp |-> "none", id |-> ItemId(s, "remove", old),
                 about |-> {s}, reqId |-> ReqId("remove")]
<1>1. /\ s \in listed /\ UNCHANGED <<listed, ack, roster>> /\ ~Unread /\ old # 0
      /\ ctl' = [job |-> "unignore", rest |-> <<s>>, left |-> 0]
      /\ AddItem(s, "remove", "ign", "none", old, i)
  BY Waited2 DEF cmdIGNORE_off
<1>2. ItemId(s, "remove", old) = old
  BY <1>1 DEF ItemId
<1>3. Fits(i) /\ i.ignoreId = 0 /\ i.invisibleId = info[s].invisibleId
  <2>1. old \in Nat
    BY DEF Ids, Own, Fits
  <2> HIDE DEF old
  <2> QED
    BY <2>1, ChangedIds DEF Ids, Fits
<1> HIDE DEF i
<1>4. info'[s] = i /\ \A t \in Slave \ {s} : info'[t] = info[t]
  BY <1>1 DEF AddItem, IInv, Types
<1>5. OnClient' = {d \in OnClient : ~(d[1] = e[1] /\ d[3] = e[3])}
  <2>1. Entry(e, s, info[s]) /\ ~Entry(e, s, info'[s]) /\ e[2] = s
    BY <1>1, <1>3, <1>4 DEF Entry
  <2>2. \A d : d # e => (Entry(d, s, info'[s]) <=> Entry(d, s, info[s]))
    BY <1>3, <1>4 DEF Entry
  <2>3. \A t \in Slave \ {s} : \A d : Entry(d, t, info[t]) => ~(d[1] = e[1] /\ d[3] = e[3])
    BY <1>1 DEF Entry, Ids, Own
  <2>4. \A d : Entry(d, s, info[s]) /\ d[1] = e[1] => d = e
    BY DEF Entry
  <2> HIDE DEF e
  <2> QED
    BY <1>4, <2>1, <2>2, <2>3, <2>4, OneLess
<1>6. Makes(r, OnClient, OnClient')
  <2>1. r.op = "remove" /\ r.type = "ign" /\ r.grp = "none" /\ r.id = old /\ e[1] = "ign" /\ e[3] = old
    BY <1>2
  <2> HIDE DEF r, e
  <2> QED
    BY <1>5, <2>1 DEF Makes, Removing
<1>7. ack'.rest \subseteq listed' /\ Head(ctl'.rest) = s
  BY <1>1 DEF Ids, Own
<1> QED
  BY <1>1, <1>3, <1>6, <1>7, AddItemIds

LEMMA InvisibleIds == ASSUME IInv, Ids, YSM_BuddyInvisible PROVE Ids'
<1> DEFINE s == Head(ctl.rest)
           old == info[s].invisibleId
           new == YSM_BuddyGenNewID
<1>1. /\ Ignoring /\ ctl' = Idle /\ UNCHANGED <<listed, ack, roster>>
  BY DEF YSM_BuddyInvisible, Ignoring
<1>2. s \in listed /\ s \in Slave /\ ~Unread
  BY <1>1 DEF Ids, Own, IInv, Types, Ignoring
<1>3. ack'.rest \subseteq listed' /\ ~Ignoring'
  BY <1>1 DEF Ids, Own, Ignoring, Idle
<1>4. old \in Nat /\ new \in Nat \ {0} /\ \A t \in Slave : info[t].ignoreId < new /\ info[t].invisibleId < new
  BY <1>2, NewId DEF Ids, Own, Fits
<1>5. CASE ctl.job = "ignore" /\ old = 0
  <2> DEFINE c == Changed(s, "add", 0)
             i == [c EXCEPT !.invisibleId = new]
             e == <<"inv", s, new>>
             r == [op |-> "add", type |-> "inv", grp |-> "none", id |-> ItemId(s, "add", 0),
                   about |-> {s}, reqId |-> ReqId("add")]
  <2>1. ItemId(s, "add", 0) = new
    BY DEF ItemId
  <2>2. AddItem(s, "add", "inv", "none", 0, i)
    BY <1>5, <2>1 DEF YSM_BuddyInvisible
  <2>3. Fits(i) /\ i.invisibleId = new /\ i.ignoreId = info[s].ignoreId
    BY <1>2, <1>4, ChangedIds DEF Ids, Fits
  <2> HIDE DEF i, new, s
  <2>4. info'[s] = i /\ \A t \in Slave \ {s} : info'[t] = info[t]
    BY <1>2, <2>2 DEF AddItem, IInv, Types
  <2>5. OnClient' = OnClient \cup {e}
    <3>1. ~Entry(e, s, info[s]) /\ Entry(e, s, info'[s])
      BY <1>4, <1>5, <2>3, <2>4 DEF Entry
    <3>2. \A d : d # e => (Entry(d, s, info'[s]) <=> Entry(d, s, info[s]))
      BY <1>5, <2>3, <2>4 DEF Entry
    <3> QED
      BY <1>2, <2>4, <3>1, <3>2, OneMore
  <2>6. \A d \in OnClient : d[3] # new /\ ~(d[1] = "inv" /\ d[2] = s)
    <3>1. ASSUME NEW d, NEW t \in Slave, Entry(d, t, info[t]) PROVE d[3] # new /\ ~(d[1] = "inv" /\ d[2] = s)
      <4>1. info[t].ignoreId # new /\ info[t].invisibleId # new
        BY <1>4 DEF Ids, Own, Fits
      <4> QED
        BY <1>5, <3>1, <4>1 DEF Entry
    <3> QED
      BY <3>1, Entries
  <2>7. Makes(r, OnClient, OnClient')
    <3>1. r.op = "add" /\ r.type = "inv" /\ r.grp = "none" /\ r.id = new /\ r.about = {s}
      BY <2>1
    <3> HIDE DEF r
    <3> QED
      BY <1>2, <1>4, <2>5, <2>6, <3>1 DEF Makes, Adding
  <2> QED
    BY <1>1, <1>2, <1>3, <2>2, <2>3, <2>7, AddItemIds DEF new
<1>6. CASE ctl.job = "unignore" /\ old # 0
  <2> DEFINE c == Changed(s, "remove", old)
             i == [c EXCEPT !.invisibleId = 0]
             e == <<"inv", s, old>>
             r == [op |-> "remove", type |-> "inv", grp |-> "none", id |-> ItemId(s, "remove", old),
                   about |-> {s}, reqId |-> ReqId("remove")]
  <2>1. AddItem(s, "remove", "inv", "none", old, i)
    BY <1>6 DEF YSM_BuddyInvisible
  <2>2. ItemId(s, "remove", old) = old
    BY <1>6 DEF ItemId
  <2> HIDE DEF old, s
  <2>3. Fits(i) /\ i.invisibleId = 0 /\ i.ignoreId = info[s].ignoreId
    BY <1>2, <1>4, ChangedIds DEF Ids, Fits
  <2> HIDE DEF i
  <2>4. info'[s] = i /\ \A t \in Slave \ {s} : info'[t] = info[t]
    BY <1>2, <2>1 DEF AddItem, IInv, Types
  <2>5. OnClient' = {d \in OnClient : ~(d[1] = e[1] /\ d[3] = e[3])}
    <3>1. Entry(e, s, info[s]) /\ ~Entry(e, s, info'[s]) /\ e[2] = s
      BY <1>6, <2>3, <2>4 DEF Entry, old
    <3>2. \A d : d # e => (Entry(d, s, info'[s]) <=> Entry(d, s, info[s]))
      BY <2>3, <2>4 DEF Entry, old
    <3>3. \A t \in Slave \ {s} : \A d : Entry(d, t, info[t]) => ~(d[1] = e[1] /\ d[3] = e[3])
      BY <1>2, <1>6 DEF Entry, Ids, Own, old
    <3>4. \A d : Entry(d, s, info[s]) /\ d[1] = e[1] => d = e
      BY DEF Entry, old
    <3> HIDE DEF e
    <3> QED
      BY <1>2, <2>4, <3>1, <3>2, <3>3, <3>4, OneLess
  <2>6. Makes(r, OnClient, OnClient')
    <3>1. r.op = "remove" /\ r.type = "inv" /\ r.grp = "none" /\ r.id = old /\ e[1] = "inv" /\ e[3] = old
      BY <2>2
    <3> HIDE DEF r, e
    <3> QED
      BY <2>5, <3>1 DEF Makes, Removing
  <2> QED
    BY <1>1, <1>2, <1>3, <2>1, <2>3, <2>6, AddItemIds
<1>7. CASE ~(ctl.job = "ignore" /\ old = 0) /\ ~(ctl.job = "unignore" /\ old # 0)
  <2>1. UNCHANGED <<info, network>>
    BY <1>7 DEF YSM_BuddyInvisible
  <2>2. Early' = Early
    BY <2>1 DEF network, Early, Flight
  <2> QED
    BY <1>1, <1>3, <2>1, <2>2, ElsewhereIds DEF network, Ids, Own, Store, Unread
<1> QED
  BY <1>5, <1>6, <1>7

LEMMA UploadListIds == ASSUME IInv, Ids, YSM_BuddyUploadList PROVE Ids'
<1>1. UNCHANGED <<listed, ack, roster>> /\ ctl.job = "save"
  BY DEF YSM_BuddyUploadList, contacts
<1>2. ctl'.job # "ignore" /\ ctl'.job # "unignore"
  <2> DEFINE r == Tail(ctl.rest)
             l == ctl.left - 1
             c == [ctl EXCEPT !.rest = r]
             d == [ctl EXCEPT !.rest = r, !.left = l]
  <2>1. ctl' = Idle \/ ctl' = c \/ ctl' = d
    BY DEF YSM_BuddyUploadList
  <2>2. ctl = [job |-> ctl.job, rest |-> ctl.rest, left |-> ctl.left]
    BY DEF IInv, Types
  <2> HIDE DEF r, l
  <2>3. c.job = ctl.job /\ d.job = ctl.job
    BY <2>2, Zenon
  <2> HIDE DEF c, d
  <2>4. Idle.job = "none"
    BY DEF Idle
  <2> QED
    BY <1>1, <2>1, <2>3, <2>4
<1>3. ack'.rest \subseteq listed' /\ ~Ignoring'
  BY <1>1, <1>2 DEF Ids, Own, Ignoring
<1>4. CASE UNCHANGED <<contacts, network>>
  <2>1. Early' = Early
    BY <1>4 DEF network, Early, Flight
  <2> QED
    BY <1>1, <1>3, <1>4, <2>1, ElsewhereIds DEF contacts, network, Ids, Own, Store, Unread
<1>5. CASE ~UNCHANGED <<contacts, network>>
  <2> DEFINE s == Head(ctl.rest)
  <2>1. s \in listed /\ AddItem(s, "add", "slave", "ysm", 0, Changed(s, "add", 0))
    BY <1>5 DEF YSM_BuddyUploadList
  <2>2. s \in Slave
    BY <2>1 DEF IInv, Types
  <2> QED
    BY <1>1, <1>3, <2>1, <2>2, ChangedIds, UploadIds DEF Ids
<1> QED
  BY <1>4, <1>5

LEMMA DeletionIds == ASSUME IInv, Calm, Ids, NEW s \in Slave, cmdDELSLAVE(s) PROVE Ids'
<1>1. /\ listed' = listed \ {s} /\ UNCHANGED <<ctl, ack, roster>> /\ ctl.job = "none" /\ ack.rest = {}
      /\ info[s].ignoreId = 0 /\ info[s].invisibleId = 0
  BY DEF cmdDELSLAVE, threads, Locks, Idle
<1>2. Fits(Fresh) /\ Free(Fresh) /\ Fresh.ignoreId = 0 /\ Fresh.invisibleId = 0
  BY DEF Fits, Free, Fresh
<1>3. ack'.rest \subseteq listed' /\ ~Ignoring'
  BY <1>1 DEF Ignoring
<1>4. ASSUME info' = [info EXCEPT ![s] = Fresh]
      PROVE  /\ info'[s] = Fresh /\ \A t \in Slave \ {s} : info'[t] = info[t]
             /\ OnClient' = OnClient
  <2>1. info'[s] = Fresh /\ \A t \in Slave \ {s} : info'[t] = info[t]
    BY <1>4 DEF IInv, Types
  <2> QED
    BY <1>1, <1>2, <2>1, SameEntries
<1>5. CASE Downloaded(s)
  <2> DEFINE r == [op |-> "remove", type |-> "slave", grp |-> info[s].grpId,
                   id |-> ItemId(s, "remove", info[s].budId), about |-> {s}, reqId |-> ReqId("remove")]
  <2>1. AddItem(s, "remove", "slave", info[s].grpId, info[s].budId, Fresh)
    BY <1>5 DEF cmdDELSLAVE
  <2>2. OnClient' = OnClient
    BY <1>4, <2>1 DEF AddItem
  <2>3. Makes(r, OnClient, OnClient')
    <3>1. r.op = "remove" /\ r.type = "slave"
      OBVIOUS
    <3> HIDE DEF r
    <3> QED
      BY <2>2, <3>1 DEF Makes, Removing
  <2> QED
    BY <1>1, <1>2, <1>3, <2>1, <2>3, AddItemIds
<1>6. CASE ~Downloaded(s)
  <2>1. info' = [info EXCEPT ![s] = Fresh] /\ UNCHANGED network
    BY <1>6 DEF cmdDELSLAVE
  <2>2. Early' = Early /\ Unread' = Unread
    BY <1>1, <2>1 DEF network, Early, Flight, Unread
  <2>3. Own'
    BY <1>1, <1>2, <1>3, <1>4, <2>1, <2>2, OwnStep DEF Ids
  <2>4. Store'
    BY <1>1, <2>1, <2>2 DEF Ids, Store, network, Seen
  <2>5. connected' => Leads(toServer', OnServer', OnClient')
    BY <1>4, <2>1 DEF Ids, network, OnServer, Seen
  <2> QED
    BY <2>3, <2>4, <2>5 DEF Ids
<1> QED
  BY <1>5, <1>6

\* The other commands.
LEMMA OtherCommandsIds ==
  ASSUME IInv, Calm, Ids,
         cmdSAVE_all \/ sendUpdatePrivacy \/ \E s \in Slave : cmdADDSLAVE(s) \/ YSM_War_Scan(s)
  PROVE  Ids'
<1>1. CASE cmdSAVE_all \/ \E s \in Slave : cmdADDSLAVE(s)
  <2>1. /\ UNCHANGED <<info, ack, roster, network>> /\ listed \subseteq listed'
        /\ ctl'.job \notin {"ignore", "unignore"}
    BY <1>1 DEF cmdSAVE_all, cmdADDSLAVE, contacts, threads, Locks, Idle
  <2>2. Early' = Early
    BY <2>1 DEF network, Early, Flight
  <2> QED
    BY <2>1, <2>2, ElsewhereIds DEF network, Ids, Own, Store, Unread, Ignoring
<1>2. ASSUME NEW r, Sends(r), r.op \notin {"add", "remove", "roster"},
             UNCHANGED <<listed, stored, denied, connected, sessions, toClient, ctl, ack, roster>>,
             \A t \in Slave : /\ info'[t].budId = info[t].budId
                              /\ info'[t].ignoreId = info[t].ignoreId
                              /\ info'[t].invisibleId = info[t].invisibleId
      PROVE  Ids'
  <2>1. Early' => Early
    BY <1>2, SendsOne DEF IInv
  <2>2. \A t \in Slave : Fits(info'[t])
    BY <1>2 DEF Fits, Ids, Own
  <2>3. toServer' = toServer \/ \E l : Sends(l) /\ l.op \notin {"add", "remove"}
    BY <1>2
  <2>4. ack'.rest \subseteq listed' /\ (Ignoring' => Head(ctl'.rest) \in listed' /\ ~Unread)
    BY <1>2 DEF Ids, Own, Ignoring
  <2>5. /\ roster' # {} => Unread
        /\ \A i \in roster' : Saved(i)
        /\ \A m \in Items(toClient') : m \in Items(toClient)
    BY <1>2 DEF Unread, Ids, Store
  <2> QED
    BY <1>2, <2>1, <2>2, <2>3, <2>4, <2>5, ElsewhereIds
<1>3. CASE sendUpdatePrivacy
  <2> DEFINE r == [op |-> "update", about |-> {}, reqId |-> ReqId("update")]
  <2>1. Sends(r) /\ r.op \notin {"add", "remove", "roster"}
        /\ UNCHANGED <<info, listed, stored, denied, connected, sessions, toClient, ctl, ack, roster>>
    BY <1>3 DEF sendUpdatePrivacy, threads
  <2> QED
    BY <1>2, <2>1
<1>4. ASSUME NEW s \in Slave, YSM_War_Scan(s) PROVE Ids'
  <2> DEFINE r == [op |-> "scan", about |-> {s}, reqId |-> <<"scan", s>>]
  <2>1. Sends(r) /\ r.op \notin {"add", "remove", "roster"}
        /\ UNCHANGED <<listed, stored, denied, connected, sessions, toClient, ctl, ack, roster>>
    BY <1>4 DEF YSM_War_Scan, threads
  <2>2. ASSUME NEW t \in Slave
        PROVE  /\ info'[t].budId = info[t].budId
               /\ info'[t].ignoreId = info[t].ignoreId
               /\ info'[t].invisibleId = info[t].invisibleId
    <3>1. AnyInfo(info[s]) /\ info = [u \in Slave |-> info[u]]
      BY DEF IInv, Types
    <3>2. info' = [info EXCEPT ![s].flags = info[s].flags \cup {"scanned"}, ![s].reqId = <<"scan", s>>]
      BY <1>4, <3>1 DEF YSM_War_Scan
    <3> QED
      BY <3>1, <3>2 DEF AnyInfo
  <2> QED
    BY <1>2, <2>1, <2>2
<1> QED
  BY <1>1, <1>3, <1>4

\* The answers are read; that of an upload may send a request of its own.
LEMMA AppliesIds == ASSUME IInv, Ids, incomingChangeOf PROVE Ids'
<1>1. PICK s \in ack.rest :
         Applies(s, AddItem(s, "add", "slave", "ysm", 0, Changed(s, "add", 0)))
  BY DEF incomingChangeOf
<1> DEFINE v == info[s].flags \cup {"downloaded"}
           T == ack.rest \ {s}
           w == v \cup IF ack.code = "auth" THEN {"authreq"} ELSE {}
           c == Changed(s, "update", 0)
           i == [c EXCEPT !.flags = c.flags \cup {"downloaded"}]
           g == [info[s] EXCEPT !.flags = w]
<1>2. s \in listed /\ s \in Slave
  BY DEF Ids, Own, IInv, Types
<1>3. /\ ack' = [ack EXCEPT !.rest = T] /\ UNCHANGED <<listed, ctl, roster>>
      /\ \/ AddItem(s, "update", "group", "ysm", 0, i)
         \/ AddItem(s, "add", "slave", "ysm", 0, Changed(s, "add", 0))
         \/ /\ info' = [info EXCEPT ![s].flags = @ \cup {"downloaded"} \cup
                           IF ack.code = "auth" THEN {"authreq"} ELSE {}]
            /\ UNCHANGED <<blentries, scanqueue, network>>
  BY <1>1 DEF Applies
<1>4. ack'.rest \subseteq listed' /\ (Ignoring' => Head(ctl'.rest) \in listed' /\ ~Unread)
  <2>1. ack'.rest = T
    BY <1>3 DEF IInv, Types
  <2> QED
    BY <1>3, <2>1 DEF Ids, Own, Ignoring
<1>5. CASE AddItem(s, "update", "group", "ysm", 0, i)
  <2>1. Fits(i) /\ i.ignoreId = info[s].ignoreId /\ i.invisibleId = info[s].invisibleId
    BY <1>2, ChangedIds DEF Ids, Fits
  <2> HIDE DEF i
  <2> QED
    BY <1>2, <1>3, <1>4, <1>5, <2>1, UploadIds
<1>6. CASE AddItem(s, "add", "slave", "ysm", 0, Changed(s, "add", 0))
  BY <1>2, <1>3, <1>4, <1>6, ChangedIds, UploadIds DEF Ids
<1>7. CASE /\ info' = [info EXCEPT ![s].flags = @ \cup {"downloaded"} \cup
                          IF ack.code = "auth" THEN {"authreq"} ELSE {}]
           /\ UNCHANGED <<blentries, scanqueue, network>>
  <2>1. info' = [info EXCEPT ![s] = g]
    BY <1>2, <1>7 DEF IInv, Types
  <2>2. g.budId = info[s].budId /\ g.ignoreId = info[s].ignoreId /\ g.invisibleId = info[s].invisibleId
    <3>1. AnyInfo(info[s])
      BY <1>2 DEF IInv, Types
    <3> HIDE DEF w
    <3> QED
      BY <3>1 DEF AnyInfo
  <2> HIDE DEF g
  <2>3. \A t \in Slave : /\ info'[t].budId = info[t].budId
                         /\ info'[t].ignoreId = info[t].ignoreId
                         /\ info'[t].invisibleId = info[t].invisibleId
    BY <1>2, <2>1, <2>2 DEF IInv, Types
  <2>4. \A t \in Slave : Fits(info'[t])
    BY <2>3 DEF Fits, Ids, Own
  <2>5. Early' = Early
    BY <1>7 DEF network, Early, Flight
  <2>6. /\ roster' # {} => Unread
        /\ \A x \in roster' : Saved(x)
        /\ UNCHANGED <<stored, denied, connected, toServer, toClient>>
    BY <1>3, <1>7 DEF network, Unread, Ids, Store
  <2> QED
    BY <1>3, <1>4, <2>3, <2>4, <2>5, <2>6, ElsewhereIds
<1> QED
  BY <1>3, <1>5, <1>6, <1>7

LEMMA AnswersIds == ASSUME IInv, Ids, YSM_BuddyIncomingChange \/ incomingScanRsp PROVE Ids'
<1>1. ASSUME NEW ops, Reads(ops), UNCHANGED <<listed, ctl, roster>>, ack'.rest \subseteq listed',
             \A t \in Slave : /\ info'[t].budId = info[t].budId
                              /\ info'[t].ignoreId = info[t].ignoreId
                              /\ info'[t].invisibleId = info[t].invisibleId
      PROVE  Ids'
  <2>1. /\ \A m \in Items(toClient') : m \in Items(toClient)
        /\ Early' => Early
        /\ toServer' = toServer /\ UNCHANGED <<connected, stored, denied>>
    BY <1>1, Received
  <2>2. \A t \in Slave : Fits(info'[t])
    BY <1>1 DEF Fits, Ids, Own
  <2>3. Ignoring' => Head(ctl'.rest) \in listed' /\ ~Unread
    BY <1>1 DEF Ids, Own, Ignoring
  <2>4. (roster' # {} => Unread) /\ \A x \in roster' : Saved(x)
    BY <1>1 DEF Unread, Ids, Store
  <2> QED
    BY <1>1, <2>1, <2>2, <2>3, <2>4, ElsewhereIds
<1>2. CASE YSM_BuddyIncomingChange
  <2> DEFINE T == Matched(Head(toClient))
  <2>1. /\ Reads({"add", "update", "remove"}) /\ ack' = [code |-> Head(toClient).code, rest |-> T]
        /\ UNCHANGED <<listed, info, ctl, roster>>
    BY <1>2 DEF YSM_BuddyIncomingChange, contacts
  <2>2. T \subseteq listed
    BY DEF Matched
  <2> HIDE DEF T
  <2> QED
    BY <1>1, <2>1, <2>2
<1>3. CASE incomingScanRsp
  <2> DEFINE m == {s \in listed : scanqueue # 0 /\ info[s].reqId = Head(toClient).reqId}
             F(s) == IF s \in m THEN [info[s] EXCEPT !.flags = @ \ {"scanned"}] ELSE info[s]
  <2>1. /\ Reads({"scan"}) /\ info' = [s \in Slave |-> F(s)]
        /\ UNCHANGED <<listed, ctl, ack, roster>>
    BY <1>3 DEF incomingScanRsp, threads
  <2>2. ASSUME NEW s \in Slave
        PROVE  /\ F(s).budId = info[s].budId /\ F(s).ignoreId = info[s].ignoreId
               /\ F(s).invisibleId = info[s].invisibleId
    <3> DEFINE f == info[s]
               v == f.flags \ {"scanned"}
               i == [f EXCEPT !.flags = v]
    <3>1. F(s) = f \/ F(s) = i
      OBVIOUS
    <3>2. i.budId = f.budId /\ i.ignoreId = f.ignoreId /\ i.invisibleId = f.invisibleId
      <4>1. AnyInfo(f)
        BY DEF IInv, Types
      <4> HIDE DEF f, v
      <4> QED
        BY <4>1 DEF AnyInfo
    <3> HIDE DEF i, F
    <3> QED
      BY <3>1, <3>2
  <2> HIDE DEF F
  <2>3. \A t \in Slave : /\ info'[t].budId = info[t].budId
                         /\ info'[t].ignoreId = info[t].ignoreId
                         /\ info'[t].invisibleId = info[t].invisibleId
    BY <2>1, <2>2
  <2>4. ack'.rest \subseteq listed'
    BY <2>1 DEF Ids, Own
  <2> QED
    BY <1>1, <2>1, <2>3, <2>4
<1> QED
  BY <1>2, <1>3

\* The roster is read: nobody is ignored before, nor after.
LEMMA RosterIds ==
  ASSUME IInv, Ids, YSM_BuddyIncomingList \/ \E x \in roster : buddyAddSlave(x)
  PROVE  Ids'
<1>1. CASE YSM_BuddyIncomingList
  <2> DEFINE m == Head(toClient)
             items == m.items
  <2>1. /\ roster' = items /\ UNCHANGED <<listed, info, ctl, ack>> /\ Reads({"roster"})
    BY <1>1 DEF YSM_BuddyIncomingList
  <2>2. /\ m \in Flight /\ m \in Items(toClient) /\ m.op \in {"roster"}
        /\ \A l \in Items(toClient') : l \in Items(toClient)
        /\ Early' => Early
        /\ connected /\ toServer' = toServer /\ UNCHANGED <<connected, stored, denied>>
    BY <2>1, Received
  <2>3. Unread /\ \A x \in roster' : Saved(x)
    BY <2>1, <2>2 DEF Early, Unread, Ids, Store
  <2> HIDE DEF items, m
  <2>4. ack'.rest \subseteq listed' /\ (Ignoring' => Head(ctl'.rest) \in listed' /\ ~Unread)
    BY <2>1 DEF Ids, Own, Ignoring
  <2>5. \A t \in Slave : Fits(info'[t])
    BY <2>1 DEF Ids, Own
  <2> QED
    BY <2>1, <2>2, <2>3, <2>4, <2>5, ElsewhereIds
<1>2. ASSUME NEW x \in roster, buddyAddSlave(x) PROVE Ids'
  <2> DEFINE s == x.slave
             f == info[s]
             v == f.flags \cup {"downloaded"}
             i == [flags |-> v, budId |-> x.id, grpId |-> x.grp, ignoreId |-> f.ignoreId,
                   invisibleId |-> f.invisibleId, reqId |-> f.reqId]
  <2>1. s \in Slave /\ x.type = "slave" /\ x.id \in Nat /\ Unread
    BY DEF IInv, Types, Ids, Store, Saved, Unread
  <2>2. /\ roster' = roster \ {x} /\ listed' = listed \cup {s}
        /\ UNCHANGED <<ctl, ack, network>>
    BY <1>2 DEF buddyAddSlave
  <2>3. info' = [info EXCEPT ![s] = i]
    BY <1>2, <2>1 DEF buddyAddSlave
  <2>4. Fits(i) /\ i.ignoreId = f.ignoreId /\ i.invisibleId = f.invisibleId
    <3>1. Free(f)
      BY <2>1 DEF Ids, Own
    <3> QED
      BY <2>1, <3>1 DEF Fits, Free
  <2> HIDE DEF i, s
  <2>5. info'[s] = i /\ \A t \in Slave \ {s} : info'[t] = info[t]
    BY <2>1, <2>3 DEF IInv, Types
  <2>6. \A t \in Slave : /\ Fits(info'[t])
                         /\ info'[t].ignoreId = info[t].ignoreId /\ info'[t].invisibleId = info[t].invisibleId
    BY <2>4, <2>5 DEF Ids, Own
  <2>7. Early' = Early /\ UNCHANGED <<stored, denied, connected, toServer, toClient>>
    BY <2>2 DEF network, Early, Flight
  <2>8. ack'.rest \subseteq listed' /\ (Ignoring' => Head(ctl'.rest) \in listed' /\ ~Unread)
    BY <2>2 DEF Ids, Own, Ignoring
  <2>9. \A y \in roster' : Saved(y)
    BY <2>2 DEF Ids, Store
  <2> QED
    BY <2>1, <2>2, <2>6, <2>7, <2>8, <2>9, ElsewhereIds
<1> QED
  BY <1>1, <1>2

-----------------------------------------------------------------------------
\* The session and the server.

LEMMA SessionIds == ASSUME IInv, Calm, Ids, SignsIn \/ SessionEnds PROVE Ids'
<1> USE DEF contacts, threads
<1>1. CASE SignsIn
  <2> DEFINE r == [op |-> "roster"]
  <2>1. /\ sessions = 0 /\ toServer' = <<r>> /\ toClient' = <<>>
        /\ UNCHANGED <<listed, info, ctl, ack, roster, stored, denied>>
    BY <1>1 DEF SignsIn, Calm, IInv, Types
  <2>2. Early /\ Unread
    BY <2>1 DEF Early, Unread
  <2>3. Own'
    BY <2>1, <2>2 DEF Ids, Own, Ignoring
  <2>4. Store'
    BY <2>1, <2>2, NothingQueued DEF Ids, Store, Seen
  <2>5. OnServer' = {} /\ OnClient' = {}
    <3>1. \A i \in Seen : i.type = "slave"
      BY <2>2 DEF Ids, Store, Saved
    <3>2. \A s \in Slave : Free(info[s])
      BY <2>2 DEF Ids, Own
    <3> QED
      BY <2>1, <3>1, <3>2 DEF OnServer, OnClient, Free, Seen
  <2>6. Leads(toServer', {}, {})
    <3> DEFINE q == <<>>
               N == {}
    <3>1. <<r>> = Append(q, r)
      OBVIOUS
    <3>2. AnyQueue(q) /\ Leads(q, N, N)
      BY NothingQueued, LeadsNowhere
    <3>3. Makes(r, N, N)
      BY DEF Makes
    <3> HIDE DEF q, r, N
    <3>4. Leads(Append(q, r), N, N)
      BY <3>2, <3>3, LeadsFurther
    <3> QED
      BY <2>1, <3>1, <3>4 DEF N
  <2> QED
    BY <2>3, <2>4, <2>5, <2>6 DEF Ids
<1>2. CASE SessionEnds
  <2>1. /\ connected /\ connected' = FALSE /\ toServer' = <<>> /\ toClient' = <<>>
        /\ UNCHANGED <<listed, info, ctl, ack, roster, sessions, stored, denied>>
    BY <1>2 DEF SessionEnds
  <2>2. ~Early'
    BY <2>1, NothingQueued DEF Early, Flight, IInv, Types
  <2>3. Own'
    BY <2>1, <2>2 DEF Ids, Own, Unread, Ignoring
  <2>4. Store'
    BY <2>1, <2>2, NothingQueued DEF Ids, Store, Seen
  <2> QED
    BY <2>1, <2>3, <2>4 DEF Ids
<1> QED
  BY <1>1, <1>2

\* The server does what the oldest request asks, and only that, or will not
\* have it: no item of another contact is in the way of a new entry.
LEMMA NoClash ==
  ASSUME Store, NEW C, Head(toServer).op = "add", Head(toServer).type # "slave",
         Makes(Head(toServer), OnServer, C)
  PROVE  ~Clashes(Head(toServer))
<1> DEFINE r == Head(toServer)
<1>1. r.op = "add" /\ r.type # "slave"
  OBVIOUS
<1> SUFFICES ASSUME Clashes(r) PROVE FALSE
  OBVIOUS
<1> HIDE DEF r
<1>2. PICK s \in Slave : r.about = {s} /\ Adding(r, s, OnServer, C)
  BY <1>1 DEF Makes, r
<1>3. r.grp = "none" /\ \A e \in OnServer : e[3] # r.id /\ ~(e[1] = r.type /\ e[2] = s)
  BY <1>1, <1>2 DEF Adding
<1>4. PICK i \in stored : \/ i.grp = r.grp /\ i.id = r.id
                          \/ i.type = r.type /\ {i.slave} = r.about
  BY DEF Clashes
<1>5. i.type # "slave"
  BY <1>1, <1>3, <1>4 DEF Store, Saved, Listing, Seen
<1> DEFINE e == <<i.type, i.slave, i.id>>
<1>6. e \in OnServer /\ e[1] = i.type /\ e[2] = i.slave /\ e[3] = i.id
  BY <1>5 DEF OnServer, Seen
<1> HIDE DEF e
<1> QED
  BY <1>2, <1>3, <1>4, <1>6

\* A new entry, whether the server has it or will not have it.
LEMMA Entered ==
  ASSUME Store, NEW C, Head(toServer).op = "add", Makes(Head(toServer), OnServer, C),
         Seen' = Seen \cup Asked(Head(toServer))
  PROVE  OnServer' = C /\ \A i \in Seen' : Saved(i) \/ Listing(i)
<1> DEFINE r == Head(toServer)
<1>1. /\ r.op = "add"
      /\ Seen' = Seen \cup {[type |-> r.type, grp |-> r.grp, id |-> r.id, slave |-> t] : t \in r.about}
  BY DEF Asked
<1> HIDE DEF r
<1>2. PICK s \in Slave : r.about = {s} /\ Adding(r, s, OnServer, C)
  BY <1>1 DEF Makes, r
<1> DEFINE x == [type |-> r.type, grp |-> r.grp, id |-> r.id, slave |-> s]
<1>3. Seen' = Seen \cup {x}
  BY <1>1, <1>2
<1>4. x.type = r.type /\ x.grp = r.grp /\ x.id = r.id /\ x.slave = s /\ r.id \in Nat
  BY <1>1 DEF Makes, r
<1> HIDE DEF x
<1>5. Saved(x) \/ Listing(x)
  BY <1>2, <1>4 DEF Adding, Saved, Listing
<1>6. OnServer' = C
  <2>1. CASE r.type = "slave"
    BY <1>2, <1>3, <1>4, <2>1 DEF Adding, OnServer
  <2>2. CASE r.type # "slave"
    <3>1. OnServer' = OnServer \cup {<<r.type, s, r.id>>}
      BY <1>3, <1>4, <2>2 DEF OnServer
    <3> QED
      BY <1>2, <2>2, <3>1 DEF Adding
  <2> QED
    BY <2>1, <2>2
<1> QED
  BY <1>3, <1>5, <1>6 DEF Store

LEMMA Declined ==
  ASSUME Store, NEW C, NEW code, ServerDeclines(code), Makes(Head(toServer), OnServer, C)
  PROVE  /\ OnServer' = C /\ \A i \in Seen' : Saved(i) \/ Listing(i)
         /\ stored' = stored
<1> DEFINE r == Head(toServer)
<1>1. /\ r.op = "add" /\ stored' = stored
      /\ denied' = IF r.type = "slave" \/ Clashes(r) THEN denied ELSE denied \cup Asked(r)
  BY DEF ServerDeclines, Takes
<1> HIDE DEF r
<1>2. PICK s \in Slave : r.about = {s} /\ Adding(r, s, OnServer, C)
  BY <1>1 DEF Makes, r
<1>3. CASE r.type = "slave"
  <2>1. Seen' = Seen
    BY <1>1, <1>3 DEF Seen
  <2> QED
    BY <1>1, <1>2, <1>3, <2>1 DEF Adding, OnServer, Store
<1>4. CASE r.type # "slave"
  <2>1. ~Clashes(r)
    BY <1>1, <1>4, NoClash DEF r
  <2>2. Seen' = Seen \cup Asked(r)
    BY <1>1, <1>4, <2>1 DEF Seen
  <2> QED
    BY <1>1, <2>2, Entered DEF r
<1> QED
  BY <1>3, <1>4

LEMMA Stores ==
  ASSUME Store, NEW C, ServerStores, Makes(Head(toServer), OnServer, C)
  PROVE  OnServer' = C /\ \A i \in Seen' : Saved(i) \/ Listing(i)
<1>1. Head(toServer).op = "add" /\ Seen' = Seen \cup Asked(Head(toServer))
  BY DEF ServerStores, Takes, Seen
<1> QED
  BY <1>1, Entered

LEMMA Removed ==
  ASSUME Store, NEW C, ServerRemoves, Makes(Head(toServer), OnServer, C)
  PROVE  OnServer' = C /\ Seen' \subseteq Seen
<1> DEFINE r == Head(toServer)
<1>1. r.op = "remove" /\ Seen' = {i \in Seen : ~Same(i, r)}
  BY DEF ServerRemoves, Takes, Seen
<1> HIDE DEF r
<1>2. Removing(r, OnServer, C)
  BY <1>1 DEF Makes, r
<1>3. CASE r.type = "slave"
  <2>1. \A i : i \in Seen' /\ i.type # "slave" <=> (i \in Seen /\ i.type # "slave")
    BY <1>1, <1>3 DEF Same
  <2> QED
    BY <1>1, <1>2, <1>3, <2>1 DEF Removing, OnServer
<1>4. CASE r.type # "slave"
  <2>1. r.type \in {"ign", "inv"} /\ r.grp = "none" /\ C = {e \in OnServer : ~(e[1] = r.type /\ e[3] = r.id)}
    BY <1>2, <1>4 DEF Removing
  <2>2. \A i \in Seen : i.type # "slave" => (Same(i, r) <=> (i.type = r.type /\ i.id = r.id))
    BY <2>1 DEF Same, Store, Saved, Listing
  <2> DEFINE E(i) == <<i.type, i.slave, i.id>>
  <2>3. \A i : E(i)[1] = i.type /\ E(i)[3] = i.id
    OBVIOUS
  <2>4. /\ \A e : e \in OnServer <=> \E i \in Seen : i.type # "slave" /\ e = E(i)
        /\ \A e : e \in OnServer' <=> \E i \in Seen' : i.type # "slave" /\ e = E(i)
    BY DEF OnServer
  <2> HIDE DEF E
  <2>5. \A e : e \in OnServer' <=> e \in C
    BY <1>1, <2>1, <2>2, <2>3, <2>4
  <2> QED
    BY <1>1, <2>5
<1> QED
  BY <1>3, <1>4

LEMMA ServerIds == ASSUME IInv, Ids, Server PROVE Ids'
<1> DEFINE q == Head(toServer)
           e == [op |-> "roster", items |-> stored]
           a(code) == [op |-> q.op, code |-> code, about |-> q.about, reqId |-> q.reqId]
<1>1. /\ toServer # <<>> /\ toServer' = Tail(toServer)
      /\ UNCHANGED <<contacts, threads, connected, sessions>>
  BY DEF Server, ServerSendsRoster, ServerStores, ServerDeclines, ServerRemoves,
         ServerAnswers, Takes
<1>2. /\ q \in Flight /\ Items(toServer') \subseteq Items(toServer)
  BY <1>1, TakeItem DEF Flight, IInv, Types
<1>3. connected
  BY <1>1 DEF IInv, Types
<1>4. PICK m : /\ toClient' = Append(toClient, m)
               /\ \/ q.op = "roster" /\ m = e
                  \/ q.op # "roster" /\ \E code : m = a(code)
  BY DEF Server, ServerSendsRoster, ServerStores, ServerDeclines, ServerRemoves,
         ServerAnswers, Takes, Answers
<1>5. m.op = "roster" => q.op = "roster" /\ m.items = stored
  <2>1. m.op = q.op
    BY <1>4
  <2> HIDE DEF q
  <2> QED
    BY <1>4, <2>1
<1>6. Items(toClient') = Items(toClient) \cup {m}
  BY <1>4, AppendItem DEF IInv, Types
<1> DEFINE A == OnServer
           B == OnClient
<1>7. Leads(toServer, A, B) /\ AnyQueue(toServer)
  BY <1>3 DEF Ids, IInv, Types
<1> HIDE DEF A, B
<1>8. PICK C : Makes(q, A, C) /\ Leads(Tail(toServer), C, B)
  BY <1>1, <1>7, LeadsFirst
<1>9. Makes(Head(toServer), OnServer, C)
  BY <1>8 DEF A
<1> HIDE DEF q
<1>10. /\ Early' => Early
       /\ q.op = "add" => ~Early
       /\ q.op = "roster" => Early
  <2>1. \A n \in Flight' : n \in Flight \/ n = m
    BY <1>2, <1>6 DEF Flight
  <2>2. q.op = "add" => ~Early
    BY <1>2 DEF IInv, Numbers, Quiet
  <2> QED
    BY <1>1, <1>2, <1>5, <2>1, <2>2 DEF Early
<1>11. Own'
  BY <1>1, <1>10 DEF Ids, Own, Unread, Ignoring, contacts, threads
<1>12. /\ OnServer' = C
       /\ \A i \in Seen' : Saved(i) \/ Listing(i)
       /\ Seen' \subseteq Seen \/ q.op = "add"
  <2>1. CASE stored' = stored /\ denied' = denied /\ q.op \notin {"add", "remove"}
    <3>1. C = OnServer
      BY <1>9, <2>1 DEF Makes, q
    <3> QED
      BY <2>1, <3>1 DEF OnServer, Ids, Store, Seen
  <2>2. ASSUME NEW code, ServerDeclines(code)
        PROVE  q.op = "add" /\ OnServer' = C /\ \A i \in Seen' : Saved(i) \/ Listing(i)
    BY <1>9, <2>2, Declined DEF Ids, ServerDeclines, Takes, q
  <2>3. CASE ServerStores
    BY <1>9, <2>3, Stores DEF Ids, q, ServerStores, Takes
  <2>4. CASE ServerRemoves
    BY <1>9, <2>4, Removed DEF Ids, Store
  <2>5. \/ stored' = stored /\ denied' = denied /\ q.op \notin {"add", "remove"}
        \/ \E code : ServerDeclines(code)
        \/ ServerStores \/ ServerRemoves
    BY DEF Server, ServerSendsRoster, ServerAnswers, Takes, q
  <2> QED
    BY <2>1, <2>2, <2>3, <2>4, <2>5 DEF Ids, Store
<1>13. Store'
  <2>1. Early' => \A i \in Seen' : Saved(i)
    BY <1>10, <1>12 DEF Ids, Store
  <2>2. \A n \in Items(toClient') : n.op = "roster" => \A i \in n.items : Saved(i)
    BY <1>5, <1>6, <1>10 DEF Ids, Store, Seen
  <2>3. roster' = roster
    BY <1>1 DEF threads
  <2> QED
    BY <1>12, <2>1, <2>2, <2>3 DEF Ids, Store
<1>14. OnClient' = B
  BY <1>1, SameEntries DEF B, contacts
<1> QED
  BY <1>1, <1>8, <1>11, <1>12, <1>13, <1>14 DEF Ids

-----------------------------------------------------------------------------
LEMMA InitIds == Init /\ OnlyContacts => Ids
<1> SUFFICES ASSUME Init, OnlyContacts PROVE Ids
  OBVIOUS
<1>1. /\ ~connected /\ stored = Stored /\ denied = {} /\ roster = {} /\ toClient = <<>> /\ ack = NoAck /\ ctl = Idle
      /\ \A s \in Slave : info[s] = Fresh
  BY DEF Init
<1>2. \A i \in Seen : Saved(i)
  BY <1>1, StoredAssumption DEF Seen, OnlyContacts, Saved, Item
<1>3. Store
  BY <1>1, <1>2, NothingQueued DEF Store
<1>4. Own
  BY <1>1 DEF Own, Fits, Free, Fresh, Ignoring, NoAck, Idle
<1> QED
  BY <1>1, <1>3, <1>4 DEF Ids

LEMMA NextIds == Calm /\ IInv /\ Ids /\ [Next]_vars => Ids'
<1> SUFFICES ASSUME Calm, IInv, Ids, [Next]_vars PROVE Ids'
  OBVIOUS
<1>1. CASE Prompt
  BY <1>1, CommandIds, IgnoreIds, UnignoreIds, DeletionIds, OtherCommandsIds DEF Prompt
<1>2. CASE Goes
  BY <1>2, UploadListIds, InvisibleIds DEF Goes
<1>3. CASE NetThread
  BY <1>3, RosterIds, AnswersIds, AppliesIds DEF NetThread
<1>4. CASE SignsIn \/ SessionEnds
  BY <1>4, SessionIds
<1>5. CASE Server
  BY <1>5, ServerIds
<1>6. CASE UNCHANGED vars
  <2>1. UNCHANGED <<info, listed, ack, ctl, roster, network>>
    BY <1>6 DEF vars, contacts, threads
  <2>2. Early' = Early
    BY <2>1 DEF network, Early, Flight
  <2>3. Own'
    BY <2>1, <2>2 DEF Ids, Own, Unread, Ignoring
  <2>4. Store'
    BY <2>1, <2>2 DEF Ids, Store, Seen, network
  <2>5. OnServer' = OnServer /\ OnClient' = OnClient
    BY <2>1, SameEntries DEF OnServer, Seen, network
  <2> QED
    BY <2>1, <2>3, <2>4, <2>5 DEF Ids, network
<1> QED
  BY <1>1, <1>2, <1>3, <1>4, <1>5, <1>6 DEF Next

-----------------------------------------------------------------------------
\* When the server has seen every request of a session, it ignores, and hides
\* from, the contacts that the client thinks it does, under the ids the client
\* keeps (cmdIGNORE, YSM_BuddyInvisible), save those it would not take for other
\* reasons: the next `ignore ... off' removes the item that was added, and no
\* addition was refused for the sake of its id (YSM_BuddyGenNewID).  For any number of contacts and of commands, and for a
\* server that holds contacts only when the session begins.
THEOREM IgnoredFollowed == Spec /\ Calm /\ OnlyContacts => []IgnoredAgrees
<1> SUFFICES ASSUME Calm, OnlyContacts PROVE Spec => []IgnoredAgrees
  OBVIOUS
<1>1. IInv /\ Ids => IgnoredAgrees
  <2> SUFFICES ASSUME IInv, Ids, connected, toServer = <<>>
               PROVE  OnServer = {<<"ign", s, info[s].ignoreId>> :
                                     s \in {t \in listed : info[t].ignoreId # 0}}
                        \cup {<<"inv", s, info[s].invisibleId>> :
                                 s \in {t \in listed : info[t].invisibleId # 0}}
    BY DEF IgnoredAgrees, OnServer, Seen
  <2> DEFINE A == OnServer
             B == OnClient
  <2>1. Leads(<<>>, A, B)
    BY DEF Ids
  <2> HIDE DEF A, B
  <2>2. A = B
    BY <2>1, LeadsNowhere
  <2>3. \A s \in Slave \ listed : info[s].ignoreId = 0 /\ info[s].invisibleId = 0
    BY DEF Ids, Own, Free
  <2>4. listed \subseteq Slave
    BY DEF IInv, Types
  <2>5. /\ {t \in listed : info[t].ignoreId # 0} = {t \in Slave : info[t].ignoreId # 0}
        /\ {t \in listed : info[t].invisibleId # 0} = {t \in Slave : info[t].invisibleId # 0}
    BY <2>3, <2>4
  <2> QED
    BY <2>2, <2>5 DEF A, B, OnClient
<1>2. IInv /\ Ids /\ [Next]_vars => IInv' /\ Ids'
  BY NextIInv, NextIds
<1>3. Init => IInv /\ Ids
  BY InitIInv, InitIds
<1> QED
  BY <1>1, <1>2, <1>3, PTL DEF Spec
=============================================================================
