---------------------------- MODULE Presence_proofs ----------------------------
(***************************************************************************)
(* For any contacts and messages, any number of sessions and commands, and *)
(* a queue of any length: no stored message is lost; the others are told   *)
(* what the daemon believes; and the daemon knows its contacts.            *)
(***************************************************************************)
EXTENDS Presence, FiniteSetTheorems, SequenceTheorems, TLAPS

-----------------------------------------------------------------------------
\* What is under way, and in which order.

Marks == {"AWAY", "crypt", "caps"}
Buddies == [kind : {"buddy"}, who : Contacts, fresh : BOOLEAN,
            sub : {"OFFGOING", "ONCOMING"}, tlvs : SUBSET Marks]
Rosters == [kind : {"roster"}, item : BOOLEAN, privacy : {3, 4}]
Texts == [kind : {"msg", "offline"}, msg : Messages]
EndNotices == [kind : {"end"}, msgs : SUBSET Messages]
Steps == [kind : {"nothing", "personal", "ready", "contacts"}]
Notices == Buddies \cup Rosters \cup Texts \cup EndNotices \cup Steps

TypeInv ==
    /\ queue \in Seq(Notices) /\ hand \in Notices
    /\ real \in [Contacts -> Reals]
    /\ item \in BOOLEAN /\ srvPrivacy \in {3, 4}
    /\ listed \subseteq Contacts /\ subs \subseteq Contacts
    /\ stored \subseteq Messages /\ unsent \subseteq Messages
    /\ alive \in BOOLEAN

Handled == shown \cup swallowed \cup unread
Offers(n, m) == n.kind = "offline" /\ n.msg = m

\* The end of the stored messages comes after each message it speaks of.
Follows(q, h) ==
    \A i \in 1..Len(q) : q[i].kind = "end" =>
        \A m \in q[i].msgs : \/ m \in Handled \/ Offers(h, m)
                             \/ \E j \in 1..i-1 : Offers(q[j], m)
AllSeen(h) == h.kind = "end" => h.msgs \subseteq Handled

Order == Follows(queue, hand) /\ AllSeen(hand)

IInv == TypeInv /\ StoredNotLost /\ (alive => Order)

-----------------------------------------------------------------------------
\* SetToSeq lists the members of a finite set.
LEMMA Listing ==
  ASSUME NEW S, IsFiniteSet(S)
  PROVE  /\ SetToSeq(S) \in Seq(S) /\ Len(SetToSeq(S)) = Cardinality(S) /\ Cardinality(S) \in Nat
         /\ \A x \in S : \E i \in 1..Cardinality(S) : SetToSeq(S)[i] = x
<1> DEFINE n == Cardinality(S)
<1>1. n \in Nat /\ ExistsBijection(1..n, S)
  BY FS_CardinalityType
<1>2. \E f \in [1..n -> S] : IsInjective(f)
  BY <1>1 DEF ExistsBijection, Bijection, Injection
<1>3. SetToSeq(S) \in [1..n -> S] /\ IsInjective(SetToSeq(S))
  BY <1>2 DEF SetToSeq
<1>4. SetToSeq(S) \in Injection(1..n, S)
  BY <1>3 DEF Injection
<1>5. IsFiniteSet(1..n) /\ Cardinality(1..n) = Cardinality(S)
  BY <1>1, FS_Interval
<1>6. SetToSeq(S) \in Surjection(1..n, S)
  BY <1>4, <1>5, FS_Injection
<1>7. \A x \in S : \E i \in 1..n : SetToSeq(S)[i] = x
  BY <1>6 DEF Surjection
<1>8. SetToSeq(S) \in Seq(S) /\ Len(SetToSeq(S)) = n
  BY <1>1, <1>3
<1> QED
  BY <1>1, <1>7, <1>8

\* The offline notices of the stored messages.
LEMMA StoredListed ==
  ASSUME NEW T \in SUBSET Messages
  PROVE  LET s == SetToSeq({[kind |-> "offline", msg |-> m] : m \in T})
         IN  /\ s \in Seq(Notices) /\ Len(s) \in Nat
             /\ \A i \in 1..Len(s) : s[i].kind = "offline"
             /\ \A m \in T : \E i \in 1..Len(s) : Offers(s[i], m)
<1> DEFINE S == {[kind |-> "offline", msg |-> m] : m \in T}
           f == [m \in T |-> [kind |-> "offline", msg |-> m]]
<1>1. IsFiniteSet(T)
  BY FiniteAssumption, FS_Subset
<1>2. f \in Surjection(T, S)
  BY DEF Surjection
<1>3. IsFiniteSet(S)
  BY <1>1, <1>2, FS_Surjection
<1>4. S \subseteq Notices /\ \A x \in S : x.kind = "offline"
  BY DEF Notices, Texts
<1>5. \A m \in T : \E x \in S : Offers(x, m)
  <2> TAKE m \in T
  <2>1. [kind |-> "offline", msg |-> m] \in S
    OBVIOUS
  <2> QED
    BY <2>1 DEF Offers
<1> HIDE DEF S
<1>6. /\ SetToSeq(S) \in Seq(S) /\ Len(SetToSeq(S)) = Cardinality(S) /\ Cardinality(S) \in Nat
      /\ \A x \in S : \E i \in 1..Cardinality(S) : SetToSeq(S)[i] = x
  BY <1>3, Listing
<1>7. SetToSeq(S) \in Seq(Notices) /\ \A i \in 1..Len(SetToSeq(S)) : SetToSeq(S)[i].kind = "offline"
  BY <1>4, <1>6
<1>8. \A m \in T : \E i \in 1..Len(SetToSeq(S)) : Offers(SetToSeq(S)[i], m)
  BY <1>5, <1>6
<1> QED
  BY <1>6, <1>7, <1>8 DEF S

\* The notices of the contacts that are new to the server.
LEMMA NoticeType ==
  ASSUME NEW c \in Contacts, NEW to \in Reals PROVE Notice(c, to) \in Buddies
  BY DEF Notice, Buddies, Marks

LEMMA TellType ==
  ASSUME TypeInv, NEW new \in SUBSET Contacts
  PROVE  Tell(new) \in Seq(Buddies) /\ Len(Tell(new)) \in Nat
<1> DEFINE D == {d \in new : real[d] # Off}
           S == {Oncoming(c) : c \in D}
           f == [c \in D |-> Oncoming(c)]
<1>1. IsFiniteSet(D)
  BY FiniteAssumption, FS_Subset
<1>2. f \in Surjection(D, S)
  BY DEF Surjection
<1>3. IsFiniteSet(S)
  BY <1>1, <1>2, FS_Surjection
<1>4. S \subseteq Buddies
  BY NoticeType DEF Oncoming, TypeInv
<1>5. Tell(new) = SetToSeq(S)
  BY DEF Tell
<1> HIDE DEF S
<1>6. SetToSeq(S) \in Seq(S) /\ Len(SetToSeq(S)) \in Nat
  BY <1>3, Listing
<1> QED
  BY <1>4, <1>5, <1>6

-----------------------------------------------------------------------------
\* Steps that only add to the queue, or pass it on.

LEMMA Appends ==
  ASSUME NEW q \in Seq(Notices), NEW s \in Seq(Notices), NEW h, Follows(q, h),
         \A i \in 1..Len(s) : s[i].kind # "end"
  PROVE  Follows(q \o s, h) /\ q \o s \in Seq(Notices)
<1>1. /\ q \o s \in Seq(Notices) /\ Len(q \o s) = Len(q) + Len(s) /\ Len(q) \in Nat /\ Len(s) \in Nat
      /\ \A i \in 1..Len(q) + Len(s) : (q \o s)[i] = IF i <= Len(q) THEN q[i] ELSE s[i - Len(q)]
  BY ConcatProperties
<1> DEFINE r == q \o s
<1> HIDE DEF r
<1>2. \A i \in 1..Len(q) : r[i] = q[i]
  BY <1>1 DEF r
<1>3. \A i \in Len(q)+1..Len(r) : r[i].kind # "end"
  <2> TAKE i \in Len(q)+1..Len(r)
  <2>1. r[i] = s[i - Len(q)] /\ i - Len(q) \in 1..Len(s)
    BY <1>1 DEF r
  <2> QED
    BY <2>1
<1>4. Follows(r, h)
  <2> SUFFICES ASSUME NEW i \in 1..Len(r), r[i].kind = "end", NEW m \in r[i].msgs
               PROVE  m \in Handled \/ Offers(h, m) \/ \E j \in 1..i-1 : Offers(r[j], m)
    BY DEF Follows
  <2>1. i \in 1..Len(q) /\ r[i] = q[i]
    BY <1>1, <1>2, <1>3 DEF r
  <2>2. m \in Handled \/ Offers(h, m) \/ \E j \in 1..i-1 : Offers(q[j], m)
    BY <2>1 DEF Follows
  <2>3. \A j \in 1..i-1 : r[j] = q[j]
    BY <1>1, <1>2, <2>1
  <2> QED
    BY <2>2, <2>3
<1> QED
  BY <1>1, <1>4 DEF r

LEMMA Pushes ==
  ASSUME TypeInv, NEW n \in Notices, n.kind # "end", Push(n)
  PROVE  /\ queue' \in Seq(Notices)
         /\ \A h : Follows(queue, h) => Follows(queue', h)
<1>1. <<n>> \in Seq(Notices) /\ \A i \in 1..Len(<<n>>) : <<n>>[i].kind # "end"
  OBVIOUS
<1>2. queue' = queue \o <<n>>
  BY DEF Push, TypeInv
<1>3. ASSUME NEW h, Follows(queue, h) PROVE Follows(queue', h)
  BY <1>1, <1>2, <1>3, Appends DEF TypeInv
<1>4. queue' \in Seq(Notices)
  BY DEF Push, TypeInv
<1> QED
  BY <1>3, <1>4

LEMMA ContactsSent ==
  ASSUME TypeInv, NEW names \in SUBSET Contacts, SendContacts(names)
  PROVE  /\ queue' \in Seq(Notices) /\ subs' \subseteq Contacts
         /\ \A h : Follows(queue, h) => Follows(queue', h)
<1>1. CASE up
  <2> DEFINE s == Tell(names \ subs)
  <2>1. s \in Seq(Buddies) /\ Len(s) \in Nat
    BY TellType
  <2>2. s \in Seq(Notices) /\ \A i \in 1..Len(s) : s[i].kind # "end"
    <3>1. \A x \in Buddies : x \in Notices /\ x.kind # "end"
      BY DEF Notices, Buddies
    <3> HIDE DEF s
    <3>2. \A i \in 1..Len(s) : s[i] \in Buddies
      BY <2>1
    <3>3. s \in Seq(Notices)
      BY <2>1, <3>1, <3>2
    <3> QED
      BY <3>1, <3>2, <3>3
  <2>3. queue' = queue \o s /\ subs' = subs \cup names
    BY <1>1 DEF SendContacts
  <2> HIDE DEF s
  <2> QED
    BY <2>2, <2>3, Appends DEF TypeInv
<1>2. CASE ~up
  BY <1>2 DEF SendContacts, TypeInv
<1> QED
  BY <1>1, <1>2

\* The notice in the hand leaves, or another of the same kind takes its place.
LEMMA OutlivedKeeps ==
  ASSUME NEW n \in Notices, NEW who
  PROVE  /\ Outlived(n, who) \in Notices /\ Outlived(n, who).kind = n.kind
         /\ n.kind = "end" => Outlived(n, who).msgs = n.msgs
         /\ \A m : Offers(n, m) <=> Offers(Outlived(n, who), m)
<1>1. CASE n.kind = "buddy" /\ n.who \in who
  <2>1. n \in Buddies
    BY <1>1 DEF Notices, Rosters, Texts, EndNotices, Steps
  <2>2. Outlived(n, who) \in Buddies /\ Outlived(n, who).kind = "buddy"
    BY <1>1, <2>1 DEF Outlived, Buddies
  <2> QED
    BY <1>1, <2>2 DEF Notices, Offers
<1>2. CASE ~(n.kind = "buddy" /\ n.who \in who)
  BY <1>2 DEF Outlived, Offers
<1> QED
  BY <1>1, <1>2

LEMMA TypeStep ==
  ASSUME TypeInv, [Next]_vars PROVE TypeInv'
<1> USE DEF TypeInv, own, contacts, mode, line, server, hist, counts, Command, StartChange
<1>1. ASSUME NEW t \in Threads, SendStatus(t) \/ StoreStatus(t) PROVE TypeInv'
  BY <1>1 DEF SendStatus, StoreStatus
<1>2. ASSUME NEW t \in Threads, SendPrivacy(t) PROVE TypeInv'
  BY <1>2 DEF SendPrivacy, sendUpdatePrivacy
<1>3. ASSUME cmdSTATUS \/ cmdCHAT PROVE TypeInv'
  BY <1>3 DEF cmdSTATUS, cmdCHAT
<1>4. ASSUME cmdADDSLAVE PROVE TypeInv'
  <2>1. listed' \subseteq Contacts /\ SendContacts(listed')
    BY <1>4 DEF cmdADDSLAVE
  <2>2. queue' \in Seq(Notices) /\ subs' \subseteq Contacts
    BY <2>1, ContactsSent
  <2> QED
    BY <1>4, <2>1, <2>2 DEF cmdADDSLAVE
<1>5. ASSUME cmdDELSLAVE PROVE TypeInv'
  <2>1. PICK c \in listed :
            /\ listed' = listed \ {c} /\ subs' = IF up THEN subs \ {c} ELSE subs
            /\ hand' = Outlived(hand, {c})
            /\ queue' = [i \in 1 .. Len(queue) |-> Outlived(queue[i], {c})]
    BY <1>5 DEF cmdDELSLAVE
  <2>2. hand' \in Notices /\ \A i \in 1..Len(queue) : Outlived(queue[i], {c}) \in Notices
    BY <2>1, OutlivedKeeps
  <2>3. queue' \in Seq(Notices)
    <3> DEFINE F(i) == Outlived(queue[i], {c})
    <3>0. queue' = [i \in 1..Len(queue) |-> F(i)] /\ \A i \in 1..Len(queue) : F(i) \in Notices
      BY <2>1, <2>2
    <3> HIDE DEF F
    <3>1. queue' \in [1..Len(queue) -> Notices] /\ Len(queue) \in Nat
      BY <3>0
    <3> QED
      BY <3>1
  <2> QED
    BY <1>5, <2>1, <2>2, <2>3 DEF cmdDELSLAVE
<1>6. ASSUME Disconnects \/ networkReconnect PROVE TypeInv'
  <2>1. hand' = Outlived(hand, Contacts) /\ queue' = <<>> /\ subs' = {}
    BY <1>6 DEF Disconnects, Ends, networkReconnect
  <2>2. hand' \in Notices /\ queue' \in Seq(Notices)
    BY <2>1, OutlivedKeeps
  <2> QED
    BY <1>6, <2>1, <2>2 DEF Disconnects, Ends, networkReconnect
<1>7. ASSUME Connects PROVE TypeInv'
  <2>1. [kind |-> "personal"] \in Notices
    BY DEF Notices, Steps
  <2>2. queue' \in Seq(Notices)
    BY <1>7, <2>1 DEF Connects
  <2> QED
    BY <1>7, <2>2 DEF Connects
<1>8. ASSUME Takes PROVE TypeInv'
  <2>1. Head(queue) \in Notices /\ Tail(queue) \in Seq(Notices)
    BY <1>8, HeadTailProperties DEF Takes
  <2> QED
    BY <1>8, <2>1 DEF Takes
<1>9. \A k \in {"nothing", "personal", "ready", "contacts"} : [kind |-> k] \in Notices
  BY DEF Notices, Steps
<1>10. ASSUME Personal PROVE TypeInv'
  <2>1. queue' \in Seq(Notices) /\ subs' \subseteq Contacts
    BY <1>10, ContactsSent DEF Personal
  <2> QED
    BY <1>9, <1>10, <2>1 DEF Personal
<1>11. ASSUME Ready PROVE TypeInv'
  <2>1. queue' \in Seq(Notices)
    <3> DEFINE s == SetToSeq({[kind |-> "offline", msg |-> m] : m \in stored})
               r == [kind |-> "roster", item |-> item, privacy |-> srvPrivacy]
               e == [kind |-> "end", msgs |-> stored]
    <3>1. s \in Seq(Notices)
      BY StoredListed
    <3>2. r \in Notices /\ e \in Notices
      BY DEF Notices, Rosters, EndNotices
    <3>3. queue' = queue \/ queue' = queue \o <<r>> \o s \o <<e>>
      BY <1>11 DEF Ready
    <3> HIDE DEF s, r, e
    <3>4. queue \o <<r>> \in Seq(Notices) /\ <<e>> \in Seq(Notices)
      BY <3>2
    <3>5. queue \o <<r>> \o s \o <<e>> \in Seq(Notices)
      BY <3>1, <3>4, ConcatProperties
    <3> QED
      BY <3>3, <3>5
  <2> QED
    BY <1>9, <1>11, <2>1 DEF Ready, Nothing
<1>12. ASSUME Roster PROVE TypeInv'
  BY <1>9, <1>12 DEF Roster
<1>13. ASSUME AfterRoster PROVE TypeInv'
  <2>1. queue' \in Seq(Notices) /\ subs' \subseteq Contacts
    BY <1>13, ContactsSent DEF AfterRoster
  <2> QED
    BY <1>9, <1>13, <2>1 DEF AfterRoster, Nothing
<1>14. ASSUME Buddy PROVE TypeInv'
  BY <1>9, <1>14 DEF Buddy, Nothing
<1>15. ASSUME Message PROVE TypeInv'
  <2>1. alive' \in BOOLEAN
    BY <1>15 DEF Message, Reads, Displays
  <2> QED
    BY <1>9, <1>15, <2>1 DEF Message, Nothing
<1>16. ASSUME EndOfMessages PROVE TypeInv'
  BY <1>9, <1>16 DEF EndOfMessages, Nothing
<1>17. ASSUME ContactChanges PROVE TypeInv'
  <2>1. PICK c \in Contacts, to \in Reals :
            /\ real' = [real EXCEPT ![c] = to]
            /\ Push(Notice(c, to)) \/ queue' = queue
    BY <1>17 DEF ContactChanges
  <2>2. Notice(c, to) \in Notices /\ Notice(c, to).kind # "end"
    BY NoticeType DEF Notices, Notice
  <2>3. queue' \in Seq(Notices)
    BY <2>1, <2>2, Pushes
  <2> QED
    BY <1>17, <2>1, <2>3 DEF ContactChanges
<1>18. ASSUME SomebodyWrites PROVE TypeInv'
  <2>1. PICK m \in unsent : /\ unsent' = unsent \ {m}
                            /\ \/ Push([kind |-> "msg", msg |-> m]) /\ stored' = stored
                               \/ stored' = stored \cup {m} /\ queue' = queue
    BY <1>18 DEF SomebodyWrites
  <2>2. [kind |-> "msg", msg |-> m] \in Notices
    BY DEF Notices, Texts
  <2>3. queue' \in Seq(Notices)
    BY <2>1, <2>2, Pushes
  <2> QED
    BY <1>18, <2>1, <2>3 DEF SomebodyWrites
<1>19. CASE UNCHANGED vars
  BY <1>19 DEF vars
<1> QED
  BY <1>1, <1>2, <1>3, <1>4, <1>5, <1>6, <1>7, <1>8, <1>10, <1>11, <1>12, <1>13, <1>14,
     <1>15, <1>16, <1>17, <1>18, <1>19 DEF Next

-----------------------------------------------------------------------------
\* The order is kept.

\* A notice that is taken off the queue still comes before what followed it.
LEMMA TakesKeeps ==
  ASSUME TypeInv, Order, Takes PROVE Order'
<1> DEFINE q == Tail(queue)
           h == Head(queue)
<1>1. /\ queue # <<>> /\ hand.kind = "nothing" /\ queue' = q /\ hand' = h
      /\ UNCHANGED <<shown, swallowed, unread>>
  BY DEF Takes, Nothing, hist
<1>2. /\ Len(queue) \in Nat \ {0} /\ Len(q) = Len(queue) - 1 /\ h = queue[1]
      /\ \A i \in 1..Len(q) : q[i] = queue[i + 1]
  BY <1>1, HeadTailProperties, EmptySeq DEF TypeInv
<1>3. Handled' = Handled
  BY <1>1 DEF Handled
<1> HIDE DEF q, h
<1>4. AllSeen(hand)'
  <2> SUFFICES ASSUME h.kind = "end", NEW m \in h.msgs PROVE m \in Handled
    BY <1>1, <1>3 DEF AllSeen
  <2>1. 1 \in 1..Len(queue) /\ queue[1] = h
    BY <1>2
  <2>2. m \in Handled \/ Offers(hand, m) \/ \E j \in 1..0 : Offers(queue[j], m)
    BY <2>1 DEF Order, Follows
  <2> QED
    BY <1>1, <2>2 DEF Offers
<1>5. Follows(queue, hand)'
  <2> SUFFICES ASSUME NEW i \in 1..Len(q), q[i].kind = "end", NEW m \in q[i].msgs
               PROVE  m \in Handled \/ Offers(h, m) \/ \E j \in 1..i-1 : Offers(q[j], m)
    BY <1>1, <1>3 DEF Follows
  <2>1. i + 1 \in 1..Len(queue) /\ queue[i + 1] = q[i] /\ (i + 1) - 1 = i
    BY <1>2
  <2>2. m \in Handled \/ Offers(hand, m) \/ \E j \in 1..i : Offers(queue[j], m)
    BY <2>1 DEF Order, Follows
  <2>3. ASSUME NEW j \in 1..i, Offers(queue[j], m) PROVE Offers(h, m) \/ \E l \in 1..i-1 : Offers(q[l], m)
    <3>1. CASE j = 1
      BY <1>2, <2>3, <3>1
    <3>2. CASE j # 1
      <4>1. j - 1 \in 1..i-1 /\ j - 1 \in 1..Len(q) /\ (j - 1) + 1 = j
        BY <1>2, <3>2
      <4>2. q[j - 1] = queue[j]
        BY <1>2, <4>1
      <4> QED
        BY <2>3, <4>1, <4>2
    <3> QED
      BY <3>1, <3>2
  <2> QED
    BY <1>1, <2>2, <2>3 DEF Offers
<1> QED
  BY <1>1, <1>4, <1>5 DEF Order

\* The end of the stored messages is put behind them.
LEMMA ReadyKeeps ==
  ASSUME TypeInv, Order, Ready PROVE Order'
<1>1. hand.kind = "ready" /\ hand' = Nothing /\ UNCHANGED <<shown, swallowed, unread>>
  BY DEF Ready, Handles, hist
<1>2. Handled' = Handled /\ AllSeen(Nothing)
  BY <1>1 DEF Handled, AllSeen, Nothing
<1>3. Follows(queue, Nothing)
  BY <1>1 DEF Order, Follows, Offers
<1>4. CASE queue' = queue
  BY <1>1, <1>2, <1>3, <1>4 DEF Order, Follows, AllSeen
<1>5. CASE queue' # queue
  <2> DEFINE s == SetToSeq({[kind |-> "offline", msg |-> m] : m \in stored})
             r == [kind |-> "roster", item |-> item, privacy |-> srvPrivacy]
             e == [kind |-> "end", msgs |-> stored]
             p == queue \o <<r>>
             u == p \o s
  <2>1. queue' = u \o <<e>>
    BY <1>5 DEF Ready
  <2>2. s \in Seq(Notices) /\ Len(s) \in Nat /\ (\A i \in 1..Len(s) : s[i].kind = "offline")
        /\ \A m \in stored : \E i \in 1..Len(s) : Offers(s[i], m)
    BY StoredListed DEF TypeInv
  <2>3. <<r>> \in Seq(Notices) /\ <<e>> \in Seq(Notices) /\ <<e>>[1] = e /\ Len(<<e>>) = 1
        /\ \A i \in 1..Len(<<r>>) : <<r>>[i].kind # "end"
    BY DEF TypeInv, Notices, Rosters, EndNotices
  <2>4. e.kind = "end" /\ e.msgs = stored
    OBVIOUS
  <2> HIDE DEF s, r, e
  <2>5. Follows(p, Nothing) /\ p \in Seq(Notices)
    BY <1>3, <2>3, Appends DEF TypeInv
  <2> HIDE DEF p
  <2>6. Follows(u, Nothing) /\ u \in Seq(Notices)
    BY <2>2, <2>5, Appends
  <2>7. \A m \in stored : \E j \in 1..Len(u) : Offers(u[j], m)
    <3> SUFFICES ASSUME NEW m \in stored PROVE \E j \in 1..Len(u) : Offers(u[j], m)
      OBVIOUS
    <3>1. PICK i \in 1..Len(s) : Offers(s[i], m)
      BY <2>2
    <3>2. /\ Len(p) \in Nat /\ Len(u) = Len(p) + Len(s)
          /\ \A j \in 1..Len(p) + Len(s) : u[j] = IF j <= Len(p) THEN p[j] ELSE s[j - Len(p)]
      BY <2>2, <2>5, ConcatProperties
    <3>3. Len(p) + i \in 1..Len(u) /\ ~(Len(p) + i <= Len(p)) /\ (Len(p) + i) - Len(p) = i
      BY <2>2, <3>2
    <3>4. u[Len(p) + i] = s[i]
      BY <3>2, <3>3
    <3> QED
      BY <3>1, <3>3, <3>4
  <2> HIDE DEF u
  <2> DEFINE w == u \o <<e>>
  <2>8. /\ Len(u) \in Nat /\ Len(w) = Len(u) + 1
        /\ \A j \in 1..Len(u) + 1 : w[j] = IF j <= Len(u) THEN u[j] ELSE <<e>>[j - Len(u)]
    BY <2>3, <2>6, ConcatProperties
  <2> HIDE DEF w
  <2>9. (\A j \in 1..Len(u) : w[j] = u[j]) /\ w[Len(u) + 1] = e
    <3>1. Len(u) + 1 \in 1..Len(u) + 1 /\ ~(Len(u) + 1 <= Len(u)) /\ (Len(u) + 1) - Len(u) = 1
      BY <2>8
    <3>2. w[Len(u) + 1] = e
      BY <2>3, <2>8, <3>1
    <3> QED
      BY <2>8, <3>2
  <2>10. Follows(w, Nothing)
    <3> SUFFICES ASSUME NEW i \in 1..Len(w), w[i].kind = "end", NEW m \in w[i].msgs
                 PROVE  m \in Handled \/ Offers(Nothing, m) \/ \E j \in 1..i-1 : Offers(w[j], m)
      BY DEF Follows
    <3>1. CASE i = Len(u) + 1
      <4>1. PICK j \in 1..Len(u) : Offers(u[j], m)
        BY <2>4, <2>7, <2>9, <3>1
      <4> QED
        BY <2>8, <2>9, <3>1, <4>1
    <3>2. CASE i \in 1..Len(u)
      <4>1. m \in Handled \/ Offers(Nothing, m) \/ \E j \in 1..i-1 : Offers(u[j], m)
        BY <2>6, <2>9, <3>2 DEF Follows
      <4>2. \A j \in 1..i-1 : w[j] = u[j]
        BY <2>8, <2>9, <3>2
      <4> QED
        BY <4>1, <4>2
    <3> QED
      BY <2>8, <3>1, <3>2
  <2>11. queue' = w /\ hand' = Nothing
    BY <1>1, <2>1 DEF w
  <2> QED
    BY <1>2, <2>10, <2>11 DEF Order, Follows, AllSeen
<1> QED
  BY <1>4, <1>5

LEMMA DeleteKeeps ==
  ASSUME TypeInv, Order, cmdDELSLAVE PROVE Order'
<1>1. PICK c \in listed : /\ hand' = Outlived(hand, {c})
                          /\ queue' = [i \in 1 .. Len(queue) |-> Outlived(queue[i], {c})]
  BY DEF cmdDELSLAVE
<1>2. Len(queue) \in Nat /\ Len(queue') = Len(queue)
      /\ \A i \in 1..Len(queue) : queue[i] \in Notices /\ queue'[i] = Outlived(queue[i], {c})
  BY <1>1 DEF TypeInv
<1>3. Handled' = Handled
  BY DEF cmdDELSLAVE, Handled, hist
<1>4. \A i \in 1..Len(queue) : /\ queue'[i].kind = queue[i].kind
                               /\ queue[i].kind = "end" => queue'[i].msgs = queue[i].msgs
                               /\ \A m : Offers(queue[i], m) <=> Offers(queue'[i], m)
  BY <1>2, OutlivedKeeps
<1>5. /\ hand'.kind = hand.kind /\ (hand.kind = "end" => hand'.msgs = hand.msgs)
      /\ \A m : Offers(hand, m) <=> Offers(hand', m)
  BY <1>1, OutlivedKeeps DEF TypeInv
<1>6. AllSeen(hand)'
  BY <1>3, <1>5 DEF Order, AllSeen
<1>7. Follows(queue, hand)'
  <2> SUFFICES ASSUME NEW i \in 1..Len(queue'), queue'[i].kind = "end", NEW m \in queue'[i].msgs
               PROVE  m \in Handled \/ Offers(hand', m) \/ \E j \in 1..i-1 : Offers(queue'[j], m)
    BY <1>3 DEF Follows
  <2>1. i \in 1..Len(queue) /\ queue[i].kind = "end" /\ m \in queue[i].msgs
    BY <1>2, <1>4
  <2>2. m \in Handled \/ Offers(hand, m) \/ \E j \in 1..i-1 : Offers(queue[j], m)
    BY <2>1 DEF Order, Follows
  <2>3. \A j \in 1..i-1 : j \in 1..Len(queue)
    BY <1>2, <2>1
  <2> QED
    BY <1>4, <1>5, <2>2, <2>3
<1> QED
  BY <1>6, <1>7 DEF Order

\* The hand is emptied of a notice that offers no message, or takes up the next
\* part of it.
LEMMA LetsGo ==
  ASSUME Order, hand.kind # "offline", hand'.kind \notin {"end", "offline"},
         UNCHANGED <<shown, swallowed, unread>>,
         Follows(queue, hand) => Follows(queue', hand)
  PROVE  Order'
<1>1. Handled' = Handled
  BY DEF Handled
<1>2. Follows(queue', hand)
  BY DEF Order
<1> QED
  BY <1>1, <1>2 DEF Order, Follows, AllSeen, Offers

LEMMA SameOrder ==
  ASSUME Order, UNCHANGED <<hand, shown, swallowed, unread>>,
         Follows(queue, hand) => Follows(queue', hand)
  PROVE  Order'
<1>1. Handled' = Handled
  BY DEF Handled
<1> QED
  BY <1>1 DEF Order, Follows, AllSeen

LEMMA OrderStep ==
  ASSUME TypeInv, alive, alive', Order, [Next]_vars PROVE Order'
<1> USE DEF own, contacts, mode, line, server, hist, counts, Command, Handles, Nothing
<1>1. ASSUME NEW t \in Threads, SendStatus(t) \/ SendPrivacy(t) \/ StoreStatus(t) PROVE Order'
  BY <1>1, SameOrder DEF SendStatus, SendPrivacy, StoreStatus
<1>2. ASSUME cmdSTATUS \/ cmdCHAT PROVE Order'
  BY <1>2, SameOrder DEF cmdSTATUS, cmdCHAT
<1>3. ASSUME cmdADDSLAVE PROVE Order'
  <2>1. listed' \in SUBSET Contacts /\ SendContacts(listed')
    BY <1>3 DEF cmdADDSLAVE, TypeInv
  <2>2. Follows(queue, hand) => Follows(queue', hand)
    BY <2>1, ContactsSent
  <2> QED
    BY <1>3, <2>2, SameOrder DEF cmdADDSLAVE
<1>4. ASSUME cmdDELSLAVE PROVE Order'
  BY <1>4, DeleteKeeps
<1>5. ASSUME Disconnects \/ networkReconnect PROVE Order'
  <2>1. hand' = Outlived(hand, Contacts) /\ queue' = <<>> /\ UNCHANGED <<shown, swallowed, unread>>
    BY <1>5 DEF Disconnects, Ends, networkReconnect
  <2>2. hand'.kind = hand.kind /\ (hand.kind = "end" => hand'.msgs = hand.msgs)
    BY <2>1, OutlivedKeeps DEF TypeInv
  <2>3. Handled' = Handled
    BY <2>1 DEF Handled
  <2> QED
    BY <2>1, <2>2, <2>3 DEF Order, Follows, AllSeen
<1>6. ASSUME Connects PROVE Order'
  <2>1. queue' = <<[kind |-> "personal"]>> /\ UNCHANGED <<hand, shown, swallowed, unread>>
    BY <1>6 DEF Connects
  <2>2. Follows(queue', hand)
    BY <2>1 DEF Follows
  <2> QED
    BY <2>1, <2>2, SameOrder
<1>7. ASSUME Takes PROVE Order'
  BY <1>7, TakesKeeps
<1>8. ASSUME Personal PROVE Order'
  <2>1. Follows(queue, hand) => Follows(queue', hand)
    BY <1>8, ContactsSent DEF Personal, TypeInv
  <2> QED
    BY <1>8, <2>1, LetsGo DEF Personal
<1>9. ASSUME Ready PROVE Order'
  BY <1>9, ReadyKeeps
<1>10. ASSUME Roster PROVE Order'
  BY <1>10, LetsGo DEF Roster
<1>11. ASSUME AfterRoster PROVE Order'
  <2>1. Follows(queue, hand) => Follows(queue', hand)
    BY <1>11, ContactsSent DEF AfterRoster, TypeInv
  <2> QED
    BY <1>11, <2>1, LetsGo DEF AfterRoster
<1>12. ASSUME Buddy PROVE Order'
  BY <1>12, LetsGo DEF Buddy
<1>13. ASSUME Message PROVE Order'
  <2>1. /\ hand.kind \in {"msg", "offline"} /\ hand' = Nothing /\ queue' = queue
        /\ Handled \subseteq Handled' /\ hand.msg \in Handled'
    BY <1>13 DEF Message, Reads, Displays, Handled
  <2>2. AllSeen(hand)'
    BY <2>1 DEF AllSeen
  <2>3. Follows(queue, hand)'
    <3> SUFFICES ASSUME NEW i \in 1..Len(queue), queue[i].kind = "end", NEW m \in queue[i].msgs
                 PROVE  m \in Handled' \/ \E j \in 1..i-1 : Offers(queue[j], m)
      BY <2>1 DEF Follows
    <3>1. m \in Handled \/ Offers(hand, m) \/ \E j \in 1..i-1 : Offers(queue[j], m)
      BY DEF Order, Follows
    <3> QED
      BY <2>1, <3>1 DEF Offers
  <2> QED
    BY <2>2, <2>3 DEF Order
<1>14. ASSUME EndOfMessages PROVE Order'
  BY <1>14, LetsGo DEF EndOfMessages
<1>15. ASSUME ContactChanges PROVE Order'
  <2>1. PICK c \in Contacts, to \in Reals : Push(Notice(c, to)) \/ queue' = queue
    BY <1>15 DEF ContactChanges
  <2>2. Notice(c, to) \in Notices /\ Notice(c, to).kind # "end"
    BY NoticeType DEF Notices, Notice
  <2>3. Follows(queue, hand) => Follows(queue', hand)
    BY <2>1, <2>2, Pushes
  <2> QED
    BY <1>15, <2>3, SameOrder DEF ContactChanges
<1>16. ASSUME SomebodyWrites PROVE Order'
  <2>1. PICK m \in unsent : Push([kind |-> "msg", msg |-> m]) \/ queue' = queue
    BY <1>16 DEF SomebodyWrites
  <2>2. [kind |-> "msg", msg |-> m] \in Notices /\ [kind |-> "msg", msg |-> m].kind # "end"
    BY DEF Notices, Texts, TypeInv
  <2>3. Follows(queue, hand) => Follows(queue', hand)
    BY <2>1, <2>2, Pushes
  <2> QED
    BY <1>16, <2>3, SameOrder DEF SomebodyWrites
<1>17. CASE UNCHANGED vars
  BY <1>17, SameOrder DEF vars
<1> QED
  BY <1>1, <1>2, <1>3, <1>4, <1>5, <1>6, <1>7, <1>8, <1>9, <1>10, <1>11, <1>12, <1>13,
     <1>14, <1>15, <1>16, <1>17 DEF Next

\* Only the end of the stored messages deletes any.
LEMMA LostStep ==
  ASSUME IInv, [Next]_vars PROVE StoredNotLost'
<1> USE DEF IInv, StoredNotLost, own, contacts, mode, line, server, hist, counts, Command, Handles
<1>1. ASSUME EndOfMessages PROVE StoredNotLost'
  BY <1>1 DEF EndOfMessages, Order, AllSeen, Handled
<1>2. ASSUME Message PROVE StoredNotLost'
  BY <1>2 DEF Message, Reads, Displays
<1>3. ASSUME UNCHANGED <<deleted, shown, swallowed, unread>> PROVE StoredNotLost'
  BY <1>3
<1>4. ASSUME NEW t \in Threads, SendStatus(t) \/ SendPrivacy(t) \/ StoreStatus(t)
      PROVE  UNCHANGED <<deleted, shown, swallowed, unread>>
  BY <1>4 DEF SendStatus, SendPrivacy, StoreStatus
<1>5. ASSUME cmdSTATUS \/ cmdADDSLAVE \/ cmdDELSLAVE \/ cmdCHAT
      PROVE  UNCHANGED <<deleted, shown, swallowed, unread>>
  BY <1>5 DEF cmdSTATUS, cmdADDSLAVE, cmdDELSLAVE, cmdCHAT
<1>6. ASSUME Disconnects \/ networkReconnect \/ Connects \/ Takes
      PROVE  UNCHANGED <<deleted, shown, swallowed, unread>>
  BY <1>6 DEF Disconnects, networkReconnect, Connects, Takes
<1>7. ASSUME Personal \/ Ready \/ Roster \/ AfterRoster \/ Buddy
      PROVE  UNCHANGED <<deleted, shown, swallowed, unread>>
  BY <1>7 DEF Personal, Ready, Roster, AfterRoster, Buddy
<1>8. ASSUME ContactChanges \/ SomebodyWrites
      PROVE  UNCHANGED <<deleted, shown, swallowed, unread>>
  BY <1>8 DEF ContactChanges, SomebodyWrites
<1>9. CASE UNCHANGED vars
  BY <1>9 DEF vars
<1> QED
  BY <1>1, <1>2, <1>3, <1>4, <1>5, <1>6, <1>7, <1>8, <1>9 DEF Next

LEMMA InitIInv == Init => IInv
<1> SUFFICES ASSUME Init PROVE IInv
  OBVIOUS
<1>1. TypeInv
  <2>1. Nothing \in Notices /\ <<>> \in Seq(Notices)
    BY DEF Nothing, Notices, Steps
  <2>2. {Off, [status |-> "ONLINE", client |-> "crypt"]} \subseteq Reals
    BY DEF Reals
  <2> QED
    BY <2>1, <2>2 DEF Init, TypeInv
<1>2. StoredNotLost /\ Order
  BY DEF Init, StoredNotLost, Order, Follows, AllSeen, Nothing
<1> QED
  BY <1>1, <1>2 DEF IInv

LEMMA NextIInv == IInv /\ [Next]_vars => IInv'
<1> SUFFICES ASSUME IInv, [Next]_vars PROVE IInv'
  OBVIOUS
<1>1. TypeInv' /\ StoredNotLost'
  BY TypeStep, LostStep DEF IInv
<1>2. alive' => alive
  BY DEF Next, vars, SendStatus, SendPrivacy, StoreStatus, cmdSTATUS, cmdADDSLAVE, cmdDELSLAVE,
         cmdCHAT, Command, Disconnects, Ends, networkReconnect, Connects, Takes, Personal, Ready,
         Roster, AfterRoster, Buddy, Message, EndOfMessages, Handles, ContactChanges,
         SomebodyWrites
<1>3. alive' => Order'
  BY <1>2, OrderStep DEF IInv
<1> QED
  BY <1>1, <1>3 DEF IInv

-----------------------------------------------------------------------------
\* The server deletes no stored message that the daemon has not read: offline
\* messages are answered before the notice that ends them is, however sessions
\* end and begin, contacts change and commands run in between.
THEOREM KeptUntilRead == Spec => []StoredNotLost
<1>1. IInv => StoredNotLost
  BY DEF IInv
<1> QED
  BY <1>1, InitIInv, NextIInv, PTL DEF Spec
-----------------------------------------------------------------------------
\* The daemon's own status.  A session begins with the personal notice, the
\* contacts and the status, then the roster: one after the other.

Statuses == {"OFFLINE", "ONLINE", "AWAY", "INVISIBLE"}
Stages == {"personal", "ready", "roster", "contacts"}

OwnTypes ==
    /\ cs \in [Threads -> [at : {"idle", "send", "privacy", "store"}, arg : Statuses]]
    /\ status \in Statuses /\ privacyId \in BOOLEAN
    /\ up \in BOOLEAN /\ rostered \in BOOLEAN /\ overlap \in BOOLEAN

Stage ==
    /\ cs["net"].at # "idle" =>
         \/ hand.kind = "ready"
         \/ hand.kind = "contacts" /\ cs["net"].arg = "INVISIBLE"
    /\ ~overlap => \E t \in Threads : cs[t].at = "idle"
    /\ rostered => up
    /\ up =>
         /\ \A i, j \in 1..Len(queue) : queue[i].kind \in Stages /\ queue[j].kind \in Stages => i = j
         /\ hand.kind \in Stages \/ rostered => \A i \in 1..Len(queue) : queue[i].kind \notin Stages
         /\ rostered => hand.kind \notin Stages
         /\ \A i \in 1..Len(queue) : queue[i].kind \notin {"ready", "contacts"}

\* The status that was sent last, and the one the privacy setting is for.
Told == IF cs["net"].at \in {"privacy", "store"} THEN cs["net"].arg
        ELSE IF cs["ctl"].at \in {"privacy", "store"} THEN cs["ctl"].arg ELSE status
Meant == IF cs["net"].at = "store" THEN cs["net"].arg
         ELSE IF cs["ctl"].at = "store" THEN cs["ctl"].arg ELSE status

Waits(n) == n = hand \/ \E i \in 1..Len(queue) : queue[i] = n

\* What a roster that is on its way says of the setting: until the first one
\* has been read nobody but the server can change it.
Setting(n) ==
    /\ n.item
    /\ IF privacyId THEN n.privacy = 4 /\ Meant # "INVISIBLE" => srvPrivacy = 4
       ELSE n.privacy = srvPrivacy
Matches == srvStatus = Told /\ (Meant = "INVISIBLE" <=> srvPrivacy = 3)

OwnFollows ==
    /\ \A t \in Threads :
         /\ cs[t].at \in {"privacy", "store"} => srvStatus = cs[t].arg
         /\ privacyId /\ cs[t].at = "store" /\ cs[t].arg = "INVISIBLE" => srvPrivacy = 3
    /\ \/ \E n \in {x \in Steps : x.kind = "personal"} : Waits(n)
       \/ cs["net"].at = "send"
       \/ Told = "INVISIBLE"
       \/ srvStatus = Told
    /\ \A n \in Rosters : Waits(n) => Setting(n)
    /\ rostered \/ hand.kind = "contacts" =>
         /\ privacyId
         /\ cs["net"].at \notin {"send", "privacy"} => Matches

OwnInv == OwnTypes /\ Stage /\ (up /\ item /\ ~overlap => OwnFollows)

-----------------------------------------------------------------------------
\* The contacts.  The notices on their way, with the one in the hand first.
On(h, q) == [i \in 1..Len(q) + 1 |-> IF i = 1 THEN h ELSE q[i - 1]]

\* A notice about a contact, of this session and this subscription.
Is(n, c) == n.kind = "buddy" /\ n.who = c /\ n.fresh
Goes(n, c) == Is(n, c) /\ n.sub = "OFFGOING"
Crypt(n, c) == Is(n, c) /\ "crypt" \in n.tlvs
Other(n, c) == Is(n, c) /\ ~Goes(n, c) /\ ~Crypt(n, c)

\* What comes after a place where c was a client that decrypts: before any other
\* client of c, c goes offline; the last word is what c really is.
After(ln, c, i, r) ==
    /\ \A j \in DOMAIN ln : j > i /\ Other(ln[j], c) =>
         \E k \in DOMAIN ln : i < k /\ k < j /\ Goes(ln[k], c)
    /\ r.client # "crypt" => \E k \in DOMAIN ln : i < k /\ Goes(ln[k], c)
Tells(ln, c, r) ==
    /\ \A i \in DOMAIN ln : Crypt(ln[i], c) => After(ln, c, i, r)
    /\ \A i \in DOMAIN ln : Is(ln[i], c) =>
         ln[i] = Notice(c, r) \/ \E j \in DOMAIN ln : i < j /\ Is(ln[j], c)

\* What the daemon takes a contact for, unless it has missed something.
Knows(ln, c, r, s, f, sub) ==
    /\ ~sub => s = "OFFLINE" /\ f = "none"
    /\ sub => s = r.status \/ \E i \in DOMAIN ln : Is(ln[i], c)
    /\ f = "crypt" => After(ln, c, 0, r)

ContactTypes ==
    /\ st \in [Contacts -> Statuses] /\ fprint \in [Contacts -> {"crypt", "none"}]
    /\ up \in BOOLEAN /\ rostered \in BOOLEAN /\ missed \subseteq Contacts
Subscribed ==
    /\ subs \subseteq listed
    /\ ~up => subs = {}
    /\ rostered => up /\ listed \subseteq subs
Contact(c) ==
    LET ln == On(hand, queue)
    IN  /\ \A i \in DOMAIN ln : Is(ln[i], c) => c \in subs
        /\ Tells(ln, c, real[c])
        /\ c \in listed \ missed => Knows(ln, c, real[c], st[c], fprint[c], c \in subs)

ContactInv == ContactTypes /\ Subscribed /\ \A c \in Contacts : Contact(c)

\* What waits in a queue, or is handled, that belongs to the sign-in.
LEMMA WaitsKind ==
  ASSUME NEW n, Waits(n)
  PROVE  n = hand \/ \E i \in 1..Len(queue) : n = queue[i]
  BY DEF Waits

\* Steps that leave the sign-in and the status alone.
LEMMA ElsewhereOwn ==
  ASSUME OwnInv, UNCHANGED <<status, cs, privacyId, srvStatus, srvPrivacy, item, up, rostered, overlap>>,
         hand' = hand \/ (hand.kind \notin Stages /\ hand'.kind \notin Stages),
         \A i \in 1..Len(queue') : queue'[i].kind \in Stages => i \in 1..Len(queue) /\ queue'[i] = queue[i],
         \A i \in 1..Len(queue) : queue[i].kind \in Stages => i \in 1..Len(queue') /\ queue'[i] = queue[i]
  PROVE  OwnInv'
<1>1. OwnTypes'
  BY DEF OwnInv, OwnTypes
<1>2. Stage'
  <2>1. Stage /\ (cs["net"].at # "idle" => hand' = hand)
    BY DEF OwnInv, Stage, Stages
  <2>2. hand'.kind \in Stages => hand' = hand
    OBVIOUS
  <2>3. /\ cs["net"].at # "idle" =>
             hand'.kind = "ready" \/ (hand'.kind = "contacts" /\ cs["net"].arg = "INVISIBLE")
        /\ ~overlap => \E t \in Threads : cs[t].at = "idle"
        /\ rostered => up
    BY <2>1 DEF Stage
  <2>4. ASSUME up
        PROVE  /\ \A i, j \in 1..Len(queue') : queue'[i].kind \in Stages /\ queue'[j].kind \in Stages => i = j
               /\ hand'.kind \in Stages \/ rostered => \A i \in 1..Len(queue') : queue'[i].kind \notin Stages
               /\ rostered => hand'.kind \notin Stages
               /\ \A i \in 1..Len(queue') : queue'[i].kind \notin {"ready", "contacts"}
    <3>1. \A i, j \in 1..Len(queue) : queue[i].kind \in Stages /\ queue[j].kind \in Stages => i = j
      BY <2>1, <2>4 DEF Stage
    <3>2. hand.kind \in Stages \/ rostered => \A i \in 1..Len(queue) : queue[i].kind \notin Stages
      BY <2>1, <2>4 DEF Stage
    <3>3. rostered => hand.kind \notin Stages
      BY <2>1, <2>4 DEF Stage
    <3>4. \A i, j \in 1..Len(queue') : queue'[i].kind \in Stages /\ queue'[j].kind \in Stages => i = j
      BY <3>1
    <3>5. hand'.kind \in Stages \/ rostered => \A i \in 1..Len(queue') : queue'[i].kind \notin Stages
      BY <2>2, <3>2
    <3>6. \A i \in 1..Len(queue') : queue'[i].kind \notin {"ready", "contacts"}
      BY <2>1, <2>4 DEF Stage, Stages
    <3> QED
      BY <2>2, <3>3, <3>4, <3>5, <3>6
  <2> QED
    BY <2>3, <2>4 DEF Stage
<1>3. ASSUME up, item, ~overlap PROVE OwnFollows'
  <2>1. OwnFollows
    BY <1>3 DEF OwnInv
  <2>2. Told' = Told /\ Meant' = Meant /\ (Matches' <=> Matches) /\ \A n : Setting(n)' <=> Setting(n)
    BY DEF Told, Meant, Matches, Setting
  <2>3. \A n : n.kind \in Stages => (Waits(n)' <=> Waits(n))
    BY DEF Waits
  <2>4. \A n \in {x \in Steps : x.kind = "personal"} : n.kind \in Stages
    BY DEF Stages
  <2>5. \A n \in Rosters : n.kind \in Stages
    BY DEF Stages, Rosters
  <2>6. (\E n \in {x \in Steps : x.kind = "personal"} : Waits(n))
        => (\E n \in {x \in Steps : x.kind = "personal"} : Waits(n)')
    BY <2>3, <2>4
  <2>7. hand'.kind = "contacts" => hand.kind = "contacts"
    BY DEF Stages
  <2>8. \/ (\E n \in {x \in Steps : x.kind = "personal"} : Waits(n)')
        \/ cs["net"].at = "send"
        \/ Told = "INVISIBLE"
        \/ srvStatus = Told
    BY <2>1, <2>6 DEF OwnFollows
  <2>9. \A n \in Rosters : Waits(n)' => Setting(n)'
    BY <2>1, <2>2, <2>3, <2>5 DEF OwnFollows
  <2>10. /\ \A t \in Threads :
              /\ cs[t].at \in {"privacy", "store"} => srvStatus = cs[t].arg
              /\ privacyId /\ cs[t].at = "store" /\ cs[t].arg = "INVISIBLE" => srvPrivacy = 3
         /\ rostered \/ hand'.kind = "contacts" =>
              privacyId /\ (cs["net"].at \notin {"send", "privacy"} => Matches)
    BY <2>1, <2>7 DEF OwnFollows
  <2> QED
    BY <2>2, <2>8, <2>9, <2>10 DEF OwnFollows
<1> QED
  BY <1>1, <1>2, <1>3 DEF OwnInv

\* The three steps of a change of the status, in either thread.
LEMMA OneChange ==
  ASSUME OwnInv, ~overlap, NEW t \in Threads, cs[t].at # "idle"
  PROVE  /\ \A u \in Threads \ {t} : cs[u].at = "idle"
         /\ Told = IF cs[t].at \in {"privacy", "store"} THEN cs[t].arg ELSE status
         /\ Meant = IF cs[t].at = "store" THEN cs[t].arg ELSE status
<1>1. PICK u \in Threads : cs[u].at = "idle"
  BY DEF OwnInv, Stage
<1>2. CASE t = "net"
  BY <1>1, <1>2 DEF Threads, Told, Meant
<1>3. CASE t = "ctl"
  BY <1>1, <1>3 DEF Threads, Told, Meant
<1> QED
  BY <1>2, <1>3 DEF Threads

LEMMA SendStatusOwn ==
  ASSUME OwnInv, NEW t \in Threads, SendStatus(t) \/ SendPrivacy(t) \/ StoreStatus(t), TypeInv
  PROVE  OwnInv'
<1>1. /\ cs[t].at # "idle" /\ UNCHANGED <<privacyId, item, up, rostered, overlap, hand, queue>>
      /\ \A u \in Threads \ {t} : cs'[u] = cs[u]
      /\ cs \in [Threads -> [at : {"idle", "send", "privacy", "store"}, arg : Statuses]]
  BY DEF SendStatus, SendPrivacy, StoreStatus, line, hist, server, OwnInv, OwnTypes
<1>2. /\ SendStatus(t) => /\ cs[t].at = "send" /\ cs'[t].at = "privacy" /\ cs'[t].arg = cs[t].arg
                          /\ up => srvStatus' = cs[t].arg
                          /\ UNCHANGED <<status, srvPrivacy>>
      /\ SendPrivacy(t) => /\ cs[t].at = "privacy" /\ cs'[t].at = "store" /\ cs'[t].arg = cs[t].arg
                           /\ up /\ item /\ privacyId =>
                                srvPrivacy' = IF cs[t].arg = "INVISIBLE" THEN 3
                                              ELSE IF status = "INVISIBLE" THEN 4 ELSE srvPrivacy
                           /\ ~privacyId => srvPrivacy' = srvPrivacy
                           /\ UNCHANGED <<status, srvStatus>>
      /\ StoreStatus(t) => /\ cs[t].at = "store" /\ cs'[t] = Idle /\ status' = cs[t].arg
                           /\ UNCHANGED <<srvStatus, srvPrivacy>>
  BY <1>1 DEF SendStatus, SendPrivacy, StoreStatus, sendUpdatePrivacy, own, server
<1>3. OwnTypes'
  <2>1. cs' \in [Threads -> [at : {"idle", "send", "privacy", "store"}, arg : Statuses]]
    BY <1>1 DEF SendStatus, SendPrivacy, StoreStatus, Idle, Statuses
  <2>2. status' \in Statuses
    BY <1>1, <1>2 DEF OwnInv, OwnTypes
  <2> QED
    BY <1>1, <2>1, <2>2 DEF OwnInv, OwnTypes
<1>4. Stage'
  <2>1. cs'["net"].at # "idle" => cs["net"].at # "idle" /\ cs'["net"].arg = cs["net"].arg
    BY <1>1, <1>2 DEF Threads, Idle
  <2>2. ~overlap => \E u \in Threads : cs'[u].at = "idle"
    BY <1>1, OneChange DEF OwnInv, Stage, Idle, Threads
  <2> QED
    BY <1>1, <2>1, <2>2 DEF OwnInv, Stage
<1>5. ASSUME up, item, ~overlap PROVE OwnFollows'
  <2>1. OwnFollows
    BY <1>5 DEF OwnInv
  <2>2. /\ \A u \in Threads \ {t} : cs[u].at = "idle" /\ cs'[u].at = "idle"
        /\ Told = IF cs[t].at \in {"privacy", "store"} THEN cs[t].arg ELSE status
        /\ Meant = IF cs[t].at = "store" THEN cs[t].arg ELSE status
    BY <1>1, <1>5, OneChange
  <2>3. /\ Told' = IF cs'[t].at \in {"privacy", "store"} THEN cs'[t].arg ELSE status'
        /\ Meant' = IF cs'[t].at = "store" THEN cs'[t].arg ELSE status'
    BY <2>2 DEF Told, Meant, Threads
  <2>4. srvStatus' = Told' /\ (privacyId /\ Meant = "INVISIBLE" => Meant' = "INVISIBLE" \/ srvPrivacy' = 4)
    BY <1>2, <1>5, <2>1, <2>2, <2>3 DEF OwnFollows, Idle
  <2>5. \A n : Waits(n)' <=> Waits(n)
    BY <1>1 DEF Waits
  <2>6. \A u \in Threads :
          /\ cs'[u].at \in {"privacy", "store"} => srvStatus' = cs'[u].arg
          /\ privacyId /\ cs'[u].at = "store" /\ cs'[u].arg = "INVISIBLE" => srvPrivacy' = 3
    BY <1>2, <1>5, <2>2, <2>3, <2>4 DEF Idle
  <2>7. /\ privacyId /\ Meant' # "INVISIBLE" =>
               (srvPrivacy' = srvPrivacy /\ Meant # "INVISIBLE") \/ srvPrivacy' = 4
        /\ ~privacyId => srvPrivacy' = srvPrivacy
    BY <1>2, <1>5, <2>1, <2>2, <2>3 DEF OwnFollows, Idle
  <2>8. \A n \in Rosters : Waits(n)' => Setting(n)'
    BY <1>1, <2>1, <2>5, <2>7 DEF OwnFollows, Setting
  <2>0. rostered \/ hand.kind = "contacts" => privacyId
    BY <2>1 DEF OwnFollows
  <2>9. ASSUME (rostered \/ hand.kind = "contacts"), cs'["net"].at \notin {"send", "privacy"}
        PROVE  Meant' = "INVISIBLE" <=> srvPrivacy' = 3
    <3>0. privacyId
      BY <2>0, <2>9
    <3>1. CASE cs["net"].at \notin {"send", "privacy"}
      <4>1. Meant = "INVISIBLE" <=> srvPrivacy = 3
        BY <2>1, <2>9, <3>1 DEF OwnFollows, Matches
      <4> QED
        BY <1>2, <1>5, <2>1, <2>2, <2>3, <3>0, <4>1 DEF OwnFollows, Idle
    <3>2. CASE cs["net"].at \in {"send", "privacy"}
      <4>1. t = "net"
        BY <2>2, <3>2 DEF Threads
      <4>2. SendPrivacy("net") /\ cs["net"].at = "privacy"
        BY <1>2, <2>9, <3>2, <4>1
      <4>3. hand.kind = "contacts" /\ cs["net"].arg = "INVISIBLE"
        BY <1>5, <4>2, <2>9 DEF OwnInv, Stage, Stages
      <4> QED
        BY <1>2, <1>5, <2>3, <3>0, <4>1, <4>2, <4>3
    <3> QED
      BY <3>1, <3>2
  <2> QED
    BY <1>1, <2>0, <2>4, <2>6, <2>8, <2>9 DEF OwnFollows, Matches
<1> QED
  BY <1>1, <1>3, <1>4, <1>5 DEF OwnInv

\* A change of the status begins, unless another is under way.
LEMMA BeginsOwn ==
  ASSUME OwnInv, NEW t \in Threads, NEW s \in Statuses, cs[t].at = "idle",
         StartChange(t, s), Overlaps(t)
  PROVE  /\ cs' \in [Threads -> [at : {"idle", "send", "privacy", "store"}, arg : Statuses]]
         /\ cs'[t] = [at |-> "send", arg |-> s] /\ \A u \in Threads \ {t} : cs'[u] = cs[u]
         /\ overlap' \in BOOLEAN
         /\ ~overlap' => ~overlap /\ \A u \in Threads \ {t} : cs[u].at = "idle"
         /\ ~overlap' => \E u \in Threads : cs'[u].at = "idle"
<1>1. cs \in [Threads -> [at : {"idle", "send", "privacy", "store"}, arg : Statuses]] /\ overlap \in BOOLEAN
  BY DEF OwnInv, OwnTypes
<1>2. cs' = [cs EXCEPT ![t] = [at |-> "send", arg |-> s]]
  BY DEF StartChange
<1>3. overlap' = (overlap \/ \E v \in Threads \ {t} : cs[v].at # "idle")
  BY DEF Overlaps
<1>4. /\ cs' \in [Threads -> [at : {"idle", "send", "privacy", "store"}, arg : Statuses]]
      /\ cs'[t] = [at |-> "send", arg |-> s] /\ \A u \in Threads \ {t} : cs'[u] = cs[u]
  BY <1>1, <1>2
<1>5. \E u \in Threads : u # t
  BY DEF Threads
<1>6. overlap' \in BOOLEAN /\ (~overlap' => ~overlap /\ \A u \in Threads \ {t} : cs[u].at = "idle")
  BY <1>1, <1>3
<1> QED
  BY <1>4, <1>5, <1>6

LEMMA StatusOwn == ASSUME OwnInv, cmdSTATUS PROVE OwnInv'
<1>1. PICK s \in {"ONLINE", "AWAY", "INVISIBLE"} : StartChange("ctl", s)
  BY DEF cmdSTATUS
<1>2. /\ cs["ctl"].at = "idle" /\ Overlaps("ctl")
      /\ UNCHANGED <<status, privacyId, srvStatus, srvPrivacy, item, up, rostered, hand, queue>>
  BY DEF cmdSTATUS, Command, line, server
<1>3. /\ cs' \in [Threads -> [at : {"idle", "send", "privacy", "store"}, arg : Statuses]]
      /\ cs'["ctl"] = [at |-> "send", arg |-> s] /\ cs'["net"] = cs["net"]
      /\ overlap' \in BOOLEAN
      /\ ~overlap' => ~overlap /\ cs["net"].at = "idle"
      /\ ~overlap' => \E u \in Threads : cs'[u].at = "idle"
  BY <1>1, <1>2, BeginsOwn DEF Threads, Statuses
<1>4. OwnTypes' /\ Stage'
  BY <1>2, <1>3 DEF OwnInv, OwnTypes, Stage
<1>5. ASSUME up, item, ~overlap' PROVE OwnFollows'
  <2>1. OwnFollows
    BY <1>3, <1>5 DEF OwnInv
  <2>2. Told = status /\ Meant = status /\ Told' = status /\ Meant' = status
    BY <1>2, <1>3, <1>5 DEF Told, Meant
  <2>3. \A n : Waits(n)' <=> Waits(n)
    BY <1>2 DEF Waits
  <2>4. \A u \in Threads : cs'[u].at \in {"idle", "send"}
    BY <1>3, <1>5 DEF Threads
  <2>5. \/ (\E n \in {x \in Steps : x.kind = "personal"} : Waits(n)')
        \/ Told' = "INVISIBLE" \/ srvStatus' = Told'
    BY <1>2, <1>3, <1>5, <2>1, <2>2, <2>3 DEF OwnFollows
  <2>6. \A n \in Rosters : Waits(n)' => Setting(n)'
    BY <1>2, <2>1, <2>2, <2>3 DEF OwnFollows, Setting
  <2>7. (rostered \/ hand.kind = "contacts") => privacyId /\ Matches
    BY <1>3, <1>5, <2>1 DEF OwnFollows
  <2> QED
    BY <1>2, <2>2, <2>4, <2>5, <2>6, <2>7 DEF OwnFollows, Matches
<1> QED
  BY <1>2, <1>4, <1>5 DEF OwnInv

\* Nothing is on its way after the end of a session.
LEMMA EndsOwn == ASSUME OwnInv, Disconnects \/ networkReconnect, TypeInv PROVE OwnInv'
<1>1. /\ UNCHANGED <<status, cs, privacyId, overlap>> /\ ~up' /\ up' \in BOOLEAN /\ ~rostered' /\ rostered' \in BOOLEAN
      /\ hand' = Outlived(hand, Contacts)
  BY DEF Disconnects, networkReconnect, Ends, own
<1>2. hand'.kind = hand.kind
  BY <1>1, OutlivedKeeps DEF TypeInv
<1> QED
  BY <1>1, <1>2 DEF OwnInv, OwnTypes, Stage

LEMMA ConnectsOwn == ASSUME OwnInv, Connects PROVE OwnInv'
<1>1. /\ UNCHANGED <<status, cs, privacyId, srvPrivacy, item, rostered, hand>> /\ hand.kind = "nothing"
      /\ ~up /\ up' = TRUE /\ queue' = <<[kind |-> "personal"]>> /\ srvStatus' = "ONLINE"
      /\ cs["net"].at = "idle" /\ overlap' = (overlap \/ cs["ctl"].at # "idle")
  BY DEF Connects, own, Nothing
<1>2. ~rostered /\ Len(queue') = 1 /\ queue'[1] = [kind |-> "personal"]
  BY <1>1 DEF OwnInv, Stage, OwnTypes
<1>3. OwnTypes'
  BY <1>1 DEF OwnInv, OwnTypes
<1>4. Stage'
  <2>1. ~overlap' => \E t \in Threads : cs[t].at = "idle"
    BY <1>1 DEF Threads
  <2>2. \A i \in 1..Len(queue') : i = 1 /\ queue'[i].kind = "personal"
    BY <1>2
  <2> QED
    BY <1>1, <1>2, <2>1, <2>2 DEF Stage, Stages
<1>5. ASSUME ~overlap' PROVE OwnFollows'
  <2>1. \A t \in Threads : cs[t].at = "idle"
    BY <1>1, <1>5 DEF Threads
  <2>2. [kind |-> "personal"] \in {x \in Steps : x.kind = "personal"} /\ Waits([kind |-> "personal"])'
    BY <1>2 DEF Steps, Waits
  <2>3. \A n \in Rosters : ~Waits(n)'
    BY <1>1, <1>2 DEF Waits, Rosters
  <2> QED
    BY <1>1, <1>2, <2>1, <2>2, <2>3 DEF OwnFollows
<1> QED
  BY <1>1, <1>3, <1>4, <1>5 DEF OwnInv

LEMMA TakesOwn == ASSUME OwnInv, Takes, TypeInv PROVE OwnInv'
<1> DEFINE q == Tail(queue)
           h == Head(queue)
<1>1. /\ queue # <<>> /\ hand.kind = "nothing" /\ queue' = q /\ hand' = h /\ cs["net"].at = "idle"
      /\ UNCHANGED <<status, cs, privacyId, srvStatus, srvPrivacy, item, up, rostered, overlap>>
  BY DEF Takes, Nothing, hist, own, server
<1>2. /\ Len(queue) \in Nat \ {0} /\ Len(q) \in Nat /\ Len(q) = Len(queue) - 1 /\ h = queue[1]
      /\ \A i \in 1..Len(q) : q[i] = queue[i + 1] /\ i + 1 \in 1..Len(queue) /\ i + 1 # 1
      /\ 1 \in 1..Len(queue)
  BY <1>1, HeadTailProperties, EmptySeq DEF TypeInv
<1> HIDE DEF q, h
<1>3. OwnTypes'
  BY <1>1 DEF OwnInv, OwnTypes
<1>4. Stage'
  <2>1. ASSUME up
        PROVE  /\ \A i, j \in 1..Len(q) : q[i].kind \in Stages /\ q[j].kind \in Stages => i = j
               /\ h.kind \in Stages \/ rostered => \A i \in 1..Len(q) : q[i].kind \notin Stages
               /\ rostered => h.kind \notin Stages
               /\ \A i \in 1..Len(q) : q[i].kind \notin {"ready", "contacts"}
    <3>1. \A i, j \in 1..Len(queue) : queue[i].kind \in Stages /\ queue[j].kind \in Stages => i = j
      BY <2>1 DEF OwnInv, Stage
    <3>2. rostered => \A i \in 1..Len(queue) : queue[i].kind \notin Stages
      BY <2>1 DEF OwnInv, Stage
    <3>3. \A i, j \in 1..Len(q) : q[i].kind \in Stages /\ q[j].kind \in Stages => i = j
      <4> SUFFICES ASSUME NEW i \in 1..Len(q), NEW j \in 1..Len(q), q[i].kind \in Stages, q[j].kind \in Stages
                   PROVE  i = j
        OBVIOUS
      <4>1. i + 1 = j + 1
        BY <1>2, <3>1
      <4> QED
        BY <4>1
    <3>4. h.kind \in Stages => \A i \in 1..Len(q) : q[i].kind \notin Stages
      BY <1>2, <3>1
    <3>5. \A i \in 1..Len(q) : q[i].kind \notin {"ready", "contacts"}
      BY <1>2, <2>1 DEF OwnInv, Stage
    <3> QED
      BY <1>2, <3>2, <3>3, <3>4, <3>5
  <2> QED
    BY <1>1, <2>1 DEF OwnInv, Stage
<1>5. ASSUME up, item, ~overlap PROVE OwnFollows'
  <2>1. OwnFollows
    BY <1>5 DEF OwnInv
  <2>2. Told' = Told /\ Meant' = Meant /\ (Matches' <=> Matches) /\ \A n : Setting(n)' <=> Setting(n)
    BY <1>1 DEF Told, Meant, Matches, Setting
  <2>3. \A n : n.kind # "nothing" => (Waits(n)' <=> Waits(n))
    <3> SUFFICES ASSUME NEW n, n.kind # "nothing" PROVE Waits(n)' <=> Waits(n)
      OBVIOUS
    <3>1. ASSUME NEW i \in 1..Len(queue), queue[i] = n PROVE n = h \/ \E j \in 1..Len(q) : q[j] = n
      <4>1. CASE i = 1
        BY <1>2, <3>1, <4>1
      <4>2. CASE i # 1
        <5>1. i - 1 \in 1..Len(q) /\ (i - 1) + 1 = i
          BY <1>2, <4>2
        <5> QED
          BY <1>2, <3>1, <5>1
      <4> QED
        BY <4>1, <4>2
    <3>2. n = h \/ (\E j \in 1..Len(q) : q[j] = n) <=> \E i \in 1..Len(queue) : queue[i] = n
      BY <1>2, <3>1
    <3> QED
      BY <1>1, <3>2 DEF Waits
  <2>4. (\A n \in Rosters : n.kind # "nothing") /\ \A n \in {x \in Steps : x.kind = "personal"} : n.kind # "nothing"
    BY DEF Rosters
  <2>5. \/ (\E n \in {x \in Steps : x.kind = "personal"} : Waits(n)')
        \/ cs["net"].at = "send"
        \/ Told = "INVISIBLE"
        \/ srvStatus = Told
    BY <2>1, <2>3, <2>4 DEF OwnFollows
  <2>6. \A n \in Rosters : Waits(n)' => Setting(n)'
    BY <2>1, <2>2, <2>3, <2>4 DEF OwnFollows
  <2>7. h.kind # "contacts"
    BY <1>2, <1>5 DEF OwnInv, Stage
  <2> QED
    BY <1>1, <2>1, <2>2, <2>5, <2>6, <2>7 DEF OwnFollows
<1> QED
  BY <1>1, <1>3, <1>4, <1>5 DEF OwnInv

\* What the queue holds after something is put behind it.
LEMMA Pushed ==
  ASSUME TypeInv, NEW n \in Notices, Push(n)
  PROVE  /\ Len(queue) \in Nat /\ Len(queue') = Len(queue) + 1 /\ queue'[Len(queue) + 1] = n
         /\ \A i \in 1..Len(queue) : queue'[i] = queue[i]
  BY DEF Push, TypeInv

LEMMA Sent ==
  ASSUME TypeInv, NEW names \in SUBSET Contacts, SendContacts(names)
  PROVE  /\ Len(queue) \in Nat /\ Len(queue') \in Nat /\ Len(queue) <= Len(queue')
         /\ \A i \in 1..Len(queue) : queue'[i] = queue[i]
         /\ \A j \in 1..Len(queue') : j > Len(queue) =>
              \E c \in names \ subs : up /\ real[c] # Off /\ queue'[j] = Notice(c, real[c])
         /\ up => \A c \in names \ subs : real[c] # Off =>
              \E j \in 1..Len(queue') : j > Len(queue) /\ queue'[j] = Notice(c, real[c])
         /\ subs' = IF up THEN subs \cup names ELSE subs
<1>1. CASE ~up
  BY <1>1 DEF SendContacts, TypeInv
<1>2. CASE up
  <2> DEFINE D == {d \in names \ subs : real[d] # Off}
             S == {Oncoming(c) : c \in D}
             f == [c \in D |-> Oncoming(c)]
             s == Tell(names \ subs)
  <2>1. IsFiniteSet(D)
    BY FiniteAssumption, FS_Subset
  <2>2. f \in Surjection(D, S)
    BY DEF Surjection
  <2>3. IsFiniteSet(S)
    BY <2>1, <2>2, FS_Surjection
  <2>4. s = SetToSeq(S)
    BY DEF Tell
  <2>5. /\ \A x \in S : \E c \in D : x = Notice(c, real[c])
        /\ \A c \in D : Notice(c, real[c]) \in S
    BY DEF Oncoming
  <2>6. S \subseteq Notices
    BY NoticeType DEF Oncoming, TypeInv, Notices
  <2> HIDE DEF S
  <2>7. /\ s \in Seq(S) /\ Len(s) = Cardinality(S) /\ Cardinality(S) \in Nat
        /\ \A x \in S : \E i \in 1..Cardinality(S) : s[i] = x
    BY <2>3, <2>4, Listing
  <2>8. queue' = queue \o s /\ subs' = subs \cup names
    BY <1>2 DEF SendContacts
  <2> HIDE DEF s, D
  <2>9. s \in Seq(Notices) /\ Len(s) \in Nat /\ \A i \in 1..Len(s) : s[i] \in S
    BY <2>6, <2>7
  <2>10. /\ Len(queue) \in Nat /\ Len(queue') = Len(queue) + Len(s)
         /\ \A j \in 1..Len(queue) + Len(s) :
              queue'[j] = IF j <= Len(queue) THEN queue[j] ELSE s[j - Len(queue)]
    BY <2>8, <2>9, ConcatProperties DEF TypeInv
  <2>11. \A j \in 1..Len(queue') : j > Len(queue) => j - Len(queue) \in 1..Len(s) /\ queue'[j] \in S
    BY <2>9, <2>10
  <2>12. \A i \in 1..Len(s) : /\ Len(queue) + i \in 1..Len(queue') /\ Len(queue) + i > Len(queue)
                              /\ queue'[Len(queue) + i] = s[i]
    BY <2>9, <2>10
  <2>13. \A x \in S : \E j \in 1..Len(queue') : j > Len(queue) /\ queue'[j] = x
    BY <2>7, <2>12
  <2>14. /\ Len(queue') \in Nat /\ Len(queue) <= Len(queue')
         /\ \A i \in 1..Len(queue) : queue'[i] = queue[i]
    BY <2>9, <2>10
  <2>15. \A j \in 1..Len(queue') : j > Len(queue) =>
           \E c \in names \ subs : up /\ real[c] # Off /\ queue'[j] = Notice(c, real[c])
    BY <1>2, <2>5, <2>11 DEF D
  <2>16. \A c \in names \ subs : real[c] # Off =>
           \E j \in 1..Len(queue') : j > Len(queue) /\ queue'[j] = Notice(c, real[c])
    BY <2>5, <2>13 DEF D
  <2> QED
    BY <1>2, <2>8, <2>10, <2>14, <2>15, <2>16
<1> QED
  BY <1>1, <1>2

\* Contacts come and go without the sign-in.
LEMMA SentOwn ==
  ASSUME TypeInv, NEW names \in SUBSET Contacts, SendContacts(names)
  PROVE  /\ \A i \in 1..Len(queue') : queue'[i].kind \in Stages => i \in 1..Len(queue) /\ queue'[i] = queue[i]
         /\ \A i \in 1..Len(queue) : i \in 1..Len(queue') /\ queue'[i] = queue[i]
<1>1. /\ Len(queue) \in Nat /\ Len(queue') \in Nat /\ Len(queue) <= Len(queue')
      /\ \A i \in 1..Len(queue) : queue'[i] = queue[i]
      /\ \A j \in 1..Len(queue') : j > Len(queue) =>
           \E c \in names \ subs : up /\ real[c] # Off /\ queue'[j] = Notice(c, real[c])
  BY Sent
<1>2. \A c, r : Notice(c, r).kind \notin Stages
  BY DEF Notice, Stages
<1>3. \A j \in 1..Len(queue') : j > Len(queue) => queue'[j].kind \notin Stages
  BY <1>1, <1>2
<1> QED
  BY <1>1, <1>3

LEMMA OtherStepsOwn ==
  ASSUME TypeInv, OwnInv,
         \/ cmdADDSLAVE \/ cmdDELSLAVE \/ cmdCHAT \/ Buddy \/ Message \/ EndOfMessages
         \/ ContactChanges \/ SomebodyWrites
  PROVE  OwnInv'
<1> USE DEF own, contacts, mode, line, server, hist, counts, Command, Handles, Nothing
<1>1. CASE cmdADDSLAVE
  <2>1. listed' \in SUBSET Contacts /\ SendContacts(listed')
    BY <1>1 DEF cmdADDSLAVE, TypeInv
  <2> QED
    BY <1>1, <2>1, SentOwn, ElsewhereOwn DEF cmdADDSLAVE
<1>2. CASE cmdDELSLAVE
  <2>1. PICK c \in listed :
            /\ hand' = Outlived(hand, {c})
            /\ queue' = [i \in 1 .. Len(queue) |-> Outlived(queue[i], {c})]
    BY <1>2 DEF cmdDELSLAVE
  <2>2. \A n : n.kind \in Stages => Outlived(n, {c}) = n
    BY DEF Outlived, Stages
  <2>3. \A n \in Notices : Outlived(n, {c}).kind = n.kind
    BY OutlivedKeeps
  <2>4. Len(queue') = Len(queue) /\ \A i \in 1..Len(queue) : queue[i] \in Notices /\ queue'[i] = Outlived(queue[i], {c})
    BY <2>1 DEF TypeInv
  <2>5. hand' = hand \/ (hand.kind \notin Stages /\ hand'.kind \notin Stages)
    BY <2>1, <2>2, <2>3 DEF TypeInv
  <2>6. /\ \A i \in 1..Len(queue') : queue'[i].kind \in Stages => i \in 1..Len(queue) /\ queue'[i] = queue[i]
        /\ \A i \in 1..Len(queue) : queue[i].kind \in Stages => i \in 1..Len(queue') /\ queue'[i] = queue[i]
    BY <2>2, <2>3, <2>4
  <2> QED
    BY <1>2, <2>5, <2>6, ElsewhereOwn DEF cmdDELSLAVE
<1>3. CASE cmdCHAT
  BY <1>3, ElsewhereOwn DEF cmdCHAT
<1>4. CASE Buddy \/ Message \/ EndOfMessages
  <2>1. hand' = Nothing /\ hand.kind \notin Stages /\ hand'.kind \notin Stages
    BY <1>4 DEF Buddy, Message, EndOfMessages, Stages
  <2> QED
    BY <1>4, <2>1, ElsewhereOwn DEF Buddy, Message, EndOfMessages
<1>5. CASE ContactChanges \/ SomebodyWrites
  <2>1. queue' = queue \/ \E n \in Notices : n.kind \notin Stages /\ Push(n)
    <3>1. CASE ContactChanges
      <4>1. PICK c \in Contacts, to \in Reals : Push(Notice(c, to)) \/ queue' = queue
        BY <3>1 DEF ContactChanges
      <4>2. Notice(c, to) \in Notices /\ Notice(c, to).kind \notin Stages
        BY NoticeType DEF Notices, Notice, Stages
      <4> QED
        BY <4>1, <4>2
    <3>2. CASE SomebodyWrites
      <4>1. PICK m \in unsent : Push([kind |-> "msg", msg |-> m]) \/ queue' = queue
        BY <3>2 DEF SomebodyWrites
      <4>2. [kind |-> "msg", msg |-> m] \in Notices /\ [kind |-> "msg", msg |-> m].kind \notin Stages
        BY DEF Notices, Texts, TypeInv, Stages
      <4> QED
        BY <4>1, <4>2
    <3> QED
      BY <1>5, <3>1, <3>2
  <2>2. /\ \A i \in 1..Len(queue') : queue'[i].kind \in Stages => i \in 1..Len(queue) /\ queue'[i] = queue[i]
        /\ \A i \in 1..Len(queue) : i \in 1..Len(queue') /\ queue'[i] = queue[i]
    <3>1. CASE queue' = queue
      BY <3>1
    <3>2. ASSUME NEW n \in Notices, n.kind \notin Stages, Push(n)
          PROVE  /\ \A i \in 1..Len(queue') : queue'[i].kind \in Stages => i \in 1..Len(queue) /\ queue'[i] = queue[i]
                 /\ \A i \in 1..Len(queue) : i \in 1..Len(queue') /\ queue'[i] = queue[i]
      BY <3>2, Pushed
    <3> QED
      BY <2>1, <3>1, <3>2
  <2> QED
    BY <1>5, <2>2, ElsewhereOwn DEF ContactChanges, SomebodyWrites
<1> QED
  BY <1>1, <1>2, <1>3, <1>4, <1>5

LEMMA PersonalOwn == ASSUME TypeInv, OwnInv, Personal PROVE OwnInv'
<1>1. /\ hand.kind = "personal" /\ cs["net"].at = "idle" /\ hand' = [kind |-> "ready"]
      /\ SendContacts(listed)
      /\ UNCHANGED <<status, privacyId, srvStatus, srvPrivacy, item, up, rostered>>
      /\ status = "INVISIBLE" => UNCHANGED <<cs, overlap>>
      /\ status # "INVISIBLE" => StartChange("net", status) /\ Overlaps("net")
  BY DEF Personal, Handles
<1>2. /\ \A i \in 1..Len(queue') : queue'[i].kind \in Stages => i \in 1..Len(queue) /\ queue'[i] = queue[i]
      /\ \A i \in 1..Len(queue) : i \in 1..Len(queue') /\ queue'[i] = queue[i]
  BY <1>1, SentOwn DEF TypeInv
<1>3. /\ cs' \in [Threads -> [at : {"idle", "send", "privacy", "store"}, arg : Statuses]]
      /\ cs'["ctl"] = cs["ctl"] /\ overlap' \in BOOLEAN
      /\ ~overlap' => ~overlap /\ (status # "INVISIBLE" => cs["ctl"].at = "idle")
      /\ ~overlap' => \E u \in Threads : cs'[u].at = "idle"
  <2>1. CASE status = "INVISIBLE"
    BY <1>1, <2>1 DEF OwnInv, OwnTypes, Stage
  <2>2. CASE status # "INVISIBLE"
    <3>1. "net" \in Threads /\ "ctl" \in Threads \ {"net"} /\ status \in Statuses
      BY DEF Threads, OwnInv, OwnTypes
    <3> QED
      BY <1>1, <2>2, <3>1, BeginsOwn
  <2> QED
    BY <2>1, <2>2
<1>4. OwnTypes'
  BY <1>1, <1>3 DEF OwnInv, OwnTypes
<1>5. Stage'
  <2>1. ASSUME up
        PROVE  ~rostered /\ \A i \in 1..Len(queue') : queue'[i].kind \notin Stages
    <3>1. ~rostered /\ \A i \in 1..Len(queue) : queue[i].kind \notin Stages
      BY <1>1, <2>1 DEF OwnInv, Stage, Stages
    <3> QED
      BY <1>2, <3>1
  <2>2. \A k \in {"ready", "contacts"} : k \in Stages
    BY DEF Stages
  <2> QED
    BY <1>1, <1>3, <2>1, <2>2 DEF OwnInv, Stage
<1>6. ASSUME up, item, ~overlap' PROVE OwnFollows'
  <2>1. OwnFollows
    BY <1>3, <1>6 DEF OwnInv
  <2>2. ~rostered /\ hand'.kind # "contacts"
    BY <1>1, <1>6 DEF OwnInv, Stage, Stages
  <2>3. \A n \in Rosters : ~Waits(n)'
    <3>1. \A i \in 1..Len(queue) : queue[i].kind \notin Stages
      BY <1>1, <1>6 DEF OwnInv, Stage, Stages
    <3>2. \A n \in Rosters : n.kind \in Stages /\ n.kind # "ready"
      BY DEF Rosters, Stages
    <3> QED
      BY <1>1, <1>2, <3>1, <3>2 DEF Waits
  <2>4. CASE status = "INVISIBLE"
    <3>1. Told' = "INVISIBLE" \/ (cs["ctl"].at \in {"privacy", "store"} /\ Told' = cs["ctl"].arg)
      BY <1>1, <2>4 DEF Told
    <3>2. Told' = "INVISIBLE" \/ srvStatus = Told'
      BY <2>1, <3>1 DEF OwnFollows, Threads
    <3> QED
      BY <1>1, <2>1, <2>2, <2>3, <2>4, <3>2 DEF OwnFollows
  <2>5. CASE status # "INVISIBLE"
    <3>1. cs'["net"].at = "send" /\ cs'["ctl"].at = "idle"
      BY <1>1, <1>3, <1>6, <2>5 DEF StartChange, OwnInv, OwnTypes, Threads
    <3> QED
      BY <1>1, <2>2, <2>3, <3>1 DEF OwnFollows, Threads
  <2> QED
    BY <2>4, <2>5
<1> QED
  BY <1>1, <1>4, <1>5, <1>6 DEF OwnInv

\* What the daemon asks for when it is ready.
LEMMA ReadyQueue ==
  ASSUME TypeInv, Ready, up
  PROVE  /\ Len(queue) \in Nat /\ Len(queue') \in Nat /\ Len(queue) < Len(queue')
         /\ Len(queue) + 1 \in 1..Len(queue')
         /\ \A i \in 1..Len(queue) : queue'[i] = queue[i]
         /\ queue'[Len(queue) + 1] = [kind |-> "roster", item |-> item, privacy |-> srvPrivacy]
         /\ \A j \in 1..Len(queue') : \/ j \in 1..Len(queue) /\ queue'[j] = queue[j]
                                     \/ j = Len(queue) + 1
                                     \/ queue'[j].kind \in {"offline", "end"}
<1> DEFINE r == [kind |-> "roster", item |-> item, privacy |-> srvPrivacy]
           s == SetToSeq({[kind |-> "offline", msg |-> m] : m \in stored})
           e == [kind |-> "end", msgs |-> stored]
           p == queue \o <<r>>
           u == p \o s
           w == u \o <<e>>
<1>1. s \in Seq(Notices) /\ Len(s) \in Nat /\ \A i \in 1..Len(s) : s[i].kind = "offline"
  BY StoredListed DEF TypeInv
<1>2. r \in Notices /\ e \in Notices /\ e.kind = "end"
  BY DEF Notices, Rosters, EndNotices, TypeInv
<1>3. queue' = w
  BY DEF Ready
<1> HIDE DEF r, s, e
<1>4. /\ p \in Seq(Notices) /\ Len(queue) \in Nat /\ Len(p) = Len(queue) + 1 /\ p[Len(queue) + 1] = r
      /\ \A i \in 1..Len(queue) : p[i] = queue[i]
  BY <1>2 DEF TypeInv
<1> HIDE DEF p
<1>5. /\ u \in Seq(Notices) /\ Len(u) = Len(p) + Len(s)
      /\ \A j \in 1..Len(p) + Len(s) : u[j] = IF j <= Len(p) THEN p[j] ELSE s[j - Len(p)]
  BY <1>1, <1>4, ConcatProperties
<1> HIDE DEF u
<1>12. Len(u) \in Nat
  BY <1>5
<1>6. Len(w) = Len(u) + 1 /\ w[Len(u) + 1] = e /\ \A j \in 1..Len(u) : w[j] = u[j]
  BY <1>2, <1>5, <1>12
<1> HIDE DEF w
<1>7. \A j \in 1..Len(u) : j > Len(p) => u[j].kind = "offline"
  BY <1>1, <1>4, <1>5
<1>8. \A j \in 1..Len(w) : j = Len(u) + 1 \/ j \in 1..Len(u)
  BY <1>6, <1>12
<1>9. \A j \in 1..Len(u) : j \in 1..Len(queue) \/ j = Len(queue) + 1 \/ j > Len(p)
  BY <1>1, <1>4, <1>5
<1>10. \A j \in 1..Len(w) : \/ j \in 1..Len(queue) /\ w[j] = queue[j]
                           \/ j = Len(queue) + 1
                           \/ w[j].kind \in {"offline", "end"}
  <2> TAKE j \in 1..Len(w)
  <2>1. CASE j = Len(u) + 1
    BY <1>2, <1>6, <2>1
  <2>2. CASE j \in 1..Len(u)
    BY <1>4, <1>5, <1>6, <1>7, <1>9, <2>2
  <2> QED
    BY <1>8, <2>1, <2>2
<1>11. /\ w[Len(queue) + 1] = r /\ Len(queue) + 1 \in 1..Len(w) /\ Len(w) \in Nat /\ Len(queue) < Len(w)
       /\ \A i \in 1..Len(queue) : w[i] = queue[i]
  <2>1. Len(w) \in Nat /\ Len(w) = Len(queue) + Len(s) + 2
    BY <1>1, <1>4, <1>5, <1>6
  <2>2. \A i \in 1..Len(queue) + 1 : i \in 1..Len(u) /\ w[i] = u[i] /\ u[i] = p[i]
    BY <1>1, <1>4, <1>5, <1>6
  <2> QED
    BY <1>1, <1>4, <2>1, <2>2
<1> QED
  BY <1>3, <1>4, <1>10, <1>11 DEF r

\* The roster tells the setting the server had when it was asked.
LEMMA ReadyOwn == ASSUME TypeInv, OwnInv, Ready PROVE OwnInv'
<1> DEFINE r == [kind |-> "roster", item |-> item, privacy |-> srvPrivacy]
<1>1. /\ hand.kind = "ready" /\ cs["net"].at = "idle" /\ hand' = Nothing /\ hand'.kind = "nothing"
      /\ UNCHANGED <<status, cs, privacyId, srvStatus, srvPrivacy, item, up, rostered, overlap>>
      /\ ~up => queue' = queue
  BY DEF Ready, Handles, Nothing, own, server, hist
<1>4. r.kind = "roster" /\ r.item = item /\ r.privacy = srvPrivacy
  OBVIOUS
<1> HIDE DEF r
<1>5. OwnTypes'
  BY <1>1 DEF OwnInv, OwnTypes
<1>6. ASSUME up
      PROVE  /\ ~rostered /\ Len(queue) \in Nat /\ queue'[Len(queue) + 1] = r
             /\ \A i \in 1..Len(queue) : queue'[i].kind \notin Stages
             /\ \A i \in 1..Len(queue') : i # Len(queue) + 1 => queue'[i].kind \notin Stages
             /\ Len(queue) + 1 \in 1..Len(queue')
  <2>1. ~rostered /\ \A i \in 1..Len(queue) : queue[i].kind \notin Stages
    BY <1>1, <1>6 DEF OwnInv, Stage, Stages
  <2>2. "offline" \notin Stages /\ "end" \notin Stages
    BY DEF Stages
  <2> QED
    BY <1>6, <2>1, <2>2, ReadyQueue DEF r
<1>7. Stage'
  <2>1. "nothing" \notin Stages /\ "ready" \in Stages /\ "contacts" \in Stages
    BY DEF Stages
  <2>2. CASE up
    <3>1. \A i \in 1..Len(queue') : queue'[i].kind \notin {"ready", "contacts"}
      BY <1>4, <1>6, <2>1, <2>2
    <3>2. \A i, j \in 1..Len(queue') : queue'[i].kind \in Stages /\ queue'[j].kind \in Stages => i = j
      BY <1>6, <2>2
    <3> QED
      BY <1>1, <1>6, <2>1, <2>2, <3>1, <3>2 DEF OwnInv, Stage
  <2>3. CASE ~up
    BY <1>1, <2>3 DEF OwnInv, Stage
  <2> QED
    BY <2>2, <2>3 DEF OwnInv, OwnTypes
<1>8. ASSUME up, item, ~overlap PROVE OwnFollows'
  <2>1. OwnFollows
    BY <1>8 DEF OwnInv
  <2>2. Told' = Told /\ Meant' = Meant
    BY <1>1 DEF Told, Meant
  <2>3. ASSUME NEW n \in Rosters, Waits(n)' PROVE n = r
    <3>1. n.kind \in Stages /\ n.kind # "nothing"
      BY DEF Rosters, Stages
    <3> QED
      BY <1>1, <1>6, <1>8, <2>3, <3>1 DEF Waits
  <2>4. ~\E n \in {x \in Steps : x.kind = "personal"} : Waits(n)
    <3>1. \A i \in 1..Len(queue) : queue[i].kind \notin Stages
      BY <1>1, <1>8 DEF OwnInv, Stage, Stages
    <3> QED
      BY <1>1, <3>1 DEF Waits, Stages
  <2>5. Told = "INVISIBLE" \/ srvStatus = Told
    BY <1>1, <2>1, <2>4 DEF OwnFollows
  <2>6. \A n \in Rosters : Waits(n)' => Setting(n)'
    BY <1>1, <1>4, <1>8, <2>3 DEF Setting
  <2> QED
    BY <1>1, <1>6, <1>8, <2>1, <2>2, <2>5, <2>6 DEF OwnFollows
<1> QED
  BY <1>1, <1>5, <1>7, <1>8 DEF OwnInv

\* The daemon was left invisible: it becomes so.
LEMMA RosterOwn == ASSUME TypeInv, OwnInv, Roster PROVE OwnInv'
<1>1. /\ hand.kind = "roster" /\ cs["net"].at = "idle" /\ hand' = [kind |-> "contacts"] /\ queue' = queue
      /\ UNCHANGED <<status, srvStatus, srvPrivacy, item, up, rostered>>
      /\ privacyId' = (privacyId \/ hand.item)
      /\ ~LeftInvisible(hand) => /\ UNCHANGED cs
                                 /\ overlap' = (overlap \/ (privacyId' # privacyId /\ cs["ctl"].at = "store"))
      /\ LeftInvisible(hand) => StartChange("net", "INVISIBLE") /\ Overlaps("net")
  BY DEF Roster, Handles, server
<1>2. hand \in Rosters
  BY <1>1 DEF TypeInv, Notices, Buddies, Texts, EndNotices, Steps
<1>3. /\ cs' \in [Threads -> [at : {"idle", "send", "privacy", "store"}, arg : Statuses]]
      /\ cs'["ctl"] = cs["ctl"] /\ overlap' \in BOOLEAN
      /\ cs'["net"].at # "idle" => cs'["net"].arg = "INVISIBLE"
      /\ ~overlap' => ~overlap /\ (LeftInvisible(hand) => cs["ctl"].at = "idle" /\ cs'["net"].at = "send")
      /\ ~overlap' => \E u \in Threads : cs'[u].at = "idle"
  <2>1. CASE ~LeftInvisible(hand)
    BY <1>1, <2>1 DEF OwnInv, OwnTypes, Stage
  <2>2. CASE LeftInvisible(hand)
    <3>1. "net" \in Threads /\ "ctl" \in Threads \ {"net"} /\ "INVISIBLE" \in Statuses
      BY DEF Threads, Statuses
    <3>2. /\ cs' \in [Threads -> [at : {"idle", "send", "privacy", "store"}, arg : Statuses]]
          /\ cs'["net"] = [at |-> "send", arg |-> "INVISIBLE"] /\ cs'["ctl"] = cs["ctl"]
          /\ overlap' \in BOOLEAN
          /\ ~overlap' => ~overlap /\ cs["ctl"].at = "idle"
          /\ ~overlap' => \E u \in Threads : cs'[u].at = "idle"
      BY <1>1, <2>2, <3>1, BeginsOwn
    <3> QED
      BY <3>2
  <2> QED
    BY <2>1, <2>2
<1>4. OwnTypes'
  BY <1>1, <1>3 DEF OwnInv, OwnTypes
<1>5. Stage'
  BY <1>1, <1>3 DEF OwnInv, Stage, Stages
<1>6. ASSUME up, item, ~overlap' PROVE OwnFollows'
  <2>1. OwnFollows
    BY <1>3, <1>6 DEF OwnInv
  <2>2. \A i \in 1..Len(queue) : queue[i].kind \notin Stages
    BY <1>1, <1>6 DEF OwnInv, Stage, Stages
  <2>3. \A n \in Rosters : ~Waits(n)'
    BY <1>1, <2>2 DEF Waits, Stages, Rosters
  <2>4. Setting(hand) /\ hand.item /\ privacyId'
    BY <1>1, <1>2, <2>1 DEF OwnFollows, Waits, Setting
  <2>5. CASE LeftInvisible(hand)
    <3>1. cs'["net"].at = "send" /\ cs'["ctl"].at = "idle"
      BY <1>3, <1>6, <2>5
    <3> QED
      BY <1>1, <2>3, <2>4, <3>1 DEF OwnFollows, Threads
  <2>6. CASE ~LeftInvisible(hand)
    <3>1. hand.privacy = 4 /\ status # "INVISIBLE"
      BY <1>2, <2>4, <2>6 DEF LeftInvisible, Rosters
    <3>2. ~\E n \in {x \in Steps : x.kind = "personal"} : Waits(n)
      BY <1>1, <2>2 DEF Waits, Stages
    <3>3. Told = "INVISIBLE" \/ srvStatus = Told
      BY <1>1, <2>1, <3>2 DEF OwnFollows
    <3>4. srvStatus = Told
      BY <1>1, <2>1, <3>1, <3>3 DEF OwnFollows, Told, Threads
    <3>5. CASE privacyId
      <4>1. Meant = "INVISIBLE" <=> srvPrivacy = 3
        BY <1>1, <2>1, <2>4, <3>1, <3>5 DEF OwnFollows, Meant, Setting, Threads
      <4>2. Told' = Told /\ Meant' = Meant
        BY <1>1, <2>6 DEF Told, Meant
      <4> QED
        BY <1>1, <2>1, <2>3, <2>4, <2>6, <3>4, <3>5, <4>1, <4>2 DEF OwnFollows, Matches
    <3>6. CASE ~privacyId
      <4>1. cs["ctl"].at # "store" /\ cs["net"].at # "store" /\ cs' = cs
        BY <1>1, <1>3, <1>6, <2>4, <2>6, <3>6
      <4>2. Meant = status /\ Meant' = status /\ Told' = Told /\ srvPrivacy = 4
        BY <1>1, <2>4, <3>1, <3>6, <4>1 DEF Meant, Told, Setting
      <4>3. \A t \in Threads : cs[t].at # "store"
        BY <4>1 DEF Threads
      <4> QED
        BY <1>1, <2>1, <2>3, <2>4, <3>1, <3>4, <4>1, <4>2, <4>3 DEF OwnFollows, Matches
    <3> QED
      BY <3>5, <3>6
  <2> QED
    BY <2>5, <2>6
<1> QED
  BY <1>1, <1>4, <1>5, <1>6 DEF OwnInv

LEMMA AfterRosterOwn == ASSUME TypeInv, OwnInv, AfterRoster PROVE OwnInv'
<1>1. /\ hand.kind = "contacts" /\ cs["net"].at = "idle" /\ hand' = Nothing /\ hand'.kind = "nothing"
      /\ SendContacts(listed) /\ rostered' = up
      /\ UNCHANGED <<status, cs, privacyId, srvStatus, srvPrivacy, item, up, overlap>>
  BY DEF AfterRoster, Handles, Nothing, own, hist
<1>2. /\ \A i \in 1..Len(queue') : queue'[i].kind \in Stages => i \in 1..Len(queue) /\ queue'[i] = queue[i]
      /\ \A i \in 1..Len(queue) : i \in 1..Len(queue') /\ queue'[i] = queue[i]
  BY <1>1, SentOwn DEF TypeInv
<1>3. up => \A i \in 1..Len(queue') : queue'[i].kind \notin Stages
  BY <1>1, <1>2 DEF OwnInv, Stage, Stages
<1>4. OwnTypes'
  BY <1>1 DEF OwnInv, OwnTypes
<1>5. Stage'
  BY <1>1, <1>3 DEF OwnInv, Stage, Stages
<1>6. ASSUME up, item, ~overlap PROVE OwnFollows'
  <2>1. OwnFollows
    BY <1>6 DEF OwnInv
  <2>2. Told' = Told /\ Meant' = Meant
    BY <1>1 DEF Told, Meant
  <2>3. \A n \in Rosters : ~Waits(n)'
    BY <1>1, <1>3, <1>6 DEF Waits, Stages, Rosters
  <2>4. privacyId /\ Matches
    BY <1>1, <2>1 DEF OwnFollows
  <2> QED
    BY <1>1, <2>1, <2>2, <2>3, <2>4 DEF OwnFollows, Matches
<1> QED
  BY <1>1, <1>4, <1>5, <1>6 DEF OwnInv

LEMMA InitOwn == ASSUME Init PROVE OwnInv
<1>1. /\ cs \in [Threads -> [at : {"idle", "send", "privacy", "store"}, arg : Statuses]]
      /\ \A t \in Threads : cs[t].at = "idle"
  BY DEF Init, Idle, Statuses
<1>2. "net" \in Threads /\ ~up /\ up \in BOOLEAN /\ ~rostered /\ rostered \in BOOLEAN /\ overlap \in BOOLEAN
      /\ status \in Statuses /\ privacyId \in BOOLEAN
  BY DEF Init, Threads, Statuses
<1>3. OwnTypes /\ Stage
  BY <1>1, <1>2 DEF OwnTypes, Stage
<1> QED
  BY <1>2, <1>3 DEF OwnInv

LEMMA NextOwn == ASSUME TypeInv, OwnInv, [Next]_vars PROVE OwnInv'
<1>1. CASE UNCHANGED vars
  BY <1>1, ElsewhereOwn DEF vars, own, line, server, hist
<1> QED
  BY <1>1, SendStatusOwn, StatusOwn, OtherStepsOwn, EndsOwn, ConnectsOwn, TakesOwn, PersonalOwn,
     ReadyOwn, RosterOwn, AfterRosterOwn DEF Next

\* Once the roster has been read, the others are told what the daemon believes
\* they are told, and it is hidden exactly when it means to be: by the two
\* requests of changeStatus (network.c), in whichever thread, as long as
\* no two of them overlap and the first roster does not come between them.
THEOREM OwnFollowed == Spec => []OwnAgrees
<1>1. TypeInv /\ OwnInv => OwnAgrees
  <2> SUFFICES ASSUME TypeInv, OwnInv, Settled, ~overlap, item
               PROVE  srvStatus = status /\ (status = "INVISIBLE" <=> srvPrivacy = 3)
    BY DEF OwnAgrees
  <2>1. up /\ rostered /\ cs["net"].at = "idle" /\ cs["ctl"].at = "idle"
    BY DEF Settled, Threads
  <2>2. Told = status /\ Meant = status
    BY <2>1 DEF Told, Meant
  <2> QED
    BY <2>1, <2>2 DEF OwnInv, OwnFollows, Matches
<1>2. Init => TypeInv /\ OwnInv
  BY InitIInv, InitOwn DEF IInv
<1>3. TypeInv /\ OwnInv /\ [Next]_vars => (TypeInv /\ OwnInv)'
  BY TypeStep, NextOwn
<1> QED
  BY <1>1, <1>2, <1>3, PTL DEF Spec

-----------------------------------------------------------------------------
\* The contacts.

LEMMA NoticeFacts ==
  ASSUME NEW c, NEW to \in Reals
  PROVE  LET n == Notice(c, to) IN
         /\ Is(n, c) /\ \A d : Is(n, d) => d = c
         /\ Goes(n, c) <=> to = Off
         /\ Crypt(n, c) <=> to.client = "crypt"
         /\ n.tlvs = {to.status, to.client} \cap {"AWAY", "crypt", "caps"}
<1>1. to = Off \/ to \in [status : {"ONLINE", "AWAY"}, client : {"crypt", "other", "caps"}]
  BY DEF Reals
<1>2. to.client = "crypt" => to # Off
  BY DEF Off
<1>3. "crypt" \in {to.status, to.client} <=> to.client = "crypt"
  BY <1>1 DEF Off
<1> QED
  BY <1>2, <1>3 DEF Notice, Is, Goes, Crypt

\* Lines that do not differ in what concerns a contact.
LEMMA SameLine ==
  ASSUME NEW c, NEW r, NEW ln, NEW l2, DOMAIN l2 = DOMAIN ln,
         \A i \in DOMAIN ln : Is(l2[i], c) \/ Is(ln[i], c) => l2[i] = ln[i]
  PROVE  /\ Tells(ln, c, r) => Tells(l2, c, r)
         /\ \A i : After(ln, c, i, r) => After(l2, c, i, r)
         /\ \A i \in DOMAIN ln : Is(l2[i], c) <=> Is(ln[i], c)
<1>1. \A i \in DOMAIN ln : Is(l2[i], c) <=> Is(ln[i], c)
  OBVIOUS
<1>2. \A i \in DOMAIN ln : /\ Goes(l2[i], c) <=> Goes(ln[i], c)
                           /\ Crypt(l2[i], c) <=> Crypt(ln[i], c)
                           /\ Other(l2[i], c) <=> Other(ln[i], c)
  BY <1>1 DEF Goes, Crypt, Other
<1>3. \A i : After(ln, c, i, r) => After(l2, c, i, r)
  BY <1>2 DEF After
<1>4. Tells(ln, c, r) => Tells(l2, c, r)
  BY <1>1, <1>2, <1>3 DEF Tells
<1> QED
  BY <1>1, <1>3, <1>4

\* Notices about others are put behind.
Longer(ln, n, l2, m, c) ==
  /\ n \in Nat /\ m \in Nat /\ n <= m /\ DOMAIN ln = 1..n /\ DOMAIN l2 = 1..m
  /\ \A i \in 1..n : l2[i] = ln[i]
  /\ \A j \in 1..m : j > n => ~Is(l2[j], c)

LEMMA GrowsByOthers ==
  ASSUME NEW c, NEW r, NEW n, NEW m, NEW ln, NEW l2, Longer(ln, n, l2, m, c)
  PROVE  /\ Tells(ln, c, r) => Tells(l2, c, r)
         /\ \A i : After(ln, c, i, r) => After(l2, c, i, r)
         /\ \A i \in 1..n : i \in 1..m
         /\ \A j \in 1..m : Is(l2[j], c) => j \in 1..n /\ Is(ln[j], c)
<1> /\ n \in Nat /\ m \in Nat /\ n <= m /\ DOMAIN ln = 1..n /\ DOMAIN l2 = 1..m
    /\ \A i \in 1..n : l2[i] = ln[i]
    /\ \A j \in 1..m : j > n => ~Is(l2[j], c)
  BY DEF Longer
<1>1. \A j \in 1..m : j \in 1..n \/ j > n
  OBVIOUS
<1>2. \A j \in 1..m : Is(l2[j], c) => j \in 1..n /\ Is(ln[j], c)
  BY <1>1
<1>3. \A i \in 1..n : i \in 1..m
  OBVIOUS
<1>4. \A i : After(ln, c, i, r) => After(l2, c, i, r)
  <2> SUFFICES ASSUME NEW i, After(ln, c, i, r) PROVE After(l2, c, i, r)
    OBVIOUS
  <2>1. ASSUME NEW j \in 1..m, j > i, Other(l2[j], c)
        PROVE  \E k \in 1..m : i < k /\ k < j /\ Goes(l2[k], c)
    <3>1. j \in 1..n /\ Other(ln[j], c)
      BY <1>2, <2>1 DEF Other
    <3>2. PICK k \in 1..n : i < k /\ k < j /\ Goes(ln[k], c)
      BY <2>1, <3>1 DEF After
    <3> QED
      BY <1>3, <3>2
  <2>2. ASSUME r.client # "crypt" PROVE \E k \in 1..m : i < k /\ Goes(l2[k], c)
    <3>1. PICK k \in 1..n : i < k /\ Goes(ln[k], c)
      BY <2>2 DEF After
    <3> QED
      BY <1>3, <3>1
  <2> QED
    BY <2>1, <2>2 DEF After
<1>5. ASSUME Tells(ln, c, r) PROVE Tells(l2, c, r)
  <2>1. ASSUME NEW i \in 1..m, Crypt(l2[i], c) PROVE After(l2, c, i, r)
    <3>1. i \in 1..n /\ Crypt(ln[i], c)
      BY <1>2, <2>1 DEF Crypt
    <3> QED
      BY <1>4, <1>5, <3>1 DEF Tells
  <2>2. ASSUME NEW i \in 1..m, Is(l2[i], c)
        PROVE  l2[i] = Notice(c, r) \/ \E j \in 1..m : i < j /\ Is(l2[j], c)
    <3>1. i \in 1..n /\ Is(ln[i], c)
      BY <1>2, <2>2
    <3>2. ln[i] = Notice(c, r) \/ \E j \in 1..n : i < j /\ Is(ln[j], c)
      BY <1>5, <3>1 DEF Tells
    <3> QED
      BY <1>3, <3>1, <3>2
  <2> QED
    BY <2>1, <2>2 DEF Tells
<1> QED
  BY <1>2, <1>3, <1>4, <1>5

\* The first notices about a contact tell what it is.
LEMMA FirstNotices ==
  ASSUME NEW c, NEW r \in Reals, NEW l2,
         \A j \in DOMAIN l2 : Is(l2[j], c) => l2[j] = Notice(c, r)
  PROVE  Tells(l2, c, r)
<1>1. ASSUME NEW i \in DOMAIN l2, Crypt(l2[i], c) PROVE After(l2, c, i, r)
  <2>1. l2[i] = Notice(c, r)
    BY <1>1 DEF Crypt
  <2>2. r.client = "crypt"
    BY <1>1, <2>1, NoticeFacts
  <2>3. \A j \in DOMAIN l2 : ~Other(l2[j], c)
    BY <1>1, <2>1 DEF Other
  <2> QED
    BY <2>2, <2>3 DEF After
<1> QED
  BY <1>1 DEF Tells

\* One more notice, about a contact that has changed.
LEMMA GrowsByOne ==
  ASSUME NEW c, NEW r \in Reals, NEW s \in Reals, r # Off /\ s # Off => s.client = r.client,
         NEW n \in Nat, NEW ln, NEW l2, DOMAIN ln = 1..n, DOMAIN l2 = 1..n + 1,
         \A i \in 1..n : l2[i] = ln[i], l2[n + 1] = Notice(c, s), Tells(ln, c, r)
  PROVE  /\ Tells(l2, c, s)
         /\ \A i \in 0..n : After(ln, c, i, r) => After(l2, c, i, s)
<1>1. \A j \in 1..n + 1 : j \in 1..n \/ j = n + 1
  OBVIOUS
<1>2. /\ Is(l2[n + 1], c) /\ n + 1 \in 1..n + 1 /\ \A i \in 1..n : i \in 1..n + 1 /\ i < n + 1
      /\ Goes(l2[n + 1], c) <=> s = Off
      /\ Crypt(l2[n + 1], c) <=> s.client = "crypt"
  BY NoticeFacts
<1>3. ASSUME NEW i \in 0..n, After(ln, c, i, r) PROVE After(l2, c, i, s)
  <2>1. i < n + 1
    BY <1>3
  <2>2. s = Off \/ s.client = "crypt" \/ \E k \in 1..n : i < k /\ Goes(ln[k], c)
    <3>1. CASE r.client = "crypt"
      BY <3>1 DEF Off
    <3>2. CASE r.client # "crypt"
      BY <1>3, <3>2 DEF After
    <3> QED
      BY <3>1, <3>2
  <2>3. ASSUME NEW j \in 1..n + 1, j > i, Other(l2[j], c)
        PROVE  \E k \in 1..n + 1 : i < k /\ k < j /\ Goes(l2[k], c)
    <3>1. CASE j \in 1..n
      <4>1. PICK k \in 1..n : i < k /\ k < j /\ Goes(ln[k], c)
        BY <1>3, <2>3, <3>1 DEF After
      <4> QED
        BY <1>2, <4>1
    <3>2. CASE j = n + 1
      <4>1. PICK k \in 1..n : i < k /\ Goes(ln[k], c)
        BY <1>2, <2>2, <2>3, <3>2 DEF Other
      <4> QED
        BY <1>2, <3>2, <4>1
    <3> QED
      BY <1>1, <3>1, <3>2
  <2>4. ASSUME s.client # "crypt" PROVE \E k \in 1..n + 1 : i < k /\ Goes(l2[k], c)
    <3>1. CASE s = Off
      BY <1>2, <2>1, <3>1
    <3>2. CASE \E k \in 1..n : i < k /\ Goes(ln[k], c)
      BY <1>2, <3>2
    <3> QED
      BY <2>2, <2>4, <3>1, <3>2
  <2> QED
    BY <2>3, <2>4 DEF After
<1>4. ASSUME NEW i \in 1..n + 1, Crypt(l2[i], c) PROVE After(l2, c, i, s)
  <2>1. CASE i \in 1..n
    <3>1. After(ln, c, i, r) /\ i \in 0..n
      BY <1>4, <2>1 DEF Tells
    <3> QED
      BY <1>3, <3>1
  <2>2. CASE i = n + 1
    <3>1. s.client = "crypt" /\ \A j \in 1..n + 1 : ~(j > i)
      BY <1>2, <1>4, <2>2
    <3> QED
      BY <3>1 DEF After
  <2> QED
    BY <1>1, <2>1, <2>2
<1>5. \A i \in 1..n + 1 : Is(l2[i], c) => l2[i] = Notice(c, s) \/ \E j \in 1..n + 1 : i < j /\ Is(l2[j], c)
  BY <1>1, <1>2
<1> QED
  BY <1>3, <1>4, <1>5 DEF Tells

\* The next notice is taken, the hand is empty.
LEMMA Shifts ==
  ASSUME NEW c, NEW r, NEW n \in Nat, NEW ln, NEW l2, DOMAIN ln = 1..n + 1, DOMAIN l2 = 1..n,
         \A i \in 1..n : l2[i] = ln[i + 1], ~Is(ln[1], c)
  PROVE  /\ Tells(ln, c, r) => Tells(l2, c, r)
         /\ After(ln, c, 0, r) => After(l2, c, 0, r)
         /\ (\E i \in 1..n + 1 : Is(ln[i], c)) => \E i \in 1..n : Is(l2[i], c)
<1>1. \A i \in 1..n : i + 1 \in 1..n + 1
  OBVIOUS
<1>2. ASSUME NEW k \in 1..n + 1, Is(ln[k], c)
      PROVE  k - 1 \in 1..n /\ (k - 1) + 1 = k /\ l2[k - 1] = ln[k] /\ k - 1 \in Nat
  <2>1. k # 1
    BY <1>2
  <2>2. k - 1 \in 1..n /\ (k - 1) + 1 = k
    BY <2>1
  <2> QED
    BY <2>2
<1>3. ASSUME NEW i \in Nat, After(ln, c, i + 1, r) PROVE After(l2, c, i, r)
  <2>1. ASSUME NEW j \in 1..n, j > i, Other(l2[j], c)
        PROVE  \E k \in 1..n : i < k /\ k < j /\ Goes(l2[k], c)
    <3>1. j + 1 \in 1..n + 1 /\ j + 1 > i + 1 /\ Other(ln[j + 1], c)
      BY <2>1
    <3>2. PICK k \in 1..n + 1 : i + 1 < k /\ k < j + 1 /\ Goes(ln[k], c)
      BY <1>3, <3>1 DEF After
    <3>3. k - 1 \in 1..n /\ (k - 1) + 1 = k /\ l2[k - 1] = ln[k]
      BY <1>2, <3>2 DEF Goes
    <3> QED
      BY <3>2, <3>3
  <2>2. ASSUME r.client # "crypt" PROVE \E k \in 1..n : i < k /\ Goes(l2[k], c)
    <3>1. PICK k \in 1..n + 1 : i + 1 < k /\ Goes(ln[k], c)
      BY <1>3, <2>2 DEF After
    <3>2. k - 1 \in 1..n /\ (k - 1) + 1 = k /\ l2[k - 1] = ln[k]
      BY <1>2, <3>1 DEF Goes
    <3> QED
      BY <3>1, <3>2
  <2> QED
    BY <2>1, <2>2 DEF After
<1>4. ASSUME After(ln, c, 0, r) PROVE After(ln, c, 1, r)
  <2>1. ASSUME NEW k \in 1..n + 1, Goes(ln[k], c) PROVE 1 < k
    <3>1. k # 1
      BY <2>1 DEF Goes
    <3> QED
      BY <3>1
  <2>2. \A j \in 1..n + 1 : j > 1 => j > 0
    OBVIOUS
  <2> QED
    BY <1>4, <2>1, <2>2 DEF After
<1>5. After(ln, c, 0, r) => After(l2, c, 0, r)
  BY <1>3, <1>4
<1>6. ASSUME Tells(ln, c, r) PROVE Tells(l2, c, r)
  <2>1. ASSUME NEW i \in 1..n, Crypt(l2[i], c) PROVE After(l2, c, i, r)
    <3>1. i + 1 \in 1..n + 1 /\ Crypt(ln[i + 1], c)
      BY <2>1
    <3>2. After(ln, c, i + 1, r)
      BY <1>6, <3>1 DEF Tells
    <3> QED
      BY <1>3, <3>2
  <2>2. ASSUME NEW i \in 1..n, Is(l2[i], c)
        PROVE  l2[i] = Notice(c, r) \/ \E j \in 1..n : i < j /\ Is(l2[j], c)
    <3>1. i + 1 \in 1..n + 1 /\ ln[i + 1] = l2[i]
      BY <2>2
    <3>2. ln[i + 1] = Notice(c, r) \/ \E j \in 1..n + 1 : i + 1 < j /\ Is(ln[j], c)
      BY <1>6, <2>2, <3>1 DEF Tells
    <3>3. ASSUME NEW j \in 1..n + 1, i + 1 < j, Is(ln[j], c) PROVE \E k \in 1..n : i < k /\ Is(l2[k], c)
      <4>1. j - 1 \in 1..n /\ (j - 1) + 1 = j /\ l2[j - 1] = ln[j]
        BY <1>2, <3>3
      <4> QED
        BY <3>3, <4>1
    <3> QED
      BY <3>1, <3>2, <3>3
  <2> QED
    BY <2>1, <2>2 DEF Tells
<1>7. (\E i \in 1..n + 1 : Is(ln[i], c)) => \E i \in 1..n : Is(l2[i], c)
  BY <1>2
<1> QED
  BY <1>5, <1>6, <1>7

\* The notice in the hand is done with.
LEMMA Drops ==
  ASSUME NEW c, NEW r, NEW n \in Nat, NEW ln, NEW l2, DOMAIN ln = 1..n + 1, DOMAIN l2 = 1..n + 1,
         \A i \in 1..n + 1 : i # 1 => l2[i] = ln[i], ~Is(l2[1], c)
  PROVE  /\ Tells(ln, c, r) => Tells(l2, c, r)
         /\ After(ln, c, 1, r) => After(l2, c, 0, r)
         /\ \A i \in 1..n + 1 : i > 1 /\ Is(ln[i], c) => Is(l2[i], c)
         /\ \A i \in 1..n + 1 : Is(l2[i], c) => Is(ln[i], c)
<1>1. \A i, k \in 1..n + 1 : i < k => k # 1
  OBVIOUS
<1>2. \A i \in 1..n + 1 : Is(l2[i], c) => i # 1 /\ l2[i] = ln[i] /\ i > 1
  OBVIOUS
<1>3. ASSUME NEW i \in 1..n + 1, After(ln, c, i, r) PROVE After(l2, c, i, r)
  <2>1. \A k \in 1..n + 1 : i < k => l2[k] = ln[k]
    BY <1>1
  <2>2. ASSUME NEW j \in 1..n + 1, j > i, Other(l2[j], c)
        PROVE  \E k \in 1..n + 1 : i < k /\ k < j /\ Goes(l2[k], c)
    <3>1. Other(ln[j], c)
      BY <2>1, <2>2
    <3>2. PICK k \in 1..n + 1 : i < k /\ k < j /\ Goes(ln[k], c)
      BY <1>3, <2>2, <3>1 DEF After
    <3> QED
      BY <2>1, <3>2
  <2>3. ASSUME r.client # "crypt" PROVE \E k \in 1..n + 1 : i < k /\ Goes(l2[k], c)
    BY <1>3, <2>1, <2>3 DEF After
  <2> QED
    BY <2>2, <2>3 DEF After
<1>4. ASSUME After(ln, c, 1, r) PROVE After(l2, c, 0, r)
  <2>1. After(l2, c, 1, r)
    BY <1>3, <1>4
  <2>2. \A j \in 1..n + 1 : Other(l2[j], c) => j > 1
    BY <1>2 DEF Other
  <2>3. \A k \in 1..n + 1 : 1 < k => 0 < k
    OBVIOUS
  <2> QED
    BY <2>1, <2>2, <2>3 DEF After
<1>5. ASSUME Tells(ln, c, r) PROVE Tells(l2, c, r)
  <2>1. ASSUME NEW i \in 1..n + 1, Crypt(l2[i], c) PROVE After(l2, c, i, r)
    <3>1. Crypt(ln[i], c)
      BY <1>2, <2>1 DEF Crypt
    <3> QED
      BY <1>3, <1>5, <3>1 DEF Tells
  <2>2. ASSUME NEW i \in 1..n + 1, Is(l2[i], c)
        PROVE  l2[i] = Notice(c, r) \/ \E j \in 1..n + 1 : i < j /\ Is(l2[j], c)
    <3>1. l2[i] = ln[i] /\ Is(ln[i], c)
      BY <1>2, <2>2
    <3>2. ln[i] = Notice(c, r) \/ \E j \in 1..n + 1 : i < j /\ Is(ln[j], c)
      BY <1>5, <3>1 DEF Tells
    <3>3. \A j \in 1..n + 1 : i < j => l2[j] = ln[j]
      BY <1>1
    <3> QED
      BY <3>1, <3>2, <3>3
  <2> QED
    BY <2>1, <2>2 DEF Tells
<1>6. /\ \A i \in 1..n + 1 : i > 1 /\ Is(ln[i], c) => Is(l2[i], c)
      /\ \A i \in 1..n + 1 : Is(l2[i], c) => Is(ln[i], c)
  BY <1>2
<1> QED
  BY <1>4, <1>5, <1>6

\* A line of notices that goes on telling of a contact what another one told.
Carries(ln, l2, c, r) ==
  /\ Tells(ln, c, r) => Tells(l2, c, r)
  /\ After(ln, c, 0, r) => After(l2, c, 0, r)
  /\ (\E i \in DOMAIN ln : Is(ln[i], c)) <=> \E i \in DOMAIN l2 : Is(l2[i], c)

LEMMA OnFacts ==
  ASSUME NEW h, NEW q \in Seq(Notices)
  PROVE  /\ Len(q) \in Nat /\ DOMAIN On(h, q) = 1..Len(q) + 1 /\ On(h, q)[1] = h
         /\ \A i \in 1..Len(q) : i + 1 \in 1..Len(q) + 1 /\ On(h, q)[i + 1] = q[i]
         /\ \A i \in 1..Len(q) + 1 : i # 1 => i - 1 \in 1..Len(q) /\ On(h, q)[i] = q[i - 1]
         /\ 1 \in 1..Len(q) + 1
<1>1. Len(q) \in Nat
  OBVIOUS
<1>2. \A i \in 1..Len(q) : i + 1 \in 1..Len(q) + 1 /\ i + 1 # 1 /\ (i + 1) - 1 = i
  BY <1>1
<1>3. \A i \in 1..Len(q) + 1 : i # 1 => i - 1 \in 1..Len(q)
  BY <1>1
<1> QED
  BY <1>1, <1>2, <1>3 DEF On

\* Another notice in the hand, none of them about the contact.
LEMMA HandCarries ==
  ASSUME NEW c, NEW r, NEW h, NEW g, NEW q \in Seq(Notices), h = g \/ (~Is(h, c) /\ ~Is(g, c))
  PROVE  Carries(On(h, q), On(g, q), c, r)
<1> DEFINE ln == On(h, q)
           l2 == On(g, q)
<1>1. DOMAIN ln = 1..Len(q) + 1 /\ DOMAIN l2 = 1..Len(q) + 1
  BY OnFacts
<1>2. \A i \in DOMAIN ln : Is(l2[i], c) \/ Is(ln[i], c) => l2[i] = ln[i]
  BY OnFacts
<1> HIDE DEF ln, l2
<1>3. DOMAIN l2 = DOMAIN ln
  BY <1>1
<1>4. /\ Tells(ln, c, r) => Tells(l2, c, r)
      /\ \A i : After(ln, c, i, r) => After(l2, c, i, r)
      /\ \A i \in DOMAIN ln : Is(l2[i], c) <=> Is(ln[i], c)
  BY <1>2, <1>3, SameLine
<1>5. Carries(ln, l2, c, r)
  BY <1>3, <1>4 DEF Carries
<1> QED
  BY <1>5 DEF ln, l2

\* The queue grows, by notices of others.
LEMMA QueueCarries ==
  ASSUME NEW c, NEW r, NEW h, NEW q \in Seq(Notices), NEW p \in Seq(Notices), Len(q) <= Len(p),
         \A i \in 1..Len(q) : p[i] = q[i],
         \A j \in 1..Len(p) : j > Len(q) => ~Is(p[j], c)
  PROVE  Carries(On(h, q), On(h, p), c, r)
<1> DEFINE ln == On(h, q)
           l2 == On(h, p)
           n == Len(q) + 1
           m == Len(p) + 1
<1>1. n \in Nat /\ m \in Nat /\ n <= m /\ DOMAIN ln = 1..n /\ DOMAIN l2 = 1..m
  BY OnFacts
<1>2. \A i \in 1..n : l2[i] = ln[i]
  <2> TAKE i \in 1..n
  <2>1. CASE i = 1
    BY <2>1, OnFacts
  <2>2. CASE i # 1
    <3>1. i - 1 \in 1..Len(q) /\ ln[i] = q[i - 1] /\ i \in 1..m
      BY <1>1, <2>2, OnFacts
    <3>2. l2[i] = p[i - 1]
      BY <2>2, <3>1, OnFacts
    <3> QED
      BY <3>1, <3>2
  <2> QED
    BY <2>1, <2>2
<1>3. \A j \in 1..m : j > n => ~Is(l2[j], c)
  <2> SUFFICES ASSUME NEW j \in 1..m, j > n PROVE ~Is(l2[j], c)
    OBVIOUS
  <2>1. j # 1 /\ j - 1 > Len(q)
    BY <1>1
  <2>2. j - 1 \in 1..Len(p) /\ l2[j] = p[j - 1]
    BY <2>1, OnFacts
  <2> QED
    BY <2>1, <2>2
<1> HIDE DEF ln, l2, n, m
<1>7. Longer(ln, n, l2, m, c)
  BY <1>1, <1>2, <1>3 DEF Longer
<1>4. /\ Tells(ln, c, r) => Tells(l2, c, r)
      /\ \A i : After(ln, c, i, r) => After(l2, c, i, r)
      /\ \A i \in 1..n : i \in 1..m
      /\ \A j \in 1..m : Is(l2[j], c) => j \in 1..n /\ Is(ln[j], c)
  BY <1>7, GrowsByOthers
<1>5. (\E i \in 1..n : Is(ln[i], c)) <=> \E i \in 1..m : Is(l2[i], c)
  BY <1>2, <1>4
<1>6. Carries(ln, l2, c, r)
  BY <1>1, <1>4, <1>5 DEF Carries
<1> QED
  BY <1>6 DEF ln, l2

LEMMA CarriesOn ==
  ASSUME NEW c, NEW r, NEW l1, NEW l2, NEW l3, Carries(l1, l2, c, r), Carries(l2, l3, c, r)
  PROVE  Carries(l1, l3, c, r)
  BY DEF Carries

\* What holds of a contact goes on holding.
LEMMA ContactCarried ==
  ASSUME NEW c \in Contacts, Contact(c), Carries(On(hand, queue), On(hand', queue'), c, real[c]),
         st'[c] = st[c], fprint'[c] = fprint[c], real'[c] = real[c], c \in subs' <=> c \in subs,
         c \in listed' \ missed' => c \in listed \ missed
  PROVE  Contact(c)'
<1> DEFINE ln == On(hand, queue)
           l2 == On(hand', queue')
<1>1. /\ \A i \in DOMAIN ln : Is(ln[i], c) => c \in subs
      /\ Tells(ln, c, real[c])
      /\ c \in listed \ missed => Knows(ln, c, real[c], st[c], fprint[c], c \in subs)
  BY DEF Contact
<1>2. /\ Tells(ln, c, real[c]) => Tells(l2, c, real[c])
      /\ After(ln, c, 0, real[c]) => After(l2, c, 0, real[c])
      /\ (\E i \in DOMAIN ln : Is(ln[i], c)) <=> \E i \in DOMAIN l2 : Is(l2[i], c)
  BY DEF Carries
<1> HIDE DEF ln, l2
<1>3. \A i \in DOMAIN l2 : Is(l2[i], c) => c \in subs'
  BY <1>1, <1>2
<1>4. Tells(l2, c, real'[c])
  BY <1>1, <1>2
<1>5. ASSUME c \in listed' \ missed'
      PROVE  Knows(l2, c, real'[c], st'[c], fprint'[c], c \in subs')
  BY <1>1, <1>2, <1>5 DEF Knows
<1> QED
  BY <1>3, <1>4, <1>5 DEF Contact, l2

\* A contact the server does not speak of.
LEMMA Unspoken ==
  ASSUME NEW c \in Contacts, \A i \in DOMAIN On(hand', queue') : ~Is(On(hand', queue')[i], c),
         c \notin subs',
         c \in listed' \ missed' => st'[c] = "OFFLINE" /\ fprint'[c] = "none"
  PROVE  Contact(c)'
<1> DEFINE l2 == On(hand', queue')
<1>1. \A i \in DOMAIN l2 : ~Is(l2[i], c)
  OBVIOUS
<1> HIDE DEF l2
<1>2. Tells(l2, c, real'[c])
  BY <1>1 DEF Tells, Crypt
<1>3. c \in listed' \ missed' => Knows(l2, c, real'[c], st'[c], fprint'[c], c \in subs')
  BY DEF Knows
<1> QED
  BY <1>1, <1>2, <1>3 DEF Contact, l2

\* YSM_SendContacts subscribes to contacts and is told of those that are online.
LEMMA SentContact ==
  ASSUME TypeInv, ContactInv, NEW names \in SUBSET Contacts, SendContacts(names), queue' \in Seq(Notices),
         NEW c \in Contacts, hand' = hand \/ (hand.kind # "buddy" /\ hand'.kind # "buddy"),
         real' = real,
         c \in listed' \ missed' =>
           \/ st'[c] = st[c] /\ fprint'[c] = fprint[c] /\ c \in listed \ missed
           \/ st'[c] = "OFFLINE" /\ fprint'[c] = "none" /\ c \notin subs
  PROVE  Contact(c)'
<1>1. /\ Len(queue) \in Nat /\ Len(queue') \in Nat /\ Len(queue) <= Len(queue')
      /\ \A i \in 1..Len(queue) : queue'[i] = queue[i]
      /\ \A j \in 1..Len(queue') : j > Len(queue) =>
           \E d \in names \ subs : up /\ real[d] # Off /\ queue'[j] = Notice(d, real[d])
      /\ up => \A d \in names \ subs : real[d] # Off =>
           \E j \in 1..Len(queue') : j > Len(queue) /\ queue'[j] = Notice(d, real[d])
      /\ subs' = IF up THEN subs \cup names ELSE subs
  BY Sent
<1>2. Contact(c) /\ \A d \in Contacts : real[d] \in Reals
  BY DEF ContactInv, TypeInv
<1> DEFINE ln == On(hand, queue)
           l1 == On(hand', queue)
           l2 == On(hand', queue')
<1>3. hand = hand' \/ (~Is(hand, c) /\ ~Is(hand', c))
  BY DEF Is
<1>4. Carries(ln, l1, c, real[c])
  BY <1>3, HandCarries DEF TypeInv
<1>5. \A j \in 1..Len(queue') : j > Len(queue) /\ Is(queue'[j], c) =>
        up /\ c \in names \ subs /\ queue'[j] = Notice(c, real[c])
  BY <1>1, <1>2, NoticeFacts
<1>6. /\ \A i \in DOMAIN ln : Is(ln[i], c) => c \in subs
      /\ Tells(ln, c, real[c])
      /\ c \in listed \ missed => Knows(ln, c, real[c], st[c], fprint[c], c \in subs)
  BY <1>2 DEF Contact
<1> HIDE DEF ln, l1
<1>7. CASE ~(up /\ c \in names \ subs)
  <2>1. \A j \in 1..Len(queue') : j > Len(queue) => ~Is(queue'[j], c)
    BY <1>5, <1>7
  <2>2. Carries(l1, l2, c, real[c])
    BY <1>1, <2>1, QueueCarries DEF TypeInv, l1
  <2>3. Carries(ln, l2, c, real[c])
    BY <1>4, <2>2, CarriesOn
  <2>4. c \in subs' <=> c \in subs
    BY <1>1, <1>7
  <2> HIDE DEF l2
  <2>5. \A i \in DOMAIN l2 : Is(l2[i], c) => c \in subs'
    BY <1>6, <2>3, <2>4 DEF Carries
  <2>6. Tells(l2, c, real'[c])
    BY <1>6, <2>3 DEF Carries
  <2>7. ASSUME c \in listed' \ missed'
        PROVE  Knows(l2, c, real'[c], st'[c], fprint'[c], c \in subs')
    <3>1. CASE st'[c] = st[c] /\ fprint'[c] = fprint[c] /\ c \in listed \ missed
      BY <1>6, <2>3, <2>4, <3>1 DEF Knows, Carries
    <3>2. CASE st'[c] = "OFFLINE" /\ fprint'[c] = "none" /\ c \notin subs
      BY <2>4, <3>2 DEF Knows
    <3> QED
      BY <2>7, <3>1, <3>2
  <2> QED
    BY <2>5, <2>6, <2>7 DEF Contact, l2
<1>8. CASE up /\ c \in names \ subs
  <2>1. \A i \in DOMAIN l1 : ~Is(l1[i], c)
    BY <1>4, <1>6, <1>8 DEF Carries
  <2>2. ASSUME NEW i \in DOMAIN l2, Is(l2[i], c) PROVE l2[i] = Notice(c, real[c])
    <3>1. i \in 1..Len(queue') + 1 /\ DOMAIN l1 = 1..Len(queue) + 1
      BY <2>2, OnFacts DEF TypeInv, l1
    <3>2. i # 1
      <4>1. 1 \in DOMAIN l1 /\ l1[1] = hand' /\ l2[1] = hand'
        BY OnFacts DEF TypeInv, l1
      <4> QED
        BY <2>1, <2>2, <4>1
    <3>3. i - 1 \in 1..Len(queue') /\ l2[i] = queue'[i - 1]
      BY <3>1, <3>2, OnFacts
    <3>4. i - 1 > Len(queue)
      <4> SUFFICES ASSUME ~(i - 1 > Len(queue)) PROVE FALSE
        OBVIOUS
      <4>1. i - 1 \in 1..Len(queue) /\ i \in 1..Len(queue) + 1
        BY <1>1, <3>1, <3>3
      <4>2. l1[i] = queue[i - 1] /\ queue'[i - 1] = queue[i - 1]
        BY <1>1, <3>2, <4>1, OnFacts DEF TypeInv, l1
      <4> QED
        BY <2>1, <2>2, <3>1, <3>3, <4>1, <4>2
    <3> QED
      BY <1>5, <2>2, <3>3, <3>4
  <2>3. real[c] # Off => \E i \in DOMAIN l2 : Is(l2[i], c)
    <3> SUFFICES ASSUME real[c] # Off PROVE \E i \in DOMAIN l2 : Is(l2[i], c)
      OBVIOUS
    <3>1. PICK j \in 1..Len(queue') : queue'[j] = Notice(c, real[c])
      BY <1>1, <1>8
    <3>2. j + 1 \in DOMAIN l2 /\ l2[j + 1] = queue'[j]
      BY OnFacts
    <3> QED
      BY <1>2, <3>1, <3>2, NoticeFacts
  <2> HIDE DEF l2
  <2>4. Tells(l2, c, real[c])
    BY <1>2, <2>2, FirstNotices
  <2>5. c \in subs'
    BY <1>1, <1>8
  <2>6. ASSUME c \in listed' \ missed' PROVE st'[c] = "OFFLINE" /\ fprint'[c] = "none"
    BY <1>6, <1>8, <2>6 DEF Knows
  <2>7. c \in listed' \ missed' => Knows(l2, c, real'[c], st'[c], fprint'[c], c \in subs')
    BY <2>3, <2>5, <2>6 DEF Knows, Off
  <2> QED
    BY <2>4, <2>5, <2>7 DEF Contact, l2
<1> QED
  BY <1>7, <1>8

\* Steps that leave the contacts and the session alone.
LEMMA ElsewhereContacts ==
  ASSUME TypeInv, ContactInv, queue' \in Seq(Notices),
         UNCHANGED <<st, fprint, listed, subs, real, up, rostered, missed>>,
         hand' = hand \/ (hand.kind # "buddy" /\ hand'.kind # "buddy"),
         \/ queue' = queue
         \/ /\ Len(queue) <= Len(queue') /\ \A i \in 1..Len(queue) : queue'[i] = queue[i]
            /\ \A j \in 1..Len(queue') : j > Len(queue) => queue'[j].kind # "buddy"
  PROVE  ContactInv'
<1>1. ContactTypes' /\ Subscribed'
  BY DEF ContactInv, ContactTypes, Subscribed
<1>2. ASSUME NEW c \in Contacts PROVE Contact(c)'
  <2>1. hand = hand' \/ (~Is(hand, c) /\ ~Is(hand', c))
    BY DEF Is
  <2>2. Carries(On(hand, queue), On(hand', queue), c, real[c])
    BY <2>1, HandCarries DEF TypeInv
  <2>3. Carries(On(hand', queue), On(hand', queue'), c, real[c])
    <3>1. \A j \in 1..Len(queue') : j > Len(queue) => queue' = queue \/ ~Is(queue'[j], c)
      BY DEF Is
    <3>2. CASE queue' = queue
      BY <3>2 DEF Carries
    <3>3. CASE queue' # queue
      BY <3>1, <3>3, QueueCarries DEF TypeInv
    <3> QED
      BY <3>2, <3>3
  <2>4. Carries(On(hand, queue), On(hand', queue'), c, real[c])
    BY <2>2, <2>3, CarriesOn
  <2>5. Contact(c)
    BY DEF ContactInv
  <2> QED
    BY <2>4, <2>5, ContactCarried
<1> QED
  BY <1>1, <1>2 DEF ContactInv

LEMMA OtherStepsContacts ==
  ASSUME TypeInv, TypeInv', ContactInv,
         \/ \E t \in Threads : SendStatus(t) \/ SendPrivacy(t) \/ StoreStatus(t)
         \/ cmdSTATUS \/ cmdCHAT \/ Ready \/ Roster \/ Message \/ EndOfMessages \/ SomebodyWrites
  PROVE  ContactInv'
<1> USE DEF own, contacts, mode, line, server, hist, counts, Command, Handles, Nothing
<1>1. queue' \in Seq(Notices)
  BY DEF TypeInv
<1>2. CASE \/ \E t \in Threads : SendStatus(t) \/ SendPrivacy(t) \/ StoreStatus(t)
           \/ cmdSTATUS \/ cmdCHAT
  <2>1. UNCHANGED <<st, fprint, listed, subs, real, up, rostered, missed, hand, queue>>
    BY <1>2 DEF SendStatus, SendPrivacy, StoreStatus, cmdSTATUS, cmdCHAT
  <2> QED
    BY <1>1, <2>1, ElsewhereContacts
<1>3. CASE Roster \/ Message \/ EndOfMessages
  <2>1. /\ UNCHANGED <<st, fprint, listed, subs, real, up, rostered, missed, queue>>
        /\ hand.kind # "buddy" /\ hand'.kind # "buddy"
    BY <1>3 DEF Roster, Message, EndOfMessages
  <2> QED
    BY <1>1, <2>1, ElsewhereContacts
<1>4. CASE Ready
  <2>1. /\ UNCHANGED <<st, fprint, listed, subs, real, up, rostered, missed>>
        /\ hand.kind # "buddy" /\ hand'.kind # "buddy"
        /\ ~up => queue' = queue
    BY <1>4 DEF Ready
  <2>2. up => /\ Len(queue) <= Len(queue') /\ \A i \in 1..Len(queue) : queue'[i] = queue[i]
              /\ \A j \in 1..Len(queue') : j > Len(queue) => queue'[j].kind # "buddy"
    BY <1>4, ReadyQueue
  <2> QED
    BY <1>1, <2>1, <2>2, ElsewhereContacts
<1>5. CASE SomebodyWrites
  <2>1. /\ UNCHANGED <<st, fprint, listed, subs, real, up, rostered, missed, hand>>
        /\ queue' = queue \/ \E m \in unsent : Push([kind |-> "msg", msg |-> m])
    BY <1>5 DEF SomebodyWrites
  <2>2. ASSUME NEW m \in unsent, Push([kind |-> "msg", msg |-> m])
        PROVE  /\ Len(queue) <= Len(queue') /\ \A i \in 1..Len(queue) : queue'[i] = queue[i]
               /\ \A j \in 1..Len(queue') : j > Len(queue) => queue'[j].kind # "buddy"
    <3>1. [kind |-> "msg", msg |-> m] \in Notices
      BY DEF Notices, Texts, TypeInv
    <3>2. /\ Len(queue) \in Nat /\ Len(queue') = Len(queue) + 1
          /\ queue'[Len(queue) + 1] = [kind |-> "msg", msg |-> m]
          /\ \A i \in 1..Len(queue) : queue'[i] = queue[i]
      BY <2>2, <3>1, Pushed
    <3>3. \A j \in 1..Len(queue') : j > Len(queue) => j = Len(queue) + 1
      BY <3>2
    <3> QED
      BY <3>2, <3>3
  <2> QED
    BY <1>1, <2>1, <2>2, ElsewhereContacts
<1> QED
  BY <1>2, <1>3, <1>4, <1>5

LEMMA DeleteContacts == ASSUME TypeInv, TypeInv', ContactInv, cmdDELSLAVE PROVE ContactInv'
<1>1. PICK d \in listed :
          /\ listed' = listed \ {d} /\ subs' = IF up THEN subs \ {d} ELSE subs
          /\ hand' = Outlived(hand, {d})
          /\ queue' = [i \in 1 .. Len(queue) |-> Outlived(queue[i], {d})]
  BY DEF cmdDELSLAVE
<1>2. UNCHANGED <<st, fprint, real, up, rostered, missed>>
  BY DEF cmdDELSLAVE, hist
<1>3. subs' = subs \ {d}
  BY <1>1 DEF ContactInv, ContactTypes, Subscribed
<1>4. ContactTypes' /\ Subscribed'
  BY <1>1, <1>2, <1>3 DEF ContactInv, ContactTypes, Subscribed
<1> DEFINE ln == On(hand, queue)
           l2 == On(hand', queue')
<1>5. DOMAIN l2 = DOMAIN ln /\ \A i \in DOMAIN ln : l2[i] = Outlived(ln[i], {d}) /\ ln[i] \in Notices
  <2>1. Len(queue') = Len(queue) /\ queue \in Seq(Notices) /\ queue' \in Seq(Notices)
    <3>1. queue \in Seq(Notices) /\ queue' \in Seq(Notices)
      BY DEF TypeInv
    <3>2. Len(queue) \in Nat /\ DOMAIN queue' = 1..Len(queue) /\ DOMAIN queue' = 1..Len(queue')
          /\ Len(queue') \in Nat
      BY <1>1, <3>1
    <3> QED
      BY <3>1, <3>2
  <2>2. DOMAIN l2 = 1..Len(queue) + 1 /\ DOMAIN ln = 1..Len(queue) + 1
    BY <2>1, OnFacts
  <2>3. ASSUME NEW i \in 1..Len(queue) + 1 PROVE l2[i] = Outlived(ln[i], {d}) /\ ln[i] \in Notices
    <3>1. CASE i = 1
      <4>1. ln[1] = hand /\ l2[1] = hand'
        BY <2>1, OnFacts
      <4> HIDE DEF ln, l2
      <4> QED
        BY <1>1, <3>1, <4>1 DEF TypeInv
    <3>2. CASE i # 1
      <4>1. i - 1 \in 1..Len(queue) /\ ln[i] = queue[i - 1]
        BY <2>1, <3>2, OnFacts
      <4>2. l2[i] = queue'[i - 1]
        BY <2>1, <3>2, OnFacts
      <4> QED
        BY <1>1, <2>1, <4>1, <4>2
    <3> QED
      BY <3>1, <3>2
  <2> QED
    BY <2>2, <2>3
<1>6. ASSUME NEW c \in Contacts PROVE Contact(c)'
  <2>1. Contact(c)
    BY DEF ContactInv
  <2> HIDE DEF ln, l2
  <2>2. CASE c = d
    <3>1. ASSUME NEW n \in Notices PROVE ~Is(Outlived(n, {d}), d)
      <4>1. CASE n.kind = "buddy" /\ n.who = d
        <5>1. n \in Buddies
          BY <4>1 DEF Notices, Rosters, Texts, EndNotices, Steps
        <5> QED
          BY <4>1, <5>1 DEF Outlived, Is, Buddies
      <4>2. CASE ~(n.kind = "buddy" /\ n.who = d)
        BY <4>2 DEF Outlived, Is
      <4> QED
        BY <4>1, <4>2
    <3>2. \A i \in DOMAIN l2 : ~Is(l2[i], c)
      BY <1>5, <2>2, <3>1
    <3> QED
      BY <1>1, <1>3, <2>2, <3>2, Unspoken DEF l2
  <2>3. CASE c # d
    <3>1. ASSUME NEW n \in Notices PROVE Is(Outlived(n, {d}), c) \/ Is(n, c) => Outlived(n, {d}) = n
      <4>1. CASE n.kind = "buddy" /\ n.who = d
        <5>1. n \in Buddies
          BY <4>1 DEF Notices, Rosters, Texts, EndNotices, Steps
        <5> QED
          BY <2>3, <4>1, <5>1 DEF Outlived, Is, Buddies
      <4>2. CASE ~(n.kind = "buddy" /\ n.who = d)
        BY <4>2 DEF Outlived
      <4> QED
        BY <4>1, <4>2
    <3>2. \A i \in DOMAIN ln : Is(l2[i], c) \/ Is(ln[i], c) => l2[i] = ln[i]
      BY <1>5, <3>1
    <3>3. Carries(ln, l2, c, real[c])
      BY <1>5, <3>2, SameLine DEF Carries
    <3> QED
      BY <1>1, <1>2, <1>3, <2>1, <2>3, <3>3, ContactCarried DEF ln, l2
  <2> QED
    BY <2>2, <2>3
<1> QED
  BY <1>4, <1>6 DEF ContactInv

LEMMA EndsContacts == ASSUME TypeInv, TypeInv', ContactInv, Disconnects \/ networkReconnect PROVE ContactInv'
<1>1. /\ hand' = Outlived(hand, Contacts) /\ queue' = <<>> /\ subs' = {} /\ listed' = listed
      /\ ~up' /\ up' \in BOOLEAN /\ ~rostered' /\ rostered' \in BOOLEAN
  BY DEF Disconnects, networkReconnect, Ends, contacts
<1>2. /\ st' \in [Contacts -> Statuses] /\ fprint' = fprint /\ missed' \subseteq Contacts
      /\ \A c \in listed \ missed' : st'[c] = "OFFLINE" /\ fprint'[c] = "none"
  <2>1. CASE Disconnects
    BY <2>1 DEF Disconnects, Ends, contacts, Stale, ContactInv, ContactTypes, TypeInv
  <2>2. CASE networkReconnect
    <3>1. fprint' = fprint /\ missed' = {c \in listed : fprint[c] # "none"}
          /\ st' = [c \in Contacts |-> IF c \in listed THEN "OFFLINE" ELSE st[c]]
      BY <2>2 DEF networkReconnect, ResetStatuses
    <3> QED
      BY <3>1 DEF ContactInv, ContactTypes, TypeInv, Statuses
  <2> QED
    BY <2>1, <2>2
<1>3. ContactTypes' /\ Subscribed'
  BY <1>1, <1>2 DEF ContactInv, ContactTypes, Subscribed
<1>4. ASSUME NEW c \in Contacts PROVE Contact(c)'
  <2>1. ~Is(Outlived(hand, Contacts), c)
    <3>1. CASE hand.kind = "buddy" /\ hand.who \in Contacts
      <4>1. hand \in Buddies
        BY <3>1 DEF TypeInv, Notices, Rosters, Texts, EndNotices, Steps
      <4> QED
        BY <3>1, <4>1 DEF Outlived, Is, Buddies
    <3>2. CASE ~(hand.kind = "buddy" /\ hand.who \in Contacts)
      BY <3>2 DEF Outlived, Is
    <3> QED
      BY <3>1, <3>2
  <2>2. \A i \in DOMAIN On(hand', queue') : ~Is(On(hand', queue')[i], c)
    <3>1. DOMAIN On(hand', queue') = 1..1 /\ On(hand', queue')[1] = hand'
      BY <1>1 DEF On
    <3> QED
      BY <1>1, <2>1, <3>1
  <2> QED
    BY <1>1, <1>2, <2>2, Unspoken
<1> QED
  BY <1>3, <1>4 DEF ContactInv

LEMMA ConnectsContacts == ASSUME TypeInv, TypeInv', ContactInv, Connects PROVE ContactInv'
<1>1. /\ UNCHANGED <<st, fprint, listed, subs, real, rostered, missed, hand>> /\ hand = Nothing
      /\ ~up /\ up' = TRUE /\ queue' = <<[kind |-> "personal"]>>
  BY DEF Connects, contacts, server
<1>2. subs = {} /\ ~rostered
  BY <1>1 DEF ContactInv, Subscribed
<1>3. ContactTypes' /\ Subscribed'
  BY <1>1, <1>2 DEF ContactInv, ContactTypes, Subscribed
<1>4. ASSUME NEW c \in Contacts PROVE Contact(c)'
  <2>1. \A i \in DOMAIN On(hand', queue') : ~Is(On(hand', queue')[i], c)
    <3>1. DOMAIN On(hand', queue') = 1..2 /\ On(hand', queue')[1] = Nothing
          /\ On(hand', queue')[2] = [kind |-> "personal"]
      BY <1>1 DEF On
    <3>2. ~Is(Nothing, c) /\ ~Is([kind |-> "personal"], c)
      BY DEF Is, Nothing
    <3>3. 1..2 = {1, 2}
      OBVIOUS
    <3> QED
      BY <3>1, <3>2, <3>3
  <2>2. c \in listed \ missed => st[c] = "OFFLINE" /\ fprint[c] = "none"
    BY <1>2 DEF ContactInv, Contact, Knows
  <2> QED
    BY <1>1, <1>2, <2>1, <2>2, Unspoken
<1> QED
  BY <1>3, <1>4 DEF ContactInv

LEMMA TakesContacts == ASSUME TypeInv, TypeInv', ContactInv, Takes PROVE ContactInv'
<1> DEFINE q == Tail(queue)
           h == Head(queue)
<1>1. /\ queue # <<>> /\ hand.kind = "nothing" /\ queue' = q /\ hand' = h
      /\ UNCHANGED <<st, fprint, listed, subs, real, up, rostered, missed>>
  BY DEF Takes, Nothing, hist, contacts, server
<1>2. /\ Len(queue) \in Nat \ {0} /\ q \in Seq(Notices) /\ Len(q) + 1 = Len(queue) /\ h = queue[1]
      /\ \A i \in 1..Len(q) : q[i] = queue[i + 1] /\ i + 1 \in 1..Len(queue)
      /\ 1 \in 1..Len(queue)
  BY <1>1, HeadTailProperties, EmptySeq DEF TypeInv
<1> HIDE DEF q, h
<1>3. ContactTypes' /\ Subscribed'
  BY <1>1 DEF ContactInv, ContactTypes, Subscribed
<1>4. ASSUME NEW c \in Contacts PROVE Contact(c)'
  <2> DEFINE ln == On(hand, queue)
             l2 == On(hand', queue')
             n == Len(queue)
  <2>1. DOMAIN ln = 1..n + 1 /\ DOMAIN l2 = 1..n /\ n \in Nat
    BY <1>1, <1>2, OnFacts DEF TypeInv
  <2>2. \A i \in 1..n : l2[i] = ln[i + 1]
    <3> TAKE i \in 1..n
    <3>1. ln[i + 1] = queue[i]
      BY OnFacts DEF TypeInv
    <3>2. CASE i = 1
      BY <1>1, <1>2, <3>1, <3>2, OnFacts
    <3>3. CASE i # 1
      <4>1. i \in 1..Len(q) + 1
        BY <1>2
      <4>2. i - 1 \in 1..Len(q) /\ l2[i] = q[i - 1]
        BY <1>1, <1>2, <3>3, <4>1, OnFacts
      <4>3. (i - 1) + 1 = i
        BY <1>2
      <4> QED
        BY <1>2, <3>1, <4>2, <4>3
    <3> QED
      BY <3>2, <3>3
  <2>3. ln[1] = hand /\ ~Is(ln[1], c)
    BY <1>1, OnFacts DEF TypeInv, Is
  <2> HIDE DEF ln, l2, n
  <2>4. /\ Tells(ln, c, real[c]) => Tells(l2, c, real[c])
        /\ After(ln, c, 0, real[c]) => After(l2, c, 0, real[c])
        /\ (\E i \in 1..n + 1 : Is(ln[i], c)) => \E i \in 1..n : Is(l2[i], c)
    BY <2>1, <2>2, <2>3, Shifts
  <2>5. (\E i \in 1..n : Is(l2[i], c)) => \E i \in 1..n + 1 : Is(ln[i], c)
    BY <2>1, <2>2
  <2>6. Carries(ln, l2, c, real[c])
    BY <2>1, <2>4, <2>5 DEF Carries
  <2>7. Contact(c)
    BY DEF ContactInv
  <2> QED
    BY <1>1, <2>6, <2>7, ContactCarried DEF ln, l2
<1> QED
  BY <1>3, <1>4 DEF ContactInv

LEMMA SendsContacts == ASSUME TypeInv, TypeInv', ContactInv, cmdADDSLAVE \/ Personal \/ AfterRoster PROVE ContactInv'
<1>1. CASE cmdADDSLAVE
  <2>1. PICK d \in Contacts \ listed :
          /\ listed' = listed \cup {d} /\ st' = [st EXCEPT ![d] = "OFFLINE"]
          /\ fprint' = [fprint EXCEPT ![d] = "none"] /\ missed' = missed \ {d}
          /\ SendContacts(listed')
    BY <1>1 DEF cmdADDSLAVE
  <2>2. UNCHANGED <<up, rostered, real, hand>>
    BY <1>1 DEF cmdADDSLAVE
  <2>3. listed' \in SUBSET Contacts /\ queue' \in Seq(Notices)
    BY DEF TypeInv
  <2>4. subs' = IF up THEN subs \cup listed' ELSE subs
    BY <2>1, <2>3, Sent
  <2>5. ContactTypes' /\ Subscribed'
    BY <2>1, <2>2, <2>4 DEF ContactInv, ContactTypes, Subscribed, Statuses
  <2>6. ASSUME NEW c \in Contacts PROVE Contact(c)'
    <3>1. c \in listed' \ missed' =>
            \/ st'[c] = st[c] /\ fprint'[c] = fprint[c] /\ c \in listed \ missed
            \/ st'[c] = "OFFLINE" /\ fprint'[c] = "none" /\ c \notin subs
      BY <2>1 DEF ContactInv, ContactTypes, Subscribed
    <3> QED
      BY <2>1, <2>2, <2>3, <3>1, SentContact
  <2> QED
    BY <2>5, <2>6 DEF ContactInv
<1>2. CASE Personal \/ AfterRoster
  <2>1. /\ UNCHANGED <<st, fprint, listed, missed, up, real>> /\ SendContacts(listed)
        /\ hand.kind # "buddy" /\ hand'.kind # "buddy" /\ rostered' \in {rostered, up}
    BY <1>2 DEF Personal, AfterRoster, Handles, Nothing, contacts, hist
  <2>2. listed \in SUBSET Contacts /\ queue' \in Seq(Notices)
    BY DEF TypeInv
  <2>3. subs' = IF up THEN subs \cup listed ELSE subs
    BY <2>1, <2>2, Sent
  <2>4. ContactTypes' /\ Subscribed'
    BY <2>1, <2>3 DEF ContactInv, ContactTypes, Subscribed
  <2>5. ASSUME NEW c \in Contacts PROVE Contact(c)'
    BY <2>1, <2>2, SentContact
  <2> QED
    BY <2>4, <2>5 DEF ContactInv
<1> QED
  BY <1>1, <1>2

LEMMA ChangesContacts == ASSUME TypeInv, TypeInv', ContactInv, ContactChanges PROVE ContactInv'
<1>1. PICK d \in Contacts, to \in Reals :
          /\ real[d] # Off /\ to # Off => to.client = real[d].client
          /\ real' = [real EXCEPT ![d] = to]
          /\ IF up /\ d \in subs THEN Push(Notice(d, to)) ELSE UNCHANGED queue
  BY DEF ContactChanges
<1>2. UNCHANGED <<st, fprint, listed, subs, hand, up, rostered, missed>>
  BY DEF ContactChanges, contacts, hist
<1>3. ContactTypes' /\ Subscribed'
  BY <1>2 DEF ContactInv, ContactTypes, Subscribed
<1>4. queue \in Seq(Notices) /\ queue' \in Seq(Notices) /\ real \in [Contacts -> Reals]
  BY DEF TypeInv
<1>5. ASSUME NEW c \in Contacts PROVE Contact(c)'
  <2>1. Contact(c)
    BY DEF ContactInv
  <2>2. CASE up /\ d \in subs
    <3>1. Notice(d, to) \in Notices
      BY NoticeType DEF Notices
    <3>2. /\ Len(queue) \in Nat /\ Len(queue') = Len(queue) + 1 /\ queue'[Len(queue) + 1] = Notice(d, to)
          /\ \A i \in 1..Len(queue) : queue'[i] = queue[i]
      BY <1>1, <2>2, <3>1, Pushed
    <3>3. CASE c # d
      <4>1. ~Is(Notice(d, to), c)
        BY <3>3, NoticeFacts
      <4>2. \A j \in 1..Len(queue') : j > Len(queue) => j = Len(queue) + 1
        BY <3>2
      <4>3. Len(queue) <= Len(queue') /\ \A j \in 1..Len(queue') : j > Len(queue) => ~Is(queue'[j], c)
        BY <3>2, <4>1, <4>2
      <4>4. Carries(On(hand, queue), On(hand', queue'), c, real[c])
        BY <1>2, <1>4, <3>2, <4>3, QueueCarries
      <4> QED
        BY <1>1, <1>2, <1>4, <2>1, <3>3, <4>4, ContactCarried
    <3>4. CASE c = d
      <4> DEFINE ln == On(hand, queue)
                 l2 == On(hand', queue')
                 n == Len(queue) + 1
      <4>1. n \in Nat /\ DOMAIN ln = 1..n /\ DOMAIN l2 = 1..n + 1
        BY <1>4, <3>2, OnFacts
      <4>2. \A i \in 1..n : l2[i] = ln[i]
        <5> TAKE i \in 1..n
        <5>1. CASE i = 1
          BY <1>2, <1>4, <5>1, OnFacts
        <5>2. CASE i # 1
          <6>1. i - 1 \in 1..Len(queue) /\ ln[i] = queue[i - 1]
            BY <1>4, <5>2, OnFacts
          <6>2. i \in 1..Len(queue') + 1
            BY <3>2
          <6>3. l2[i] = queue'[i - 1]
            BY <1>4, <5>2, <6>2, OnFacts
          <6> QED
            BY <3>2, <6>1, <6>3
        <5> QED
          BY <5>1, <5>2
      <4>3. l2[n + 1] = Notice(c, to)
        <5>1. n \in 1..Len(queue')
          BY <3>2
        <5>2. l2[n + 1] = queue'[n]
          BY <1>4, <5>1, OnFacts
        <5> QED
          BY <3>2, <3>4, <5>2
      <4>4. /\ \A i \in DOMAIN ln : Is(ln[i], c) => c \in subs
            /\ Tells(ln, c, real[c])
            /\ c \in listed \ missed => Knows(ln, c, real[c], st[c], fprint[c], c \in subs)
        BY <2>1 DEF Contact
      <4>5. real'[c] = to /\ real[c] \in Reals /\ (real[c] # Off /\ to # Off => to.client = real[c].client)
        BY <1>1, <1>4, <3>4
      <4> HIDE DEF ln, l2, n
      <4>6. /\ Tells(l2, c, to)
            /\ \A i \in 0..n : After(ln, c, i, real[c]) => After(l2, c, i, to)
        BY <4>1, <4>2, <4>3, <4>4, <4>5, GrowsByOne
      <4>7. 0 \in 0..n /\ n + 1 \in DOMAIN l2 /\ Is(l2[n + 1], c)
        BY <4>1, <4>3, NoticeFacts
      <4>8. ASSUME c \in listed' \ missed'
            PROVE  Knows(l2, c, to, st'[c], fprint'[c], c \in subs')
        BY <1>2, <2>2, <3>4, <4>4, <4>6, <4>7, <4>8 DEF Knows
      <4> QED
        BY <1>2, <2>2, <3>4, <4>5, <4>6, <4>8 DEF Contact, l2
    <3> QED
      BY <3>3, <3>4
  <2>3. CASE ~(up /\ d \in subs)
    <3>1. queue' = queue /\ d \notin subs
      BY <1>1, <2>3 DEF ContactInv, Subscribed
    <3>2. CASE c # d
      <4>1. Carries(On(hand, queue), On(hand', queue'), c, real[c])
        BY <1>2, <3>1 DEF Carries
      <4> QED
        BY <1>1, <1>2, <1>4, <2>1, <3>2, <4>1, ContactCarried
    <3>3. CASE c = d
      <4>1. \A i \in DOMAIN On(hand', queue') : ~Is(On(hand', queue')[i], c)
        BY <1>2, <2>1, <3>1, <3>3 DEF Contact
      <4>2. c \in listed \ missed => st[c] = "OFFLINE" /\ fprint[c] = "none"
        BY <2>1, <3>1, <3>3 DEF Contact, Knows
      <4> QED
        BY <1>2, <3>1, <3>3, <4>1, <4>2, Unspoken
    <3> QED
      BY <3>2, <3>3
  <2> QED
    BY <2>2, <2>3
<1> QED
  BY <1>3, <1>5 DEF ContactInv

\* What a notice in the hand makes of its contact.
LEMMA Heard ==
  ASSUME TypeInv, ContactInv, Buddy, hand.who \in listed, hand.fresh, NEW r \in Reals
  PROVE  LET c == hand.who IN
         /\ hand = Notice(c, r) => st'[c] = r.status
         /\ fprint'[c] = "crypt" => \/ Crypt(hand, c)
                                    \/ Other(hand, c) /\ fprint[c] = "crypt" /\ (c \in missed => c \in missed')
<1> DEFINE c == hand.who
<1>1. /\ ChangeStatus(c)
      /\ missed' = IF st'[c] # "OFFLINE" /\ fprint[c] = "crypt" /\ hand.tlvs \cap {"crypt", "caps"} = {}
                   THEN missed ELSE missed \ {c}
  BY DEF Buddy
<1>2. hand \in Buddies /\ c \in Contacts /\ Is(hand, c)
  BY DEF Buddy, Handles, TypeInv, Notices, Rosters, Texts, EndNotices, Steps, Buddies, Is
<1>3. st \in [Contacts -> Statuses] /\ fprint \in [Contacts -> {"crypt", "none"}]
  BY DEF ContactInv, ContactTypes
<1>4. CASE hand.sub = "ONCOMING"
  <2>1. UpdateStatus(c, YSM_BuddyParseStatus(hand.tlvs), parseCapabilities(hand.tlvs, fprint[c]))
    BY <1>1, <1>4 DEF ChangeStatus
  <2>2. st'[c] = IF "AWAY" \in hand.tlvs THEN "AWAY" ELSE "ONLINE"
    BY <1>2, <1>3, <2>1 DEF UpdateStatus, YSM_BuddyParseStatus
  <2>3. fprint'[c] = IF "crypt" \in hand.tlvs THEN "crypt" ELSE IF "caps" \in hand.tlvs THEN "none" ELSE fprint[c]
    <3>1. fprint' = [fprint EXCEPT ![c] = IF YSM_BuddyParseStatus(hand.tlvs).status = "OFFLINE" THEN "none"
                       ELSE Client(YSM_BuddyParseStatus(hand.tlvs), parseCapabilities(hand.tlvs, fprint[c]))]
      BY <2>1 DEF UpdateStatus
    <3>2. YSM_BuddyParseStatus(hand.tlvs).status # "OFFLINE"
      BY DEF YSM_BuddyParseStatus
    <3>3. Client(YSM_BuddyParseStatus(hand.tlvs), parseCapabilities(hand.tlvs, fprint[c])) =
            IF "crypt" \in hand.tlvs THEN "crypt" ELSE IF "caps" \in hand.tlvs THEN "none" ELSE fprint[c]
      BY DEF YSM_BuddyParseStatus, Client, parseCapabilities
    <3> QED
      BY <1>2, <1>3, <3>1, <3>2, <3>3
  <2>4. ASSUME hand = Notice(c, r) PROVE st'[c] = r.status
    <3>1. r # Off /\ hand.tlvs = {r.status, r.client} \cap Marks
      BY <1>4, <2>4 DEF Notice, Marks
    <3>2. r.status \in {"ONLINE", "AWAY"} /\ r.client \in {"crypt", "other", "caps"}
      BY <3>1 DEF Reals
    <3>3. "AWAY" \in hand.tlvs <=> r.status = "AWAY"
      BY <3>1, <3>2 DEF Marks
    <3> QED
      BY <2>2, <3>2, <3>3
  <2>5. ASSUME fprint'[c] = "crypt", ~Crypt(hand, c)
        PROVE  Other(hand, c) /\ fprint[c] = "crypt" /\ (c \in missed => c \in missed')
    <3>1. "crypt" \notin hand.tlvs
      BY <1>2, <2>5 DEF Crypt
    <3>2. "caps" \notin hand.tlvs /\ fprint[c] = "crypt"
      BY <2>3, <2>5, <3>1
    <3>3. Other(hand, c)
      BY <1>2, <1>4, <2>5 DEF Other, Goes
    <3>4. hand.tlvs \cap {"crypt", "caps"} = {} /\ st'[c] # "OFFLINE"
      BY <2>2, <3>1, <3>2
    <3> QED
      BY <1>1, <3>2, <3>3, <3>4
  <2> QED
    BY <2>4, <2>5
<1>5. CASE hand.sub # "ONCOMING"
  <2>1. st'[c] = "OFFLINE" /\ fprint'[c] = "none"
    BY <1>1, <1>2, <1>3, <1>5 DEF ChangeStatus, UpdateStatus
  <2>2. hand = Notice(c, r) => r = Off
    BY <1>5 DEF Notice
  <2> QED
    BY <2>1, <2>2 DEF Off
<1> QED
  BY <1>4, <1>5

LEMMA BuddyContacts == ASSUME TypeInv, TypeInv', ContactInv, Buddy PROVE ContactInv'
<1> DEFINE d == hand.who
<1>1. /\ UNCHANGED <<listed, subs, real, up, rostered, queue>> /\ hand' = Nothing /\ hand.kind = "buddy"
      /\ d \notin listed => UNCHANGED <<st, fprint, missed>>
      /\ d \in listed => ChangeStatus(d) /\ (hand.fresh \/ missed' = missed \cup {d})
  BY DEF Buddy, Handles, server
<1>2. hand \in Buddies /\ d \in Contacts
  BY <1>1 DEF TypeInv, Notices, Rosters, Texts, EndNotices, Steps, Buddies
<1>3. missed \ {d} \subseteq missed' /\ missed' \subseteq missed \cup {d}
  BY DEF Buddy
<1>4. /\ st \in [Contacts -> Statuses] /\ fprint \in [Contacts -> {"crypt", "none"}] /\ missed \subseteq Contacts
  BY DEF ContactInv, ContactTypes
<1>5. /\ st' \in [Contacts -> Statuses] /\ fprint' \in [Contacts -> {"crypt", "none"}]
      /\ \A c \in Contacts : c # d => st'[c] = st[c] /\ fprint'[c] = fprint[c]
  <2>1. CASE d \notin listed
    BY <1>1, <1>4, <2>1
  <2>2. CASE d \in listed
    <3>1. PICK says \in [status : {"ONLINE", "AWAY", "OFFLINE"}, fprint : {"crypt", "none"}], known \in {"crypt", "none"} :
            UpdateStatus(d, says, known)
      <4>1. CASE hand.sub = "ONCOMING"
        <5>1. UpdateStatus(d, YSM_BuddyParseStatus(hand.tlvs), parseCapabilities(hand.tlvs, fprint[d]))
          BY <1>1, <2>2, <4>1 DEF ChangeStatus
        <5>2. YSM_BuddyParseStatus(hand.tlvs) \in [status : {"ONLINE", "AWAY", "OFFLINE"}, fprint : {"crypt", "none"}]
          BY DEF YSM_BuddyParseStatus
        <5>3. parseCapabilities(hand.tlvs, fprint[d]) \in {"crypt", "none"}
          BY <1>2, <1>4 DEF parseCapabilities
        <5> QED
          BY <5>1, <5>2, <5>3
      <4>2. CASE hand.sub # "ONCOMING"
        <5>1. UpdateStatus(d, [status |-> "OFFLINE", fprint |-> "none"], fprint[d])
          BY <1>1, <2>2, <4>2 DEF ChangeStatus
        <5>2. fprint[d] \in {"crypt", "none"}
          BY <1>2, <1>4
        <5> QED
          BY <5>1, <5>2
      <4> QED
        BY <4>1, <4>2
    <3>2. Client(says, known) \in {"crypt", "none"} /\ says.status \in Statuses
      BY DEF Client, Statuses
    <3> QED
      BY <1>2, <1>4, <3>1, <3>2 DEF UpdateStatus
  <2> QED
    BY <2>1, <2>2
<1>6. ContactTypes' /\ Subscribed'
  BY <1>1, <1>2, <1>3, <1>4, <1>5 DEF ContactInv, ContactTypes, Subscribed
<1>7. queue \in Seq(Notices)
  BY DEF TypeInv
<1> HIDE DEF d
<1>8. ASSUME NEW c \in Contacts PROVE Contact(c)'
  <2>1. Contact(c)
    BY DEF ContactInv
  <2>2. ~Is(hand', c)
    BY <1>1 DEF Nothing, Is
  <2>3. CASE c # d
    <3>1. ~Is(hand, c)
      BY <2>3 DEF Is, d
    <3>2. Carries(On(hand, queue), On(hand', queue'), c, real[c])
      BY <1>1, <1>7, <2>2, <3>1, HandCarries
    <3>3. c \in listed' \ missed' => c \in listed \ missed
      BY <1>1, <1>3, <2>3
    <3> QED
      BY <1>1, <1>5, <2>1, <2>3, <3>2, <3>3, ContactCarried
  <2>4. CASE c = d
    <3> DEFINE ln == On(hand, queue)
               l2 == On(hand', queue')
               n == Len(queue)
    <3>1. n \in Nat /\ DOMAIN ln = 1..n + 1 /\ DOMAIN l2 = 1..n + 1 /\ ln[1] = hand /\ l2[1] = hand'
      BY <1>1, <1>7, OnFacts
    <3>2. \A i \in 1..n + 1 : i # 1 => l2[i] = ln[i]
      BY <1>1, <1>7, OnFacts
    <3>3. /\ \A i \in DOMAIN ln : Is(ln[i], c) => c \in subs
          /\ Tells(ln, c, real[c])
          /\ c \in listed \ missed => Knows(ln, c, real[c], st[c], fprint[c], c \in subs)
      BY <2>1 DEF Contact
    <3> HIDE DEF ln, l2, n
    <3>4. /\ Tells(l2, c, real[c])
          /\ After(ln, c, 1, real[c]) => After(l2, c, 0, real[c])
          /\ \A i \in 1..n + 1 : i > 1 /\ Is(ln[i], c) => Is(l2[i], c)
          /\ \A i \in 1..n + 1 : Is(l2[i], c) => Is(ln[i], c)
      BY <2>2, <3>1, <3>2, <3>3, Drops
    <3>5. \A i \in DOMAIN l2 : Is(l2[i], c) => c \in subs
      BY <3>1, <3>3, <3>4
    <3>6. ASSUME c \in listed' \ missed'
          PROVE  Knows(l2, c, real[c], st'[c], fprint'[c], c \in subs)
      <4>1. c \in listed /\ hand.fresh
        BY <1>1, <2>4, <3>6
      <4>2. Is(hand, c) /\ 1 \in 1..n + 1 /\ c \in subs /\ real[c] \in Reals
        BY <1>1, <2>4, <3>1, <3>3, <4>1 DEF Is, d, TypeInv
      <4>3. /\ hand = Notice(c, real[c]) => st'[c] = real[c].status
            /\ fprint'[c] = "crypt" => \/ Crypt(hand, c)
                                       \/ Other(hand, c) /\ fprint[c] = "crypt" /\ (c \in missed => c \in missed')
        BY <2>4, <4>1, <4>2, Heard DEF d
      <4>4. st'[c] = real[c].status \/ \E i \in DOMAIN l2 : Is(l2[i], c)
        <5>1. hand = Notice(c, real[c]) \/ \E j \in 1..n + 1 : 1 < j /\ Is(ln[j], c)
          BY <3>1, <3>3, <4>2 DEF Tells
        <5> QED
          BY <3>1, <3>4, <4>3, <5>1
      <4>5. ASSUME fprint'[c] = "crypt" PROVE After(l2, c, 0, real[c])
        <5>1. CASE Crypt(hand, c)
          BY <3>1, <3>3, <3>4, <4>2, <5>1 DEF Tells
        <5>2. CASE Other(hand, c) /\ fprint[c] = "crypt" /\ (c \in missed => c \in missed')
          <6>1. After(ln, c, 0, real[c])
            BY <3>3, <3>6, <4>1, <5>2 DEF Knows
          <6>2. PICK k \in 1..n + 1 : 0 < k /\ k < 1
            BY <3>1, <4>2, <5>2, <6>1 DEF After
          <6> QED
            BY <6>2
        <5> QED
          BY <4>3, <4>5, <5>1, <5>2
      <4> QED
        BY <4>2, <4>4, <4>5 DEF Knows
    <3> QED
      BY <1>1, <3>4, <3>5, <3>6 DEF Contact, l2
  <2> QED
    BY <2>3, <2>4
<1> QED
  BY <1>6, <1>8 DEF ContactInv

LEMMA InitContacts == ASSUME Init PROVE ContactInv
<1>1. ContactTypes /\ Subscribed
  BY DEF Init, ContactTypes, Subscribed, Statuses
<1>2. ASSUME NEW c \in Contacts PROVE Contact(c)
  <2>1. \A i \in DOMAIN On(hand, queue) : ~Is(On(hand, queue)[i], c)
    <3>1. DOMAIN On(hand, queue) = 1..1 /\ On(hand, queue)[1] = Nothing
      BY DEF On, Init
    <3>2. ~Is(Nothing, c)
      BY DEF Is, Nothing
    <3> QED
      BY <3>1, <3>2
  <2>2. st[c] = "OFFLINE" /\ fprint[c] = "none" /\ c \notin subs
    BY DEF Init
  <2>3. Tells(On(hand, queue), c, real[c])
    BY <2>1 DEF Tells, Crypt
  <2>4. Knows(On(hand, queue), c, real[c], st[c], fprint[c], c \in subs)
    BY <2>2 DEF Knows
  <2> QED
    BY <2>1, <2>3, <2>4 DEF Contact
<1> QED
  BY <1>1, <1>2 DEF ContactInv

LEMMA NextContacts == ASSUME TypeInv, TypeInv', ContactInv, [Next]_vars PROVE ContactInv'
<1>1. CASE UNCHANGED vars
  <2>1. UNCHANGED <<st, fprint, listed, subs, real, up, rostered, missed, hand, queue>>
    BY <1>1 DEF vars, contacts, line, server, hist
  <2>2. queue' \in Seq(Notices)
    BY DEF TypeInv
  <2> QED
    BY <2>1, <2>2, ElsewhereContacts
<1> QED
  BY <1>1, OtherStepsContacts, DeleteContacts, EndsContacts, ConnectsContacts, TakesContacts, SendsContacts,
     ChangesContacts, BuddyContacts DEF Next

\* When nothing is on its way, a contact has the status the server knows, and
\* is taken for a client that decrypts only if it is one (network.c, the family
\* 0x03): unless it was online, or known by its client, at the end of a
\* session, and the server has not spoken of it since.
THEOREM ContactsFollowed == Spec => []ContactsAgree
<1>1. TypeInv /\ ContactInv => ContactsAgree
  <2> SUFFICES ASSUME TypeInv, ContactInv, Settled, queue = <<>>, NEW c \in listed \ missed
               PROVE  c \in subs /\ st[c] = real[c].status /\ (fprint[c] = "crypt" => real[c].client = "crypt")
    BY DEF ContactsAgree
  <2>1. c \in Contacts /\ c \in subs
    BY DEF Settled, ContactInv, Subscribed, TypeInv
  <2>2. Knows(On(hand, queue), c, real[c], st[c], fprint[c], c \in subs)
    BY <2>1 DEF ContactInv, Contact
  <2>3. \A i \in DOMAIN On(hand, queue) : ~Is(On(hand, queue)[i], c) /\ ~Goes(On(hand, queue)[i], c)
    <3>1. DOMAIN On(hand, queue) = 1..1 /\ On(hand, queue)[1] = Nothing
      BY DEF On, Settled
    <3>2. ~Is(Nothing, c) /\ ~Goes(Nothing, c)
      BY DEF Is, Goes, Nothing
    <3> QED
      BY <3>1, <3>2
  <2> QED
    BY <2>1, <2>2, <2>3 DEF Knows, After
<1>2. Init => TypeInv /\ ContactInv
  BY InitIInv, InitContacts DEF IInv
<1>3. TypeInv /\ ContactInv /\ [Next]_vars => (TypeInv /\ ContactInv)'
  <2>1. TypeInv /\ [Next]_vars => TypeInv'
    BY TypeStep
  <2> QED
    BY <2>1, NextContacts
<1> QED
  BY <1>1, <1>2, <1>3, PTL DEF Spec
=============================================================================
