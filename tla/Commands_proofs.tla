---------------------------- MODULE Commands_proofs ----------------------------
(***************************************************************************)
(* A command on its way: the line that carries it over the control         *)
(* connection (Control), and the handlers that carry it out under the      *)
(* mutex of the slave list (SlaveLock).                                    *)
(*                                                                         *)
(* First the handlers.  While no roster is inserted without the mutex, they*)
(* exclude each other and find the list as they left it, for any number of *)
(* slaves and threads, and although three of their returns keep the mutex. *)
(*                                                                         *)
(* Then the lines, of any length and for a buffer of any size.  As long as *)
(* the client keeps the buffer from filling up and sends no empty line,    *)
(* each line reaches YSM_DoCommand whole, once and in order, whatever the  *)
(* pieces recv() returns; and YSM_ParseCommand and doCommand do with any   *)
(* line whose arguments have room in argv what its words say.              *)
(*                                                                         *)
(* The invariant lays the lines that have not been carried out over the    *)
(* bytes that are in the buffer or on the wire: at[i] is where line i ends.*)
(* The scan begins at the first or the second byte, and a line is no       *)
(* shorter than one byte, so the first line end it finds is that of the    *)
(* first line (Found).                                                     *)
(*                                                                         *)
(* A word is known by its place: Nth(S, j) is the j-th member of a set of  *)
(* places (Places).  The blanks that cut a line into arguments are the     *)
(* ends of its words, but for a word at the very end of the line; so both  *)
(* divisions count alike, and the j-th argument ends with the j-th word.   *)
(***************************************************************************)
EXTENDS SlaveLock, Control, FiniteSetTheorems, SequenceTheorems, TLAPS

-----------------------------------------------------------------------------
(* The handlers. *)

Cell == listed \cup {ListHead}

Closed(S) == /\ suc[ListHead] \in Slave => suc[ListHead] \in S
             /\ \A m \in S : suc[m] \in Slave => suc[m] \in S

(* The list: pointers of listed slaves lead to listed slaves, no two of them*)
(* to the same one, every closed set of slaves holds them all, and a deleted*)
(* slave still leads to a slave that is or was listed.                      *)
Refs    == \A m \in Cell : suc[m] \in listed \cup {Nil}
OneBack == \A m, n \in Cell : suc[m] = suc[n] => m = n \/ suc[m] = Nil
Covered == \A S \in SUBSET Slave : Closed(S) => listed \subseteq S
GoneRefs == /\ listed \cap gone = {}
            /\ \A g \in gone : suc[g] \in listed \cup gone \cup {Nil}

ListInv == Refs /\ OneBack /\ Covered /\ GoneRefs

(* What a thread may rely on, by its place in the handler.                  *)
At(t) ==
    /\ pc[t] \in Inside => owner = t
    /\ pc[t] \in Inserting => job[t].kind = "add"
    /\ pc[t] \in {"splice", "link"} =>
          cur[t] \in Cell /\ job[t].slave \in Slave \ (listed \cup gone)
    /\ pc[t] = "link" => suc[job[t].slave] = suc[cur[t]]
    /\ pc[t] \in {"use", "walk"} => cur[t] \in listed \cup {Nil}
    /\ pc[t] = "unlink" => cur[t] \in listed
    /\ pc[t] = "polling" => cur[t] \in listed \cup gone \cup {Nil}

IInv == ~Rosters /\ TypeOK /\ ListInv /\ \A t \in Thread : At(t)

------------------------------------------------------------------------------
LEMMA ReachIsListed == ASSUME TypeOK, ListInv PROVE Reach = listed
<1>1. listed \in SUBSET Slave
  BY DEF TypeOK
<1>2. Closed(listed)
  BY PointerAssumption DEF Closed, ListInv, Refs, Cell
<1>3. Reach \subseteq listed
  BY <1>1, <1>2 DEF Reach, Closed
<1>4. listed \subseteq Reach
  BY <1>1 DEF Reach, ListInv, Covered, Closed
<1> QED
  BY <1>3, <1>4

(* The thread that does not move: either it is not inside, or nothing that  *)
(* it relies on changes.                                                    *)
LEMMA OtherAt ==
  ASSUME NEW s \in Thread, At(s),
         pc'[s] = pc[s], job'[s] = job[s], cur'[s] = cur[s],
         listed \cup gone \subseteq listed' \cup gone',
         pc[s] \notin Inside \/ UNCHANGED <<owner, suc, listed, gone>>
  PROVE  At(s)'
  BY DEF At, Cell, Inside, Inserting

LEMMA SameList == ASSUME ListInv, UNCHANGED <<suc, listed, gone>> PROVE ListInv'
  BY DEF ListInv, Refs, OneBack, Covered, GoneRefs, Cell, Closed

LEMMA SpliceKeeps ==
  ASSUME TypeOK, ListInv, NEW n \in Slave \ (listed \cup gone), NEW p \in Cell,
         suc' = [suc EXCEPT ![n] = suc[p]], UNCHANGED <<listed, gone>>
  PROVE  ListInv'
<1>1. n \notin Cell /\ \A m \in Cell \cup gone : suc'[m] = suc[m]
  BY PointerAssumption DEF Cell, TypeOK
<1>2. Refs' /\ OneBack' /\ GoneRefs'
  BY <1>1 DEF ListInv, Refs, OneBack, GoneRefs, Cell
<1>3. ASSUME NEW S \in SUBSET Slave, Closed(S)' PROVE listed' \subseteq S
  <2>1. Closed(S \cap listed)
    BY <1>1, <1>3, PointerAssumption DEF Closed, ListInv, Refs, Cell
  <2> QED
    BY <2>1 DEF ListInv, Covered
<1> QED
  BY <1>2, <1>3 DEF ListInv, Covered

LEMMA LinkKeeps ==
  ASSUME TypeOK, ListInv, NEW n \in Slave \ (listed \cup gone), NEW p \in Cell,
         suc[n] = suc[p], suc' = [suc EXCEPT ![p] = n],
         listed' = listed \cup {n}, gone' = gone
  PROVE  ListInv'
<1>1. n \notin Cell /\ p \notin gone /\ n # Nil
  BY PointerAssumption DEF Cell, TypeOK, ListInv, GoneRefs
<1>2. suc'[p] = n /\ \A m \in (Slave \cup {ListHead}) \ {p} : suc'[m] = suc[m]
  BY DEF TypeOK, Cell
<1>3. Cell' = Cell \cup {n} /\ Cell \subseteq Slave \cup {ListHead} /\ suc'[n] = suc[p]
  BY <1>1, <1>2 DEF Cell, TypeOK
<1>4. Refs'
  BY <1>1, <1>2, <1>3 DEF ListInv, Refs, Cell
<1>5. OneBack'
  <2>1. \A m \in Cell : suc[m] # n
    BY <1>1 DEF ListInv, Refs, Cell
  <2>2. ASSUME NEW m \in Cell', NEW l \in Cell', suc'[m] = suc'[l]
        PROVE  m = l \/ suc'[m] = Nil
    BY <1>1, <1>2, <1>3, <2>1, <2>2 DEF ListInv, OneBack
  <2> QED
    BY <2>2 DEF OneBack
<1>6. GoneRefs'
  <2>1. \A g \in gone : suc'[g] = suc[g]
    BY <1>1, <1>2 DEF TypeOK
  <2> QED
    BY <2>1 DEF ListInv, GoneRefs
<1>7. ASSUME NEW S \in SUBSET Slave, Closed(S)' PROVE listed' \subseteq S
  <2>1. Closed(S)
    <3>1. suc[ListHead] \in Slave => suc[ListHead] \in S
      BY <1>1, <1>2, <1>3, <1>7 DEF Closed, Cell
    <3>2. ASSUME NEW m \in S, suc[m] \in Slave PROVE suc[m] \in S
      <4>1. CASE m = p
        BY <1>2, <1>3, <1>7, <3>2, <4>1 DEF Closed
      <4>2. CASE m # p
        BY <1>2, <1>7, <3>2, <4>2 DEF Closed
      <4> QED
        BY <4>1, <4>2
    <3> QED
      BY <3>1, <3>2 DEF Closed
  <2>2. listed \subseteq S
    BY <2>1 DEF ListInv, Covered
  <2>3. n \in S
    BY <1>2, <1>7, <2>2 DEF Closed, Cell
  <2> QED
    BY <2>2, <2>3
<1> QED
  BY <1>4, <1>5, <1>6, <1>7 DEF ListInv, Covered

LEMMA UnlinkKeeps ==
  ASSUME TypeOK, ListInv, NEW c \in listed, NEW p \in Cell, suc[p] = c,
         suc' = [suc EXCEPT ![p] = suc[c]],
         listed' = listed \ {c}, gone' = gone \cup {c}
  PROVE  ListInv'
<1>0. c \in Slave /\ c # ListHead /\ c # Nil /\ c \in Cell /\ Cell \subseteq Slave \cup {ListHead}
  BY PointerAssumption DEF Cell, TypeOK
<1>1. \A m \in Cell : suc[m] = c => m = p
  BY <1>0 DEF ListInv, OneBack
<1>2. suc'[p] = suc[c] /\ \A m \in (Slave \cup {ListHead}) \ {p} : suc'[m] = suc[m]
  BY <1>0 DEF TypeOK
<1>3. p # c
  <2>1. SUFFICES ASSUME p = c PROVE FALSE
    OBVIOUS
  <2>2. Closed(listed \ {c})
    BY <1>0, <1>1, <2>1, PointerAssumption DEF Closed, ListInv, Refs, Cell
  <2>3. listed \subseteq listed \ {c}
    BY <2>2 DEF ListInv, Covered, TypeOK
  <2> QED
    BY <2>3
<1>4. Cell' = Cell \ {c}
  BY <1>0 DEF Cell
<1>5. Refs'
  BY <1>0, <1>1, <1>2, <1>3, <1>4 DEF ListInv, Refs
<1>6. OneBack'
  <2>1. ASSUME NEW m \in Cell', NEW l \in Cell', suc'[m] = suc'[l]
        PROVE  m = l \/ suc'[m] = Nil
    BY <1>0, <1>2, <1>4, <2>1 DEF ListInv, OneBack
  <2> QED
    BY <2>1 DEF OneBack
<1>7. GoneRefs'
  <2>1. p \notin gone /\ \A g \in gone : suc'[g] = suc[g]
    BY <1>0, <1>2, PointerAssumption DEF Cell, ListInv, GoneRefs, TypeOK
  <2>2. suc'[c] \in listed \cup {Nil}
    BY <1>0, <1>2, <1>3 DEF ListInv, Refs
  <2> QED
    BY <2>1, <2>2 DEF ListInv, GoneRefs
<1>8. ASSUME NEW S \in SUBSET Slave, Closed(S)' PROVE listed' \subseteq S
  <2>1. p = ListHead \/ p \in S
    <3>1. SUFFICES ASSUME p # ListHead, p \notin S PROVE FALSE
      OBVIOUS
    <3>2. Closed((S \cap listed) \ {c})
      <4>1. suc[ListHead] \in Slave => suc[ListHead] \in (S \cap listed) \ {c}
        BY <1>0, <1>1, <1>2, <1>8, <3>1, PointerAssumption DEF Closed, ListInv, Refs, Cell
      <4>2. ASSUME NEW m \in (S \cap listed) \ {c}, suc[m] \in Slave
            PROVE  suc[m] \in (S \cap listed) \ {c}
        BY <1>0, <1>1, <1>2, <1>8, <3>1, <4>2, PointerAssumption DEF Closed, ListInv, Refs, Cell
      <4> QED
        BY <4>1, <4>2 DEF Closed
    <3>3. listed \subseteq (S \cap listed) \ {c}
      BY <3>2 DEF ListInv, Covered
    <3> QED
      BY <3>3
  <2>2. Closed(S \cup {c})
    <3>1. suc[ListHead] \in Slave => suc[ListHead] \in S \cup {c}
      BY <1>2, <1>8 DEF Closed
    <3>2. ASSUME NEW m \in S \cup {c}, suc[m] \in Slave PROVE suc[m] \in S \cup {c}
      <4>1. CASE m = c
        BY <1>2, <1>8, <2>1, <3>2, <4>1 DEF Closed
      <4>2. CASE m # c
        BY <1>2, <1>8, <3>2, <4>2 DEF Closed
      <4> QED
        BY <4>1, <4>2
    <3> QED
      BY <3>1, <3>2 DEF Closed
  <2> QED
    BY <1>0, <2>2 DEF ListInv, Covered
<1> QED
  BY <1>5, <1>6, <1>7, <1>8 DEF ListInv, Covered

------------------------------------------------------------------------------
LEMMA InitIInv == Init /\ ~Rosters => IInv
<1> SUFFICES ASSUME Init, ~Rosters PROVE IInv
  OBVIOUS
<1>1. TypeOK
  BY ThreadAssumption DEF Init, TypeOK, Jobs, Inside, Inserting
<1>2. ListInv
  BY PointerAssumption DEF Init, ListInv, Refs, OneBack, Covered, GoneRefs, Cell
<1>3. ASSUME NEW t \in Thread PROVE At(t)
  BY <1>3 DEF Init, At, Inside, Inserting
<1> QED
  BY <1>1, <1>2, <1>3 DEF IInv

(* A step of one thread: what is left to show is the list and its own place.*)
LEMMA Frame ==
  ASSUME IInv, NEW t \in Thread,
         \A s \in Thread \ {t} : pc'[s] = pc[s] /\ job'[s] = job[s] /\ cur'[s] = cur[s],
         listed \cup gone \subseteq listed' \cup gone',
         pc[t] \in Inside \/ owner = Nobody \/ UNCHANGED <<owner, suc, listed, gone>>,
         TypeOK', ListInv', At(t)'
  PROVE  IInv'
<1>1. ASSUME NEW s \in Thread \ {t} PROVE At(s)'
  <2>1. pc[s] \notin Inside \/ UNCHANGED <<owner, suc, listed, gone>>
    BY ThreadAssumption DEF IInv, At
  <2>2. At(s)
    BY DEF IInv
  <2> QED
    BY <2>1, <2>2, OtherAt
<1> QED
  BY <1>1 DEF IInv

(* Steps that leave the list alone.                                         *)
LEMMA QuietKeeps ==
  ASSUME IInv, NEW t \in Thread, NEW x, NEW c \in Slave \cup {ListHead, Nil},
         pc' = [pc EXCEPT ![t] = x],
         job' = job \/ \E j \in Jobs(t) : job' = [job EXCEPT ![t] = j],
         cur' = [cur EXCEPT ![t] = c], UNCHANGED <<suc, listed, gone>>,
         x \in {"idle", "lock", "poll", "polling"} \cup Inside,
         owner' \in Thread \cup {Nobody},
         x \in {"use", "unlink"} => c # ListHead,
         pc[t] \in Inside \/ owner = Nobody \/ owner' = owner,
         At(t)'
  PROVE  IInv'
<1>1. TypeOK'
  BY DEF IInv, TypeOK
<1>2. ListInv'
  BY SameList DEF IInv
<1>3. \A s \in Thread \ {t} : pc'[s] = pc[s] /\ job'[s] = job[s] /\ cur'[s] = cur[s]
  BY DEF IInv, TypeOK
<1> QED
  BY <1>1, <1>2, <1>3, Frame

(* Leaving a handler, or waiting for the mutex, with nothing in hand.       *)
LEMMA ForgetKeeps ==
  ASSUME IInv, NEW t \in Thread, NEW x \in {"idle", "lock"}, Goto(t, x), Forgets(t),
         UNCHANGED <<suc, listed, gone>>, owner' \in {owner, Nobody},
         pc[t] \in Inside \/ owner = Nobody \/ owner' = owner
  PROVE  IInv'
<1>1. At(t)'
  BY DEF Goto, IInv, TypeOK, At, Inside, Inserting
<1> QED
  BY <1>1, QuietKeeps DEF Goto, Forgets, Jobs, IInv, TypeOK

(* Going on with the same job and the same pointer.                         *)
LEMMA GoKeeps ==
  ASSUME IInv, NEW t \in Thread, NEW x \in {"lock", "poll", "polling"} \cup Inside,
         Goto(t, x),
         job' = job \/ \E j \in Jobs(t) : job' = [job EXCEPT ![t] = j],
         UNCHANGED <<suc, listed, gone, cur>>, owner' \in {owner, t},
         x \in {"use", "unlink"} => cur[t] # ListHead,
         pc[t] \in Inside \/ owner = Nobody \/ owner' = owner,
         At(t)'
  PROVE  IInv'
<1>1. cur' = [cur EXCEPT ![t] = cur[t]] /\ cur[t] \in Slave \cup {ListHead, Nil}
  BY DEF IInv, TypeOK
<1>2. pc' = [pc EXCEPT ![t] = x] /\ owner' \in Thread \cup {Nobody}
  BY DEF Goto, IInv, TypeOK
<1> QED
  BY <1>1, <1>2, QuietKeeps

LEMMA InHand ==
  ASSUME IInv, NEW t \in Thread
  PROVE  /\ Reach = listed /\ listed \subseteq Slave
         /\ ListHead \notin Slave /\ Nil \notin Slave /\ ListHead # Nil
         /\ job[t].kind \in {"walk", "use", "poll", "add", "delete", "message"}
         /\ job[t].kind # "walk" => job[t].slave \in Slave
         /\ pc[t] \in Inside => owner = t
<1>1. job[t] = Walk \/ job[t] \in [kind : Kinds(t), slave : Slave]
  BY DEF IInv, TypeOK, Jobs
<1>2. Kinds(t) \subseteq {"use", "poll", "add", "delete", "message"}
  BY DEF IInv, Kinds
<1>3. Reach = listed
  BY ReachIsListed DEF IInv
<1> QED
  BY <1>1, <1>2, <1>3, PointerAssumption DEF IInv, TypeOK, Walk, At

LEMMA NextIInv == IInv /\ [Next]_vars => IInv'
<1> SUFFICES ASSUME IInv, [Next]_vars PROVE IInv'
  OBVIOUS
<1>1. ASSUME NEW t \in Thread, NEW j \in Jobs(t), Begins(t, j) PROVE IInv'
  <2>1. j.kind # "roster"
    BY DEF IInv, Jobs, Kinds, Walk
  <2>2. PICK x \in {"lock", "poll"} : Goto(t, x)
    BY <1>1, <2>1 DEF Begins
  <2>3. At(t)'
    BY <2>2 DEF Goto, IInv, TypeOK, At, Inside, Inserting
  <2> QED
    BY <1>1, <2>2, <2>3, GoKeeps DEF Begins
<1>2. ASSUME NEW t \in Thread, lockSlaveList(t) PROVE IInv'
  <2>1. PICK x \in {"position", "find"} : Goto(t, x) /\ (x = "position" => job[t].kind = "add")
    BY <1>2 DEF lockSlaveList
  <2>2. At(t)'
    BY <1>2, <2>1 DEF lockSlaveList, Goto, IInv, TypeOK, At, Inside, Inserting
  <2> QED
    BY <1>2, <2>1, <2>2, GoKeeps DEF lockSlaveList, Inside, Inserting
<1>3. ASSUME NEW t \in Thread, unlockSlaveList(t) PROVE IInv'
  BY <1>3, ForgetKeeps DEF unlockSlaveList, Inside
<1>4. ASSUME NEW t \in Thread, getSlave(t) PROVE IInv'
  <2>1. PICK x \in {"unlock", "use"} : Goto(t, x)
    BY <1>4 DEF getSlave
  <2>2. PICK c \in listed \cup {Nil} : cur' = [cur EXCEPT ![t] = c]
    BY <1>4, InHand DEF getSlave
  <2>3. At(t)'
    BY <1>4, <2>1, <2>2 DEF getSlave, Goto, IInv, TypeOK, At, Inside, Inserting
  <2>4. c \in Slave \cup {ListHead, Nil} /\ c # ListHead
    BY <2>2, InHand
  <2>5. pc' = [pc EXCEPT ![t] = x] /\ owner' \in Thread \cup {Nobody}
    BY <1>4, <2>1 DEF getSlave, Goto, IInv, TypeOK
  <2>6. pc[t] \in Inside /\ x \in {"idle", "lock", "poll", "polling"} \cup Inside
    BY <1>4, <2>1 DEF getSlave, Inside
  <2> QED
    BY <1>4, <2>2, <2>3, <2>4, <2>5, <2>6, QuietKeeps DEF getSlave
<1>5. ASSUME NEW t \in Thread, uses(t) PROVE IInv'
  <2>1. At(t)'
    BY <1>5 DEF uses, Goto, IInv, TypeOK, At, Inside, Inserting
  <2> QED
    BY <1>5, <2>1, GoKeeps DEF uses, Inside
<1>6. ASSUME NEW t \in Thread, receiveMessage_noTlvs(t) PROVE IInv'
  BY <1>6, ForgetKeeps DEF receiveMessage_noTlvs, Inside
<1>7. ASSUME NEW t \in Thread, startsWalk(t) PROVE IInv'
  <2>1. suc[ListHead] \in listed \cup {Nil}
    BY DEF IInv, ListInv, Refs, Cell
  <2>2. At(t)'
    BY <1>7, <2>1 DEF startsWalk, Goto, IInv, TypeOK, At, Inside, Inserting
  <2> QED
    BY <1>7, <2>1, <2>2, InHand, QuietKeeps DEF startsWalk, Goto, Inside, IInv, TypeOK
<1>8. ASSUME NEW t \in Thread, getNextSlave(t) PROVE IInv'
  <2>1. CASE cur[t] = Nil
    <3>1. At(t)'
      BY <1>8, <2>1 DEF getNextSlave, Goto, IInv, TypeOK, At, Inside, Inserting
    <3> QED
      BY <1>8, <2>1, <3>1, GoKeeps DEF getNextSlave, Inside
  <2>2. CASE cur[t] # Nil
    <3>1. cur[t] \in listed
      BY <1>8, <2>2 DEF getNextSlave, IInv, At
    <3>2. suc[cur[t]] \in listed \cup {Nil}
      BY <3>1 DEF IInv, ListInv, Refs, Cell
    <3>3. cur' = [cur EXCEPT ![t] = suc[cur[t]]] /\ pc' = [pc EXCEPT ![t] = "walk"]
      BY <1>8, <2>2 DEF getNextSlave, IInv, TypeOK
    <3>4. At(t)'
      BY <1>8, <3>2, <3>3 DEF getNextSlave, IInv, TypeOK, At, Inside, Inserting
    <3> QED
      BY <1>8, <3>2, <3>3, <3>4, InHand, QuietKeeps DEF getNextSlave, Inside, IInv, TypeOK
  <2> QED
    BY <2>1, <2>2
<1>9. ASSUME NEW t \in Thread, startsPoll(t) PROVE IInv'
  <2>1. suc[ListHead] \in listed \cup {Nil}
    BY DEF IInv, ListInv, Refs, Cell
  <2>2. At(t)'
    BY <1>9, <2>1 DEF startsPoll, Goto, IInv, TypeOK, At, Inside, Inserting
  <2> QED
    BY <1>9, <2>1, <2>2, InHand, QuietKeeps DEF startsPoll, Goto, IInv, TypeOK
<1>10. ASSUME NEW t \in Thread, dcSelect(t) PROVE IInv'
  <2>1. CASE cur[t] = Nil
    BY <1>10, <2>1, ForgetKeeps DEF dcSelect
  <2>2. CASE cur[t] # Nil
    <3>1. cur[t] \in listed \cup gone
      BY <1>10, <2>2 DEF dcSelect, IInv, At
    <3>2. suc[cur[t]] \in listed \cup gone \cup {Nil}
      BY <3>1 DEF IInv, ListInv, Refs, GoneRefs, Cell
    <3>3. cur' = [cur EXCEPT ![t] = suc[cur[t]]] /\ pc' = [pc EXCEPT ![t] = "polling"]
      BY <1>10, <2>2 DEF dcSelect, IInv, TypeOK
    <3>4. At(t)'
      BY <1>10, <3>2, <3>3 DEF dcSelect, IInv, TypeOK, At, Inside, Inserting
    <3> QED
      BY <1>10, <2>2, <3>2, <3>3, <3>4, InHand, QuietKeeps DEF dcSelect, IInv, TypeOK
  <2> QED
    BY <2>1, <2>2
<1>11. ASSUME NEW t \in Thread, insertSlaveNode(t) PROVE IInv'
  <2>1. PICK p \in Cell : cur' = [cur EXCEPT ![t] = p]
    BY <1>11, InHand DEF insertSlaveNode, Cell
  <2>2. job[t].slave \in Slave \ (listed \cup gone)
    BY <1>11, InHand DEF insertSlaveNode, IInv, At, Inserting
  <2>3. At(t)'
    BY <1>11, <2>1, <2>2 DEF insertSlaveNode, Goto, IInv, TypeOK, At, Inside, Inserting, Cell
  <2> QED
    BY <1>11, <2>1, <2>3, InHand, QuietKeeps
    DEF insertSlaveNode, Goto, Inside, Inserting, Cell, IInv, TypeOK
<1>12. ASSUME NEW t \in Thread, splices(t) PROVE IInv'
  <2> DEFINE n == job[t].slave
  <2>1. n \in Slave \ (listed \cup gone) /\ cur[t] \in Cell
    BY <1>12 DEF splices, IInv, At
  <2>2. suc' = [suc EXCEPT ![n] = suc[cur[t]]] /\ UNCHANGED <<listed, gone>>
    BY <1>12 DEF splices
  <2>3. ListInv'
    BY <2>1, <2>2, SpliceKeeps DEF IInv
  <2>4. suc[cur[t]] \in Slave \cup {Nil}
    BY <2>1, InHand DEF IInv, TypeOK, Cell
  <2>5. TypeOK'
    BY <1>12, <2>1, <2>2, <2>4 DEF splices, Goto, IInv, TypeOK, Inside, Inserting
  <2>6. At(t)'
    <3>1. cur[t] # n
      BY <2>1, InHand DEF Cell
    <3>2. suc'[n] = suc[cur[t]] /\ suc'[cur[t]] = suc[cur[t]]
      BY <2>1, <2>2, <3>1, InHand DEF IInv, TypeOK, Cell
    <3> QED
      BY <1>12, <2>1, <2>2, <3>2 DEF splices, Goto, IInv, TypeOK, At, Inside, Inserting, Cell
  <2> QED
    BY <1>12, <2>3, <2>5, <2>6, Frame DEF splices, Goto, IInv, TypeOK, Inside, Inserting
<1>13. ASSUME NEW t \in Thread, links(t) PROVE IInv'
  <2> DEFINE n == job[t].slave
  <2>1. n \in Slave \ (listed \cup gone) /\ cur[t] \in Cell /\ suc[n] = suc[cur[t]]
        /\ job[t].kind = "add"
    BY <1>13 DEF links, IInv, At, Inserting
  <2>2. /\ suc' = [suc EXCEPT ![cur[t]] = n]
        /\ listed' = listed \cup {n} /\ gone' = gone
        /\ Goto(t, "unlock") /\ UNCHANGED <<owner, job, cur>>
    BY <1>13, <2>1 DEF links
  <2>3. ListInv'
    BY <2>1, <2>2, LinkKeeps DEF IInv
  <2>4. TypeOK'
    BY <2>1, <2>2 DEF Goto, IInv, TypeOK, Inside, Inserting
  <2>5. At(t)'
    BY <1>13, <2>2 DEF links, Goto, IInv, TypeOK, At, Inside, Inserting
  <2>6. \A s \in Thread \ {t} : pc'[s] = pc[s] /\ job'[s] = job[s] /\ cur'[s] = cur[s]
    BY <2>2 DEF Goto, IInv, TypeOK
  <2> QED
    BY <1>13, <2>2, <2>3, <2>4, <2>5, <2>6, Frame DEF links, Inside, Inserting
<1>14. ASSUME NEW t \in Thread, addsClone(t) PROVE IInv'
  BY <1>14, ForgetKeeps DEF addsClone, Inside, Inserting
<1>15. ASSUME NEW t \in Thread, findsVictim(t) PROVE IInv'
  <2>1. CASE job[t].slave \in Reach
    <3>1. /\ cur' = [cur EXCEPT ![t] = job[t].slave] /\ pc' = [pc EXCEPT ![t] = "unlink"]
          /\ job[t].slave \in listed
      BY <1>15, <2>1, InHand DEF findsVictim, Goto
    <3>2. At(t)'
      BY <1>15, <3>1 DEF findsVictim, IInv, TypeOK, At, Inside, Inserting
    <3> QED
      BY <1>15, <3>1, <3>2, InHand, QuietKeeps DEF findsVictim, Inside, IInv, TypeOK
  <2>2. CASE job[t].slave \notin Reach
    <3>1. At(t)'
      BY <1>15, <2>2 DEF findsVictim, Goto, IInv, TypeOK, At, Inside, Inserting
    <3> QED
      BY <1>15, <2>2, <3>1, GoKeeps DEF findsVictim, Inside
  <2> QED
    BY <2>1, <2>2
<1>16. ASSUME NEW t \in Thread, refusesVictim(t) PROVE IInv'
  BY <1>16, ForgetKeeps DEF refusesVictim, Inside
<1>17. ASSUME NEW t \in Thread, deleteSlave(t) PROVE IInv'
  <2>1. cur[t] \in listed
    BY <1>17 DEF deleteSlave, IInv, At
  <2>2. PICK p \in Cell : suc[p] = cur[t] /\ suc' = [suc EXCEPT ![p] = suc[cur[t]]]
    BY <1>17, InHand DEF deleteSlave, Cell
  <2>3. /\ listed' = listed \ {cur[t]} /\ gone' = gone \cup {cur[t]}
        /\ Goto(t, "unlock") /\ UNCHANGED <<owner, job, cur>>
    BY <1>17 DEF deleteSlave
  <2>4. ListInv'
    BY <2>1, <2>2, <2>3, UnlinkKeeps DEF IInv
  <2>5. suc[cur[t]] \in Slave \cup {Nil}
    BY <2>1, InHand DEF IInv, TypeOK
  <2>6. TypeOK'
    BY <2>1, <2>2, <2>3, <2>5 DEF Goto, IInv, TypeOK, Inside, Inserting
  <2>7. At(t)'
    BY <1>17, <2>3 DEF deleteSlave, Goto, IInv, TypeOK, At, Inside, Inserting
  <2>8. \A s \in Thread \ {t} : pc'[s] = pc[s] /\ job'[s] = job[s] /\ cur'[s] = cur[s]
    BY <2>3 DEF Goto, IInv, TypeOK
  <2> QED
    BY <1>17, <2>3, <2>4, <2>6, <2>7, <2>8, Frame DEF deleteSlave, Inside, Inserting
<1>18. CASE UNCHANGED vars
  <2>1. TypeOK' /\ ListInv'
    BY <1>18, SameList DEF vars, IInv, TypeOK
  <2>2. ASSUME NEW t \in Thread PROVE At(t)'
    BY <1>18 DEF vars, IInv, At, Cell
  <2> QED
    BY <2>1, <2>2 DEF IInv
<1> QED
  BY <1>1, <1>2, <1>3, <1>4, <1>5, <1>6, <1>7, <1>8, <1>9, <1>10, <1>11, <1>12,
     <1>13, <1>14, <1>15, <1>16, <1>17, <1>18 DEF Next, Step

------------------------------------------------------------------------------
(* While no roster is inserted without the mutex, handlers exclude each     *)
(* other (network.c, commands.c, setup.c), use and walk only slaves of the  *)
(* list, lose none, and dcSelect stands only on finished slaves - whichever *)
(* of their returns keep the mutex.                                         *)
THEOREM LockSafe ==
  Spec /\ ~Rosters => [](/\ TypeOK /\ OwnerInside /\ UsedIsListed
                         /\ WalksTheList /\ NoneLost /\ PollSeesSlaves)
<1>1. IInv => /\ TypeOK /\ OwnerInside /\ UsedIsListed
              /\ WalksTheList /\ NoneLost /\ PollSeesSlaves
  <2> SUFFICES ASSUME IInv
               PROVE  /\ TypeOK /\ OwnerInside /\ UsedIsListed
                      /\ WalksTheList /\ NoneLost /\ PollSeesSlaves
    OBVIOUS
  <2>1. Reach = listed
    BY ReachIsListed DEF IInv
  <2>2. \A t \in Thread : At(t)
    BY DEF IInv
  <2>3. OwnerInside /\ PollSeesSlaves
    BY <2>2 DEF At, OwnerInside, PollSeesSlaves
  <2>4. UsedIsListed /\ WalksTheList
    BY <2>1, <2>2 DEF At, UsedIsListed, WalksTheList
  <2> QED
    BY <2>1, <2>3, <2>4 DEF IInv, NoneLost
<1> QED
  BY InitIInv, NextIInv, <1>1, PTL DEF Spec

(* A handler never goes on using a slave that has been taken out of the    *)
(* list: the deletion waits for the mutex the handler holds (slaves.c,      *)
(* ylist.c).                                                                *)
THEOREM NoneFreedInUse == Spec /\ ~Rosters => []UsedIsListed
  BY LockSafe, PTL

------------------------------------------------------------------------------
(* A handler leaves without unlocking only by the returns of addSlave,      *)
(* cmdDELSLAVE and receiveMessage (slaves.c, commands.c, network.c).        *)
THEOREM OnlyThreeKeep == Spec /\ ~Rosters => KeptByThree
<1> DEFINE Keeps(t) == addsClone(t) \/ refusesVictim(t) \/ receiveMessage_noTlvs(t)
<1>1. ASSUME IInv, [Next]_vars, ~Kept, Kept' PROVE \E t \in Thread : Keeps(t)
  <2>1. PICK t \in Thread : Step(t) \/ \E j \in Jobs(t) : Begins(t, j)
    BY <1>1 DEF Next, vars, Kept
  <2>2. SUFFICES ASSUME ~Keeps(t) PROVE FALSE
    OBVIOUS
  <2>3. \A s \in Thread \ {t} : pc'[s] = pc[s]
    BY <1>1, <2>1 DEF Step, Begins, lockSlaveList, unlockSlaveList, getSlave, uses,
       receiveMessage_noTlvs, startsWalk, getNextSlave, startsPoll, dcSelect,
       insertSlaveNode, splices, links, addsClone, findsVictim, refusesVictim,
       deleteSlave, Goto, IInv, TypeOK
  <2>4. \/ owner' = Nobody
        \/ pc'[t] \in Inside /\ owner' \in {owner, t}
        \/ pc[t] \notin Inside /\ owner' = owner
    <3>1. CASE lockSlaveList(t) \/ unlockSlaveList(t)
      BY <1>1, <3>1 DEF lockSlaveList, unlockSlaveList, Goto, IInv, TypeOK, Inside, Inserting
    <3>2. CASE getSlave(t) \/ uses(t) \/ startsWalk(t) \/ getNextSlave(t)
      BY <1>1, <3>2 DEF getSlave, uses, startsWalk, getNextSlave, Goto, IInv, TypeOK, Inside
    <3>3. CASE startsPoll(t) \/ dcSelect(t) \/ \E j \in Jobs(t) : Begins(t, j)
      BY <3>3 DEF startsPoll, dcSelect, Begins, Inside, Inserting
    <3>4. CASE insertSlaveNode(t) \/ splices(t) \/ links(t)
      <4>1. job[t].kind = "add"
        BY <1>1, <3>4 DEF insertSlaveNode, splices, links, IInv, At, Inserting
      <4> QED
        BY <1>1, <3>4, <4>1 DEF insertSlaveNode, splices, links, Goto, IInv, TypeOK,
           Inside, Inserting
    <3>5. CASE findsVictim(t) \/ deleteSlave(t)
      BY <1>1, <3>5 DEF findsVictim, deleteSlave, Goto, IInv, TypeOK, Inside
    <3> QED
      BY <2>1, <2>2, <3>1, <3>2, <3>3, <3>4, <3>5 DEF Step
  <2> QED
    BY <1>1, <2>3, <2>4, ThreadAssumption DEF Kept, IInv, TypeOK
<1>2. IInv /\ [Next]_vars => [~Kept /\ Kept' => \E t \in Thread : Keeps(t)]_vars
  BY <1>1
<1> QED
  BY InitIInv, NextIInv, <1>2, PTL DEF Spec, KeptByThree

-----------------------------------------------------------------------------
(* The lines. *)

Char == {CR, LF} \cup UNION {{line[i] : i \in DOMAIN line} : line \in Lines}
Bytes == buf \o wire

Typed ==
    /\ sock \in {"none", "open", "left", "smashed"} /\ ptr \in 0 .. 2 /\ reasonToSuicide \in BOOLEAN
    /\ buf \in Seq(Char) /\ wire \in Seq(Char)
    /\ typed \in Seq(Lines \ {<<>>}) /\ done \in Seq(Lines)
    /\ Len(done) <= Len(typed) /\ \A i \in 1 .. Len(done) : done[i] = typed[i]
    /\ Len(Bytes) < Size - 1

\* Line i and its line end stand in the bytes up to at[i].
Stands(bytes, line, from, to) ==
    /\ to = from + Len(line) + 2
    /\ \A k \in 1 .. Len(line) : bytes[from + k] = line[k]
    /\ bytes[to - 1] = CR /\ bytes[to] = LF

Laid(bytes, first, at) ==
    /\ at \in [0 .. Len(typed) -> Int]
    /\ at[first] = 0 /\ at[Len(typed)] = Len(bytes)
    /\ \A i \in first .. Len(typed) : at[i] \in 0 .. Len(bytes)
    /\ \A i, j \in first .. Len(typed) : i <= j => at[i] <= at[j]
    /\ \A i \in first + 1 .. Len(typed) : Stands(bytes, typed[i], at[i - 1], at[i])

LinesInv == Typed /\ \E at : Laid(Bytes, Len(done), at)

-----------------------------------------------------------------------------
LEMMA Ending == LineEnd \in Seq(Char) /\ Len(LineEnd) = 2 /\ LineEnd[1] = CR /\ LineEnd[2] = LF /\ CR # LF
<1>1. CR \in Char /\ LF \in Char /\ CR # LF
  BY DEF Char, CR, LF
<1> QED
  BY <1>1 DEF LineEnd

LEMMA LineChars == \A line \in Lines : line \in Seq(Char)
<1> SUFFICES ASSUME NEW line \in Lines PROVE line \in Seq(Char)
  OBVIOUS
<1>1. line \in Seq(STRING)
  BY LinesAssumption
<1>2. DOMAIN line = 1 .. Len(line) /\ Len(line) \in Nat /\ line \in [1 .. Len(line) -> STRING]
  BY <1>1, LenProperties
<1>3. \A i \in 1 .. Len(line) : line[i] \in Char
  BY <1>2 DEF Char
<1>4. line \in [1 .. Len(line) -> Char]
  BY <1>2, <1>3
<1> QED
  BY <1>2, <1>4, SeqDef

LEMMA LinesInit == CtlInit => LinesInv
<1> SUFFICES ASSUME CtlInit PROVE LinesInv
  OBVIOUS
<1>1. <<>> \in Seq(Char) /\ Len(<<>>) = 0
  BY EmptySeq
<1>2. Bytes \in Seq(Char) /\ Len(Bytes) = 0
  BY <1>1, ConcatProperties DEF CtlInit, Bytes
<1>3. Typed
  <2>1. 0 < Size - 1 /\ ptr \in 0 .. 2
    BY SizeAssumption DEF CtlInit
  <2>2. <<>> \in Seq(Lines \ {<<>>}) /\ <<>> \in Seq(Lines)
    BY EmptySeq
  <2>3. done = <<>> /\ typed = <<>> /\ buf = <<>> /\ wire = <<>> /\ sock = "none" /\ reasonToSuicide = FALSE
    BY DEF CtlInit
  <2>4. typed \in Seq(Lines \ {<<>>}) /\ done \in Seq(Lines) /\ buf \in Seq(Char) /\ wire \in Seq(Char)
    BY <1>1, <2>2, <2>3
  <2>5. Len(done) <= Len(typed) /\ \A i \in 1 .. Len(done) : done[i] = typed[i]
    BY <1>1, <2>3
  <2>6. sock \in {"none", "open", "left", "smashed"} /\ reasonToSuicide \in BOOLEAN
    BY <2>3
  <2> QED
    BY <1>2, <2>1, <2>4, <2>5, <2>6 DEF Typed
<1>4. Laid(Bytes, Len(done), [i \in 0 .. Len(typed) |-> 0])
  <2>1. Len(done) = 0 /\ Len(typed) = 0
    BY DEF CtlInit
  <2> QED
    BY <2>1, <1>2 DEF Laid
<1> QED
  BY <1>3, <1>4 DEF LinesInv

\* Bytes that are moved from the wire to the buffer stay in their order.
LEMMA Moved ==
  ASSUME NEW s \in Seq(Char), NEW t \in Seq(Char), NEW n \in 0 .. Len(t)
  PROVE  /\ SubSeq(t, 1, n) \in Seq(Char) /\ SubSeq(t, n + 1, Len(t)) \in Seq(Char)
         /\ Len(SubSeq(t, 1, n)) = n
         /\ (s \o SubSeq(t, 1, n)) \o SubSeq(t, n + 1, Len(t)) = s \o t
<1> DEFINE a == SubSeq(t, 1, n)
           b == SubSeq(t, n + 1, Len(t))
<1>1. Len(t) \in Nat /\ \A i \in 1 .. Len(t) : t[i] \in Char
  BY LenProperties, ElementOfSeq
<1>2. a \in Seq(Char) /\ Len(a) = n /\ \A i \in 1 .. n : a[i] = t[i]
  BY <1>1, SubSeqProperties
<1>3. b \in Seq(Char) /\ Len(b) = Len(t) - n /\ \A i \in 1 .. Len(t) - n : b[i] = t[n + i]
  BY <1>1, SubSeqProperties
<1> HIDE DEF a, b
<1>4. a \o b \in Seq(Char) /\ Len(a \o b) = Len(t) /\ \A i \in 1 .. Len(t) : (a \o b)[i] = t[i]
  <2>1. /\ a \o b \in Seq(Char) /\ Len(a \o b) = Len(a) + Len(b)
        /\ \A i \in 1 .. Len(a) + Len(b) : (a \o b)[i] = IF i <= Len(a) THEN a[i] ELSE b[i - Len(a)]
    BY <1>2, <1>3, ConcatProperties
  <2> QED
    BY <2>1, <1>1, <1>2, <1>3
<1>5. a \o b = t
  BY <1>4, <1>1, SeqEqual
<1>6. (s \o a) \o b = s \o (a \o b)
  BY <1>2, <1>3, ConcatAssociative
<1> QED
  BY <1>2, <1>3, <1>5, <1>6 DEF a, b

\* Bytes as they are seen through the three parts they stand in.
LEMMA BytesAt ==
  ASSUME Typed
  PROVE  /\ Bytes \in Seq(Char) /\ Len(Bytes) = Len(buf) + Len(wire)
         /\ Len(buf) \in Nat /\ Len(wire) \in Nat /\ Len(typed) \in Nat /\ Len(done) \in Nat
         /\ \A i \in 1 .. Len(buf) : Bytes[i] = buf[i]
<1>1. buf \in Seq(Char) /\ wire \in Seq(Char)
  BY DEF Typed
<1>2. Len(buf) \in Nat /\ Len(wire) \in Nat
  BY <1>1, LenProperties
<1>3. /\ Bytes \in Seq(Char) /\ Len(Bytes) = Len(buf) + Len(wire)
      /\ \A i \in 1 .. Len(buf) + Len(wire) : Bytes[i] = IF i <= Len(buf) THEN buf[i] ELSE wire[i - Len(buf)]
  BY <1>1, ConcatProperties DEF Bytes
<1>4. Len(typed) \in Nat /\ Len(done) \in Nat
  BY LenProperties DEF Typed
<1> QED
  BY <1>2, <1>3, <1>4

\* The steps that leave the bytes, the lines and the place alone.
LEMMA Same ==
  ASSUME LinesInv, UNCHANGED <<typed, done>>, Bytes' = Bytes,
         buf' \in Seq(Char), wire' \in Seq(Char), sock' \in {"none", "open", "left", "smashed"},
         ptr' \in 0 .. 2, reasonToSuicide' \in BOOLEAN
  PROVE  LinesInv'
<1>1. PICK at : Laid(Bytes, Len(done), at)
  BY DEF LinesInv
<1>2. Laid(Bytes, Len(done), at)'
  BY <1>1 DEF Laid
<1>3. Typed'
  BY DEF LinesInv, Typed
<1> QED
  BY <1>2, <1>3 DEF LinesInv

LEMMA AcceptsStep == ASSUME LinesInv, Accepts PROVE LinesInv'
<1>1. <<>> \in Seq(Char) /\ Len(<<>>) = 0
  BY EmptySeq
<1>2. Bytes' \in Seq(Char) /\ Len(Bytes') = 0
  BY <1>1, ConcatProperties DEF Accepts, Bytes
<1>3. Typed'
  BY <1>2, <1>1, SizeAssumption DEF Accepts, Typed, LinesInv
<1>4. Laid(Bytes, Len(done), [i \in 0 .. 0 |-> 0])'
  <2>1. Len(done') = 0 /\ Len(typed') = 0
    BY DEF Accepts
  <2> QED
    BY <2>1, <1>2 DEF Laid
<1> QED
  BY <1>3, <1>4 DEF LinesInv

LEMMA ReceivesStep == ASSUME LinesInv, Receives PROVE LinesInv'
<1>1. PICK n \in 1 .. Len(wire) :
         /\ wire' = SubSeq(wire, n + 1, Len(wire))
         /\ buf' = IF Len(buf) + n = Size - 1 THEN <<>> ELSE buf \o SubSeq(wire, 1, n)
  BY DEF Receives
<1>2. buf \in Seq(Char) /\ wire \in Seq(Char) /\ Typed /\ Size \in Nat
  BY SizeAssumption DEF LinesInv, Typed
<1>3. Len(buf) + n # Size - 1
  <2>1. Len(buf) + Len(wire) < Size - 1 /\ Len(buf) \in Nat /\ Len(wire) \in Nat
    BY <1>2, BytesAt DEF Typed
  <2> QED
    BY <2>1, <1>2
<1>4. n \in 0 .. Len(wire)
  OBVIOUS
<1>5. /\ SubSeq(wire, 1, n) \in Seq(Char) /\ wire' \in Seq(Char)
      /\ (buf \o SubSeq(wire, 1, n)) \o wire' = buf \o wire
  BY <1>1, <1>2, <1>4, Moved
<1>6. buf' = buf \o SubSeq(wire, 1, n)
  BY <1>1, <1>3
<1>7. buf' \in Seq(Char)
  BY <1>2, <1>5, <1>6, ConcatProperties
<1>8. Bytes' = Bytes
  BY <1>5, <1>6 DEF Bytes
<1> QED
  BY <1>2, <1>5, <1>7, <1>8, Same DEF Receives, Typed

LEMMA LeavesStep == ASSUME LinesInv, Leaves \/ Closes \/ UNCHANGED ctlVars PROVE LinesInv'
<1>1. Bytes' = Bytes
  BY DEF Leaves, Closes, ctlVars, Bytes
<1> QED
  BY <1>1, Same DEF Leaves, Closes, ctlVars, LinesInv, Typed

\* What follows at the end leaves what stands before it.
LEMMA Extended ==
  ASSUME NEW b \in Seq(Char), NEW line \in Seq(Char)
  PROVE  LET more == b \o (line \o LineEnd)
         IN /\ more \in Seq(Char) /\ Len(more) = Len(b) + Len(line) + 2
            /\ \A i \in 1 .. Len(b) : more[i] = b[i]
            /\ Stands(more, line, Len(b), Len(more))
<1> DEFINE tail == line \o LineEnd
           more == b \o tail
<1>1. Len(b) \in Nat /\ Len(line) \in Nat
  BY LenProperties
<1>2. /\ tail \in Seq(Char) /\ Len(tail) = Len(line) + 2
      /\ \A i \in 1 .. Len(line) + 2 : tail[i] = IF i <= Len(line) THEN line[i] ELSE LineEnd[i - Len(line)]
  <2>1. /\ tail \in Seq(Char) /\ Len(tail) = Len(line) + Len(LineEnd)
        /\ \A i \in 1 .. Len(line) + Len(LineEnd) : tail[i] = IF i <= Len(line) THEN line[i] ELSE LineEnd[i - Len(line)]
    BY Ending, ConcatProperties, Zenon
  <2> QED
    BY <2>1, Ending, Zenon
<1>3. \A i \in 1 .. Len(line) : tail[i] = line[i]
  BY <1>1, <1>2
<1>4. tail[Len(line) + 1] = CR /\ tail[Len(line) + 2] = LF
  <2>1. \A n \in Nat : /\ n + 1 \in 1 .. n + 2 /\ ~(n + 1 <= n) /\ (n + 1) - n = 1
                       /\ n + 2 \in 1 .. n + 2 /\ ~(n + 2 <= n) /\ (n + 2) - n = 2
    OBVIOUS
  <2> QED
    BY <2>1, <1>1, <1>2, Ending
<1> HIDE DEF tail
<1>5. /\ more \in Seq(Char) /\ Len(more) = Len(b) + Len(line) + 2
      /\ \A i \in 1 .. Len(b) + Len(tail) : more[i] = IF i <= Len(b) THEN b[i] ELSE tail[i - Len(b)]
  <2>1. /\ more \in Seq(Char) /\ Len(more) = Len(b) + Len(tail)
        /\ \A i \in 1 .. Len(b) + Len(tail) : more[i] = IF i <= Len(b) THEN b[i] ELSE tail[i - Len(b)]
    <3>1. b \in Seq(Char) /\ tail \in Seq(Char)
      BY <1>2
    <3> QED
      BY <3>1, ConcatProperties
  <2>2. Len(b) + Len(tail) = Len(b) + Len(line) + 2
    BY <1>1, <1>2
  <2> QED
    BY <2>1, <2>2, Zenon
<1>6. \A i \in 1 .. Len(b) : more[i] = b[i]
  BY <1>1, <1>2, <1>5
<1>7. \A k \in 1 .. Len(line) + 2 : more[Len(b) + k] = tail[k]
  <2> TAKE k \in 1 .. Len(line) + 2
  <2>1. Len(b) + k \in 1 .. Len(b) + Len(tail) /\ ~(Len(b) + k <= Len(b)) /\ (Len(b) + k) - Len(b) = k
    BY <1>1, <1>2
  <2> QED
    BY <2>1, <1>5
<1> HIDE DEF more
<1>8. Stands(more, line, Len(b), Len(more))
  <2>1. \A k \in 1 .. Len(line) : more[Len(b) + k] = line[k]
    BY <1>1, <1>3, <1>7
  <2>2. more[Len(b) + (Len(line) + 1)] = CR /\ more[Len(b) + (Len(line) + 2)] = LF
    BY <1>1, <1>4, <1>7
  <2>3. Len(more) - 1 = Len(b) + (Len(line) + 1) /\ Len(more) = Len(b) + (Len(line) + 2)
    BY <1>1, <1>5
  <2> QED
    BY <1>5, <2>1, <2>2, <2>3 DEF Stands
<1> QED
  BY <1>5, <1>6, <1>8 DEF more, tail

\* Stands looks at no other bytes.
LEMMA StandsIn ==
  ASSUME NEW b, NEW more, NEW line, Len(line) \in Nat, NEW from \in Int, NEW to \in Int,
         NEW shift \in Int,
         Stands(b, line, from, to), \A i \in from + 1 .. to : more[i - shift] = b[i]
  PROVE  Stands(more, line, from - shift, to - shift)
<1>1. to = from + Len(line) + 2
  BY DEF Stands
<1>2. \A k \in 1 .. Len(line) : more[(from - shift) + k] = line[k]
  <2> TAKE k \in 1 .. Len(line)
  <2>1. from + k \in from + 1 .. to /\ (from + k) - shift = (from - shift) + k
    BY <1>1
  <2> QED
    BY <2>1 DEF Stands
<1>3. more[(to - shift) - 1] = CR
  <2>1. to - 1 \in from + 1 .. to /\ (to - 1) - shift = (to - shift) - 1
    BY <1>1
  <2> QED
    BY <2>1 DEF Stands
<1>4. more[to - shift] = LF
  <2>1. to \in from + 1 .. to
    BY <1>1
  <2> QED
    BY <2>1 DEF Stands
<1> QED
  BY <1>1, <1>2, <1>3, <1>4 DEF Stands

LEMMA TypesStep ==
  ASSUME LinesInv, ~EmptyLines, ~Bursts, NEW line \in Lines, Types(line)
  PROVE  LinesInv'
<1>1. PICK at : Laid(Bytes, Len(done), at)
  BY DEF LinesInv
<1>2. line # <<>> /\ Len(buf) + Len(wire) + Len(line) + 2 < Size - 1
  BY DEF Types
<1>3. typed' = Append(typed, line) /\ wire' = wire \o line \o LineEnd /\ UNCHANGED <<sock, buf, ptr, done, reasonToSuicide>>
  BY <1>2 DEF Types
<1>4. line \in Seq(Char) /\ Len(line) \in Nat
  BY LineChars, LenProperties
<1>5. buf \in Seq(Char) /\ wire \in Seq(Char) /\ typed \in Seq(Lines \ {<<>>}) /\ Typed
  BY DEF LinesInv, Typed
<1>6. wire' = wire \o (line \o LineEnd)
  BY <1>3, <1>4, <1>5, Ending, ConcatAssociative
<1>7. wire' \in Seq(Char)
  BY <1>4, <1>5, <1>6, Ending, ConcatProperties
<1>8. Bytes' = Bytes \o (line \o LineEnd)
  <2>1. line \o LineEnd \in Seq(Char)
    BY <1>4, Ending, ConcatProperties
  <2>2. (buf \o wire) \o (line \o LineEnd) = buf \o (wire \o (line \o LineEnd))
    <3>1. PICK more : more = line \o LineEnd
      OBVIOUS
    <3>2. buf \in Seq(Char) /\ wire \in Seq(Char) /\ more \in Seq(Char)
      BY <2>1, <3>1, <1>5
    <3>3. (buf \o wire) \o more = buf \o (wire \o more)
      BY <3>2, ConcatAssociative
    <3> QED
      BY <3>1, <3>3
  <2>3. Bytes' = buf' \o wire'
    BY DEF Bytes
  <2> QED
    BY <2>2, <2>3, <1>3, <1>6, Zenon DEF Bytes
<1>9. PICK b, n, m : b = Bytes /\ n = Len(Bytes) /\ m = Len(typed)
  OBVIOUS
<1>10. b \in Seq(Char) /\ n = Len(buf) + Len(wire) /\ n \in Nat /\ m \in Nat /\ Len(done) \in Nat /\ n = Len(b)
  BY <1>5, <1>9, BytesAt
<1>11. PICK more : more = b \o (line \o LineEnd)
  OBVIOUS
<1>12. /\ more \in Seq(Char) /\ Len(more) = n + Len(line) + 2
       /\ \A i \in 1 .. n : more[i] = b[i]
       /\ Stands(more, line, n, Len(more))
  BY <1>4, <1>10, <1>11, Extended
<1>13. Bytes' = more
  BY <1>8, <1>9, <1>11
<1>14. Len(typed') = m + 1 /\ typed'[m + 1] = line /\ (\A i \in 1 .. m : typed'[i] = typed[i])
       /\ typed' \in Seq(Lines \ {<<>>})
  BY <1>2, <1>3, <1>5, <1>9, AppendProperties
<1>15. Typed'
  <2>1. Len(Bytes') < Size - 1
    BY <1>2, <1>10, <1>12, <1>13
  <2>2. Len(done) <= m /\ \A i \in 1 .. Len(done) : done[i] = typed[i]
    BY <1>5, <1>9 DEF Typed
  <2>3. Len(done) <= Len(typed') /\ \A i \in 1 .. Len(done) : done[i] = typed'[i]
    BY <2>2, <1>10, <1>14
  <2> QED
    BY <2>1, <2>3, <1>3, <1>5, <1>7, <1>14 DEF Typed
<1>16. PICK to : to = [i \in 0 .. m + 1 |-> IF i <= m THEN at[i] ELSE Len(more)]
  OBVIOUS
<1>17. Laid(more, Len(done), to)'
  <2>1. at \in [0 .. m -> Int] /\ at[Len(done)] = 0 /\ at[m] = n
        /\ (\A i \in Len(done) .. m : at[i] \in 0 .. n)
        /\ (\A i, j \in Len(done) .. m : i <= j => at[i] <= at[j])
        /\ \A i \in Len(done) + 1 .. m : Stands(b, typed[i], at[i - 1], at[i])
    BY <1>1, <1>9 DEF Laid
  <2>2. Len(done) <= m
    BY <1>5, <1>9 DEF Typed
  <2>3. to \in [0 .. m + 1 -> Int] /\ (\A i \in 0 .. m : to[i] = at[i]) /\ to[m + 1] = Len(more)
    BY <2>1, <1>10, <1>12, <1>16, <1>4
  <2>4. \A i \in Len(done) .. m + 1 : to[i] \in 0 .. Len(more)
    <3> TAKE i \in Len(done) .. m + 1
    <3>1. n \in 0 .. Len(more) /\ Len(more) \in Nat
      BY <1>4, <1>10, <1>12
    <3>2. CASE i = m + 1
      BY <2>3, <3>1, <3>2
    <3>3. CASE i # m + 1
      <4>1. i \in Len(done) .. m /\ i \in 0 .. m
        BY <3>3, <1>10
      <4> QED
        BY <4>1, <3>1, <2>1, <2>3, <1>10
    <3> QED
      BY <3>2, <3>3
  <2>5. \A i \in Len(done) + 1 .. m + 1 : Stands(more, typed'[i], to[i - 1], to[i])
    <3> TAKE i \in Len(done) + 1 .. m + 1
    <3>1. CASE i = m + 1
      <4>1. to[i - 1] = n /\ to[i] = Len(more) /\ typed'[i] = line
        BY <3>1, <2>1, <2>3, <1>10, <1>14
      <4> QED
        BY <4>1, <1>12
    <3>2. CASE i # m + 1
      <4>1. i \in Len(done) + 1 .. m /\ i \in 1 .. m /\ i \in 0 .. m /\ i - 1 \in 0 .. m /\ i - 1 \in Len(done) .. m
            /\ i \in Len(done) .. m
        BY <3>2, <1>10
      <4>2. to[i - 1] = at[i - 1] /\ to[i] = at[i] /\ typed'[i] = typed[i]
        BY <4>1, <2>3, <1>14
      <4>3. Stands(b, typed[i], at[i - 1], at[i]) /\ at[i - 1] \in 0 .. n /\ at[i] \in 0 .. n
        BY <4>1, <2>1
      <4>4. Len(typed[i]) \in Nat
        <5>1. typed[i] \in Lines
          BY <4>1, <1>5, <1>9, ElementOfSeq
        <5> QED
          BY <5>1, LineChars, LenProperties
      <4>5. PICK line1, p, q, z : line1 = typed[i] /\ p = at[i - 1] /\ q = at[i] /\ z = 0
        OBVIOUS
      <4>6. p \in Int /\ q \in Int /\ z \in Int /\ p - z = p /\ q - z = q
        BY <4>3, <4>5, <1>10
      <4>7. \A k \in p + 1 .. q : more[k - z] = b[k]
        BY <4>3, <4>5, <1>10, <1>12
      <4>8. Len(line1) \in Nat /\ Stands(b, line1, p, q)
        BY <4>3, <4>4, <4>5
      <4>9. Stands(more, line1, p - z, q - z)
        BY <4>6, <4>7, <4>8, StandsIn, Zenon
      <4> QED
        BY <4>2, <4>5, <4>6, <4>9
    <3> QED
      BY <3>1, <3>2
  <2>6. to[Len(done)] = 0
    BY <2>1, <2>2, <2>3, <1>10
  <2>7. \A i, j \in Len(done) .. m + 1 : i <= j => to[i] <= to[j]
    <3> TAKE i, j \in Len(done) .. m + 1
    <3>1. HAVE i <= j
    <3>2. n <= Len(more) /\ Len(more) \in Nat
      BY <1>4, <1>10, <1>12
    <3>3. CASE j = m + 1
      BY <3>2, <3>3, <2>3, <2>4
    <3>4. CASE j # m + 1
      <4>1. i \in Len(done) .. m /\ j \in Len(done) .. m /\ i \in 0 .. m /\ j \in 0 .. m
        BY <3>1, <3>4, <1>10
      <4> QED
        BY <4>1, <3>1, <2>1, <2>3
    <3> QED
      BY <3>3, <3>4
  <2> QED
    BY <2>3, <2>4, <2>5, <2>6, <2>7, <1>3, <1>14 DEF Laid
<1> QED
  BY <1>13, <1>15, <1>17 DEF LinesInv

LEMMA Dropped ==
  ASSUME NEW s \in Seq(Char), NEW t \in Seq(Char), NEW m \in 0 .. Len(s)
  PROVE  /\ SubSeq(s, m + 1, Len(s)) \in Seq(Char)
         /\ Len(SubSeq(s, m + 1, Len(s)) \o t) = Len(s \o t) - m
         /\ \A i \in m + 1 .. Len(s \o t) : (SubSeq(s, m + 1, Len(s)) \o t)[i - m] = (s \o t)[i]
<1> DEFINE a == SubSeq(s, m + 1, Len(s))
<1>1. Len(s) \in Nat /\ Len(t) \in Nat /\ \A i \in 1 .. Len(s) : s[i] \in Char
  BY LenProperties, ElementOfSeq
<1>2. a \in Seq(Char) /\ Len(a) = Len(s) - m /\ \A i \in 1 .. Len(s) - m : a[i] = s[m + i]
  BY <1>1, SubSeqProperties
<1> HIDE DEF a
<1>3. PICK u : u = s \o t
  OBVIOUS
<1>4. PICK v : v = a \o t
  OBVIOUS
<1>5. Len(u) = Len(s) + Len(t) /\ \A i \in 1 .. Len(s) + Len(t) : u[i] = IF i <= Len(s) THEN s[i] ELSE t[i - Len(s)]
  BY <1>3, ConcatProperties
<1>6. Len(v) = Len(a) + Len(t) /\ \A i \in 1 .. Len(a) + Len(t) : v[i] = IF i <= Len(a) THEN a[i] ELSE t[i - Len(a)]
  BY <1>2, <1>4, ConcatProperties
<1>7. \A i \in m + 1 .. Len(u) : v[i - m] = u[i]
  <2> TAKE i \in m + 1 .. Len(u)
  <2>1. i \in 1 .. Len(s) + Len(t) /\ i - m \in 1 .. Len(a) + Len(t)
    BY <1>1, <1>2, <1>5
  <2>2. CASE i <= Len(s)
    <3>1. i - m <= Len(a) /\ i - m \in 1 .. Len(s) - m /\ m + (i - m) = i
      BY <1>1, <1>2, <2>1, <2>2
    <3> QED
      BY <3>1, <2>1, <2>2, <1>2, <1>5, <1>6
  <2>3. CASE ~(i <= Len(s))
    <3>1. ~(i - m <= Len(a)) /\ (i - m) - Len(a) = i - Len(s)
      BY <1>1, <1>2, <2>1, <2>3
    <3> QED
      BY <3>1, <2>1, <2>3, <1>5, <1>6
  <2> QED
    BY <2>2, <2>3
<1>8. Len(v) = Len(u) - m
  BY <1>1, <1>2, <1>5, <1>6
<1> QED
  BY <1>2, <1>3, <1>4, <1>7, <1>8, Zenon DEF a

LEMMA LeastIs ==
  ASSUME NEW S \in SUBSET Int, NEW x \in S, \A y \in S : x <= y
  PROVE  Min(S) = x
<1>1. Min(S) \in S /\ \A y \in S : Min(S) <= y
  BY DEF Min
<1>2. PICK m : m = Min(S)
  OBVIOUS
<1>3. m \in Int /\ x \in Int /\ m <= x /\ x <= m
  BY <1>1, <1>2
<1>4. m = x
  BY <1>3
<1> QED
  BY <1>2, <1>4

\* The first line end that the scan finds is that of the first line.
LEMMA Found ==
  ASSUME Typed, NEW at, Laid(Bytes, Len(done), at), ptr > 0, LineEnds(1) # {}
  PROVE  LET line == typed[Len(done) + 1]
         IN /\ Len(done) < Len(typed) /\ line \in Lines /\ line # <<>>
            /\ Min(LineEnds(1)) = Len(line) + 1 /\ Len(line) + 2 <= Len(buf)
            /\ at[Len(done) + 1] = Len(line) + 2 /\ SubSeq(buf, 1, Len(line)) = line
<1>1. /\ Bytes \in Seq(Char) /\ Len(Bytes) = Len(buf) + Len(wire)
      /\ Len(buf) \in Nat /\ Len(wire) \in Nat /\ Len(typed) \in Nat /\ Len(done) \in Nat
      /\ \A i \in 1 .. Len(buf) : Bytes[i] = buf[i]
  BY BytesAt
<1>2. ptr \in 1 .. 2 /\ buf \in Seq(Char) /\ typed \in Seq(Lines \ {<<>>}) /\ Len(done) <= Len(typed)
  BY DEF Typed
<1>3. PICK j : j \in LineEnds(1)
  OBVIOUS
<1>4. \A i \in LineEnds(1) : i \in ptr .. Len(buf) - 1 /\ buf[i] = CR /\ buf[i + 1] = LF
  BY DEF LineEnds
<1>5. Len(done) < Len(typed)
  <2>1. Len(Bytes) > 0
    BY <1>1, <1>2, <1>3, <1>4
  <2>2. at[Len(done)] = 0 /\ at[Len(typed)] = Len(Bytes)
    BY DEF Laid
  <2> QED
    BY <1>1, <1>2, <2>1, <2>2
<1>6. PICK n, line, L : n = Len(done) /\ line = typed[n + 1] /\ L = Len(line)
  OBVIOUS
<1>7. line \in Lines /\ line # <<>> /\ line \in Seq(Char)
  <2>1. n + 1 \in 1 .. Len(typed)
    BY <1>1, <1>5, <1>6
  <2>2. line \in Lines \ {<<>>}
    BY <1>2, <1>6, <2>1, ElementOfSeq
  <2> QED
    BY <2>2, LineChars
<1>8. L \in Nat /\ L >= 1
  BY <1>6, <1>7, EmptySeq
<1>9. /\ at[n + 1] = L + 2 /\ L + 2 <= Len(Bytes)
      /\ \A k \in 1 .. L : Bytes[k] = line[k]
      /\ Bytes[L + 1] = CR /\ Bytes[L + 2] = LF
  <2>1. n + 1 \in Len(done) + 1 .. Len(typed) /\ n + 1 \in Len(done) .. Len(typed) /\ (n + 1) - 1 = n
    BY <1>1, <1>5, <1>6
  <2>2. Stands(Bytes, line, 0, at[n + 1]) /\ at[n + 1] \in 0 .. Len(Bytes)
    BY <1>6, <2>1 DEF Laid
  <2>3. at[n + 1] = L + 2
    BY <1>6, <1>8, <2>2 DEF Stands
  <2>4. \A k \in 1 .. L : 0 + k = k
    BY <1>8
  <2>5. \A k \in 1 .. L : Bytes[0 + k] = line[k]
    BY <1>6, <2>2 DEF Stands
  <2>6. (L + 2) - 1 = L + 1
    BY <1>8
  <2> QED
    BY <1>1, <2>2, <2>3, <2>4, <2>5, <2>6 DEF Stands
<1>10. \A i \in LineEnds(1) : L + 1 <= i
  <2> SUFFICES ASSUME NEW i \in LineEnds(1), i <= L PROVE FALSE
    BY <1>1, <1>2, <1>4, <1>8
  <2>1. i \in 1 .. Len(buf) /\ i + 1 \in 1 .. Len(buf) /\ i \in 1 .. L
    BY <1>1, <1>2, <1>4, <1>8
  <2>2. Bytes[i] = CR /\ Bytes[i + 1] = LF
    BY <2>1, <1>1, <1>4
  <2>3. CASE i = L
    BY <2>2, <2>3, <1>9, Ending
  <2>4. CASE i # L
    <3>1. i \in 1 .. Len(line) - 1 /\ i + 1 \in 1 .. L
      BY <2>1, <2>4, <1>6, <1>8
    <3>2. line[i] = CR /\ line[i + 1] = LF
      BY <3>1, <2>1, <2>2, <1>9
    <3> QED
      BY <3>1, <3>2, <1>7, LinesAssumption
  <2> QED
    BY <2>3, <2>4
<1>11. L + 1 \in LineEnds(1) /\ L + 2 <= Len(buf)
  <2>1. L + 1 \in ptr .. Len(buf) - 1 /\ L + 1 \in 1 .. Len(buf) /\ L + 2 \in 1 .. Len(buf) /\ (L + 1) + 1 = L + 2
    BY <1>1, <1>2, <1>3, <1>4, <1>8, <1>10
  <2>2. buf[L + 1] = CR /\ buf[L + 2] = LF
    BY <2>1, <1>1, <1>9
  <2> QED
    BY <2>1, <2>2 DEF LineEnds
<1>12. Min(LineEnds(1)) = L + 1
  <2>1. LineEnds(1) \in SUBSET Int
    BY <1>1, <1>2 DEF LineEnds
  <2> QED
    BY <2>1, <1>10, <1>11, LeastIs
<1>13. SubSeq(buf, 1, L) = line
  <2>1. \A i \in 1 .. Len(buf) : buf[i] \in Char
    BY <1>2, ElementOfSeq
  <2>2. SubSeq(buf, 1, L) \in Seq(Char) /\ Len(SubSeq(buf, 1, L)) = L /\ \A i \in 1 .. L : SubSeq(buf, 1, L)[i] = buf[i]
    BY <2>1, <1>1, <1>8, <1>11, SubSeqProperties
  <2>3. \A i \in 1 .. L : buf[i] = line[i]
    BY <1>1, <1>8, <1>9, <1>11
  <2> QED
    BY <2>2, <2>3, <1>6, <1>7, SeqEqual
<1> QED
  BY <1>5, <1>6, <1>7, <1>9, <1>11, <1>12, <1>13

LEMMA ScanStep == ASSUME LinesInv, Scan PROVE LinesInv'
<1>1. PICK at : Laid(Bytes, Len(done), at)
  BY DEF LinesInv
<1>2. /\ ptr > 0 /\ UNCHANGED <<wire, typed>> /\ Typed
      /\ sock' \in {"none", "open", "left", "smashed"}
  BY DEF Scan, Takes, Connected, LinesInv, Typed
<1>3. CASE LineEnds(1) = {}
  <2>1. UNCHANGED <<buf, done, reasonToSuicide>> /\ ptr' = 0
    BY <1>3 DEF Scan, Takes
  <2>2. Bytes' = Bytes
    BY <1>2, <2>1 DEF Bytes
  <2> QED
    BY <1>2, <2>1, <2>2, Same DEF Typed
<1>4. CASE LineEnds(1) # {}
  <2>1. PICK n, m, line, L, b : /\ n = Len(done) /\ m = Len(typed) /\ line = typed[n + 1] /\ L = Len(line)
                                /\ b = Bytes
    OBVIOUS
  <2>2. /\ n < m /\ line \in Lines /\ line # <<>> /\ Min(LineEnds(1)) = L + 1 /\ L + 2 <= Len(buf)
        /\ at[n + 1] = L + 2 /\ SubSeq(buf, 1, L) = line
    BY <1>1, <1>2, <1>4, <2>1, Found
  <2>3. /\ b \in Seq(Char) /\ Len(b) = Len(buf) + Len(wire) /\ n \in Nat /\ m \in Nat
        /\ Len(buf) \in Nat /\ Len(wire) \in Nat
    BY <1>2, <2>1, BytesAt
  <2>4. L \in Nat
    BY <2>1, <2>2, LineChars, LenProperties
  <2>5. /\ buf' = SubSeq(buf, (L + 1) + 2, Len(buf)) /\ ptr' = 2
        /\ done' = (IF SubSeq(buf, 1, (L + 1) - 1) = <<>> THEN done ELSE Append(done, SubSeq(buf, 1, (L + 1) - 1)))
        /\ reasonToSuicide' = (reasonToSuicide \/ SubSeq(buf, 1, (L + 1) - 1) \in Quits)
    BY <1>4, <2>2 DEF Scan, Takes
  <2>6. (L + 1) - 1 = L /\ (L + 1) + 2 = (L + 2) + 1 /\ L + 2 \in 0 .. Len(buf)
    BY <2>2, <2>3, <2>4
  <2>7. buf' = SubSeq(buf, (L + 2) + 1, Len(buf)) /\ done' = Append(done, line)
    BY <2>2, <2>5, <2>6
  <2>8. reasonToSuicide' \in BOOLEAN
    BY <2>5 DEF Typed
  <2>9. PICK d, c : d = L + 2 /\ c = Bytes'
    OBVIOUS
  <2>10. d \in 0 .. Len(buf) /\ d \in Nat
    BY <2>4, <2>6, <2>9
  <2>11. buf \in Seq(Char) /\ wire \in Seq(Char) /\ done \in Seq(Lines) /\ typed \in Seq(Lines \ {<<>>})
    BY <1>2 DEF Typed
  <2>12. c = SubSeq(buf, d + 1, Len(buf)) \o wire
    BY <1>2, <2>7, <2>9 DEF Bytes
  <2>13. /\ buf' \in Seq(Char) /\ Len(c) = Len(b) - d
         /\ \A i \in d + 1 .. Len(b) : c[i - d] = b[i]
    <3>1. /\ SubSeq(buf, d + 1, Len(buf)) \in Seq(Char)
          /\ Len(SubSeq(buf, d + 1, Len(buf)) \o wire) = Len(buf \o wire) - d
          /\ \A i \in d + 1 .. Len(buf \o wire) :
                (SubSeq(buf, d + 1, Len(buf)) \o wire)[i - d] = (buf \o wire)[i]
      BY <2>10, <2>11, Dropped
    <3> QED
      BY <3>1, <2>1, <2>7, <2>9, <2>12, Zenon DEF Bytes
  <2>14. /\ done' \in Seq(Lines) /\ Len(done') = n + 1 /\ done'[n + 1] = line
         /\ \A i \in 1 .. n : done'[i] = done[i]
    BY <2>1, <2>2, <2>7, <2>11, AppendProperties
  <2>15. Typed'
    <3>1. \A i \in 1 .. n : done[i] = typed[i]
      BY <1>2, <2>1 DEF Typed
    <3>2. Len(done') <= Len(typed) /\ \A i \in 1 .. Len(done') : done'[i] = typed[i]
      BY <2>1, <2>2, <2>3, <2>14, <3>1
    <3>3. Len(Bytes) < Size - 1
      BY <1>2 DEF Typed
    <3>4. Len(c) < Size - 1
      BY <3>3, <2>1, <2>3, <2>10, <2>13, SizeAssumption
    <3>5. sock' \in {"none", "open", "left", "smashed"} /\ ptr' \in 0 .. 2
      BY <1>2, <2>5 DEF Typed
    <3>6. wire' \in Seq(Char) /\ typed' \in Seq(Lines \ {<<>>})
      BY <1>2, <2>11
    <3>7. Len(done') <= Len(typed') /\ \A i \in 1 .. Len(done') : done'[i] = typed'[i]
      BY <1>2, <3>2
    <3>8. Len(Bytes') < Size - 1
      BY <2>9, <3>4
    <3> QED
      BY <3>5, <3>6, <3>7, <3>8, <2>8, <2>13, <2>14 DEF Typed
  <2>16. PICK to : to = [i \in 0 .. m |-> at[i] - d]
    OBVIOUS
  <2>17. Laid(c, n + 1, to)'
    <3>1. at \in [0 .. m -> Int] /\ at[m] = Len(b)
          /\ (\A i \in n .. m : at[i] \in 0 .. Len(b))
          /\ (\A i, j \in n .. m : i <= j => at[i] <= at[j])
          /\ \A i \in n + 1 .. m : Stands(b, typed[i], at[i - 1], at[i])
      BY <1>1, <2>1 DEF Laid
    <3>2. \A i \in 0 .. m : to[i] = at[i] - d
      BY <2>16
    <3>3. to \in [0 .. m -> Int]
      BY <3>1, <2>10, <2>16
    <3>4. to[n + 1] = 0
      BY <3>2, <2>2, <2>3, <2>9, <2>10
    <3>5. to[m] = Len(c)
      BY <3>1, <3>2, <2>3, <2>13
    <3>6. \A i \in n + 2 .. m : /\ i \in n + 1 .. m /\ i - 1 \in n .. m /\ i \in n .. m /\ i \in 0 .. m /\ i - 1 \in 0 .. m
                                /\ i \in 1 .. m
      BY <2>3
    <3>7. \A i \in 1 .. m : Len(typed[i]) \in Nat
      <4> TAKE i \in 1 .. m
      <4>1. typed[i] \in Lines
        BY <2>1, <2>11, ElementOfSeq
      <4> QED
        BY <4>1, LineChars, LenProperties
    <3>8. \A i \in n + 1 .. m : at[i] \in d .. Len(b)
      <4> TAKE i \in n + 1 .. m
      <4>1. i \in n .. m /\ n + 1 \in n .. m /\ n + 1 <= i
        BY <2>2, <2>3
      <4> QED
        BY <4>1, <3>1, <2>2, <2>3, <2>9, <2>10
    <3>9. \A i \in n + 1 .. m : to[i] \in 0 .. Len(c)
      <4> TAKE i \in n + 1 .. m
      <4>1. i \in 0 .. m
        BY <2>3
      <4> QED
        BY <4>1, <3>2, <3>8, <2>3, <2>10, <2>13
    <3>10. \A i, j \in n + 1 .. m : i <= j => to[i] <= to[j]
      <4> TAKE i, j \in n + 1 .. m
      <4>1. HAVE i <= j
      <4>2. i \in n .. m /\ j \in n .. m /\ i \in 0 .. m /\ j \in 0 .. m
        BY <2>3
      <4> QED
        BY <4>1, <4>2, <3>1, <3>2, <3>8, <2>3, <2>10
    <3>11. \A i \in n + 2 .. m : Stands(c, typed[i], to[i - 1], to[i])
      <4> TAKE i \in n + 2 .. m
      <4>1. PICK ln, p, q : ln = typed[i] /\ p = at[i - 1] /\ q = at[i]
        OBVIOUS
      <4>2. i - 1 \in n + 1 .. m
        BY <2>3
      <4>3. p \in d .. Len(b) /\ q \in d .. Len(b) /\ Stands(b, ln, p, q) /\ Len(ln) \in Nat
        BY <4>1, <4>2, <3>1, <3>6, <3>7, <3>8
      <4>4. to[i - 1] = p - d /\ to[i] = q - d
        BY <4>1, <3>2, <3>6
      <4>5. p \in Int /\ q \in Int /\ d \in Int
        BY <4>3, <2>3, <2>10
      <4>6. \A k \in p + 1 .. q : c[k - d] = b[k]
        BY <4>3, <4>5, <2>3, <2>10, <2>13
      <4>7. Stands(c, ln, p - d, q - d)
        BY <4>3, <4>5, <4>6, StandsIn, Zenon
      <4> QED
        BY <4>1, <4>4, <4>7
    <3>12. (n + 1) + 1 = n + 2
      BY <2>3
    <3> QED
      BY <3>3, <3>4, <3>5, <3>9, <3>10, <3>11, <3>12, <1>2, <2>1 DEF Laid
  <2> QED
    BY <2>9, <2>14, <2>15, <2>17 DEF LinesInv
<1> QED
  BY <1>3, <1>4

-----------------------------------------------------------------------------
LEMMA LinesNext == ASSUME ~EmptyLines, ~Bursts PROVE LinesInv /\ [CtlNext]_ctlVars => LinesInv'
<1> SUFFICES ASSUME LinesInv, [CtlNext]_ctlVars PROVE LinesInv'
  OBVIOUS
<1>1. CASE Accepts
  BY <1>1, AcceptsStep
<1>2. CASE Leaves \/ Closes \/ UNCHANGED ctlVars
  BY <1>2, LeavesStep
<1>3. CASE Receives
  BY <1>3, ReceivesStep
<1>4. CASE Scan
  BY <1>4, ScanStep
<1>5. CASE \E line \in Lines : Types(line)
  BY <1>5, TypesStep
<1> QED
  BY <1>1, <1>2, <1>3, <1>4, <1>5 DEF CtlNext

\* Whatever pieces the bytes come in, and for lines of any length: while the
\* client neither fills the buffer nor sends an empty line, YSM_DoCommand is
\* called with the lines it has typed, whole, each once and in order
\* (ctlTcpHandler).
THEOREM InOrder == ASSUME ~EmptyLines, ~Bursts PROVE CtlSpec => []LinesInOrder
<1>1. LinesInv => LinesInOrder
  <2> SUFFICES ASSUME LinesInv PROVE IsPrefix(done, typed)
    BY DEF LinesInOrder
  <2>1. typed \in Seq(Lines) /\ done \in Seq(Lines) /\ Len(done) <= Len(typed)
        /\ \A i \in 1 .. Len(done) : done[i] = typed[i]
    <3>1. typed \in Seq(Lines \ {<<>>}) /\ Lines \ {<<>>} \subseteq Lines
      BY DEF LinesInv, Typed
    <3>2. typed \in Seq(Lines)
      BY <3>1, SeqMonotonic
    <3> QED
      BY <3>2 DEF LinesInv, Typed
  <2>2. Len(done) \in Nat /\ Len(typed) \in Nat
    BY <2>1, LenProperties
  <2>3. DOMAIN done = 1 .. Len(done) /\ Len(done) <= Len(typed)
    BY <2>1, LenProperties
  <2>4. \A i \in 1 .. Len(done) : typed[i] \in Lines
    BY <2>1, <2>2, ElementOfSeq
  <2>5. /\ SubSeq(typed, 1, Len(done)) \in Seq(Lines) /\ Len(SubSeq(typed, 1, Len(done))) = Len(done)
        /\ \A i \in 1 .. Len(done) : SubSeq(typed, 1, Len(done))[i] = typed[i]
    BY <2>2, <2>4, SubSeqProperties
  <2>6. SubSeq(typed, 1, Len(done)) = done
    BY <2>1, <2>5, SeqEqual
  <2>7. SubSeq(done, 1, Len(done)) = done
    <3>1. \A i \in 1 .. Len(done) : done[i] \in Lines
      BY <2>1, ElementOfSeq
    <3>2. /\ SubSeq(done, 1, Len(done)) \in Seq(Lines) /\ Len(SubSeq(done, 1, Len(done))) = Len(done)
          /\ \A i \in 1 .. Len(done) : SubSeq(done, 1, Len(done))[i] = done[i]
      BY <2>2, <3>1, SubSeqProperties
    <3> QED
      BY <2>1, <3>2, SeqEqual
  <2> QED
    BY <2>1, <2>6, <2>7 DEF IsPrefix
<1> QED
  BY <1>1, LinesInit, LinesNext, PTL DEF CtlSpec

-----------------------------------------------------------------------------
\* The members of a finite set of places, counted from the least.

Rank(S, i) == Cardinality({k \in S : k < i})

LEMMA RankType ==
  ASSUME NEW S \in SUBSET Int, IsFiniteSet(S), NEW i \in Int
  PROVE  /\ Rank(S, i) \in Nat /\ Rank(S, i) <= Cardinality(S) /\ Cardinality(S) \in Nat
         /\ i \in S => Rank(S, i) < Cardinality(S)
<1> DEFINE T == {k \in S : k < i}
<1>1. T \in SUBSET S
  OBVIOUS
<1>2. IsFiniteSet(T) /\ Cardinality(T) <= Cardinality(S) /\ (Cardinality(S) = Cardinality(T) => S = T)
  BY <1>1, FS_Subset
<1>3. Cardinality(T) \in Nat /\ Cardinality(S) \in Nat
  BY <1>2, FS_CardinalityType
<1>4. i \notin T
  OBVIOUS
<1> HIDE DEF T
<1>5. i \in S => Cardinality(T) < Cardinality(S)
  BY <1>2, <1>3, <1>4
<1> QED
  BY <1>2, <1>3, <1>5 DEF Rank, T

LEMMA RankLess ==
  ASSUME NEW S \in SUBSET Int, IsFiniteSet(S), NEW i \in S, NEW j \in S, i < j
  PROVE  Rank(S, i) < Rank(S, j)
<1> DEFINE T == {k \in S : k < i}
           U == {k \in S : k < j}
<1>1. T \in SUBSET U /\ i \in U /\ i \notin T /\ U \in SUBSET S
  <2>1. \A k \in S : k < i => k < j
    OBVIOUS
  <2>2. T \in SUBSET U
    BY <2>1, Zenon
  <2>3. i \in U /\ i \notin T
    OBVIOUS
  <2>4. U \in SUBSET S
    OBVIOUS
  <2> QED
    BY <2>2, <2>3, <2>4
<1> HIDE DEF T, U
<1>2. IsFiniteSet(U)
  BY <1>1, FS_Subset
<1>3. IsFiniteSet(T) /\ Cardinality(T) <= Cardinality(U) /\ (Cardinality(U) = Cardinality(T) => U = T)
  BY <1>1, <1>2, FS_Subset
<1>4. Cardinality(T) \in Nat /\ Cardinality(U) \in Nat
  BY <1>2, <1>3, FS_CardinalityType
<1>5. Cardinality(T) < Cardinality(U)
  BY <1>1, <1>3, <1>4
<1> QED
  BY <1>5 DEF Rank, T, U

LEMMA RankSame ==
  ASSUME NEW S \in SUBSET Int, IsFiniteSet(S), NEW i \in S, NEW j \in S, Rank(S, i) = Rank(S, j)
  PROVE  i = j
<1>1. i \in Int /\ j \in Int /\ Rank(S, i) \in Nat /\ Rank(S, j) \in Nat
  BY RankType
<1>2. CASE i < j
  <2>1. Rank(S, i) < Rank(S, j)
    BY <1>2, RankLess
  <2> QED
    BY <1>1, <2>1
<1>3. CASE j < i
  <2>1. Rank(S, j) < Rank(S, i)
    BY <1>3, RankLess
  <2> QED
    BY <1>1, <2>1
<1> QED
  BY <1>1, <1>2, <1>3

\* Every number up to the size of the set is the place of a member.
LEMMA Places ==
  ASSUME NEW S \in SUBSET Int, IsFiniteSet(S), NEW j \in 1 .. Cardinality(S)
  PROVE  Nth(S, j) \in S /\ Rank(S, Nth(S, j)) = j - 1
<1>1. PICK n : n = Cardinality(S)
  OBVIOUS
<1>2. n \in Nat
  BY <1>1, FS_CardinalityType
<1>3. PICK T : T = 0 .. n - 1
  OBVIOUS
<1>4. IsFiniteSet(T) /\ Cardinality(T) = n
  <2>1. n - 1 \in Int /\ 0 \in Int /\ (IF 0 > n - 1 THEN 0 ELSE (n - 1) - 0 + 1) = n
    BY <1>2
  <2>2. IsFiniteSet(0 .. n - 1) /\ Cardinality(0 .. n - 1) = IF 0 > n - 1 THEN 0 ELSE (n - 1) - 0 + 1
    BY <2>1, FS_Interval
  <2> QED
    BY <1>3, <2>1, <2>2
<1>5. \A i \in S : Rank(S, i) \in T
  <2> TAKE i \in S
  <2>1. Rank(S, i) \in Nat /\ Rank(S, i) < n
    BY <1>1, RankType
  <2> QED
    BY <1>2, <1>3, <2>1
<1>6. PICK f : f = [i \in S |-> Rank(S, i)]
  OBVIOUS
<1>7. f \in Injection(S, T)
  <2>1. f \in [S -> T]
    BY <1>5, <1>6
  <2>2. \A a, b \in S : f[a] = f[b] => a = b
    BY <1>6, RankSame
  <2> QED
    BY <2>1, <2>2 DEF Injection, IsInjective
<1>8. f \in Surjection(S, T)
  BY <1>1, <1>4, <1>7, FS_Injection
<1>9. j - 1 \in T
  BY <1>1, <1>2, <1>3
<1>10. \E i \in S : f[i] = j - 1
  BY <1>8, <1>9 DEF Surjection
<1>11. \E i \in S : Rank(S, i) = j - 1
  BY <1>6, <1>10
<1> QED
  BY <1>11 DEF Nth, Rank

LEMMA PlaceIs ==
  ASSUME NEW S \in SUBSET Int, IsFiniteSet(S), NEW i \in S, NEW j \in Int, Rank(S, i) = j - 1
  PROVE  Nth(S, j) = i
<1>1. \E k \in S : Rank(S, k) = j - 1
  OBVIOUS
<1>2. Nth(S, j) \in S /\ Rank(S, Nth(S, j)) = j - 1
  BY <1>1 DEF Nth, Rank
<1>3. Rank(S, Nth(S, j)) = Rank(S, i)
  BY <1>2
<1> QED
  BY <1>2, <1>3, RankSame, Zenon

\* Nothing stands before the first place, between two that follow one another,
\* or behind the last.
LEMMA NoneBetween ==
  ASSUME NEW S \in SUBSET Int, IsFiniteSet(S), NEW j \in 1 .. Cardinality(S) + 1, NEW i \in S,
         j > 1 => Nth(S, j - 1) < i,
         j <= Cardinality(S) => i < Nth(S, j)
  PROVE  FALSE
<1>1. Cardinality(S) \in Nat /\ Rank(S, i) \in Nat /\ Rank(S, i) < Cardinality(S)
  BY RankType, FS_CardinalityType
<1>2. ASSUME j > 1 PROVE Rank(S, i) > j - 2
  <2>1. j - 1 \in 1 .. Cardinality(S)
    BY <1>1, <1>2
  <2>2. Nth(S, j - 1) \in S /\ Rank(S, Nth(S, j - 1)) = (j - 1) - 1
    BY <2>1, Places
  <2>3. Rank(S, Nth(S, j - 1)) < Rank(S, i)
    BY <1>2, <2>2, RankLess
  <2> QED
    BY <1>1, <2>2, <2>3
<1>3. ASSUME j <= Cardinality(S) PROVE Rank(S, i) < j - 1
  <2>1. j \in 1 .. Cardinality(S)
    BY <1>1, <1>3
  <2>2. Nth(S, j) \in S /\ Rank(S, Nth(S, j)) = j - 1
    BY <2>1, Places
  <2>3. Rank(S, i) < Rank(S, Nth(S, j))
    BY <1>3, <2>2, RankLess
  <2> QED
    BY <1>1, <2>2, <2>3
<1>4. j \in Int /\ 1 <= j /\ j <= Cardinality(S) + 1
  BY <1>1
<1> QED
  BY <1>1, <1>2, <1>3, <1>4

LEMMA PlacesRise ==
  ASSUME NEW S \in SUBSET Int, IsFiniteSet(S), NEW j \in 2 .. Cardinality(S)
  PROVE  Nth(S, j - 1) < Nth(S, j)
<1>1. Cardinality(S) \in Nat
  BY FS_CardinalityType
<1>2. j \in 1 .. Cardinality(S) /\ j - 1 \in 1 .. Cardinality(S)
  BY <1>1
<1>3. PICK p, q : p = Nth(S, j - 1) /\ q = Nth(S, j)
  OBVIOUS
<1>4. p \in S /\ Rank(S, p) = (j - 1) - 1 /\ q \in S /\ Rank(S, q) = j - 1
  BY <1>2, <1>3, Places
<1>5. CASE q < p
  <2>1. Rank(S, q) < Rank(S, p)
    BY <1>4, <1>5, RankLess
  <2> QED
    BY <2>1, <1>4
<1>6. CASE q = p
  BY <1>4, <1>6
<1> QED
  BY <1>3, <1>4, <1>5, <1>6

LEMMA FirstOf ==
  ASSUME NEW S \in SUBSET Nat, S # {}
  PROVE  \E e \in S : \A i \in S : e <= i
<1>1. PICK x : x \in S
  OBVIOUS
<1>2. PICK T : T = {i \in S : i <= x}
  OBVIOUS
<1>3. IsFiniteSet(T) /\ Cardinality(T) \in Nat
  <2>1. T \in SUBSET Nat /\ x \in Nat /\ \A s \in T : s <= x
    BY <1>1, <1>2
  <2> QED
    BY <2>1, FS_BoundedSetOfNaturals, FS_CardinalityType
<1>4. Cardinality(T) # 0
  BY <1>1, <1>2, <1>3, FS_EmptySet
<1>5. T \in SUBSET Int /\ 1 \in 1 .. Cardinality(T)
  <2>1. \A i \in T : i \in Int
    BY <1>2
  <2>2. PICK n : n = Cardinality(T)
    OBVIOUS
  <2>3. n \in Nat /\ n # 0
    BY <2>2, <1>3, <1>4
  <2>4. 1 \in 1 .. n
    BY <2>3
  <2> QED
    BY <2>1, <2>2, <2>4
<1>6. PICK e : e = Nth(T, 1)
  OBVIOUS
<1>7. e \in T /\ Rank(T, e) = 1 - 1
  BY <1>3, <1>5, <1>6, Places
<1>8. \A i \in S : e <= i
  <2> SUFFICES ASSUME NEW i \in S, ~(e <= i) PROVE FALSE
    OBVIOUS
  <2>1. i < e /\ i \in T
    BY <1>1, <1>2, <1>7
  <2>2. Rank(T, i) < Rank(T, e)
    BY <2>1, <1>3, <1>5, <1>7, RankLess
  <2>3. Rank(T, i) \in Nat
    BY <2>1, <1>3, <1>5, RankType
  <2> QED
    BY <2>2, <2>3, <1>7
<1> QED
  BY <1>2, <1>7, <1>8

-----------------------------------------------------------------------------
\* A line, the ends of its words, and the blanks that cut it.

CutsOf(line) == {i \in Blanks(line) : i > 1 /\ line[i - 1] # Blank}
ArgFrom(line, j) == IF j = 1 THEN 1 ELSE Nth(CutsOf(line), j - 1) + 1
ArgTo(line, j) == IF j > Cardinality(CutsOf(line)) THEN Len(line) ELSE Nth(CutsOf(line), j) - 1

LEMMA LineShape ==
  ASSUME NEW C, NEW line \in Seq(C)
  PROVE  /\ Len(line) \in Nat /\ DOMAIN line = 1 .. Len(line)
         /\ CutsOf(line) = Ends(line) \ {Len(line) + 1}
         /\ Ends(line) \in SUBSET Int /\ IsFiniteSet(Ends(line)) /\ Cardinality(Ends(line)) \in Nat
         /\ CutsOf(line) \in SUBSET Int /\ IsFiniteSet(CutsOf(line)) /\ Cardinality(CutsOf(line)) \in Nat
         /\ \A e \in Ends(line) : /\ e \in 2 .. Len(line) + 1 /\ line[e - 1] # Blank
                                  /\ e <= Len(line) => line[e] = Blank
<1>1. Len(line) \in Nat /\ DOMAIN line = 1 .. Len(line)
  BY LenProperties
<1>2. CutsOf(line) = Ends(line) \ {Len(line) + 1}
  BY <1>1 DEF CutsOf, Blanks, Ends
<1>3. Ends(line) \in SUBSET (2 .. Len(line) + 1)
  BY DEF Ends
<1>4. IsFiniteSet(2 .. Len(line) + 1)
  BY <1>1, FS_Interval
<1>5. IsFiniteSet(Ends(line))
  BY <1>3, <1>4, FS_Subset
<1>6. IsFiniteSet(CutsOf(line))
  BY <1>2, <1>5, FS_Subset
<1> QED
  BY <1>1, <1>2, <1>3, <1>5, <1>6, FS_CardinalityType DEF Ends

\* The cuts are the ends but for one at the very end of the line, and are
\* counted as they are.
LEMMA CutsAreEnds ==
  ASSUME NEW C, NEW line \in Seq(C)
  PROVE  /\ \A j \in 1 .. Cardinality(CutsOf(line)) : Nth(Ends(line), j) = Nth(CutsOf(line), j)
         /\ Len(line) + 1 \notin Ends(line) => Cardinality(Ends(line)) = Cardinality(CutsOf(line))
         /\ Len(line) + 1 \in Ends(line)
              => /\ Cardinality(Ends(line)) = Cardinality(CutsOf(line)) + 1
                 /\ Nth(Ends(line), Cardinality(Ends(line))) = Len(line) + 1
<1>1. PICK E, A, N : E = Ends(line) /\ A = CutsOf(line) /\ N = Len(line)
  OBVIOUS
<1>2. /\ N \in Nat /\ A = E \ {N + 1} /\ E \in SUBSET Int /\ IsFiniteSet(E) /\ A \in SUBSET Int /\ IsFiniteSet(A)
      /\ \A e \in E : e \in 2 .. N + 1
      /\ Cardinality(E) \in Nat /\ Cardinality(A) \in Nat
  BY <1>1, LineShape
<1>3. \A a \in A : a \in E /\ Rank(E, a) = Rank(A, a)
  <2> TAKE a \in A
  <2>1. a \in E /\ a < N + 1
    BY <1>2
  <2>2. {k \in E : k < a} = {k \in A : k < a}
    BY <1>2, <2>1
  <2> QED
    BY <2>1, <2>2 DEF Rank
<1>4. \A j \in 1 .. Cardinality(A) : Nth(E, j) = Nth(A, j)
  <2> TAKE j \in 1 .. Cardinality(A)
  <2>1. PICK a : a = Nth(A, j)
    OBVIOUS
  <2>2. a \in A /\ Rank(A, a) = j - 1
    BY <2>1, <1>2, Places
  <2>3. a \in E /\ Rank(E, a) = j - 1 /\ j \in Int
    BY <2>2, <1>3
  <2>4. Nth(E, j) = a
    BY <2>3, <1>2, PlaceIs
  <2> QED
    BY <2>1, <2>4
<1>5. N + 1 \notin E => A = E
  BY <1>2
<1>6. ASSUME N + 1 \in E
      PROVE  Cardinality(E) = Cardinality(A) + 1 /\ Nth(E, Cardinality(E)) = N + 1
  <2>1. Cardinality(A) = Cardinality(E) - 1
    BY <1>2, <1>6, FS_RemoveElement
  <2>2. {k \in E : k < N + 1} = A
    <3>1. \A k \in E : k < N + 1 <=> k # N + 1
      BY <1>2
    <3> QED
      BY <3>1, <1>2
  <2>3. Rank(E, N + 1) = Cardinality(E) - 1 /\ Cardinality(E) \in Int
    <3>1. Rank(E, N + 1) = Cardinality(A)
      BY <2>2 DEF Rank
    <3> QED
      BY <2>1, <3>1, <1>2
  <2>4. Nth(E, Cardinality(E)) = N + 1
    BY <2>3, <1>2, <1>6, PlaceIs
  <2> QED
    BY <2>1, <2>4, <1>2
<1> QED
  BY <1>1, <1>4, <1>5, <1>6

\* Where the j-th argument begins and ends, if there is a j-th word.
LEMMA ArgEnds ==
  ASSUME NEW C, NEW line \in Seq(C), NEW j \in 1 .. Cardinality(Ends(line))
  PROVE  /\ j <= Cardinality(CutsOf(line)) + 1
         /\ ArgFrom(line, j) = (IF j = 1 THEN 1 ELSE Nth(Ends(line), j - 1) + 1)
         /\ ArgTo(line, j) = Nth(Ends(line), j) - 1
<1>1. PICK E, A, N, n : E = Ends(line) /\ A = CutsOf(line) /\ N = Len(line) /\ n = Cardinality(A)
  OBVIOUS
<1>2. /\ n \in Nat /\ N \in Nat /\ Cardinality(E) \in Nat
      /\ \A i \in 1 .. n : Nth(E, i) = Nth(A, i)
      /\ N + 1 \notin E => Cardinality(E) = n
      /\ N + 1 \in E => Cardinality(E) = n + 1 /\ Nth(E, n + 1) = N + 1
  BY <1>1, LineShape, CutsAreEnds
<1>3. j <= n + 1 /\ j \in Nat /\ 1 <= j
  BY <1>1, <1>2
<1>4. j # 1 => Nth(A, j - 1) = Nth(E, j - 1)
  <2> SUFFICES ASSUME j # 1 PROVE Nth(A, j - 1) = Nth(E, j - 1)
    OBVIOUS
  <2>1. j - 1 \in 1 .. n
    BY <1>2, <1>3
  <2> QED
    BY <2>1, <1>2
<1>5. CASE j <= n
  <2>1. j \in 1 .. n /\ ~(j > n)
    BY <1>2, <1>3, <1>5
  <2> QED
    BY <2>1, <1>1, <1>2, <1>3, <1>4 DEF ArgFrom, ArgTo
<1>6. CASE ~(j <= n)
  <2>1. j = n + 1 /\ N + 1 \in E /\ j > n
    BY <1>1, <1>2, <1>3, <1>6
  <2>2. Nth(E, j) = N + 1 /\ (N + 1) - 1 = N
    BY <2>1, <1>2
  <2> QED
    BY <2>1, <2>2, <1>1, <1>3, <1>4 DEF ArgFrom, ArgTo
<1> QED
  BY <1>5, <1>6

\* Behind a character that is no blank there is the end of its word.
LEMMA EndBehind ==
  ASSUME NEW C, NEW line \in Seq(C), NEW k \in 1 .. Len(line), line[k] # Blank,
         NEW b \in k .. Len(line) + 1, b <= Len(line) => line[b] = Blank
  PROVE  \E e \in Ends(line) : k < e /\ e <= b
<1>1. Len(line) \in Nat
  BY LenProperties
<1>2. PICK S : S = {i \in k + 1 .. b : i = Len(line) + 1 \/ line[i] = Blank}
  OBVIOUS
<1>3. b \in S
  <2>1. b # k
    BY <1>1
  <2> QED
    BY <1>1, <1>2, <2>1
<1>4. \A i \in S : i \in k + 1 .. b /\ i \in Nat
  BY <1>1, <1>2
<1>5. PICK e \in S : \A i \in S : e <= i
  <2>1. S \in SUBSET Nat /\ S # {}
    BY <1>3, <1>4
  <2> QED
    BY <2>1, <1>4, FirstOf
<1>6. line[e - 1] # Blank
  <2>1. CASE e = k + 1
    BY <2>1, <1>1
  <2>2. CASE e # k + 1
    <3>1. e - 1 \in k + 1 .. b /\ ~(e <= e - 1)
      BY <2>2, <1>1, <1>4, <1>5
    <3>2. e - 1 \notin S
      BY <3>1, <1>5
    <3> QED
      BY <3>1, <3>2, <1>2
  <2> QED
    BY <2>1, <2>2
<1>7. e \in Ends(line)
  BY <1>1, <1>2, <1>4, <1>5, <1>6 DEF Ends
<1> QED
  BY <1>1, <1>4, <1>5, <1>7

\* A stretch of the line that ends with a word and holds no other: blanks, and
\* then the word.
OneWord(line, f, t) ==
    /\ f \in 1 .. t /\ t \in 1 .. Len(line)
    /\ line[t] # Blank /\ (f = 1 \/ line[f - 1] = Blank)
    /\ \A e \in Ends(line) : ~(f - 1 < e /\ e <= t)

WordAt(line, f, x, t) ==
    /\ x \in f .. t
    /\ \A k \in f .. x - 1 : line[k] = Blank
    /\ \A k \in x .. t : line[k] # Blank

LEMMA WordFound ==
  ASSUME NEW C, NEW line \in Seq(C), NEW f, NEW t, OneWord(line, f, t)
  PROVE  \E x : WordAt(line, f, x, t)
<1>1. Len(line) \in Nat /\ t \in Nat /\ f \in Nat /\ f <= t /\ 1 <= f /\ t <= Len(line)
  BY LenProperties DEF OneWord
<1>2. PICK S : S = {k \in f .. t : line[k] # Blank}
  OBVIOUS
<1>3. S \in SUBSET Nat /\ t \in S
  BY <1>1, <1>2 DEF OneWord
<1>4. PICK x \in S : \A i \in S : x <= i
  BY <1>3, FirstOf
<1>5. x \in f .. t /\ line[x] # Blank /\ x \in Nat
  BY <1>1, <1>2, <1>4
<1>6. \A k \in f .. x - 1 : line[k] = Blank
  <2> TAKE k \in f .. x - 1
  <2>1. k \in f .. t /\ ~(x <= k)
    BY <1>1, <1>5
  <2> QED
    BY <2>1, <1>2, <1>4
<1>7. \A b \in x .. t : line[b] # Blank
  <2> SUFFICES ASSUME NEW b \in x .. t, line[b] = Blank PROVE FALSE
    OBVIOUS
  <2>1. x \in 1 .. Len(line) /\ b \in x .. Len(line) + 1
    BY <1>1, <1>5
  <2>2. PICK e \in Ends(line) : x < e /\ e <= b
    BY <2>1, <1>5, EndBehind
  <2>3. e \in Int
    BY LineShape
  <2>4. f - 1 < e /\ e <= t
    BY <2>2, <2>3, <1>1, <1>5
  <2> QED
    BY <2>2, <2>4 DEF OneWord
<1> QED
  BY <1>5, <1>6, <1>7 DEF WordAt

LEMMA WordToIs ==
  ASSUME NEW C, NEW line \in Seq(C), NEW f, NEW t, OneWord(line, f, t), NEW x, WordAt(line, f, x, t)
  PROVE  WordTo(line, t + 1) = SubSeq(line, x, t)
<1>1. Len(line) \in Nat /\ t \in Nat /\ f \in Nat /\ x \in Nat /\ f <= x /\ x <= t /\ 1 <= f /\ t <= Len(line)
  BY LenProperties DEF OneWord, WordAt
<1>2. PICK S : S = {s \in 1 .. t : \A k \in s .. t : line[k] # Blank}
  OBVIOUS
<1>3. x \in S /\ S \in SUBSET Int
  BY <1>1, <1>2 DEF WordAt
<1>4. \A s \in S : x <= s
  <2> SUFFICES ASSUME NEW s \in S, s < x PROVE FALSE
    BY <1>1, <1>3
  <2>1. s \in 1 .. t /\ x - 1 \in s .. t /\ \A k \in s .. t : line[k] # Blank
    BY <1>1, <1>2
  <2>2. CASE x = f
    <3>1. f # 1
      BY <2>1, <2>2, <1>1
    <3> QED
      BY <3>1, <2>1, <2>2 DEF OneWord
  <2>3. CASE x # f
    <3>1. x - 1 \in f .. x - 1
      BY <2>3, <1>1
    <3> QED
      BY <3>1, <2>1 DEF WordAt
  <2> QED
    BY <2>2, <2>3
<1>5. Min(S) = x
  BY <1>3, <1>4, LeastIs
<1>6. (t + 1) - 1 = t
  BY <1>1
<1> QED
  BY <1>2, <1>5, <1>6 DEF WordTo

LEMMA UnblankedIs ==
  ASSUME NEW C, NEW line \in Seq(C), NEW f, NEW t, OneWord(line, f, t), NEW x, WordAt(line, f, x, t)
  PROVE  /\ ~IsBlank(SubSeq(line, f, t))
         /\ Unblanked(SubSeq(line, f, t)) = SubSeq(line, x, t)
         /\ SubSeq(line, x, t) \in Seq(C) /\ Len(SubSeq(line, x, t)) \in Nat \ {0}
         /\ SubSeq(line, x, t)[1] # Blank
<1>1. Len(line) \in Nat /\ t \in Nat /\ f \in Nat /\ x \in Nat /\ f <= x /\ x <= t /\ 1 <= f /\ t <= Len(line)
  BY LenProperties DEF OneWord, WordAt
<1>2. \A i \in 1 .. Len(line) : line[i] \in C
  BY ElementOfSeq
<1>3. PICK w, v, n : w = SubSeq(line, f, t) /\ v = SubSeq(line, x, t) /\ n = t - f + 1
  OBVIOUS
<1>4. w \in Seq(C) /\ Len(w) = n /\ \A i \in 1 .. n : w[i] = line[f + i - 1]
  BY <1>1, <1>2, <1>3, SubSeqProperties
<1>5. v \in Seq(C) /\ Len(v) = t - x + 1 /\ \A i \in 1 .. t - x + 1 : v[i] = line[x + i - 1]
  BY <1>1, <1>2, <1>3, SubSeqProperties
<1>6. DOMAIN w = 1 .. n /\ n \in Nat /\ n >= 1
  BY <1>1, <1>3, <1>4, LenProperties
<1>7. PICK y : y = x - f + 1
  OBVIOUS
<1>8. y \in 1 .. n /\ f + y - 1 = x /\ w[y] # Blank
  <2>1. y \in 1 .. n /\ f + y - 1 = x
    BY <1>1, <1>3, <1>7
  <2>2. x \in x .. t
    BY <1>1
  <2> QED
    BY <2>1, <2>2, <1>4 DEF WordAt
<1>9. ~IsBlank(w)
  BY <1>6, <1>8 DEF IsBlank
<1>10. Min(DOMAIN w \ Blanks(w)) = y
  <2>1. PICK S : S = DOMAIN w \ Blanks(w)
    OBVIOUS
  <2>2. S = {i \in 1 .. n : w[i] # Blank}
    BY <2>1, <1>6 DEF Blanks
  <2>3. S \in SUBSET Int /\ y \in S
    BY <2>2, <1>8
  <2>4. \A i \in S : y <= i
    <3> SUFFICES ASSUME NEW i \in S, i < y PROVE FALSE
      BY <2>2, <1>6, <1>8
    <3>1. i \in 1 .. n /\ f + i - 1 \in f .. x - 1
      BY <2>2, <1>1, <1>7
    <3>2. line[f + i - 1] = Blank
      BY <3>1 DEF WordAt
    <3> QED
      BY <3>1, <3>2, <2>2, <1>4
  <2> QED
    BY <2>1, <2>3, <2>4, LeastIs
<1>11. SubSeq(w, y, n) = v
  <2>1. \A i \in 1 .. n : w[i] \in C
    BY <1>4, ElementOfSeq
  <2>2. y \in Int /\ n \in Int /\ \A i \in y .. n : w[i] \in C
    BY <2>1, <1>6, <1>8
  <2>3. PICK u : u = SubSeq(w, y, n)
    OBVIOUS
  <2>4. u \in Seq(C) /\ Len(u) = n - y + 1 /\ \A i \in 1 .. n - y + 1 : u[i] = w[y + i - 1]
    BY <2>2, <2>3, <1>8, SubSeqProperties
  <2>5. n - y + 1 = t - x + 1
    BY <1>1, <1>3, <1>7
  <2>6. \A i \in 1 .. t - x + 1 : u[i] = v[i]
    <3> TAKE i \in 1 .. t - x + 1
    <3>1. y + i - 1 \in 1 .. n /\ f + (y + i - 1) - 1 = x + i - 1
      BY <1>1, <1>3, <1>7
    <3>2. u[i] = w[y + i - 1] /\ w[y + i - 1] = line[f + (y + i - 1) - 1]
      BY <2>4, <2>5, <3>1, <1>4
    <3> QED
      BY <3>1, <3>2, <1>5
  <2> QED
    BY <2>3, <2>4, <2>5, <2>6, <1>5, SeqEqual
<1>12. Unblanked(w) = v
  BY <1>4, <1>9, <1>10, <1>11 DEF Unblanked
<1>13. Len(v) \in Nat \ {0} /\ v[1] # Blank
  <2>1. 1 \in 1 .. t - x + 1 /\ x + 1 - 1 = x /\ x \in x .. t /\ t - x + 1 \in Nat \ {0}
    BY <1>1
  <2>2. line[x] # Blank
    BY <2>1 DEF WordAt
  <2> QED
    BY <2>1, <2>2, <1>5
<1> QED
  BY <1>3, <1>5, <1>9, <1>12, <1>13

\* The j-th argument is such a stretch, and its word is the j-th of the line.
LEMMA ArgHasWord ==
  ASSUME NEW C, NEW line \in Seq(C), NEW j \in 1 .. Cardinality(Ends(line))
  PROVE  OneWord(line, ArgFrom(line, j), ArgTo(line, j)) /\ ArgTo(line, j) + 1 = Nth(Ends(line), j)
<1>1. PICK E, N, q, f, t : /\ E = Ends(line) /\ N = Len(line) /\ q = Nth(Ends(line), j)
                           /\ f = ArgFrom(line, j) /\ t = ArgTo(line, j)
  OBVIOUS
<1>2. /\ N \in Nat /\ E \in SUBSET Int /\ IsFiniteSet(E) /\ Cardinality(E) \in Nat
      /\ \A e \in E : e \in 2 .. N + 1 /\ line[e - 1] # Blank /\ (e <= N => line[e] = Blank)
  BY <1>1, LineShape
<1>3. t = q - 1 /\ f = (IF j = 1 THEN 1 ELSE Nth(E, j - 1) + 1)
  BY <1>1, ArgEnds
<1>4. q \in E
  BY <1>1, <1>2, Places
<1>5. q \in 2 .. N + 1 /\ line[t] # Blank /\ t \in 1 .. N /\ t + 1 = q
  BY <1>2, <1>3, <1>4
<1>6. f \in 1 .. t /\ (f = 1 \/ line[f - 1] = Blank)
  <2>1. CASE j = 1
    BY <2>1, <1>3, <1>5, <1>2
  <2>2. CASE j # 1
    <3>1. PICK p : p = Nth(E, j - 1)
      OBVIOUS
    <3>2. j \in 2 .. Cardinality(E) /\ j - 1 \in 1 .. Cardinality(E)
      BY <2>2, <1>1, <1>2
    <3>3. p \in E /\ p < q
      BY <3>1, <3>2, <1>1, <1>2, Places, PlacesRise
    <3>4. p \in 2 .. N + 1 /\ p <= N /\ line[p] = Blank
      BY <3>3, <1>2, <1>5
    <3>5. p # t
      BY <3>4, <1>5
    <3>6. f = p + 1 /\ f - 1 = p
      BY <2>2, <3>1, <3>4, <1>3
    <3> QED
      BY <3>3, <3>4, <3>5, <3>6, <1>2, <1>5
  <2> QED
    BY <2>1, <2>2
<1>7. \A e \in E : ~(f - 1 < e /\ e <= t)
  <2> SUFFICES ASSUME NEW e \in E, f - 1 < e, e <= t PROVE FALSE
    OBVIOUS
  <2>1. e < q /\ e \in Int
    BY <1>2, <1>5
  <2>2. j > 1 => Nth(E, j - 1) < e
    <3>1. ASSUME j > 1 PROVE Nth(E, j - 1) < e
      <4>1. PICK p : p = Nth(E, j - 1)
        OBVIOUS
      <4>2. j - 1 \in 1 .. Cardinality(E)
        BY <3>1, <1>1, <1>2
      <4>3. p \in Int /\ f = p + 1
        <5>1. p \in E
          BY <4>1, <4>2, <1>2, Places
        <5>2. j # 1
          BY <3>1
        <5> QED
          BY <5>1, <5>2, <4>1, <1>2, <1>3
      <4> QED
        BY <4>1, <4>3
    <3> QED
      BY <3>1
  <2>3. j \in 1 .. Cardinality(E) + 1
    BY <1>1, <1>2
  <2> QED
    BY <2>1, <2>2, <2>3, <1>1, <1>2, NoneBetween
<1> QED
  BY <1>1, <1>5, <1>6, <1>7 DEF OneWord

\* Behind the last word there is no other argument but a blank one.
LEMMA RestIsBlank ==
  ASSUME NEW C, NEW line \in Seq(C), Len(line) + 1 \notin Ends(line)
  PROVE  LET m == Cardinality(CutsOf(line)) + 1
         IN IsBlank(SubSeq(line, ArgFrom(line, m), ArgTo(line, m)))
<1>1. PICK E, A, N, n : E = Ends(line) /\ A = CutsOf(line) /\ N = Len(line) /\ n = Cardinality(A)
  OBVIOUS
<1>2. /\ N \in Nat /\ E \in SUBSET Int /\ IsFiniteSet(E) /\ n \in Nat /\ Cardinality(E) = n
      /\ \A e \in E : e \in 2 .. N + 1
      /\ \A j \in 1 .. n : Nth(E, j) = Nth(A, j)
  BY <1>1, LineShape, CutsAreEnds
<1>3. PICK f, t : f = ArgFrom(line, n + 1) /\ t = ArgTo(line, n + 1)
  OBVIOUS
<1>4. t = N
  BY <1>1, <1>2, <1>3 DEF ArgTo
<1>5. f \in Nat /\ 1 <= f /\ \A e \in E : e < f
  <2>1. CASE n = 0
    <3>1. f = 1 /\ E = {}
      BY <2>1, <1>1, <1>2, <1>3, FS_EmptySet DEF ArgFrom
    <3> QED
      BY <3>1
  <2>2. CASE n # 0
    <3>1. n \in 1 .. n /\ n + 1 # 1 /\ (n + 1) - 1 = n
      BY <2>2, <1>2
    <3>2. PICK p : p = Nth(E, n)
      OBVIOUS
    <3>3. p \in E /\ f = p + 1
      BY <3>1, <3>2, <1>1, <1>2, <1>3, Places DEF ArgFrom
    <3>4. \A e \in E : e <= p
      <4> SUFFICES ASSUME NEW e \in E, ~(e <= p) PROVE FALSE
        OBVIOUS
      <4>1. p < e /\ n + 1 \in 1 .. Cardinality(E) + 1 /\ ~(n + 1 <= Cardinality(E))
        BY <3>3, <1>2
      <4> QED
        BY <4>1, <3>1, <3>2, <1>2, NoneBetween
    <3> QED
      BY <3>3, <3>4, <1>2
  <2> QED
    BY <2>1, <2>2
<1>6. \A k \in f .. N : line[k] = Blank
  <2> SUFFICES ASSUME NEW k \in f .. N, line[k] # Blank PROVE FALSE
    OBVIOUS
  <2>1. k \in 1 .. Len(line) /\ N + 1 \in k .. Len(line) + 1 /\ ~(N + 1 <= Len(line))
    BY <1>1, <1>2, <1>5
  <2>2. PICK e \in Ends(line) : k < e /\ e <= N + 1
    BY <2>1, EndBehind
  <2> QED
    BY <2>2, <1>1, <1>2, <1>5
<1>7. PICK w : w = SubSeq(line, f, N)
  OBVIOUS
<1>8. \A i \in DOMAIN w : w[i] = Blank
  <2>1. \A i \in f .. N : line[i] \in C
    <3>1. \A i \in 1 .. Len(line) : line[i] \in C
      BY ElementOfSeq
    <3> QED
      BY <3>1, <1>1, <1>5
  <2>2. w \in Seq(C) /\ Len(w) = (IF f <= N THEN N - f + 1 ELSE 0) /\ \A i \in 1 .. N - f + 1 : w[i] = line[f + i - 1]
    BY <2>1, <1>2, <1>5, <1>7, SubSeqProperties
  <2>3. DOMAIN w = 1 .. Len(w)
    BY <2>2, LenProperties
  <2> TAKE i \in DOMAIN w
  <2>4. i \in 1 .. N - f + 1 /\ f + i - 1 \in f .. N
    BY <2>2, <2>3, <1>2, <1>5
  <2> QED
    BY <2>2, <2>4, <1>6
<1> QED
  BY <1>1, <1>3, <1>4, <1>7, <1>8 DEF IsBlank

\* What YSM_ParseCommand makes of a line.
LEMMA ParsedIs ==
  ASSUME NEW C, NEW line \in Seq(C)
  PROVE  LET ran == YSM_ParseCommand(line)
             m == Cardinality(Ends(line))
             Arg(j) == SubSeq(line, ArgFrom(line, j), ArgTo(line, j))
         IN /\ m \in Nat /\ ran.argc = m /\ DOMAIN ran.argv = 1 .. m /\ (m = 0 => ran.argv = <<>>)
            /\ \A j \in 1 .. m : ran.argv[j] = IF j <= 2 THEN Unblanked(Arg(j)) ELSE Arg(j)
<1> DEFINE m == Cardinality(Ends(line))
           n == Cardinality(CutsOf(line))
           Arg(j) == SubSeq(line, ArgFrom(line, j), ArgTo(line, j))
           all == Arguments(line)
<1>1. m \in Nat /\ n \in Nat
  BY LineShape
<1>2. all = [j \in 1 .. n + 1 |-> Arg(j)]
  BY DEF Arguments, Cut, CutsOf, ArgFrom, ArgTo
<1>3. \A j \in 1 .. m : j \in 1 .. n + 1 /\ ~IsBlank(Arg(j))
  <2> TAKE j \in 1 .. m
  <2>1. PICK f, t : f = ArgFrom(line, j) /\ t = ArgTo(line, j)
    OBVIOUS
  <2>2. OneWord(line, f, t)
    BY <2>1, ArgHasWord
  <2>3. PICK x : WordAt(line, f, x, t)
    BY <2>2, WordFound
  <2>4. ~IsBlank(SubSeq(line, f, t))
    BY <2>2, <2>3, UnblankedIs
  <2>5. j <= n + 1
    BY ArgEnds
  <2> QED
    BY <2>1, <2>4, <2>5, <1>1
<1>4. \A j \in 1 .. n + 1 : j \notin 1 .. m => IsBlank(Arg(j))
  <2> SUFFICES ASSUME NEW j \in 1 .. n + 1, j \notin 1 .. m PROVE IsBlank(Arg(j))
    OBVIOUS
  <2>1. Len(line) + 1 \notin Ends(line) /\ j = n + 1
    BY <1>1, CutsAreEnds
  <2> QED
    BY <2>1, RestIsBlank
<1> HIDE DEF m, n, Arg, all
<1>5. {i \in DOMAIN all : ~IsBlank(all[i])} = 1 .. m
  <2>1. DOMAIN all = 1 .. n + 1 /\ \A i \in 1 .. n + 1 : all[i] = Arg(i)
    BY <1>2
  <2> QED
    BY <2>1, <1>3, <1>4
<1>6. Cardinality(1 .. m) = m
  <2>1. 1 \in Int /\ m \in Int /\ (IF 1 > m THEN 0 ELSE m - 1 + 1) = m
    BY <1>1
  <2> QED
    BY <2>1, FS_Interval, Zenon
<1>7. YSM_ParseCommand(line) =
        [argc |-> m, argv |-> [i \in 1 .. m |-> IF i <= 2 THEN Unblanked(all[i]) ELSE all[i]]]
  BY <1>5, <1>6 DEF YSM_ParseCommand, Parsed, all
<1>8. \A i \in 1 .. m : all[i] = Arg(i)
  BY <1>2, <1>3
<1>9. PICK ran : ran = YSM_ParseCommand(line)
  OBVIOUS
<1>10. ran.argc = m /\ ran.argv = [i \in 1 .. m |-> IF i <= 2 THEN Unblanked(all[i]) ELSE all[i]]
  BY <1>7, <1>9
<1>11. DOMAIN ran.argv = 1 .. m /\ \A j \in 1 .. m : ran.argv[j] = IF j <= 2 THEN Unblanked(Arg(j)) ELSE Arg(j)
  BY <1>8, <1>10
<1>12. m = 0 => ran.argv = <<>>
  <2> SUFFICES ASSUME m = 0 PROVE ran.argv = <<>>
    OBVIOUS
  <2>1. ran.argv \in [1 .. 0 -> {}]
    BY <1>10
  <2>2. ran.argv \in Seq({}) /\ DOMAIN ran.argv = {}
    BY <2>1, SeqDef
  <2>3. Len(ran.argv) = 0
    BY <2>2, LenProperties
  <2> QED
    BY <2>2, <2>3, EmptySeq
<1> QED
  BY <1>1, <1>9, <1>10, <1>11, <1>12, Zenon DEF m, Arg

\* The words of a line, as its arguments.
LEMMA WordsAre ==
  ASSUME NEW C, NEW line \in Seq(C)
  PROVE  LET words == Words(line)
             ran == YSM_ParseCommand(line)
         IN /\ Len(words) \in Nat /\ DOMAIN words = 1 .. Len(words)
            /\ ran.argc = Len(words) /\ DOMAIN ran.argv = 1 .. Len(words)
            /\ words = <<>> => ran.argv = <<>>
            /\ \A j \in 1 .. Len(words) : /\ words[j] \in Seq(C) /\ Len(words[j]) \in Nat \ {0}
                                          /\ words[j][1] # Blank
                                          /\ Unblanked(ran.argv[j]) = words[j]
                                          /\ j <= 2 => ran.argv[j] = words[j]
<1> DEFINE m == Cardinality(Ends(line))
           words == Words(line)
           ran == YSM_ParseCommand(line)
           Arg(j) == SubSeq(line, ArgFrom(line, j), ArgTo(line, j))
<1>1. /\ m \in Nat /\ ran.argc = m /\ DOMAIN ran.argv = 1 .. m /\ (m = 0 => ran.argv = <<>>)
      /\ \A j \in 1 .. m : ran.argv[j] = IF j <= 2 THEN Unblanked(Arg(j)) ELSE Arg(j)
  BY ParsedIs
<1>2. words = [j \in 1 .. m |-> WordTo(line, Nth(Ends(line), j))]
  BY DEF Words
<1>3. \A j \in 1 .. m : /\ words[j] \in Seq(C) /\ Len(words[j]) \in Nat \ {0} /\ words[j][1] # Blank
                        /\ Unblanked(Arg(j)) = words[j]
  <2> TAKE j \in 1 .. m
  <2>1. PICK f, t : f = ArgFrom(line, j) /\ t = ArgTo(line, j)
    OBVIOUS
  <2>2. OneWord(line, f, t) /\ t + 1 = Nth(Ends(line), j)
    BY <2>1, ArgHasWord
  <2>3. PICK x : WordAt(line, f, x, t)
    BY <2>2, WordFound
  <2>4. PICK v : v = SubSeq(line, x, t)
    OBVIOUS
  <2>5. v \in Seq(C) /\ Len(v) \in Nat \ {0} /\ v[1] # Blank /\ Unblanked(SubSeq(line, f, t)) = v
    BY <2>2, <2>3, <2>4, UnblankedIs
  <2>6. WordTo(line, t + 1) = v
    BY <2>2, <2>3, <2>4, WordToIs
  <2>7. words[j] = v
    BY <2>2, <2>6, <1>2
  <2> QED
    BY <2>1, <2>5, <2>7
<1>4. words \in Seq({words[j] : j \in 1 .. m}) /\ Len(words) = m /\ DOMAIN words = 1 .. m
  <2>1. PICK W : W = {words[j] : j \in 1 .. m}
    OBVIOUS
  <2>2. words \in [1 .. m -> W]
    BY <2>1, <1>2
  <2>3. words \in Seq(W)
    BY <2>2, <1>1, SeqDef
  <2>4. DOMAIN words = 1 .. Len(words) /\ Len(words) \in Nat /\ DOMAIN words = 1 .. m
    BY <2>2, <2>3, LenProperties
  <2>5. Len(words) = m
    BY <2>4, <1>1
  <2> QED
    BY <2>1, <2>3, <2>4, <2>5
<1> HIDE DEF m, words, ran, Arg
<1>5. \A v : (v \in Seq(C) /\ Len(v) \in Nat \ {0} /\ v[1] # Blank) => Unblanked(v) = v
  <2> SUFFICES ASSUME NEW v \in Seq(C), Len(v) \in Nat \ {0}, v[1] # Blank PROVE Unblanked(v) = v
    OBVIOUS
  <2>1. DOMAIN v = 1 .. Len(v) /\ 1 \in 1 .. Len(v)
    BY LenProperties
  <2>2. ~IsBlank(v)
    BY <2>1 DEF IsBlank
  <2>3. Min(DOMAIN v \ Blanks(v)) = 1
    <3>1. PICK S : S = DOMAIN v \ Blanks(v)
      OBVIOUS
    <3>2. S \in SUBSET Int /\ 1 \in S /\ \A i \in S : 1 <= i
      BY <2>1, <3>1 DEF Blanks
    <3> QED
      BY <3>1, <3>2, LeastIs
  <2>4. SubSeq(v, 1, Len(v)) = v
    <3>1. \A i \in 1 .. Len(v) : v[i] \in C
      BY ElementOfSeq
    <3>2. /\ SubSeq(v, 1, Len(v)) \in Seq(C) /\ Len(SubSeq(v, 1, Len(v))) = Len(v)
          /\ \A i \in 1 .. Len(v) : SubSeq(v, 1, Len(v))[i] = v[i]
      BY <3>1, <2>1, SubSeqProperties
    <3> QED
      BY <3>2, SeqEqual
  <2> QED
    BY <2>2, <2>3, <2>4 DEF Unblanked
<1>6. \A j \in 1 .. m : /\ Unblanked(ran.argv[j]) = words[j]
                        /\ j <= 2 => ran.argv[j] = words[j]
  BY <1>1, <1>3, <1>5
<1>7. words = <<>> => ran.argv = <<>>
  <2>1. Len(<<>>) = 0
    OBVIOUS
  <2> QED
    BY <2>1, <1>1, <1>4
<1> QED
  BY <1>1, <1>3, <1>4, <1>6, <1>7 DEF words, ran

-----------------------------------------------------------------------------
\* The table of commands: each row is known by its first letter.

FirstLetter == <<"q", "u", "a", "d">>

LEMMA RowsDiffer ==
  ASSUME NEW C, NEW w \in Seq(C), NEW i \in DOMAIN g_command_list, NEW j \in DOMAIN g_command_list,
         Names(g_command_list[i], w), Names(g_command_list[j], w)
  PROVE  i = j
<1>1. DOMAIN g_command_list = 1 .. 4
  BY DEF g_command_list
<1>2. DOMAIN w = 1 .. Len(w) /\ Len(w) \in Nat
  BY LenProperties
<1>3. 1 \in DOMAIN w /\ Lower(w) # <<>>
  <2>1. Len(w) # 0
    BY EmptySeq DEF Names
  <2>2. 1 \in DOMAIN w
    BY <1>2, <2>1
  <2>3. DOMAIN Lower(w) = DOMAIN w
    BY DEF Lower
  <2>4. DOMAIN <<>> = {}
    OBVIOUS
  <2> QED
    BY <2>2, <2>3, <2>4
<1>4. \A k \in 1 .. 4 : Names(g_command_list[k], w) => Lower(w)[1] = FirstLetter[k]
  <2> TAKE k \in 1 .. 4
  <2>1. HAVE Names(g_command_list[k], w)
  <2>2. PICK v : v = Lower(w)
    OBVIOUS
  <2>3. v # <<>> /\ v \in {g_command_list[k].name, g_command_list[k].alias}
    BY <1>3, <2>1, <2>2 DEF Names
  <2>4. CASE k = 1
    BY <2>3, <2>4, <2>2 DEF g_command_list, FirstLetter
  <2>5. CASE k = 2
    BY <2>3, <2>5, <2>2 DEF g_command_list, FirstLetter
  <2>6. CASE k = 3
    BY <2>3, <2>6, <2>2 DEF g_command_list, FirstLetter
  <2>7. CASE k = 4
    BY <2>3, <2>7, <2>2 DEF g_command_list, FirstLetter
  <2> QED
    BY <2>4, <2>5, <2>6, <2>7
<1>5. \A k, l \in 1 .. 4 : FirstLetter[k] = FirstLetter[l] => k = l
  BY DEF FirstLetter
<1> QED
  BY <1>1, <1>4, <1>5

\* The arguments that fill argv: a word each, and the blanks at the end.
LEMMA RoomIs ==
  ASSUME NEW C, NEW line \in Seq(C), line # <<>>, HasRoom(line)
  PROVE  ~Overruns(line)
<1>1. PICK n, m : n = Cardinality(CutsOf(line)) /\ m = Cardinality(Ends(line))
  OBVIOUS
<1>2. n \in Nat /\ m \in Nat /\ Len(line) \in Nat /\ DOMAIN line = 1 .. Len(line)
  BY <1>1, LineShape
<1>3. Len(line) # 0
  BY EmptySeq
<1>4. Len(line) + 1 \in Ends(line) <=> line[Len(line)] # Blank
  BY <1>2, <1>3 DEF Ends
<1>5. n + 1 <= MAX_CMD_ARGS
  <2>1. CASE line[Len(line)] = Blank
    BY <2>1, <1>1, <1>2, <1>4, CutsAreEnds DEF HasRoom
  <2>2. CASE line[Len(line)] # Blank
    BY <2>2, <1>1, <1>2, <1>4, CutsAreEnds, ArgsAssumption DEF HasRoom
  <2> QED
    BY <2>1, <2>2
<1>6. PICK W : W = {Arguments(line)[j] : j \in 1 .. n + 1}
  OBVIOUS
<1>7. Arguments(line) \in [1 .. n + 1 -> W]
  BY <1>1, <1>6 DEF Arguments, Cut, CutsOf
<1>8. Arguments(line) \in Seq(W) /\ Len(Arguments(line)) = n + 1
  <2>1. n + 1 \in Nat
    BY <1>2
  <2>2. Arguments(line) \in Seq(W) /\ DOMAIN Arguments(line) = 1 .. n + 1
    BY <2>1, <1>7, SeqDef
  <2> QED
    BY <2>1, <2>2, LenProperties
<1> QED
  BY <1>2, <1>5, <1>8, ArgsAssumption DEF Overruns

LEMMA AllMeant == ASSUME NEW C, NEW line \in Seq(C), line # <<>>, HasRoom(line) PROVE Meant(line)
<1> DEFINE words == Words(line)
           ran == YSM_ParseCommand(line)
<1>1. /\ Len(words) \in Nat /\ DOMAIN words = 1 .. Len(words)
      /\ ran.argc = Len(words) /\ DOMAIN ran.argv = 1 .. Len(words)
      /\ words = <<>> => ran.argv = <<>>
      /\ \A j \in 1 .. Len(words) : /\ words[j] \in Seq(C) /\ Len(words[j]) \in Nat \ {0}
                                    /\ words[j][1] # Blank
                                    /\ Unblanked(ran.argv[j]) = words[j]
                                    /\ j <= 2 => ran.argv[j] = words[j]
  BY WordsAre
<1>2. YSM_DoCommand(line) = [argc |-> ran.argc, argv |-> ran.argv, outcome |-> doCommand(ran)]
  BY RoomIs DEF YSM_DoCommand
<1> HIDE DEF words, ran
<1>3. doCommand(ran) = Means(words)
  <2>1. CASE words = <<>>
    <3>1. Means(words) = <<>>
      BY <2>1 DEF Means
    <3>2. ran.argv = <<>>
      BY <2>1, <1>1
    <3>3. doCommand(ran) = <<>>
      BY <3>2 DEF doCommand, Names
    <3> QED
      BY <3>1, <3>3
  <2>2. CASE words # <<>>
    <3>1. PICK w, n : w = words[1] /\ n = Len(words)
      OBVIOUS
    <3>2. n \in Nat /\ n # 0
      <4>1. words \in Seq({words[j] : j \in 1 .. Len(words)})
        <5>1. words \in [1 .. Len(words) -> {words[j] : j \in 1 .. Len(words)}]
          BY <1>1 DEF words, Words
        <5> QED
          BY <5>1, <1>1, SeqDef
      <4> QED
        BY <4>1, <2>2, <3>1, EmptySeq
    <3>3. 1 \in 1 .. n
      BY <3>2
    <3>4. w \in Seq(C) /\ ran.argv # <<>> /\ ran.argv[1] = w
      <4>1. 1 \in DOMAIN ran.argv
        BY <3>1, <3>3, <1>1
      <4>2. 1 \notin DOMAIN <<>>
        OBVIOUS
      <4> QED
        BY <4>1, <4>2, <3>1, <3>3, <1>1
    <3>5. PICK rows : rows = {i \in DOMAIN g_command_list : Names(g_command_list[i], w)}
      OBVIOUS
    <3>6. Means(words) = IF rows = {} THEN <<>>
                         ELSE LET row == g_command_list[CHOOSE i \in rows : TRUE]
                              IN IF n > row.margs THEN row.name ELSE <<"missing">>
      <4>1. rows = {i \in DOMAIN g_command_list : words # <<>> /\ Names(g_command_list[i], words[1])}
        BY <2>2, <3>1, <3>5
      <4> QED
        BY <4>1, <3>1 DEF Means
    <3>7. doCommand(ran) = IF rows = {} THEN <<>>
                           ELSE LET row == g_command_list[CHOOSE i \in rows : \A j \in rows : i <= j]
                                IN IF n - 1 < row.margs THEN <<"missing">> ELSE row.name
      BY <3>1, <3>4, <3>5, <1>1 DEF doCommand
    <3>8. CASE rows = {}
      BY <3>6, <3>7, <3>8
    <3>9. CASE rows # {}
      <4>1. PICK i : i \in rows
        BY <3>9
      <4>2. \A k \in rows : k = i
        BY <4>1, <3>4, <3>5, RowsDiffer
      <4>3. i \in 1 .. 4 /\ i <= i
        BY <4>1, <3>5 DEF g_command_list
      <4>4. (CHOOSE k \in rows : TRUE) = i /\ (CHOOSE k \in rows : \A j \in rows : k <= j) = i
        BY <4>1, <4>2, <4>3
      <4>5. g_command_list[i].margs \in Nat
        BY <4>3 DEF g_command_list
      <4>6. PICK row : row = g_command_list[i]
        OBVIOUS
      <4>7. n - 1 < row.margs <=> ~(n > row.margs)
        BY <4>5, <4>6, <3>2
      <4> QED
        BY <4>4, <4>6, <4>7, <3>6, <3>7, <3>9
    <3> QED
      BY <3>8, <3>9
  <2> QED
    BY <2>1, <2>2
<1> QED
  <2>1. /\ ran.argc = Len(words)
        /\ \A j \in DOMAIN words : Unblanked(ran.argv[j]) = words[j] /\ (j <= 2 => ran.argv[j] = words[j])
        /\ doCommand(ran) = Means(words)
    BY <1>1, <1>3
  <2> QED
    BY <2>1, <1>2 DEF Meant, words, ran

\* However many blanks stand between the words of a line, before and after
\* them, a line that is carried out is split into its words and does what the
\* first one names (YSM_ParseCommand, doCommand), if its arguments have room
\* in argv: for any size of argv, and any lines.
THEOREM MeantByWords == ASSUME ~EmptyLines, ~Bursts PROVE CtlSpec => []WordsMeant
<1>1. LinesInv => WordsMeant
  <2> SUFFICES ASSUME LinesInv, NEW i \in DOMAIN done PROVE done[i] \in MeantLines
    BY Zenon DEF WordsMeant
  <2>1. done \in Seq(Lines)
    BY DEF LinesInv, Typed
  <2>2. done[i] \in Lines
    BY <2>1, LenProperties, ElementOfSeq
  <2>3. done[i] \in Seq(Char)
    BY <2>2, LineChars
  <2>4. done[i] # <<>> /\ HasRoom(done[i]) => Meant(done[i])
    BY <2>3, AllMeant
  <2> QED
    BY <2>2, <2>4 DEF MeantLines
<1> QED
  BY <1>1, LinesInit, LinesNext, PTL DEF CtlSpec
=============================================================================
