----------------------------- MODULE Heap_proofs -----------------------------
(***************************************************************************)
(* What is allocated and given back: the list of slaves (SlaveList) and    *)
(* the pool of byte streams (BsPool).                                      *)
(*                                                                         *)
(* The list keeps its shape for every set of blocks, numbers and           *)
(* nicknames.  The walk of slaves.c is replaced by its closure property    *)
(* (Covered), which a step can be shown to keep without induction: a set   *)
(* closed under the new suc yields one closed under the old suc.           *)
(*                                                                         *)
(* For a pool of any size, any number of threads and any number of streams *)
(* that one of them holds over each other: as long as no two of them meet  *)
(* inside initBs with the same slot, each stream has one owner, nothing    *)
(* but the packets without a head is left behind, packets leave whole      *)
(* until a write is short, and initBs finds a slot while fewer than        *)
(* MAX_BSD_NUM - Cardinality(Users) + 1 packets have been left behind.     *)
(*                                                                         *)
(* The last is the hard one, because initBs looks at one slot after the    *)
(* other while slots are given back behind it.  A user's place is the slot *)
(* it holds or looks at; Crowd says that whenever somebody is at i or      *)
(* above, those who are, with the left-behind slots there, are i fewer     *)
(* than all the users and left-behind slots together: each step up costs a *)
(* user or a slot that stays below.                                        *)
(***************************************************************************)
EXTENDS SlaveList, BsPool, FiniteSetTheorems, SequenceTheorems, TLAPS

Closed(S) == /\ start \in Node => start \in S
             /\ \A m \in S : suc[m] \in Node => suc[m] \in S

Covered == \A S \in SUBSET Node : Closed(S) => Linked \subseteq S

(* Pointers of linked blocks stay among linked blocks, and free blocks are  *)
(* zeroed.                                                                  *)
Refs == /\ start \in Linked \cup {NULL}
        /\ \A n \in Linked : /\ suc[n] \in Linked \cup {NULL}
                             /\ pre[n] \in Linked \cup {NULL}
        /\ \A n \in Node \ Linked : suc[n] = NULL /\ pre[n] = NULL

IInv == /\ TypeOK
        /\ Refs
        /\ ChainAcyclic
        /\ PreNullOrRight
        /\ Covered
        /\ UinUnique
        /\ length = Cardinality(Linked)

------------------------------------------------------------------------------
LEMMA LinkedFinite == IsFiniteSet(Linked) /\ Linked \subseteq Node
  BY NodeAssumption, FS_Subset DEF Linked

LEMMA ReachIsLinked == ASSUME Refs, Covered PROVE Reach = Linked
<1>1. Linked \in SUBSET Node
  BY DEF Linked
<1>2. Closed(Linked)
  BY NodeAssumption DEF Closed, Refs, Linked
<1>3. Reach \subseteq Linked
  BY <1>1, <1>2 DEF Reach, Walk, Closed
<1>4. Linked \subseteq Reach
  BY <1>1 DEF Reach, Walk, Covered, Closed
<1> QED
  BY <1>3, <1>4

(* The walk of insertSlaveNode stops on a linked block.                     *)
LEMMA WalkLinked == ASSUME NEW k \in Nick PROVE Walk(NotAfter(k)) \subseteq Linked
<1>1. Linked \in SUBSET Node /\ NotAfter(k) \subseteq Linked
  BY DEF Linked, NotAfter
<1> QED
  BY <1>1 DEF Walk

LEMMA UnshiftKeeps ==
  ASSUME IInv, NEW n \in Node \ Linked, NEW u \in Nat, u # 0,
         \A m \in Linked : uin[m] # u,
         unshiftListNode(n), uin' = [uin EXCEPT ![n] = u]
  PROVE  /\ Linked' = Linked \cup {n}
         /\ Refs' /\ ChainAcyclic' /\ PreNullOrRight' /\ Covered' /\ UinUnique'
         /\ length' = Cardinality(Linked') /\ length' \in Nat
         /\ start' \in Pointer /\ suc' \in [Node -> Pointer]
         /\ pre' \in [Node -> Pointer] /\ uin' \in [Node -> Nat]
<1> USE NodeAssumption
<1>1. Linked' = Linked \cup {n}
  BY DEF Linked, IInv, TypeOK
<1>2. start' = n /\ suc' = [suc EXCEPT ![n] = start] /\ length' = length + 1
  BY DEF unshiftListNode
<1>3. pre' = [m \in Node |-> IF m = start THEN n ELSE pre[m]]
  BY DEF unshiftListNode
<1>b. \A m \in Node : suc'[m] = IF m = n THEN start ELSE suc[m]
  BY <1>2 DEF IInv, TypeOK
<1>4. /\ start' \in Pointer /\ suc' \in [Node -> Pointer]
      /\ pre' \in [Node -> Pointer] /\ uin' \in [Node -> Nat]
  BY <1>2, <1>3 DEF IInv, TypeOK, Pointer
<1>5. Refs'
  BY <1>1, <1>2, <1>3, LinkedFinite DEF IInv, TypeOK, Refs, Pointer
<1>6. ChainAcyclic'
  <2>1. n # NULL /\ n # start /\ \A m \in Linked : suc[m] # n /\ m # n
    BY DEF IInv, Refs, Linked
  <2>2. ASSUME NEW m \in Linked' PROVE suc'[m] # start' \/ suc'[m] = NULL
    BY <1>1, <1>2, <1>b, <2>1, <2>2, LinkedFinite
  <2>3. ASSUME NEW m \in Linked', NEW l \in Linked', suc'[m] = suc'[l]
        PROVE  m = l \/ suc'[m] = NULL
    BY <1>1, <1>b, <2>1, <2>3, LinkedFinite DEF IInv, ChainAcyclic
  <2> QED
    BY <2>2, <2>3 DEF ChainAcyclic
<1>7. PreNullOrRight'
  BY <1>1, <1>2, <1>3, LinkedFinite DEF IInv, TypeOK, Refs, ChainAcyclic, PreNullOrRight, Pointer
<1>8. Covered'
  <2> SUFFICES ASSUME NEW S \in SUBSET Node, Closed(S)' PROVE Linked' \subseteq S
    BY DEF Covered
  <2>1. n \in S
    BY <1>2 DEF Closed
  <2>2. Closed(S)
    <3>1. start \in Node => start \in S
      BY <1>b, <2>1 DEF Closed
    <3>2. ASSUME NEW m \in S, suc[m] \in Node PROVE suc[m] \in S
      BY <1>b, <3>2 DEF Closed, IInv, Refs
    <3> QED
      BY <3>1, <3>2 DEF Closed
  <2> QED
    BY <1>1, <2>1, <2>2 DEF IInv, Covered
<1>9. UinUnique'
  BY <1>1, LinkedFinite DEF IInv, TypeOK, UinUnique
<1>10. length' = Cardinality(Linked') /\ length' \in Nat
  <2>1. Cardinality(Linked \cup {n}) = Cardinality(Linked) + 1
    BY LinkedFinite, FS_AddElement
  <2>2. Cardinality(Linked) \in Nat
    BY LinkedFinite, FS_CardinalityType
  <2> QED
    BY <1>1, <1>2, <2>1, <2>2 DEF IInv
<1> QED
  BY <1>1, <1>4, <1>5, <1>6, <1>7, <1>8, <1>9, <1>10

LEMMA InsertAfterKeeps ==
  ASSUME IInv, NEW n \in Node \ Linked, NEW p \in Linked, NEW u \in Nat, u # 0,
         \A m \in Linked : uin[m] # u,
         insertListNodeAfter(n, p), uin' = [uin EXCEPT ![n] = u]
  PROVE  /\ Linked' = Linked \cup {n}
         /\ Refs' /\ ChainAcyclic' /\ PreNullOrRight' /\ Covered' /\ UinUnique'
         /\ length' = Cardinality(Linked') /\ length' \in Nat
         /\ start' \in Pointer /\ suc' \in [Node -> Pointer]
         /\ pre' \in [Node -> Pointer] /\ uin' \in [Node -> Nat]
<1> USE NodeAssumption
<1>1. Linked' = Linked \cup {n}
  BY DEF Linked, IInv, TypeOK
<1>2. start' = start /\ suc' = [suc EXCEPT ![n] = suc[p], ![p] = n] /\ length' = length + 1
  BY DEF insertListNodeAfter
<1>3. pre' = [m \in Node |-> IF m = suc[p] THEN n ELSE pre[m]]
  BY DEF insertListNodeAfter
<1>a. p \in Node /\ p # n
  BY LinkedFinite
<1>b. \A m \in Node : suc'[m] = IF m = p THEN n ELSE IF m = n THEN suc[p] ELSE suc[m]
  BY <1>2, <1>a DEF IInv, TypeOK
<1>4. /\ start' \in Pointer /\ suc' \in [Node -> Pointer]
      /\ pre' \in [Node -> Pointer] /\ uin' \in [Node -> Nat]
  BY <1>2, <1>3, <1>a DEF IInv, TypeOK, Pointer
<1>5. Refs'
  <2>1. n # NULL /\ suc[p] \in Linked \cup {NULL}
    BY DEF IInv, Refs
  <2>2. ASSUME NEW m \in Linked'
        PROVE  suc'[m] \in Linked' \cup {NULL} /\ pre'[m] \in Linked' \cup {NULL}
    BY <1>1, <1>b, <1>3, <2>1, LinkedFinite DEF IInv, Refs
  <2>3. ASSUME NEW m \in Node \ Linked' PROVE suc'[m] = NULL /\ pre'[m] = NULL
    BY <1>1, <1>b, <1>3, <1>a, <2>1 DEF IInv, Refs
  <2>4. start' \in Linked' \cup {NULL}
    BY <1>1, <1>2 DEF IInv, Refs
  <2> QED
    BY <2>2, <2>3, <2>4 DEF Refs
<1>6. ChainAcyclic'
  <2>1. n # NULL /\ n # start /\ \A m \in Linked : suc[m] # n /\ m # n
    BY DEF IInv, Refs, Linked
  <2>2. ASSUME NEW m \in Linked' PROVE suc'[m] # start' \/ suc'[m] = NULL
    BY <1>1, <1>2, <1>b, <1>a, <2>1, <2>2, LinkedFinite DEF IInv, ChainAcyclic
  <2>3. ASSUME NEW m \in Linked', NEW l \in Linked', suc'[m] = suc'[l]
        PROVE  m = l \/ suc'[m] = NULL
    BY <1>1, <1>b, <1>a, <2>1, <2>3, LinkedFinite DEF IInv, ChainAcyclic
  <2> QED
    BY <2>2, <2>3 DEF ChainAcyclic
<1>7. PreNullOrRight'
  BY <1>1, <1>b, <1>3, <1>a, LinkedFinite DEF IInv, TypeOK, Refs, ChainAcyclic, PreNullOrRight, Pointer
<1>8. Covered'
  <2> SUFFICES ASSUME NEW S \in SUBSET Node, Closed(S)' PROVE Linked' \subseteq S
    BY DEF Covered
  <2>1. Closed(S)
    <3>1. start \in Node => start \in S
      BY <1>2 DEF Closed
    <3>2. ASSUME NEW m \in S, suc[m] \in Node PROVE suc[m] \in S
      <4>1. CASE m = p
        <5>1. n \in S
          BY <1>b, <1>a, <4>1 DEF Closed
        <5> QED
          BY <1>b, <1>a, <3>2, <4>1, <5>1 DEF Closed
      <4>2. CASE m # p
        BY <1>b, <3>2, <4>2 DEF Closed, IInv, Refs
      <4> QED
        BY <4>1, <4>2
    <3> QED
      BY <3>1, <3>2 DEF Closed
  <2>2. Linked \subseteq S
    BY <2>1 DEF IInv, Covered
  <2>3. n \in S
    BY <1>b, <1>a, <2>2 DEF Closed
  <2> QED
    BY <1>1, <2>2, <2>3
<1>9. UinUnique'
  BY <1>1, LinkedFinite DEF IInv, TypeOK, UinUnique
<1>10. length' = Cardinality(Linked') /\ length' \in Nat
  <2>1. Cardinality(Linked \cup {n}) = Cardinality(Linked) + 1
    BY LinkedFinite, FS_AddElement
  <2>2. Cardinality(Linked) \in Nat
    BY LinkedFinite, FS_CardinalityType
  <2> QED
    BY <1>1, <1>2, <2>1, <2>2 DEF IInv
<1> QED
  BY <1>1, <1>4, <1>5, <1>6, <1>7, <1>8, <1>9, <1>10

(* Unlinking a slave whose pre can be trusted: the predecessor's suc takes  *)
(* over, and a set closed under it is closed under the old one once the     *)
(* deleted slave is put back.                                               *)
LEMMA DeleteKeeps ==
  ASSUME IInv, NEW n \in Linked, n = start \/ pre[n] # NULL,
         deleteListNode(n), uin' = [uin EXCEPT ![n] = 0]
  PROVE  /\ Linked' = Linked \ {n}
         /\ Refs' /\ ChainAcyclic' /\ PreNullOrRight' /\ Covered' /\ UinUnique'
         /\ length' = Cardinality(Linked') /\ length' \in Nat
         /\ start' \in Pointer /\ suc' \in [Node -> Pointer]
         /\ pre' \in [Node -> Pointer] /\ uin' \in [Node -> Nat]
<1> USE NodeAssumption
<1>a. n \in Node /\ n # NULL
  BY LinkedFinite
<1>1. Linked' = Linked \ {n}
  BY <1>a DEF Linked, IInv, TypeOK
<1>b. n # start => pre[n] \in Linked /\ suc[pre[n]] = n /\ pre[n] # n
  <2>1. n # start => pre[n] \in Linked /\ suc[pre[n]] = n
    BY DEF IInv, Refs, PreNullOrRight
  <2>2. suc[n] # n
    <3>1. SUFFICES ASSUME suc[n] = n PROVE FALSE
      OBVIOUS
    <3>2. n # start
      BY <1>a, <3>1 DEF IInv, ChainAcyclic
    <3>3. \A m \in Linked : suc[m] = n => m = n
      BY <1>a, <3>1 DEF IInv, ChainAcyclic
    <3>4. Closed(Linked \ {n})
      BY <3>2, <3>3, LinkedFinite DEF Closed, IInv, Refs
    <3>5. Linked \subseteq Linked \ {n}
      BY <3>4, LinkedFinite DEF IInv, Covered
    <3> QED
      BY <3>5
  <2> QED
    BY <2>1, <2>2
<1>c. suc[n] # n
  <2>1. CASE n # start
    BY <1>a, <1>b, <2>1 DEF IInv, ChainAcyclic
  <2>2. CASE n = start
    BY <1>a, <2>2 DEF IInv, ChainAcyclic
  <2> QED
    BY <2>1, <2>2
<1>2. start' = (IF n = start THEN suc[n] ELSE start) /\ length' = length - 1
  BY DEF deleteListNode
<1>3. \A m \in Node : suc'[m] = IF m = n THEN NULL
                               ELSE IF n # start /\ m = pre[n] THEN suc[n] ELSE suc[m]
  <2>1. CASE n = start
    BY <1>a, <2>1 DEF deleteListNode, IInv, TypeOK
  <2>2. CASE n # start
    BY <1>a, <1>b, <2>2, LinkedFinite DEF deleteListNode, IInv, TypeOK
  <2> QED
    BY <2>1, <2>2
<1>4. pre' = [m \in Node |-> IF m = n THEN NULL
                            ELSE IF m = suc[n]
                                 THEN IF n = start THEN NULL ELSE pre[n]
                                 ELSE pre[m]]
  BY DEF deleteListNode
<1>5. /\ start' \in Pointer /\ suc' \in [Node -> Pointer]
      /\ pre' \in [Node -> Pointer] /\ uin' \in [Node -> Nat]
  <2>1. start \in Pointer /\ suc[n] \in Pointer /\ \A m \in Node : pre[m] \in Pointer
    BY <1>a DEF IInv, TypeOK
  <2>2. start' \in Pointer
    BY <1>2, <2>1
  <2>3. suc' \in [Node -> Pointer]
    BY <1>a DEF deleteListNode, IInv, TypeOK, Pointer
  <2>4. pre' \in [Node -> Pointer]
    BY <1>a, <1>4, <2>1 DEF Pointer
  <2>5. uin' \in [Node -> Nat]
    BY DEF IInv, TypeOK
  <2> QED
    BY <2>2, <2>3, <2>4, <2>5
<1>6. Refs'
  <2>0. suc[n] \in Linked' \cup {NULL} /\ (n # start => pre[n] \in Linked')
    BY <1>1, <1>b, <1>c DEF IInv, Refs
  <2>1. start' \in Linked' \cup {NULL}
    BY <1>1, <1>2, <2>0 DEF IInv, Refs
  <2>2. ASSUME NEW m \in Linked' PROVE suc'[m] \in Linked' \cup {NULL}
    <3>1. m \in Linked /\ m \in Node /\ m # n
      BY <1>1, LinkedFinite
    <3>2. CASE n # start /\ m = pre[n]
      BY <1>3, <2>0, <3>1, <3>2
    <3>3. CASE ~(n # start /\ m = pre[n])
      <4>1. suc'[m] = suc[m]
        BY <1>3, <3>1, <3>3
      <4>2. suc[m] # n
        BY <1>a, <1>b, <3>1, <3>3 DEF IInv, ChainAcyclic
      <4> QED
        BY <1>1, <3>1, <4>1, <4>2 DEF IInv, Refs
    <3> QED
      BY <3>2, <3>3
  <2>3. ASSUME NEW m \in Linked' PROVE pre'[m] \in Linked' \cup {NULL}
    <3>1. m \in Linked /\ m \in Node /\ m # n
      BY <1>1, LinkedFinite
    <3>2. CASE m = suc[n]
      BY <1>4, <2>0, <3>1, <3>2
    <3>3. CASE m # suc[n]
      <4>1. pre'[m] = pre[m]
        BY <1>4, <3>1, <3>3
      <4>2. pre[m] # n
        BY <1>a, <3>1, <3>3 DEF IInv, PreNullOrRight
      <4> QED
        BY <1>1, <3>1, <4>1, <4>2 DEF IInv, Refs
    <3> QED
      BY <3>2, <3>3
  <2>4. ASSUME NEW m \in Node \ Linked' PROVE suc'[m] = NULL /\ pre'[m] = NULL
    <3>1. CASE m = n
      BY <1>3, <1>4, <3>1, <1>a
    <3>2. CASE m # n
      <4>1. m \notin Linked /\ suc[m] = NULL /\ pre[m] = NULL
        BY <1>1, <3>2 DEF IInv, Refs
      <4>2. m # suc[n] /\ (n # start => m # pre[n])
        BY <1>b, <4>1 DEF IInv, Refs
      <4> QED
        BY <1>3, <1>4, <3>2, <4>1, <4>2
    <3> QED
      BY <3>1, <3>2
  <2> QED
    BY <2>1, <2>2, <2>3, <2>4 DEF Refs
<1>7. ChainAcyclic'
  <2>1. ASSUME NEW m \in Linked' PROVE suc'[m] # start' \/ suc'[m] = NULL
    <3>1. m \in Linked /\ m \in Node /\ m # n
      BY <1>1, LinkedFinite
    <3> QED
      BY <1>2, <1>3, <1>a, <1>b, <3>1 DEF IInv, ChainAcyclic
  <2>2. ASSUME NEW m \in Linked', NEW l \in Linked', suc'[m] = suc'[l]
        PROVE  m = l \/ suc'[m] = NULL
    <3>1. m \in Linked /\ m \in Node /\ m # n /\ l \in Linked /\ l \in Node /\ l # n
      BY <1>1, LinkedFinite
    <3> QED
      BY <1>3, <1>a, <1>b, <2>2, <3>1 DEF IInv, ChainAcyclic
  <2> QED
    BY <2>1, <2>2 DEF ChainAcyclic
<1>8. PreNullOrRight'
  <2>1. SUFFICES ASSUME NEW m \in Linked', pre'[m] # NULL PROVE suc'[pre'[m]] = m
    BY DEF PreNullOrRight
  <2>2. m \in Linked /\ m \in Node /\ m # n
    BY <1>1, LinkedFinite
  <2>3. CASE m = suc[n]
    BY <1>3, <1>4, <1>a, <1>b, <2>1, <2>2, <2>3, LinkedFinite
  <2>4. CASE m # suc[n]
    <3>1. pre'[m] = pre[m] /\ pre[m] \in Linked /\ suc[pre[m]] = m
      BY <1>4, <2>1, <2>2, <2>4 DEF IInv, Refs, PreNullOrRight
    <3>2. pre[m] # n /\ pre[m] \in Node
      BY <2>4, <3>1, LinkedFinite
    <3>3. n # start => pre[m] # pre[n]
      BY <1>b, <2>2, <3>1
    <3> QED
      BY <1>3, <3>1, <3>2, <3>3
  <2> QED
    BY <2>3, <2>4
<1>9. Covered'
  <2> SUFFICES ASSUME NEW S \in SUBSET Node, Closed(S)' PROVE Linked' \subseteq S
    BY DEF Covered
  <2>1. Closed(S \cup {n})
    <3>1. start \in Node => start \in S \cup {n}
      BY <1>2 DEF Closed
    <3>2. ASSUME NEW m \in S \cup {n}, suc[m] \in Node PROVE suc[m] \in S \cup {n}
      <4>1. CASE m = n
        <5>1. CASE n = start
          BY <1>2, <3>2, <4>1, <5>1 DEF Closed
        <5>2. CASE n # start
          <6>1. start' = start /\ pre[n] \in Node /\ pre[n] # n
            BY <1>2, <1>b, <5>2, LinkedFinite
          <6>2. pre[n] \in S
            <7>1. SUFFICES ASSUME pre[n] \notin S PROVE FALSE
              OBVIOUS
            <7>2. Closed(S \ {n})
              <8>1. start \in Node => start \in S \ {n}
                BY <5>2, <6>1 DEF Closed
              <8>2. ASSUME NEW l \in S \ {n}, suc[l] \in Node PROVE suc[l] \in S \ {n}
                <9>1. suc'[l] = suc[l] /\ suc[l] \in S
                  BY <1>3, <7>1, <8>2 DEF Closed
                <9>2. suc[l] # n
                  BY <1>a, <1>b, <5>2, <7>1, <8>2 DEF IInv, Refs, ChainAcyclic
                <9> QED
                  BY <9>1, <9>2
              <8> QED
                BY <8>1, <8>2 DEF Closed
            <7>3. n \in S \ {n}
              BY <7>2 DEF IInv, Covered
            <7> QED
              BY <7>3
          <6>3. suc'[pre[n]] = suc[n]
            BY <1>3, <5>2, <6>1
          <6> QED
            BY <3>2, <4>1, <6>2, <6>3 DEF Closed
        <5> QED
          BY <5>1, <5>2
      <4>2. CASE m # n
        <5>1. CASE n # start /\ m = pre[n]
          BY <1>b, <5>1
        <5>2. CASE ~(n # start /\ m = pre[n])
          BY <1>3, <3>2, <4>2, <5>2 DEF Closed
        <5> QED
          BY <5>1, <5>2
      <4> QED
        BY <4>1, <4>2
    <3> QED
      BY <3>1, <3>2 DEF Closed
  <2>2. Linked \subseteq S \cup {n}
    BY <1>a, <2>1 DEF IInv, Covered
  <2> QED
    BY <1>1, <2>2
<1>10. UinUnique'
  BY <1>1, LinkedFinite DEF IInv, TypeOK, UinUnique
<1>11. length' = Cardinality(Linked') /\ length' \in Nat
  <2>1. Cardinality(Linked \ {n}) = Cardinality(Linked) - 1
    BY LinkedFinite, FS_RemoveElement
  <2>2. Cardinality(Linked \ {n}) \in Nat
    BY LinkedFinite, FS_RemoveElement, FS_CardinalityType
  <2> QED
    BY <1>1, <1>2, <2>1, <2>2 DEF IInv
<1> QED
  BY <1>1, <1>5, <1>6, <1>7, <1>8, <1>9, <1>10, <1>11

------------------------------------------------------------------------------
LEMMA InitIInv == Init => IInv
<1> SUFFICES ASSUME Init PROVE IInv
  OBVIOUS
<1> USE NodeAssumption
<1>1. TypeOK
  BY DEF Init, TypeOK, Pointer
<1>2. Linked = {}
  BY DEF Init, Linked
<1>3. length = Cardinality(Linked)
  BY <1>2, FS_EmptySet DEF Init
<1> QED
  BY <1>1, <1>2, <1>3 DEF Init, IInv, Refs, ChainAcyclic, PreNullOrRight, Covered, UinUnique

(* Steps that touch neither a pointer nor a number keep the shape.          *)
LEMMA SameShape ==
  ASSUME IInv, TypeOK', UNCHANGED <<start, length, suc, pre, uin>> PROVE IInv'
<1>1. Linked' = Linked /\ \A S : Closed(S)' <=> Closed(S)
  BY DEF Linked, Closed
<1>2. Covered'
  BY <1>1 DEF IInv, Covered
<1> QED
  BY <1>1, <1>2 DEF IInv, Refs, ChainAcyclic, PreNullOrRight, UinUnique

LEMMA NextIInv == IInv /\ [Next]_vars => IInv'
<1> SUFFICES ASSUME IInv, [Next]_vars PROVE IInv'
  OBVIOUS
<1> USE NodeAssumption, NickAssumption
<1>0. Reach = Linked
  BY ReachIsLinked DEF IInv
<1>n. updateNicks' = updateNicks
  BY DEF Next, vars
<1>1. ASSUME NEW u \in Uin, NEW k \in Nick, AddNew(u, k) PROVE IInv'
  <2> DEFINE k1 == IF HasNick(k) THEN UinNick[u] ELSE k
  <2>1. PICK n \in Node \ Linked : /\ insertSlaveNode(n, k1)
                                  /\ uin' = [uin EXCEPT ![n] = u]
                                  /\ nick' = [nick EXCEPT ![n] = k1]
    BY <1>1 DEF AddNew
  <2>2. u \in Nat /\ u # 0 /\ \A m \in Linked : uin[m] # u
    BY <1>0, <1>1, UinAssumption DEF AddNew, HasUin, MinUin
  <2>3. k1 \in Nick
    BY DEF Nick
  <2>4. \/ unshiftListNode(n)
        \/ \E p \in Linked : insertListNodeAfter(n, p)
    BY <2>1, <2>3, WalkLinked DEF insertSlaveNode
  <2>5. nick' \in [Node -> Nick \cup {""}] /\ proc' = proc
    BY <1>1, <2>1, <2>3 DEF AddNew, IInv, TypeOK
  <2>6. CASE unshiftListNode(n)
    BY <1>n, <2>1, <2>2, <2>5, <2>6, UnshiftKeeps DEF IInv, TypeOK
  <2>7. CASE \E p \in Linked : insertListNodeAfter(n, p)
    BY <1>n, <2>1, <2>2, <2>5, <2>7, InsertAfterKeeps DEF IInv, TypeOK
  <2> QED
    BY <2>4, <2>6, <2>7
<1>2. ASSUME NEW u \in Uin, NEW k \in Nick, AddDownloaded(u, k) PROVE IInv'
  <2>1. nick' \in [Node -> Nick \cup {""}]
    BY <1>2 DEF AddDownloaded, IInv, TypeOK
  <2> QED
    BY <1>n, <1>2, <2>1, SameShape DEF AddDownloaded, IInv, TypeOK
<1>3. ASSUME NEW n \in Node, DeleteSlave(n) PROVE IInv'
  <2>1. CASE n # start /\ pre[n] = NULL
    BY <1>n, <1>3, <2>1, SameShape DEF DeleteSlave, IInv, TypeOK
  <2>2. CASE ~(n # start /\ pre[n] = NULL)
    <3>1. nick' \in [Node -> Nick \cup {""}] /\ proc' = proc
      BY <1>3, <2>2 DEF DeleteSlave, IInv, TypeOK
    <3> QED
      BY <1>n, <1>0, <1>3, <2>2, <3>1, DeleteKeeps DEF DeleteSlave, IInv, TypeOK
  <2> QED
    BY <2>1, <2>2
<1>4. ASSUME NEW old \in Nick, NEW new \in Nick, Rename(old, new) PROVE IInv'
  BY <1>n, <1>4, SameShape DEF Rename, IInv, TypeOK
<1>5. CASE freeSlaveList
  <2>1. Linked' = {}
    BY <1>5 DEF freeSlaveList, Linked
  <2>2. length' = 0
    <3>1. Cardinality(Linked) \in Nat
      BY LinkedFinite, FS_CardinalityType
    <3>2. length' = Cardinality(Linked) - Cardinality(Linked)
      BY <1>0, <1>5 DEF freeSlaveList, IInv
    <3> QED
      BY <3>1, <3>2
  <2>3. TypeOK'
    <3>1. length' \in Nat
      BY <2>2
    <3>2. uin' \in [Node -> Nat] /\ nick' \in [Node -> Nick \cup {""}] /\ proc' = "exited"
      BY <1>5 DEF freeSlaveList
    <3>3. start' \in Pointer /\ suc' \in [Node -> Pointer] /\ pre' \in [Node -> Pointer]
      BY <1>5 DEF freeSlaveList, Pointer
    <3> QED
      BY <1>n, <3>1, <3>2, <3>3 DEF IInv, TypeOK
  <2>4. length' = Cardinality(Linked')
    BY <2>1, <2>2, FS_EmptySet
  <2> QED
    BY <1>5, <2>1, <2>3, <2>4 DEF freeSlaveList, IInv, Refs, ChainAcyclic,
                                 PreNullOrRight, Covered, UinUnique
<1>6. CASE UNCHANGED vars
  BY <1>n, <1>6, SameShape DEF vars, IInv, TypeOK
<1> QED
  BY <1>1, <1>2, <1>3, <1>4, <1>5, <1>6 DEF Next

(* The shape of the list holds in every reachable state: every slave is on  *)
(* the chain exactly once, length counts them, no number is listed twice,   *)
(* and pre is null or right (ylist.c, slaves.c).                            *)
THEOREM ListShape ==
  Spec => [](TypeOK /\ ChainComplete /\ ChainAcyclic /\ PreNullOrRight
             /\ LengthCounts /\ UinUnique)
<1>1. IInv => TypeOK /\ ChainComplete /\ ChainAcyclic /\ PreNullOrRight
              /\ LengthCounts /\ UinUnique
  BY ReachIsLinked DEF IInv, ChainComplete, LengthCounts
<1> QED
  BY InitIInv, NextIInv, <1>1, PTL DEF Spec

------------------------------------------------------------------------------
(* The refinement of Roster.                                                *)

ContactsOfLinked == /\ DOMAIN Contacts = {uin[n] : n \in Linked}
                    /\ \A n \in Linked : Contacts[uin[n]] = nick[n]

LEMMA ContactsFact == IInv => ContactsOfLinked
<1> SUFFICES ASSUME IInv PROVE ContactsOfLinked
  OBVIOUS
<1>1. Reach = Linked
  BY ReachIsLinked DEF IInv
<1>2. ASSUME NEW n \in Linked PROVE Contacts[uin[n]] = nick[n]
  <2>1. (CHOOSE m \in Linked : uin[m] = uin[n]) = n
    BY DEF IInv, UinUnique
  <2> QED
    BY <1>1, <2>1 DEF Contacts
<1> QED
  BY <1>1, <1>2 DEF Contacts, ContactsOfLinked

LEMMA ContactsFactNext == IInv' => ContactsOfLinked'
  BY ContactsFact, PTL

(* A contact whose block is linked before and after, with the same number   *)
(* and nickname, is untouched.                                              *)
LEMMA OthersKept ==
  ASSUME IInv, IInv', NEW u,
         \A m \in Linked : uin[m] # u => m \in Linked' /\ uin'[m] = uin[m] /\ nick'[m] = nick[m]
  PROVE  R!Others(u)
<1> SUFFICES ASSUME NEW v \in DOMAIN Contacts \ {u}
             PROVE  v \in DOMAIN Contacts' /\ Contacts'[v] = Contacts[v]
  BY DEF R!Others
<1>1. PICK m \in Linked : uin[m] = v
  BY ContactsFact DEF ContactsOfLinked
<1>2. m \in Linked' /\ uin'[m] = v /\ nick'[m] = nick[m]
  BY <1>1
<1>3. /\ DOMAIN Contacts' = {uin'[n] : n \in Linked'}
      /\ \A n \in Linked' : Contacts'[uin'[n]] = nick'[n]
  BY ContactsFactNext DEF ContactsOfLinked
<1> QED
  BY <1>1, <1>2, <1>3, ContactsFact DEF ContactsOfLinked

LEMMA AddStep ==
  ASSUME IInv, IInv', NEW u \in Uin, NEW k \in Nick, AddNew(u, k)
  PROVE  R!Add(u)
<1> DEFINE k1 == IF HasNick(k) THEN UinNick[u] ELSE k
<1>0. Reach = Linked
  BY ReachIsLinked DEF IInv
<1>1. PICK n \in Node \ Linked : uin' = [uin EXCEPT ![n] = u] /\ nick' = [nick EXCEPT ![n] = k1]
  BY DEF AddNew
<1>2. u # 0 /\ u \in Nat /\ \A m \in Linked : uin[m] # u
  BY <1>0, UinAssumption DEF AddNew, HasUin, MinUin
<1>3. Linked' = Linked \cup {n} /\ uin'[n] = u /\ nick'[n] = k1
  BY <1>1, <1>2 DEF Linked, IInv, TypeOK
<1>4. \A m \in Linked : m \in Linked' /\ uin'[m] = uin[m] /\ nick'[m] = nick[m]
  BY <1>1, <1>3, LinkedFinite DEF IInv, TypeOK
<1>5. R!Others(u)
  BY <1>4, OthersKept
<1>6. k1 \in Nick
  BY DEF Nick
<1>7. /\ DOMAIN Contacts' = {uin'[m] : m \in Linked'}
      /\ \A m \in Linked' : Contacts'[uin'[m]] = nick'[m]
  BY ContactsFactNext DEF ContactsOfLinked
<1>8. DOMAIN Contacts' = DOMAIN Contacts \cup {u} /\ u \notin DOMAIN Contacts
  BY <1>2, <1>3, <1>4, <1>7, ContactsFact DEF ContactsOfLinked
<1>9. Contacts'[u] \in Nick
  BY <1>3, <1>6, <1>7
<1> QED
  BY <1>5, <1>8, <1>9 DEF R!Add, AddNew

LEMMA RenameStep ==
  ASSUME IInv, IInv', NEW u \in Uin, NEW k \in Nick, AddDownloaded(u, k)
  PROVE  u \in DOMAIN Contacts /\ R!Rename(u)
<1>0. Reach = Linked
  BY ReachIsLinked DEF IInv
<1>1. PICK n \in Linked : uin[n] = u /\ nick' = [nick EXCEPT ![n] = k]
  BY <1>0 DEF AddDownloaded
<1>2. Linked' = Linked /\ uin' = uin
  BY DEF AddDownloaded, Linked
<1>3. \A m \in Linked : uin[m] # u => m \in Linked' /\ uin'[m] = uin[m] /\ nick'[m] = nick[m]
  BY <1>1, <1>2, LinkedFinite DEF IInv, TypeOK
<1>4. R!Others(u)
  BY <1>3, OthersKept
<1>5. /\ DOMAIN Contacts' = {uin'[m] : m \in Linked'}
      /\ \A m \in Linked' : Contacts'[uin'[m]] = nick'[m]
  BY ContactsFactNext DEF ContactsOfLinked
<1>6. DOMAIN Contacts' = DOMAIN Contacts /\ u \in DOMAIN Contacts
  BY <1>1, <1>2, <1>5, ContactsFact DEF ContactsOfLinked
<1>7. Contacts'[u] \in Nick
  BY <1>1, <1>2, <1>5, LinkedFinite DEF IInv, TypeOK
<1> QED
  BY <1>4, <1>6, <1>7 DEF R!Rename, AddDownloaded

LEMMA RemoveStep ==
  ASSUME IInv, IInv', NEW n \in Node, DeleteSlave(n)
  PROVE  \/ \E u \in DOMAIN Contacts : R!Remove(u)
         \/ R!Die
<1>0. Reach = Linked /\ n \in Linked
  BY ReachIsLinked DEF IInv, DeleteSlave
<1>1. CASE n # start /\ pre[n] = NULL
  <2>1. Contacts' = Contacts
    BY <1>1 DEF DeleteSlave, Contacts, Reach, Walk
  <2> QED
    BY <1>1, <2>1 DEF DeleteSlave, R!Die
<1>2. CASE ~(n # start /\ pre[n] = NULL)
  <2>1. uin' = [uin EXCEPT ![n] = 0] /\ nick' = [nick EXCEPT ![n] = ""] /\ proc' = proc
    BY <1>2 DEF DeleteSlave
  <2>2. Linked' = Linked \ {n} /\ \A m \in Linked' : uin'[m] = uin[m] /\ nick'[m] = nick[m]
    BY <2>1 DEF Linked, IInv, TypeOK
  <2>3. \A m \in Linked : uin[m] # uin[n] => m \in Linked' /\ uin'[m] = uin[m] /\ nick'[m] = nick[m]
    BY <2>2
  <2>4. R!Others(uin[n])
    BY <2>3, OthersKept
  <2>5. DOMAIN Contacts' = {uin'[m] : m \in Linked'}
    BY ContactsFactNext DEF ContactsOfLinked
  <2>6. DOMAIN Contacts' = DOMAIN Contacts \ {uin[n]} /\ uin[n] \in DOMAIN Contacts
    BY <1>0, <2>2, <2>5, ContactsFact DEF ContactsOfLinked, IInv, UinUnique
  <2> QED
    BY <2>1, <2>4, <2>6 DEF R!Remove
<1> QED
  BY <1>1, <1>2

(* Pointer by pointer, the list implements the map of Roster: every step    *)
(* adds, renames or removes one contact and leaves the others alone, or     *)
(* empties the map as the process exits, or kills the process.              *)
THEOREM ImplementsRoster == Spec => IsRoster
<1>1. Init => R!Init
  BY InitIInv, ContactsFact DEF ContactsOfLinked, Init, Linked, R!Init
<1>2. IInv /\ IInv' /\ [Next]_vars => [R!Next]_(R!rvars)
  <2> SUFFICES ASSUME IInv, IInv', [Next]_vars PROVE [R!Next]_(R!rvars)
    OBVIOUS
  <2>1. ASSUME NEW u \in Uin, NEW k \in Nick, AddNew(u, k), proc = "running" PROVE R!Next
    BY <2>1, AddStep DEF R!Next
  <2>2. ASSUME NEW u \in Uin, NEW k \in Nick, AddDownloaded(u, k), proc = "running" PROVE R!Next
    BY <2>2, RenameStep DEF R!Next
  <2>3. ASSUME NEW n \in Node, DeleteSlave(n), proc = "running" PROVE R!Next
    BY <2>3, RemoveStep DEF R!Next
  <2>4. ASSUME NEW old \in Nick, NEW new \in Nick, Rename(old, new), proc = "running" PROVE R!Next
    <3>1. Contacts' = Contacts
      BY <2>4 DEF Rename, Contacts, Reach, Walk
    <3> QED
      BY <2>4, <3>1 DEF Rename, R!Next, R!Die
  <2>5. ASSUME freeSlaveList, proc = "running" PROVE R!Next
    <3>1. Linked' = {}
      BY <2>5 DEF freeSlaveList, Linked
    <3>2. DOMAIN Contacts' = {}
      BY <3>1, ContactsFactNext DEF ContactsOfLinked
    <3> QED
      BY <2>5, <3>2 DEF freeSlaveList, R!Next, R!Exit
  <2>6. CASE UNCHANGED vars
    BY <2>6 DEF vars, R!rvars, Contacts, Reach, Walk
  <2> QED
    BY <2>1, <2>2, <2>3, <2>4, <2>5, <2>6 DEF Next
<1> QED
  BY InitIInv, NextIInv, <1>1, <1>2, PTL DEF Spec, IsRoster, R!Spec

-----------------------------------------------------------------------------
\* The pool.

Steps == {"idle", "scan", "store", "head", "append", "body", "write", "handle", "free", "empty"}
Waiting == {"idle", "scan", "store"}

Ranges ==
    /\ pool \in [Slots -> Streams \cup {NoStream}]
    /\ heap \in [Streams -> Seq(Users) \cup {Freed}]
    /\ pc \in [Users -> Steps] /\ bsd \in [Users -> Slots \cup {NoSlot}]
    /\ scan \in [Users -> 0 .. MAX_BSD_NUM]
    /\ fresh \in [Users -> Streams \cup {NoStream}]
    /\ r \in [Users -> Nat] /\ torn \in BOOLEAN /\ shorts \in Nat
    /\ leaks \in Nat /\ raced \in BOOLEAN /\ astray \in BOOLEAN

Phase(u) ==
    /\ pc[u] = "store" => scan[u] \in Slots
    /\ pc[u] # "store" => fresh[u] = NoStream
    /\ pc[u] = "empty" => Holds(u)

TypeInv == Ranges /\ \A u \in Users : Phase(u)

\* What a stream holds while its user is at a step.
Contents(u) ==
    CASE pc[u] \in {"head", "append"}          -> <<>>
      [] pc[u] = "body"                        -> <<u>>
      [] pc[u] \in {"write", "handle", "free"} -> <<u, u>>
      [] pc[u] = "empty"                       -> Freed

\* What a user may rely on: of the stream it holds, of the slot it is about to
\* store into, and of its count of what was written.
Held(u) ==
    Holds(u) => /\ pc[u] \notin Waiting /\ scan[u] = 0
                /\ pool[bsd[u]] # NoStream /\ heap[pool[bsd[u]]] = Contents(u)
Storing(u) ==
    pc[u] = "store" => /\ pool[scan[u]] = NoStream
                       /\ fresh[u] # NoStream /\ heap[fresh[u]] = <<>>
Unwritten(u) == pc[u] = "write" /\ shorts = 0 => r[u] = 0
At(u) == Held(u) /\ Storing(u) /\ Unwritten(u)

\* No two users hold a slot, are about to store into one, or have allocated
\* the same stream; and no slot holds the stream of another.
Apart ==
    /\ \A u, v \in Users : u # v /\ Holds(u) => bsd[u] # bsd[v]
    /\ \A u, v \in Users : u # v /\ pc[u] = "store" /\ pc[v] = "store" =>
           scan[u] # scan[v] /\ fresh[u] # fresh[v]
    /\ \A s, t \in Slots : s # t /\ pool[s] # NoStream => pool[s] # pool[t]
    /\ \A s \in Slots, u \in Users : pc[u] = "store" => pool[s] # fresh[u]

WholeYet == torn => shorts > 0

InUse == {s \in Slots : pool[s] # NoStream}
Holders == {u \in Users : Holds(u)}
Owned == {bsd[u] : u \in Holders}
Left == InUse \ Owned

Place(u) == IF Holds(u) THEN bsd[u] ELSE scan[u]
High(i) == {u \in Users : Place(u) >= i}
LeftHigh(i) == {s \in Left : s >= i}

Counted == Cardinality(Left) = leaks
Crowd ==
    \A i \in 0 .. MAX_BSD_NUM : High(i) # {} =>
        Cardinality(High(i)) + Cardinality(LeftHigh(i)) <= Cardinality(Users) + leaks - i
Astray == astray => leaks > MAX_BSD_NUM - Cardinality(Users)

Owns == (\A u \in Users : At(u)) /\ Apart /\ WholeYet
Counts == Counted /\ Crowd /\ Astray

PoolInv == TypeInv /\ (raced \/ (Owns /\ Counts))

-----------------------------------------------------------------------------
LEMMA Finite ==
    /\ IsFiniteSet(Users) /\ Cardinality(Users) \in Nat
    /\ IsFiniteSet(Slots) /\ Cardinality(Slots) = MAX_BSD_NUM
<1>1. IsFiniteSet(1 .. Depth)
  BY PoolAssumption, FS_Interval
<1>3. IsFiniteSet(Users)
  BY <1>1, PoolAssumption, FS_Product, Zenon DEF Users
<1>4. Cardinality(Users) \in Nat
  BY <1>3, FS_CardinalityType
<1>5. IsFiniteSet(Slots) /\ Cardinality(Slots) = MAX_BSD_NUM
  BY PoolAssumption, FS_Interval DEF Slots
<1> QED
  BY <1>3, <1>4, <1>5

\* A function takes no more values than it has arguments.
LEMMA Values ==
    ASSUME NEW S, IsFiniteSet(S), NEW W, NEW f \in [S -> W]
    PROVE  /\ IsFiniteSet({f[x] : x \in S})
           /\ Cardinality({f[x] : x \in S}) <= Cardinality(S)
<1> DEFINE T == {f[x] : x \in S}
<1>1. f \in Surjection(S, T)
  BY DEF Surjection
<1>2. IsFiniteSet(T) /\ Cardinality(T) <= Cardinality(S)
  BY <1>1, FS_Surjection
<1> QED
  BY <1>2

\* malloc finds memory: fewer streams are in use than there are.
LEMMA SomeUnused ==
    ASSUME TypeInv, NEW u \in Users, fresh[u] = NoStream
    PROVE  Unused # {}
<1> DEFINE A == {pool[t] : t \in Slots}
           B == {fresh[v] : v \in Users}
           C == (A \cup B) \ {NoStream}
<1>1. IsFiniteSet(A) /\ Cardinality(A) <= MAX_BSD_NUM
  <2>1. pool \in [Slots -> Streams \cup {NoStream}]
    BY DEF TypeInv, Ranges, Phase
  <2>2. IsFiniteSet(Slots)
    BY Finite
  <2>3. IsFiniteSet(A) /\ Cardinality(A) <= Cardinality(Slots)
    BY <2>1, <2>2, Values, Zenon
  <2> QED
    BY <2>3, Finite
<1>2. IsFiniteSet(B) /\ Cardinality(B) <= Cardinality(Users)
  <2>1. fresh \in [Users -> Streams \cup {NoStream}]
    BY DEF TypeInv, Ranges, Phase
  <2> QED
    BY <2>1, Finite, Values
<1>3. /\ IsFiniteSet(A \cup B)
      /\ Cardinality(A \cup B) = Cardinality(A) + Cardinality(B) - Cardinality(A \cap B)
  BY <1>1, <1>2, FS_Union
<1>4. Cardinality(A \cap B) \in Nat /\ Cardinality(A) \in Nat /\ Cardinality(B) \in Nat
  <2>1. IsFiniteSet(A \cap B)
    BY <1>1, FS_Subset
  <2> QED
    BY <1>1, <1>2, <2>1, FS_CardinalityType
<1>5. NoStream \in A \cup B
  BY Zenon
<1>6. IsFiniteSet(C) /\ Cardinality(C) < MAX_BSD_NUM + Cardinality(Users)
  <2>1. IsFiniteSet(C) /\ Cardinality(C) = Cardinality(A \cup B) - 1
    BY <1>3, <1>5, FS_RemoveElement
  <2> QED
    <3> HIDE DEF A, B, C
    <3>1. Cardinality(A \cup B) <= MAX_BSD_NUM + Cardinality(Users)
      BY <1>1, <1>2, <1>3, <1>4, Finite, PoolAssumption
    <3> QED
      BY <2>1, <3>1, <1>3, <1>4, Finite, PoolAssumption
<1>7. IsFiniteSet(Streams) /\ Cardinality(Streams) = MAX_BSD_NUM + Cardinality(Users)
  <2>1. MAX_BSD_NUM + Cardinality(Users) \in Nat
    BY Finite, PoolAssumption
  <2> QED
    BY <2>1, FS_Interval DEF Streams
<1>8. ~(Streams \subseteq C)
  <2> SUFFICES ASSUME Streams \subseteq C PROVE FALSE
    OBVIOUS
  <2>1. Cardinality(Streams) <= Cardinality(C)
    BY <1>6, FS_Subset
  <2> QED
    BY <1>6, <1>7, <2>1, FS_CardinalityType, Finite, PoolAssumption
<1>9. PICK b \in Streams : b \notin C
  BY <1>8
<1>10. b # NoStream
  BY DEF Streams, NoStream
<1>11. b \in Unused
  BY <1>9, <1>10 DEF Unused
<1> QED
  BY <1>11

New == CHOOSE b \in Unused : TRUE

LEMMA NewUnused ==
    ASSUME TypeInv, NEW u \in Users, pc[u] = "scan"
    PROVE  New \in Unused /\ New \in Streams /\ New # NoStream
<1>1. Unused # {}
  <2>1. fresh[u] = NoStream
    <3>1. Phase(u)
      BY DEF TypeInv
    <3> QED
      BY <3>1 DEF Phase
  <2> QED
    BY <2>1, SomeUnused
<1>2. New \in Unused
  BY <1>1 DEF New
<1> QED
  BY <1>2, Finite, PoolAssumption DEF Unused, Streams, NoStream

\* The descriptor of a user leads to a stream or to nothing.
LEMMA ContentType ==
    ASSUME TypeInv, NEW u \in Users
    PROVE  Content(bsd[u]) \in Streams \cup {NoStream}
BY DEF TypeInv, Ranges, Content, NoSlot, NoStream

LEMMA InIsUser == In \in Users
<1>1. 1 \in 1 .. Depth
  BY PoolAssumption
<1> QED
  BY <1>1, PoolAssumption DEF Users, In

LEMMA PutType ==
    ASSUME TypeInv, NEW u \in Users, Put(u)
    PROVE  heap' \in [Streams -> Seq(Users) \cup {Freed}] /\ astray' \in BOOLEAN
<1> DEFINE b == Content(bsd[u])
<1>1. b \in Streams \cup {NoStream}
  BY ContentType
<1>2. CASE b = NoStream \/ heap[b] = Freed
  BY <1>2 DEF Put, TypeInv, Ranges
<1>3. CASE b # NoStream /\ heap[b] # Freed
  <2>1. heap[b] \in Seq(Users)
    BY <1>1, <1>3 DEF TypeInv, Ranges
  <2>2. Append(heap[b], u) \in Seq(Users)
    BY <2>1
  <2>3. heap' = [heap EXCEPT ![b] = Append(heap[b], u)]
    BY <1>3 DEF Put
  <2> QED
    BY <1>1, <1>3, <2>2, <2>3 DEF TypeInv, Ranges, Put
<1> QED
  BY <1>2, <1>3

LEMMA TypeInit == PoolInit => TypeInv
<1> SUFFICES ASSUME PoolInit PROVE TypeInv
  OBVIOUS
<1>1. 0 \in 0 .. MAX_BSD_NUM
  BY PoolAssumption
<1> QED
  BY <1>1 DEF PoolInit, TypeInv, Ranges, Phase, Steps, NoStream, NoSlot, Freed, Holds

LEMMA TypeStep == TypeInv /\ [PoolNext]_poolVars => TypeInv'
<1> SUFFICES ASSUME TypeInv, [PoolNext]_poolVars PROVE TypeInv'
  OBVIOUS
<1> USE DEF TypeInv, Ranges, Phase, Steps, Holds
<1>1. ASSUME NEW u \in Users, Start(u) PROVE TypeInv'
  BY <1>1, PoolAssumption DEF Start, MayStart
<1>2. ASSUME NEW u \in Users, Looks(u) PROVE TypeInv'
  <2>1. scan[u] + 1 \in 0 .. MAX_BSD_NUM
    BY <1>2, PoolAssumption DEF Looks, Slots
  <2> QED
    BY <1>2, <2>1 DEF Looks
<1>3. ASSUME NEW u \in Users, Allocates(u) PROVE TypeInv'
  <2>1. New \in Streams
    BY <1>3, NewUnused DEF Allocates
  <2>2. <<>> \in Seq(Users)
    OBVIOUS
  <2>3. heap' = [heap EXCEPT ![New] = <<>>] /\ fresh' = [fresh EXCEPT ![u] = New]
    BY <1>3 DEF Allocates, New
  <2>4. heap' \in [Streams -> Seq(Users) \cup {Freed}] /\ fresh' \in [Users -> Streams \cup {NoStream}]
    BY <2>1, <2>2, <2>3
  <2>5. pc' = [pc EXCEPT ![u] = "store"] /\ raced' \in BOOLEAN
    BY <1>3 DEF Allocates
  <2>6. \A v \in Users : /\ pc'[v] = "store" => scan[v] \in Slots
                         /\ pc'[v] # "store" => fresh'[v] = NoStream
                         /\ pc'[v] = "empty" => bsd[v] # NoSlot
    BY <1>3, <2>3, <2>5 DEF Allocates
  <2> QED
    BY <1>3, <2>4, <2>5, <2>6 DEF Allocates
<1>4. ASSUME NEW u \in Users, Stores(u) PROVE TypeInv'
  <2>1. scan[u] \in Slots /\ 0 \in 0 .. MAX_BSD_NUM
    <3>1. Phase(u) /\ pc[u] = "store"
      BY <1>4 DEF Stores
    <3> QED
      BY <3>1, PoolAssumption
  <2>2. First(u) \in {"head", "append"}
    BY DEF First
  <2>3. /\ pool' \in [Slots -> Streams \cup {NoStream}] /\ bsd' \in [Users -> Slots \cup {NoSlot}]
        /\ scan' \in [Users -> 0 .. MAX_BSD_NUM] /\ fresh' \in [Users -> Streams \cup {NoStream}]
        /\ pc' \in [Users -> Steps]
    BY <1>4, <2>1, <2>2 DEF Stores
  <2>4. \A v \in Users : Phase(v)'
    BY <1>4, <2>2 DEF Stores
  <2>5. Ranges'
    BY <1>4, <2>3 DEF Stores
  <2> QED
    BY <2>4, <2>5, Zenon
<1>5. ASSUME NEW u \in Users, Exhausted(u) PROVE TypeInv'
  BY <1>5 DEF Exhausted, First
<1>6. ASSUME NEW u \in Users, Appends(u) PROVE TypeInv'
  <2>1. heap' \in [Streams -> Seq(Users) \cup {Freed}] /\ astray' \in BOOLEAN
    BY <1>6, PutType DEF Appends
  <2> QED
    BY <1>6, <2>1 DEF Appends
<1>7. ASSUME NEW u \in Users, Writes(u) PROVE TypeInv'
  <2>1. Content(bsd[u]) \in Streams
    BY <1>7, ContentType DEF Writes
  <2> DEFINE data == heap[Content(bsd[u])]
  <2>2. Len(data) \in Nat
    BY <1>7, <2>1 DEF Writes
  <2>3. PICK y \in 1 .. Len(data) :
           /\ shorts' = shorts + (IF y < Len(data) THEN 1 ELSE 0)
           /\ torn' = (torn \/ data # <<u, u>> \/ y < Len(data) \/ r[u] # 0)
           /\ r' = [r EXCEPT ![u] = IF @ + y > Len(data) THEN (IF @ = Len(data) + 1 THEN @ + 1 ELSE Len(data) + 1)
                                   ELSE @ + y]
           /\ pc' = [pc EXCEPT ![u] = Loops(u, Len(data))]
    BY <1>7 DEF Writes
  <2>4. Loops(u, Len(data)) \in {"free", "write"}
    BY DEF Loops
  <2> HIDE DEF data
  <2>5. shorts' \in Nat /\ torn' \in BOOLEAN /\ r' \in [Users -> Nat]
    BY <2>2, <2>3
  <2>6. pc' \in [Users -> Steps] /\ \A v \in Users : pc'[v] # pc[v] => pc[v] = "write" /\ pc'[v] = "free"
    BY <1>7, <2>3, <2>4 DEF Writes
  <2> QED
    BY <1>7, <2>5, <2>6 DEF Writes
<1>8. ASSUME NEW u \in Users, WriteEndsHere(u) PROVE TypeInv'
  BY <1>8 DEF WriteEndsHere
<1>9. ASSUME NEW u \in Users, Frees(u) PROVE TypeInv'
  <2>1. CASE Content(bsd[u]) = NoStream
    BY <1>9, <2>1 DEF Frees
  <2>2. CASE Content(bsd[u]) # NoStream
    <3>1. bsd[u] # NoSlot
      BY <2>2 DEF Content
    <3> QED
      BY <1>9, <2>2, <3>1, ContentType DEF Frees
  <2> QED
    BY <2>1, <2>2
<1>10. ASSUME NEW u \in Users, Empties(u) PROVE TypeInv'
  BY <1>10 DEF Empties, NoStream, NoSlot
<1>11. ASSUME Reads PROVE TypeInv'
  <2>1. In \in Users
    BY InIsUser
  <2>2. heap' \in [Streams -> Seq(Users) \cup {Freed}] /\ astray' \in BOOLEAN
    BY <1>11, <2>1, PutType DEF Reads
  <2> QED
    BY <1>11, <2>1, <2>2 DEF Reads
<1>12. ASSUME HeadFails PROVE TypeInv'
  BY <1>12, InIsUser DEF HeadFails
<1>13. ASSUME NEW u \in Users, Handled(u) PROVE TypeInv'
  BY <1>13 DEF Handled
<1>14. CASE UNCHANGED poolVars
  BY <1>14 DEF poolVars
<1> QED
  BY <1>1, <1>2, <1>3, <1>4, <1>5, <1>6, <1>7, <1>8, <1>9, <1>10, <1>11, <1>12, <1>13, <1>14
  DEF PoolNext, Step

-----------------------------------------------------------------------------
\* One owner each: Owns is kept by every step after which raced is still false.

LEMMA SlotOf ==
    ASSUME TypeInv, NEW u \in Users
    PROVE  /\ Holds(u) => bsd[u] \in Slots /\ pool[bsd[u]] \in Streams \cup {NoStream}
           /\ pc[u] = "store" => scan[u] \in Slots
           /\ fresh[u] \in Streams \cup {NoStream}
BY DEF TypeInv, Ranges, Phase, Holds

LEMMA AllocatesOwns ==
    ASSUME TypeInv, Owns, NEW u \in Users, Allocates(u), ~raced'
    PROVE  Owns'
<1>1. New \in Unused /\ New \in Streams /\ New # NoStream
  BY NewUnused DEF Allocates
<1>2. /\ pc[u] = "scan" /\ scan[u] \in Slots /\ pool[scan[u]] = NoStream
      /\ heap' = [heap EXCEPT ![New] = <<>>] /\ fresh' = [fresh EXCEPT ![u] = New]
      /\ pc' = [pc EXCEPT ![u] = "store"]
      /\ UNCHANGED <<pool, bsd, scan, r, torn, shorts>>
  BY DEF Allocates, New
<1>3. \A v \in Users : pc[v] = "store" => scan[v] # scan[u]
  BY DEF Allocates, Meets
<1>4. \A t \in Slots : pool[t] # New
  BY <1>1 DEF Unused
<1>5. \A v \in Users : fresh[v] # New
  BY <1>1 DEF Unused
<1>6. heap'[New] = <<>> /\ \A b \in Streams \ {New} : heap'[b] = heap[b]
  BY <1>1, <1>2 DEF TypeInv, Ranges
<1>7. fresh'[u] = New /\ pc'[u] = "store"
      /\ \A v \in Users \ {u} : fresh'[v] = fresh[v] /\ pc'[v] = pc[v]
  BY <1>2 DEF TypeInv, Ranges
<1>8. ASSUME NEW v \in Users PROVE Held(v)'
  <2>1. CASE v = u
    BY <1>2, <2>1 DEF Owns, At, Held, Holds, Waiting
  <2>2. CASE v # u
    <3>1. SUFFICES ASSUME Holds(v) PROVE Held(v)'
      BY <1>2 DEF Held, Holds
    <3>2. pool[bsd[v]] \in Streams \ {New}
      BY <1>4, <3>1, SlotOf DEF Owns, At, Held
    <3>3. Contents(v)' = Contents(v)
      BY <1>7, <2>2 DEF Contents
    <3> QED
      BY <1>2, <1>6, <1>7, <2>2, <3>1, <3>2, <3>3 DEF Owns, At, Held
  <2> QED
    BY <2>1, <2>2
<1>9. ASSUME NEW v \in Users PROVE Storing(v)'
  <2>1. CASE v = u
    BY <1>1, <1>2, <1>6, <1>7, <2>1 DEF Storing
  <2>2. CASE v # u
    BY <1>2, <1>5, <1>6, <1>7, <2>2, SlotOf DEF Owns, At, Storing
  <2> QED
    BY <2>1, <2>2
<1>10. ASSUME NEW v \in Users PROVE Unwritten(v)'
  BY <1>2, <1>7 DEF Owns, At, Unwritten
<1>11. Apart'
  BY <1>2, <1>3, <1>4, <1>5, <1>7 DEF Owns, Apart, Holds
<1>12. WholeYet'
  BY <1>2 DEF Owns, WholeYet
<1> QED
  BY <1>8, <1>9, <1>10, <1>11, <1>12 DEF Owns, At

LEMMA StoresOwns ==
    ASSUME TypeInv, Owns, NEW u \in Users, Stores(u)
    PROVE  Owns'
<1> DEFINE s == scan[u]
<1>1. /\ pc[u] = "store" /\ s \in Slots /\ fresh[u] \in Streams /\ fresh[u] # NoStream
      /\ pool[s] = NoStream /\ heap[fresh[u]] = <<>> /\ ~Holds(u)
  <2>1. Phase(u) /\ Storing(u) /\ Held(u) /\ pc[u] = "store"
    BY DEF Owns, At, Stores, TypeInv
  <2> QED
    BY <2>1, SlotOf DEF Phase, Storing, Held, Waiting
<1>2. /\ pool' = [pool EXCEPT ![s] = fresh[u]] /\ bsd' = [bsd EXCEPT ![u] = s]
      /\ fresh' = [fresh EXCEPT ![u] = NoStream] /\ scan' = [scan EXCEPT ![u] = 0]
      /\ pc' = [pc EXCEPT ![u] = First(u)]
      /\ UNCHANGED <<heap, r, torn, shorts>>
  BY DEF Stores
<1>3. pool'[s] = fresh[u] /\ \A t \in Slots \ {s} : pool'[t] = pool[t]
  BY <1>1, <1>2 DEF TypeInv, Ranges
<1>4. /\ bsd'[u] = s /\ fresh'[u] = NoStream /\ scan'[u] = 0 /\ pc'[u] \in {"head", "append"}
      /\ \A v \in Users \ {u} :
             bsd'[v] = bsd[v] /\ fresh'[v] = fresh[v] /\ scan'[v] = scan[v] /\ pc'[v] = pc[v]
  BY <1>2 DEF TypeInv, Ranges, First
<1>5. \A v \in Users : Holds(v) => bsd[v] # s
  BY <1>1 DEF Owns, At, Held
<1>6. \A v \in Users \ {u} : pc[v] = "store" => scan[v] # s /\ fresh[v] # fresh[u]
  BY <1>1 DEF Owns, Apart
<1>7. \A t \in Slots : pool[t] # fresh[u]
  BY <1>1 DEF Owns, Apart
<1>8. ASSUME NEW v \in Users PROVE Held(v)'
  <2>1. CASE v = u
    <3>1. Contents(u)' = <<>>
      BY <1>4 DEF Contents
    <3> QED
      BY <1>1, <1>2, <1>3, <1>4, <2>1, <3>1 DEF Held, Waiting
  <2>2. CASE v # u
    <3>1. SUFFICES ASSUME Holds(v) PROVE Held(v)'
      BY <1>4, <2>2 DEF Held, Holds
    <3>2. bsd[v] \in Slots \ {s}
      BY <1>5, <3>1, SlotOf
    <3>3. Contents(v)' = Contents(v)
      BY <1>4, <2>2 DEF Contents
    <3> QED
      BY <1>2, <1>3, <1>4, <2>2, <3>1, <3>2, <3>3 DEF Owns, At, Held
  <2> QED
    BY <2>1, <2>2
<1>9. ASSUME NEW v \in Users PROVE Storing(v)'
  <2>1. CASE v = u
    BY <1>4, <2>1 DEF Storing
  <2>2. CASE v # u
    BY <1>2, <1>3, <1>4, <1>6, <2>2, SlotOf DEF Owns, At, Storing
  <2> QED
    BY <2>1, <2>2
<1>10. ASSUME NEW v \in Users PROVE Unwritten(v)'
  BY <1>2, <1>4 DEF Owns, At, Unwritten
<1>11. Apart'
  <2>1. \A v, w \in Users : v # w /\ Holds(v)' => bsd'[v] # bsd'[w]
    BY <1>1, <1>4, <1>5 DEF Owns, Apart, Holds
  <2>2. \A v, w \in Users : v # w /\ pc'[v] = "store" /\ pc'[w] = "store" =>
            scan'[v] # scan'[w] /\ fresh'[v] # fresh'[w]
    BY <1>4 DEF Owns, Apart
  <2>3. \A t, x \in Slots : t # x /\ pool'[t] # NoStream => pool'[t] # pool'[x]
    BY <1>1, <1>3, <1>7 DEF Owns, Apart
  <2>4. \A t \in Slots, v \in Users : pc'[v] = "store" => pool'[t] # fresh'[v]
    BY <1>3, <1>4, <1>6 DEF Owns, Apart
  <2> QED
    BY <2>1, <2>2, <2>3, <2>4 DEF Apart
<1>12. WholeYet'
  BY <1>2 DEF Owns, WholeYet
<1> QED
  BY <1>8, <1>9, <1>10, <1>11, <1>12 DEF Owns, At

\* The steps of initBs that take nothing yet, or never will.
LEMMA ScansOwn ==
    ASSUME TypeInv, Owns, NEW u \in Users, Start(u) \/ Looks(u) \/ Exhausted(u)
    PROVE  Owns'
<1>1. pc[u] \in {"idle", "scan"} /\ ~Holds(u)
  BY DEF Owns, At, Held, Waiting, Start, MayStart, Looks, Exhausted
<1>2. /\ UNCHANGED <<pool, heap, bsd, fresh, r, torn, shorts>>
      /\ pc'[u] \in {"scan", "head", "append"}
      /\ \A v \in Users \ {u} : pc'[v] = pc[v] /\ scan'[v] = scan[v]
  <2>1. CASE Start(u)
    BY <2>1 DEF Start, TypeInv, Ranges
  <2>2. CASE Looks(u)
    BY <2>2 DEF Looks, TypeInv, Ranges
  <2>3. CASE Exhausted(u)
    <3>1. bsd' = bsd
      BY <1>1, <2>3 DEF Exhausted, Holds, TypeInv, Ranges
    <3> QED
      BY <2>3, <3>1 DEF Exhausted, First, TypeInv, Ranges
  <2> QED
    BY <2>1, <2>2, <2>3
<1>3. ASSUME NEW v \in Users PROVE Held(v)'
  <2>1. CASE v = u
    BY <1>1, <1>2, <2>1 DEF Held, Holds
  <2>2. CASE v # u
    <3>1. Contents(v)' = Contents(v)
      BY <1>2, <2>2 DEF Contents
    <3> QED
      BY <1>2, <2>2, <3>1 DEF Owns, At, Held, Holds
  <2> QED
    BY <2>1, <2>2
<1>4. ASSUME NEW v \in Users PROVE Storing(v)' /\ Unwritten(v)'
  BY <1>2 DEF Owns, At, Storing, Unwritten
<1>5. Apart'
  BY <1>2 DEF Owns, Apart, Holds
<1>6. WholeYet'
  BY <1>2 DEF Owns, WholeYet
<1> QED
  BY <1>3, <1>4, <1>5, <1>6 DEF Owns, At

\* Steps that touch no stream but the user's own: w is what it holds after them.
LEMMA OwnStream ==
    ASSUME TypeInv, Owns, NEW u \in Users, NEW w,
           ~Holds(u) \/ heap' = [heap EXCEPT ![pool[bsd[u]]] = w],
           Holds(u) \/ heap' = heap,
           UNCHANGED <<pool, bsd, scan, fresh>>, pc[u] \notin Waiting,
           \A v \in Users \ {u} : pc'[v] = pc[v] /\ r'[v] = r[v],
           pc'[u] \notin {"store"}, Holds(u) => pc'[u] \notin Waiting,
           Holds(u) => Contents(u)' = w,
           Unwritten(u)', WholeYet', shorts' = 0 => shorts = 0
    PROVE  Owns'
<1>1. ASSUME NEW v \in Users \ {u}, Holds(v)
      PROVE  pool[bsd[v]] \in Streams /\ heap'[pool[bsd[v]]] = heap[pool[bsd[v]]]
  <2>1. /\ bsd[v] \in Slots /\ pool[bsd[v]] # NoStream /\ pool[bsd[v]] \in Streams
        /\ Holds(u) => bsd[u] \in Slots /\ bsd[v] # bsd[u]
    BY <1>1, SlotOf DEF Owns, At, Held, Apart
  <2>2. Holds(u) => pool[bsd[u]] # pool[bsd[v]]
    BY <2>1 DEF Owns, Apart
  <2> QED
    BY <2>1, <2>2 DEF TypeInv, Ranges
<1>2. ASSUME NEW v \in Users \ {u}, pc[v] = "store" PROVE heap'[fresh[v]] = heap[fresh[v]]
  <2>1. fresh[v] \in Streams \cup {NoStream} /\ (Holds(u) => pool[bsd[u]] # fresh[v])
    BY <1>2, SlotOf DEF Owns, Apart
  <2>2. fresh[v] # NoStream
    BY <1>2 DEF Owns, At, Storing
  <2> QED
    BY <2>1, <2>2 DEF TypeInv, Ranges
<1>3. ASSUME NEW v \in Users PROVE Held(v)'
  <2>1. SUFFICES ASSUME Holds(v) PROVE Held(v)'
    BY DEF Held, Holds
  <2>2. CASE v = u
    <3>1. pool[bsd[u]] \in Streams /\ pool[bsd[u]] # NoStream /\ scan[u] = 0
      BY <2>1, <2>2, SlotOf DEF Owns, At, Held
    <3>2. heap'[pool[bsd[u]]] = w
      BY <2>1, <2>2, <3>1 DEF TypeInv, Ranges
    <3> QED
      BY <2>1, <2>2, <3>1, <3>2 DEF Held
  <2>3. CASE v # u
    <3>1. Contents(v)' = Contents(v)
      BY <2>3 DEF Contents
    <3> QED
      BY <1>1, <2>1, <2>3, <3>1 DEF Owns, At, Held
  <2> QED
    BY <2>2, <2>3
<1>4. ASSUME NEW v \in Users PROVE Storing(v)'
  BY <1>2 DEF Owns, At, Storing
<1>5. ASSUME NEW v \in Users PROVE Unwritten(v)'
  BY DEF Owns, At, Unwritten
<1>6. Apart'
  BY DEF Owns, Apart, Holds, Waiting
<1> QED
  BY <1>3, <1>4, <1>5, <1>6 DEF Owns, At

\* <<"freed", 0>> is nobody's name: the places on a stack count from 1.
LEMMA NotFreed ==
    ASSUME NEW u \in Users
    PROVE  <<>> # Freed /\ <<u>> # Freed /\ <<u, u>> # Freed
<1>1. u # << "freed", 0 >>
  <2>1. PICK t \in Threads, i \in 1 .. Depth : u = <<t, i>>
    BY DEF Users
  <2>2. i # 0
    BY PoolAssumption
  <2> QED
    BY <2>1, <2>2
<1> QED
  BY <1>1 DEF Freed

\* What Content leads to, for a user that is past initBs.
LEMMA OwnContent ==
    ASSUME TypeInv, Owns, NEW u \in Users
    PROVE  /\ Holds(u) => Content(bsd[u]) = pool[bsd[u]] /\ Content(bsd[u]) # NoStream
           /\ Content(bsd[u]) # NoStream => Holds(u)
BY DEF Owns, At, Held, Content, Holds

LEMMA PutOwn ==
    ASSUME TypeInv, Owns, NEW u \in Users, pc[u] \in {"head", "append", "body"}, Put(u)
    PROVE  /\ ~Holds(u) \/ heap' = [heap EXCEPT ![pool[bsd[u]]] = Append(Contents(u), u)]
           /\ Holds(u) \/ heap' = heap
           /\ astray' = astray
<1>1. CASE Holds(u)
  <2>1. Content(bsd[u]) = pool[bsd[u]] /\ pool[bsd[u]] # NoStream /\ heap[pool[bsd[u]]] = Contents(u)
    BY <1>1, OwnContent DEF Owns, At, Held
  <2>2. Contents(u) # Freed
    BY NotFreed DEF Contents
  <2> QED
    BY <1>1, <2>1, <2>2 DEF Put, TypeInv, Ranges
<1>2. CASE ~Holds(u)
  BY <1>2, OwnContent DEF Put, TypeInv, Ranges
<1> QED
  BY <1>1, <1>2

LEMMA PutsOwn ==
    ASSUME TypeInv, Owns, NEW u \in Users, Appends(u) \/ (u = In /\ Reads)
    PROVE  Owns' /\ astray' = astray
<1> DEFINE w == Append(Contents(u), u)
<1>1. pc[u] \in {"head", "append", "body"} /\ Put(u)
  BY DEF Appends, Reads
<1>2. /\ UNCHANGED <<pool, bsd, scan, fresh, torn, shorts>>
      /\ \E next \in {"write", "handle"} :
             pc' = [pc EXCEPT ![u] = IF @ \in {"head", "append"} THEN "body" ELSE next]
      /\ \A v \in Users \ {u} : r'[v] = r[v]
      /\ pc'[u] = "write" => r'[u] = 0
  <2>1. CASE Appends(u)
    BY <2>1 DEF Appends, TypeInv, Ranges
  <2>2. CASE u = In /\ Reads
    BY <2>2 DEF Reads, TypeInv, Ranges
  <2> QED
    BY <2>1, <2>2
<1>3. /\ \A v \in Users \ {u} : pc'[v] = pc[v]
      /\ pc'[u] \in {"body", "write", "handle"} /\ (pc'[u] = "body" <=> pc[u] # "body")
  BY <1>1, <1>2 DEF TypeInv, Ranges
<1>4. Contents(u)' = w
  <2>1. Append(<<>>, u) = <<u>> /\ Append(<<u>>, u) = <<u, u>>
    <3>1. <<>> \in Seq(Users) /\ <<u>> \in Seq(Users)
      OBVIOUS
    <3>2. Append(<<>>, u) = <<u>>
      BY <3>1
    <3>3. Append(<<u>>, u) = <<u, u>>
      <4> DEFINE s == Append(<<u>>, u)
                 t == <<u, u>>
      <4>1. s \in Seq(Users) /\ t \in Seq(Users) /\ Len(s) = 2 /\ Len(t) = 2
        BY <3>1
      <4>2. s[1] = u /\ s[2] = u /\ t[1] = u /\ t[2] = u
        BY <3>1
      <4>3. \A i \in 1 .. 2 : s[i] = t[i]
        BY <4>2
      <4> HIDE DEF s, t
      <4>4. s = t
        BY <4>1, <4>3, SeqEqual
      <4> QED
        BY <4>4 DEF s, t
    <3> QED
      BY <3>2, <3>3
  <2>2. CASE pc[u] = "body"
    BY <1>1, <1>3, <2>1, <2>2 DEF Contents
  <2>3. CASE pc[u] \in {"head", "append"}
    BY <1>1, <1>3, <2>1, <2>3 DEF Contents
  <2> QED
    BY <1>1, <2>2, <2>3
<1>5. /\ ~Holds(u) \/ heap' = [heap EXCEPT ![pool[bsd[u]]] = w]
      /\ Holds(u) \/ heap' = heap
      /\ astray' = astray
  BY <1>1, PutOwn
<1>6. Unwritten(u)' /\ WholeYet'
  BY <1>2 DEF Unwritten, Owns, WholeYet
<1> HIDE DEF w
<1> QED
  BY <1>1, <1>2, <1>3, <1>4, <1>5, <1>6, OwnStream DEF Waiting

\* The heap does not change: what the user holds is what it held.
LEMMA SameHeap ==
    ASSUME TypeInv, Owns, NEW u \in Users, UNCHANGED <<pool, heap, bsd, scan, fresh>>,
           pc[u] \in {"write", "handle"}, pc'[u] \in {"write", "handle", "free"},
           \A v \in Users \ {u} : pc'[v] = pc[v] /\ r'[v] = r[v],
           Unwritten(u)', WholeYet', shorts' = 0 => shorts = 0
    PROVE  Owns'
<1>1. Contents(u) = <<u, u>> /\ Contents(u)' = <<u, u>>
  BY DEF Contents
<1>2. ~Holds(u) \/ heap' = [heap EXCEPT ![pool[bsd[u]]] = <<u, u>>]
  BY <1>1 DEF Owns, At, Held, TypeInv, Ranges
<1> QED
  BY <1>1, <1>2, OwnStream DEF Waiting

LEMMA WritesOwn ==
    ASSUME TypeInv, Owns, NEW u \in Users, Writes(u)
    PROVE  Owns'
<1>1. /\ pc[u] = "write" /\ Content(bsd[u]) # NoStream
      /\ UNCHANGED <<pool, heap, bsd, scan, fresh>>
  BY DEF Writes
<1>2. heap[Content(bsd[u])] = <<u, u>>
  BY <1>1, OwnContent DEF Owns, At, Held, Contents
<1>3. Len(<<u, u>>) = 2
  OBVIOUS
<1>4. PICK y \in 1 .. 2 :
         /\ shorts' = shorts + (IF y < 2 THEN 1 ELSE 0)
         /\ torn' = (torn \/ y < 2 \/ r[u] # 0)
         /\ r' = [r EXCEPT ![u] = IF @ + y > 2 THEN (IF @ = 3 THEN @ + 1 ELSE 3) ELSE @ + y]
         /\ pc' = [pc EXCEPT ![u] = Loops(u, 2)]
  <2> DEFINE data == heap[Content(bsd[u])]
  <2>1. PICK y \in 1 .. Len(data) :
           /\ shorts' = shorts + (IF y < Len(data) THEN 1 ELSE 0)
           /\ torn' = (torn \/ data # <<u, u>> \/ y < Len(data) \/ r[u] # 0)
           /\ r' = [r EXCEPT ![u] = IF @ + y > Len(data) THEN (IF @ = Len(data) + 1 THEN @ + 1 ELSE Len(data) + 1)
                                   ELSE @ + y]
           /\ pc' = [pc EXCEPT ![u] = Loops(u, Len(data))]
    BY DEF Writes
  <2>2. data = <<u, u>> /\ Len(data) = 2
    BY <1>2, <1>3
  <2> HIDE DEF data
  <2>3. y \in 1 .. 2 /\ 2 + 1 = 3
    BY <2>1, <2>2
  <2> QED
    BY <2>1, <2>2, <2>3
<1>5. shorts \in Nat /\ r[u] \in Nat /\ (shorts = 0 => r[u] = 0)
  BY <1>1 DEF Owns, At, Unwritten, TypeInv, Ranges
<1>6. /\ pc'[u] = IF r'[u] = 2 THEN "free" ELSE "write"
      /\ \A v \in Users \ {u} : pc'[v] = pc[v] /\ r'[v] = r[v]
      /\ r'[u] = IF r[u] + y > 2 THEN (IF r[u] = 3 THEN r[u] + 1 ELSE 3) ELSE r[u] + y
  BY <1>4 DEF Loops, TypeInv, Ranges
<1>7. shorts' = 0 => shorts = 0 /\ y = 2 /\ r'[u] = 2
  BY <1>4, <1>5, <1>6
<1>8. Unwritten(u)'
  BY <1>6, <1>7 DEF Unwritten
<1>9. WholeYet'
  <2>1. torn \in BOOLEAN /\ (torn => shorts > 0)
    BY DEF Owns, WholeYet, TypeInv, Ranges
  <2>2. ASSUME torn' PROVE shorts' > 0
    BY <1>4, <1>5, <2>1, <2>2
  <2> QED
    BY <2>2 DEF WholeYet
<1> QED
  BY <1>1, <1>6, <1>7, <1>8, <1>9, SameHeap

LEMMA EndsOwn ==
    ASSUME TypeInv, Owns, NEW u \in Users, WriteEndsHere(u) \/ Handled(u)
    PROVE  Owns' /\ astray' = astray
<1>1. /\ UNCHANGED <<pool, heap, bsd, scan, fresh, r, torn, shorts>>
      /\ pc[u] \in {"write", "handle"} /\ pc' = [pc EXCEPT ![u] = "free"]
  BY DEF WriteEndsHere, Handled
<1>2. Unwritten(u)' /\ WholeYet' /\ pc'[u] = "free" /\ \A v \in Users \ {u} : pc'[v] = pc[v]
  BY <1>1 DEF Unwritten, Owns, WholeYet, TypeInv, Ranges
<1>3. Owns'
  BY <1>1, <1>2, SameHeap
<1>4. astray' = astray
  <2>1. Content(bsd[u]) # NoStream => heap[Content(bsd[u])] = <<u, u>>
    BY <1>1, OwnContent DEF Owns, At, Held, Contents
  <2> QED
    BY <2>1, NotFreed DEF WriteEndsHere, Handled, TypeInv, Ranges
<1> QED
  BY <1>3, <1>4

LEMMA FreesOwn ==
    ASSUME TypeInv, Owns, NEW u \in Users, Frees(u)
    PROVE  Owns' /\ UNCHANGED <<pool, bsd, scan, leaks, astray>>
<1>1. pc[u] = "free" /\ UNCHANGED <<pool, scan, fresh, r, torn, shorts, leaks>>
  BY DEF Frees
<1>2. CASE ~Holds(u)
  <2>1. /\ pc' = [pc EXCEPT ![u] = "idle"] /\ bsd' = [bsd EXCEPT ![u] = NoSlot]
        /\ UNCHANGED <<heap, astray>>
    BY <1>2, OwnContent DEF Frees
  <2>2. bsd' = bsd /\ pc'[u] = "idle" /\ \A v \in Users \ {u} : pc'[v] = pc[v]
    BY <1>2, <2>1 DEF Holds, TypeInv, Ranges
  <2>3. Unwritten(u)' /\ WholeYet'
    BY <1>1, <2>2 DEF Unwritten, Owns, WholeYet
  <2>4. Owns'
    BY <1>1, <1>2, <2>1, <2>2, <2>3, OwnStream DEF Waiting
  <2> QED
    BY <1>1, <2>1, <2>2, <2>4
<1>3. CASE Holds(u)
  <2>1. /\ heap' = [heap EXCEPT ![pool[bsd[u]]] = Freed]
        /\ astray' = (astray \/ heap[pool[bsd[u]]] = Freed)
        /\ pc' = [pc EXCEPT ![u] = "empty"] /\ UNCHANGED bsd
    BY <1>3, OwnContent DEF Frees
  <2>2. pc'[u] = "empty" /\ \A v \in Users \ {u} : pc'[v] = pc[v]
    BY <2>1 DEF TypeInv, Ranges
  <2>3. Unwritten(u)' /\ WholeYet' /\ Contents(u)' = Freed
    BY <1>1, <2>2 DEF Unwritten, Owns, WholeYet, Contents
  <2>4. Owns'
    BY <1>1, <1>3, <2>1, <2>2, <2>3, OwnStream DEF Waiting
  <2>5. astray' = astray
    <3>1. heap[pool[bsd[u]]] = <<u, u>>
      BY <1>1, <1>3 DEF Owns, At, Held, Contents
    <3> QED
      BY <2>1, <3>1, NotFreed DEF TypeInv, Ranges
  <2> QED
    BY <1>1, <2>1, <2>4, <2>5
<1> QED
  BY <1>2, <1>3

\* The two steps after which a user holds nothing more.
LEMMA LetsGo ==
    ASSUME TypeInv, Owns, NEW u \in Users, Empties(u) \/ (u = In /\ HeadFails)
    PROVE  Owns'
<1>1. /\ bsd' = [bsd EXCEPT ![u] = NoSlot] /\ pc' = [pc EXCEPT ![u] = "idle"]
      /\ pc[u] \notin Waiting
      /\ UNCHANGED <<heap, scan, fresh, r, torn, shorts>>
  BY DEF Empties, HeadFails, Waiting
<1>2. /\ bsd'[u] = NoSlot /\ pc'[u] = "idle"
      /\ \A v \in Users \ {u} : bsd'[v] = bsd[v] /\ pc'[v] = pc[v]
  BY <1>1 DEF TypeInv, Ranges
<1>3. /\ \A t \in Slots : pool'[t] # pool[t] => Holds(u) /\ t = bsd[u] /\ pool'[t] = NoStream
      /\ pool' \in [Slots -> Streams \cup {NoStream}]
  <2>1. CASE Empties(u)
    <3>1. Holds(u) /\ bsd[u] \in Slots
      <4>1. Phase(u) /\ pc[u] = "empty"
        BY <2>1 DEF TypeInv, Empties
      <4> QED
        BY <4>1, SlotOf DEF Phase
    <3> QED
      BY <2>1, <3>1 DEF Empties, TypeInv, Ranges
  <2>2. CASE HeadFails
    BY <2>2 DEF HeadFails, TypeInv, Ranges
  <2> QED
    BY <2>1, <2>2
<1>4. ASSUME NEW v \in Users PROVE Held(v)'
  <2>1. SUFFICES ASSUME Holds(v)' PROVE Held(v)'
    BY DEF Held
  <2>2. v # u /\ Holds(v) /\ bsd[v] \in Slots
    BY <1>2, <2>1, SlotOf DEF Holds
  <2>3. pool'[bsd[v]] = pool[bsd[v]]
    BY <1>3, <2>2 DEF Owns, Apart
  <2>4. Contents(v)' = Contents(v)
    BY <1>2, <2>2 DEF Contents
  <2> QED
    BY <1>1, <1>2, <2>2, <2>3, <2>4 DEF Owns, At, Held
<1>5. ASSUME NEW v \in Users PROVE Storing(v)'
  BY <1>1, <1>2, <1>3, SlotOf DEF Owns, At, Storing
<1>6. ASSUME NEW v \in Users PROVE Unwritten(v)'
  BY <1>1, <1>2 DEF Owns, At, Unwritten
<1>7. Apart'
  <2>1. \A v, w \in Users : v # w /\ Holds(v)' => bsd'[v] # bsd'[w]
    BY <1>2 DEF Owns, Apart, Holds
  <2>2. \A v, w \in Users : v # w /\ pc'[v] = "store" /\ pc'[w] = "store" =>
            scan'[v] # scan'[w] /\ fresh'[v] # fresh'[w]
    BY <1>1, <1>2 DEF Owns, Apart
  <2>3. \A t, x \in Slots : t # x /\ pool'[t] # NoStream => pool'[t] # pool'[x]
    BY <1>3 DEF Owns, Apart
  <2>4. \A t \in Slots, v \in Users : pc'[v] = "store" => pool'[t] # fresh'[v]
    BY <1>1, <1>2, <1>3 DEF Owns, Apart, At, Storing
  <2> QED
    BY <2>1, <2>2, <2>3, <2>4 DEF Apart
<1>8. WholeYet'
  BY <1>1 DEF Owns, WholeYet
<1> QED
  BY <1>4, <1>5, <1>6, <1>7, <1>8 DEF Owns, At

LEMMA OwnsInit == PoolInit => Owns
<1> SUFFICES ASSUME PoolInit PROVE Owns
  OBVIOUS
<1>1. \A u \in Users : pc[u] = "idle" /\ ~Holds(u)
  BY DEF PoolInit, Holds
<1>2. \A u \in Users : At(u)
  BY <1>1 DEF At, Held, Storing, Unwritten
<1>3. Apart
  BY <1>1 DEF Apart, PoolInit
<1> QED
  BY <1>2, <1>3 DEF Owns, WholeYet, PoolInit

LEMMA OwnsStep ==
    ASSUME TypeInv, Owns, [PoolNext]_poolVars, ~raced'
    PROVE  Owns'
<1>1. CASE UNCHANGED poolVars
  BY <1>1 DEF poolVars, Owns, At, Held, Storing, Unwritten, Contents, Apart, WholeYet, Holds
<1>2. In \in Users
  BY InIsUser
<1> QED
  BY <1>1, <1>2, AllocatesOwns, StoresOwns, ScansOwn, PutsOwn, WritesOwn, EndsOwn, FreesOwn, LetsGo
  DEF PoolNext, Step

-----------------------------------------------------------------------------
\* Nothing else is left behind, and the pool is exhausted only by what is:
\* Counts is kept by the same steps.

LEMMA Cards ==
    ASSUME NEW H \in SUBSET Users, NEW L \in SUBSET Slots
    PROVE  /\ IsFiniteSet(H) /\ Cardinality(H) \in Nat
           /\ IsFiniteSet(L) /\ Cardinality(L) \in Nat
BY Finite, FS_Subset, FS_CardinalityType

LEMMA CrowdKept ==
    ASSUME Crowd, leaks \in Nat, NEW x \in Slots,
           \A i \in 0 .. MAX_BSD_NUM : High(i)' \subseteq High(i),
           \/ Left' = Left /\ leaks' = leaks
           \/ Left' = Left \cup {x} /\ leaks' = leaks + 1
    PROVE  Crowd'
<1> SUFFICES ASSUME NEW i \in 0 .. MAX_BSD_NUM, High(i)' # {}
             PROVE  Cardinality(High(i)') + Cardinality(LeftHigh(i)') <= Cardinality(Users) + leaks' - i
  BY DEF Crowd
<1>1. Cardinality(High(i)) + Cardinality(LeftHigh(i)) <= Cardinality(Users) + leaks - i
  BY DEF Crowd
<1>2. /\ High(i) \in SUBSET Users /\ High(i)' \in SUBSET High(i)
      /\ LeftHigh(i) \in SUBSET Slots /\ LeftHigh(i)' \in SUBSET Slots
  BY DEF High, LeftHigh, Left, InUse
<1>3. /\ Cardinality(High(i)) \in Nat /\ Cardinality(High(i)') \in Nat
      /\ Cardinality(High(i)') <= Cardinality(High(i))
  BY <1>2, Cards, FS_Subset
<1>4. IsFiniteSet(LeftHigh(i)) /\ Cardinality(LeftHigh(i)) \in Nat /\ Cardinality(LeftHigh(i)') \in Nat
  BY <1>2, Cards
<1>5. CASE Left' = Left /\ leaks' = leaks
  <2>1. LeftHigh(i)' = LeftHigh(i)
    BY <1>5 DEF LeftHigh
  <2> QED
    BY <1>1, <1>3, <1>4, <1>5, <2>1, Finite
<1>6. CASE Left' = Left \cup {x} /\ leaks' = leaks + 1
  <2>1. LeftHigh(i)' \in SUBSET (LeftHigh(i) \cup {x})
    BY <1>6 DEF LeftHigh
  <2>2. /\ IsFiniteSet(LeftHigh(i) \cup {x})
        /\ Cardinality(LeftHigh(i) \cup {x}) <= Cardinality(LeftHigh(i)) + 1
    <3>1. /\ IsFiniteSet(LeftHigh(i) \cup {x})
          /\ Cardinality(LeftHigh(i) \cup {x}) =
                 IF x \in LeftHigh(i) THEN Cardinality(LeftHigh(i)) ELSE Cardinality(LeftHigh(i)) + 1
      BY <1>4, FS_AddElement, Zenon
    <3> QED
      BY <1>4, <3>1
  <2>3. Cardinality(LeftHigh(i)') <= Cardinality(LeftHigh(i) \cup {x})
    BY <2>1, <2>2, FS_Subset
  <2>4. Cardinality(LeftHigh(i) \cup {x}) \in Nat
    BY <2>2, FS_CardinalityType
  <2>5. Cardinality(LeftHigh(i)') <= Cardinality(LeftHigh(i)) + 1
    BY <1>4, <2>2, <2>3, <2>4
  <2> QED
    BY <1>1, <1>3, <1>4, <1>6, <2>5, Finite
<1> QED
  BY <1>5, <1>6

\* The heart of it: whoever steps over a slot leaves behind, below, the user
\* that holds it or the packet that was left in it.
LEMMA LooksCrowd ==
    ASSUME TypeInv, Owns, Crowd, NEW u \in Users, Looks(u)
    PROVE  Crowd'
<1> DEFINE j == scan[u]
<1>1. /\ pc[u] = "scan" /\ j \in Slots /\ pool[j] # NoStream
      /\ scan' = [scan EXCEPT ![u] = @ + 1] /\ UNCHANGED <<pool, bsd, leaks>>
  BY DEF Looks
<1>2. ~Holds(u) /\ Place(u) = j
  BY <1>1 DEF Owns, At, Held, Waiting, Place
<1>3. j \in Nat /\ j \in 0 .. MAX_BSD_NUM /\ j + 1 \in 0 .. MAX_BSD_NUM
  BY <1>1, PoolAssumption DEF Slots
<1>4. \A v \in Users : Place(v) \in Nat
  BY SlotOf, PoolAssumption DEF Place, TypeInv, Ranges, Slots
<1>5. Place(u)' = j + 1 /\ \A v \in Users \ {u} : Place(v)' = Place(v)
  BY <1>1, <1>2 DEF Place, Holds, TypeInv, Ranges
<1>6. Left' = Left /\ \A i \in 0 .. MAX_BSD_NUM : LeftHigh(i)' = LeftHigh(i)
  BY <1>1 DEF LeftHigh, Left, InUse, Owned, Holders, Holds
<1> SUFFICES ASSUME NEW i \in 0 .. MAX_BSD_NUM, High(i)' # {}
             PROVE  Cardinality(High(i)') + Cardinality(LeftHigh(i)') <= Cardinality(Users) + leaks' - i
  BY DEF Crowd
<1> HIDE DEF j
<1>7. CASE i # j + 1
  <2>1. High(i)' = High(i)
    BY <1>2, <1>3, <1>4, <1>5, <1>7 DEF High
  <2> QED
    BY <1>1, <1>6, <2>1 DEF Crowd
<1>8. CASE i = j + 1
  <2>1. /\ High(j) \in SUBSET Users /\ High(i)' \in SUBSET High(j) /\ u \in High(j)
        /\ LeftHigh(j) \in SUBSET Slots /\ LeftHigh(i) \in SUBSET LeftHigh(j) /\ j \notin LeftHigh(i)
    <3>1. High(j) \in SUBSET Users /\ u \in High(j)
      BY <1>2, <1>3 DEF High
    <3>2. High(i)' \in SUBSET High(j)
      BY <1>2, <1>3, <1>4, <1>5, <1>8 DEF High
    <3>3. LeftHigh(j) \in SUBSET Slots /\ j \notin LeftHigh(i)
      BY <1>3, <1>8 DEF LeftHigh, Left, InUse
    <3>4. ASSUME NEW s \in LeftHigh(i) PROVE s \in LeftHigh(j)
      BY <1>3, <1>8, PoolAssumption DEF LeftHigh, Left, InUse, Slots
    <3> QED
      BY <3>1, <3>2, <3>3, <3>4
  <2>2. Cardinality(High(j)) + Cardinality(LeftHigh(j)) <= Cardinality(Users) + leaks - j
    BY <1>3, <2>1 DEF Crowd
  <2>3. /\ IsFiniteSet(High(j)) /\ Cardinality(High(j)) \in Nat /\ Cardinality(High(i)') \in Nat
        /\ IsFiniteSet(LeftHigh(j)) /\ Cardinality(LeftHigh(j)) \in Nat /\ Cardinality(LeftHigh(i)) \in Nat
        /\ Cardinality(High(i)') <= Cardinality(High(j))
        /\ Cardinality(LeftHigh(i)) <= Cardinality(LeftHigh(j))
    BY <2>1, Cards, FS_Subset
  <2>0. /\ leaks \in Nat /\ Cardinality(Users) \in Nat /\ leaks' = leaks /\ j \in Nat /\ i = j + 1
        /\ Cardinality(LeftHigh(i)') = Cardinality(LeftHigh(i))
    BY <1>1, <1>3, <1>6, <1>8, Finite DEF TypeInv, Ranges
  <2>4. CASE j \in Left
    <3>1. j \in LeftHigh(j)
      BY <1>3, <2>4 DEF LeftHigh
    <3>2. LeftHigh(i) \in SUBSET (LeftHigh(j) \ {j})
      BY <2>1
    <3>3. /\ IsFiniteSet(LeftHigh(j) \ {j})
          /\ Cardinality(LeftHigh(j) \ {j}) = Cardinality(LeftHigh(j)) - 1
      BY <2>3, <3>1, FS_RemoveElement
    <3>4. Cardinality(LeftHigh(i)) <= Cardinality(LeftHigh(j)) - 1
      BY <3>2, <3>3, FS_Subset
    <3> QED
      BY <2>0, <2>2, <2>3, <3>4
  <2>5. CASE j \notin Left
    <3>1. PICK w \in Users : Holds(w) /\ bsd[w] = j
      BY <1>1, <2>5 DEF Left, InUse, Owned, Holders
    <3>2. w # u /\ Place(w) = j /\ Place(w)' = j
      BY <1>2, <1>5, <3>1 DEF Place
    <3>3. w \in High(j) /\ w \notin High(i)'
      BY <1>3, <1>8, <3>2 DEF High
    <3>4. High(i)' \in SUBSET (High(j) \ {w})
      BY <2>1, <3>3
    <3>5. /\ IsFiniteSet(High(j) \ {w})
          /\ Cardinality(High(j) \ {w}) = Cardinality(High(j)) - 1
      BY <2>3, <3>3, FS_RemoveElement
    <3>6. Cardinality(High(i)') <= Cardinality(High(j)) - 1
      BY <3>4, <3>5, FS_Subset
    <3> QED
      BY <2>0, <2>2, <2>3, <3>6
  <2> QED
    BY <2>4, <2>5
<1> QED
  BY <1>7, <1>8

\* initBs gives up only with a user past the last slot, when packets have been
\* left in as many slots as there are but for the other users.
LEMMA ExhaustedCounts ==
    ASSUME TypeInv, Owns, Counts, NEW u \in Users, Exhausted(u)
    PROVE  leaks > MAX_BSD_NUM - Cardinality(Users)
<1>1. scan[u] = MAX_BSD_NUM /\ ~Holds(u)
  BY PoolAssumption DEF Exhausted, Owns, At, Held, Waiting, TypeInv, Ranges, Slots
<1>2. u \in High(MAX_BSD_NUM)
  BY <1>1, PoolAssumption DEF High, Place
<1>3. /\ High(MAX_BSD_NUM) \in SUBSET Users /\ LeftHigh(MAX_BSD_NUM) \in SUBSET Slots
      /\ MAX_BSD_NUM \in 0 .. MAX_BSD_NUM
  BY PoolAssumption DEF High, LeftHigh, Left, InUse
<1>4. Cardinality(High(MAX_BSD_NUM)) + Cardinality(LeftHigh(MAX_BSD_NUM))
          <= Cardinality(Users) + leaks - MAX_BSD_NUM
  BY <1>2, <1>3 DEF Counts, Crowd
<1>5. IsFiniteSet(High(MAX_BSD_NUM)) /\ Cardinality(High(MAX_BSD_NUM)) \in Nat
      /\ Cardinality(LeftHigh(MAX_BSD_NUM)) \in Nat
  BY <1>3, Cards
<1>6. Cardinality(High(MAX_BSD_NUM)) # 0
  BY <1>2, <1>5, FS_EmptySet
<1> QED
  BY <1>4, <1>5, <1>6, Finite, PoolAssumption DEF TypeInv, Ranges

\* Places only go down, and what is left stays.
LEMMA LowerCounts ==
    ASSUME TypeInv, Counts, Left' = Left, leaks' = leaks,
           \A v \in Users : Place(v)' \in Nat /\ Place(v) \in Nat /\ Place(v)' <= Place(v)
    PROVE  Counted' /\ Crowd'
<1>1. \A i \in 0 .. MAX_BSD_NUM : High(i)' \subseteq High(i)
  BY DEF High
<1>2. 0 \in Slots
  BY PoolAssumption DEF Slots
<1> QED
  BY <1>1, <1>2, CrowdKept DEF Counts, Counted, TypeInv, Ranges

LEMMA SameCounts ==
    ASSUME TypeInv, Counts, UNCHANGED <<pool, bsd, scan, leaks>>
    PROVE  Counted' /\ Crowd'
<1>1. Left' = Left
  BY DEF Left, InUse, Owned, Holders, Holds
<1>2. \A v \in Users : Place(v)' = Place(v) /\ Place(v) \in Nat
  BY SlotOf, PoolAssumption DEF Place, Holds, TypeInv, Ranges, Slots
<1> QED
  BY <1>1, <1>2, LowerCounts

LEMMA StoresCounts ==
    ASSUME TypeInv, Owns, Counts, NEW u \in Users, Stores(u)
    PROVE  Counted' /\ Crowd'
<1> DEFINE s == scan[u]
<1>1. s \in Slots /\ pool[s] = NoStream /\ fresh[u] # NoStream /\ ~Holds(u)
  <2>1. Phase(u) /\ Storing(u) /\ Held(u) /\ pc[u] = "store"
    BY DEF Owns, At, Stores, TypeInv
  <2> QED
    BY <2>1 DEF Phase, Storing, Held, Waiting
<1>2. /\ pool'[s] = fresh[u] /\ \A t \in Slots \ {s} : pool'[t] = pool[t]
      /\ bsd'[u] = s /\ scan'[u] = 0
      /\ \A v \in Users \ {u} : bsd'[v] = bsd[v] /\ scan'[v] = scan[v]
      /\ leaks' = leaks
  BY <1>1 DEF Stores, TypeInv, Ranges
<1>3. s # NoSlot
  BY <1>1, PoolAssumption DEF Slots, NoSlot
<1>4. InUse' = InUse \cup {s} /\ s \notin InUse
  BY <1>1, <1>2 DEF InUse
<1>5. Owned' = Owned \cup {s}
  <2>1. Holders' = Holders \cup {u} /\ u \notin Holders
    BY <1>1, <1>2, <1>3 DEF Holders, Holds
  <2>2. \A v \in Holders : bsd'[v] = bsd[v]
    BY <1>2, <2>1 DEF Holders
  <2>3. Owned' = {bsd'[v] : v \in Holders \cup {u}}
    BY <2>1 DEF Owned
  <2> QED
    BY <1>2, <2>2, <2>3 DEF Owned
<1>6. Left' = Left
  BY <1>4, <1>5 DEF Left
<1>7. \A v \in Users : Place(v)' = Place(v) /\ Place(v) \in Nat
  BY <1>1, <1>2, <1>3, SlotOf, PoolAssumption DEF Place, Holds, TypeInv, Ranges, Slots
<1> QED
  BY <1>2, <1>6, <1>7, LowerCounts

LEMMA EmptiesCounts ==
    ASSUME TypeInv, Owns, Counts, NEW u \in Users, Empties(u)
    PROVE  Counted' /\ Crowd'
<1> DEFINE s == bsd[u]
<1>1. Holds(u) /\ s \in Slots /\ pool[s] # NoStream /\ scan[u] = 0
  <2>1. Phase(u) /\ Held(u) /\ pc[u] = "empty"
    BY DEF Owns, At, Empties, TypeInv
  <2> QED
    BY <2>1, SlotOf DEF Phase, Held
<1>2. /\ pool'[s] = NoStream /\ \A t \in Slots \ {s} : pool'[t] = pool[t]
      /\ bsd'[u] = NoSlot /\ scan' = scan
      /\ \A v \in Users \ {u} : bsd'[v] = bsd[v]
      /\ leaks' = leaks
  BY <1>1 DEF Empties, TypeInv, Ranges
<1>3. InUse' = InUse \ {s}
  BY <1>1, <1>2 DEF InUse
<1>4. Owned' = Owned \ {s}
  <2>1. Holders' = Holders \ {u} /\ u \in Holders
    BY <1>1, <1>2 DEF Holders, Holds
  <2>2. \A v \in Holders \ {u} : bsd'[v] = bsd[v] /\ bsd[v] # s
    BY <1>1, <1>2 DEF Holders, Owns, Apart
  <2>3. Owned' = {bsd'[v] : v \in Holders \ {u}}
    BY <2>1 DEF Owned
  <2> QED
    BY <2>1, <2>2, <2>3 DEF Owned
<1>5. s \in Owned
  BY <1>1 DEF Owned, Holders
<1>6. Left' = Left
  BY <1>3, <1>4, <1>5 DEF Left
<1>7. \A v \in Users : Place(v)' \in Nat /\ Place(v) \in Nat /\ Place(v)' <= Place(v)
  BY <1>1, <1>2, SlotOf, PoolAssumption DEF Place, Holds, TypeInv, Ranges, Slots
<1> QED
  BY <1>2, <1>6, <1>7, LowerCounts

LEMMA HeadFailsCounts ==
    ASSUME TypeInv, Owns, Counts, HeadFails
    PROVE  Counted' /\ Crowd' /\ leaks' >= leaks
<1> DEFINE s == bsd[In]
<1>1. /\ In \in Users /\ pool' = pool /\ scan' = scan /\ bsd'[In] = NoSlot
      /\ leaks' = leaks + (IF Holds(In) THEN 1 ELSE 0)
      /\ \A v \in Users \ {In} : bsd'[v] = bsd[v]
  BY InIsUser DEF HeadFails, Holds, TypeInv, Ranges
<1>2. InUse' = InUse
  BY <1>1 DEF InUse
<1>3. \A v \in Users : Place(v)' \in Nat /\ Place(v) \in Nat /\ Place(v)' <= Place(v)
  <2>1. Holds(In) => scan[In] = 0
    BY <1>1 DEF Owns, At, Held
  <2> QED
    BY <1>1, <2>1, SlotOf, PoolAssumption DEF Place, Holds, TypeInv, Ranges, Slots
<1>4. CASE ~Holds(In)
  <2>1. bsd' = bsd /\ leaks' = leaks
    BY <1>1, <1>4 DEF HeadFails, Holds, TypeInv, Ranges
  <2>2. Left' = Left
    BY <1>2, <2>1 DEF Left, Owned, Holders, Holds
  <2> QED
    BY <1>3, <2>1, <2>2, LowerCounts DEF TypeInv, Ranges
<1>5. CASE Holds(In)
  <2>1. s \in Slots /\ s \in InUse /\ s \in Owned /\ leaks' = leaks + 1
    BY <1>1, <1>5, SlotOf DEF Owns, At, Held, InUse, Owned, Holders
  <2>2. Owned' = Owned \ {s}
    <3>1. Holders' = Holders \ {In} /\ In \in Holders
      BY <1>1, <1>5 DEF Holders, Holds
    <3>2. \A v \in Holders \ {In} : bsd'[v] = bsd[v] /\ bsd[v] # s
      BY <1>1, <1>5 DEF Holders, Owns, Apart
    <3>3. Owned' = {bsd'[v] : v \in Holders \ {In}}
      BY <3>1 DEF Owned
    <3> QED
      BY <3>1, <3>2, <3>3 DEF Owned
  <2>3. Left' = Left \cup {s} /\ s \notin Left
    BY <1>2, <2>1, <2>2 DEF Left
  <2>4. \A i \in 0 .. MAX_BSD_NUM : High(i)' \subseteq High(i)
    BY <1>3 DEF High
  <2>5. leaks \in Nat
    BY DEF TypeInv, Ranges
  <2>6. Crowd'
    BY <2>1, <2>3, <2>4, <2>5, CrowdKept DEF Counts
  <2>7. Counted'
    <3>1. Left \in SUBSET Slots
      BY DEF Left, InUse
    <3>2. IsFiniteSet(Left)
      BY <3>1, Finite, FS_Subset
    <3>3. Cardinality(Left \cup {s}) = Cardinality(Left) + 1
      BY <2>3, <3>2, FS_AddElement
    <3> QED
      BY <2>1, <2>3, <3>3 DEF Counts, Counted
  <2> QED
    BY <2>1, <2>5, <2>6, <2>7
<1> QED
  BY <1>4, <1>5

LEMMA CountsInit == PoolInit => Counts
<1> SUFFICES ASSUME PoolInit PROVE Counts
  OBVIOUS
<1>1. Left = {} /\ \A i \in 0 .. MAX_BSD_NUM : LeftHigh(i) = {}
  BY DEF PoolInit, Left, InUse, LeftHigh
<1>2. Counted
  BY <1>1, FS_EmptySet DEF Counted, PoolInit
<1>3. \A u \in Users : Place(u) = 0
  BY DEF PoolInit, Place, Holds
<1>4. Crowd
  <2> SUFFICES ASSUME NEW i \in 0 .. MAX_BSD_NUM, High(i) # {}
               PROVE  Cardinality(High(i)) + Cardinality(LeftHigh(i)) <= Cardinality(Users) + leaks - i
    BY DEF Crowd
  <2>1. i = 0 /\ High(i) = Users
    BY <1>3, PoolAssumption DEF High
  <2>2. Cardinality(LeftHigh(i)) = 0 /\ leaks = 0
    BY <1>1, FS_EmptySet DEF PoolInit
  <2> QED
    BY <2>1, <2>2, Finite
<1> QED
  BY <1>2, <1>4 DEF Counts, Astray, PoolInit

LEMMA CountsStep ==
    ASSUME TypeInv, Owns, Counts, PoolNext
    PROVE  Counts'
<1>1. ASSUME /\ Counted' /\ Crowd'
             /\ (astray' = astray /\ leaks' >= leaks) \/
                (leaks' = leaks /\ leaks > MAX_BSD_NUM - Cardinality(Users))
      PROVE  Counts'
  <2>1. /\ leaks \in Nat /\ leaks' \in Nat /\ astray \in BOOLEAN
        /\ MAX_BSD_NUM - Cardinality(Users) \in Int
    BY TypeStep, Finite, PoolAssumption DEF TypeInv, Ranges
  <2>2. astray => leaks > MAX_BSD_NUM - Cardinality(Users)
    BY DEF Counts, Astray
  <2>3. Astray'
    <3> SUFFICES ASSUME astray' PROVE leaks' > MAX_BSD_NUM - Cardinality(Users)
      BY DEF Astray
    <3>1. \/ astray /\ leaks' >= leaks
          \/ leaks' = leaks /\ leaks > MAX_BSD_NUM - Cardinality(Users)
      BY <1>1, Zenon
    <3>2. leaks' >= leaks /\ leaks > MAX_BSD_NUM - Cardinality(Users)
      BY <2>1, <2>2, <3>1
    <3> QED
      BY <2>1, <3>2
  <2> QED
    BY <1>1, <2>3 DEF Counts
<1>2. leaks \in Nat /\ leaks >= leaks
  BY DEF TypeInv, Ranges
<1>3. ASSUME NEW u \in Users, Start(u) PROVE Counted' /\ Crowd' /\ UNCHANGED <<astray, leaks>>
  <2>1. /\ UNCHANGED <<pool, bsd, leaks, astray>> /\ ~Holds(u)
        /\ scan'[u] = 0 /\ \A v \in Users \ {u} : scan'[v] = scan[v]
    BY <1>3 DEF Start, MayStart, Owns, At, Held, Waiting, TypeInv, Ranges
  <2>2. Left' = Left
    BY <2>1 DEF Left, InUse, Owned, Holders, Holds
  <2>3. \A v \in Users : Place(v)' \in Nat /\ Place(v) \in Nat /\ Place(v)' <= Place(v)
    <3>1. \A v \in Users : Place(v) \in Nat
      BY SlotOf, PoolAssumption DEF Place, TypeInv, Ranges, Slots
    <3>2. Place(u)' = 0 /\ \A v \in Users \ {u} : Place(v)' = Place(v)
      BY <2>1 DEF Place, Holds
    <3> QED
      BY <3>1, <3>2
  <2> QED
    BY <2>1, <2>2, <2>3, LowerCounts
<1>4. ASSUME NEW u \in Users, Looks(u) PROVE Counted' /\ Crowd' /\ UNCHANGED <<astray, leaks>>
  <2>1. Left' = Left /\ UNCHANGED <<astray, leaks>>
    BY <1>4 DEF Looks, Left, InUse, Owned, Holders, Holds
  <2> QED
    BY <1>4, <2>1, LooksCrowd DEF Counts, Counted
<1>5. ASSUME NEW u \in Users, Allocates(u) PROVE Counted' /\ Crowd' /\ UNCHANGED <<astray, leaks>>
  BY <1>5, SameCounts DEF Allocates
<1>6. ASSUME NEW u \in Users, Exhausted(u)
      PROVE  Counted' /\ Crowd' /\ leaks' = leaks /\ leaks > MAX_BSD_NUM - Cardinality(Users)
  <2>1. ~Holds(u) /\ UNCHANGED <<pool, scan, leaks>>
    BY <1>6 DEF Exhausted, Owns, At, Held, Waiting
  <2>2. bsd' = bsd
    BY <1>6, <2>1 DEF Exhausted, Holds, TypeInv, Ranges
  <2> QED
    BY <1>6, <2>1, <2>2, SameCounts, ExhaustedCounts
<1>7. ASSUME NEW u \in Users, Stores(u) PROVE Counted' /\ Crowd' /\ UNCHANGED <<astray, leaks>>
  BY <1>7, StoresCounts DEF Stores
<1>8. ASSUME NEW u \in Users, Appends(u) \/ (u = In /\ Reads)
      PROVE  Counted' /\ Crowd' /\ UNCHANGED <<astray, leaks>>
  <2>1. UNCHANGED <<pool, bsd, scan, leaks>>
    BY <1>8 DEF Appends, Reads
  <2> QED
    BY <1>8, <2>1, PutsOwn, SameCounts
<1>9. ASSUME NEW u \in Users, Writes(u) PROVE Counted' /\ Crowd' /\ UNCHANGED <<astray, leaks>>
  BY <1>9, SameCounts DEF Writes
<1>10. ASSUME NEW u \in Users, WriteEndsHere(u) \/ Handled(u)
       PROVE  Counted' /\ Crowd' /\ UNCHANGED <<astray, leaks>>
  <2>1. UNCHANGED <<pool, bsd, scan, leaks>>
    BY <1>10 DEF WriteEndsHere, Handled
  <2> QED
    BY <1>10, <2>1, EndsOwn, SameCounts
<1>11. ASSUME NEW u \in Users, Frees(u) PROVE Counted' /\ Crowd' /\ UNCHANGED <<astray, leaks>>
  BY <1>11, FreesOwn, SameCounts
<1>12. ASSUME NEW u \in Users, Empties(u) PROVE Counted' /\ Crowd' /\ UNCHANGED <<astray, leaks>>
  BY <1>12, EmptiesCounts DEF Empties
<1>13. ASSUME HeadFails PROVE Counted' /\ Crowd' /\ astray' = astray /\ leaks' >= leaks
  BY <1>13, HeadFailsCounts DEF HeadFails
<1>14. In \in Users
  BY InIsUser
<1> QED
  BY <1>1, <1>2, <1>3, <1>4, <1>5, <1>6, <1>7, <1>8, <1>9, <1>10, <1>11, <1>12, <1>13, <1>14
  DEF PoolNext, Step

\* Nothing clears raced.
LEMMA RacedStays == TypeInv /\ [PoolNext]_poolVars /\ raced => raced'
BY DEF TypeInv, Ranges, PoolNext, Step, Start, Looks, Allocates, Stores, Exhausted, Appends, Writes,
       WriteEndsHere, Frees, Empties, Reads, HeadFails, Handled, poolVars

LEMMA Invariant == PoolSpec => []PoolInv
<1>1. PoolInit => PoolInv
  BY TypeInit, OwnsInit, CountsInit DEF PoolInv
<1>2. PoolInv /\ [PoolNext]_poolVars => PoolInv'
  <2> SUFFICES ASSUME PoolInv, [PoolNext]_poolVars PROVE PoolInv'
    OBVIOUS
  <2>1. TypeInv'
    BY TypeStep DEF PoolInv
  <2>2. CASE raced'
    BY <2>1, <2>2 DEF PoolInv
  <2>3. CASE ~raced'
    <3>1. TypeInv /\ Owns /\ Counts
      BY <2>3, RacedStays DEF PoolInv
    <3>2. Owns'
      BY <2>3, <3>1, OwnsStep
    <3>3. CASE PoolNext
      BY <2>1, <3>1, <3>2, <3>3, CountsStep DEF PoolInv
    <3>4. CASE UNCHANGED poolVars
      <4>1. Counted' /\ Crowd' /\ astray' = astray /\ leaks' = leaks
        BY <3>1, <3>4, SameCounts DEF poolVars
      <4>2. Counts'
        BY <3>1, <4>1 DEF Counts, Astray
      <4> QED
        BY <2>1, <3>2, <4>2 DEF PoolInv
    <3> QED
      BY <3>3, <3>4
  <2> QED
    BY <2>2, <2>3
<1> QED
  BY <1>1, <1>2, PTL DEF PoolSpec

-----------------------------------------------------------------------------
\* initBs, freeBs and their users, for a pool of any size, any number of
\* threads, of streams that each holds over each other, of packets, failures and
\* short writes: unless two of them met inside initBs with the same slot, no
\* descriptor has two owners, and none is out of range nor any freed stream used
\* before the packets without a head (serverResponseHandler's early return)
\* number more than the slots less the users.
THEOREM OneOwner == PoolSpec => []PoolSound
<1>1. PoolInv => PoolSound
  BY DEF PoolInv, Owns, Apart, Counts, Astray, PoolSound
<1> QED
  BY <1>1, Invariant, PTL

\* Every path through freeBs's callers gives its slot back, but the one of a
\* head that could not be read.
THEOREM EverySlot == PoolSpec => []GivenBack
<1>1. PoolInv => GivenBack
  <2> SUFFICES ASSUME PoolInv, ~raced
               PROVE  Cardinality(InUse) = Cardinality(Holders) + leaks
    BY DEF GivenBack, InUse, Holders
  <2>1. Owns /\ Counts /\ TypeInv
    BY DEF PoolInv
  <2>2. Owned \in SUBSET InUse
    BY <2>1, SlotOf DEF Owned, Holders, InUse, Owns, At, Held
  <2>3. InUse \in SUBSET Slots /\ Holders \in SUBSET Users
    BY DEF InUse, Holders
  <2>4. IsFiniteSet(InUse) /\ IsFiniteSet(Holders) /\ Cardinality(Holders) \in Nat
    BY <2>3, Cards
  <2>5. Cardinality(Owned) = Cardinality(Holders)
    <3> DEFINE f == [u \in Holders |-> bsd[u]]
    <3>1. f \in Bijection(Holders, Owned)
      BY <2>1 DEF Bijection, Injection, IsInjective, Surjection, Owned, Holders, Owns, Apart
    <3>2. ExistsBijection(Holders, Owned)
      BY <3>1 DEF ExistsBijection
    <3> QED
      BY <2>4, <3>2, FS_Bijection
  <2>6. Cardinality(Left) = Cardinality(InUse) - Cardinality(InUse \cap Owned)
    BY <2>4, FS_Difference DEF Left
  <2>7. Cardinality(InUse \cap Owned) = Cardinality(Holders)
    <3>1. InUse \cap Owned = Owned
      BY <2>2
    <3> QED
      BY <2>5, <3>1
  <2>8. Cardinality(InUse) \in Nat
    BY <2>4, FS_CardinalityType
  <2> QED
    BY <2>1, <2>4, <2>6, <2>7, <2>8 DEF Counts, Counted
<1> QED
  BY <1>1, Invariant, PTL

\* What writeBs hands to the server is whole packets, each once and of one
\* sender, until two users raced or a write was short.
THEOREM WholeUntilShort == PoolSpec => []WholePackets
<1>1. PoolInv => WholePackets
  BY DEF PoolInv, Owns, WholeYet, WholePackets
<1> QED
  BY <1>1, Invariant, PTL
=============================================================================
