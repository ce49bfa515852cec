------------------------------ MODULE SlaveList ------------------------------
(***************************************************************************)
(* The contact ("slave") list: the doubly linked list of ylist.c and the   *)
(* operations of slaves.c on it, pointer by pointer.  A block of memory is  *)
(* a member of Node; calloc hands out any block that is not in the list.    *)
(*                                                                         *)
(* Every operation here runs under g_slave_list_mutex or is meant to (the   *)
(* locking itself is module SlaveLock), so each one is a single step.       *)
(* Flags and server ids of a slave are the subject of module Ssi.           *)
(***************************************************************************)
EXTENDS Naturals, FiniteSets

CONSTANTS
    Node,         \* blocks calloc can return
    NULL,         \* the null pointer
    Uin,          \* ICQ numbers that callers pass to addSlaveToList
    Names,        \* nicknames that callers pass
    UinNick,      \* a number printed as a nickname: snprintf("%d", uin)
    Fold          \* position of a nickname in the order of strcasecmp

MinUin == 10000

Nick == Names \cup {UinNick[u] : u \in Uin}

ASSUME NodeAssumption == NULL \notin Node /\ IsFiniteSet(Node)
ASSUME UinAssumption  == Uin \subseteq Nat
ASSUME NickAssumption == /\ UinNick \in [Uin -> {UinNick[u] : u \in Uin}]
                         /\ Fold \in [Nick -> Nat]

VARIABLES
    start,    \* list_t.start
    length,   \* list_t.length
    suc, pre, \* the COMMON_LIST fields of each block
    uin,      \* slave_t.uin, 0 in a block that is not (or no longer) a slave
    nick,     \* slave_t.info.nickName
    proc,     \* the process: running, exited, or killed by a null dereference
    updateNicks \* g_cfg.updateNicks, read at the start and never changed

vars == <<start, length, suc, pre, uin, nick, proc, updateNicks>>

Pointer == Node \cup {NULL}

TypeOK ==
    /\ start \in Pointer
    /\ length \in Nat
    /\ suc \in [Node -> Pointer]
    /\ pre \in [Node -> Pointer]
    /\ uin \in [Node -> Nat]
    /\ nick \in [Node -> Nick \cup {""}]
    /\ proc \in {"running", "exited", "deleteFault", "renameFault"}
    /\ updateNicks \in BOOLEAN

------------------------------------------------------------------------------
(* Walking the list.                                                        *)

(* The nodes a loop "for (n = start; n in W; n = n->suc)" visits: the least *)
(* set that holds start and is closed under suc, inside W.                  *)
Walk(W) ==
    {n \in Node : \A S \in SUBSET Node :
        (/\ start \in W => start \in S
         /\ \A m \in S : suc[m] \in W => suc[m] \in S) => n \in S}

Reach == Walk(Node)

(* Blocks that were handed to insertSlaveNode and not deleted since.        *)
Linked == {n \in Node : uin[n] # 0}

HasUin(u)  == \E n \in Reach : uin[n] = u
HasNick(k) == \E n \in Reach : nick[n] = k

------------------------------------------------------------------------------
(* ylist.c.                                                                 *)

unshiftListNode_uncounted(n) ==      \* slip: forgets length++
    /\ suc' = [suc EXCEPT ![n] = start]
    /\ pre' = [m \in Node |-> IF m = start THEN n ELSE pre[m]]
    /\ start' = n
    /\ UNCHANGED length

unshiftListNode(n) ==
    /\ suc' = [suc EXCEPT ![n] = start]
    /\ pre' = [m \in Node |-> IF m = start THEN n ELSE pre[m]]
    /\ start' = n
    /\ length' = length + 1

insertListNodeAfter_swapped(n, p) == \* slip: sets pre->suc before reading it
    /\ suc' = [suc EXCEPT ![n] = n, ![p] = n]
    /\ pre' = [pre EXCEPT ![n] = n]
    /\ length' = length + 1
    /\ UNCHANGED start

insertListNodeAfter_noBack(n, p) ==  \* slip: forgets node->suc->pre = node
    /\ suc' = [suc EXCEPT ![n] = suc[p], ![p] = n]
    /\ length' = length + 1
    /\ UNCHANGED <<start, pre>>

(* node->pre keeps the zero calloc put there.                               *)
insertListNodeAfter(n, p) ==
    /\ suc' = [suc EXCEPT ![n] = suc[p], ![p] = n]
    /\ pre' = [m \in Node |-> IF m = suc[p] THEN n ELSE pre[m]]
    /\ length' = length + 1
    /\ UNCHANGED start

deleteListNode_cutsTail(n) ==        \* slip: ends the list at the predecessor
    /\ start' = IF n = start THEN suc[n] ELSE start
    /\ suc' = [m \in Node |-> IF m \in {n, pre[n]} THEN NULL ELSE suc[m]]
    /\ pre' = [m \in Node |-> IF m \in {n, suc[n]} THEN NULL ELSE pre[m]]
    /\ length' = length - 1

(* A deleted block is leaked, never freed: nothing points to it any more,   *)
(* and it is modelled as one more block that calloc may return.             *)
deleteListNode(n) ==
    /\ IF n = start
       THEN start' = suc[n] /\ suc' = [suc EXCEPT ![n] = NULL]
       ELSE start' = start  /\ suc' = [suc EXCEPT ![pre[n]] = suc[n], ![n] = NULL]
    /\ pre' = [m \in Node |-> IF m = n THEN NULL
                              ELSE IF m = suc[n]
                                   THEN IF n = start THEN NULL ELSE pre[n]
                                   ELSE pre[m]]
    /\ length' = length - 1

------------------------------------------------------------------------------
(* slaves.c, setup.c and commands.c.                                        *)

(* The nodes whose nickname does not come after k: insertSlaveNode walks    *)
(* while strcasecmp(new, n) >= 0.                                           *)
NotAfter(k) == {n \in Linked : Fold[nick[n]] <= Fold[k]}

insertSlaveNode_atHead(n, k) ==      \* slip: does not look for the position
    unshiftListNode(n)

insertSlaveNode(n, k) ==
    LET W == NotAfter(k)
    IN  IF start \notin W
        THEN unshiftListNode(n)
        ELSE \E p \in Walk(W) : suc[p] \notin W /\ insertListNodeAfter(n, p)

AddNew_sameUin(u, k) ==              \* slip: does not look the number up
    /\ u >= MinUin
    /\ \E n \in Node \ Linked :
          /\ insertSlaveNode(n, k)
          /\ uin' = [uin EXCEPT ![n] = u]
          /\ nick' = [nick EXCEPT ![n] = k]
    /\ UNCHANGED proc

AddNew_sameNick(u, k) ==             \* slip: takes a nickname already in use
    ~HasUin(u) /\ AddNew_sameUin(u, k)

(* addSlaveToList on a number that is not in the list.  A nickname already  *)
(* taken is replaced by the number.                                         *)
AddNew(u, k) ==
    LET k1 == IF HasNick(k) THEN UinNick[u] ELSE k
    IN  /\ u >= MinUin
        /\ ~HasUin(u)
        /\ \E n \in Node \ Linked :
              /\ insertSlaveNode(n, k1)
              /\ uin' = [uin EXCEPT ![n] = u]
              /\ nick' = [nick EXCEPT ![n] = k1]
        /\ UNCHANGED proc

(* addSlaveToList on a number that is in the list: a slave of the server's  *)
(* roster (FL_DOWNLOADED) takes the server's nickname.                      *)
AddDownloaded(u, k) ==
    /\ u >= MinUin
    /\ updateNicks
    /\ \E n \in Reach : uin[n] = u /\ nick' = [nick EXCEPT ![n] = k]
    /\ UNCHANGED <<start, length, suc, pre, uin, proc>>

(* deleteSlave on a slave that a lookup returned.                           *)
DeleteSlave(n) ==
    /\ n \in Reach
    /\ IF n # start /\ pre[n] = NULL
       THEN proc' = "deleteFault" /\ UNCHANGED <<start, length, suc, pre, uin, nick>>
       ELSE /\ deleteListNode(n)
            /\ uin' = [uin EXCEPT ![n] = 0]
            /\ nick' = [nick EXCEPT ![n] = ""]
            /\ UNCHANGED proc

(* cmdRENAME: only an old name that is NOT found gets past the guards, and  *)
(* then victim is null.  The other paths print a message and change nothing.*)
Rename(old, new) ==
    /\ ~HasNick(new)
    /\ ~HasNick(old)
    /\ Fold[old] # Fold[new]
    /\ proc' = "renameFault"
    /\ UNCHANGED <<start, length, suc, pre, uin, nick>>

(* ysm_exit: freeList deletes the head while length > 0 and a node is left. *)
freeSlaveList ==
    /\ start' = NULL
    /\ length' = length - Cardinality(Reach)
    /\ suc' = [n \in Node |-> NULL]
    /\ pre' = [n \in Node |-> NULL]
    /\ uin' = [n \in Node |-> 0]
    /\ nick' = [n \in Node |-> ""]
    /\ proc' = "exited"

------------------------------------------------------------------------------
Init ==
    /\ start = NULL
    /\ length = 0
    /\ suc = [n \in Node |-> NULL]
    /\ pre = [n \in Node |-> NULL]
    /\ uin = [n \in Node |-> 0]
    /\ nick = [n \in Node |-> ""]
    /\ proc = "running"
    /\ updateNicks \in BOOLEAN

Next ==
    /\ proc = "running" /\ UNCHANGED updateNicks
    /\ \/ \E u \in Uin, k \in Nick : AddNew(u, k)
       \/ \E u \in Uin, k \in Nick : AddDownloaded(u, k)
       \/ \E n \in Node : DeleteSlave(n)
       \/ \E old, new \in Nick : Rename(old, new)
       \/ freeSlaveList

Spec == Init /\ [][Next]_vars

------------------------------------------------------------------------------
(* Properties.                                                              *)

(* A walk from start visits every slave that was added and not deleted, and *)
(* no other block: no insertion or deletion drops the tail of the list or   *)
(* leaves a deleted slave in it (slaves.c, ylist.c).                        *)
ChainComplete == Reach = Linked

(* Along suc no slave has two predecessors and the head has none, so the    *)
(* list has no cycle and every loop of slaves.c over it ends.               *)
ChainAcyclic ==
    /\ \A n \in Linked : suc[n] # start \/ suc[n] = NULL
    /\ \A m, n \in Linked : suc[m] = suc[n] => m = n \/ suc[m] = NULL

(* pre is either null or right, although insertListNodeAfter never sets it: *)
(* deleteListNode faults or unlinks the right node, and never makes another *)
(* slave's suc point past slaves that are still there.                      *)
PreNullOrRight == \A n \in Linked : pre[n] # NULL => suc[pre[n]] = n

(* list->length, which freeList trusts, counts the slaves in the chain.     *)
LengthCounts == length = Cardinality(Reach)

(* addSlaveToList never lists a number twice.                               *)
UinUnique == \A m, n \in Linked : uin[m] = uin[n] => m = n

(* Two slaves can share a nickname only if it is the number of one of them: *)
(* addSlaveToList answers a conflict with a name it does not look up again. *)
(* With updateNicks on, the server's nicknames break this as well.          *)
NickSharedOnlyByNumber ==
    ~updateNicks =>
        \A m, n \in Linked :
            nick[m] = nick[n] => m = n \/ nick[m] \in {UinNick[uin[m]], UinNick[uin[n]]}

(* insertSlaveNode "inserts ordered": the list stays sorted by nickname, as *)
(* its next insertion relies on, while no nickname is changed in place      *)
(* (updateNicks off).                                                       *)
Sorted == ~updateNicks =>
              \A n \in Linked : suc[n] # NULL => Fold[nick[n]] <= Fold[nick[suc[n]]]

(* deleteSlave never dereferences a null pre.                               *)
DeleteSafe == proc # "deleteFault"

(* What the list promises, for the refinement: a map from numbers to        *)
(* nicknames.                                                               *)
Contacts == [u \in {uin[n] : n \in Reach} |->
                nick[CHOOSE n \in Reach : uin[n] = u]]

R == INSTANCE Roster WITH contacts <- Contacts

(* Whatever happens to the pointers, the list behaves as a map from numbers *)
(* to nicknames that changes by one contact at a time until the exit.       *)
IsRoster == R!Spec
==============================================================================
