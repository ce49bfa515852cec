------------------------------ MODULE SlaveLock ------------------------------
(***************************************************************************)
(* Who holds g_slave_list_mutex, and what the threads do to the slave list  *)
(* under it or without it.  A thread carries one pointer into the list      *)
(* (victim, slave, msg.sender) and one job: the skeleton of a handler, from *)
(* its lockSlaveList to its return.                                         *)
(*                                                                         *)
(*   use     find a slave, work on it          (most commands and packets)  *)
(*   walk    a getNextSlave loop      (YSM_SendContacts, networkReconnect,   *)
(*           incomingScanRsp, YSM_BuddyIncomingChange, w, cmdSAVE)          *)
(*   add     cmdADDSLAVE, then YSM_SendContacts                             *)
(*   delete  cmdDELSLAVE                                                    *)
(*   message receiveMessage                                                 *)
(*   roster  buddyAddSlave of a downloaded roster: takes no lock            *)
(*   poll    a getNextSlave loop that takes no lock                (dcSelect)*)
(*                                                                         *)
(* The mutex is a default one: locking it twice blocks for good.  Of the    *)
(* list only the suc pointers matter here (pre: module SlaveList); a block  *)
(* is never handed out again, since deleteListNode does not free it.        *)
(***************************************************************************)
EXTENDS Naturals, FiniteSets

CONSTANTS
    Slave,      \* blocks that hold a slave, each for one contact
    ListHead, Nil,  \* the list_t (its start is suc[ListHead]) and the null pointer
    Dc,         \* cycleThread and the threads of the direct connections
    Nobody,     \* the mutex is free
    Protected,  \* slaves in the ignore, visible or invisible list
    Clones,     \* does the user add contacts that are in the list already?
    WwpPagers,  \* do messages without TLVs arrive?
    Rosters     \* does the server send a roster?

Thread == {"ctl", "net"} \cup Dc

ASSUME PointerAssumption == ListHead \notin Slave /\ Nil \notin Slave /\ ListHead # Nil
ASSUME ThreadAssumption ==
    "ctl" \notin Dc /\ "net" \notin Dc /\ Nobody \notin Thread
ASSUME ScenarioAssumption ==
    Protected \subseteq Slave /\ {Clones, WwpPagers, Rosters} \subseteq BOOLEAN

VARIABLES
    owner,    \* who has locked g_slave_list_mutex
    suc,      \* the list
    listed,   \* slaves whose insertion is complete, and that are not deleted
    gone,     \* blocks of deleted slaves
    pc,       \* where each thread is in its job
    job,      \* the job of each thread, and the slave it is about
    cur       \* the pointer it carries

vars == <<owner, suc, listed, gone, pc, job, cur>>

Kinds(t) == CASE t = "ctl" -> {"use", "add", "delete"}
              [] t = "net" -> {"use", "message"} \cup
                              (IF Rosters THEN {"roster"} ELSE {})
              [] OTHER     -> {"use", "poll"}

Walk == [kind |-> "walk", slave |-> Nil]
Jobs(t) == {Walk} \cup [kind : Kinds(t), slave : Slave]

Inserting == {"position", "splice", "link"}
Inside == {"find", "use", "unlink", "walk", "unlock"} \cup Inserting

TypeOK ==
    /\ owner \in Thread \cup {Nobody}
    /\ suc \in [Slave \cup {ListHead} -> Slave \cup {Nil}]
    /\ listed \subseteq Slave /\ gone \subseteq Slave
    /\ pc \in [Thread -> {"idle", "lock", "poll", "polling"} \cup Inside]
    /\ DOMAIN job = Thread /\ \A t \in Thread : job[t] \in Jobs(t)
    /\ cur \in [Thread -> Slave \cup {ListHead, Nil}]
    /\ \A t \in Thread : pc[t] \in {"use", "unlink"} => cur[t] # ListHead

(* The blocks a walk from the head of the list visits.                      *)
Reach == {n \in Slave : \A S \in SUBSET Slave :
             (suc[ListHead] \in Slave => suc[ListHead] \in S)
             /\ (\A m \in S : suc[m] \in Slave => suc[m] \in S) => n \in S}

Goto(t, s) == pc' = [pc EXCEPT ![t] = s]

(* The locals of a handler end with it; what may follow is a walk.          *)
Forgets(t) == /\ job' = [job EXCEPT ![t] = Walk]
              /\ cur' = [cur EXCEPT ![t] = Nil]

------------------------------------------------------------------------------
Begins_noLock(t, j) ==               \* slip: the lockSlaveList is missing
    /\ pc[t] = "idle"
    /\ job' = [job EXCEPT ![t] = j]
    /\ j.kind = "add" => j.slave \notin gone /\ (Clones \/ j.slave \notin Reach)
    /\ Goto(t, CASE j.kind \in {"roster", "add"} -> "position"
                 [] j.kind = "poll"            -> "poll"
                 [] OTHER                      -> "find")
    /\ UNCHANGED <<owner, suc, listed, gone, cur>>

(* A command is typed, a packet arrives, or a direct connection calls.      *)
Begins(t, j) ==
    /\ pc[t] = "idle"
    /\ j.kind = "add" => j.slave \notin gone /\ (Clones \/ j.slave \notin Reach)
    /\ job' = [job EXCEPT ![t] = j]
    /\ Goto(t, CASE j.kind = "roster" -> "position"
                 [] j.kind = "poll"   -> "poll"
                 [] OTHER             -> "lock")
    /\ UNCHANGED <<owner, suc, listed, gone, cur>>

lockSlaveList(t) ==
    /\ pc[t] = "lock" /\ owner = Nobody
    /\ owner' = t
    /\ Goto(t, IF job[t].kind = "add" THEN "position" ELSE "find")
    /\ UNCHANGED <<suc, listed, gone, job, cur>>

unlockSlaveList(t) ==
    /\ pc[t] = "unlock"
    /\ owner' = Nobody
    /\ Goto(t, IF job[t].kind = "add" THEN "lock" ELSE "idle")
    /\ Forgets(t)
    /\ UNCHANGED <<suc, listed, gone>>

------------------------------------------------------------------------------
(* Handlers that look a slave up.                                           *)

getSlave_head(t) ==                  \* slip: returns the list, not NULL
    /\ pc[t] = "find" /\ job[t].kind \in {"use", "message"}
    /\ cur' = [cur EXCEPT ![t] = IF job[t].slave \in Reach THEN job[t].slave ELSE ListHead]
    /\ Goto(t, "use")
    /\ UNCHANGED <<owner, suc, listed, gone, job>>

getSlave_returns(t) ==               \* slip: the early return does not unlock
    /\ pc[t] = "find" /\ job[t].kind \in {"use", "message"}
    /\ cur' = [cur EXCEPT ![t] = IF job[t].slave \in Reach THEN job[t].slave ELSE Nil]
    /\ Goto(t, IF job[t].slave \in Reach THEN "use" ELSE "idle")
    /\ UNCHANGED <<owner, suc, listed, gone, job>>

getSlave(t) ==
    /\ pc[t] = "find" /\ job[t].kind \in {"use", "message"}
    /\ cur' = [cur EXCEPT ![t] = IF job[t].slave \in Reach THEN job[t].slave ELSE Nil]
    /\ Goto(t, IF job[t].kind = "use" /\ job[t].slave \notin Reach
               THEN "unlock" ELSE "use")
    /\ UNCHANGED <<owner, suc, listed, gone, job>>

uses(t) ==
    /\ pc[t] = "use"
    /\ Goto(t, "unlock")
    /\ UNCHANGED <<owner, suc, listed, gone, job, cur>>

(* receiveMessage with tlvCount == 0 returns without unlocking.             *)
receiveMessage_noTlvs(t) ==
    /\ pc[t] = "use" /\ job[t].kind = "message" /\ WwpPagers
    /\ Goto(t, "idle") /\ Forgets(t)
    /\ UNCHANGED <<owner, suc, listed, gone>>

------------------------------------------------------------------------------
(* Loops over the list.                                                     *)

startsWalk(t) ==
    /\ pc[t] = "find" /\ job[t].kind = "walk"
    /\ cur' = [cur EXCEPT ![t] = suc[ListHead]]
    /\ Goto(t, "walk")
    /\ UNCHANGED <<owner, suc, listed, gone, job>>

getNextSlave(t) ==
    /\ pc[t] = "walk"
    /\ IF cur[t] = Nil
       THEN Goto(t, "unlock") /\ UNCHANGED cur
       ELSE cur' = [cur EXCEPT ![t] = suc[@]] /\ UNCHANGED pc
    /\ UNCHANGED <<owner, suc, listed, gone, job>>

(* dcSelect, from one poll of the descriptors to the next.                  *)
startsPoll(t) ==
    /\ pc[t] = "poll"
    /\ cur' = [cur EXCEPT ![t] = suc[ListHead]]
    /\ Goto(t, "polling")
    /\ UNCHANGED <<owner, suc, listed, gone, job>>

dcSelect(t) ==
    /\ pc[t] = "polling"
    /\ IF cur[t] = Nil
       THEN Goto(t, "idle") /\ Forgets(t)
       ELSE cur' = [cur EXCEPT ![t] = suc[@]] /\ UNCHANGED <<pc, job>>
    /\ UNCHANGED <<owner, suc, listed, gone>>

------------------------------------------------------------------------------
(* addSlaveToList: find the place, point the new block at the rest of the   *)
(* list, and link it in.                                                    *)

insertSlaveNode(t) ==
    /\ pc[t] = "position" /\ job[t].slave \notin Reach \cup gone
    /\ \E p \in Reach \cup {ListHead} : cur' = [cur EXCEPT ![t] = p]
    /\ Goto(t, "splice")
    /\ UNCHANGED <<owner, suc, listed, gone, job>>

splices_end(t) ==                    \* slip: suc keeps the zero of calloc
    /\ pc[t] = "splice"
    /\ suc' = [suc EXCEPT ![job[t].slave] = Nil]
    /\ Goto(t, "link")
    /\ UNCHANGED <<owner, listed, gone, job, cur>>

splices_early(t) ==                  \* slip: links the block in first
    /\ pc[t] = "splice"
    /\ suc' = [suc EXCEPT ![job[t].slave] = suc[cur[t]], ![cur[t]] = job[t].slave]
    /\ Goto(t, "link")
    /\ UNCHANGED <<owner, listed, gone, job, cur>>

splices_itself(t) ==                 \* slip: reads pre->suc after setting it
    /\ pc[t] = "splice"
    /\ suc' = [suc EXCEPT ![job[t].slave] = job[t].slave]
    /\ Goto(t, "link")
    /\ UNCHANGED <<owner, listed, gone, job, cur>>

splices(t) ==
    /\ pc[t] = "splice"
    /\ suc' = [suc EXCEPT ![job[t].slave] = suc[cur[t]]]
    /\ Goto(t, "link")
    /\ UNCHANGED <<owner, listed, gone, job, cur>>

links(t) ==
    /\ pc[t] = "link"
    /\ suc' = [suc EXCEPT ![cur[t]] = job[t].slave]
    /\ listed' = listed \cup {job[t].slave}
    /\ IF job[t].kind = "add"
       THEN Goto(t, "unlock") /\ UNCHANGED <<job, cur>>
       ELSE Goto(t, "lock") /\ Forgets(t)
    /\ UNCHANGED <<owner, gone>>

(* The number is in the list already (or, to spare a second block for it,   *)
(* was in it once).  addSlave returns without unlocking, and cmdADDSLAVE    *)
(* goes on to YSM_SendContacts; a roster entry updates the slave it finds.  *)
addsClone(t) ==
    /\ pc[t] = "position" /\ job[t].slave \in Reach \cup gone
    /\ Goto(t, "lock") /\ Forgets(t)
    /\ UNCHANGED <<owner, suc, listed, gone>>

------------------------------------------------------------------------------
(* cmdDELSLAVE.                                                             *)

findsVictim(t) ==
    /\ pc[t] = "find" /\ job[t].kind = "delete"
    /\ IF job[t].slave \in Reach
       THEN job[t].slave \notin Protected /\ Goto(t, "unlink")
            /\ cur' = [cur EXCEPT ![t] = job[t].slave]
       ELSE Goto(t, "unlock") /\ UNCHANGED cur
    /\ UNCHANGED <<owner, suc, listed, gone, job>>

(* A slave in the ignore, visible or invisible list is refused, without     *)
(* unlocking.                                                               *)
refusesVictim(t) ==
    /\ pc[t] = "find" /\ job[t].kind = "delete"
    /\ job[t].slave \in Reach \cap Protected
    /\ Goto(t, "idle") /\ Forgets(t)
    /\ UNCHANGED <<owner, suc, listed, gone>>

deleteSlave(t) ==
    /\ pc[t] = "unlink"
    /\ \E p \in Reach \cup {ListHead} :
          suc[p] = cur[t] /\ suc' = [suc EXCEPT ![p] = suc[cur[t]]]
    /\ listed' = listed \ {cur[t]}
    /\ gone' = gone \cup {cur[t]}
    /\ Goto(t, "unlock")
    /\ UNCHANGED <<owner, job, cur>>

------------------------------------------------------------------------------
Init ==
    /\ owner = Nobody
    /\ suc = [n \in Slave \cup {ListHead} |-> Nil]
    /\ listed = {} /\ gone = {}
    /\ pc = [t \in Thread |-> "idle"]
    /\ job = [t \in Thread |-> Walk]
    /\ cur = [t \in Thread |-> Nil]

Step(t) == \/ lockSlaveList(t) \/ unlockSlaveList(t)
           \/ getSlave(t) \/ uses(t) \/ receiveMessage_noTlvs(t)
           \/ startsWalk(t) \/ getNextSlave(t)
           \/ startsPoll(t) \/ dcSelect(t)
           \/ insertSlaveNode(t) \/ splices(t) \/ links(t) \/ addsClone(t)
           \/ findsVictim(t) \/ refusesVictim(t) \/ deleteSlave(t)

Next == \E t \in Thread :
           Step(t) \/ \E j \in Jobs(t) : Begins(t, j)

Spec == Init /\ [][Next]_vars

(* Every thread runs.  Nothing is assumed of the mutex beyond that: which   *)
(* of several waiting threads gets it is left to the system.                *)
FairSpec == Spec /\ \A t \in Thread : WF_vars(Step(t))

------------------------------------------------------------------------------
(* Properties.                                                              *)

(* The bodies of the handlers exclude each other, even after one of them    *)
(* has left without unlocking: only the owner is inside.                    *)
OwnerInside == \A t \in Thread : pc[t] \in Inside => owner = t

(* A slave that a handler has found is still in the list when it is used.   *)
UsedIsListed ==
    \A t \in Thread : pc[t] \in {"use", "unlink"} /\ cur[t] # Nil => cur[t] \in Reach

(* A loop over the list never stands on a slave that has left it.           *)
WalksTheList ==
    \A t \in Thread : pc[t] = "walk" /\ cur[t] # Nil => cur[t] \in Reach

(* No insertion or deletion undoes another one: the list holds exactly the  *)
(* slaves that were added and not deleted.                                  *)
NoneLost == Reach = listed

(* dcSelect, which takes no lock, may stand on a slave that was deleted     *)
(* under it, but never on a block that is not a finished slave.             *)
PollSeesSlaves ==
    \A t \in Thread : pc[t] = "polling" => cur[t] \in listed \cup gone \cup {Nil}

(* A handler has left without unlocking.                                    *)
Kept == owner # Nobody /\ pc[owner] \notin Inside

(* The returns that keep the mutex are the three known ones, of addSlave,   *)
(* cmdDELSLAVE and receiveMessage: every other path of a handler unlocks.   *)
KeptByThree ==
    [][~Kept /\ Kept' => \E t \in Thread :
          addsClone(t) \/ refusesVictim(t) \/ receiveMessage_noTlvs(t)]_vars

(* Whoever owns the mutex gives it back, but for those returns: no loop over*)
(* the list goes on for ever.                                               *)
Released == \A t \in Thread : owner = t ~> owner # t \/ Kept

(* dcSelect comes to the end of the list, whatever is added or deleted.     *)
PollEnds == \A t \in Thread : pc[t] = "polling" ~> pc[t] = "idle"

(* Whoever owns the mutex gives it back, without exception.                 *)
AlwaysReleased == \A t \in Thread : owner = t ~> owner # t
==============================================================================
