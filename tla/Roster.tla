------------------------------- MODULE Roster -------------------------------
(***************************************************************************)
(* What the contact list promises to its callers: a map from ICQ numbers    *)
(* to nicknames.  A contact is added, renamed or removed, one at a time;    *)
(* the whole map goes only when the program leaves.                         *)
(***************************************************************************)
CONSTANTS Uin, Nick

VARIABLES contacts, proc

rvars == <<contacts, proc>>

Others(u) == \A v \in DOMAIN contacts \ {u} :
                v \in DOMAIN contacts' /\ contacts'[v] = contacts[v]

Add(u) == /\ u \notin DOMAIN contacts
          /\ DOMAIN contacts' = DOMAIN contacts \cup {u}
          /\ contacts'[u] \in Nick
          /\ Others(u)
          /\ UNCHANGED proc

Rename(u) == /\ DOMAIN contacts' = DOMAIN contacts
             /\ contacts'[u] \in Nick
             /\ Others(u)
             /\ UNCHANGED proc

Remove(u) == /\ DOMAIN contacts' = DOMAIN contacts \ {u}
             /\ Others(u)
             /\ UNCHANGED proc

Exit == /\ DOMAIN contacts' = {}
        /\ proc' = "exited"

(* A fault kills the process and changes no contact.                        *)
Die == UNCHANGED contacts /\ proc' \in {"deleteFault", "renameFault"}

Init == DOMAIN contacts = {} /\ proc = "running"

Next == /\ proc = "running"
        /\ \/ \E u \in Uin : Add(u)
           \/ \E u \in DOMAIN contacts : Rename(u) \/ Remove(u)
           \/ Exit
           \/ Die

Spec == Init /\ [][Next]_rvars
==============================================================================
