---------------------------------- MODULE Ssi ----------------------------------
(***************************************************************************)
(* The server-side list.  Contacts are uploaded, ignored and deleted by the *)
(* prompt thread, request by request; the network thread reads the roster   *)
(* and matches each answer with a contact by the request id it left there.  *)
(*                                                                         *)
(* A step under g_slave_list_mutex is one call of YSM_BuddyAddItem, or one  *)
(* contact of a loop; the roster is read without the mutex, item by item.   *)
(* Requests, and answers, of one connection stay in order; both are lost    *)
(* with it.  The server may refuse a contact, ask for its authorization or  *)
(* put it off; it must refuse an item whose id is taken.                    *)
(*                                                                         *)
(* Left out: the EDIT_BEGIN and EDIT_END around the requests, the group     *)
(* items with their lists of ids, and visibleId, which no command sets.     *)
(***************************************************************************)
EXTENDS Naturals, FiniteSets, Sequences, FiniteSetsExt

CONSTANTS
    Order,       \* the contacts, in the order of the list
    W,           \* request ids carry the change count modulo W (256)
    MaxSave,     \* MAX_SAVE_COUNT
    Stored,      \* what an earlier client has stored on the server
    Hasty,       \* does the user make changes before the roster has come?
    Sessions,    \* bound: how often the user signs in
    MaxChanges,  \* bound: blentries, as far as user and server drive it
    MaxPending,  \* bound: requests and answers on their way at a command
    MaxScans     \* bound: scanqueue

Slave == Range(Order)
Groups == {"none", "ysm", "other"}   \* 0, YSM_BUDDY_GROUPID and any other
Item == [type : {"slave", "ign", "inv"}, grp : Groups, id : Nat, slave : Slave]

ASSUME OrderAssumption == Order \in Seq(Slave) /\ IsInjective(Order)
ASSUME NumberAssumption ==
    /\ {W, MaxSave, Sessions, MaxPending} \subseteq Nat \ {0}
    /\ {MaxChanges, MaxScans} \subseteq Nat
ASSUME StoredAssumption ==
    Stored \subseteq Item /\ IsFiniteSet(Stored) /\ Hasty \in BOOLEAN

VARIABLES
    listed,      \* contacts in the list
    info,        \* the slave_t of each contact
    blentries,   \* g_sinfo.blentries, the change count
    scanqueue,   \* g_sinfo.scanqueue
    ctl,         \* the command that holds the mutex, and what it has yet to do
    ack,         \* contacts that an answer is yet to be applied to
    roster,      \* items of the roster not yet read
    connected, sessions,
    toServer, toClient,
    stored,      \* the items the server has
    denied       \* entries of the lists that it would not take, for no clash

contacts == <<listed, info, blentries, scanqueue>>
threads == <<ctl, ack, roster>>
network == <<connected, sessions, toServer, toClient, stored, denied>>
vars == <<contacts, threads, network>>

NoId == <<"none", 0>>
Fresh == [flags |-> {}, budId |-> 0, grpId |-> "none", ignoreId |-> 0,
          invisibleId |-> 0, reqId |-> NoId]
Idle == [job |-> "none", rest |-> <<>>, left |-> 0]
NoAck == [code |-> "ok", rest |-> {}]

Downloaded(s) == "downloaded" \in info[s].flags

TypeOK ==
    /\ listed \subseteq Slave
    /\ info \in [Slave -> [flags : SUBSET {"downloaded", "authreq", "scanned"},
                           budId : Nat, grpId : Groups, ignoreId : Nat,
                           invisibleId : Nat,
                           reqId : ({"add", "update", "remove"} \X (0 .. W - 1))
                                     \cup ({"scan"} \X Slave) \cup {NoId}]]
    /\ \A s \in Slave \ listed : info[s] = Fresh
    /\ blentries \in Nat /\ scanqueue \in Nat
    /\ ctl = Idle \/ ack.rest = {}
    /\ ctl.job \in {"ignore", "unignore"} => Head(ctl.rest) \in listed
    /\ ack.rest \subseteq listed
    /\ roster \subseteq Item /\ stored \subseteq Item
    /\ denied \subseteq Item \ stored
    /\ connected \in BOOLEAN /\ sessions \in 0 .. Sessions
    /\ ~connected => toServer = <<>> /\ toClient = <<>>

------------------------------------------------------------------------------
(* YSM_BuddyAddItem: change `s`, whose slave_t becomes `i`, and send the    *)
(* request.  With an id of 0, an addition gets a new id, which replaces the *)
(* one of the contact whatever the type.                                    *)

YSM_BuddyGenNewID == 1 + Max({0} \cup {info[s].budId : s \in listed})

ItemId(s, op, bID) ==
    IF bID # 0 THEN bID ELSE IF op = "add" THEN YSM_BuddyGenNewID ELSE info[s].budId

ReqId(op) == <<op, (blentries + 1) % W>>

Changed(s, op, bID) ==
    [info[s] EXCEPT !.reqId = ReqId(op),
                    !.budId = IF op = "add" /\ bID = 0 THEN YSM_BuddyGenNewID ELSE @]

Sends(r) == toServer' = IF connected THEN Append(toServer, r) ELSE toServer

AddItem_uncounted(s, op, type, grp, bID, i) ==   \* slip: blentries stays
    /\ info' = [info EXCEPT ![s] = i]
    /\ Sends([op |-> op, type |-> type, grp |-> grp, id |-> ItemId(s, op, bID),
              about |-> {s}, reqId |-> ReqId(op)])
    /\ UNCHANGED <<blentries, scanqueue, connected, sessions, toClient, stored, denied>>

AddItem(s, op, type, grp, bID, i) ==
    /\ blentries' = blentries + 1
    /\ info' = [info EXCEPT ![s] = i]
    /\ Sends([op |-> op, type |-> type, grp |-> grp, id |-> ItemId(s, op, bID),
              about |-> {s}, reqId |-> ReqId(op)])
    /\ UNCHANGED <<scanqueue, connected, sessions, toClient, stored, denied>>

------------------------------------------------------------------------------
(* Commands, under the mutex.                                               *)

Locks == ctl = Idle /\ ack.rest = {}

(* The roster of this connection has been read.                             *)
Synced ==
    /\ connected /\ roster = {}
    /\ \A n \in 1 .. Len(toServer) : toServer[n].op # "roster"
    /\ \A n \in 1 .. Len(toClient) : toClient[n].op # "roster"

Room == Len(toServer) + Len(toClient) < MaxPending
Quota == Room /\ blentries < MaxChanges /\ (Hasty \/ Synced)

cmdADDSLAVE(s) ==
    /\ Locks /\ s \notin listed
    /\ listed' = listed \cup {s}
    /\ UNCHANGED <<info, blentries, scanqueue, threads, network>>

(* save <nick> *)
cmdSAVE(s) ==
    /\ Locks /\ Quota /\ s \in listed /\ ~Downloaded(s)
    /\ AddItem(s, "add", "slave", "ysm", 0, Changed(s, "add", 0))
    /\ UNCHANGED <<listed, threads>>

(* save, for all contacts: a loop that a roster may run into. *)
cmdSAVE_all ==
    /\ Locks /\ Quota
    /\ ctl' = [job |-> "save", rest |-> Order, left |-> MaxSave]
    /\ UNCHANGED <<contacts, ack, roster, network>>

YSM_BuddyUploadList ==
    /\ ctl.job = "save"
    /\ IF ctl.rest = <<>> \/ ctl.left = 0
       THEN ctl' = Idle /\ UNCHANGED <<contacts, network>>
       ELSE LET s == Head(ctl.rest) IN
            IF s \in listed /\ ~Downloaded(s)
            THEN /\ AddItem(s, "add", "slave", "ysm", 0, Changed(s, "add", 0))
                 /\ ctl' = [ctl EXCEPT !.rest = Tail(@), !.left = @ - 1]
                 /\ UNCHANGED listed
            ELSE ctl' = [ctl EXCEPT !.rest = Tail(@)] /\ UNCHANGED <<contacts, network>>
    /\ UNCHANGED <<ack, roster>>

(* req <nick>: ask again for a contact that needs authorization.            *)
cmdREQ(s) ==
    /\ Locks /\ Quota /\ s \in listed /\ "authreq" \in info[s].flags
    /\ AddItem(s, "add", "slave", "other", 0,
               [Changed(s, "add", 0) EXCEPT !.flags = @ \ {"authreq"}])
    /\ UNCHANGED <<listed, threads>>

(* ignore <nick>, on and off: the ignore list, then the invisible list.     *)
cmdIGNORE_on(s) ==
    /\ Locks /\ Quota /\ s \in listed /\ Downloaded(s) /\ info[s].ignoreId = 0
    /\ AddItem(s, "add", "ign", "none", 0,
               [Changed(s, "add", 0) EXCEPT !.ignoreId = ItemId(s, "add", 0)])
    /\ ctl' = [job |-> "ignore", rest |-> <<s>>, left |-> 0]
    /\ UNCHANGED <<listed, ack, roster>>

cmdIGNORE_off_byBudId(s) ==          \* slip: removes the item of the contact
    /\ Locks /\ Quota /\ s \in listed /\ info[s].ignoreId # 0
    /\ AddItem(s, "remove", "ign", "none", info[s].budId,
               [Changed(s, "remove", info[s].budId) EXCEPT !.ignoreId = 0])
    /\ ctl' = [job |-> "unignore", rest |-> <<s>>, left |-> 0]
    /\ UNCHANGED <<listed, ack, roster>>

cmdIGNORE_off(s) ==
    /\ Locks /\ Quota /\ s \in listed /\ info[s].ignoreId # 0
    /\ AddItem(s, "remove", "ign", "none", info[s].ignoreId,
               [Changed(s, "remove", info[s].ignoreId) EXCEPT !.ignoreId = 0])
    /\ ctl' = [job |-> "unignore", rest |-> <<s>>, left |-> 0]
    /\ UNCHANGED <<listed, ack, roster>>

YSM_BuddyInvisible ==
    /\ ctl.job \in {"ignore", "unignore"}
    /\ LET s == Head(ctl.rest)
           old == info[s].invisibleId
       IN  CASE ctl.job = "ignore" /\ old = 0 ->
                  AddItem(s, "add", "inv", "none", 0,
                    [Changed(s, "add", 0) EXCEPT !.invisibleId = ItemId(s, "add", 0)])
             [] ctl.job = "unignore" /\ old # 0 ->
                  AddItem(s, "remove", "inv", "none", old,
                    [Changed(s, "remove", old) EXCEPT !.invisibleId = 0])
             [] OTHER -> UNCHANGED <<info, blentries, scanqueue, network>>
    /\ ctl' = Idle
    /\ UNCHANGED <<listed, ack, roster>>

cmdDELSLAVE(s) ==
    /\ Locks /\ s \in listed
    /\ info[s].ignoreId = 0 /\ info[s].invisibleId = 0
    /\ IF Downloaded(s)
       THEN Quota /\ AddItem(s, "remove", "slave", info[s].grpId, info[s].budId, Fresh)
       ELSE /\ info' = [info EXCEPT ![s] = Fresh]
            /\ UNCHANGED <<blentries, scanqueue, network>>
    /\ listed' = listed \ {s}
    /\ UNCHANGED threads

(* scan <nick>.  Its random request id is taken to differ from all others.  *)
YSM_War_Scan(s) ==
    /\ Locks /\ s \in listed /\ "scanned" \notin info[s].flags
    /\ Room /\ scanqueue < MaxScans
    /\ scanqueue' = scanqueue + 1
    /\ info' = [info EXCEPT ![s].flags = @ \cup {"scanned"}, ![s].reqId = <<"scan", s>>]
    /\ Sends([op |-> "scan", about |-> {s}, reqId |-> <<"scan", s>>])
    /\ UNCHANGED <<listed, blentries, threads, connected, sessions, toClient, stored, denied>>

(* A status command, or a roster that says `invisible`: takes no lock.      *)
sendUpdatePrivacy ==
    /\ Room /\ blentries < MaxChanges
    /\ blentries' = blentries + 1
    /\ Sends([op |-> "update", about |-> {}, reqId |-> ReqId("update")])
    /\ UNCHANGED <<listed, info, scanqueue, threads, connected, sessions, toClient, stored, denied>>

------------------------------------------------------------------------------
(* The network thread.                                                      *)

Reads(ops) ==
    /\ roster = {} /\ ack.rest = {}
    /\ toClient # <<>> /\ Head(toClient).op \in ops
    /\ toClient' = Tail(toClient)
    /\ UNCHANGED <<connected, sessions, toServer, stored, denied>>

YSM_BuddyIncomingList ==
    /\ Reads({"roster"})
    /\ blentries' = Cardinality(Head(toClient).items) + 1
    /\ roster' = Head(toClient).items
    /\ UNCHANGED <<listed, info, scanqueue, ctl, ack>>

(* addSlaveToList of a downloaded item.                                     *)
buddyAddSlave(i) ==
    /\ i \in roster
    /\ roster' = roster \ {i}
    /\ listed' = listed \cup {i.slave}
    /\ info' = [info EXCEPT ![i.slave] =
          [flags |-> @.flags \cup {"downloaded"}, budId |-> i.id, grpId |-> i.grp,
           ignoreId |-> IF i.type = "ign" THEN i.id ELSE @.ignoreId,
           invisibleId |-> IF i.type = "inv" THEN i.id ELSE @.invisibleId,
           reqId |-> @.reqId]]
    /\ UNCHANGED <<blentries, scanqueue, ctl, ack, network>>

Before(s, t) ==
    \E i, j \in 1 .. Len(Order) : i < j /\ Order[i] = s /\ Order[j] = t

(* The contacts with the id of the answer, up to one that is downloaded.    *)
Matched(a) ==
    LET same == {s \in listed : info[s].reqId = a.reqId}
    IN  {s \in same : \A t \in same : Downloaded(t) => Before(s, t)}

YSM_BuddyIncomingChange ==
    /\ ctl = Idle /\ Reads({"add", "update", "remove"})
    /\ ack' = [code |-> Head(toClient).code, rest |-> Matched(Head(toClient))]
    /\ UNCHANGED <<contacts, ctl, roster>>

(* YSM_BuddyIncomingChange, for the next of them.                           *)
Applies(s, again) ==
    /\ CASE ack.code = "ok" ->
              AddItem(s, "update", "group", "ysm", 0,
                [Changed(s, "update", 0) EXCEPT !.flags = @ \cup {"downloaded"}])
         [] ack.code = "again" -> again
         [] OTHER ->
              /\ info' = [info EXCEPT ![s].flags = @ \cup {"downloaded"} \cup
                            IF ack.code = "auth" THEN {"authreq"} ELSE {}]
              /\ UNCHANGED <<blentries, scanqueue, network>>
    /\ ack' = [ack EXCEPT !.rest = @ \ {s}]
    /\ UNCHANGED <<listed, ctl, roster>>

incomingChangeOf_drops ==            \* slip: a contact put off is not sent again
    \E s \in ack.rest :
        /\ \A t \in ack.rest \ {s} : Before(s, t)
        /\ Applies(s, UNCHANGED <<info, blentries, scanqueue, network>>)

incomingChangeOf ==
    \E s \in ack.rest :
        /\ \A t \in ack.rest \ {s} : Before(s, t)
        /\ Applies(s, AddItem(s, "add", "slave", "ysm", 0, Changed(s, "add", 0)))

(* A scan has its own request ids, so at most one contact has this one.     *)
incomingScanRsp ==
    /\ ctl = Idle /\ Reads({"scan"})
    /\ LET m == {s \in listed : scanqueue # 0 /\ info[s].reqId = Head(toClient).reqId}
       IN  /\ scanqueue' = scanqueue - Cardinality(m)
           /\ info' = [s \in Slave |-> IF s \in m
                         THEN [info[s] EXCEPT !.flags = @ \ {"scanned"}] ELSE info[s]]
    /\ UNCHANGED <<listed, blentries, threads>>

------------------------------------------------------------------------------
(* The session (module Session) and the server.                             *)

SignsIn ==
    /\ ~connected /\ sessions < Sessions
    /\ roster = {} /\ ack.rest = {}
    /\ connected' = TRUE /\ sessions' = sessions + 1
    /\ toServer' = <<[op |-> "roster"]>>
    /\ UNCHANGED <<contacts, threads, toClient, stored, denied>>

SessionEnds ==
    /\ connected
    /\ connected' = FALSE /\ toServer' = <<>> /\ toClient' = <<>>
    /\ UNCHANGED <<contacts, threads, sessions, stored, denied>>

Takes(op) == /\ toServer # <<>> /\ Head(toServer).op = op
             /\ toServer' = Tail(toServer)
             /\ UNCHANGED <<contacts, threads, connected, sessions>>

Answers(code) ==
    toClient' = Append(toClient, [op |-> Head(toServer).op, code |-> code,
                                  about |-> Head(toServer).about,
                                  reqId |-> Head(toServer).reqId])

Same(i, r) == i.type = r.type /\ i.grp = r.grp /\ i.id = r.id

ServerSendsRoster ==
    /\ Takes("roster")
    /\ toClient' = Append(toClient, [op |-> "roster", items |-> stored])
    /\ UNCHANGED <<stored, denied>>

Clashes(r) == \E i \in stored : \/ i.grp = r.grp /\ i.id = r.id
                                \/ i.type = r.type /\ {i.slave} = r.about

Asked(r) == {[type |-> r.type, grp |-> r.grp, id |-> r.id, slave |-> s] : s \in r.about}

ServerStores ==
    /\ Takes("add") /\ Answers("ok")
    /\ ~Clashes(Head(toServer))
    /\ stored' = stored \cup Asked(Head(toServer))
    /\ denied' = denied \ Asked(Head(toServer))

(* The client keeps the id of an entry that was refused as if it were there.*)
ServerDeclines(code) ==
    /\ Takes("add") /\ Answers(code)
    /\ Clashes(Head(toServer)) => code = "refused"
    /\ code = "again" => blentries < MaxChanges
    /\ denied' = IF Head(toServer).type = "slave" \/ Clashes(Head(toServer))
                 THEN denied ELSE denied \cup Asked(Head(toServer))
    /\ UNCHANGED stored

ServerRemoves ==
    /\ Takes("remove") /\ Answers("ok")
    /\ stored' = {i \in stored : ~Same(i, Head(toServer))}
    /\ denied' = {i \in denied : ~Same(i, Head(toServer))}

ServerAnswers ==
    /\ Takes("update") \/ Takes("scan")
    /\ Answers("ok")
    /\ UNCHANGED <<stored, denied>>

------------------------------------------------------------------------------
Init ==
    /\ listed \in SUBSET Slave
    /\ info = [s \in Slave |-> Fresh]
    /\ blentries = 0 /\ scanqueue = 0
    /\ ctl = Idle /\ ack = NoAck /\ roster = {}
    /\ connected = FALSE /\ sessions = 0
    /\ toServer = <<>> /\ toClient = <<>>
    /\ stored = Stored /\ denied = {}

Prompt == \/ cmdSAVE_all \/ sendUpdatePrivacy
          \/ \E s \in Slave :
                \/ cmdADDSLAVE(s) \/ cmdDELSLAVE(s) \/ cmdSAVE(s) \/ cmdREQ(s)
                \/ cmdIGNORE_on(s) \/ cmdIGNORE_off(s) \/ YSM_War_Scan(s)
Goes == YSM_BuddyUploadList \/ YSM_BuddyInvisible
NetThread == \/ YSM_BuddyIncomingList \/ (\E i \in roster : buddyAddSlave(i))
             \/ YSM_BuddyIncomingChange \/ incomingChangeOf \/ incomingScanRsp
Server == \/ ServerSendsRoster \/ ServerStores \/ ServerRemoves \/ ServerAnswers
          \/ \E code \in {"auth", "refused", "again"} : ServerDeclines(code)

Next == Prompt \/ Goes \/ NetThread \/ SignsIn \/ SessionEnds \/ Server

(* The threads go on with what they have begun, and a server answers while  *)
(* the connection lasts; the bound MaxChanges also ends its putting off.    *)
Spec == Init /\ [][Next]_vars
FairSpec == Spec /\ WF_vars(Goes) /\ WF_vars(NetThread) /\ WF_vars(Server)

------------------------------------------------------------------------------
(* Properties.                                                              *)

(* An answer is applied only to the contact whose upload it answers.        *)
AnswerMatches ==
    \A n \in 1 .. Len(toClient) : \A s \in listed :
       toClient[n].op # "roster" /\ toClient[n].reqId = info[s].reqId /\ ~Downloaded(s)
         => toClient[n].op \in {"add", "scan"} /\ toClient[n].about = {s}

(* Once the server has seen every request, it ignores, and hides from, the  *)
(* contacts that the client thinks it does, under the ids the client has,   *)
(* save those it would not take on a list although their ids were free.     *)
IgnoredAgrees ==
    connected /\ toServer = <<>> /\ ctl = Idle =>
       {<<i.type, i.slave, i.id>> : i \in {j \in stored \cup denied : j.type # "slave"}}
         = {<<"ign", s, info[s].ignoreId>> : s \in {t \in listed : info[t].ignoreId # 0}}
           \cup {<<"inv", s, info[s].invisibleId>> :
                   s \in {t \in listed : info[t].invisibleId # 0}}

(* An upload is settled, unless the connection is lost, the contact deleted,*)
(* or its request id taken by a scan.                                       *)
Waits(s) ==
    /\ s \in listed /\ ~Downloaded(s) /\ info[s].reqId[1] = "add"
    /\ \E n \in 1 .. Len(toServer) :
          toServer[n].op = "add" /\ toServer[n].reqId = info[s].reqId
SaveEnds ==
    \A s \in Slave : Waits(s) ~> \/ ~connected \/ s \notin listed
                                 \/ Downloaded(s) \/ info[s].reqId[1] = "scan"

(* Deleting a saved contact takes it off the server.                        *)
DeletionTakesEffect ==
    [][connected' /\ toServer # <<>> /\ toServer' = Tail(toServer)
       /\ Head(toServer).op = "remove" /\ Head(toServer).type = "slave"
         => \A i \in stored' : i.type = "slave" => {i.slave} # Head(toServer).about]_vars
================================================================================
