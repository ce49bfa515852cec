----------------------------- MODULE Presence -----------------------------
(***************************************************************************)
(* Who is online, and the messages that arrive (src/network.c,             *)
(* src/prompt.c): the daemon's own status and the privacy setting that     *)
(* makes it invisible, the statuses and clients of the contacts, the       *)
(* messages and the messages the server stored while the daemon was        *)
(* offline.  The network thread ("net") handles what the server sends, one *)
(* notice at a time; the control thread ("ctl") runs the user's commands;  *)
(* a thread of a direct connection may run networkReconnect.  g_model.status*)
(* is shared without a lock; the contacts change under the mutex.          *)
(*                                                                         *)
(* The server is external: it keeps the status and privacy setting it was  *)
(* sent, tells of each subscribed contact that comes, changes or goes, and *)
(* keeps stored messages until it is told to delete them.                  *)
(***************************************************************************)
EXTENDS Naturals, Sequences, SequencesExt, FiniteSets

CONSTANTS
    Contacts,
    Messages, SenderOf,     \* what others send, and who
    ChatMode,       \* whether the user enters the chat mode
    MaxSessions,    \* bound
    MaxChanges,     \* bound: changes of contacts' statuses
    MaxCommands,    \* bound: commands of the user
    MaxQueue        \* bound: notices under way

ASSUME FiniteAssumption == IsFiniteSet(Contacts) /\ IsFiniteSet(Messages)

VARIABLES
    status,         \* g_model.status
    st, fprint,     \* slave->status, slave->fprint
    listed,         \* the contacts in the list
    chatM, chat,    \* FL_CHATM, and the contacts with FL_CHAT
    cs,             \* per thread: changeStatus, [at, arg]
    privacyId,      \* whether g_sinfo.blprivacygroupid names the item with the setting
    hand,           \* the notice the network thread handles, or Nothing
    up,             \* g_state.connected, with a session behind it
    queue,          \* notices under way
    srvStatus, srvPrivacy, item,    \* server: our status, our setting, whether it stores one
    subs,           \* server: contacts it tells about
    real,           \* server: the contacts' statuses and clients
    stored,         \* server: messages for us while we were offline
    unsent,         \* messages not yet sent by their senders
    alive,          \* the daemon runs
    shown,          \* history: messages printed
    unread,         \* history: messages passed over for their format or type
    swallowed,      \* history: messages that came from outside the chat in chat mode
    deleted,        \* history: messages the server deleted
    overlap,        \* history: two changeStatus, or one and a login, at once, or a roster
                    \* between a setting that went nowhere and its status
    missed,         \* history: contacts that were online when a session ended, until the next notice
    rostered,       \* the roster of this session has been read
    sessions, changes, commands

own == <<status, cs, privacyId>>
contacts == <<st, fprint, listed>>
mode == <<chatM, chat>>
line == <<hand, up, queue>>
server == <<srvStatus, srvPrivacy, item, subs, real, stored>>
hist == <<shown, swallowed, unread, deleted, overlap, missed>>
counts == <<sessions, changes, commands>>
vars == <<own, contacts, mode, line, server, unsent, alive, hist, rostered, counts>>

Threads == {"net", "ctl"}
Nothing == [kind |-> "nothing"]
Idle == [at |-> "idle", arg |-> "OFFLINE"]
Off == [status |-> "OFFLINE", client |-> "none"]

\* STATUS_* and FINGERPRINT_*: "crypt" is FINGERPRINT_YSM_CLIENT_CRYPT; a
\* client YSM_BuddyUpdateStatus does not know leaves slave->fprint, unless it
\* names its capabilities, which set it ("caps").
Reals == {Off} \cup [status : {"ONLINE", "AWAY"}, client : {"crypt", "other", "caps"}]

Push(n) == queue' = Append(queue, n)
Room == Len(queue) < MaxQueue

-----------------------------------------------------------------------------
\* changeStatus: the SNAC is sent, then the privacy setting according to the
\* old and the new status, then the new one is stored.  What is sent without a
\* session is lost, and the status changes all the same.

StartChange(t, s) == cs' = [cs EXCEPT ![t] = [at |-> "send", arg |-> s]]
Overlaps(t) == overlap' = (overlap \/ \E v \in Threads \ {t} : cs[v].at # "idle")

SendStatus(t) ==
    /\ alive /\ cs[t].at = "send"
    /\ srvStatus' = IF up THEN cs[t].arg ELSE srvStatus
    /\ cs' = [cs EXCEPT ![t].at = "privacy"]
    /\ UNCHANGED <<status, privacyId, contacts, mode, line, srvPrivacy, item, subs, real, stored,
                   unsent, alive, hist, rostered, counts>>

\* The item is named by its id, which is 0 until the first roster told it: the
\* server has no such item.
sendUpdatePrivacy(setting) == srvPrivacy' = IF up /\ item /\ privacyId THEN setting ELSE srvPrivacy

SendPrivacy(t) ==
    /\ alive /\ cs[t].at = "privacy"
    /\ IF cs[t].arg = "INVISIBLE" THEN sendUpdatePrivacy(3)
       ELSE IF status = "INVISIBLE" THEN sendUpdatePrivacy(4)
       ELSE UNCHANGED srvPrivacy
    /\ cs' = [cs EXCEPT ![t].at = "store"]
    /\ UNCHANGED <<status, privacyId, contacts, mode, line, srvStatus, item, subs, real, stored,
                   unsent, alive, hist, rostered, counts>>

StoreStatus(t) ==
    /\ alive /\ cs[t].at = "store"
    /\ status' = cs[t].arg
    /\ cs' = [cs EXCEPT ![t] = Idle]
    /\ UNCHANGED <<privacyId, contacts, mode, line, server, unsent, alive, hist, rostered, counts>>

-----------------------------------------------------------------------------
\* Commands of the user.

Command == alive /\ cs["ctl"].at = "idle" /\ commands < MaxCommands /\ commands' = commands + 1

cmdSTATUS ==
    /\ Command
    /\ \E s \in {"ONLINE", "AWAY", "INVISIBLE"} : StartChange("ctl", s)
    /\ Overlaps("ctl")
    /\ UNCHANGED <<status, privacyId, contacts, mode, line, server, unsent, alive, shown, swallowed, unread,
                   deleted, missed, rostered, sessions, changes>>

\* History: a notice that its subscription or session has outlived.
Outlived(n, who) == IF n.kind = "buddy" /\ n.who \in who THEN [n EXCEPT !.fresh = FALSE] ELSE n

\* A notice of the server: a contact comes, changes or goes.  An oncoming one
\* names in its TLVs what is not the ordinary: a status other than online, the
\* mark of a client that decrypts in the connection information, capabilities.
Notice(c, to) ==
    [kind |-> "buddy", who |-> c, fresh |-> TRUE,
     sub |-> IF to = Off THEN "OFFGOING" ELSE "ONCOMING",
     tlvs |-> {to.status, to.client} \cap {"AWAY", "crypt", "caps"}]
Oncoming(c) == Notice(c, real[c])

\* YSM_SendContacts names every contact; the server tells at once of those that
\* are new to it and online.
Tell(new) == SetToSeq({Oncoming(c) : c \in {d \in new : real[d] # Off}})
SendContacts(names) ==
    IF up THEN subs' = subs \cup names /\ queue' = queue \o Tell(names \ subs)
    ELSE UNCHANGED <<subs, queue>>

cmdADDSLAVE ==
    /\ Command /\ Room
    /\ \E c \in Contacts \ listed :
           /\ listed' = listed \cup {c}
           /\ st' = [st EXCEPT ![c] = "OFFLINE"]
           /\ fprint' = [fprint EXCEPT ![c] = "none"]
           /\ missed' = missed \ {c}
           /\ chat' = chat \ {c}
           /\ SendContacts(listed')
    /\ UNCHANGED <<own, chatM, hand, up, srvStatus, srvPrivacy, item, real, stored, unsent, alive,
                   shown, swallowed, unread, deleted, overlap, rostered, sessions, changes>>

cmdDELSLAVE ==
    /\ Command
    /\ \E c \in listed :
           /\ listed' = listed \ {c}
           /\ subs' = IF up THEN subs \ {c} ELSE subs
           /\ hand' = Outlived(hand, {c})
           /\ queue' = [i \in 1 .. Len(queue) |-> Outlived(queue[i], {c})]
    /\ UNCHANGED <<own, st, fprint, mode, up, srvStatus, srvPrivacy, item, real, stored, unsent,
                   alive, hist, rostered, sessions, changes>>

\* cmdCHAT with the names of contacts, and without.
cmdCHAT ==
    /\ Command /\ ChatMode
    /\ \/ /\ \E who \in SUBSET listed : chat' = chat \cup who
          /\ chatM' = TRUE
       \/ /\ chatM
          /\ chatM' = FALSE /\ chat' = chat \ listed
    /\ UNCHANGED <<own, contacts, line, server, unsent, alive, hist, rostered, sessions, changes>>

-----------------------------------------------------------------------------
\* Sessions.  A session ends by cmdDISCONNECT or by the server, and nobody
\* touches the contacts; or by networkReconnect, which resets their statuses
\* (and nothing else) under the mutex.

Stale == {c \in listed : st[c] # "OFFLINE" \/ fprint[c] # "none"}
Ends ==
    /\ alive /\ up
    /\ up' = FALSE /\ queue' = <<>> /\ subs' = {} /\ rostered' = FALSE
    /\ srvStatus' = "OFFLINE"
    /\ hand' = Outlived(hand, Contacts)
    /\ missed' = missed \cup Stale

Disconnects ==
    /\ Ends
    /\ UNCHANGED <<own, contacts, mode, srvPrivacy, item, real, stored, unsent, alive,
                   shown, swallowed, unread, deleted, overlap, counts>>

ResetStatuses == st' = [c \in Contacts |-> IF c \in listed THEN "OFFLINE" ELSE st[c]]

networkReconnect ==
    /\ alive /\ up
    /\ ResetStatuses
    /\ up' = FALSE /\ queue' = <<>> /\ subs' = {} /\ rostered' = FALSE
    /\ srvStatus' = "OFFLINE"
    /\ hand' = Outlived(hand, Contacts)
    /\ missed' = {c \in listed : fprint[c] # "none"}
    /\ UNCHANGED <<own, fprint, listed, mode, srvPrivacy, item, real, stored, unsent, alive,
                   shown, swallowed, unread, deleted, overlap, counts>>

\* Signing in; the server answers the request for our personal information.
Connects ==
    /\ alive /\ ~up /\ hand = Nothing /\ cs["net"].at = "idle" /\ sessions < MaxSessions
    /\ up' = TRUE /\ sessions' = sessions + 1
    /\ queue' = <<[kind |-> "personal"]>>
    /\ srvStatus' = "ONLINE"
    /\ overlap' = (overlap \/ cs["ctl"].at # "idle")
    /\ UNCHANGED <<own, contacts, mode, hand, srvPrivacy, item, subs, real, stored, unsent, alive,
                   shown, swallowed, unread, deleted, missed, rostered, changes, commands>>

-----------------------------------------------------------------------------
\* The network thread takes a notice off the socket and handles it.

Takes ==
    /\ alive /\ hand = Nothing /\ cs["net"].at = "idle" /\ queue # <<>>
    /\ hand' = Head(queue) /\ queue' = Tail(queue)
    /\ UNCHANGED <<own, contacts, mode, up, server, unsent, alive, hist, rostered, counts>>

Handles(kind) == alive /\ hand.kind = kind /\ cs["net"].at = "idle"

\* YSM_STATUS_CHANGE_ACK for our first request: the contacts, our status
\* unless it is invisible, and then (Ready) CLI_READY and the requests for the
\* roster and for the stored messages.
Personal ==
    /\ Handles("personal")
    /\ SendContacts(listed)
    /\ IF status # "INVISIBLE"
       THEN StartChange("net", status) /\ Overlaps("net")
       ELSE UNCHANGED <<cs, overlap>>
    /\ hand' = [kind |-> "ready"]
    /\ UNCHANGED <<status, privacyId, contacts, mode, up, srvStatus, srvPrivacy, item, real, stored, unsent,
                   alive, shown, swallowed, unread, deleted, missed, rostered, counts>>

Ready ==
    /\ Handles("ready")
    /\ queue' = IF ~up THEN queue
                ELSE queue \o <<[kind |-> "roster", item |-> item, privacy |-> srvPrivacy]>>
                     \o SetToSeq({[kind |-> "offline", msg |-> m] : m \in stored})
                     \o <<[kind |-> "end", msgs |-> stored]>>
    /\ hand' = Nothing
    /\ UNCHANGED <<own, contacts, mode, up, server, unsent, alive, hist, rostered, counts>>

\* YSM_BuddyIncomingList: the item with the privacy setting, then YSM_SendContacts.
LeftInvisible_own(n) == n.item /\ status = "INVISIBLE"      \* slip: without the server's setting
LeftInvisible(n) == n.item /\ (n.privacy \in {2, 3} \/ status = "INVISIBLE")
Roster ==
    /\ Handles("roster")
    /\ privacyId' = (privacyId \/ hand.item)
    /\ IF LeftInvisible(hand)
       THEN StartChange("net", "INVISIBLE") /\ Overlaps("net")
       ELSE /\ UNCHANGED cs
            /\ overlap' = (overlap \/ (privacyId' # privacyId /\ cs["ctl"].at = "store"))
    /\ hand' = [kind |-> "contacts"]
    /\ UNCHANGED <<status, contacts, mode, up, queue, server, unsent, alive, shown, swallowed, unread,
                   deleted, missed, rostered, counts>>

AfterRoster ==
    /\ Handles("contacts")
    /\ SendContacts(listed)
    /\ rostered' = up /\ hand' = Nothing
    /\ UNCHANGED <<own, contacts, mode, up, srvStatus, srvPrivacy, item, real, stored, unsent,
                   alive, hist, counts>>

\* The capabilities replace the client that was known; none of them is the mark.
parseCapabilities(tlvs, known) == IF "caps" \in tlvs THEN "none" ELSE known

\* An oncoming contact whose status is not named is online.
YSM_BuddyParseStatus(tlvs) ==
    [status |-> IF "AWAY" \in tlvs THEN "AWAY" ELSE "ONLINE",
     fprint |-> IF "crypt" \in tlvs THEN "crypt" ELSE "none"]

\* A client that is not among those known leaves slave->fprint as it is; a
\* contact that goes offline loses it.
Client(says, known) == IF says.fprint = "crypt" THEN "crypt" ELSE known
UpdateStatus_early(c, says, known) ==       \* slip: takes a going contact for a change
    /\ st' = [st EXCEPT ![c] = says.status]
    /\ fprint' = [fprint EXCEPT ![c] = Client(says, known)]
UpdateStatus(c, says, known) ==
    /\ st' = [st EXCEPT ![c] = says.status]
    /\ fprint' = [fprint EXCEPT ![c] = IF says.status = "OFFLINE" THEN "none" ELSE Client(says, known)]

ChangeStatus(c) ==
    IF hand.sub = "ONCOMING"
    THEN UpdateStatus(c, YSM_BuddyParseStatus(hand.tlvs), parseCapabilities(hand.tlvs, fprint[c]))
    ELSE UpdateStatus(c, [status |-> "OFFLINE", fprint |-> "none"], fprint[c])

Buddy ==
    /\ Handles("buddy")
    /\ LET c == hand.who IN
       IF c \notin listed THEN UNCHANGED <<st, fprint, missed>>
       ELSE /\ ChangeStatus(c)
            /\ missed' = IF ~hand.fresh THEN missed \cup {c}
                         ELSE IF st'[c] # "OFFLINE" /\ fprint[c] = "crypt"
                                 /\ hand.tlvs \cap {"crypt", "caps"} = {} THEN missed
                         ELSE missed \ {c}
    /\ hand' = Nothing
    /\ UNCHANGED <<own, listed, mode, up, queue, server, unsent, alive, shown, swallowed, unread,
                   deleted, overlap, rostered, counts>>

\* displayMessage: in chat mode only the chat's contacts are printed; the kinds
\* without a case end the daemon (YSM_ERROR exits whatever its level).
Displays(m) ==
    IF chatM /\ SenderOf[m] \notin chat
    THEN swallowed' = swallowed \cup {m} /\ UNCHANGED <<shown, alive>>
    ELSE \/ shown' = shown \cup {m} /\ UNCHANGED <<swallowed, alive>>
         \/ alive' = FALSE /\ UNCHANGED <<shown, swallowed>>

\* receiveMessage, and case 0x41 of incomingMultiUse.  What becomes of the
\* formats is module Message's: some are displayed; ordinary ones of format 1,
\* and offline ones whose type is mixed with junk, are passed over; and one of
\* format 2 makes the daemon read past its bytes.
Reads(n) ==
    \/ Displays(n.msg) /\ UNCHANGED unread
    \/ unread' = unread \cup {n.msg} /\ UNCHANGED <<shown, swallowed, alive>>
    \/ n.kind = "msg" /\ alive' = FALSE /\ UNCHANGED <<shown, swallowed, unread>>

Message_falls ==            \* slip: case 0x41 falls through to 0x42
    /\ Handles("msg") \/ Handles("offline")
    /\ Reads(hand)
    /\ stored' = {} /\ deleted' = deleted \cup stored
    /\ hand' = Nothing
    /\ UNCHANGED <<own, contacts, mode, up, queue, srvStatus, srvPrivacy, item, subs, real, unsent,
                   overlap, missed, rostered, counts>>
Message ==
    /\ Handles("msg") \/ Handles("offline")
    /\ Reads(hand)
    /\ hand' = Nothing
    /\ UNCHANGED <<own, contacts, mode, up, queue, server, unsent, deleted, overlap, missed,
                   rostered, counts>>

\* Case 0x42: the stored messages are told to be deleted.
EndOfMessages ==
    /\ Handles("end")
    /\ stored' = IF up THEN stored \ hand.msgs ELSE stored
    /\ deleted' = IF up THEN deleted \cup hand.msgs ELSE deleted
    /\ hand' = Nothing
    /\ UNCHANGED <<own, contacts, mode, up, queue, srvStatus, srvPrivacy, item, subs, real, unsent,
                   alive, shown, swallowed, unread, overlap, missed, rostered, counts>>

-----------------------------------------------------------------------------
\* The server and the people behind it.

ContactChanges ==
    /\ alive /\ changes < MaxChanges /\ Room
    /\ \E c \in Contacts, to \in Reals :
           /\ to # real[c]
           /\ real[c] # Off /\ to # Off => to.client = real[c].client
           /\ real' = [real EXCEPT ![c] = to]
           /\ IF up /\ c \in subs THEN Push(Notice(c, to))
              ELSE UNCHANGED queue
    /\ changes' = changes + 1
    /\ UNCHANGED <<own, contacts, mode, hand, up, srvStatus, srvPrivacy, item, subs, stored, unsent,
                   alive, hist, rostered, sessions, commands>>

SomebodyWrites ==
    /\ alive /\ Room
    /\ \E m \in unsent :
           /\ unsent' = unsent \ {m}
           /\ IF up /\ rostered THEN Push([kind |-> "msg", msg |-> m]) /\ UNCHANGED stored
              ELSE ~up /\ stored' = stored \cup {m} /\ UNCHANGED queue
    /\ UNCHANGED <<own, contacts, mode, hand, up, srvStatus, srvPrivacy, item, subs, real, alive,
                   hist, rostered, counts>>

-----------------------------------------------------------------------------
Init ==
    /\ status \in {"ONLINE", "INVISIBLE"} /\ cs = [t \in Threads |-> Idle] /\ privacyId = FALSE
    /\ st = [c \in Contacts |-> "OFFLINE"] /\ fprint = [c \in Contacts |-> "none"]
    /\ listed = Contacts /\ chatM = FALSE /\ chat = {}
    /\ hand = Nothing /\ up = FALSE /\ queue = <<>>
    /\ srvStatus = "OFFLINE" /\ item \in BOOLEAN
    /\ srvPrivacy \in (IF item THEN {3, 4} ELSE {4}) /\ subs = {}
    /\ real \in [Contacts -> {Off, [status |-> "ONLINE", client |-> "crypt"]}] /\ stored = {}
    /\ unsent = Messages /\ alive = TRUE
    /\ shown = {} /\ swallowed = {} /\ unread = {} /\ deleted = {}
    /\ overlap = FALSE /\ missed = {} /\ rostered = FALSE
    /\ sessions = 0 /\ changes = 0 /\ commands = 0

Next ==
    \/ \E t \in Threads : SendStatus(t) \/ SendPrivacy(t) \/ StoreStatus(t)
    \/ cmdSTATUS \/ cmdADDSLAVE \/ cmdDELSLAVE \/ cmdCHAT
    \/ Disconnects \/ networkReconnect \/ Connects
    \/ Takes \/ Personal \/ Ready \/ Roster \/ AfterRoster \/ Buddy \/ Message \/ EndOfMessages
    \/ ContactChanges \/ SomebodyWrites

Spec == Init /\ [][Next]_vars

-----------------------------------------------------------------------------
Settled == alive /\ up /\ rostered /\ hand = Nothing /\ \A t \in Threads : cs[t].at = "idle"

\* Once the roster has been read, what the server tells the others is what the
\* daemon believes it tells them, and it hides the daemon exactly when that is
\* invisible, whatever was changed offline, before the roster came or in an
\* earlier session; unless two changes overlapped, or the first roster came
\* between a setting it was too late for and its status, or the server has no
\* setting to change.
OwnAgrees ==
    Settled /\ ~overlap /\ item => srvStatus = status /\ (status = "INVISIBLE" <=> srvPrivacy = 3)

\* When nothing is on its way, a contact has the status the server knows and
\* is taken for a client that decrypts only if it is one; unless it was
\* online, or known by its client, at the end of a session, and the server has not spoken of it since.
ContactsAgree ==
    Settled /\ queue = <<>> =>
        \A c \in listed \ missed :
            /\ c \in subs
            /\ st[c] = real[c].status
            /\ fprint[c] = "crypt" => real[c].client = "crypt"

\* The server deletes no stored message that the daemon has not handled, even
\* if the session ends in between: it was printed, unless it came in chat mode
\* or its type could not be made out.
StoredNotLost == deleted \subseteq shown \cup swallowed \cup unread

\* What a command's text says of the chat mode: a message from outside the chat
\* is kept for later.  It is not.
MessageKept == swallowed = {}
=============================================================================
