------------------------------ MODULE SlaveFile ------------------------------
(***************************************************************************)
(* The slaves file: how setup.c and slaves.c read it, add a line to it and  *)
(* take one from it, with a crash and a restart between any two steps.      *)
(* Both changes copy the file, truncate it and write it again.              *)
(*                                                                         *)
(* A line is its fields, which colons separate, and whether it ends with a  *)
(* newline; only a crash leaves a line without one.  A nickname may hold    *)
(* colons, so it is a sequence of fields itself.  The prompt thread (ctl)   *)
(* changes the file under the mutex, the network thread (net) without it.   *)
(***************************************************************************)
EXTENDS Naturals, Sequences

CONSTANTS
    Uin,          \* numbers of contacts
    Field,        \* texts between colons
    Text,         \* a number as snprintf("%d") prints it
    Atol,         \* what atol makes of a field
    Cut,          \* what may be left of a field that is not written to its end
    Hash,         \* fields that begin with '#'
    TypedNick,    \* nicknames the user adds contacts with
    RosterNick,   \* nicknames of the roster, after parseSlave
    NoNick,       \* the null pointer parseSlave leaves of an unreadable one
    Key,          \* keys the user sets
    Stored,       \* the file before the first start
    MaxCrashes,   \* crashes in a behaviour
    MaxLines,     \* bound on the lines of the file when it may grow
    Fails,        \* whether fopen and tmpfile may fail, once after a start
    Overlap       \* whether net adds contacts while ctl changes the file

MinUin  == 10000
Blank   == ""
NoKey   == Blank
Number  == DOMAIN Text

ASSUME FieldAssumption ==
    /\ Uin \subseteq Number /\ Number \subseteq Nat
    /\ \A u \in Number : Text[u] \in Field \ {NoKey} /\ Atol[Text[u]] = u
    /\ DOMAIN Atol = Field /\ DOMAIN Cut = Field /\ Hash \subseteq Field \ {NoKey}
    /\ Atol[NoKey] = 0
    /\ \A f \in Field : Cut[f] \subseteq Field /\ Atol[f] \in Number \cup {0}
    /\ TypedNick \cup RosterNick \subseteq Seq(Field) \ {<<>>}
    /\ NoKey \in Field /\ Key \subseteq Field \ {NoKey}

VARIABLES
    file,      \* the lines of the slaves file
    contacts,  \* the slaves in memory: number -> nickname and strkey
    job,       \* thread -> the change of the file it is making
    tmp,       \* thread -> the lines in its temporary file
    proc,      \* the process
    updateNicks, \* g_cfg.updateNicks
    crashes,   \* crashes so far
    known,     \* every number that was ever added or stored
    torn,      \* a crash has left a line that is not complete
    missed     \* since the last start, a file could not be opened

vars == <<file, contacts, job, tmp, proc, updateNicks, crashes, known, torn, missed>>

Thread == {"ctl", "net"}
Line == [f : Seq(Field), nl : BOOLEAN]

(* A thread that changes the file: what it is at (add, remove), of whom, and *)
(* what follows: "end", "unlink" the slave from the list, or "add" it again. *)
Idle == [at |-> "idle"]
Begin(op, u, nick, then) ==
    [at |-> "read", op |-> op, uin |-> u, nick |-> nick, then |-> then]

TypeOK ==
    /\ file \in Seq(Line)
    /\ DOMAIN contacts \subseteq Number
    /\ \A t \in Thread : job[t].at \in {"idle", "read", "truncate", "write"}
    /\ proc \in {"running", "down", "noNumberFault", "noNickFault"}
    /\ (proc # "running" => \A t \in Thread : job[t] = Idle)

------------------------------------------------------------------------------
(* Reading: readSlaves.                                                     *)

(* addSlaveToList for a slave that is not from the roster.                  *)
AddNew(list, u, nick, key) ==
    IF u < MinUin \/ u \in DOMAIN list
    THEN list
    ELSE LET taken == \E v \in DOMAIN list : list[v].nick = nick
         IN  [v \in DOMAIN list \cup {u} |->
                IF v # u THEN list[v]
                ELSE [nick |-> IF taken THEN <<Text[u]>> ELSE nick, key |-> key]]

FieldAt(l, i) == IF i \in DOMAIN l.f THEN l.f[i] ELSE Blank

(* A comment, a line without a nickname and one without a number are passed *)
(* over; what follows the third field is ignored.                           *)
readLine(list, l) ==
    IF \/ FieldAt(l, 1) \in Hash
       \/ FieldAt(l, 1) = Blank \/ FieldAt(l, 2) = Blank
    THEN list
    ELSE AddNew(list, Atol[l.f[2]], <<l.f[1]>>, FieldAt(l, 3))

readSlaves(lines) ==
    LET list[n \in 0 .. Len(lines)] ==
            IF n = 0 THEN <<>> ELSE readLine(list[n - 1], lines[n])
    IN  list[Len(lines)]

------------------------------------------------------------------------------
(* Writing: addSlaveToDisk, deleteSlaveFromDisk.                            *)

lineOf_nickOnly(nick, u) ==          \* slip: forgets the number and the colons
    [f |-> nick, nl |-> TRUE]

lineOf_short(nick, u) ==             \* slip: prints the number into a short buffer
    [f |-> nick \o <<IF Cut[Text[u]] = {} THEN Text[u]
                     ELSE CHOOSE x \in Cut[Text[u]] : TRUE, Blank, Blank>>, nl |-> TRUE]

(* "nick:uin:" and ":\n"; the key between the colons is compiled out.       *)
lineOf(nick, u) == [f |-> nick \o <<Text[u], Blank, Blank>>, nl |-> TRUE]

addLine(lines, nick, u) == <<lineOf(nick, u)>> \o lines

(* Lines that deleteSlaveFromDisk copies as they are.                       *)
Verbatim(l) == FieldAt(l, 1) \in Hash \/ l.f = <<Blank>>

(* The fields strtok finds: those with a character, as the newline is one.  *)
Shown(l) == {i \in DOMAIN l.f : l.f[i] # Blank \/ (i = Len(l.f) /\ l.nl)}

(* The next of them after a field.                                          *)
strtok(l, after) ==
    CHOOSE i \in Shown(l) : i > after /\ \A j \in Shown(l) : j > after => i <= j

auxNick(l) == strtok(l, 0)
auxUin(l)  == strtok(l, auxNick(l))

(* The second strtok finds nothing, and strlen gets a null pointer.         *)
NoNumber(l) == ~Verbatim(l) /\ \A i, j \in Shown(l) : i = j

Keeps_byNick(l, u) ==                \* slip: compares the first token
    Verbatim(l) \/ Atol[l.f[auxNick(l)]] # u

Keeps(l, u) == Verbatim(l) \/ Atol[l.f[auxUin(l)]] # u

(* What is printed of a line that is kept: both tokens and the rest.        *)
Printed(l) ==
    LET both == <<l.f[auxNick(l)], l.f[auxUin(l)]>>
        rest == SubSeq(l.f, auxUin(l) + 1, Len(l.f))
    IN  IF Verbatim(l) THEN l
        ELSE IF rest = <<>> \/ (rest = <<Blank>> /\ ~l.nl)
             THEN [f |-> Append(both, Blank), nl |-> TRUE]
             ELSE [l EXCEPT !.f = both \o rest]

removeLine(lines, u) ==
    LET copy[n \in 0 .. Len(lines)] ==
            IF n = 0 THEN <<>>
            ELSE IF Keeps(lines[n], u) THEN Append(copy[n - 1], Printed(lines[n]))
            ELSE copy[n - 1]
    IN  copy[Len(lines)]

(* What a crash leaves of a line that is being written: fields that are      *)
(* whole, and one that is cut, is whole, or has not begun.                   *)
CutLine(l) ==
    UNION {{[f |-> Append(SubSeq(l.f, 1, n - 1), x), nl |-> FALSE] :
              x \in Cut[l.f[n]] \cup {l.f[n]} \cup (IF n > 1 THEN {Blank} ELSE {})} :
           n \in DOMAIN l.f}

Partial(lines) ==
    {SubSeq(lines, 1, k) : k \in 0 .. Len(lines)} \cup
    UNION {{Append(SubSeq(lines, 1, k - 1), c) : c \in CutLine(lines[k])} : k \in DOMAIN lines}

Numbers(lines) == DOMAIN readSlaves(lines)
IsTorn(lines) == \E i \in DOMAIN lines : ~lines[i].nl

------------------------------------------------------------------------------
(* The commands and the roster.                                             *)

Running == proc = "running"
Quiet == \A t \in Thread : job[t] = Idle

MayBegin(t) == Running /\ job[t] = Idle /\ (Overlap \/ Quiet)

Starts(t, j) == job' = [job EXCEPT ![t] = j]

(* addSlave, up to its call of addSlaveToDisk.  An addition that is refused *)
(* keeps the mutex (module SlaveLock) and is left out.                      *)
addSlave(u, nick) ==
    /\ MayBegin("ctl")
    /\ Len(file) < MaxLines
    /\ u >= MinUin /\ u \notin DOMAIN contacts
    /\ contacts' = AddNew(contacts, u, nick, NoKey)
    /\ known' = known \cup {u}
    /\ Starts("ctl", Begin("add", u, contacts'[u].nick, "end"))
    /\ UNCHANGED <<file, tmp, proc, updateNicks, crashes, torn, missed>>

(* cmdDELSLAVE, up to its call of deleteSlaveFromDisk.                      *)
deleteSlave(u) ==
    /\ MayBegin("ctl")
    /\ u \in DOMAIN contacts
    /\ Starts("ctl", Begin("remove", u, contacts[u].nick, "unlink"))
    /\ UNCHANGED <<file, contacts, tmp, proc, updateNicks, crashes, known, torn, missed>>

cmdKEY_noReAdd(u, key) ==            \* slip: takes the slave from the file only
    /\ MayBegin("ctl")
    /\ Len(file) <= MaxLines
    /\ u \in DOMAIN contacts
    /\ contacts' = [contacts EXCEPT ![u].key = key]
    /\ Starts("ctl", Begin("remove", u, contacts[u].nick, "end"))
    /\ UNCHANGED <<file, tmp, proc, updateNicks, crashes, known, torn, missed>>

(* cmdKEY with a key that makeKey accepts, or without one; then updateSlave *)
(* takes the slave from the file and adds it again.                         *)
cmdKEY(u, key) ==
    /\ MayBegin("ctl")
    /\ Len(file) <= MaxLines
    /\ u \in DOMAIN contacts
    /\ key = NoKey => contacts[u].key # NoKey
    /\ contacts' = [contacts EXCEPT ![u].key = key]
    /\ Starts("ctl", Begin("remove", u, contacts[u].nick, "add"))
    /\ UNCHANGED <<file, tmp, proc, updateNicks, crashes, known, torn, missed>>

(* buddyAddSlave: the roster names a contact.                               *)
buddyAddSlave(u, nick) ==
    /\ MayBegin("net")
    /\ u >= MinUin
    /\ IF u \in DOMAIN contacts
       THEN /\ nick # NoNick /\ updateNicks
            /\ contacts' = [contacts EXCEPT ![u].nick = nick]
            /\ UNCHANGED <<job, known>>
       ELSE /\ nick # NoNick /\ Len(file) < MaxLines
            /\ contacts' = AddNew(contacts, u, nick, NoKey)
            /\ known' = known \cup {u}
            /\ Starts("net", Begin("add", u, contacts'[u].nick, "end"))
    /\ UNCHANGED <<file, tmp, proc, updateNicks, crashes, torn, missed>>

Dies(how) ==
    /\ proc' = how
    /\ contacts' = <<>>
    /\ job' = [t \in Thread |-> Idle]
    /\ tmp' = [t \in Thread |-> <<>>]

(* The nickname is compared with the others, or copied, and it is null.     *)
buddyAddSlave_null(u) ==
    /\ MayBegin("net")
    /\ u \notin DOMAIN contacts \/ updateNicks
    /\ Dies("noNickFault")
    /\ UNCHANGED <<file, updateNicks, crashes, known, torn, missed>>

------------------------------------------------------------------------------
(* The change of the file, and what follows it.                             *)

AtStep(t, where) == Running /\ job[t].at = where

Ends(t) ==
    LET u == job[t].uin
    IN  /\ CASE job[t].then = "end"    -> Starts(t, Idle) /\ UNCHANGED contacts
             [] job[t].then = "unlink" -> /\ Starts(t, Idle)
                                          /\ contacts' = [v \in DOMAIN contacts \ {u} |-> contacts[v]]
             [] job[t].then = "add"    -> /\ Starts(t, Begin("add", u, contacts[u].nick, "end"))
                                          /\ UNCHANGED contacts
        /\ tmp' = [tmp EXCEPT ![t] = <<>>]

(* fopen or tmpfile fails: the function returns and its caller goes on.     *)
FailsToOpen(t) ==
    /\ Fails /\ ~missed
    /\ AtStep(t, "read") \/ AtStep(t, "truncate")
    /\ Ends(t)
    /\ missed' = TRUE
    /\ UNCHANGED <<file, proc, updateNicks, crashes, known, torn>>

Copies(t) ==
    /\ AtStep(t, "read")
    /\ job[t].op = "remove" => \A i \in DOMAIN file : ~NoNumber(file[i])
    /\ tmp' = [tmp EXCEPT ![t] = IF job[t].op = "add"
                                 THEN addLine(file, job[t].nick, job[t].uin)
                                 ELSE removeLine(file, job[t].uin)]
    /\ job' = [job EXCEPT ![t].at = "truncate"]
    /\ UNCHANGED <<file, contacts, proc, updateNicks, crashes, known, torn, missed>>

(* deleteSlaveFromDisk meets a line without a number.                       *)
CopyFaults(t) ==
    /\ AtStep(t, "read")
    /\ job[t].op = "remove" /\ \E i \in DOMAIN file : NoNumber(file[i])
    /\ Dies("noNumberFault")
    /\ UNCHANGED <<file, updateNicks, crashes, known, torn, missed>>

Truncates(t) ==
    /\ AtStep(t, "truncate")
    /\ file' = <<>>
    /\ job' = [job EXCEPT ![t].at = "write"]
    /\ UNCHANGED <<contacts, tmp, proc, updateNicks, crashes, known, torn, missed>>

(* Both descriptors write from the beginning of the file.                   *)
Writes(t) ==
    /\ AtStep(t, "write")
    /\ file' = tmp[t] \o SubSeq(file, Len(tmp[t]) + 1, Len(file))
    /\ Ends(t)
    /\ UNCHANGED <<proc, updateNicks, crashes, known, torn, missed>>

(* The process is killed; stdio may have written a part of its buffer.      *)
Crash ==
    /\ Running /\ crashes < MaxCrashes
    /\ crashes' = crashes + 1
    /\ IF \E t \in Thread : job[t].at = "write"
       THEN \E t \in {s \in Thread : job[s].at = "write"} : file' \in Partial(tmp[t])
       ELSE UNCHANGED file
    /\ torn' = (torn \/ IsTorn(file'))
    /\ Dies("down")
    /\ UNCHANGED <<updateNicks, known, missed>>

(* initSlaves; a number that was cut is one the daemon knows from now on.   *)
Restart ==
    /\ ~Running
    /\ proc' = "running"
    /\ contacts' = readSlaves(file)
    /\ known' = known \cup DOMAIN contacts'
    /\ missed' = FALSE
    /\ UNCHANGED <<file, job, tmp, updateNicks, crashes, torn>>

------------------------------------------------------------------------------

Init ==
    /\ file = Stored
    /\ contacts = readSlaves(Stored)
    /\ job = [t \in Thread |-> Idle]
    /\ tmp = [t \in Thread |-> <<>>]
    /\ proc = "running"
    /\ updateNicks \in BOOLEAN
    /\ crashes = 0
    /\ known = Numbers(Stored)
    /\ torn = FALSE
    /\ missed = FALSE

Next ==
    \/ \E u \in Uin : \/ \E k \in TypedNick : addSlave(u, k)
                      \/ \E k \in RosterNick : buddyAddSlave(u, k)
                      \/ buddyAddSlave_null(u)
    \/ \E u \in Number : deleteSlave(u) \/ \E k \in Key \cup {NoKey} : cmdKEY(u, k)
    \/ \E t \in Thread : \/ FailsToOpen(t) \/ Copies(t) \/ CopyFaults(t)
                         \/ Truncates(t) \/ Writes(t)
    \/ Crash \/ Restart

Spec == Init /\ [][Next]_vars

------------------------------------------------------------------------------
(* What the theorems of SlaveFile_proofs suppose of the texts.              *)

(* The nicknames have no empty field, and no field but the first reads as a *)
(* contact's number; others cannot be told from the lines of other contacts. *)
PlainNick(k) ==
    /\ \A i \in DOMAIN k : k[i] # Blank
    /\ \A i \in DOMAIN k : i > 1 => Atol[k[i]] < MinUin
PlainNicks == \A k \in TypedNick \cup RosterNick : PlainNick(k)

(* The file before the first start: comments, empty lines, and lines with a *)
(* nickname and a number, all of them ended.                                *)
WellStored ==
    /\ Stored \in Seq(Line)
    /\ \A i \in DOMAIN Stored :
         LET l == Stored[i]
         IN  /\ l.nl /\ l.f # <<>>
             /\ Verbatim(l) \/ (FieldAt(l, 1) # Blank /\ FieldAt(l, 2) # Blank)

(* What a partial write leaves of a number is a number that begins like it. *)
CutNumbers ==
    /\ \A f \in Field : \A c \in Cut[f] :
         /\ c # Blank => f # Blank
         /\ Atol[c] >= MinUin => \/ Atol[c] = Atol[f]
                                 \/ /\ Atol[f] >= MinUin
                                    /\ Text[Atol[c]] \in Cut[Text[Atol[f]]]
    /\ \A t, u, v \in Number :
         Text[t] \in Cut[Text[u]] /\ Text[u] \in Cut[Text[v]] => Text[t] \in Cut[Text[v]]

------------------------------------------------------------------------------
(* Properties.                                                              *)

(* A contact that was deleted does not come back with the next start: when  *)
(* no change of the file is under way and none has failed, reading it would *)
(* give only contacts that are in memory (deleteSlave removes every line    *)
(* with the number, whatever else the lines hold).                          *)
NoneReturns ==
    Running /\ Quiet /\ ~missed => Numbers(file) \subseteq DOMAIN contacts

(* A contact that would be lost with the next start has a nickname that the *)
(* format cannot hold: one with a colon, or that begins a comment.          *)
OnlyOddNicksLost ==
    Running /\ Quiet /\ ~missed =>
        \A u \in DOMAIN contacts \ Numbers(file) :
            \E i \in DOMAIN file :
                LET l == file[i] IN
                /\ \E j \in DOMAIN l.f : l.f[j] = Text[u]
                /\ l.f[1] \in Hash \/ l.f[2] # Text[u]

(* Whatever is left of the file, it names no contact that was never known,  *)
(* but for the last one of a torn file, whose number may have lost digits.  *)
NothingInvented ==
    \A u \in Numbers(file) \ known :
        /\ torn
        /\ \E v \in known : Text[u] \in Cut[Text[v]]

(* Of all that the threads do to the file, only a torn line can make the    *)
(* search for a number to remove dereference a null pointer.                *)
FaultOnlyByTornLine == proc = "noNumberFault" => torn

(* "update the configuration file with the new key for this slave": the key *)
(* a slave has is the key it will have after a restart.                     *)
KeySurvives ==
    Running /\ Quiet /\ ~missed =>
        \A u \in DOMAIN contacts \cap Numbers(file) :
            readSlaves(file)[u].key = contacts[u].key
==============================================================================
