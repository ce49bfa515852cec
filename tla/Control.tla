------------------------------ MODULE Control ------------------------------
(* The control connection (src/control.c) and the commands that come over it *)
(* (YSM_DoCommand, doCommand).  A client writes lines that end with CR LF,    *)
(* TCP delivers them in pieces of any size, and the prompt thread cuts them   *)
(* into lines again in a buffer of fixed size, splits each line into words    *)
(* and looks the first one up in the table of commands.                      *)
(*                                                                            *)
(* Two constants choose the scenario: EmptyLines, and Bursts, whether the     *)
(* client may have more on its way than the buffer holds.                     *)
EXTENDS Naturals, Sequences, FiniteSets, SequencesExt, FiniteSetsExt

CONSTANTS Lines,       \* what the client types, as sequences of characters
          Size,        \* sizeof(buf), 8192 in the program
          MAX_CMD_ARGS,\* places in argv, 2549 in the program
          MaxLines,    \* bound: lines on one connection
          MaxClients,  \* bound: clients, one after the other
          EmptyLines, Bursts

ASSUME SizeAssumption == Size \in Nat /\ Size > 3
ASSUME ArgsAssumption == MAX_CMD_ARGS \in Nat \ {0}
ASSUME ControlScenarioAssumption == {EmptyLines, Bursts} \subseteq BOOLEAN

VARIABLES sock,      \* "none", "open", "left" by its client, or "smashed"
          wire,      \* bytes that the client has sent and recv() has not returned
          buf,       \* the bytes between buf and end
          ptr,       \* where the scan of buf is (from 1), 0: recv() is called
          typed,     \* history: the lines of this client that are not empty
          done,      \* history: what YSM_DoCommand was called with for this client
          clients,   \* how many clients have been accepted
          reasonToSuicide

ctlVars == <<sock, wire, buf, ptr, typed, done, clients, reasonToSuicide>>

CR == "CR"
LF == "LF"
Blank == " "
LineEnd == <<CR, LF>>

(* What ends a line is not inside it. *)
ASSUME LinesAssumption ==
  \A line \in Lines :
    line \in Seq(STRING) /\ \A i \in 1..(Len(line) - 1) : ~(line[i] = CR /\ line[i + 1] = LF)

(***************************************************************************)
(* Words                                                                   *)
(***************************************************************************)
IsBlank(w) == \A i \in DOMAIN w : w[i] = Blank
Blanks(line) == {i \in DOMAIN line : line[i] = Blank}
Nth(S, j) == CHOOSE i \in S : Cardinality({k \in S : k < i}) = j - 1
Cut(line, at) ==
  LET n == Cardinality(at)
      From(j) == IF j = 1 THEN 1 ELSE Nth(at, j - 1) + 1
      To(j) == IF j > n THEN Len(line) ELSE Nth(at, j) - 1
  IN [j \in 1..(n + 1) |-> SubSeq(line, From(j), To(j))]

(* The first loop: a blank ends the argument before it, or, after another    *)
(* blank and at the start, is the first byte of the one that follows.        *)
Arguments(line) == Cut(line, {i \in Blanks(line) : i > 1 /\ line[i - 1] # Blank})

Unblanked(w) == IF IsBlank(w) THEN <<>>
                ELSE SubSeq(w, Min(DOMAIN w \ Blanks(w)), Len(w))

(* argc counts the command as well here, and is less by the blank arguments; *)
(* the command and its first argument lose their leading blanks.             *)
Parsed(line, trimmed) ==
  LET all == Arguments(line)
      argc == Cardinality({i \in DOMAIN all : ~IsBlank(all[i])})
  IN [argc |-> argc,
      argv |-> [i \in 1..argc |-> IF i <= trimmed THEN Unblanked(all[i]) ELSE all[i]]]
YSM_ParseCommand_first(line) == Parsed(line, 1)
YSM_ParseCommand(line) == Parsed(line, 2)

(***************************************************************************)
(* The table of commands, some rows of it, and the lookup                  *)
(***************************************************************************)
(* name, alias (<<>> for none) and how many arguments the command needs *)
g_command_list ==
  << [name |-> <<"q", "u">>, alias |-> <<"q">>, margs |-> 0],
     [name |-> <<"u", "p">>, alias |-> <<>>,    margs |-> 0],
     [name |-> <<"a", "d">>, alias |-> <<"a">>, margs |-> 2],
     [name |-> <<"d", "e">>, alias |-> <<"d">>, margs |-> 1] >>

Lower(w) == [i \in DOMAIN w |-> CASE w[i] = "Q" -> "q" [] w[i] = "A" -> "a" [] OTHER -> w[i]]
Names(row, w) == w # <<>> /\ Lower(w) \in {row.name, row.alias}

(* The first row that bears the name; too few arguments end the search as    *)
(* well, and then the caller says "command not found" besides.               *)
doCommand(parsed) ==
  LET first == IF parsed.argv = <<>> THEN <<>> ELSE parsed.argv[1]
      rows == {i \in DOMAIN g_command_list : Names(g_command_list[i], first)}
  IN IF rows = {} THEN <<>>
     ELSE LET row == g_command_list[CHOOSE i \in rows : \A j \in rows : i <= j]
          IN IF parsed.argc - 1 < row.margs THEN <<"missing">> ELSE row.name

(* argv stands on the stack of YSM_DoCommand, and nothing counts what is     *)
(* written to it: with more arguments, the blank ones included, what stands  *)
(* behind it is overwritten.                                                 *)
Overruns(line) == Len(Arguments(line)) > MAX_CMD_ARGS

YSM_DoCommand(line) ==
  LET parsed == YSM_ParseCommand(line)
  IN [argc |-> parsed.argc, argv |-> parsed.argv,
      outcome |-> IF Overruns(line) THEN <<"overrun">> ELSE doCommand(parsed)]

(***************************************************************************)
(* ctlTcpHandler                                                           *)
(***************************************************************************)
Quits == {line \in Lines : YSM_DoCommand(line).outcome = <<"q", "u">>}

CtlInit ==
  /\ sock = "none" /\ wire = <<>> /\ buf = <<>> /\ ptr = 0
  /\ typed = <<>> /\ done = <<>>
  /\ clients = 0
  /\ reasonToSuicide = FALSE

Connected == sock \in {"open", "left"}

Accepts ==
  /\ sock = "none" /\ ~reasonToSuicide /\ clients < MaxClients
  /\ clients' = clients + 1
  /\ sock' = "open"
  /\ wire' = <<>> /\ buf' = <<>> /\ ptr' = 0 /\ typed' = <<>> /\ done' = <<>>
  /\ UNCHANGED reasonToSuicide

(* The client. *)
Types(line) ==
  /\ sock = "open" /\ Len(typed) < MaxLines
  /\ line # <<>> \/ EmptyLines
  /\ Bursts \/ Len(buf) + Len(wire) + Len(line) + 2 < Size - 1
  /\ wire' = wire \o line \o LineEnd
  /\ typed' = IF line = <<>> THEN typed ELSE Append(typed, line)
  /\ UNCHANGED <<sock, buf, ptr, done, clients, reasonToSuicide>>

Leaves ==
  /\ sock = "open"
  /\ sock' = "left"
  /\ UNCHANGED <<wire, buf, ptr, typed, done, clients, reasonToSuicide>>

(* recv() returns some of what has come; a buffer that is full but for one   *)
(* byte is started over, lines and all.                                      *)
Receives ==
  /\ Connected /\ ptr = 0 /\ ~reasonToSuicide
  /\ \E n \in 1..Len(wire) :
       /\ Len(buf) + n <= Size
       /\ wire' = SubSeq(wire, n + 1, Len(wire))
       /\ buf' = IF Len(buf) + n = Size - 1 THEN <<>> ELSE buf \o SubSeq(wire, 1, n)
  /\ ptr' = 1
  /\ UNCHANGED <<sock, typed, done, clients, reasonToSuicide>>

(* The loop over the buffer, from ptr to the next line end or to the end.    *)
(* After a line the rest is moved to the front, and the loop's ++ leaves the *)
(* first byte of it out.  Nothing is known of a daemon whose stack has been  *)
(* overwritten, unless what stood there did not matter.                      *)
LineEnds(upTo) == {i \in ptr..(Len(buf) - upTo) : buf[i] = CR /\ buf[i + 1] = LF}
Takes(upTo, skipped) ==
  /\ Connected /\ ptr > 0
  /\ IF LineEnds(upTo) = {} THEN ptr' = 0 /\ UNCHANGED <<sock, buf, done, reasonToSuicide>>
     ELSE LET i == Min(LineEnds(upTo))
              line == SubSeq(buf, 1, i - 1)
          IN /\ buf' = SubSeq(buf, i + skipped, Len(buf))
             /\ ptr' = 2
             /\ done' = IF line = <<>> THEN done ELSE Append(done, line)
             /\ sock' \in IF Overruns(line) THEN {sock, "smashed"} ELSE {sock}
             /\ reasonToSuicide' = (reasonToSuicide \/ line \in Quits)
  /\ UNCHANGED <<wire, typed, clients>>

Scan_early == Takes(2, 2)
Scan_stays == Takes(1, 1)
Scan == Takes(1, 2)

(* The end of the stream, a buffer without room, for which recv() returns 0  *)
(* as well, or the exit.                                                     *)
Closes ==
  /\ Connected /\ ptr = 0
  /\ reasonToSuicide \/ (sock = "left" /\ wire = <<>>) \/ (Len(buf) = Size)
  /\ sock' = "none"
  /\ UNCHANGED <<wire, buf, ptr, typed, done, clients, reasonToSuicide>>

CtlNext ==
  \/ Accepts \/ Leaves \/ Receives \/ Scan \/ Closes
  \/ \E line \in Lines : Types(line)

CtlSpec == CtlInit /\ [][CtlNext]_ctlVars
CtlFairSpec == CtlSpec /\ WF_ctlVars(Accepts \/ Receives \/ Scan \/ Closes)

-----------------------------------------------------------------------------
(* Whatever the pieces the bytes come in, YSM_DoCommand is called with the   *)
(* lines that the client has typed, each once and in order (control.c:159).  *)
LinesInOrder == IsPrefix(done, typed)

(* Each line that has room in argv, where blanks at the end take a place as  *)
(* a word does, is split into its words and does what the first word names   *)
(* if there are enough others, however many blanks stand between them,       *)
(* before and after (prompt.c:84, commands.c:1813).                          *)
Ends(line) ==
  {e \in 2..(Len(line) + 1) : line[e - 1] # Blank /\ (e = Len(line) + 1 \/ line[e] = Blank)}
WordTo(line, e) ==
  SubSeq(line, Min({s \in 1..(e - 1) : \A k \in s..(e - 1) : line[k] # Blank}), e - 1)
Words(line) == [j \in 1..Cardinality(Ends(line)) |-> WordTo(line, Nth(Ends(line), j))]
Means(words) ==
  LET rows == {i \in DOMAIN g_command_list : words # <<>> /\ Names(g_command_list[i], words[1])}
  IN IF rows = {} THEN <<>>
     ELSE LET row == g_command_list[CHOOSE i \in rows : TRUE]
          IN IF Len(words) > row.margs THEN row.name ELSE <<"missing">>
HasRoom(line) ==
  Cardinality(Ends(line)) + (IF line[Len(line)] = Blank THEN 1 ELSE 0) <= MAX_CMD_ARGS
Meant(line) ==
  LET words == Words(line)
      ran == YSM_DoCommand(line)
  IN /\ ran.argc = Len(words)
     /\ \A j \in DOMAIN words : /\ Unblanked(ran.argv[j]) = words[j]
                                /\ j <= 2 => ran.argv[j] = words[j]
     /\ ran.outcome = Means(words)
MeantLines == {line \in Lines : line # <<>> /\ HasRoom(line) => Meant(line)}
WordsMeant == \A i \in DOMAIN done : done[i] \in MeantLines

(* A line that was sent is carried out, unless the client leaves or the      *)
(* daemon exits first (control.c:130).                                       *)
Answered ==
  \A n \in 1..MaxLines :
    Len(typed) >= n ~> (Len(done) >= n \/ sock # "open" \/ reasonToSuicide)
=============================================================================
