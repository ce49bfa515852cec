--------------------------- MODULE SlaveFile_proofs ---------------------------
(***************************************************************************)
(* What the slaves file holds follows what the daemon knows, for any        *)
(* contacts, texts and lines, any number of changes, crashes and restarts,  *)
(* and whatever a partial write leaves of a line.                           *)
(***************************************************************************)
EXTENDS SlaveFile, SequenceTheorems, WellFoundedInduction, TLAPS

-----------------------------------------------------------------------------
\* What a line is worth.

\* A line that is no comment begins with a nickname, and a number follows it,
\* unless it was cut.
WellFormed(l) ==
  /\ l \in Line /\ l.f # <<>>
  /\ \/ Verbatim(l) \/ Len(l.f) = 1
     \/ l.f[1] # Blank /\ (l.f[2] # Blank \/ (Len(l.f) = 2 /\ ~l.nl))

\* A line from which readSlaves makes a contact, and its number.
Read(l) == FieldAt(l, 1) \notin Hash /\ FieldAt(l, 1) # Blank /\ FieldAt(l, 2) # Blank
NumberOf(l) == Atol[l.f[2]]
Names(l, u) == Read(l) /\ NumberOf(l) = u /\ u >= MinUin

\* A line that holds the number of a contact where readSlaves does not find it.
Hides(l, u) ==
  /\ \E j \in DOMAIN l.f : l.f[j] = Text[u]
  /\ l.f[1] \in Hash \/ (Len(l.f) >= 2 /\ NumberOf(l) < MinUin)

LinesOf(lines) == {lines[i] : i \in DOMAIN lines}

-----------------------------------------------------------------------------
\* The inductive invariant.

Nick == {k \in Seq(Field) \ {<<>>} : PlainNick(k)}
Job == [at : {"read", "truncate", "write"}, op : {"add", "remove"}, uin : Number,
        nick : Nick, then : {"end", "unlink", "add"}]

IsList(list) ==
  /\ DOMAIN list \subseteq Number
  /\ \A u \in DOMAIN list : u >= MinUin /\ list[u] \in [nick : Nick, key : Field]

Types ==
  /\ file \in Seq(Line)
  /\ tmp \in [Thread -> Seq(Line)]
  /\ IsList(contacts)
  /\ job \in [Thread -> {Idle} \cup Job]
  /\ proc \in {"running", "down", "noNumberFault", "noNickFault"}
  /\ known \subseteq Number
  /\ torn \in BOOLEAN /\ missed \in BOOLEAN
  /\ DOMAIN contacts \subseteq known

\* What the threads are at: only the prompt removes, and whom it removes is
\* still in memory.
Jobs ==
  /\ proc # "running" => \A t \in Thread : job[t] = Idle
  /\ \A t \in Thread : job[t] # Idle =>
       /\ job[t].uin \in known /\ job[t].uin >= MinUin
       /\ job[t].op = "add" <=> job[t].then = "end"
       /\ job[t].op = "remove" => t = "ctl" /\ job[t].uin \in DOMAIN contacts

\* A line names a contact that is known, or what a crash has left of the number
\* of one; and until a crash, every line is one that the daemon can search.
Fine(u, numbers, cut) ==
  \/ u < MinUin \/ u \in numbers
  \/ cut /\ \E v \in numbers : Text[u] \in Cut[Text[v]]
Good(l, numbers, cut) ==
  /\ WellFormed(l)
  /\ Read(l) => Fine(NumberOf(l), numbers, cut)
  /\ ~cut => l.nl /\ ~NoNumber(l)
Lines ==
  /\ \A l \in LinesOf(file) : Good(l, known, torn)
  /\ \A t \in Thread : \A l \in LinesOf(tmp[t]) : Good(l, known, torn)
Faults == proc = "noNumberFault" => torn

\* What the file, or the copy of it that is to replace it, is compared with.
Only(lines, us) == \A l \in LinesOf(lines), u \in Number : Names(l, u) => u \in us
Each(lines, us) == \A u \in us : \E l \in LinesOf(lines) : Names(l, u) \/ Hides(l, u)

\* One change at a time: the file and its copy agree with the contacts in
\* memory, but for the one whose line is being added or removed.
Agree ==
  /\ \A s, t \in Thread : job[s] # Idle /\ job[t] # Idle => s = t
  /\ \A t \in Thread : job[t] # Idle => job[t].uin \in DOMAIN contacts
  /\ proc = "running" /\ ~missed =>
       /\ Quiet => Only(file, DOMAIN contacts) /\ Each(file, DOMAIN contacts)
       /\ \A t \in Thread :
            /\ job[t].at = "read" =>
                 Only(file, DOMAIN contacts) /\ Each(file, DOMAIN contacts \ {job[t].uin})
            /\ job[t].at \in {"truncate", "write"} /\ job[t].op = "add" =>
                 Only(tmp[t], DOMAIN contacts) /\ Each(tmp[t], DOMAIN contacts)
            /\ job[t].at \in {"truncate", "write"} /\ job[t].op = "remove" =>
                 /\ Only(tmp[t], DOMAIN contacts \ {job[t].uin})
                 /\ Each(tmp[t], DOMAIN contacts \ {job[t].uin})
            /\ job[t].at = "write" => file = <<>>

IInv == Types /\ Jobs /\ Lines /\ Faults

-----------------------------------------------------------------------------
\* Induction over the natural numbers, for sets.

LEMMA Least == ASSUME NEW T, T \subseteq Nat, T # {} PROVE \E n \in T : \A m \in T : n <= m
<1> DEFINE R == {ss \in Nat \X Nat : ss[1] < ss[2]}
<1>1. IsWellFoundedOn(R, Nat)
  BY NatLessThanWellFounded DEF OpToRel
<1>2. PICK n \in T : \A m \in T : ~(<<m, n>> \in R)
  <2> HIDE DEF R
  <2> QED
    BY <1>1, WFMin
<1>3. ASSUME NEW m \in T, m < n PROVE FALSE
  <2> DEFINE p == <<m, n>>
  <2>1. p \in Nat \X Nat /\ p[1] < p[2]
    BY <1>3
  <2>2. p \in R
    BY <2>1
  <2> QED
    BY <2>2, <1>2
<1> QED
  BY <1>3

LEMMA Induct ==
  ASSUME NEW S, 0 \in S, \A n \in Nat : n \in S => n + 1 \in S PROVE Nat \subseteq S
<1> DEFINE T == Nat \ S
<1> SUFFICES ASSUME T # {} PROVE FALSE
  OBVIOUS
<1>1. PICK n \in T : \A m \in T : n <= m
  BY Least
<1>2. n # 0 /\ n - 1 \in Nat /\ n - 1 \in S
  BY <1>1
<1> QED
  BY <1>1, <1>2

-----------------------------------------------------------------------------
\* The two loops over the lines of the file, step by step.

\* readSlaves puts one line after the other into the list.
LEMMA ReadsAlong ==
  ASSUME NEW lines \in Seq(Line)
  PROVE  \E list : /\ list[0] = <<>>
                   /\ \A n \in 1..Len(lines) : list[n] = readLine(list[n - 1], lines[n])
                   /\ readSlaves(lines) = list[Len(lines)]
<1> DEFINE Along(n, g) == g = [m \in 0..n |-> IF m = 0 THEN <<>> ELSE readLine(g[m - 1], lines[m])]
           S == {n \in Nat : \E g : Along(n, g)}
<1>1. 0 \in S
  <2> DEFINE g == [m \in 0..0 |-> <<>>]
  <2>1. Along(0, g)
    OBVIOUS
  <2> QED
    BY <2>1
<1>2. ASSUME NEW n \in Nat, n \in S PROVE n + 1 \in S
  <2>1. PICK g : Along(n, g)
    BY <1>2
  <2> DEFINE h == [m \in 0..n + 1 |-> IF m = n + 1 THEN readLine(g[n], lines[m]) ELSE g[m]]
             e == [m \in 0..n + 1 |-> IF m = 0 THEN <<>> ELSE readLine(h[m - 1], lines[m])]
  <2>2. ASSUME NEW m \in 0..n + 1 PROVE h[m] = e[m]
    <3>1. CASE m = n + 1
      BY <3>1
    <3>2. CASE m = 0
      BY <3>2, <2>1
    <3>3. CASE m \in 1..n
      <4>1. h[m - 1] = g[m - 1] /\ h[m] = g[m]
        BY <3>3
      <4> QED
        BY <4>1, <3>3, <2>1
    <3> QED
      BY <3>1, <3>2, <3>3
  <2>3. h = e
    BY <2>2
  <2>4. Along(n + 1, h)
    BY <2>3
  <2> HIDE DEF h
  <2> QED
    BY <2>4
<1>3. Len(lines) \in S
  <2> HIDE DEF S
  <2> QED
    BY <1>1, <1>2, Induct, LenProperties
<1>4. \E g : Along(Len(lines), g)
  BY <1>3
<1> DEFINE list == CHOOSE g : Along(Len(lines), g)
<1>5. Along(Len(lines), list)
  BY <1>4
<1>6. readSlaves(lines) = list[Len(lines)]
  BY DEF readSlaves
<1> HIDE DEF list
<1>7. list[0] = <<>> /\ \A n \in 1..Len(lines) : list[n] = readLine(list[n - 1], lines[n])
  BY <1>5, LenProperties
<1> QED
  BY <1>6, <1>7

\* deleteSlaveFromDisk copies one line after the other, as it is printed.
LEMMA CopiesAlong ==
  ASSUME NEW lines \in Seq(Line), NEW u
  PROVE  \E copy : /\ copy[0] = <<>>
                   /\ \A n \in 1..Len(lines) :
                        copy[n] = IF Keeps(lines[n], u) THEN Append(copy[n - 1], Printed(lines[n]))
                                  ELSE copy[n - 1]
                   /\ removeLine(lines, u) = copy[Len(lines)]
<1> DEFINE Next1(s, l) == IF Keeps(l, u) THEN Append(s, Printed(l)) ELSE s
           Along(n, g) == g = [m \in 0..n |-> IF m = 0 THEN <<>> ELSE Next1(g[m - 1], lines[m])]
           S == {n \in Nat : \E g : Along(n, g)}
<1>1. \A n, g : Along(n, g) <=> g = [m \in 0..n |->
                                      IF m = 0 THEN <<>>
                                      ELSE IF Keeps(lines[m], u) THEN Append(g[m - 1], Printed(lines[m]))
                                      ELSE g[m - 1]]
  OBVIOUS
<1> HIDE DEF Next1
<1>2. 0 \in S
  <2> DEFINE g == [m \in 0..0 |-> <<>>]
  <2>1. Along(0, g)
    OBVIOUS
  <2> QED
    BY <2>1
<1>3. ASSUME NEW n \in Nat, n \in S PROVE n + 1 \in S
  <2>1. PICK g : Along(n, g)
    BY <1>3
  <2> DEFINE h == [m \in 0..n + 1 |-> IF m = n + 1 THEN Next1(g[n], lines[m]) ELSE g[m]]
             e == [m \in 0..n + 1 |-> IF m = 0 THEN <<>> ELSE Next1(h[m - 1], lines[m])]
  <2>2. ASSUME NEW m \in 0..n + 1 PROVE h[m] = e[m]
    <3>1. CASE m = n + 1
      BY <3>1
    <3>2. CASE m = 0
      BY <3>2, <2>1
    <3>3. CASE m \in 1..n
      <4>1. h[m - 1] = g[m - 1] /\ h[m] = g[m]
        BY <3>3
      <4> QED
        BY <4>1, <3>3, <2>1
    <3> QED
      BY <3>1, <3>2, <3>3
  <2>3. h = e
    BY <2>2
  <2>4. Along(n + 1, h)
    BY <2>3
  <2> HIDE DEF h
  <2> QED
    BY <2>4
<1>4. Len(lines) \in S
  <2> HIDE DEF S
  <2> QED
    BY <1>2, <1>3, Induct, LenProperties
<1> DEFINE L == Len(lines)
<1>5. \E g : Along(L, g)
  BY <1>4
<1> HIDE DEF Along
<1> DEFINE copy == CHOOSE g : Along(L, g)
<1>6. Along(L, copy)
  BY <1>5
<1>7. removeLine(lines, u) = copy[L]
  BY <1>1 DEF removeLine
<1> HIDE DEF copy
<1>8. copy[0] = <<>> /\ \A n \in 1..L : copy[n] = Next1(copy[n - 1], lines[n])
  BY <1>6, LenProperties DEF Along
<1> QED
  BY <1>7, <1>8 DEF Next1

-----------------------------------------------------------------------------
\* What is read.

LEMMA Numeric == (\A u \in Number \cup {0} : u \in Nat) /\ \A f \in Field : Atol[f] \in Nat
<1>1. \A u \in Number \cup {0} : u \in Nat
  <2>1. Number \subseteq Nat
    BY FieldAssumption
  <2> QED
    BY <2>1
<1>2. \A f \in Field : Atol[f] \in Number \cup {0}
  BY FieldAssumption
<1> QED
  BY <1>1, <1>2

LEMMA Fields ==
  ASSUME NEW l \in Line
  PROVE  /\ l.f \in Seq(Field) /\ l.nl \in BOOLEAN /\ DOMAIN l.f = 1..Len(l.f) /\ Len(l.f) \in Nat
         /\ \A i \in DOMAIN l.f : l.f[i] \in Field /\ Atol[l.f[i]] \in Number \cup {0}
         /\ \A i \in Nat : FieldAt(l, i) \in Field
         /\ Read(l) => /\ {1, 2} \subseteq DOMAIN l.f /\ l.f[1] \notin Hash /\ l.f[1] # Blank /\ l.f[2] # Blank
                       /\ NumberOf(l) \in Number \cup {0}
<1>1. l.f \in Seq(Field) /\ l.nl \in BOOLEAN
  BY DEF Line
<1>2. DOMAIN l.f = 1..Len(l.f) /\ Len(l.f) \in Nat /\ \A i \in DOMAIN l.f : l.f[i] \in Field
  BY <1>1, LenProperties, ElementOfSeq
<1>3. \A i \in DOMAIN l.f : Atol[l.f[i]] \in Number \cup {0}
  BY <1>2, FieldAssumption
<1>4. \A i \in Nat : FieldAt(l, i) \in Field
  BY <1>2, FieldAssumption DEF FieldAt, NoKey
<1> QED
  BY <1>1, <1>2, <1>3, <1>4 DEF Read, FieldAt, NumberOf

LEMMA OneField == ASSUME NEW x \in Field, x # Blank PROVE <<x>> \in Nick
<1>1. <<x>> \in Seq(Field) \ {<<>>}
  OBVIOUS
<1>2. PlainNick(<<x>>)
  BY DEF PlainNick
<1> QED
  BY <1>1, <1>2 DEF Nick

LEMMA AddNewAdds ==
  ASSUME NEW list, IsList(list), NEW u \in Number \cup {0}, NEW k \in Nick, NEW key \in Field
  PROVE  /\ IsList(AddNew(list, u, k, key))
         /\ \A v : v \in DOMAIN AddNew(list, u, k, key) <=> v \in DOMAIN list \/ (v = u /\ v >= MinUin)
         /\ \A v \in DOMAIN list : AddNew(list, u, k, key)[v] = list[v]
<1> DEFINE new == AddNew(list, u, k, key)
           taken == \E v \in DOMAIN list : list[v].nick = k
           it == [nick |-> IF taken THEN <<Text[u]>> ELSE k, key |-> key]
<1>1. u \in Nat
  BY Numeric
<1>2. CASE u < MinUin \/ u \in DOMAIN list
  BY <1>1, <1>2 DEF AddNew, IsList, MinUin
<1>3. CASE u >= MinUin /\ u \notin DOMAIN list
  <2>1. u \in Number
    BY <1>3 DEF MinUin
  <2>2. Text[u] \in Field /\ Text[u] # Blank
    BY <2>1, FieldAssumption DEF NoKey
  <2>3. it \in [nick : Nick, key : Field]
    <3>1. <<Text[u]>> \in Nick
      BY <2>2, OneField
    <3> QED
      BY <3>1
  <2> HIDE DEF it
  <2>4. new = [v \in DOMAIN list \cup {u} |-> IF v # u THEN list[v] ELSE it]
    BY <1>1, <1>3 DEF AddNew, it, MinUin
  <2> HIDE DEF new
  <2>5. DOMAIN new = DOMAIN list \cup {u} /\ new[u] = it /\ \A v \in DOMAIN list : new[v] = list[v]
    BY <2>4, <1>3
  <2>6. IsList(new)
    BY <2>1, <2>3, <2>5, <1>3 DEF IsList
  <2> QED
    BY <2>5, <2>6, <1>3 DEF new
<1> QED
  BY <1>1, <1>2, <1>3 DEF MinUin

LEMMA LineRead ==
  ASSUME NEW list, IsList(list), NEW l \in Line
  PROVE  /\ IsList(readLine(list, l))
         /\ DOMAIN readLine(list, l) = DOMAIN list \cup {u \in Number : Names(l, u)}
<1>1. CASE ~Read(l)
  BY <1>1 DEF readLine, Read, Names
<1>2. CASE Read(l)
  <2> DEFINE n == NumberOf(l)
             k == <<l.f[1]>>
             key == FieldAt(l, 3)
  <2>1. /\ l.f[1] \in Field /\ l.f[1] # Blank /\ n \in Number \cup {0} /\ key \in Field
    BY <1>2, Fields
  <2>2. k \in Nick
    BY <2>1, OneField
  <2>3. readLine(list, l) = AddNew(list, n, k, key)
    BY <1>2 DEF readLine, Read, NumberOf
  <2>4. \A u : u = n /\ u >= MinUin <=> u \in {v \in Number : Names(l, v)}
    BY <1>2, <2>1 DEF Names, MinUin
  <2> HIDE DEF n, k, key
  <2>5. /\ IsList(AddNew(list, n, k, key))
        /\ \A v : v \in DOMAIN AddNew(list, n, k, key) <=> v \in DOMAIN list \/ (v = n /\ v >= MinUin)
    BY <2>1, <2>2, AddNewAdds
  <2> QED
    BY <2>3, <2>4, <2>5
<1> QED
  BY <1>1, <1>2

LEMMA AllRead ==
  ASSUME NEW lines \in Seq(Line)
  PROVE  /\ IsList(readSlaves(lines))
         /\ Numbers(lines) = {u \in Number : \E l \in LinesOf(lines) : Names(l, u)}
<1>1. PICK list : /\ list[0] = <<>>
                  /\ \A n \in 1..Len(lines) : list[n] = readLine(list[n - 1], lines[n])
                  /\ readSlaves(lines) = list[Len(lines)]
  BY ReadsAlong
<1> DEFINE upto(n) == {u \in Number : \E i \in 1..n : Names(lines[i], u)}
           S == {n \in Nat : n <= Len(lines) => IsList(list[n]) /\ DOMAIN list[n] = upto(n)}
<1>2. Len(lines) \in Nat /\ DOMAIN lines = 1..Len(lines) /\ \A i \in 1..Len(lines) : lines[i] \in Line
  BY LenProperties, ElementOfSeq
<1>3. 0 \in S
  <2>1. IsList(<<>>) /\ DOMAIN <<>> = {}
    BY DEF IsList
  <2>2. upto(0) = {}
    OBVIOUS
  <2> QED
    BY <2>1, <2>2, <1>1
<1>4. ASSUME NEW n \in Nat, n \in S PROVE n + 1 \in S
  <2> SUFFICES ASSUME n + 1 <= Len(lines)
               PROVE  IsList(list[n + 1]) /\ DOMAIN list[n + 1] = upto(n + 1)
    OBVIOUS
  <2>1. IsList(list[n]) /\ DOMAIN list[n] = upto(n) /\ n + 1 \in 1..Len(lines)
    BY <1>2, <1>4
  <2>2. lines[n + 1] \in Line /\ list[n + 1] = readLine(list[n], lines[n + 1])
    BY <1>1, <1>2, <2>1
  <2>3. upto(n + 1) = upto(n) \cup {u \in Number : Names(lines[n + 1], u)}
    <3>1. 1..n + 1 = 1..n \cup {n + 1}
      OBVIOUS
    <3> HIDE DEF Names
    <3> QED
      BY <3>1
  <2> HIDE DEF upto
  <2> QED
    BY <2>1, <2>2, <2>3, LineRead
<1>5. Len(lines) \in S
  <2> HIDE DEF S
  <2> QED
    BY <1>2, <1>3, <1>4, Induct
<1>6. upto(Len(lines)) = {u \in Number : \E l \in LinesOf(lines) : Names(l, u)}
  BY <1>2 DEF LinesOf
<1> HIDE DEF upto
<1> QED
  BY <1>1, <1>2, <1>5, <1>6 DEF Numbers

-----------------------------------------------------------------------------
\* What is written.

\* The tokens of a line from which deleteSlaveFromDisk reads a number.
LEMMA Tokens ==
  ASSUME NEW l, WellFormed(l), ~Verbatim(l), ~NoNumber(l)
  PROVE  auxNick(l) = 1 /\ auxUin(l) = 2 /\ Len(l.f) >= 2 /\ Read(l)
<1>1. /\ l \in Line /\ l.f # <<>> /\ l.f \in Seq(Field) /\ DOMAIN l.f = 1..Len(l.f) /\ Len(l.f) \in Nat
  BY Fields DEF WellFormed
<1>2. Len(l.f) >= 1
  BY <1>1, EmptySeq
<1>3. l.f[1] \notin Hash
  BY <1>1, <1>2 DEF Verbatim, FieldAt
<1>4. PICK i, j \in Shown(l) : i # j
  BY DEF NoNumber
<1>5. Shown(l) \subseteq 1..Len(l.f)
  BY <1>1 DEF Shown
<1>6. Len(l.f) >= 2 /\ l.f[1] # Blank /\ (l.f[2] # Blank \/ (Len(l.f) = 2 /\ ~l.nl))
  BY <1>1, <1>2, <1>4, <1>5 DEF WellFormed
<1>7. l.f[2] # Blank
  <2> SUFFICES ASSUME l.f[2] = Blank, Len(l.f) = 2, ~l.nl PROVE FALSE
    BY <1>6
  <2>1. 2 \notin Shown(l)
    BY DEF Shown
  <2> QED
    BY <1>4, <1>5, <2>1
<1>8. {1, 2} \subseteq Shown(l)
  BY <1>1, <1>6, <1>7 DEF Shown
<1>9. auxNick(l) = 1
  <2>1. 1 \in Shown(l) /\ 1 > 0 /\ \A j1 \in Shown(l) : j1 > 0 => 1 <= j1
    BY <1>5, <1>8
  <2>2. \A i1 \in Shown(l) : i1 > 0 /\ (\A j1 \in Shown(l) : j1 > 0 => i1 <= j1) => i1 = 1
    BY <1>5, <1>8
  <2> QED
    BY <2>1, <2>2 DEF auxNick, strtok
<1>10. auxUin(l) = 2
  <2>1. 2 \in Shown(l) /\ 2 > 1 /\ \A j1 \in Shown(l) : j1 > 1 => 2 <= j1
    BY <1>5, <1>8
  <2>2. \A i1 \in Shown(l) : i1 > 1 /\ (\A j1 \in Shown(l) : j1 > 1 => i1 <= j1) => i1 = 2
    BY <1>5, <1>8
  <2> QED
    BY <1>9, <2>1, <2>2 DEF auxUin, strtok
<1>11. Read(l)
  BY <1>1, <1>3, <1>6, <1>7 DEF Read, FieldAt
<1> QED
  BY <1>6, <1>9, <1>10, <1>11

LEMMA CommentsUnread == ASSUME NEW l \in Line, Verbatim(l) PROVE ~Read(l)
  BY Fields DEF Verbatim, Read, FieldAt

\* A line that is shown with two tokens.
LEMMA TwoTokens ==
  ASSUME NEW l \in Line, Len(l.f) >= 2, l.f[1] # Blank, l.f[2] # Blank
  PROVE  WellFormed(l) /\ ~NoNumber(l)
<1>1. {1, 2} \subseteq Shown(l)
  BY Fields DEF Shown
<1>2. l.f # <<>>
  BY EmptySeq
<1> QED
  BY <1>1, <1>2 DEF WellFormed, NoNumber

LEMMA ThreeFields ==
  ASSUME NEW a \in Field, NEW b \in Field, NEW c \in Field
  PROVE  LET f == Append(<<a, b>>, c) IN
         f \in Seq(Field) /\ Len(f) = 3 /\ f[1] = a /\ f[2] = b /\ f[3] = c
  OBVIOUS

LEMMA NoThird ==
  ASSUME NEW f \in Seq(Field), NEW rest \in Seq(Field), Len(rest) + 2 = Len(f),
         \A i \in 1..Len(rest) : rest[i] = f[i + 2],
         rest = <<>> \/ rest = <<Blank>>,
         NEW j \in DOMAIN f, f[j] # Blank
  PROVE  j \in {1, 2}
<1>1. Len(f) \in Nat /\ j \in 1..Len(f)
  BY LenProperties
<1>2. CASE rest = <<>>
  BY <1>1, <1>2, EmptySeq
<1>3. CASE rest = <<Blank>>
  <2>1. Len(rest) = 1 /\ rest[1] = Blank
    BY <1>3
  <2>2. Len(f) = 3
    BY <1>1, <2>1
  <2>3. f[1 + 2] = Blank
    BY <2>1, <2>2
  <2> QED
    BY <1>1, <2>2, <2>3
<1> QED
  BY <1>2, <1>3

\* What is printed of a line says the same.
LEMMA PrintedSame ==
  ASSUME NEW l, WellFormed(l), ~NoNumber(l)
  PROVE  LET p == Printed(l) IN
         /\ WellFormed(p) /\ ~NoNumber(p) /\ (l.nl => p.nl)
         /\ Read(p) <=> Read(l)
         /\ Read(l) => NumberOf(p) = NumberOf(l)
         /\ \A u \in Number : Hides(l, u) => Hides(p, u)
<1> DEFINE p == Printed(l)
<1>1. CASE Verbatim(l)
  BY <1>1 DEF Printed
<1>2. CASE ~Verbatim(l)
  <2>1. auxNick(l) = 1 /\ auxUin(l) = 2 /\ Len(l.f) >= 2 /\ Read(l)
    BY <1>2, Tokens
  <2>2. /\ l \in Line /\ l.f \in Seq(Field) /\ DOMAIN l.f = 1..Len(l.f) /\ Len(l.f) \in Nat
        /\ l.f[1] \in Field /\ l.f[2] \in Field /\ l.f[1] \notin Hash /\ l.f[1] # Blank /\ l.f[2] # Blank
        /\ l.nl \in BOOLEAN
    BY <2>1, Fields DEF WellFormed
  <2> DEFINE both == <<l.f[1], l.f[2]>>
             rest == SubSeq(l.f, 3, Len(l.f))
  <2>3. /\ rest \in Seq(Field) /\ Len(rest) = Len(l.f) - 2
        /\ \A i \in 1..Len(l.f) - 2 : rest[i] = l.f[i + 2]
    BY <2>1, <2>2, SubSeqProperties
  <2>7. Len(rest) + 2 = Len(l.f) /\ \A i \in 1..Len(rest) : rest[i] = l.f[i + 2]
    BY <2>1, <2>2, <2>3
  <2>4. p = IF rest = <<>> \/ (rest = <<Blank>> /\ ~l.nl)
            THEN [f |-> Append(both, Blank), nl |-> TRUE]
            ELSE [l EXCEPT !.f = both \o rest]
    BY <1>2, <2>1 DEF Printed
  <2>5. CASE rest = <<>> \/ (rest = <<Blank>> /\ ~l.nl)
    <3>1. p = [f |-> Append(both, Blank), nl |-> TRUE]
      <4> HIDE DEF p, both, rest
      <4> QED
        BY <2>4, <2>5
    <3>2. Blank \in Field
      BY FieldAssumption DEF NoKey
    <3>3. p \in Line /\ Len(p.f) = 3 /\ p.f[1] = l.f[1] /\ p.f[2] = l.f[2] /\ p.f[3] = Blank /\ p.nl
      <4>1. p.f = Append(<<l.f[1], l.f[2]>>, Blank) /\ p.nl /\ (p \in Line <=> p.f \in Seq(Field))
        BY <3>1 DEF Line
      <4> HIDE DEF p
      <4> QED
        BY <2>2, <3>2, <4>1, ThreeFields
    <3> HIDE DEF p
    <3>4. DOMAIN p.f = 1..3
      BY <3>3, Fields
    <3>5. WellFormed(p) /\ ~NoNumber(p)
      BY <2>2, <3>3, TwoTokens
    <3>6. Read(p) /\ NumberOf(p) = NumberOf(l)
      BY <2>2, <3>3, <3>4 DEF Read, FieldAt, NumberOf
    <3>7. ASSUME NEW u \in Number, Hides(l, u) PROVE Hides(p, u)
      <4>1. PICK j \in DOMAIN l.f : l.f[j] = Text[u]
        BY <3>7 DEF Hides
      <4>2. Text[u] # Blank
        BY FieldAssumption DEF NoKey
      <4>3. j \in {1, 2}
        <5> HIDE DEF rest
        <5> QED
          BY <2>2, <2>3, <2>5, <2>7, <4>1, <4>2, NoThird
      <4> QED
        BY <2>2, <3>3, <3>4, <3>7, <4>1, <4>3 DEF Hides, NumberOf
    <3> QED
      BY <2>1, <3>3, <3>5, <3>6, <3>7 DEF p
  <2>6. CASE ~(rest = <<>> \/ (rest = <<Blank>> /\ ~l.nl))
    <3>1. both \o rest = l.f
      <4>1. both \in Seq(Field) /\ Len(both) = 2
        BY <2>2
      <4>2. /\ both \o rest \in Seq(Field) /\ Len(both \o rest) = Len(l.f)
            /\ \A i \in 1..Len(l.f) : (both \o rest)[i] = IF i <= 2 THEN both[i] ELSE rest[i - 2]
        BY <4>1, <2>1, <2>2, <2>3, ConcatProperties
      <4>3. \A i \in 1..Len(l.f) : (both \o rest)[i] = l.f[i]
        BY <4>2, <2>2, <2>3
      <4> HIDE DEF both, rest
      <4> QED
        BY <4>2, <4>3, <2>2, SeqEqual
    <3>2. p = l
      BY <2>2, <2>4, <2>6, <3>1 DEF Line
    <3> QED
      BY <3>2
  <2> QED
    BY <2>5, <2>6
<1> QED
  BY <1>1, <1>2

\* Only the lines with the number are taken out.
LEMMA KeepsOthers ==
  ASSUME NEW l, WellFormed(l), ~NoNumber(l), NEW u
  PROVE  Keeps(l, u) <=> ~(Read(l) /\ NumberOf(l) = u)
<1>1. CASE Verbatim(l)
  BY <1>1, CommentsUnread DEF Keeps, WellFormed
<1>2. CASE ~Verbatim(l)
  BY <1>2, Tokens DEF Keeps, NumberOf
<1> QED
  BY <1>1, <1>2

LEMMA Removed ==
  ASSUME NEW lines \in Seq(Line), NEW u, \A l \in LinesOf(lines) : Printed(l) \in Line
  PROVE  /\ removeLine(lines, u) \in Seq(Line)
         /\ \A p : p \in LinesOf(removeLine(lines, u)) <=>
                     \E l \in LinesOf(lines) : Keeps(l, u) /\ p = Printed(l)
<1>1. PICK copy : /\ copy[0] = <<>>
                  /\ \A n \in 1..Len(lines) :
                       copy[n] = IF Keeps(lines[n], u) THEN Append(copy[n - 1], Printed(lines[n]))
                                 ELSE copy[n - 1]
                  /\ removeLine(lines, u) = copy[Len(lines)]
  BY CopiesAlong
<1>2. Len(lines) \in Nat /\ DOMAIN lines = 1..Len(lines)
  BY LenProperties
<1>3. \A i \in 1..Len(lines) : Printed(lines[i]) \in Line
  BY <1>2 DEF LinesOf
<1> DEFINE Copied(n) == /\ copy[n] \in Seq(Line)
                        /\ \A p : p \in LinesOf(copy[n]) <=>
                                    \E i \in 1..n : Keeps(lines[i], u) /\ p = Printed(lines[i])
           S == {n \in Nat : n <= Len(lines) => Copied(n)}
<1>4. 0 \in S
  <2>1. copy[0] \in Seq(Line) /\ LinesOf(copy[0]) = {}
    BY <1>1 DEF LinesOf
  <2> QED
    BY <2>1
<1>5. ASSUME NEW n \in Nat, n \in S PROVE n + 1 \in S
  <2> SUFFICES ASSUME n + 1 <= Len(lines) PROVE Copied(n + 1)
    OBVIOUS
  <2>1. Copied(n) /\ n + 1 \in 1..Len(lines)
    BY <1>2, <1>5
  <2>2. copy[n + 1] = IF Keeps(lines[n + 1], u) THEN Append(copy[n], Printed(lines[n + 1])) ELSE copy[n]
    BY <1>1, <2>1
  <2>3. \A i : i \in 1..n + 1 <=> i \in 1..n \/ i = n + 1
    OBVIOUS
  <2>4. CASE ~Keeps(lines[n + 1], u)
    BY <2>1, <2>2, <2>3, <2>4
  <2>5. CASE Keeps(lines[n + 1], u)
    <3> DEFINE s == copy[n]
               e == Printed(lines[n + 1])
    <3>1. copy[n + 1] = Append(s, e) /\ s \in Seq(Line) /\ e \in Line
      BY <2>1, <2>2, <2>5, <1>3
    <3>2. \A p : p \in LinesOf(Append(s, e)) <=> p \in LinesOf(s) \/ p = e
      <4> HIDE DEF s, e
      <4>1. /\ Len(Append(s, e)) = Len(s) + 1 /\ Len(s) \in Nat
            /\ DOMAIN Append(s, e) = 1..Len(s) + 1 /\ DOMAIN s = 1..Len(s)
            /\ \A i \in 1..Len(s) : Append(s, e)[i] = s[i]
            /\ Append(s, e)[Len(s) + 1] = e
        BY <3>1, AppendProperties, LenProperties
      <4> QED
        BY <4>1 DEF LinesOf
    <3>3. Append(s, e) \in Seq(Line)
      BY <3>1, AppendProperties
    <3>4. \A p : p \in LinesOf(s) <=> \E i \in 1..n : Keeps(lines[i], u) /\ p = Printed(lines[i])
      BY <2>1
    <3> HIDE DEF s
    <3> QED
      BY <3>1, <3>2, <3>3, <3>4, <2>3, <2>5
  <2> QED
    BY <2>4, <2>5
<1>6. Copied(Len(lines))
  <2>1. Len(lines) \in S
    <3> HIDE DEF S
    <3> QED
      BY <1>2, <1>4, <1>5, Induct
  <2> QED
    BY <2>1
<1>7. \A p : (\E i \in 1..Len(lines) : Keeps(lines[i], u) /\ p = Printed(lines[i])) <=>
             \E l \in LinesOf(lines) : Keeps(l, u) /\ p = Printed(l)
  BY <1>2 DEF LinesOf
<1> QED
  BY <1>1, <1>6, <1>7

\* The line of an added contact: it names the contact, or hides its number
\* behind a nickname with a colon or in a comment.
LEMMA LineAdded ==
  ASSUME NEW k \in Nick, NEW u \in Number, u >= MinUin
  PROVE  LET l == lineOf(k, u) IN
         /\ WellFormed(l) /\ ~NoNumber(l) /\ l.nl
         /\ Read(l) => NumberOf(l) = u \/ NumberOf(l) < MinUin
         /\ Names(l, u) \/ Hides(l, u)
<1> DEFINE l == lineOf(k, u)
           tail == <<Text[u], Blank, Blank>>
<1>1. Text[u] \in Field /\ Text[u] # Blank /\ Atol[Text[u]] = u /\ Blank \in Field
  BY FieldAssumption DEF NoKey
<1>2. /\ k \in Seq(Field) /\ Len(k) \in Nat /\ Len(k) >= 1 /\ DOMAIN k = 1..Len(k)
      /\ \A i \in 1..Len(k) : k[i] # Blank
      /\ \A i \in 1..Len(k) : i > 1 => Atol[k[i]] < MinUin
  BY LenProperties, EmptySeq DEF Nick, PlainNick
<1>3. tail \in Seq(Field) /\ Len(tail) = 3 /\ tail[1] = Text[u]
  BY <1>1
<1>4. /\ k \o tail \in Seq(Field) /\ Len(k \o tail) = Len(k) + 3
      /\ \A i \in 1..Len(k) + 3 : (k \o tail)[i] = IF i <= Len(k) THEN k[i] ELSE tail[i - Len(k)]
  <2> HIDE DEF tail
  <2>1. /\ k \o tail \in Seq(Field) /\ Len(k \o tail) = Len(k) + Len(tail)
        /\ \A i \in 1..Len(k) + Len(tail) :
             (k \o tail)[i] = IF i <= Len(k) THEN k[i] ELSE tail[i - Len(k)]
    BY <1>2, <1>3, ConcatProperties
  <2> QED
    BY <2>1, <1>3
<1>5. l = [f |-> k \o tail, nl |-> TRUE]
  BY DEF lineOf
<1> HIDE DEF l, tail
<1>6. /\ l \in Line /\ l.nl /\ Len(l.f) = Len(k) + 3 /\ DOMAIN l.f = 1..Len(k) + 3
      /\ \A i \in 1..Len(k) : l.f[i] = k[i]
      /\ l.f[Len(k) + 1] = Text[u]
  BY <1>2, <1>3, <1>4, <1>5, LenProperties DEF Line
<1>7. l.f[1] # Blank /\ l.f[2] # Blank
  <2>1. 1 \in 1..Len(k) /\ (2 \in 1..Len(k) \/ 2 = Len(k) + 1)
    BY <1>2
  <2> QED
    BY <2>1, <1>1, <1>2, <1>6
<1>8. WellFormed(l) /\ ~NoNumber(l)
  BY <1>2, <1>6, <1>7, TwoTokens
<1>9. CASE Len(k) = 1
  <2>1. l.f[2] = Text[u] /\ NumberOf(l) = u
    BY <1>1, <1>6, <1>9 DEF NumberOf
  <2>2. l.f[1] \notin Hash => Read(l)
    BY <1>6, <1>7, <1>9 DEF Read, FieldAt
  <2>3. l.f[1] \in Hash => Hides(l, u)
    BY <1>6, <1>9 DEF Hides
  <2> QED
    BY <1>6, <1>8, <2>1, <2>2, <2>3 DEF l, Names
<1>10. CASE Len(k) > 1
  <2>1. 2 \in 1..Len(k) /\ Len(k) + 1 \in DOMAIN l.f /\ Len(l.f) >= 2
    BY <1>2, <1>6, <1>10
  <2>2. NumberOf(l) < MinUin
    BY <2>1, <1>2, <1>6 DEF NumberOf
  <2>3. Hides(l, u)
    BY <2>1, <2>2, <1>6 DEF Hides
  <2> QED
    BY <1>6, <1>8, <2>2, <2>3 DEF l
<1> QED
  BY <1>2, <1>9, <1>10

\* What a crash leaves of the line that is being written.
LEMMA LineCut ==
  ASSUME CutNumbers, NEW l, WellFormed(l), NEW c \in CutLine(l)
  PROVE  /\ WellFormed(c) /\ ~c.nl
         /\ Read(c) => /\ Read(l)
                       /\ \/ NumberOf(c) = NumberOf(l) \/ NumberOf(c) < MinUin
                          \/ NumberOf(l) >= MinUin /\ Text[NumberOf(c)] \in Cut[Text[NumberOf(l)]]
<1>1. /\ l \in Line /\ l.f # <<>> /\ l.f \in Seq(Field) /\ DOMAIN l.f = 1..Len(l.f) /\ Len(l.f) \in Nat
      /\ \A i \in 1..Len(l.f) : l.f[i] \in Field
  BY Fields DEF WellFormed
<1>2. PICK n \in DOMAIN l.f : \E x \in Cut[l.f[n]] \cup {l.f[n]} \cup (IF n > 1 THEN {Blank} ELSE {}) :
        c = [f |-> Append(SubSeq(l.f, 1, n - 1), x), nl |-> FALSE]
  BY DEF CutLine
<1>20. PICK x \in Cut[l.f[n]] \cup {l.f[n]} \cup (IF n > 1 THEN {Blank} ELSE {}) :
        c = [f |-> Append(SubSeq(l.f, 1, n - 1), x), nl |-> FALSE]
  BY <1>2
<1>3. x \in Field
  BY <1>1, <1>20, FieldAssumption DEF NoKey
<1>4. n \in 1..Len(l.f) /\ n \in Nat
  BY <1>1, <1>2
<1> DEFINE head == SubSeq(l.f, 1, n - 1)
<1>5. head \in Seq(Field) /\ Len(head) = n - 1 /\ \A i \in 1..n - 1 : head[i] = l.f[i]
  BY <1>1, <1>4, SubSeqProperties
<1>6. /\ c.f \in Seq(Field) /\ Len(c.f) = n /\ c.f[n] = x /\ \A i \in 1..n - 1 : c.f[i] = l.f[i]
      /\ ~c.nl /\ c \in Line
  <2>1. c.f = Append(head, x) /\ ~c.nl /\ (c \in Line <=> Append(head, x) \in Seq(Field))
    BY <1>20, <1>5, <1>3 DEF Line
  <2> HIDE DEF head
  <2>2. Append(head, x) \in Seq(Field) /\ Len(Append(head, x)) = n
    BY <1>3, <1>4, <1>5, AppendProperties
  <2>3. Append(head, x)[n] = x /\ \A i \in 1..n - 1 : Append(head, x)[i] = head[i]
    BY <1>3, <1>4, <1>5, AppendProperties
  <2>4. c.f \in Seq(Field) /\ Len(c.f) = n /\ c.f[n] = x /\ \A i \in 1..n - 1 : c.f[i] = l.f[i]
    BY <2>1, <2>2, <2>3, <1>5
  <2> QED
    BY <2>1, <2>2, <2>4
<1>7. DOMAIN c.f = 1..n
  BY <1>6, LenProperties
<1>8. c.f # <<>>
  BY <1>4, <1>6, EmptySeq
<1>9. CASE n = 1
  BY <1>6, <1>7, <1>8, <1>9, Fields DEF WellFormed
<1>10. CASE n >= 2
  <2>1. c.f[1] = l.f[1] /\ Len(l.f) >= 2 /\ {1, 2} \subseteq DOMAIN l.f /\ {1, 2} \subseteq DOMAIN c.f
    BY <1>1, <1>4, <1>6, <1>7, <1>10
  <2>2. CASE l.f[1] \in Hash
    <3>1. Verbatim(c)
      BY <2>1, <2>2 DEF Verbatim, FieldAt
    <3> QED
      BY <3>1, <1>6, <1>8, CommentsUnread DEF WellFormed
  <2>3. CASE l.f[1] \notin Hash
    <3>1. ~Verbatim(l)
      <4>1. l.f # <<Blank>>
        BY <2>1
      <4> QED
        BY <2>1, <2>3, <4>1 DEF Verbatim, FieldAt
    <3>2. l.f[1] # Blank /\ (l.f[2] # Blank \/ Len(l.f) = 2)
      BY <2>1, <3>1, <1>1 DEF WellFormed
    <3>3. CASE n > 2
      <4>1. c.f[2] = l.f[2] /\ l.f[2] # Blank
        BY <1>1, <1>4, <1>6, <3>2, <3>3
      <4>2. WellFormed(c)
        BY <1>6, <1>8, <2>1, <3>2, <4>1 DEF WellFormed
      <4> QED
        BY <1>6, <2>1, <4>1, <4>2 DEF Read, FieldAt, NumberOf
    <3>4. CASE n = 2
      <4>1. WellFormed(c)
        BY <1>6, <1>8, <2>1, <3>2, <3>4 DEF WellFormed
      <4>2. c.f[2] = x /\ (x \in Cut[l.f[2]] \/ x = l.f[2] \/ x = Blank)
        BY <1>20, <1>6, <3>4
      <4>3. ASSUME Read(c)
            PROVE  /\ Read(l)
                   /\ \/ NumberOf(c) = NumberOf(l) \/ NumberOf(c) < MinUin
                      \/ NumberOf(l) >= MinUin /\ Text[NumberOf(c)] \in Cut[Text[NumberOf(l)]]
        <5>1. x # Blank
          BY <2>1, <4>2, <4>3 DEF Read, FieldAt
        <5>2. l.f[2] \in Field /\ l.f[2] # Blank
          BY <1>1, <2>1, <4>2, <5>1 DEF CutNumbers
        <5>3. Read(l)
          BY <2>1, <2>3, <3>2, <5>2 DEF Read, FieldAt
        <5>4. Atol[x] \in Nat
          BY <1>3, Numeric
        <5>5. \/ Atol[x] = Atol[l.f[2]] \/ Atol[x] < MinUin
              \/ Atol[l.f[2]] >= MinUin /\ Text[Atol[x]] \in Cut[Text[Atol[l.f[2]]]]
          BY <4>2, <5>1, <5>2, <5>4 DEF CutNumbers, MinUin
        <5> QED
          BY <4>2, <5>3, <5>5 DEF NumberOf
      <4> QED
        BY <1>6, <4>1, <4>3
    <3> QED
      BY <1>10, <1>4, <3>3, <3>4
  <2> QED
    BY <2>2, <2>3
<1> QED
  BY <1>4, <1>9, <1>10

\* A file that is written in part: whole lines, and at most one that is cut.
LEMMA PartWritten ==
  ASSUME NEW lines \in Seq(Line), NEW part \in Partial(lines), CutNumbers,
         \A l \in LinesOf(lines) : WellFormed(l)
  PROVE  /\ part \in Seq(Line)
         /\ \A c \in LinesOf(part) :
              \/ c \in LinesOf(lines)
              \/ \E l \in LinesOf(lines) : c \in CutLine(l)
<1>1. Len(lines) \in Nat /\ DOMAIN lines = 1..Len(lines)
  BY LenProperties
<1>2. ASSUME NEW n \in 0..Len(lines)
      PROVE  SubSeq(lines, 1, n) \in Seq(Line) /\ LinesOf(SubSeq(lines, 1, n)) \subseteq LinesOf(lines)
  <2>1. /\ SubSeq(lines, 1, n) \in Seq(Line) /\ Len(SubSeq(lines, 1, n)) = n
        /\ \A i \in 1..n : SubSeq(lines, 1, n)[i] = lines[i]
    BY <1>1, SubSeqProperties
  <2>2. DOMAIN SubSeq(lines, 1, n) = 1..n
    BY <2>1, LenProperties
  <2> QED
    BY <1>1, <2>1, <2>2 DEF LinesOf
<1>3. CASE \E n \in 0..Len(lines) : part = SubSeq(lines, 1, n)
  BY <1>2, <1>3
<1>4. CASE \E n \in DOMAIN lines : \E c \in CutLine(lines[n]) : part = Append(SubSeq(lines, 1, n - 1), c)
  <2> PICK n \in DOMAIN lines : \E c \in CutLine(lines[n]) : part = Append(SubSeq(lines, 1, n - 1), c)
    BY <1>4
  <2>1. PICK c \in CutLine(lines[n]) : part = Append(SubSeq(lines, 1, n - 1), c)
    OBVIOUS
  <2>2. lines[n] \in LinesOf(lines) /\ n - 1 \in 0..Len(lines)
    BY <1>1, <2>1 DEF LinesOf
  <2>3. c \in Line
    BY <2>1, <2>2, LineCut DEF WellFormed
  <2> DEFINE s == SubSeq(lines, 1, n - 1)
  <2>4. s \in Seq(Line) /\ LinesOf(s) \subseteq LinesOf(lines)
    BY <1>2, <2>2
  <2> HIDE DEF s
  <2>5. part \in Seq(Line) /\ \A d \in LinesOf(part) : d \in LinesOf(s) \/ d = c
    <3>1. /\ part = Append(s, c) /\ part \in Seq(Line) /\ Len(part) = Len(s) + 1 /\ Len(s) \in Nat
          /\ \A i \in 1..Len(s) : part[i] = s[i]
          /\ part[Len(s) + 1] = c
      BY <2>1, <2>3, <2>4, AppendProperties DEF s
    <3>2. DOMAIN part = 1..Len(s) + 1 /\ DOMAIN s = 1..Len(s)
      BY <2>4, <3>1, LenProperties
    <3> QED
      BY <3>1, <3>2 DEF LinesOf
  <2> QED
    BY <2>1, <2>2, <2>4, <2>5
<1> QED
  BY <1>3, <1>4 DEF Partial

-----------------------------------------------------------------------------
\* Each step keeps the types, the jobs, and what the lines hold.

LEMMA GoodStays ==
  ASSUME NEW l, NEW k1, NEW c1, NEW k2, NEW c2, Good(l, k1, c1), k1 \subseteq k2, c1 => c2, c2 => c1
  PROVE  Good(l, k2, c2)
  BY DEF Good, Fine

LEMMA EmptyGood == \A k, c : \A l \in LinesOf(<<>>) : Good(l, k, c)
  BY DEF LinesOf

LEMMA Doing ==
  ASSUME NEW t \in Thread, Types, job[t] # Idle
  PROVE  /\ job[t] \in Job /\ job[t].at \in {"read", "truncate", "write"}
         /\ job[t].op \in {"add", "remove"} /\ job[t].then \in {"end", "unlink", "add"}
         /\ job[t].uin \in Number /\ job[t].nick \in Nick
<1>1. job[t] \in Job
  BY DEF Types
<1> QED
  BY <1>1 DEF Job

LEMMA Whence ==
  ASSUME NEW t \in Thread, Types, job[t].at \in {"read", "truncate", "write"} PROVE job[t] # Idle
  BY DEF Idle

\* A command, or the roster, changes the contacts in memory and may begin to
\* change the file.
LEMMA BeginKeeps ==
  ASSUME IInv, NEW t \in Thread, proc = "running",
         IsList(contacts'), DOMAIN contacts \subseteq DOMAIN contacts', DOMAIN contacts' \subseteq known',
         known \subseteq known', known' \subseteq Number,
         \/ job' = job
         \/ \E j \in Job : /\ job' = [job EXCEPT ![t] = j]
                           /\ j.uin \in known' /\ j.uin >= MinUin /\ (j.op = "add" <=> j.then = "end")
                           /\ j.op = "remove" => t = "ctl" /\ j.uin \in DOMAIN contacts',
         UNCHANGED <<file, tmp, proc, torn, missed>>
  PROVE  IInv'
<1>1. Types'
  BY DEF IInv, Types
<1>2. \A s \in Thread : \/ job'[s] = job[s]
                        \/ /\ s = t /\ job'[s].uin \in known' /\ job'[s].uin >= MinUin
                           /\ job'[s].op = "add" <=> job'[s].then = "end"
                           /\ job'[s].op = "remove" => s = "ctl" /\ job'[s].uin \in DOMAIN contacts'
  BY DEF IInv, Types
<1>3. Jobs'
  BY <1>2 DEF IInv, Jobs
<1>4. Lines'
  BY GoodStays DEF IInv, Lines
<1>5. Faults'
  BY DEF IInv, Faults
<1> QED
  BY <1>1, <1>3, <1>4, <1>5 DEF IInv

LEMMA NicksGiven == ASSUME PlainNicks, NEW k \in TypedNick \cup RosterNick PROVE k \in Nick
  BY FieldAssumption DEF PlainNicks, Nick

LEMMA NoKeyIsField == NoKey \in Field /\ \A k \in Key : k \in Field
  BY FieldAssumption

LEMMA BeginIsJob ==
  ASSUME NEW op \in {"add", "remove"}, NEW u \in Number, NEW k \in Nick, NEW then \in {"end", "unlink", "add"}
  PROVE  LET j == Begin(op, u, k, then) IN
         j \in Job /\ j.at = "read" /\ j.op = op /\ j.uin = u /\ j.nick = k /\ j.then = then
  BY DEF Begin, Job

LEMMA Remembered ==
  ASSUME IInv, NEW u \in DOMAIN contacts
  PROVE  u \in Number /\ u \in known /\ u >= MinUin /\ contacts[u].nick \in Nick
  BY DEF IInv, Types, IsList

\* addSlaveToList for a new number.
LEMMA ListGrows ==
  ASSUME IInv, NEW u \in Number, u >= MinUin, u \notin DOMAIN contacts, NEW k \in Nick,
         contacts' = AddNew(contacts, u, k, NoKey), known' = known \cup {u}
  PROVE  /\ IsList(contacts') /\ DOMAIN contacts' = DOMAIN contacts \cup {u} /\ DOMAIN contacts' \subseteq known'
         /\ known' \subseteq Number /\ contacts'[u].nick \in Nick
<1>1. IsList(contacts) /\ DOMAIN contacts \subseteq known /\ known \subseteq Number /\ u \in Number \cup {0} /\ NoKey \in Field
  BY NoKeyIsField DEF IInv, Types
<1>2. IsList(contacts') /\ \A v : v \in DOMAIN contacts' <=> v \in DOMAIN contacts \/ v = u
  BY <1>1, AddNewAdds
<1> QED
  BY <1>1, <1>2 DEF IsList

LEMMA addSlaveKeeps ==
  ASSUME IInv, PlainNicks, NEW u \in Uin, NEW k \in TypedNick, addSlave(u, k) PROVE IInv'
<1>1. u \in Number /\ k \in Nick
  BY NicksGiven, FieldAssumption
<1>2. /\ u >= MinUin /\ u \notin DOMAIN contacts /\ contacts' = AddNew(contacts, u, k, NoKey)
      /\ known' = known \cup {u} /\ proc = "running"
  BY DEF addSlave, MayBegin, Running
<1>3. /\ IsList(contacts') /\ DOMAIN contacts' = DOMAIN contacts \cup {u} /\ DOMAIN contacts' \subseteq known'
      /\ known' \subseteq Number /\ contacts'[u].nick \in Nick
  BY <1>1, <1>2, ListGrows
<1> DEFINE j == Begin("add", u, contacts'[u].nick, "end")
<1>4. j \in Job /\ j.op = "add" /\ j.uin = u /\ j.then = "end"
  BY <1>1, <1>3, BeginIsJob
<1>5. job' = [job EXCEPT !["ctl"] = j] /\ UNCHANGED <<file, tmp, proc, torn, missed>> /\ "ctl" \in Thread
  BY DEF addSlave, Starts, Thread
<1> HIDE DEF j
<1> QED
  BY <1>2, <1>3, <1>4, <1>5, BeginKeeps

LEMMA RemovalKeeps ==
  ASSUME IInv, NEW u \in DOMAIN contacts, NEW then \in {"unlink", "add"}, proc = "running",
         IsList(contacts'), DOMAIN contacts' = DOMAIN contacts,
         Starts("ctl", Begin("remove", u, contacts[u].nick, then)),
         UNCHANGED <<file, tmp, proc, known, torn, missed>>
  PROVE  IInv'
<1>1. u \in Number /\ u \in known /\ u >= MinUin /\ contacts[u].nick \in Nick
  BY Remembered
<1> DEFINE j == Begin("remove", u, contacts[u].nick, then)
<1>2. j \in Job /\ j.op = "remove" /\ j.uin = u /\ j.then = then
  BY <1>1, BeginIsJob
<1>3. job' = [job EXCEPT !["ctl"] = j] /\ "ctl" \in Thread
  BY DEF Starts, Thread
<1>4. DOMAIN contacts' \subseteq known' /\ known' \subseteq Number /\ known' = known
  BY DEF IInv, Types
<1> HIDE DEF j
<1> QED
  BY <1>1, <1>2, <1>3, <1>4, BeginKeeps

LEMMA deleteSlaveKeeps == ASSUME IInv, NEW u, deleteSlave(u) PROVE IInv'
<1>1. /\ u \in DOMAIN contacts /\ proc = "running" /\ contacts' = contacts
      /\ Starts("ctl", Begin("remove", u, contacts[u].nick, "unlink"))
      /\ UNCHANGED <<file, tmp, proc, known, torn, missed>>
  BY DEF deleteSlave, MayBegin, Running
<1>2. IsList(contacts')
  BY <1>1 DEF IInv, Types
<1> QED
  BY <1>1, <1>2, RemovalKeeps

LEMMA cmdKEYKeeps == ASSUME IInv, NEW u, NEW key \in Key \cup {NoKey}, cmdKEY(u, key) PROVE IInv'
<1>1. /\ u \in DOMAIN contacts /\ proc = "running" /\ contacts' = [contacts EXCEPT ![u].key = key]
      /\ Starts("ctl", Begin("remove", u, contacts[u].nick, "add"))
      /\ UNCHANGED <<file, tmp, proc, known, torn, missed>>
  BY DEF cmdKEY, MayBegin, Running
<1>2. IsList(contacts') /\ DOMAIN contacts' = DOMAIN contacts
  BY <1>1, NoKeyIsField DEF IInv, Types, IsList
<1> QED
  BY <1>1, <1>2, RemovalKeeps

LEMMA buddyAddSlaveKeeps ==
  ASSUME IInv, PlainNicks, NEW u \in Uin, NEW k \in RosterNick, buddyAddSlave(u, k) PROVE IInv'
<1>1. u \in Number /\ k \in Nick
  BY NicksGiven, FieldAssumption
<1>2. u >= MinUin /\ proc = "running" /\ UNCHANGED <<file, tmp, proc, torn, missed>> /\ "net" \in Thread
  BY DEF buddyAddSlave, MayBegin, Running, Thread
<1>3. CASE u \in DOMAIN contacts
  <2>1. contacts' = [contacts EXCEPT ![u].nick = k] /\ job' = job /\ known' = known
    BY <1>3 DEF buddyAddSlave
  <2>2. IsList(contacts') /\ DOMAIN contacts' = DOMAIN contacts
    BY <2>1, <1>1, <1>3 DEF IInv, Types, IsList
  <2>3. DOMAIN contacts' \subseteq known' /\ known' \subseteq Number
    BY <2>1, <2>2 DEF IInv, Types
  <2> QED
    BY <1>2, <2>1, <2>2, <2>3, BeginKeeps
<1>4. CASE u \notin DOMAIN contacts
  <2>1. contacts' = AddNew(contacts, u, k, NoKey) /\ known' = known \cup {u}
    BY <1>4 DEF buddyAddSlave
  <2>2. /\ IsList(contacts') /\ DOMAIN contacts' = DOMAIN contacts \cup {u} /\ DOMAIN contacts' \subseteq known'
        /\ known' \subseteq Number /\ contacts'[u].nick \in Nick
    BY <1>1, <1>2, <1>4, <2>1, ListGrows
  <2> DEFINE j == Begin("add", u, contacts'[u].nick, "end")
  <2>3. j \in Job /\ j.op = "add" /\ j.uin = u /\ j.then = "end"
    BY <1>1, <2>2, BeginIsJob
  <2>4. job' = [job EXCEPT !["net"] = j]
    BY <1>4 DEF buddyAddSlave, Starts
  <2> HIDE DEF j
  <2> QED
    BY <1>2, <2>1, <2>2, <2>3, <2>4, BeginKeeps
<1> QED
  BY <1>3, <1>4

\* The process ends, and with it all that it had in memory.
LEMMA DiesKeeps ==
  ASSUME IInv, NEW how \in {"down", "noNumberFault", "noNickFault"}, Dies(how),
         how = "noNumberFault" => torn,
         file' \in Seq(Line), torn' \in BOOLEAN, torn => torn',
         \A l \in LinesOf(file') : Good(l, known, torn'),
         UNCHANGED <<known, missed>>
  PROVE  IInv'
<1>1. contacts' = <<>> /\ proc' = how /\ \A t \in Thread : job'[t] = Idle /\ tmp'[t] = <<>>
  BY DEF Dies
<1>2. Types'
  <2>1. IsList(<<>>) /\ DOMAIN <<>> = {}
    BY DEF IsList
  <2>2. tmp' \in [Thread -> Seq(Line)] /\ job' \in [Thread -> {Idle} \cup Job]
    BY DEF Dies
  <2> QED
    BY <1>1, <2>1, <2>2 DEF IInv, Types
<1>3. Jobs'
  BY <1>1 DEF Jobs
<1>4. Lines'
  BY <1>1, EmptyGood DEF Lines
<1>5. Faults'
  BY <1>1 DEF Faults
<1> QED
  BY <1>2, <1>3, <1>4, <1>5 DEF IInv

\* A change ends, and what follows it is done.
LEMMA EndsKeeps ==
  ASSUME IInv, NEW t \in Thread, job[t] # Idle, proc = "running", Ends(t),
         file' \in Seq(Line), \A l \in LinesOf(file') : Good(l, known, torn),
         missed' \in BOOLEAN, UNCHANGED <<proc, known, torn>>
  PROVE  IInv'
<1> DEFINE u == job[t].uin
<1>1. /\ job[t].op \in {"add", "remove"} /\ job[t].then \in {"end", "unlink", "add"} /\ u \in Number
  BY Doing DEF IInv
<1>2. tmp' = [tmp EXCEPT ![t] = <<>>]
  BY DEF Ends
<1>3. tmp' \in [Thread -> Seq(Line)] /\ \A s \in Thread : tmp'[s] = IF s = t THEN <<>> ELSE tmp[s]
  BY <1>2 DEF IInv, Types
<1>4. Lines'
  BY <1>3, EmptyGood DEF IInv, Lines
<1>5. Faults'
  BY DEF IInv, Faults
<1>6. CASE job[t].then = "end"
  <2>1. job' = [job EXCEPT ![t] = Idle] /\ contacts' = contacts
    BY <1>6 DEF Ends, Starts
  <2>2. Types'
    BY <1>3, <2>1 DEF IInv, Types
  <2>3. Jobs'
    BY <2>1 DEF IInv, Types, Jobs
  <2> QED
    BY <1>4, <1>5, <2>2, <2>3 DEF IInv
<1>7. CASE job[t].then = "unlink"
  <2>1. job' = [job EXCEPT ![t] = Idle] /\ contacts' = [v \in DOMAIN contacts \ {u} |-> contacts[v]]
    BY <1>7 DEF Ends, Starts
  <2>2. IsList(contacts')
    BY <2>1 DEF IInv, Types, IsList
  <2>3. Types'
    BY <1>3, <2>1, <2>2 DEF IInv, Types
  <2>4. t = "ctl"
    BY <1>1, <1>7 DEF IInv, Jobs
  <2>5. Jobs'
    BY <2>1, <2>4 DEF IInv, Types, Jobs
  <2> QED
    BY <1>4, <1>5, <2>3, <2>5 DEF IInv
<1>8. CASE job[t].then = "add"
  <2>1. u \in DOMAIN contacts
    BY <1>1, <1>8 DEF IInv, Jobs
  <2>2. u \in Number /\ u \in known /\ u >= MinUin /\ contacts[u].nick \in Nick
    BY <2>1, Remembered
  <2> DEFINE j == Begin("add", u, contacts[u].nick, "end")
  <2>3. j \in Job /\ j.op = "add" /\ j.uin = u /\ j.then = "end"
    BY <2>2, BeginIsJob
  <2>4. job' = [job EXCEPT ![t] = j] /\ contacts' = contacts
    BY <1>8 DEF Ends, Starts
  <2> HIDE DEF j, u
  <2>5. Types'
    BY <1>3, <2>3, <2>4 DEF IInv, Types
  <2>6. \A s \in Thread : job'[s] = IF s = t THEN j ELSE job[s]
    BY <2>4 DEF IInv, Types
  <2>7. Jobs'
    BY <2>2, <2>3, <2>4, <2>6 DEF IInv, Jobs
  <2> QED
    BY <1>4, <1>5, <2>5, <2>7 DEF IInv
<1> QED
  BY <1>1, <1>6, <1>7, <1>8

LEMMA FailsToOpenKeeps == ASSUME IInv, NEW t \in Thread, FailsToOpen(t) PROVE IInv'
<1>1. /\ job[t].at \in {"read", "truncate"} /\ proc = "running" /\ Ends(t) /\ missed' \in BOOLEAN
      /\ UNCHANGED <<file, proc, known, torn>>
  BY DEF FailsToOpen, AtStep, Running
<1>2. job[t] # Idle
  BY <1>1, Whence DEF IInv
<1>3. file' \in Seq(Line) /\ \A l \in LinesOf(file') : Good(l, known, torn)
  BY <1>1 DEF IInv, Types, Lines
<1> QED
  BY <1>1, <1>2, <1>3, EndsKeeps

\* A change of the place in the job alone.
LEMMA Advances ==
  ASSUME IInv, NEW t \in Thread, job[t] # Idle, NEW at \in {"read", "truncate", "write"},
         job' = [job EXCEPT ![t].at = at]
  PROVE  /\ job' \in [Thread -> {Idle} \cup Job]
         /\ \A s \in Thread \ {t} : job'[s] = job[s]
         /\ job'[t].at = at /\ job'[t].op = job[t].op /\ job'[t].uin = job[t].uin
         /\ job'[t].then = job[t].then /\ job'[t].nick = job[t].nick
<1>1. job[t] \in Job /\ job \in [Thread -> {Idle} \cup Job]
  BY Doing DEF IInv, Types
<1>2. [job[t] EXCEPT !.at = at] \in Job
  BY <1>1 DEF Job
<1> QED
  BY <1>1, <1>2 DEF Job

LEMMA AdvancesKeeps ==
  ASSUME IInv, NEW t \in Thread, job[t] # Idle, NEW at \in {"read", "truncate", "write"},
         job' = [job EXCEPT ![t].at = at], UNCHANGED <<contacts, known, torn, missed, proc>>,
         proc = "running"
  PROVE  /\ file' \in Seq(Line) /\ tmp' \in [Thread -> Seq(Line)] /\ Lines' => IInv'
<1>1. /\ job' \in [Thread -> {Idle} \cup Job]
      /\ \A s \in Thread \ {t} : job'[s] = job[s]
      /\ job'[t].op = job[t].op /\ job'[t].uin = job[t].uin /\ job'[t].then = job[t].then
  BY Advances
<1>2. Jobs'
  BY <1>1 DEF IInv, Jobs
<1>3. Faults'
  BY DEF IInv, Faults
<1> QED
  BY <1>1, <1>2, <1>3 DEF IInv, Types

\* What addSlaveToDisk puts into its temporary file.
LEMMA LinesAdded ==
  ASSUME NEW lines \in Seq(Line), NEW k \in Nick, NEW u \in Number, u >= MinUin
  PROVE  /\ addLine(lines, k, u) \in Seq(Line)
         /\ \A l : l \in LinesOf(addLine(lines, k, u)) <=> l = lineOf(k, u) \/ l \in LinesOf(lines)
<1> DEFINE e == lineOf(k, u)
           one == <<e>>
<1>1. e \in Line
  BY LineAdded DEF WellFormed
<1> HIDE DEF e
<1>2. one \in Seq(Line) /\ Len(one) = 1 /\ one[1] = e
  BY <1>1
<1> HIDE DEF one
<1>3. /\ one \o lines \in Seq(Line) /\ Len(one \o lines) = Len(one) + Len(lines)
      /\ \A i \in 1..Len(one) + Len(lines) : (one \o lines)[i] = IF i <= Len(one) THEN one[i] ELSE lines[i - Len(one)]
  BY <1>2, ConcatProperties
<1>4. Len(lines) \in Nat /\ DOMAIN lines = 1..Len(lines) /\ DOMAIN (one \o lines) = 1..1 + Len(lines)
  BY <1>2, <1>3, LenProperties
<1>5. \A l : l \in LinesOf(one \o lines) <=> l = e \/ l \in LinesOf(lines)
  <2>1. \A i \in 1..1 + Len(lines) : (one \o lines)[i] = IF i = 1 THEN e ELSE lines[i - 1]
    BY <1>2, <1>3, <1>4
  <2>2. ASSUME NEW l \in LinesOf(lines) PROVE l \in LinesOf(one \o lines)
    <3>1. PICK i \in 1..Len(lines) : l = lines[i]
      BY <1>4 DEF LinesOf
    <3>2. i + 1 \in 1..1 + Len(lines) /\ i + 1 # 1 /\ (i + 1) - 1 = i
      BY <1>4, <3>1
    <3>3. (one \o lines)[i + 1] = l
      BY <2>1, <3>1, <3>2
    <3> QED
      BY <1>4, <3>2, <3>3 DEF LinesOf
  <2>3. e \in LinesOf(one \o lines)
    <3>1. 1 \in 1..1 + Len(lines)
      BY <1>4
    <3> QED
      BY <1>4, <2>1, <3>1 DEF LinesOf
  <2>4. ASSUME NEW l \in LinesOf(one \o lines) PROVE l = e \/ l \in LinesOf(lines)
    <3>1. PICK i \in 1..1 + Len(lines) : l = (one \o lines)[i]
      BY <1>4 DEF LinesOf
    <3>2. i = 1 \/ i - 1 \in 1..Len(lines)
      BY <1>4, <3>1
    <3> QED
      BY <1>4, <2>1, <3>1, <3>2 DEF LinesOf
  <2> QED
    BY <2>2, <2>3, <2>4
<1> QED
  BY <1>3, <1>5 DEF addLine, one, e

LEMMA CopiesKeeps == ASSUME IInv, NEW t \in Thread, Copies(t) PROVE IInv'
<1>1. /\ job[t].at = "read" /\ proc = "running" /\ job' = [job EXCEPT ![t].at = "truncate"]
      /\ UNCHANGED <<file, contacts, known, torn, missed, proc>>
  BY DEF Copies, AtStep, Running
<1>2. job[t] # Idle
  BY <1>1, Whence DEF IInv
<1>3. /\ job[t].op \in {"add", "remove"} /\ job[t].uin \in Number /\ job[t].nick \in Nick
      /\ job[t].uin >= MinUin /\ job[t].uin \in known
  BY <1>2, Doing DEF IInv, Jobs
<1>4. file \in Seq(Line) /\ \A l \in LinesOf(file) : Good(l, known, torn)
  BY DEF IInv, Types, Lines
<1>5. \E new \in Seq(Line) : /\ tmp' = [tmp EXCEPT ![t] = new]
                             /\ \A l \in LinesOf(new) : Good(l, known, torn)
  <2>1. CASE job[t].op = "add"
    <3> DEFINE new == addLine(file, job[t].nick, job[t].uin)
    <3>1. tmp' = [tmp EXCEPT ![t] = new]
      BY <2>1 DEF Copies
    <3>2. new \in Seq(Line) /\ \A l : l \in LinesOf(new) <=> l = lineOf(job[t].nick, job[t].uin) \/ l \in LinesOf(file)
      BY <1>3, <1>4, LinesAdded
    <3>3. Good(lineOf(job[t].nick, job[t].uin), known, torn)
      BY <1>3, LineAdded DEF Good, Fine
    <3> HIDE DEF new
    <3> QED
      BY <1>4, <3>1, <3>2, <3>3
  <2>2. CASE job[t].op = "remove"
    <3> DEFINE new == removeLine(file, job[t].uin)
    <3>1. tmp' = [tmp EXCEPT ![t] = new] /\ \A l \in LinesOf(file) : ~NoNumber(l)
      BY <2>2 DEF Copies, LinesOf
    <3>2. \A l \in LinesOf(file) : Good(Printed(l), known, torn)
      <4> SUFFICES ASSUME NEW l \in LinesOf(file) PROVE Good(Printed(l), known, torn)
        OBVIOUS
      <4>1. WellFormed(l) /\ ~NoNumber(l) /\ Good(l, known, torn)
        BY <1>4, <3>1 DEF Good
      <4> QED
        BY <4>1, PrintedSame DEF Good
    <3>3. /\ new \in Seq(Line)
          /\ \A p : p \in LinesOf(new) <=> \E l \in LinesOf(file) : Keeps(l, job[t].uin) /\ p = Printed(l)
      BY <1>4, <3>2, Removed DEF Good, WellFormed
    <3> HIDE DEF new
    <3> QED
      BY <3>1, <3>2, <3>3
  <2> QED
    BY <1>3, <2>1, <2>2
<1>6. PICK new \in Seq(Line) : /\ tmp' = [tmp EXCEPT ![t] = new]
                               /\ \A l \in LinesOf(new) : Good(l, known, torn)
  BY <1>5
<1>7. tmp' \in [Thread -> Seq(Line)] /\ \A s \in Thread : tmp'[s] = IF s = t THEN new ELSE tmp[s]
  BY <1>6 DEF IInv, Types
<1>8. Lines'
  BY <1>1, <1>6, <1>7 DEF IInv, Lines
<1> QED
  BY <1>1, <1>2, <1>4, <1>7, <1>8, AdvancesKeeps

LEMMA TruncatesKeeps == ASSUME IInv, NEW t \in Thread, Truncates(t) PROVE IInv'
<1>1. /\ job[t].at = "truncate" /\ proc = "running" /\ job' = [job EXCEPT ![t].at = "write"]
      /\ file' = <<>> /\ UNCHANGED <<tmp, contacts, known, torn, missed, proc>>
  BY DEF Truncates, AtStep, Running
<1>2. job[t] # Idle
  BY <1>1, Whence DEF IInv
<1>3. file' \in Seq(Line) /\ tmp' \in [Thread -> Seq(Line)]
  BY <1>1 DEF IInv, Types
<1>4. Lines'
  BY <1>1, EmptyGood DEF IInv, Lines
<1> QED
  BY <1>1, <1>2, <1>3, <1>4, AdvancesKeeps

LEMMA WritesOver ==
  ASSUME NEW a \in Seq(Line), NEW b \in Seq(Line)
  PROVE  LET c == a \o SubSeq(b, Len(a) + 1, Len(b)) IN
         c \in Seq(Line) /\ \A l \in LinesOf(c) : l \in LinesOf(a) \/ l \in LinesOf(b)
<1> DEFINE m == Len(a) + 1
           n == Len(b)
           rest == SubSeq(b, m, n)
<1>1. Len(a) \in Nat /\ m \in Nat /\ m >= 1 /\ n \in Nat /\ DOMAIN a = 1..Len(a) /\ DOMAIN b = 1..n
  BY LenProperties
<1>2. \A i \in m..n : b[i] \in Line
  BY <1>1
<1> HIDE DEF m, n
<1>3. /\ rest \in Seq(Line) /\ Len(rest) = IF m <= n THEN n - m + 1 ELSE 0
      /\ \A i \in 1..n - m + 1 : rest[i] = b[m + i - 1]
  BY <1>1, <1>2, SubSeqProperties
<1>4. \A l \in LinesOf(rest) : l \in LinesOf(b)
  <2> SUFFICES ASSUME NEW i \in DOMAIN rest PROVE rest[i] \in LinesOf(b)
    BY DEF LinesOf
  <2> HIDE DEF rest
  <2>1. DOMAIN rest = 1..Len(rest)
    BY <1>3, LenProperties
  <2>2. m <= n /\ i \in 1..n - m + 1
    BY <1>1, <1>3, <2>1
  <2>3. m + i - 1 \in 1..n /\ rest[i] = b[m + i - 1]
    BY <1>1, <1>3, <2>2
  <2> QED
    BY <1>1, <2>3 DEF LinesOf
<1> HIDE DEF rest
<1>5. /\ a \o rest \in Seq(Line) /\ Len(a \o rest) = Len(a) + Len(rest)
      /\ \A i \in 1..Len(a) + Len(rest) : (a \o rest)[i] = IF i <= Len(a) THEN a[i] ELSE rest[i - Len(a)]
  BY <1>3, ConcatProperties
<1>6. DOMAIN (a \o rest) = 1..Len(a) + Len(rest) /\ DOMAIN rest = 1..Len(rest) /\ Len(rest) \in Nat
  BY <1>3, <1>5, LenProperties
<1>7. \A l \in LinesOf(a \o rest) : l \in LinesOf(a) \/ l \in LinesOf(rest)
  <2> SUFFICES ASSUME NEW i \in 1..Len(a) + Len(rest)
               PROVE  (a \o rest)[i] \in LinesOf(a) \/ (a \o rest)[i] \in LinesOf(rest)
    BY <1>6 DEF LinesOf
  <2>1. CASE i <= Len(a)
    <3>1. i \in 1..Len(a) /\ (a \o rest)[i] = a[i]
      BY <1>1, <1>5, <2>1
    <3> QED
      BY <1>1, <3>1 DEF LinesOf
  <2>2. CASE i > Len(a)
    <3>1. i - Len(a) \in 1..Len(rest) /\ (a \o rest)[i] = rest[i - Len(a)]
      BY <1>1, <1>5, <1>6, <2>2
    <3> QED
      BY <1>6, <3>1 DEF LinesOf
  <2> QED
    BY <1>1, <2>1, <2>2
<1> QED
  BY <1>4, <1>5, <1>7 DEF rest, m, n

LEMMA WritesKeeps == ASSUME IInv, NEW t \in Thread, Writes(t) PROVE IInv'
<1>1. /\ job[t].at = "write" /\ proc = "running" /\ Ends(t) /\ UNCHANGED <<proc, known, torn, missed>>
      /\ file' = tmp[t] \o SubSeq(file, Len(tmp[t]) + 1, Len(file))
  BY DEF Writes, AtStep, Running
<1>2. job[t] # Idle
  BY <1>1, Whence DEF IInv
<1>3. tmp[t] \in Seq(Line) /\ file \in Seq(Line) /\ missed' \in BOOLEAN
  BY <1>1 DEF IInv, Types
<1>4. file' \in Seq(Line) /\ \A l \in LinesOf(file') : l \in LinesOf(tmp[t]) \/ l \in LinesOf(file)
  BY <1>1, <1>3, WritesOver
<1>5. \A l \in LinesOf(file') : Good(l, known, torn)
  BY <1>4 DEF IInv, Lines
<1> QED
  BY <1>1, <1>2, <1>3, <1>4, <1>5, EndsKeeps

LEMMA CopyFaultsKeeps == ASSUME IInv, NEW t \in Thread, CopyFaults(t) PROVE IInv'
<1>1. PICK i \in DOMAIN file : NoNumber(file[i])
  BY DEF CopyFaults
<1>2. torn
  BY <1>1 DEF IInv, Lines, LinesOf, Good
<1>3. file' = file /\ Dies("noNumberFault") /\ UNCHANGED <<known, torn, missed>>
  BY DEF CopyFaults
<1>4. /\ file' \in Seq(Line) /\ torn' \in BOOLEAN /\ (torn => torn')
      /\ \A l \in LinesOf(file') : Good(l, known, torn')
  BY <1>3 DEF IInv, Types, Lines
<1> QED
  BY <1>2, <1>3, <1>4, DiesKeeps

LEMMA NullKeeps == ASSUME IInv, NEW u, buddyAddSlave_null(u) PROVE IInv'
<1>1. file' = file /\ Dies("noNickFault") /\ UNCHANGED <<known, torn, missed>>
  BY DEF buddyAddSlave_null
<1>2. /\ file' \in Seq(Line) /\ torn' \in BOOLEAN /\ (torn => torn')
      /\ \A l \in LinesOf(file') : Good(l, known, torn')
  BY <1>1 DEF IInv, Types, Lines
<1> QED
  BY <1>1, <1>2, DiesKeeps

\* A line that was cut is one that a crash leaves.
LEMMA CutGood ==
  ASSUME CutNumbers, NEW l, NEW numbers \in SUBSET Number, NEW cut \in BOOLEAN, Good(l, numbers, cut), NEW c \in CutLine(l)
  PROVE  Good(c, numbers, TRUE) /\ ~c.nl
<1>1. WellFormed(l) /\ (Read(l) => Fine(NumberOf(l), numbers, cut))
  BY DEF Good
<1>2. /\ WellFormed(c) /\ ~c.nl
      /\ Read(c) => /\ Read(l)
                    /\ \/ NumberOf(c) = NumberOf(l) \/ NumberOf(c) < MinUin
                       \/ NumberOf(l) >= MinUin /\ Text[NumberOf(c)] \in Cut[Text[NumberOf(l)]]
  BY <1>1, LineCut
<1>3. ASSUME Read(c) PROVE Fine(NumberOf(c), numbers, TRUE)
  <2>1. Read(l) /\ Fine(NumberOf(l), numbers, cut)
    BY <1>1, <1>2, <1>3
  <2>2. CASE NumberOf(c) = NumberOf(l) \/ NumberOf(c) < MinUin
    BY <2>1, <2>2 DEF Fine
  <2>3. CASE NumberOf(c) >= MinUin /\ NumberOf(l) >= MinUin /\ Text[NumberOf(c)] \in Cut[Text[NumberOf(l)]]
    <3>1. NumberOf(c) \in Number /\ NumberOf(l) \in Number
      <4>1. NumberOf(c) \in Number \cup {0} /\ NumberOf(l) \in Number \cup {0}
        BY <1>1, <1>2, <1>3, <2>1, Fields DEF WellFormed
      <4> QED
        BY <4>1, <2>3 DEF MinUin
    <3>2. CASE NumberOf(l) \in numbers
      BY <2>3, <3>2 DEF Fine
    <3>3. CASE \E v \in numbers : Text[NumberOf(l)] \in Cut[Text[v]]
      <4>1. PICK v \in numbers : Text[NumberOf(l)] \in Cut[Text[v]]
        BY <3>3
      <4>2. Text[NumberOf(c)] \in Cut[Text[v]]
        BY <2>3, <3>1, <4>1 DEF CutNumbers
      <4> QED
        BY <4>1, <4>2 DEF Fine
    <3>4. ~(NumberOf(l) < MinUin)
      BY <3>1, <2>3, Numeric DEF MinUin
    <3> QED
      BY <2>1, <3>2, <3>3, <3>4 DEF Fine
  <2>4. NumberOf(c) < MinUin \/ NumberOf(c) >= MinUin
    <3>1. NumberOf(c) \in Number \cup {0}
      BY <1>2, <1>3, Fields DEF WellFormed
    <3> QED
      BY <3>1, Numeric DEF MinUin
  <2> QED
    BY <1>2, <1>3, <2>2, <2>3, <2>4
<1> QED
  BY <1>2, <1>3 DEF Good

LEMMA CrashKeeps == ASSUME IInv, CutNumbers, Crash PROVE IInv'
<1>1. Dies("down") /\ torn' = (torn \/ IsTorn(file')) /\ UNCHANGED <<known, missed>> /\ known \in SUBSET Number /\ torn \in BOOLEAN
  BY DEF Crash, IInv, Types
<1>2. torn' \in BOOLEAN /\ (torn => torn')
  BY <1>1 DEF IsTorn
<1>3. CASE file' = file
  <2>1. torn' = torn
    <3>1. ~torn => ~IsTorn(file)
      BY DEF IInv, Lines, LinesOf, Good, IsTorn
    <3> QED
      BY <1>1, <1>3, <3>1
  <2> QED
    BY <1>1, <1>2, <1>3, <2>1, DiesKeeps DEF IInv, Types, Lines
<1>4. CASE \E t \in Thread : file' \in Partial(tmp[t])
  <2>1. PICK t \in Thread : file' \in Partial(tmp[t])
    BY <1>4
  <2>2. tmp[t] \in Seq(Line) /\ \A l \in LinesOf(tmp[t]) : Good(l, known, torn)
    BY DEF IInv, Types, Lines
  <2>3. /\ file' \in Seq(Line)
        /\ \A c \in LinesOf(file') : c \in LinesOf(tmp[t]) \/ \E l \in LinesOf(tmp[t]) : c \in CutLine(l)
    <3>1. \A l \in LinesOf(tmp[t]) : WellFormed(l)
      BY <2>2 DEF Good
    <3> QED
      BY <2>1, <2>2, <3>1, PartWritten
  <2>4. ASSUME NEW c \in LinesOf(file') PROVE Good(c, known, torn')
    <3>1. CASE c \in LinesOf(tmp[t])
      <4>1. Good(c, known, torn) /\ WellFormed(c)
        BY <2>2, <3>1 DEF Good
      <4>2. torn' => torn \/ IsTorn(file')
        BY <1>1
      <4>3. Read(c) => Fine(NumberOf(c), known, torn')
        BY <4>1, <1>2 DEF Good, Fine
      <4>4. ~torn' => ~torn
        BY <1>2
      <4> QED
        BY <4>1, <4>3, <4>4 DEF Good
    <3>2. CASE \E l \in LinesOf(tmp[t]) : c \in CutLine(l)
      <4>1. PICK l \in LinesOf(tmp[t]) : c \in CutLine(l)
        BY <3>2
      <4>2. Good(c, known, TRUE) /\ ~c.nl
        BY <1>1, <2>2, <4>1, CutGood
      <4>3. torn' = TRUE
        <5>1. IsTorn(file')
          BY <4>2 DEF IsTorn, LinesOf
        <5> QED
          BY <1>1, <1>2, <5>1
      <4> QED
        BY <4>2, <4>3
    <3> QED
      BY <2>3, <3>1, <3>2
  <2> QED
    BY <1>1, <1>2, <2>3, <2>4, DiesKeeps
<1> QED
  BY <1>3, <1>4 DEF Crash

LEMMA RestartKeeps == ASSUME IInv, Restart PROVE IInv'
<1>1. /\ proc # "running" /\ proc' = "running" /\ contacts' = readSlaves(file) /\ missed' = FALSE
      /\ known' = known \cup DOMAIN contacts' /\ UNCHANGED <<file, job, tmp, torn>>
  BY DEF Restart, Running
<1>2. file \in Seq(Line)
  BY DEF IInv, Types
<1>3. IsList(contacts')
  BY <1>1, <1>2, AllRead
<1>4. Types'
  BY <1>1, <1>3 DEF IInv, Types, IsList
<1>5. Jobs'
  BY <1>1 DEF IInv, Jobs
<1>6. Lines'
  BY <1>1, GoodStays DEF IInv, Lines
<1>7. Faults'
  BY <1>1 DEF Faults
<1> QED
  BY <1>4, <1>5, <1>6, <1>7 DEF IInv

LEMMA InitIInv == ASSUME WellStored, Init PROVE IInv
<1>1. /\ file = Stored /\ contacts = readSlaves(Stored) /\ known = Numbers(Stored) /\ torn = FALSE
      /\ missed = FALSE /\ proc = "running" /\ \A t \in Thread : job[t] = Idle /\ tmp[t] = <<>>
  BY DEF Init
<1>2. Stored \in Seq(Line)
  BY DEF WellStored
<1>3. /\ IsList(contacts) /\ known = DOMAIN contacts
      /\ known = {u \in Number : \E l \in LinesOf(Stored) : Names(l, u)}
  BY <1>1, <1>2, AllRead DEF Numbers
<1>4. Types
  <2>1. tmp \in [Thread -> Seq(Line)] /\ job \in [Thread -> {Idle} \cup Job]
    BY DEF Init
  <2> QED
    BY <1>1, <1>2, <1>3, <2>1 DEF Types, IsList
<1>5. ASSUME NEW l \in LinesOf(Stored) PROVE Good(l, known, FALSE)
  <2>1. l \in Line
    BY <1>2, LenProperties, ElementOfSeq DEF LinesOf
  <2>2. l.nl /\ l.f # <<>> /\ (Verbatim(l) \/ (FieldAt(l, 1) # Blank /\ FieldAt(l, 2) # Blank))
    BY DEF WellStored, LinesOf
  <2>3. WellFormed(l) /\ ~NoNumber(l)
    <3>1. CASE Verbatim(l)
      BY <2>1, <2>2, <3>1 DEF WellFormed, NoNumber
    <3>2. CASE FieldAt(l, 1) # Blank /\ FieldAt(l, 2) # Blank
      <4>1. {1, 2} \subseteq DOMAIN l.f /\ l.f[1] # Blank /\ l.f[2] # Blank
        BY <3>2 DEF FieldAt
      <4>2. Len(l.f) >= 2
        BY <2>1, <4>1, Fields
      <4> QED
        BY <2>1, <4>1, <4>2, TwoTokens
    <3> QED
      BY <2>2, <3>1, <3>2
  <2>4. ASSUME Read(l) PROVE Fine(NumberOf(l), known, FALSE)
    <3>1. NumberOf(l) \in Number \cup {0}
      BY <2>1, <2>4, Fields
    <3> DEFINE u == NumberOf(l)
    <3>2. CASE u < MinUin
      BY <3>2 DEF Fine
    <3>3. CASE ~(u < MinUin)
      <4>1. u \in Nat
        BY <3>1, Numeric
      <4>2. u >= MinUin /\ u \in Number
        BY <4>1, <3>1, <3>3 DEF MinUin
      <4>3. Names(l, u)
        BY <2>4, <4>2 DEF Names
      <4>4. u \in known
        BY <4>2, <4>3, <1>3
      <4> QED
        BY <4>4 DEF Fine
    <3> QED
      BY <3>2, <3>3
  <2> QED
    BY <2>2, <2>3, <2>4 DEF Good
<1>6. Lines
  BY <1>1, <1>5, EmptyGood DEF Lines
<1>7. Jobs /\ Faults
  BY <1>1 DEF Jobs, Faults
<1> QED
  BY <1>4, <1>6, <1>7 DEF IInv

LEMMA NextIInv == ASSUME PlainNicks, CutNumbers, IInv, [Next]_vars PROVE IInv'
<1>1. CASE UNCHANGED vars
  BY <1>1 DEF vars, IInv, Types, Jobs, Lines, Faults
<1>2. CASE \E u \in Uin, k \in TypedNick : addSlave(u, k)
  BY <1>2, addSlaveKeeps
<1>3. CASE \E u \in Uin, k \in RosterNick : buddyAddSlave(u, k)
  BY <1>3, buddyAddSlaveKeeps
<1>4. CASE \E u \in Uin : buddyAddSlave_null(u)
  BY <1>4, NullKeeps
<1>5. CASE \E u \in Number : deleteSlave(u) \/ \E k \in Key \cup {NoKey} : cmdKEY(u, k)
  BY <1>5, deleteSlaveKeeps, cmdKEYKeeps
<1>6. CASE \E t \in Thread : FailsToOpen(t) \/ Copies(t) \/ CopyFaults(t) \/ Truncates(t) \/ Writes(t)
  BY <1>6, FailsToOpenKeeps, CopiesKeeps, CopyFaultsKeeps, TruncatesKeeps, WritesKeeps
<1>7. CASE Crash \/ Restart
  BY <1>7, CrashKeeps, RestartKeeps
<1> QED
  BY <1>1, <1>2, <1>3, <1>4, <1>5, <1>6, <1>7 DEF Next

-----------------------------------------------------------------------------
\* What the daemon has hardly a way to lose: the numbers in the file are those
\* it knew, or what a crash has left of one (setup.c:489, setup.c:556), even when
\* the network thread writes the file together with the prompt.
THEOREM NumbersKnown ==
  ASSUME PlainNicks, CutNumbers, WellStored PROVE Spec => []NothingInvented
<1>1. IInv => NothingInvented
  <2> SUFFICES ASSUME IInv, NEW u \in Numbers(file) \ known
               PROVE  torn /\ \E v \in known : Text[u] \in Cut[Text[v]]
    BY DEF NothingInvented
  <2>1. file \in Seq(Line)
    BY DEF IInv, Types
  <2>2. PICK l \in LinesOf(file) : u \in Number /\ Names(l, u)
    BY <2>1, AllRead
  <2>3. Fine(u, known, torn) /\ u >= MinUin /\ u \in Nat
    BY <2>2, Numeric DEF IInv, Lines, Good, Names
  <2> QED
    BY <2>3 DEF Fine, MinUin
<1> QED
  BY <1>1, InitIInv, NextIInv, PTL DEF Spec

\* Of all that the threads do to the file, only a line that a crash has cut can
\* make deleteSlaveFromDisk dereference a null pointer (setup.c:597).
THEOREM OnlyTornFaults ==
  ASSUME PlainNicks, CutNumbers, WellStored PROVE Spec => []FaultOnlyByTornLine
<1>1. IInv => FaultOnlyByTornLine
  BY DEF IInv, Faults, FaultOnlyByTornLine
<1> QED
  BY <1>1, InitIInv, NextIInv, PTL DEF Spec

-----------------------------------------------------------------------------
\* While one change is made at a time, the file agrees with the memory.

LEMMA ReadAgrees ==
  ASSUME NEW lines \in Seq(Line)
  PROVE  Only(lines, DOMAIN readSlaves(lines)) /\ Each(lines, DOMAIN readSlaves(lines))
  BY AllRead DEF Numbers, Only, Each

LEMMA BeginAgrees ==
  ASSUME IInv, Agree, NEW t \in Thread, proc = "running", Quiet, UNCHANGED <<file, proc, missed>>,
         \/ job' = job /\ DOMAIN contacts' = DOMAIN contacts
         \/ \E j : /\ job' = [job EXCEPT ![t] = j] /\ j.at = "read" /\ j.uin \in DOMAIN contacts'
                   /\ DOMAIN contacts \subseteq DOMAIN contacts'
                   /\ DOMAIN contacts' \ {j.uin} \subseteq DOMAIN contacts
  PROVE  Agree'
<1>1. \A s \in Thread : job[s] = Idle
  BY DEF Quiet
<1>2. Idle.at = "idle"
  BY DEF Idle
<1>3. ~missed => Only(file, DOMAIN contacts) /\ Each(file, DOMAIN contacts)
  BY DEF Agree
<1>4. CASE job' = job /\ DOMAIN contacts' = DOMAIN contacts
  BY <1>1, <1>2, <1>3, <1>4 DEF Agree, Quiet
<1>5. CASE \E j : /\ job' = [job EXCEPT ![t] = j] /\ j.at = "read" /\ j.uin \in DOMAIN contacts'
                  /\ DOMAIN contacts \subseteq DOMAIN contacts'
                  /\ DOMAIN contacts' \ {j.uin} \subseteq DOMAIN contacts
  <2>1. PICK j : /\ job' = [job EXCEPT ![t] = j] /\ j.at = "read" /\ j.uin \in DOMAIN contacts'
                 /\ DOMAIN contacts \subseteq DOMAIN contacts'
                 /\ DOMAIN contacts' \ {j.uin} \subseteq DOMAIN contacts
    BY <1>5
  <2>2. \A s \in Thread : job'[s] = IF s = t THEN j ELSE Idle
    BY <1>1, <2>1 DEF IInv, Types
  <2>3. j # Idle
    BY <2>1, <1>2
  <2>4. ~missed => Only(file, DOMAIN contacts') /\ Each(file, DOMAIN contacts' \ {j.uin})
    BY <1>3, <2>1 DEF Only, Each
  <2>5. ~Quiet'
    BY <2>2, <2>3 DEF Quiet
  <2> QED
    BY <1>2, <2>1, <2>2, <2>3, <2>4, <2>5 DEF Agree
<1> QED
  BY <1>4, <1>5

LEMMA CommandsAgree ==
  ASSUME IInv, Agree, ~Overlap, PlainNicks,
         NEW u, NEW k, \/ addSlave(u, k) /\ u \in Uin /\ k \in TypedNick
                       \/ buddyAddSlave(u, k) /\ u \in Uin /\ k \in RosterNick
                       \/ deleteSlave(u) \/ cmdKEY(u, k)
  PROVE  Agree'
<1>1. proc = "running" /\ Quiet /\ UNCHANGED <<file, proc, missed>>
  BY DEF addSlave, buddyAddSlave, deleteSlave, cmdKEY, MayBegin, Running
<1>2. "ctl" \in Thread /\ "net" \in Thread
  BY DEF Thread
<1>3. ASSUME NEW t \in Thread, u \in Number, k \in Nick, u >= MinUin, u \notin DOMAIN contacts,
             contacts' = AddNew(contacts, u, k, NoKey), known' = known \cup {u},
             Starts(t, Begin("add", u, contacts'[u].nick, "end"))
      PROVE  Agree'
  <2>1. DOMAIN contacts' = DOMAIN contacts \cup {u}
    BY <1>3, ListGrows
  <2> DEFINE j == Begin("add", u, contacts'[u].nick, "end")
  <2>2. j.at = "read" /\ j.uin = u
    BY DEF Begin
  <2>3. job' = [job EXCEPT ![t] = j]
    BY <1>3 DEF Starts
  <2> HIDE DEF j
  <2> QED
    BY <1>1, <2>1, <2>2, <2>3, BeginAgrees
<1>4. ASSUME u \in DOMAIN contacts, NEW then, DOMAIN contacts' = DOMAIN contacts,
             Starts("ctl", Begin("remove", u, contacts[u].nick, then))
      PROVE  Agree'
  <2> DEFINE j == Begin("remove", u, contacts[u].nick, then)
  <2>1. j.at = "read" /\ j.uin = u
    BY DEF Begin
  <2>2. job' = [job EXCEPT !["ctl"] = j]
    BY <1>4 DEF Starts
  <2> HIDE DEF j
  <2> QED
    BY <1>1, <1>2, <1>4, <2>1, <2>2, BeginAgrees
<1>5. CASE addSlave(u, k) /\ u \in Uin /\ k \in TypedNick
  <2>1. u \in Number /\ k \in Nick
    BY <1>5, NicksGiven, FieldAssumption
  <2> QED
    BY <1>2, <1>3, <1>5, <2>1 DEF addSlave
<1>6. CASE buddyAddSlave(u, k) /\ u \in Uin /\ k \in RosterNick
  <2>1. u \in Number /\ k \in Nick
    BY <1>6, NicksGiven, FieldAssumption
  <2>2. CASE u \in DOMAIN contacts
    <3>1. job' = job /\ DOMAIN contacts' = DOMAIN contacts
      BY <1>6, <2>2 DEF buddyAddSlave
    <3> QED
      BY <1>1, <1>2, <3>1, BeginAgrees
  <2>3. CASE u \notin DOMAIN contacts
    BY <1>2, <1>3, <1>6, <2>1, <2>3 DEF buddyAddSlave
  <2> QED
    BY <2>2, <2>3
<1>7. CASE deleteSlave(u)
  BY <1>4, <1>7 DEF deleteSlave
<1>8. CASE cmdKEY(u, k)
  BY <1>4, <1>8 DEF cmdKEY
<1> QED
  BY <1>5, <1>6, <1>7, <1>8

\* The thread that changes the file is the only one.
LEMMA Alone ==
  ASSUME Agree, NEW t \in Thread, job[t] # Idle
  PROVE  /\ \A s \in Thread \ {t} : job[s] = Idle
         /\ ~Quiet /\ job[t].uin \in DOMAIN contacts
  BY DEF Agree, Quiet

LEMMA Stopped ==
  ASSUME NEW how \in {"down", "noNumberFault", "noNickFault"}, Dies(how) PROVE Agree'
  BY DEF Dies, Agree

\* Once a change has ended, no file is wanted but that of the contact that is
\* added again.
LEMMA EndsAgree ==
  ASSUME IInv, Agree, NEW t \in Thread, job[t] # Idle, Ends(t), UNCHANGED proc,
         ~missed' => /\ job[t].op = "add" =>
                          Only(file', DOMAIN contacts) /\ Each(file', DOMAIN contacts)
                     /\ job[t].op = "remove" =>
                          Only(file', DOMAIN contacts \ {job[t].uin}) /\ Each(file', DOMAIN contacts \ {job[t].uin})
  PROVE  Agree'
<1> DEFINE u == job[t].uin
<1>1. \A s \in Thread \ {t} : job[s] = Idle
  BY Alone
<1>2. u \in DOMAIN contacts
  BY Alone
<1>3. job[t].then \in {"end", "unlink", "add"} /\ job[t].op \in {"add", "remove"} /\ (job[t].op = "add" <=> job[t].then = "end")
  BY Doing DEF IInv, Jobs
<1>4. Idle.at = "idle"
  BY DEF Idle
<1>5. CASE job[t].then = "end"
  <2>1. contacts' = contacts /\ \A s \in Thread : job'[s] = Idle
    BY <1>1, <1>5 DEF Ends, Starts, IInv, Types
  <2> QED
    BY <1>3, <1>4, <1>5, <2>1 DEF Agree
<1>6. CASE job[t].then = "unlink"
  <2>1. DOMAIN contacts' = DOMAIN contacts \ {u} /\ \A s \in Thread : job'[s] = Idle
    BY <1>1, <1>6 DEF Ends, Starts, IInv, Types
  <2> QED
    BY <1>3, <1>4, <1>6, <2>1 DEF Agree
<1>7. CASE job[t].then = "add"
  <2> DEFINE j == Begin("add", u, contacts[u].nick, "end")
  <2>1. j.at = "read" /\ j.uin = u
    BY DEF Begin
  <2>2. contacts' = contacts /\ job' = [job EXCEPT ![t] = j]
    BY <1>7 DEF Ends, Starts
  <2> HIDE DEF j, u
  <2>3. \A s \in Thread : job'[s] = IF s = t THEN j ELSE Idle
    BY <1>1, <2>2 DEF IInv, Types
  <2>4. j # Idle
    BY <2>1, <1>4
  <2>5. ~missed' => Only(file', DOMAIN contacts) /\ Each(file', DOMAIN contacts \ {u})
    BY <1>3, <1>7 DEF Only, Each, u
  <2>6. ~Quiet'
    BY <2>3, <2>4 DEF Quiet
  <2> QED
    BY <1>2, <1>4, <2>1, <2>2, <2>3, <2>4, <2>5, <2>6 DEF Agree
<1> QED
  BY <1>3, <1>5, <1>6, <1>7

LEMMA FailsAgree == ASSUME IInv, Agree, NEW t \in Thread, FailsToOpen(t) PROVE Agree'
<1>1. job[t].at \in {"read", "truncate"} /\ Ends(t) /\ missed' = TRUE /\ UNCHANGED proc
  BY DEF FailsToOpen, AtStep
<1>2. job[t] # Idle
  BY <1>1, Whence DEF IInv
<1> QED
  BY <1>1, <1>2, EndsAgree

LEMMA WritesAgree == ASSUME IInv, Agree, NEW t \in Thread, Writes(t) PROVE Agree'
<1>1. /\ job[t].at = "write" /\ proc = "running" /\ Ends(t) /\ UNCHANGED <<proc, missed>>
      /\ file' = tmp[t] \o SubSeq(file, Len(tmp[t]) + 1, Len(file))
  BY DEF Writes, AtStep, Running
<1>2. job[t] # Idle
  BY <1>1, Whence DEF IInv
<1>3. ASSUME ~missed PROVE file' = tmp[t]
  <2>1. file = <<>> /\ tmp[t] \in Seq(Line)
    BY <1>1, <1>3 DEF IInv, Types, Agree
  <2>2. Len(file) < Len(tmp[t]) + 1 /\ Len(file) \in Int /\ Len(tmp[t]) + 1 \in Int
    BY <2>1, LenProperties
  <2>3. SubSeq(file, Len(tmp[t]) + 1, Len(file)) = <<>>
    BY <2>2, SubSeqEmpty
  <2> QED
    BY <1>1, <2>1, <2>3, ConcatEmptySeq
<1>4. ~missed' => /\ job[t].op = "add" => Only(file', DOMAIN contacts) /\ Each(file', DOMAIN contacts)
                  /\ job[t].op = "remove" =>
                       Only(file', DOMAIN contacts \ {job[t].uin}) /\ Each(file', DOMAIN contacts \ {job[t].uin})
  BY <1>1, <1>3 DEF Agree
<1> QED
  BY <1>1, <1>2, <1>4, EndsAgree

LEMMA TruncatesAgree == ASSUME IInv, Agree, NEW t \in Thread, Truncates(t) PROVE Agree'
<1>1. /\ job[t].at = "truncate" /\ proc = "running" /\ job' = [job EXCEPT ![t].at = "write"]
      /\ file' = <<>> /\ UNCHANGED <<tmp, contacts, missed, proc>>
  BY DEF Truncates, AtStep, Running
<1>2. job[t] # Idle
  BY <1>1, Whence DEF IInv
<1>3. /\ \A s \in Thread \ {t} : job'[s] = Idle
      /\ job'[t].at = "write" /\ job'[t].op = job[t].op /\ job'[t].uin = job[t].uin
  BY <1>1, <1>2, Advances, Alone
<1>4. job'[t] # Idle /\ Idle.at = "idle"
  BY <1>3 DEF Idle
<1>5. ~Quiet'
  BY <1>4 DEF Quiet
<1>6. job[t].uin \in DOMAIN contacts
  BY <1>2, Alone
<1> QED
  BY <1>1, <1>3, <1>4, <1>5, <1>6 DEF Agree

LEMMA CopiesAgree == ASSUME IInv, Agree, NEW t \in Thread, Copies(t) PROVE Agree'
<1>1. /\ job[t].at = "read" /\ proc = "running" /\ job' = [job EXCEPT ![t].at = "truncate"]
      /\ UNCHANGED <<file, contacts, missed, proc>>
  BY DEF Copies, AtStep, Running
<1>2. job[t] # Idle
  BY <1>1, Whence DEF IInv
<1> DEFINE u == job[t].uin
<1>3. /\ job[t].op \in {"add", "remove"} /\ u \in Number /\ job[t].nick \in Nick /\ u >= MinUin
      /\ u \in DOMAIN contacts /\ DOMAIN contacts \subseteq Number
  BY <1>2, Doing, Alone DEF IInv, Jobs, Types, IsList
<1>4. file \in Seq(Line) /\ \A l \in LinesOf(file) : WellFormed(l)
  BY DEF IInv, Types, Lines, Good
<1>5. ~missed => Only(file, DOMAIN contacts) /\ Each(file, DOMAIN contacts \ {u})
  BY <1>1 DEF Agree
<1>6. /\ \A s \in Thread \ {t} : job'[s] = Idle
      /\ job'[t].at = "truncate" /\ job'[t].op = job[t].op /\ job'[t].uin = u
  BY <1>1, <1>2, Advances, Alone
<1>7. job'[t] # Idle /\ Idle.at = "idle"
  BY <1>6 DEF Idle
<1>8. ~Quiet'
  BY <1>7 DEF Quiet
<1>9. CASE job[t].op = "add"
  <2> DEFINE new == addLine(file, job[t].nick, u)
             e == lineOf(job[t].nick, u)
  <2>1. tmp'[t] = new
    BY <1>9 DEF Copies, IInv, Types
  <2>2. \A l : l \in LinesOf(new) <=> l = e \/ l \in LinesOf(file)
    BY <1>3, <1>4, LinesAdded
  <2>3. (Read(e) => NumberOf(e) = u \/ NumberOf(e) < MinUin) /\ (Names(e, u) \/ Hides(e, u))
    BY <1>3, LineAdded
  <2> HIDE DEF new, e, u
  <2>4. ~missed => Only(new, DOMAIN contacts)
    <3> SUFFICES ASSUME ~missed, NEW l \in LinesOf(new), NEW v \in Number, Names(l, v)
                 PROVE  v \in DOMAIN contacts
      BY DEF Only
    <3>1. CASE l = e
      <4>1. v \in Nat /\ v = NumberOf(e) /\ Read(e) /\ v >= MinUin
        BY <3>1, Numeric DEF Names
      <4> QED
        BY <4>1, <1>3, <2>3 DEF MinUin
    <3>2. CASE l \in LinesOf(file)
      BY <3>2, <1>5 DEF Only
    <3> QED
      BY <2>2, <3>1, <3>2
  <2>5. ~missed => Each(new, DOMAIN contacts)
    BY <1>5, <2>2, <2>3 DEF Each
  <2> QED
    BY <1>1, <1>3, <1>6, <1>7, <1>8, <1>9, <2>1, <2>4, <2>5 DEF Agree
<1>10. CASE job[t].op = "remove"
  <2> DEFINE new == removeLine(file, u)
  <2>1. tmp'[t] = new /\ \A l \in LinesOf(file) : ~NoNumber(l)
    BY <1>10 DEF Copies, LinesOf, IInv, Types
  <2>2. \A l \in LinesOf(file) : /\ WellFormed(Printed(l)) /\ (Read(Printed(l)) <=> Read(l))
                                 /\ Read(l) => NumberOf(Printed(l)) = NumberOf(l)
                                 /\ \A v \in Number : Hides(l, v) => Hides(Printed(l), v)
    BY <1>4, <2>1, PrintedSame
  <2>3. \A p : p \in LinesOf(new) <=> \E l \in LinesOf(file) : Keeps(l, u) /\ p = Printed(l)
    BY <1>4, <2>2, Removed DEF WellFormed
  <2>4. \A l \in LinesOf(file) : Keeps(l, u) <=> ~(Read(l) /\ NumberOf(l) = u)
    BY <1>4, <2>1, KeepsOthers
  <2> HIDE DEF new, u
  <2>5. ~missed => Only(new, DOMAIN contacts \ {u})
    <3> SUFFICES ASSUME ~missed, NEW p \in LinesOf(new), NEW v \in Number, Names(p, v)
                 PROVE  v \in DOMAIN contacts \ {u}
      BY DEF Only
    <3>1. PICK l \in LinesOf(file) : Keeps(l, u) /\ p = Printed(l)
      BY <2>3
    <3>2. Names(l, v) /\ v # u
      BY <2>2, <2>4, <3>1 DEF Names
    <3> QED
      BY <1>5, <3>2 DEF Only
  <2>6. ~missed => Each(new, DOMAIN contacts \ {u})
    <3> SUFFICES ASSUME ~missed, NEW v \in DOMAIN contacts \ {u}
                 PROVE  \E p \in LinesOf(new) : Names(p, v) \/ Hides(p, v)
      BY DEF Each
    <3>1. PICK l \in LinesOf(file) : Names(l, v) \/ Hides(l, v)
      BY <1>5 DEF Each
    <3>2. v \in Number /\ v # u
      BY <1>3
    <3>3. Keeps(l, u)
      <4>1. CASE Names(l, v)
        BY <4>1, <2>4, <3>2 DEF Names
      <4>2. CASE Hides(l, v)
        <5> SUFFICES ASSUME Read(l), NumberOf(l) = u PROVE FALSE
          BY <2>4
        <5>1. l.f[1] \notin Hash
          BY <1>4, Fields DEF WellFormed
        <5>2. u < MinUin /\ u \in Nat
          BY <1>3, <4>2, <5>1, Numeric DEF Hides
        <5> QED
          BY <1>3, <5>2 DEF MinUin
      <4> QED
        BY <3>1, <4>1, <4>2
    <3>4. Printed(l) \in LinesOf(new)
      BY <2>3, <3>1, <3>3
    <3>5. Names(Printed(l), v) \/ Hides(Printed(l), v)
      BY <2>2, <3>1, <3>2 DEF Names
    <3> QED
      BY <3>4, <3>5
  <2> QED
    BY <1>1, <1>3, <1>6, <1>7, <1>8, <1>10, <2>1, <2>5, <2>6 DEF Agree
<1> QED
  BY <1>3, <1>9, <1>10

LEMMA RestartAgrees == ASSUME IInv, Restart PROVE Agree'
<1>1. proc # "running" /\ contacts' = readSlaves(file) /\ UNCHANGED <<file, job>>
  BY DEF Restart, Running
<1>2. \A t \in Thread : job'[t] = Idle
  BY <1>1 DEF IInv, Jobs
<1>3. Only(file', DOMAIN contacts') /\ Each(file', DOMAIN contacts')
  BY <1>1, ReadAgrees DEF IInv, Types
<1> QED
  BY <1>2, <1>3 DEF Agree, Idle

LEMMA InitAgrees == ASSUME WellStored, Init PROVE Agree
<1>1. \A t \in Thread : job[t] = Idle
  BY DEF Init
<1>2. Only(file, DOMAIN contacts) /\ Each(file, DOMAIN contacts)
  BY ReadAgrees DEF Init, WellStored
<1> QED
  BY <1>1, <1>2 DEF Agree, Idle

LEMMA NextAgrees == ASSUME PlainNicks, ~Overlap, IInv, Agree, [Next]_vars PROVE Agree'
<1>1. CASE UNCHANGED vars
  BY <1>1 DEF vars, Agree, Quiet
<1>2. CASE \E u \in Uin : (\E k \in TypedNick : addSlave(u, k)) \/ \E k \in RosterNick : buddyAddSlave(u, k)
  BY <1>2, CommandsAgree
<1>3. CASE \E u \in Uin : buddyAddSlave_null(u)
  BY <1>3, Stopped DEF buddyAddSlave_null
<1>4. CASE \E u \in Number : deleteSlave(u) \/ \E k \in Key \cup {NoKey} : cmdKEY(u, k)
  BY <1>4, CommandsAgree
<1>5. CASE \E t \in Thread : FailsToOpen(t) \/ Copies(t) \/ Truncates(t) \/ Writes(t)
  BY <1>5, FailsAgree, CopiesAgree, TruncatesAgree, WritesAgree
<1>6. CASE \E t \in Thread : CopyFaults(t)
  BY <1>6, Stopped DEF CopyFaults
<1>7. CASE Crash
  BY <1>7, Stopped DEF Crash
<1>8. CASE Restart
  BY <1>8, RestartAgrees
<1> QED
  BY <1>1, <1>2, <1>3, <1>4, <1>5, <1>6, <1>7, <1>8 DEF Next

-----------------------------------------------------------------------------
\* A contact that was deleted does not come back with the next start, whatever
\* crashes and failures there were before (setup.c:550, slaves.c:33).
THEOREM DeletedStayDeleted ==
  ASSUME PlainNicks, CutNumbers, WellStored, ~Overlap PROVE Spec => []NoneReturns
<1>1. IInv /\ Agree => NoneReturns
  <2> SUFFICES ASSUME IInv, Agree, Running, Quiet, ~missed, NEW u \in Numbers(file)
               PROVE  u \in DOMAIN contacts
    BY DEF NoneReturns
  <2>1. file \in Seq(Line)
    BY DEF IInv, Types
  <2>2. PICK l \in LinesOf(file) : u \in Number /\ Names(l, u)
    BY <2>1, AllRead
  <2> QED
    BY <2>2 DEF Agree, Only, Running
<1> QED
  BY <1>1, InitIInv, NextIInv, InitAgrees, NextAgrees, PTL DEF Spec

\* A contact that the next start would lose has a nickname that the format
\* cannot hold: with a colon in it, or beginning a comment (setup.c:508).
THEOREM OthersNotLost ==
  ASSUME PlainNicks, CutNumbers, WellStored, ~Overlap PROVE Spec => []OnlyOddNicksLost
<1>1. IInv /\ Agree => OnlyOddNicksLost
  <2> SUFFICES ASSUME IInv, Agree, Running, Quiet, ~missed, NEW u \in DOMAIN contacts \ Numbers(file)
               PROVE  \E i \in DOMAIN file :
                        /\ \E j \in DOMAIN file[i].f : file[i].f[j] = Text[u]
                        /\ file[i].f[1] \in Hash \/ file[i].f[2] # Text[u]
    BY DEF OnlyOddNicksLost
  <2>1. file \in Seq(Line) /\ u \in Number /\ u >= MinUin /\ u \in Nat
    BY Remembered, Numeric DEF IInv, Types
  <2>2. PICK l \in LinesOf(file) : Names(l, u) \/ Hides(l, u)
    BY DEF Agree, Each, Running
  <2>3. Hides(l, u)
    BY <2>1, <2>2, AllRead
  <2>4. Atol[Text[u]] = u
    BY <2>1, FieldAssumption
  <2>5. l.f[1] \in Hash \/ l.f[2] # Text[u]
    BY <2>1, <2>3, <2>4 DEF Hides, NumberOf, MinUin
  <2> QED
    BY <2>3, <2>5 DEF Hides, LinesOf
<1> QED
  BY <1>1, InitIInv, NextIInv, InitAgrees, NextAgrees, PTL DEF Spec
=============================================================================
