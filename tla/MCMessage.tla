----------------------------- MODULE MCMessage -----------------------------
EXTENDS Message

\* "AB", "é", a bell and a tab, five separators and a reason, and a text that
\* the enciphered form cuts short; from others, one whose length with its bytes
\* swapped is 1.
MCTexts == {<<65, 66>>, <<233>>, <<7, 9, 65>>, <<254, 254, 254, 254, 254, 65>>,
            [i \in 1 .. 39 |-> 64 + i]}
MCLetters == MCTexts \cup {[i \in 1 .. 256 |-> 65]}

\* Right and wrong: nothing; half a head; a head alone; a text of format 1; one
\* without the bytes before it; an inner length, an outer length and a length of
\* format 4 beyond the end; an empty TLV and half of another; format 2 with an
\* unknown command, cut before its TLVs, and with what is looked for.
MCGarbled ==
    {<<>>, <<0>>, <<0, 5>>, <<0, 2, 0, 0>>,
     <<0, 2, 0, 9, 1, 1, 0, 5, 0, 2, 0, 0, 65>>, <<0, 2, 0, 4, 1, 1, 0, 0>>, <<0, 2, 0, 5, 1, 1, 0, 1, 0>>,
     <<0, 2, 0, 99, 1, 1, 0, 90, 0, 0, 0, 0, 65>>, <<0, 2, 0, 99, 1, 1, 0, 5, 0, 0, 0, 0, 65>>,
     <<0, 2, 0, 6, 5, 1, 0, 0, 1, 1>>,
     <<0, 5, 0, 9, 49, 0, 0, 0, 1, 0, 255, 255, 65>>, <<0, 5, 0, 2, 49, 0>>,
     <<0, 5, 0, 2, 0, 9>>, <<0, 5, 0, 26>> \o Zeros(24),
     <<0, 5, 0, 99>> \o Zeros(26) \o <<39, 17, 0, 0>> \o Zeros(18) \o <<1, 0, 0, 0, 2, 0, 1, 0, 0>>,
     <<0, 5, 0, 99>> \o Zeros(26) \o <<39, 17, 0, 0>> \o Zeros(18) \o <<1, 0, 0, 0, 33, 0, 2, 0, 65, 0>>
        \o Zeros(8) \o <<39, 0, 0, 0>> \o [i \in 1 .. 38 |-> 48] \o <<0>>}
=============================================================================
