----------------------------- MODULE MCControl -----------------------------
(* Lines for TLC: every way blanks stand around words, every outcome of the  *)
(* lookup, a lone CR inside a line, and lines that just fill argv or overrun *)
(* it, by a word or by the blank behind the last one.                        *)
EXTENDS Control

MCLines ==
  { <<"U", "p">>, <<" ", "u", "p", " ">>, <<"A", " ", " ", "x", " ", "y">>,
    <<"d", "e", " ", " ", "x">>, <<"a", "d", " ", "x", " ">>, <<" ", " ">>,
    <<"x", CR, "y">>, <<"Q">>,
    <<"a", " ", "x", " ", "y", " ", "x">>, <<"d", " ", "x", " ", "y", " ", "x", " ">>,
    <<"d", " ", "x", " ", "y", " ", " ", "x", " ", "y">> }
=============================================================================
