------------------------------ MODULE MCDirect ------------------------------
(* Two contacts and two connections, for TLC.  Contacts are interchangeable,  *)
(* so the first connection may be the first contact's.                        *)
EXTENDS Direct

CONSTANTS s1, s2
MCSlave == {s1, s2}
MCCallers == <<{s1}, {s1, s2}>>
=============================================================================
