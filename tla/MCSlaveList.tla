---------------------------- MODULE MCSlaveList -----------------------------
(* Instances of SlaveList for TLC.                                          *)
EXTENDS SlaveList, TLC

MCUinNick == [u \in Uin |-> ToString(u)]

(* strcasecmp puts digits before letters and takes "Bob" and "bob" for one. *)
MCFold == [k \in Nick |-> CASE k \in {"bob", "Bob"} -> 2 * MinUin + 1
                             [] k = "amy" -> 2 * MinUin
                             [] OTHER -> CHOOSE u \in Uin : MCUinNick[u] = k]

Symmetry == Permutations(Node)
==============================================================================
