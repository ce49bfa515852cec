----------------------------- MODULE MCSlaveFile -----------------------------
EXTENDS SlaveFile, TLC

(* Two contacts; the number of one may lose its last digit and still be one. *)
UinDef == {230001, 31000}
TextDef == 230001 :> "230001" @@ 31000 :> "31000" @@ 23000 :> "23000"
FieldDef == {"", "bob", "bo", "amy", "#amy", "230001", "23000", "31000", "310", "f00"}
AtolDef == [f \in FieldDef |-> CASE f = "230001" -> 230001 [] f = "23000" -> 23000
                                 [] f = "31000" -> 31000 [] OTHER -> 0]
CutDef == [f \in FieldDef |-> CASE f = "230001" -> {"23000"} [] f = "31000" -> {"310"}
                                [] f = "bob" -> {"bo"} [] OTHER -> {}]
TypedNickDef == {<<"bob">>, <<"bob", "amy">>, <<"#amy">>}
RosterNickDef == {<<"bob">>}

(* Written by hand: a contact with a key.      *)
StoredDef == <<[f |-> <<"amy", "31000", "f00">>, nl |-> TRUE]>>

(* The theorems of SlaveFile_proofs are about these texts too.              *)
ASSUME TextAssumption == PlainNicks /\ CutNumbers /\ WellStored
==============================================================================
