--------------------------------- MODULE MCSsi ---------------------------------
(* Small instances of Ssi: one contact is on the server, the other is not.  *)
EXTENDS Ssi

CONSTANTS s1, s2

TwoContacts == <<s1, s2>>
NoneStored == {}
OneStored == {[type |-> "slave", grp |-> "ysm", id |-> 1, slave |-> s1]}
================================================================================
