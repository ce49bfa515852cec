-------------------------------- MODULE Login --------------------------------
(***************************************************************************)
(* What the session promises: a login goes through the authorization server *)
(* and then, with the cookie obtained there, to the BOS server.  Only the   *)
(* exchange that passes the cookie on makes the client online; the session  *)
(* may drop, or the daemon exit, at any time.                               *)
(***************************************************************************)
VARIABLES
    phase,      \* "offline", "auth", "handover", "online" or "exited"
    talksTo     \* the server of the session: "none", "auth" or "bos"

Init == phase = "offline" /\ talksTo = "none"

SignIn   == phase = "offline"  /\ phase' = "auth"     /\ talksTo' = "auth"
Redirect == phase = "auth"     /\ phase' = "handover" /\ talksTo' = "none"
Welcome  == phase = "handover" /\ phase' = "online"   /\ talksTo' = "bos"
Drop     == phase \in {"auth", "online"} /\ phase' = "offline" /\ talksTo' = "none"
Exit     == phase # "exited" /\ phase' = "exited" /\ talksTo' = "none"

Next == SignIn \/ Redirect \/ Welcome \/ Drop \/ Exit

Spec == Init /\ [][Next]_<<phase, talksTo>>
==============================================================================
