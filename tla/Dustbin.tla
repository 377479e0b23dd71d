------------------------------- MODULE Dustbin -------------------------------
(***************************************************************************)
(* The teardown discipline a test session relies on (spec 4.3): a local   *)
(* file comes into existence only registered with the dustbin, a          *)
(* registration is dropped only by the teardown, which unlinks every      *)
(* registered path, and anything else only unlinks files.                 *)
(***************************************************************************)
VARIABLES
    files,   \* the local files that exist
    bin      \* the paths registered for the teardown

dvars == <<files, bin>>

Init ==
    /\ files = {}
    /\ bin = {}

(* A build writes files, each of them registered. *)
Produce ==
    /\ files \subseteq files'
    /\ bin \subseteq bin'
    /\ files' \ files \subseteq bin'

(* clean_up() and the like remove files and leave the dustbin alone. *)
Unlink ==
    /\ files' \subseteq files
    /\ bin' = bin

Teardown ==
    /\ files' = files \ bin
    /\ bin' = {}

Next == Produce \/ Unlink \/ Teardown

Spec == Init /\ [][Next]_dvars

=============================================================================
