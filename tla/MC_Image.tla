------------------------------ MODULE MC_Image -------------------------------
(* Image for TLC: two RafsImage objects whose rootfs have distinct content *)
(* ids, so a shared id arises only from parent chaining. Two create_image *)
(* calls per object reach the rebuild; one would hide it.                 *)
EXTENDS Image

CONSTANTS i1, i2, b1, b2

MCContent == [i \in {i1, i2} |-> IF i = i1 THEN b1 ELSE b2]
MCMaxBuilds == 2

=============================================================================
