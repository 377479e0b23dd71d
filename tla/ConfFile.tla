------------------------------- MODULE ConfFile -------------------------------
(***************************************************************************)
(* What the nydusd config file of a RafsConf promises (spec 3), stated     *)
(* without the builder's setters: the document may change in any way, and *)
(* that makes the file stale; a dump overwrites the file with exactly the  *)
(* current document, and the dump itself may change only the cache        *)
(* section of the document.                                                *)
(***************************************************************************)
EXTENDS Sequences

CONSTANT CachePaths   \* the attribute paths of device.cache

VARIABLES
    doc,     \* the document the builder holds
    file,    \* the documents in the config file
    stale    \* the document has changed since the last dump

avars == <<doc, file, stale>>

(* A dump keeps every setting outside the cache section, and adds only   *)
(* cache settings.                                                        *)
KeepsSettings(d, e) ==
    /\ DOMAIN d \subseteq DOMAIN e
    /\ \A p \in DOMAIN d \ CachePaths : e[p] = d[p]
    /\ DOMAIN e \ DOMAIN d \subseteq CachePaths

Init ==
    /\ file = << >>
    /\ stale = TRUE

Edit ==
    /\ stale' = TRUE
    /\ UNCHANGED file

Dump ==
    /\ KeepsSettings(doc, doc')
    /\ file' = <<doc'>>
    /\ stale' = FALSE

Next == Edit \/ Dump

Spec == Init /\ [][Next]_avars

=============================================================================
