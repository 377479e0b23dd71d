------------------------------- MODULE MC_Conf -------------------------------
(* Conf for TLC.  Four builder calls are enough to configure one backend, *)
(* switch to another, enable a cache and enable validation or prefetch   *)
(* before the dumps, which are not counted.                              *)
EXTENDS Conf

MCMaxCalls == 4

=============================================================================
