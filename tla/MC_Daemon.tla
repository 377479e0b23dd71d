----------------------------- MODULE MC_Daemon ------------------------------
(* Model-checking instance of Daemon: a 2-iteration budget stands for the *)
(* 300 of the code; one extra loop iteration is enough to see the budget  *)
(* overrun, and three launches let two earlier daemons stay alive beside  *)
(* self.p.                                                                  *)
EXTENDS Daemon

MCTimeout == 2
MCMaxLaunch == 3
MCMaxPolls == 3

=============================================================================
