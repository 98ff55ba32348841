---------------------------- MODULE MCCompletion ----------------------------
(* Instances of Completion for TLC: a queue of three entries, used for more *)
(* than two rounds so that the phase tag turns both ways.                  *)
EXTENDS Completion, TLC

CONSTANTS w1, w2

BothWorkers == {w1, w2}
FirstOnly   == {w1}
=============================================================================
