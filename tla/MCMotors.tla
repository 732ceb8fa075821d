------------------------------ MODULE MCMotors ------------------------------
(***************************************************************************)
(* Motors for TLC: two motors, used alone and as a pair, and one target on *)
(* a chained layer.  Two calls, a movement and one that disturbs it, with  *)
(* any number of initialisations and exits before, between and after them. *)
(***************************************************************************)
EXTENDS Motors

CONSTANTS A, B

MCDirections == {-1}

MCTargets == {[layer |-> "master", on |-> {A}], [layer |-> "master", on |-> {A, B}],
              [layer |-> "chained", on |-> {A}]}
==============================================================================
