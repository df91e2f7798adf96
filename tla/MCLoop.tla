-------------------------------- MODULE MCLoop --------------------------------
(***************************************************************************)
(* The listener thread with interchangeable mappers: nothing orders them,  *)
(* and every property of the run is one of steps and states.               *)
(***************************************************************************)
EXTENDS ResponderLoop, TLC

MapperSymmetry == Permutations(Mappers)
===============================================================================
