-------------------------------- MODULE Null --------------------------------
(* The null pointer, which the containers share: a container that was not  *)
(* created, or was destroyed, is NULL.                                     *)
CONSTANT NULL
=============================================================================
