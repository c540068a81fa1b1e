------------------------------ MODULE MCEntitySync ------------------------------
(***************************************************************************)
(* Instances of EntitySync for TLC: a note and an entity of a later type.  *)
(***************************************************************************)
EXTENDS EntitySync

CONSTANTS note, course

MCTypeOf == [e \in Entities |-> IF e = note THEN 1 ELSE 2]
================================================================================
