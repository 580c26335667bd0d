------------------------------ MODULE MCServer ------------------------------
(***************************************************************************)
(* The whole server on a small instance.                                   *)
(***************************************************************************)
EXTENDS Server

OneByteFrames == [g \in 1..MaxGen |-> 1]
============================================================================
