----------------------------- MODULE MCReactor -----------------------------
(***************************************************************************)
(* The reactor on a small instance.                                        *)
(***************************************************************************)
EXTENDS Reactor

TwoByteFrames == [g \in 1..MaxGen |-> 2]

GrowingFrames == [g \in 1..MaxGen |-> g]
============================================================================
