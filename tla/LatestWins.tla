----------------------------- MODULE LatestWins -----------------------------
(***************************************************************************)
(* What one stream subscriber is promised, without buffers or offsets: the *)
(* server holds at most one generation it is committed to deliver and one  *)
(* it may still replace; a newer generation takes the place of the         *)
(* replaceable one; committed generations are delivered whole, in order.   *)
(* Generation 0 means none.                                                *)
(***************************************************************************)
EXTENDS Naturals

CONSTANT Gen            \* the generations that can be published

VARIABLES offered,    \* the generation that may still be replaced
          sending,    \* the generation the subscriber has a part of
          delivered   \* the last generation it has complete

vars == <<offered, sending, delivered>>

Init == offered = 0 /\ sending = 0 /\ delivered = 0

\* The newest generation this subscriber has been given in any form.
Newest == IF offered # 0 THEN offered ELSE IF sending # 0 THEN sending ELSE delivered

Offer(g) ==
    /\ g >= Newest
    /\ offered' = g
    /\ UNCHANGED <<sending, delivered>>

Commit ==
    /\ sending = 0 /\ offered # 0
    /\ sending' = offered /\ offered' = 0
    /\ UNCHANGED delivered

Deliver ==
    /\ sending # 0
    /\ delivered' = sending /\ sending' = 0
    /\ UNCHANGED offered

\* A frame small enough to leave in one send is committed and delivered at once.
CommitAndDeliver ==
    /\ sending = 0 /\ offered # 0
    /\ delivered' = offered /\ offered' = 0
    /\ UNCHANGED sending

Next == (\E g \in Gen : Offer(g)) \/ Commit \/ Deliver \/ CommitAndDeliver

Spec == Init /\ [][Next]_vars
============================================================================
