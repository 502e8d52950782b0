--------------------------- MODULE MCEventDelivery ---------------------------
(* A small instance of EventDelivery: three versions of one aggregate, the   *)
(* last with an envelope that the consumer does not accept.                  *)
EXTENDS EventDelivery

CONSTANTS a1, r1, w1

MCEvents == 1 .. 3
MCAgg == [e \in MCEvents |-> a1]
MCVer == [e \in MCEvents |-> e]
MCKinds == {[e \in MCEvents |-> IF e = 3 THEN "malformed" ELSE "plain"]}
=============================================================================
