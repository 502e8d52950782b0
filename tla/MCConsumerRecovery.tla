------------------------- MODULE MCConsumerRecovery --------------------------
(* A small instance of ConsumerRecovery: two versions of one aggregate, and  *)
(* an event of a test run.                                                   *)
EXTENDS ConsumerRecovery

CONSTANTS a1, a2, w1

MCEvents == 1 .. 3
MCAgg == [e \in MCEvents |-> IF e = 3 THEN a2 ELSE a1]
MCVer == [e \in MCEvents |-> IF e = 3 THEN 1 ELSE e]
MCKinds == {[e \in MCEvents |-> IF e = 3 THEN "test" ELSE "plain"]}
=============================================================================
