--------------------------- MODULE MCInboxConsumer ---------------------------
(* A small instance of InboxConsumer: two versions of one aggregate, handled *)
(* by two processes; an event of a test run and one without an envelope; an  *)
(* event of another tenant and one of this tenant.                           *)
EXTENDS InboxConsumer, TLC

CONSTANTS a1, w1, w2

MCEvents == 1 .. 2
MCAgg == [e \in MCEvents |-> a1]
MCVer == [e \in MCEvents |-> e]
MCKinds == {[e \in MCEvents |-> "plain"],
            [e \in MCEvents |-> IF e = 1 THEN "test" ELSE "malformed"],
            [e \in MCEvents |-> IF e = 1 THEN "foreign" ELSE "plain"]}
MCWorkers == {w1, w2}
WorkerSymmetry == Permutations(MCWorkers)
=============================================================================
