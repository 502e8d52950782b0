---------------------------- MODULE MCOutboxRelay ----------------------------
(* A small instance of OutboxRelay: two versions of one aggregate, the later *)
(* one with the earlier event_time, and one event of another aggregate.      *)
EXTENDS OutboxRelay, TLC

CONSTANTS a1, a2, r1, r2

MCEvents == 1 .. 3
MCAgg == (1 :> a1) @@ (2 :> a2) @@ (3 :> a1)
MCVer == (1 :> 2) @@ (2 :> 1) @@ (3 :> 1)
MCRelays == {r1, r2}
=============================================================================
