--------------------------- MODULE MCOutboxReplay ----------------------------
(* A small instance of OutboxReplay: two versions of one aggregate, the later *)
(* one with the earlier event_time, one event of another aggregate, and two  *)
(* relays.                                                                   *)
EXTENDS OutboxReplay, TLC

CONSTANTS a1, a2, r1, r2

MCEvents == 1 .. 3
MCAgg == (1 :> a1) @@ (2 :> a2) @@ (3 :> a1)
MCVer == (1 :> 2) @@ (2 :> 1) @@ (3 :> 1)
MCRelays == {r1, r2}
RelaySymmetry == Permutations(MCRelays)
=============================================================================
