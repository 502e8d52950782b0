-------------------------- MODULE DeliveryContract ---------------------------
(***************************************************************************)
(* What a consumer of @gremion/events promises about the events of one     *)
(* tenant, whatever is redelivered, replayed or retried below it: every    *)
(* event is applied at most once, no version of an aggregate is applied    *)
(* after a later one, an event is dropped only when a later version was    *)
(* applied already or when it belongs to a test run, and neither verdict   *)
(* is ever revised (TRD-421, the inbox of consumer.ts).                    *)
(***************************************************************************)
EXTENDS Naturals

CONSTANTS Events, Agg, Ver

VARIABLES testRuns, \* the events of test runs, the same for ever
          fate,     \* fate[e]: "open", "applied" or "dropped"
          newest    \* newest[a]: the version of aggregate a that was applied last, 0 for none

contractVars == <<testRuns, fate, newest>>

ContractInit == /\ testRuns \subseteq Events
                /\ fate = [e \in Events |-> "open"]
                /\ newest = [a \in {Agg[e] : e \in Events} |-> 0]

ApplyEvent(e) == /\ fate[e] = "open"
                 /\ e \notin testRuns
                 /\ newest[Agg[e]] <= Ver[e]
                 /\ fate' = [fate EXCEPT ![e] = "applied"]
                 /\ newest' = [newest EXCEPT ![Agg[e]] = Ver[e]]
                 /\ UNCHANGED testRuns

DropEvent(e) == /\ fate[e] = "open"
                /\ e \in testRuns \/ newest[Agg[e]] > Ver[e]
                /\ fate' = [fate EXCEPT ![e] = "dropped"]
                /\ UNCHANGED <<testRuns, newest>>

ContractNext == \E e \in Events : ApplyEvent(e) \/ DropEvent(e)

ContractSpec == ContractInit /\ [][ContractNext]_contractVars
=============================================================================
