---- MODULE MCTenantResolution ----
(* Two tenants with two hosts, one resolution in flight. *)
EXTENDS TenantResolution

CONSTANTS a, b, h1, h2, r

\* Nothing tells the two tenants apart, so the first host may be a's at the start.
MCInit == ResolutionInit /\ owner[h1] = a

MCResolutionSpec == MCInit /\ [][ResolutionNext]_resolutionVars /\ ResolutionFairness
====
