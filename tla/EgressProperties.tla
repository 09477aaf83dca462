--------------------------- MODULE EgressProperties ---------------------------
(***************************************************************************)
(* What egressd must keep true of policies, flows and counters.            *)
(***************************************************************************)
EXTENDS EgressGateway

(* "Guest code cannot open any network destination outside the configured    *)
(* ceiling" (SPEC.md:38-40): whatever policies were asked for, changed,      *)
(* dropped or reloaded while a flow was judged by its copy, the destination  *)
(* it reaches is one the ceiling allows.                                     *)
OnlyAllowlistedEgress ==
    \A f \in Flows : pc[f] \in {"dial", "open"} => CeilingAllows(ceiling, dest[f])

(* The connection counters are exactly the connections that are admitted and *)
(* not yet released, so that the limits neither leak nor wrap (egressd       *)
(* main.go:236-257).                                                         *)
Admitted(kinds) == {f \in Flows : pc[f] # "closed" /\ kind[f] \in kinds}

CountersExact ==
    /\ connTotal = Cardinality(Admitted({"tls", "http"}))
    /\ \A a \in Addrs :
           connBySrc[a] = Cardinality({f \in Admitted({"tls", "http"}) : source[f] = a})
    /\ inflight = Cardinality(Admitted({"dns"}))

(* The state file egressd wrote is one it accepts when it starts again under *)
(* the same ceiling (main.go:199-201): a policy narrowed twice is dropped    *)
(* no rule.                                                                  *)
SavedLoadable == Loadable(saved, ceiling)

(* Every connection is released in the end, whatever its guest does: each    *)
(* wait of its handler has a deadline (main.go:311, 338, 637-639).               *)
EveryFlowEnds == \A f \in Flows : pc[f] # "closed" ~> pc[f] = "closed"

-----------------------------------------------------------------------------
(* What the proofs of SavedLoadable and OnlyAllowlistedEgress carry along.  *)

TablesInv == TablesOK /\ Loadable(policies, ceiling) /\ Loadable(saved, ceiling)

\* rules that allow no more than the ceiling
Narrow(rules, bound) ==
    \A d \in Destinations : Allows(rules, d) => CeilingAllows(bound, d)

\* the administrator does not change the ceiling
StableCeiling == \A b, c \in Configured : b = c

\* what CountersExact counts
Conns == Admitted({"tls", "http"})
Tokens == Admitted({"dns"})
From(a) == {f \in Conns : source[f] = a}

CountersInv ==
    /\ FlowsOK /\ CountersOK
    /\ IsFiniteSet(Conns) /\ IsFiniteSet(Tokens) /\ CountersExact

=============================================================================
