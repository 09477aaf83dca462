------------------------------- MODULE MCEgress -------------------------------
(***************************************************************************)
(* Constants for model checking egressd: one domain with a name below it,  *)
(* one method, one path prefix, and the ways rules over them can overlap.  *)
(***************************************************************************)
EXTENDS EgressProperties, TLC

com == <<"com">>
xcom == <<"com", "x">>

Exactly(base) == [wild |-> FALSE, base |-> base]
AllBelow(base) == [wild |-> TRUE, base |-> base]
Rule(domain, methods, paths) == [domain |-> domain, methods |-> methods, paths |-> paths]

\* names below com are open; com is, below one path
WideCeiling == <<Rule(AllBelow(com), {}, {}), Rule(Exactly(com), {"GET"}, {<<"p">>})>>
\* after the administrator has narrowed it
NarrowCeiling == <<Rule(Exactly(xcom), {}, {})>>
Ceilings2 == {WideCeiling, NarrowCeiling}

\* a wildcard, or two names one of which is restricted
Requests2 ==
    {{Rule(AllBelow(com), {}, {})},
     {Rule(Exactly(com), {}, {}), Rule(Exactly(xcom), {"GET"}, {})}}

To(host, method, path) == [host |-> host, method |-> method, path |-> path]
Asked3 ==
    {To(com, "GET", <<"p", "q">>), To(com, "GET", <<"q">>), To(xcom, "NoMethod", <<>>)}

SaveFaults == {"save"}

=============================================================================
