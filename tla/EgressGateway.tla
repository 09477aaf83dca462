----------------------------- MODULE EgressGateway -----------------------------
(***************************************************************************)
(* egressd (cmd/egressd/main.go): the policies sandboxd registers by guest *)
(* address, the state file they are reloaded from, and the guests'         *)
(* connections and DNS lookups, which are admitted against counters and    *)
(* judged by the policy of their source address.                           *)
(*                                                                         *)
(* A flow is one accepted connection ("tls", "http"), judged by the host   *)
(* name it first asks for, or one DNS packet ("dns").                      *)
(***************************************************************************)
EXTENDS EgressPolicy, FiniteSets

CONSTANTS
    Addrs,        \* guest addresses
    Sessions,
    Flows,        \* connections and lookups
    None,
    Requested,    \* the policies sandboxd may ask for
    Configured,   \* the ceilings the administrator may configure
    Asked,        \* the destinations guests ask for
    MaxPerSource, \* maxConnsPerSource
    MaxTotal,     \* maxTotalConns
    MaxInflight,  \* maxInflightDNS
    Faults,       \* the failures that may happen
    MaxCrashes    \* bound: crashes of egressd or reboots in a behaviour

ASSUME PoliciesAreValid == Requested \subseteq Policies /\ Configured \subseteq Ceilings
ASSUME AskedAreDestinations == Asked \subseteq Destinations
ASSUME LimitsAreNat ==
    MaxPerSource \in Nat /\ MaxTotal \in Nat /\ MaxInflight \in Nat /\ MaxCrashes \in Nat
ASSUME NoneIsNothing == None \notin Addrs /\ None \notin Destinations

Registered == [session : Sessions, rules : Policies]
NoEntry == [session |-> None, rules |-> {}]
Tables == [Addrs -> Registered \cup {NoEntry}]
Kinds == {"tls", "http", "dns"}

VARIABLES
    ceiling,   \* the ceiling of the running process
    policies,  \* address -> the policy registered for it
    saved,     \* the state file
    pc,        \* where each flow stands
    kind,
    source,    \* the address a flow comes from
    held,      \* the rules it looked up
    dest,      \* where a flow that was allowed goes
    connBySrc, \* connections admitted, by address
    connTotal,
    inflight,  \* DNS tokens taken
    up,
    crashes

table == <<ceiling, policies, saved>>
flows == <<pc, kind, source, held, dest>>
counters == <<connBySrc, connTotal, inflight>>
process == <<up, crashes>>
vars == <<table, flows, counters, process>>

FlowsOK ==
    /\ pc \in [Flows -> {"closed", "lookup", "judge", "dial", "open", "release"}]
    /\ kind \in [Flows -> Kinds]
    /\ source \in [Flows -> Addrs \cup {None}]
    /\ \A f \in Flows : pc[f] # "closed" => source[f] \in Addrs
    /\ held \in [Flows -> Policies]
    /\ dest \in [Flows -> Destinations \cup {None}]

CountersOK ==
    /\ connBySrc \in [Addrs -> 0..MaxPerSource]
    /\ connTotal \in 0..MaxTotal
    /\ inflight \in 0..MaxInflight

TablesOK ==
    /\ ceiling \in Configured
    /\ policies \in Tables /\ saved \in Tables

GatewayTypeOK ==
    /\ TablesOK /\ FlowsOK /\ CountersOK
    /\ up \in BOOLEAN /\ crashes \in 0..MaxCrashes

NoPolicies == [a \in Addrs |-> NoEntry]

Init ==
    /\ ceiling \in Configured
    /\ policies = NoPolicies /\ saved = NoPolicies
    /\ pc = [f \in Flows |-> "closed"]
    /\ kind = [f \in Flows |-> "tls"]
    /\ source = [f \in Flows |-> None]
    /\ held = [f \in Flows |-> {}]
    /\ dest = [f \in Flows |-> None]
    /\ connBySrc = [a \in Addrs |-> 0]
    /\ connTotal = 0
    /\ inflight = 0
    /\ up = TRUE
    /\ crashes = 0

Failing(fault) == fault \in Faults

-----------------------------------------------------------------------------
(* Control requests of sandboxd.                                            *)

\* the write of the state file may fail, and leaves the table changed
Save(changed) ==
    /\ policies' = changed
    /\ saved' = changed \/ (Failing("save") /\ UNCHANGED saved)

\* mutant: a policy beyond the ceiling is registered as it was asked for
PutUnchecked(a, s, requested) ==
    /\ up
    /\ Save([policies EXCEPT ![a] = [session |-> s, rules |-> requested]])
    /\ UNCHANGED <<ceiling, flows, counters, process>>

putPolicy(a, s, requested) ==
    /\ up
    /\ WithinCeiling(requested, ceiling)
    /\ Save([policies EXCEPT ![a] = [session |-> s, rules |-> Intersect(requested, ceiling)]])
    /\ UNCHANGED <<ceiling, flows, counters, process>>

deletePolicy(s) ==
    /\ up
    /\ Save([a \in Addrs |-> IF policies[a].session = s THEN NoEntry ELSE policies[a]])
    /\ UNCHANGED <<ceiling, flows, counters, process>>

-----------------------------------------------------------------------------
(* Guest traffic.                                                           *)

\* mutant: the limit of one source is tested with > in place of >=
AdmitOneMore(a) == connTotal < MaxTotal /\ connBySrc[a] <= MaxPerSource

HasRoom(a) == connTotal < MaxTotal /\ connBySrc[a] < MaxPerSource

\* serveTCP: a connection beyond the limits is closed at once
AdmitConn(a) ==
    /\ HasRoom(a)
    /\ connBySrc' = [connBySrc EXCEPT ![a] = @ + 1]
    /\ connTotal' = connTotal + 1
    /\ UNCHANGED inflight

\* serveDNSUDP: a packet beyond the tokens is dropped
TakeToken ==
    /\ inflight < MaxInflight
    /\ inflight' = inflight + 1
    /\ UNCHANGED <<connBySrc, connTotal>>

Arrive(f) ==
    /\ up /\ pc[f] = "closed"
    /\ \E a \in Addrs, k \in Kinds :
           /\ IF k = "dns" THEN TakeToken ELSE AdmitConn(a)
           /\ kind' = [kind EXCEPT ![f] = k]
           /\ source' = [source EXCEPT ![f] = a]
    /\ pc' = [pc EXCEPT ![f] = "lookup"]
    /\ UNCHANGED <<table, held, dest, process>>

\* policyFor: the handler keeps the policy it found
Lookup(f) ==
    /\ pc[f] = "lookup"
    /\ IF policies[source[f]] = NoEntry
         THEN pc' = [pc EXCEPT ![f] = "release"] /\ UNCHANGED held
         ELSE /\ pc' = [pc EXCEPT ![f] = "judge"]
              /\ held' = [held EXCEPT ![f] = policies[source[f]].rules]
    /\ UNCHANGED <<table, kind, source, dest, counters, process>>

\* the destination is read, within a deadline, and judged.  A host name is all
\* that is known of a TLS connection or a DNS lookup.
Judge(f) ==
    /\ pc[f] = "judge"
    /\ \/ \E d \in Asked :
              /\ kind[f] # "http" => d.method = NoMethod /\ d.path = <<>>
              /\ IF Allows(held[f], d)
                   THEN /\ pc' = [pc EXCEPT ![f] = "dial"]
                        /\ dest' = [dest EXCEPT ![f] = d]
                   ELSE pc' = [pc EXCEPT ![f] = "release"] /\ UNCHANGED dest
       \/ pc' = [pc EXCEPT ![f] = "release"] /\ UNCHANGED dest
    /\ held' = [held EXCEPT ![f] = {}]
    /\ UNCHANGED <<table, kind, source, counters, process>>

\* dialPublic resolves the name itself, and takes a public address or gives up
Dial(f) ==
    /\ pc[f] = "dial"
    /\ pc' \in {[pc EXCEPT ![f] = "open"], [pc EXCEPT ![f] = "release"]}
    /\ UNCHANGED <<table, kind, source, held, dest, counters, process>>

\* mutant: the proxy has no deadline, and an idle connection stays
ProxyWithoutDeadline(f) == pc[f] = "open" /\ UNCHANGED vars

\* proxy returns when a side ends, or at the deadline set when it began
Finish(f) ==
    /\ pc[f] = "open"
    /\ pc' = [pc EXCEPT ![f] = "release"]
    /\ UNCHANGED <<table, kind, source, held, dest, counters, process>>

Forget(f) ==
    /\ pc' = [pc EXCEPT ![f] = "closed"]
    /\ kind' = [kind EXCEPT ![f] = "tls"]
    /\ source' = [source EXCEPT ![f] = None]
    /\ dest' = [dest EXCEPT ![f] = None]
    /\ UNCHANGED held

\* mutant: the last connection of a source is not taken from the total
ReleaseSourceOnly(f) ==
    /\ pc[f] = "release"
    /\ IF kind[f] = "dns"
         THEN inflight' = inflight - 1 /\ UNCHANGED <<connBySrc, connTotal>>
         ELSE LET a == source[f] IN
              /\ connBySrc' = [connBySrc EXCEPT ![a] = @ - 1]
              /\ connTotal' = IF connBySrc[a] > 1 THEN connTotal - 1 ELSE connTotal
              /\ UNCHANGED inflight
    /\ Forget(f)
    /\ UNCHANGED <<table, process>>

\* the deferred releaseConn, or the return of the token
Release(f) ==
    /\ pc[f] = "release"
    /\ LET a == source[f] IN
       IF kind[f] = "dns"
         THEN inflight' = inflight - 1 /\ UNCHANGED <<connBySrc, connTotal>>
         ELSE /\ IF connBySrc[a] > 0
                   THEN /\ connBySrc' = [connBySrc EXCEPT ![a] = @ - 1]
                        /\ connTotal' = connTotal - 1
                   ELSE UNCHANGED <<connBySrc, connTotal>>
              /\ UNCHANGED inflight
    /\ Forget(f)
    /\ UNCHANGED <<table, process>>

-----------------------------------------------------------------------------
(* The process.  The state file is under /run: a crash leaves it, a reboot   *)
(* does not.                                                                 *)

Crash ==
    /\ up /\ crashes < MaxCrashes
    /\ up' = FALSE
    /\ crashes' = crashes + 1
    /\ saved' \in {saved, NoPolicies}
    /\ policies' = NoPolicies
    /\ pc' = [f \in Flows |-> "closed"]
    /\ source' = [f \in Flows |-> None]
    /\ held' = [f \in Flows |-> {}]
    /\ dest' = [f \in Flows |-> None]
    /\ connBySrc' = [a \in Addrs |-> 0]
    /\ connTotal' = 0
    /\ inflight' = 0
    /\ kind' = [f \in Flows |-> "tls"]
    /\ UNCHANGED ceiling

\* loadPolicies takes a state file all of whose policies are within the ceiling
Loadable(file, bound) == \A a \in Addrs : WithinCeiling(file[a].rules, bound)

\* with the ceiling configured by then; a panic leaves the process down
Restart ==
    /\ ~up /\ up' = TRUE
    /\ ceiling' \in Configured
    /\ Loadable(saved, ceiling')
    /\ policies' = saved
    /\ UNCHANGED <<saved, flows, counters, crashes>>

-----------------------------------------------------------------------------

Control ==
    \/ \E a \in Addrs, s \in Sessions, requested \in Requested : putPolicy(a, s, requested)
    \/ \E s \in Sessions : deletePolicy(s)

Step(f) == Lookup(f) \/ Judge(f) \/ Dial(f) \/ Finish(f) \/ Release(f)

Next == Control \/ Crash \/ Restart \/ \E f \in Flows : Arrive(f) \/ Step(f)

Spec == Init /\ [][Next]_vars

\* every wait of a handler has a deadline
FairSpec == Spec /\ \A f \in Flows : WF_vars(Step(f))

=============================================================================
