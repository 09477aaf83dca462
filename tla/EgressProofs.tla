----------------------------- MODULE EgressProofs -----------------------------
(***************************************************************************)
(* Proofs about the policy algebra and egressd, for any labels, methods,   *)
(* policies, ceilings, addresses, flows and limits.                        *)
(***************************************************************************)
EXTENDS EgressProperties, TLAPS, FiniteSetTheorems

-----------------------------------------------------------------------------
(* The algebra.                                                             *)

(* A name below a name below a base is below the base.                       *)
LEMMA StartsWithTransitive ==
    ASSUME NEW a \in Seq(Labels), NEW b \in Seq(Labels), NEW c \in Seq(Labels),
           StartsWith(a, b), StartsWith(b, c)
    PROVE  StartsWith(a, c)
  BY DEF StartsWith

(* patternContainedBy is containment: a host that matches the requested      *)
(* pattern matches the ceiling's (policy.go:158-182).                        *)
LEMMA ContainmentOfHosts ==
    ASSUME NEW r \in Patterns, NEW c \in Patterns, NEW host \in Hosts,
           patternContainedBy(r, c), domainMatches(r, host)
    PROVE  domainMatches(c, host)
<1>1. CASE r = c
  BY <1>1
<1>2. CASE c.wild /\ Below(r.base, c.base)
  <2>1. /\ r.base \in Seq(Labels) /\ c.base \in Seq(Labels) /\ host \in Seq(Labels)
        /\ r.wild \in BOOLEAN /\ c.wild \in BOOLEAN
    BY DEF Patterns, Hosts
  <2>2. StartsWith(host, r.base) /\ Len(r.base) <= Len(host)
    BY <2>1 DEF domainMatches, Below, StartsWith
  <2>3. StartsWith(host, c.base)
    BY <1>2, <2>1, <2>2, StartsWithTransitive DEF Below
  <2>4. Len(c.base) < Len(host)
    BY <1>2, <2>1, <2>2 DEF Below
  <2>. QED
    BY <1>2, <2>3, <2>4 DEF domainMatches, Below
<1>. QED
  BY <1>1, <1>2 DEF patternContainedBy

(* What is left of two rules admits nothing that one of them does not.       *)
LEMMA CombinedNarrows ==
    ASSUME NEW r \in Rules, NEW c \in Rules, NEW d \in Destinations,
           Fits(r, c), Admits(Combined(r, c), d)
    PROVE  Admits(r, d) /\ Admits(c, d)
<1> DEFINE both == Combined(r, c)
<1>1. /\ both.domain = r.domain
      /\ both.methods = intersectStrings(r.methods, c.methods)
      /\ both.paths = intersectPrefixes(r.paths, c.paths)
  BY DEF Combined
<1>2. /\ r.domain \in Patterns /\ c.domain \in Patterns /\ d.host \in Hosts
      /\ d.path \in Seq(Labels)
      /\ r.paths \subseteq Seq(Labels) /\ c.paths \subseteq Seq(Labels)
  BY DEF Rules, Destinations, Paths
<1>3. /\ patternContainedBy(r.domain, c.domain)
      /\ r.methods # {} /\ c.methods # {} => both.methods # {}
      /\ r.paths # {} /\ c.paths # {} => both.paths # {}
  BY <1>1 DEF Fits
<1>4. domainMatches(r.domain, d.host) /\ domainMatches(c.domain, d.host)
  BY <1>1, <1>2, <1>3, ContainmentOfHosts DEF Admits
<1>5. /\ r.methods = {} \/ d.method \in r.methods
      /\ c.methods = {} \/ d.method \in c.methods
  <2>1. both.methods = {} \/ d.method \in both.methods
    BY DEF Admits
  <2>. QED
    BY <1>1, <1>3, <2>1 DEF intersectStrings
<1>6. /\ r.paths = {} \/ \E prefix \in r.paths : StartsWith(d.path, prefix)
      /\ c.paths = {} \/ \E prefix \in c.paths : StartsWith(d.path, prefix)
  <2>1. both.paths = {} \/ \E prefix \in both.paths : StartsWith(d.path, prefix)
    BY DEF Admits
  <2>2. CASE r.paths = {} \/ c.paths = {}
    BY <1>1, <2>1, <2>2 DEF intersectPrefixes
  <2>3. CASE r.paths # {} /\ c.paths # {}
    <3>1. PICK prefix \in both.paths : StartsWith(d.path, prefix)
      BY <1>3, <2>1, <2>3
    <3>2. \/ prefix \in r.paths /\ \E q \in c.paths : StartsWith(prefix, q)
          \/ prefix \in c.paths /\ \E q \in r.paths : StartsWith(prefix, q)
      BY <1>1, <2>3, <3>1 DEF intersectPrefixes
    <3>3. CASE prefix \in r.paths /\ \E q \in c.paths : StartsWith(prefix, q)
      <4>1. PICK q \in c.paths : StartsWith(prefix, q)
        BY <3>3
      <4>2. StartsWith(d.path, q)
        BY <1>2, <3>1, <3>3, <4>1, StartsWithTransitive
      <4>. QED
        BY <3>1, <3>3, <4>2
    <3>4. CASE prefix \in c.paths /\ \E q \in r.paths : StartsWith(prefix, q)
      <4>1. PICK q \in r.paths : StartsWith(prefix, q)
        BY <3>4
      <4>2. StartsWith(d.path, q)
        BY <1>2, <3>1, <3>4, <4>1, StartsWithTransitive
      <4>. QED
        BY <3>1, <3>4, <4>2
    <3>. QED
      BY <3>2, <3>3, <3>4
  <2>. QED
    BY <2>2, <2>3
<1>. QED
  BY <1>4, <1>5, <1>6 DEF Admits

(* Intersect narrows both of its arguments: what the effective policy allows *)
(* was asked for, and the ceiling allows it (policy.go:73-96).               *)
THEOREM IntersectNarrows ==
    ASSUME NEW requested \in Policies, NEW bound \in Ceilings, NEW d \in Destinations,
           Allows(Intersect(requested, bound), d)
    PROVE  Allows(requested, d) /\ CeilingAllows(bound, d)
<1>1. PICK rule \in Intersect(requested, bound) : Admits(rule, d)
  BY DEF Allows
<1>2. PICK r \in requested : \E i \in FirstFit(r, bound) : rule = Combined(r, bound[i])
  BY <1>1 DEF Intersect
<1>3. PICK i \in FirstFit(r, bound) : rule = Combined(r, bound[i])
  BY <1>2
<1>4. i \in 1..Len(bound) /\ Fits(r, bound[i])
  BY <1>3 DEF FirstFit
<1>5. r \in Rules /\ bound[i] \in Rules
  BY <1>4 DEF Policies, Ceilings
<1>6. Admits(r, d) /\ Admits(bound[i], d)
  BY <1>1, <1>3, <1>4, <1>5, CombinedNarrows
<1>. QED
  BY <1>4, <1>6 DEF Allows, CeilingAllows

(* A rule narrowed to the rule of the ceiling it fits fits it again.         *)
LEMMA CombinedFits ==
    ASSUME NEW r \in Rules, NEW c \in Rules, Fits(r, c)
    PROVE  Combined(r, c) \in Rules /\ Fits(Combined(r, c), c)
<1> DEFINE both == Combined(r, c)
<1>1. /\ both.domain = r.domain
      /\ both.methods = intersectStrings(r.methods, c.methods)
      /\ both.paths = intersectPrefixes(r.paths, c.paths)
  BY DEF Combined
<1>2. /\ r.domain \in Patterns /\ r.methods \subseteq Methods /\ c.methods \subseteq Methods
      /\ r.paths \subseteq Paths /\ c.paths \subseteq Paths
  BY DEF Rules
<1>3. both.methods \subseteq Methods
  BY <1>1, <1>2 DEF intersectStrings
<1>4. both.paths \subseteq Paths
  BY <1>1, <1>2 DEF intersectPrefixes
<1>5. both \in Rules
  BY <1>2, <1>3, <1>4 DEF Rules, Combined
<1>6. patternContainedBy(both.domain, c.domain)
  BY <1>1 DEF Fits
<1>7. both.methods # {} /\ c.methods # {} => intersectStrings(both.methods, c.methods) # {}
  BY <1>1 DEF intersectStrings
<1>8. both.paths # {} /\ c.paths # {} => intersectPrefixes(both.paths, c.paths) # {}
  <2>1. SUFFICES ASSUME both.paths # {}, c.paths # {}
                 PROVE  intersectPrefixes(both.paths, c.paths) # {}
    OBVIOUS
  <2>2. PICK p \in both.paths : TRUE
    BY <2>1
  <2>3. \E q \in c.paths : StartsWith(p, q)
    <3>1. p \in c.paths \/ \E q \in c.paths : StartsWith(p, q)
      BY <1>1, <2>1, <2>2 DEF intersectPrefixes
    <3>2. p \in Seq(Labels)
      BY <1>4, <2>2 DEF Paths
    <3>3. StartsWith(p, p)
      BY <3>2 DEF StartsWith
    <3>. QED
      BY <3>1, <3>3
  <2>4. p \in intersectPrefixes(both.paths, c.paths)
    BY <2>1, <2>2, <2>3 DEF intersectPrefixes
  <2>. QED
    BY <2>4
<1>9. /\ Combined(both, c).methods = intersectStrings(both.methods, c.methods)
      /\ Combined(both, c).paths = intersectPrefixes(both.paths, c.paths)
  BY DEF Combined
<1>10. Fits(both, c)
  <2> HIDE DEF both
  <2>. QED
    BY <1>6, <1>7, <1>8, <1>9 DEF Fits
<1>. QED
  BY <1>5, <1>10

(* A narrowed policy loses no rule when it is narrowed again, so egressd     *)
(* accepts what the API has narrowed, and the state file it wrote.           *)
THEOREM IntersectWithinCeiling ==
    ASSUME NEW requested \in Policies, NEW bound \in Ceilings
    PROVE  /\ Intersect(requested, bound) \in Policies
           /\ WithinCeiling(Intersect(requested, bound), bound)
<1>1. SUFFICES ASSUME NEW rule \in Intersect(requested, bound)
               PROVE  rule \in Rules /\ \E i \in 1..Len(bound) : Fits(rule, bound[i])
  BY DEF Policies, WithinCeiling, Kept
<1>2. PICK r \in requested : \E i \in FirstFit(r, bound) : rule = Combined(r, bound[i])
  BY <1>1 DEF Intersect
<1>3. PICK i \in FirstFit(r, bound) : rule = Combined(r, bound[i])
  BY <1>2
<1>4. i \in 1..Len(bound) /\ Fits(r, bound[i])
  BY <1>3 DEF FirstFit
<1>5. r \in Rules /\ bound[i] \in Rules
  BY <1>4 DEF Policies, Ceilings
<1>. QED
  BY <1>3, <1>4, <1>5, CombinedFits

-----------------------------------------------------------------------------
(* The state file.                                                          *)

LEMMA EntriesArePolicies ==
    ASSUME NEW t \in Tables, NEW a \in Addrs
    PROVE  t[a].rules \in Policies
<1>1. t[a] \in Registered \/ t[a] = NoEntry
  BY DEF Tables
<1>. QED
  BY <1>1 DEF Registered, NoEntry, Policies

LEMMA NoPoliciesLoad ==
    ASSUME NEW bound
    PROVE  NoPolicies \in Tables /\ Loadable(NoPolicies, bound)
  BY DEF NoPolicies, Tables, NoEntry, Loadable, WithinCeiling, Kept

(* What Save writes to the table and the file.                               *)
LEMMA SaveKeepsTables ==
    ASSUME TablesInv, NEW changed \in Tables, Loadable(changed, ceiling),
           Save(changed), UNCHANGED ceiling
    PROVE  TablesInv'
  BY DEF TablesInv, TablesOK, Save, Loadable

(* putPolicy registers a policy that egressd would load again.               *)
LEMMA PutKeepsTables ==
    ASSUME TablesInv, NEW a \in Addrs, NEW s \in Sessions, NEW requested \in Requested,
           putPolicy(a, s, requested)
    PROVE  TablesInv'
<1> DEFINE entry == [session |-> s, rules |-> Intersect(requested, ceiling)]
           changed == [policies EXCEPT ![a] = entry]
<1>1. requested \in Policies /\ ceiling \in Ceilings
  BY PoliciesAreValid DEF TablesInv, TablesOK
<1>2. entry.rules \in Policies /\ WithinCeiling(entry.rules, ceiling)
  BY <1>1, IntersectWithinCeiling
<1>3. entry \in Registered
  BY <1>2 DEF Registered
<1>4. changed \in Tables
  BY <1>3 DEF TablesInv, TablesOK, Tables
<1>5. Loadable(changed, ceiling)
  <2>1. SUFFICES ASSUME NEW b \in Addrs PROVE WithinCeiling(changed[b].rules, ceiling)
    BY DEF Loadable
  <2>2. CASE b = a
    BY <1>2, <2>2 DEF TablesInv, TablesOK, Tables
  <2>3. CASE b # a
    BY <2>3 DEF TablesInv, TablesOK, Tables, Loadable
  <2>. QED
    BY <2>2, <2>3
<1>6. Save(changed) /\ UNCHANGED ceiling
  BY DEF putPolicy
<1>. QED
  BY <1>4, <1>5, <1>6, SaveKeepsTables

LEMMA DeleteKeepsTables ==
    ASSUME TablesInv, NEW s \in Sessions, deletePolicy(s)
    PROVE  TablesInv'
<1> DEFINE changed == [a \in Addrs |-> IF policies[a].session = s THEN NoEntry ELSE policies[a]]
<1>1. changed \in Tables
  BY DEF TablesInv, TablesOK, Tables
<1>2. \A a \in Addrs : changed[a] = NoEntry \/ changed[a] = policies[a]
  OBVIOUS
<1>3. WithinCeiling(NoEntry.rules, ceiling)
  BY DEF NoEntry, WithinCeiling, Kept
<1>4. Loadable(changed, ceiling)
  <2> HIDE DEF changed
  <2>. QED
    BY <1>2, <1>3 DEF TablesInv, Loadable
<1>5. Save(changed) /\ UNCHANGED ceiling
  BY DEF deletePolicy
<1>. QED
  BY <1>1, <1>4, <1>5, SaveKeepsTables

LEMMA TablesInvInit == Init => TablesInv
<1>1. SUFFICES ASSUME Init PROVE TablesInv
  OBVIOUS
<1>. QED
  BY <1>1, NoPoliciesLoad DEF Init, TablesInv, TablesOK

LEMMA TablesInvStep == TablesInv /\ [Next]_vars => TablesInv'
<1>1. SUFFICES ASSUME TablesInv, [Next]_vars PROVE TablesInv'
  OBVIOUS
<1>2. CASE Control
  BY <1>1, <1>2, PutKeepsTables, DeleteKeepsTables DEF Control
<1>3. CASE Crash
  BY <1>1, <1>3, NoPoliciesLoad DEF Crash, TablesInv, TablesOK
<1>4. CASE Restart
  BY <1>1, <1>4 DEF Restart, TablesInv, TablesOK, Loadable
<1>5. CASE UNCHANGED table
  BY <1>1, <1>5 DEF table, TablesInv, TablesOK, Loadable
<1>6. ASSUME NEW f \in Flows, Arrive(f) \/ Step(f) PROVE UNCHANGED table
  BY <1>6 DEF Arrive, Step, Lookup, Judge, Dial, Finish, Release
<1>. QED
  BY <1>1, <1>2, <1>3, <1>4, <1>5, <1>6 DEF Next, vars

(* The state file is always one that egressd accepts under the ceiling it    *)
(* runs with: a crash never leaves it unable to start (main.go:179-205).     *)
THEOREM SavedReloads == Spec => []SavedLoadable
<1>1. TablesInv => SavedLoadable
  BY DEF TablesInv, SavedLoadable
<1>. QED
  BY <1>1, TablesInvInit, TablesInvStep, PTL DEF Spec

-----------------------------------------------------------------------------
(* The allowlist.                                                           *)

LEMMA NoRulesAreNarrow ==
    ASSUME NEW bound
    PROVE  Narrow({}, bound) /\ \A a \in Addrs : Narrow(NoPolicies[a].rules, bound)
  BY DEF Narrow, Allows, NoPolicies, NoEntry

\* the tables, as they are part of AllowlistInv
NarrowTables ==
    /\ TablesOK
    /\ \A a \in Addrs : Narrow(policies[a].rules, ceiling) /\ Narrow(saved[a].rules, ceiling)

LEMMA SaveKeepsNarrow ==
    ASSUME NarrowTables, NEW changed \in Tables,
           \A a \in Addrs : Narrow(changed[a].rules, ceiling),
           Save(changed), UNCHANGED ceiling
    PROVE  NarrowTables'
  BY DEF NarrowTables, TablesOK, Save, Narrow

(* What putPolicy registers has been narrowed to the ceiling.                *)
LEMMA PutKeepsNarrow ==
    ASSUME NarrowTables, NEW a \in Addrs, NEW s \in Sessions, NEW requested \in Requested,
           putPolicy(a, s, requested)
    PROVE  NarrowTables'
<1> DEFINE entry == [session |-> s, rules |-> Intersect(requested, ceiling)]
           changed == [policies EXCEPT ![a] = entry]
<1>1. requested \in Policies /\ ceiling \in Ceilings
  BY PoliciesAreValid DEF NarrowTables, TablesOK
<1>2. entry.rules \in Policies
  BY <1>1, IntersectWithinCeiling
<1>3. Narrow(entry.rules, ceiling)
  BY <1>1, IntersectNarrows DEF Narrow
<1>4. changed \in Tables
  BY <1>2 DEF NarrowTables, TablesOK, Tables, Registered
<1>5. \A b \in Addrs : changed[b] = entry \/ changed[b] = policies[b]
  BY DEF NarrowTables, TablesOK, Tables
<1>6. \A b \in Addrs : Narrow(changed[b].rules, ceiling)
  <2> HIDE DEF changed, entry
  <2>. QED
    BY <1>3, <1>5 DEF NarrowTables
<1>7. Save(changed) /\ UNCHANGED ceiling
  BY DEF putPolicy
<1>. QED
  BY <1>4, <1>6, <1>7, SaveKeepsNarrow

LEMMA DeleteKeepsNarrow ==
    ASSUME NarrowTables, NEW s \in Sessions, deletePolicy(s)
    PROVE  NarrowTables'
<1> DEFINE changed == [a \in Addrs |-> IF policies[a].session = s THEN NoEntry ELSE policies[a]]
<1>1. changed \in Tables
  BY DEF NarrowTables, TablesOK, Tables
<1>2. \A a \in Addrs : changed[a] = NoEntry \/ changed[a] = policies[a]
  OBVIOUS
<1>3. NoEntry.rules = {}
  BY DEF NoEntry
<1>4. \A a \in Addrs : Narrow(changed[a].rules, ceiling)
  <2> HIDE DEF changed
  <2>. QED
    BY <1>2, <1>3, NoRulesAreNarrow DEF NarrowTables
<1>5. Save(changed) /\ UNCHANGED ceiling
  BY DEF deletePolicy
<1>. QED
  BY <1>1, <1>4, <1>5, SaveKeepsNarrow

(* No step but a restart changes the ceiling, and a restart does not when    *)
(* the administrator does not.                                               *)
LEMMA TablesStayNarrow ==
    ASSUME StableCeiling, NarrowTables, [Next]_vars
    PROVE  NarrowTables' /\ UNCHANGED ceiling
<1>1. CASE Control
  <2>1. NarrowTables'
    BY <1>1, PutKeepsNarrow, DeleteKeepsNarrow DEF Control
  <2>. QED
    BY <1>1, <2>1 DEF Control, putPolicy, deletePolicy
<1>2. CASE Crash
  <2>1. NoPolicies \in Tables
    BY NoPoliciesLoad
  <2>2. UNCHANGED ceiling /\ policies' = NoPolicies /\ (saved' = saved \/ saved' = NoPolicies)
    BY <1>2 DEF Crash
  <2>. QED
    BY <2>1, <2>2, NoRulesAreNarrow DEF NarrowTables, TablesOK
<1>3. CASE Restart
  <2>1. ceiling' = ceiling /\ policies' = saved /\ saved' = saved
    BY <1>3 DEF Restart, StableCeiling, NarrowTables, TablesOK
  <2>. QED
    BY <2>1 DEF NarrowTables, TablesOK
<1>4. CASE UNCHANGED table
  BY <1>4 DEF table, NarrowTables, TablesOK
<1>5. ASSUME NEW f \in Flows, Arrive(f) \/ Step(f) PROVE UNCHANGED table
  BY <1>5 DEF Arrive, Step, Lookup, Judge, Dial, Finish, Release
<1>. QED
  BY <1>1, <1>2, <1>3, <1>4, <1>5 DEF Next, vars

\* the flows, as they are part of AllowlistInv
NarrowFlows ==
    /\ FlowsOK
    /\ \A f \in Flows : Narrow(held[f], ceiling)
    /\ OnlyAllowlistedEgress

LEMMA LookupKeepsFlows ==
    ASSUME NarrowTables, NarrowFlows, NEW f \in Flows, Lookup(f)
    PROVE  NarrowFlows'
<1>1. source[f] \in Addrs
  BY DEF Lookup, NarrowFlows, FlowsOK
<1>2. policies[source[f]].rules \in Policies
  BY <1>1, EntriesArePolicies DEF NarrowTables, TablesOK
<1>3. Narrow(policies[source[f]].rules, ceiling)
  BY <1>1 DEF NarrowTables
<1>4. FlowsOK'
  BY <1>2 DEF Lookup, NarrowFlows, FlowsOK
<1>5. UNCHANGED <<ceiling, dest>>
  BY DEF Lookup, table
<1>6. \A g \in Flows : held'[g] = held[g] \/ held'[g] = policies[source[f]].rules
  BY DEF Lookup, NarrowFlows, FlowsOK
<1>7. \A g \in Flows : Narrow(held'[g], ceiling)
  BY <1>3, <1>6 DEF NarrowFlows
<1>8. \A g \in Flows : pc'[g] \in {"dial", "open"} => pc[g] \in {"dial", "open"}
  BY DEF Lookup, NarrowFlows, FlowsOK
<1>9. OnlyAllowlistedEgress'
  BY <1>5, <1>8 DEF NarrowFlows, OnlyAllowlistedEgress
<1>10. \A g \in Flows : Narrow(held'[g], ceiling')
  BY <1>5, <1>7
<1>. QED
  BY <1>4, <1>9, <1>10 DEF NarrowFlows, Narrow

LEMMA JudgeKeepsFlows ==
    ASSUME NarrowFlows, NEW f \in Flows, Judge(f)
    PROVE  NarrowFlows'
<1>1. UNCHANGED ceiling
  BY DEF Judge, table
<1>2. {} \in Policies
  BY DEF Policies
<1>3. FlowsOK'
  BY <1>2, AskedAreDestinations DEF Judge, NarrowFlows, FlowsOK
<1>4. \A g \in Flows : held'[g] = held[g] \/ held'[g] = {}
  BY DEF Judge, NarrowFlows, FlowsOK
<1>5. \A g \in Flows : Narrow(held'[g], ceiling')
  BY <1>1, <1>4, NoRulesAreNarrow DEF NarrowFlows
<1>6. OnlyAllowlistedEgress'
  <2>1. SUFFICES ASSUME NEW g \in Flows, pc'[g] \in {"dial", "open"}
                 PROVE  CeilingAllows(ceiling, dest'[g])
    BY <1>1 DEF OnlyAllowlistedEgress
  <2>2. CASE g = f
    <3>1. PICK d \in Asked : Allows(held[f], d) /\ dest' = [dest EXCEPT ![f] = d]
      BY <2>1, <2>2 DEF Judge, NarrowFlows, FlowsOK
    <3>2. dest'[f] = d
      BY <3>1 DEF NarrowFlows, FlowsOK
    <3>. QED
      BY <2>2, <3>1, <3>2, AskedAreDestinations DEF NarrowFlows, Narrow
  <2>3. CASE g # f
    <3>1. pc'[g] = pc[g] /\ dest'[g] = dest[g]
      BY <2>3 DEF Judge, NarrowFlows, FlowsOK
    <3>. QED
      BY <2>1, <3>1 DEF NarrowFlows, OnlyAllowlistedEgress
  <2>. QED
    BY <2>2, <2>3
<1>. QED
  BY <1>3, <1>5, <1>6 DEF NarrowFlows, Narrow

LEMMA OtherStepsKeepFlows ==
    ASSUME NarrowFlows, NEW f \in Flows,
           Arrive(f) \/ Dial(f) \/ Finish(f) \/ Release(f)
    PROVE  NarrowFlows'
<1>1. UNCHANGED <<ceiling, held>>
  BY DEF Arrive, Dial, Finish, Release, Forget, table
<1>2. FlowsOK'
  <2>1. CASE Arrive(f)
    BY <2>1 DEF Arrive, NarrowFlows, FlowsOK
  <2>2. CASE Dial(f)
    BY <2>2 DEF Dial, NarrowFlows, FlowsOK
  <2>3. CASE Finish(f)
    BY <2>3 DEF Finish, NarrowFlows, FlowsOK
  <2>4. CASE Release(f)
    BY <2>4 DEF Release, Forget, NarrowFlows, FlowsOK, Kinds
  <2>. QED
    BY <2>1, <2>2, <2>3, <2>4
<1>3. \A g \in Flows :
         pc'[g] \in {"dial", "open"} => pc[g] \in {"dial", "open"} /\ dest'[g] = dest[g]
  BY DEF Arrive, Dial, Finish, Release, Forget, NarrowFlows, FlowsOK
<1>. QED
  BY <1>1, <1>2, <1>3 DEF NarrowFlows, OnlyAllowlistedEgress, Narrow

LEMMA AllowlistInit == Init => NarrowTables /\ NarrowFlows
<1>1. SUFFICES ASSUME Init PROVE NarrowTables /\ NarrowFlows
  OBVIOUS
<1>2. NarrowTables
  BY <1>1, NoPoliciesLoad, NoRulesAreNarrow DEF Init, NarrowTables, TablesOK
<1>3. FlowsOK
  BY <1>1 DEF Init, FlowsOK, Kinds, Policies
<1>4. OnlyAllowlistedEgress
  BY <1>1 DEF Init, OnlyAllowlistedEgress
<1>5. \A f \in Flows : Narrow(held[f], ceiling)
  BY <1>1, NoRulesAreNarrow DEF Init
<1>. QED
  BY <1>2, <1>3, <1>4, <1>5 DEF NarrowFlows

LEMMA AllowlistStep ==
    ASSUME StableCeiling, NarrowTables, NarrowFlows, [Next]_vars
    PROVE  NarrowTables' /\ NarrowFlows'
<1>1. NarrowTables' /\ UNCHANGED ceiling
  BY TablesStayNarrow
<1>2. CASE UNCHANGED flows
  BY <1>1, <1>2 DEF flows, NarrowFlows, FlowsOK, OnlyAllowlistedEgress, Narrow
<1>3. CASE Crash
  <2>1. FlowsOK'
    BY <1>3 DEF Crash, FlowsOK, Kinds, Policies
  <2>2. OnlyAllowlistedEgress'
    BY <1>3 DEF Crash, OnlyAllowlistedEgress
  <2>3. \A f \in Flows : Narrow(held'[f], ceiling')
    BY <1>3, NoRulesAreNarrow DEF Crash
  <2>. QED
    BY <1>1, <2>1, <2>2, <2>3 DEF NarrowFlows, Narrow
<1>4. CASE Control \/ Restart
  <2>1. UNCHANGED flows
    BY <1>4 DEF Control, Restart, putPolicy, deletePolicy
  <2>. QED
    BY <1>2, <2>1
<1>5. ASSUME NEW f \in Flows, Arrive(f) \/ Step(f) PROVE NarrowFlows'
  BY <1>5, LookupKeepsFlows, JudgeKeepsFlows, OtherStepsKeepFlows DEF Step
<1>. QED
  BY <1>1, <1>2, <1>3, <1>4, <1>5 DEF Next, vars

(* Under an unchanging ceiling no flow ever reaches a destination that the   *)
(* ceiling does not allow, whatever is asked for, registered, dropped or     *)
(* reloaded while it is judged (SPEC.md:38-40).                              *)
THEOREM AllowlistHolds == StableCeiling /\ Spec => []OnlyAllowlistedEgress
<1>1. ASSUME StableCeiling PROVE Spec => []OnlyAllowlistedEgress
  <2>1. Init => NarrowTables /\ NarrowFlows
    BY AllowlistInit
  <2>2. NarrowTables /\ NarrowFlows /\ [Next]_vars => (NarrowTables /\ NarrowFlows)'
    BY <1>1, AllowlistStep
  <2>3. NarrowTables /\ NarrowFlows => OnlyAllowlistedEgress
    BY DEF NarrowFlows
  <2>. QED
    BY <2>1, <2>2, <2>3, PTL DEF Spec
<1>. QED
  BY <1>1

-----------------------------------------------------------------------------
(* The counters.                                                            *)

\* One element more is one more, one element less is one less.
LEMMA CountOne ==
    ASSUME NEW S, NEW x, IsFiniteSet(S)
    PROVE  /\ Cardinality(S) \in Nat
           /\ IsFiniteSet(S \cup {x}) /\ IsFiniteSet(S \ {x})
           /\ x \notin S => Cardinality(S \cup {x}) = Cardinality(S) + 1
           /\ x \in S => Cardinality(S) > 0 /\ Cardinality(S \ {x}) = Cardinality(S) - 1
<1>1. Cardinality(S) \in Nat /\ Cardinality(S \ {x}) \in Nat
  BY FS_CardinalityType, FS_RemoveElement
<1>2. IsFiniteSet(S \cup {x}) /\ (x \notin S => Cardinality(S \cup {x}) = Cardinality(S) + 1)
  BY FS_AddElement
<1>3. IsFiniteSet(S \ {x}) /\ (x \in S => Cardinality(S \ {x}) = Cardinality(S) - 1)
  BY FS_RemoveElement
<1>. QED
  BY <1>1, <1>2, <1>3

\* The connections of one source are connections.
LEMMA SourcesFinite ==
    ASSUME IsFiniteSet(Conns), NEW a
    PROVE  IsFiniteSet(From(a))
<1>1. From(a) \subseteq Conns
  BY DEF From
<1>. QED
  BY <1>1, FS_Subset

\* The counters of flows that neither come nor go stay exact.
LEMMA SameFlowsCount ==
    ASSUME CountersInv, UNCHANGED counters, FlowsOK', Conns' = Conns, Tokens' = Tokens,
           \A a \in Addrs : From(a)' = From(a)
    PROVE  CountersInv'
  BY DEF CountersInv, CountersExact, CountersOK, counters, Conns, Tokens, From

\* A flow that is admitted is counted.
LEMMA ArriveCounts ==
    ASSUME CountersInv, NEW f \in Flows, Arrive(f)
    PROVE  CountersInv'
<1>1. PICK a \in Addrs, k \in Kinds :
           /\ IF k = "dns" THEN TakeToken ELSE AdmitConn(a)
           /\ kind' = [kind EXCEPT ![f] = k]
           /\ source' = [source EXCEPT ![f] = a]
  BY DEF Arrive
<1>2. pc[f] = "closed" /\ pc' = [pc EXCEPT ![f] = "lookup"]
  BY DEF Arrive
<1>3. FlowsOK'
  BY <1>1, <1>2 DEF Arrive, CountersInv, FlowsOK
<1>4. f \notin Conns /\ f \notin Tokens
  BY <1>2 DEF Conns, Tokens, Admitted
<1>5. CASE k = "dns"
  <2>1. Conns' = Conns /\ Tokens' = Tokens \cup {f} /\ \A b \in Addrs : From(b)' = From(b)
    BY <1>1, <1>2, <1>5 DEF Conns, Tokens, From, Admitted, CountersInv, FlowsOK
  <2>2. /\ inflight < MaxInflight /\ inflight' = inflight + 1
        /\ connBySrc' = connBySrc /\ connTotal' = connTotal
    BY <1>1, <1>5 DEF TakeToken
  <2>3. CountersOK'
    BY <2>2, LimitsAreNat DEF CountersInv, CountersOK
  <2>4. CountersExact'
    BY <1>4, <2>1, <2>2, CountOne DEF CountersInv, CountersExact, Conns, Tokens, From
  <2>5. IsFiniteSet(Conns') /\ IsFiniteSet(Tokens')
    BY <2>1, CountOne DEF CountersInv
  <2>. QED
    BY <1>3, <2>3, <2>4, <2>5 DEF CountersInv
<1>6. CASE k # "dns"
  <2>1. /\ Conns' = Conns \cup {f} /\ Tokens' = Tokens
        /\ From(a)' = From(a) \cup {f} /\ \A b \in Addrs \ {a} : From(b)' = From(b)
    BY <1>1, <1>2, <1>6 DEF Conns, Tokens, From, Admitted, CountersInv, FlowsOK, Kinds
  <2>2. /\ connTotal < MaxTotal /\ connBySrc[a] < MaxPerSource
        /\ connBySrc' = [connBySrc EXCEPT ![a] = @ + 1] /\ connTotal' = connTotal + 1
        /\ inflight' = inflight
    BY <1>1, <1>6 DEF AdmitConn, HasRoom
  <2>3. CountersOK'
    BY <2>2, LimitsAreNat DEF CountersInv, CountersOK
  <2>4. connTotal' = Cardinality(Conns')
    BY <1>4, <2>1, <2>2, CountOne DEF CountersInv, CountersExact, Conns
  <2>5. f \notin From(a) /\ IsFiniteSet(From(a))
    BY <1>4, SourcesFinite DEF From, CountersInv
  <2>6. Cardinality(From(a)') = Cardinality(From(a)) + 1
    BY <2>1, <2>5, CountOne
  <2>7. \A b \in Addrs : connBySrc'[b] = Cardinality(From(b)')
    BY <2>1, <2>2, <2>6 DEF CountersInv, CountersExact, CountersOK, Conns, From
  <2>8. inflight' = Cardinality(Tokens')
    BY <2>1, <2>2 DEF CountersInv, CountersExact, Tokens
  <2>9. IsFiniteSet(Conns') /\ IsFiniteSet(Tokens')
    BY <2>1, CountOne DEF CountersInv
  <2>. QED
    BY <1>3, <2>3, <2>4, <2>7, <2>8, <2>9 DEF CountersInv, CountersExact, Conns, Tokens, From
<1>. QED
  BY <1>5, <1>6

\* A flow that ends gives back what it took.
LEMMA ReleaseCounts ==
    ASSUME CountersInv, NEW f \in Flows, Release(f)
    PROVE  CountersInv'
<1>1. pc[f] = "release" /\ Forget(f)
  BY DEF Release
<1>2. source[f] \in Addrs
  BY <1>1 DEF CountersInv, FlowsOK
<1>3. FlowsOK'
  BY <1>1 DEF Forget, CountersInv, FlowsOK, Kinds
<1>4. CASE kind[f] = "dns"
  <2>1. /\ f \in Tokens
        /\ Conns' = Conns /\ Tokens' = Tokens \ {f} /\ \A b \in Addrs : From(b)' = From(b)
    BY <1>1, <1>4 DEF Forget, Conns, Tokens, From, Admitted, CountersInv, FlowsOK
  <2>2. inflight' = inflight - 1 /\ connBySrc' = connBySrc /\ connTotal' = connTotal
    BY <1>4 DEF Release
  <2>3. inflight > 0 /\ inflight' = Cardinality(Tokens')
    BY <2>1, <2>2, CountOne DEF CountersInv, CountersExact, Tokens
  <2>4. CountersOK'
    BY <2>2, <2>3, LimitsAreNat DEF CountersInv, CountersOK
  <2>5. CountersExact'
    BY <2>1, <2>2, <2>3 DEF CountersInv, CountersExact, Conns, Tokens, From
  <2>6. IsFiniteSet(Conns') /\ IsFiniteSet(Tokens')
    BY <2>1, CountOne DEF CountersInv
  <2>. QED
    BY <1>3, <2>4, <2>5, <2>6 DEF CountersInv
<1>5. CASE kind[f] # "dns"
  <2> PICK a \in Addrs : a = source[f]
    BY <1>2
  <2>1. /\ f \in Conns /\ f \in From(a)
        /\ Conns' = Conns \ {f} /\ Tokens' = Tokens
        /\ From(a)' = From(a) \ {f} /\ \A b \in Addrs \ {a} : From(b)' = From(b)
    BY <1>1, <1>5 DEF Forget, Conns, Tokens, From, Admitted, CountersInv, FlowsOK, Kinds
  <2>2. IsFiniteSet(From(a))
    BY SourcesFinite DEF CountersInv
  <2>3. connBySrc[a] = Cardinality(From(a)) /\ connTotal = Cardinality(Conns)
    BY <1>2 DEF CountersInv, CountersExact, Conns, From
  <2>4. connBySrc[a] > 0 /\ connTotal > 0
    BY <2>1, <2>2, <2>3, CountOne DEF CountersInv
  <2>5. /\ connBySrc' = [connBySrc EXCEPT ![a] = @ - 1] /\ connTotal' = connTotal - 1
        /\ inflight' = inflight
    BY <1>5, <2>4 DEF Release
  <2>6. CountersOK'
    BY <1>2, <2>4, <2>5, LimitsAreNat DEF CountersInv, CountersOK
  <2>7. connTotal' = Cardinality(Conns') /\ Cardinality(From(a)') = Cardinality(From(a)) - 1
    BY <2>1, <2>2, <2>3, <2>5, CountOne DEF CountersInv
  <2>8. \A b \in Addrs : connBySrc'[b] = Cardinality(From(b)')
    BY <1>2, <2>1, <2>3, <2>5, <2>7 DEF CountersInv, CountersExact, CountersOK, Conns, From
  <2>9. inflight' = Cardinality(Tokens')
    BY <2>1, <2>5 DEF CountersInv, CountersExact, Tokens
  <2>10. IsFiniteSet(Conns') /\ IsFiniteSet(Tokens')
    BY <2>1, CountOne DEF CountersInv
  <2>. QED
    BY <1>3, <2>6, <2>7, <2>8, <2>9, <2>10 DEF CountersInv, CountersExact, Conns, Tokens, From
<1>. QED
  BY <1>4, <1>5

LEMMA CountersInit == Init => CountersInv
<1>1. SUFFICES ASSUME Init PROVE CountersInv
  OBVIOUS
<1>2. Conns = {} /\ Tokens = {} /\ \A a \in Addrs : From(a) = {}
  BY <1>1 DEF Init, Conns, Tokens, From, Admitted
<1>3. FlowsOK /\ CountersOK
  BY <1>1, LimitsAreNat DEF Init, FlowsOK, CountersOK, Kinds, Policies
<1>. QED
  BY <1>1, <1>2, <1>3, FS_EmptySet DEF Init, CountersInv, CountersExact, Conns, Tokens, From

LEMMA CountersStep ==
    ASSUME TablesInv, CountersInv, [Next]_vars
    PROVE  CountersInv'
<1>1. CASE UNCHANGED <<flows, counters>>
  <2>1. FlowsOK' /\ Conns' = Conns /\ Tokens' = Tokens /\ \A a \in Addrs : From(a)' = From(a)
    BY <1>1 DEF flows, CountersInv, FlowsOK, Conns, Tokens, From, Admitted
  <2>. QED
    BY <1>1, <2>1, SameFlowsCount
<1>2. CASE Control \/ Restart
  <2>1. UNCHANGED <<flows, counters>>
    BY <1>2 DEF Control, Restart, putPolicy, deletePolicy
  <2>. QED
    BY <1>1, <2>1
<1>3. CASE Crash
  <2>1. Conns' = {} /\ Tokens' = {} /\ \A a \in Addrs : From(a)' = {}
    BY <1>3 DEF Crash, Conns, Tokens, From, Admitted
  <2>2. FlowsOK' /\ CountersOK'
    BY <1>3, LimitsAreNat DEF Crash, FlowsOK, CountersOK, Kinds, Policies
  <2>. QED
    BY <1>3, <2>1, <2>2, FS_EmptySet DEF Crash, CountersInv, CountersExact, Conns, Tokens, From
<1>4. ASSUME NEW f \in Flows, Lookup(f) \/ Judge(f) \/ Dial(f) \/ Finish(f)
      PROVE  CountersInv'
  <2>1. UNCHANGED <<kind, source, counters>>
    BY <1>4 DEF Lookup, Judge, Dial, Finish
  <2>2. FlowsOK'
    <3>1. CASE Lookup(f)
      <4>1. policies[source[f]].rules \in Policies
        BY <3>1, EntriesArePolicies DEF Lookup, CountersInv, FlowsOK, TablesInv, TablesOK
      <4>. QED
        BY <3>1, <4>1 DEF Lookup, CountersInv, FlowsOK
    <3>2. CASE Judge(f)
      BY <3>2, AskedAreDestinations DEF Judge, CountersInv, FlowsOK, Policies
    <3>3. CASE Dial(f) \/ Finish(f)
      BY <3>3 DEF Dial, Finish, CountersInv, FlowsOK
    <3>. QED
      BY <1>4, <3>1, <3>2, <3>3
  <2>3. \A g \in Flows : pc'[g] # "closed" <=> pc[g] # "closed"
    BY <1>4 DEF Lookup, Judge, Dial, Finish, CountersInv, FlowsOK
  <2>4. Conns' = Conns /\ Tokens' = Tokens /\ \A a \in Addrs : From(a)' = From(a)
    BY <2>1, <2>3 DEF Conns, Tokens, From, Admitted
  <2>. QED
    BY <2>1, <2>2, <2>4, SameFlowsCount
<1>. QED
  BY <1>1, <1>2, <1>3, <1>4, ArriveCounts, ReleaseCounts DEF Next, Step, vars

\* The counters, and the types of flows, hold along every behaviour.
LEMMA CountersInvariant == Spec => [](TablesInv /\ CountersInv)
<1>1. TablesInv /\ CountersInv /\ [Next]_vars => (TablesInv /\ CountersInv)'
  BY TablesInvStep, CountersStep
<1>. QED
  BY <1>1, TablesInvInit, CountersInit, PTL DEF Spec

(* The counters are exactly the flows admitted and not yet released, through *)
(* every early return, refusal and crash: no limit leaks, none is exceeded   *)
(* (egressd main.go:236-257).                                                *)
THEOREM CountersAreExact == Spec => []CountersExact
<1>1. CountersInv => CountersExact
  BY DEF CountersInv
<1>. QED
  BY <1>1, CountersInvariant, PTL

(* The state of egressd is well formed, its counters within their limits.    *)
THEOREM GatewayTypeCorrect == Spec => []GatewayTypeOK
<1> DEFINE ProcessOK == up \in BOOLEAN /\ crashes \in 0..MaxCrashes
<1>1. Init => ProcessOK
  BY LimitsAreNat DEF Init
<1>2. ProcessOK /\ [Next]_vars => ProcessOK'
  <2>1. SUFFICES ASSUME ProcessOK, [Next]_vars PROVE ProcessOK'
    OBVIOUS
  <2>2. CASE Crash
    <3>1. crashes' \in 0..MaxCrashes
      BY <2>1, <2>2, LimitsAreNat DEF Crash
    <3>2. up' \in BOOLEAN
      BY <2>2 DEF Crash
    <3>. QED
      BY <3>1, <3>2
  <2>3. CASE Restart
    BY <2>1, <2>3 DEF Restart
  <2>4. CASE UNCHANGED process
    BY <2>1, <2>4 DEF process
  <2>5. ASSUME Control \/ \E f \in Flows : Arrive(f) \/ Step(f)
        PROVE  UNCHANGED process
    BY <2>5 DEF Control, putPolicy, deletePolicy, Arrive, Step, Lookup, Judge, Dial, Finish, Release
  <2>. QED
    BY <2>1, <2>2, <2>3, <2>4, <2>5 DEF Next, vars
<1>3. TablesInv /\ CountersInv /\ ProcessOK => GatewayTypeOK
  BY DEF TablesInv, CountersInv, GatewayTypeOK
<1> HIDE DEF ProcessOK
<1>. QED
  BY <1>1, <1>2, <1>3, CountersInvariant, PTL DEF Spec

=============================================================================
