----------------------------- MODULE EgressPolicy -----------------------------
(***************************************************************************)
(* The algebra of egress policies (internal/egress/policy.go), used by the *)
(* control API to narrow a request to the administrator's ceiling, and by  *)
(* egressd to narrow it again and to judge every connection.               *)
(*                                                                         *)
(* A host is the sequence of its labels from the root down, so the suffix  *)
(* tests of the code are prefix tests here; a path is the sequence of its  *)
(* segments.  A rule is [domain, methods, paths]; an empty set of methods  *)
(* or of paths restricts nothing.  A policy is a set of rules; a ceiling   *)
(* is a sequence of rules, since Intersect takes the first that fits.      *)
(***************************************************************************)
EXTENDS Integers, Sequences

CONSTANTS
    Labels,   \* what host names and paths are made of
    Methods,  \* HTTP methods
    NoMethod  \* of a connection judged by its host name alone

ASSUME NoMethodIsNone == NoMethod \notin Methods

Hosts == Seq(Labels)
Paths == Seq(Labels)

\* "*.base", or a base alone
Patterns == [wild : BOOLEAN, base : Hosts]
Rules == [domain : Patterns, methods : SUBSET Methods, paths : SUBSET Paths]
Policies == SUBSET Rules
Ceilings == Seq(Rules)

\* what a connection or a lookup asks for
Destinations == [host : Hosts, method : Methods \cup {NoMethod}, path : Paths]

-----------------------------------------------------------------------------

StartsWith(s, prefix) ==
    /\ Len(prefix) <= Len(s)
    /\ \A i \in 1..Len(prefix) : s[i] = prefix[i]

\* a name with at least one label more than the base
Below(name, base) == StartsWith(name, base) /\ Len(base) < Len(name)

domainMatches(pattern, host) ==
    IF pattern.wild THEN Below(host, pattern.base) ELSE host = pattern.base

\* mutant: "*.base" is taken to hold the base as well
ContainedOrEqual(requested, ceiling) ==
    requested = ceiling \/ (ceiling.wild /\ StartsWith(requested.base, ceiling.base))

patternContainedBy(requested, ceiling) ==
    requested = ceiling \/ (ceiling.wild /\ Below(requested.base, ceiling.base))

Admits(rule, dest) ==
    /\ domainMatches(rule.domain, dest.host)
    /\ rule.methods = {} \/ dest.method \in rule.methods
    /\ rule.paths = {} \/ \E prefix \in rule.paths : StartsWith(dest.path, prefix)

Allows(policy, dest) == \E rule \in policy : Admits(rule, dest)

CeilingAllows(ceiling, dest) ==
    \E i \in 1..Len(ceiling) : Admits(ceiling[i], dest)

-----------------------------------------------------------------------------

intersectStrings(requested, ceiling) ==
    IF ceiling = {} THEN requested
    ELSE IF requested = {} THEN ceiling
    ELSE requested \cap ceiling

intersectPrefixes(requested, ceiling) ==
    IF ceiling = {} THEN requested
    ELSE IF requested = {} THEN ceiling
    ELSE {r \in requested : \E c \in ceiling : StartsWith(r, c)}
         \cup {c \in ceiling : \E r \in requested : StartsWith(c, r)}

Combined(requested, ceiling) ==
    [domain |-> requested.domain,
     methods |-> intersectStrings(requested.methods, ceiling.methods),
     paths |-> intersectPrefixes(requested.paths, ceiling.paths)]

\* the ceiling's rule is about the same names, and something is left of the request
Fits(requested, ceiling) ==
    LET both == Combined(requested, ceiling) IN
    /\ patternContainedBy(requested.domain, ceiling.domain)
    /\ ~(requested.methods # {} /\ ceiling.methods # {} /\ both.methods = {})
    /\ ~(requested.paths # {} /\ ceiling.paths # {} /\ both.paths = {})

\* where the first rule of the ceiling that fits is, if any does
FirstFit(rule, ceiling) ==
    {i \in 1..Len(ceiling) :
        Fits(rule, ceiling[i]) /\ \A j \in 1..(i - 1) : ~Fits(rule, ceiling[j])}

Kept(requested, ceiling) ==
    {rule \in requested : \E i \in 1..Len(ceiling) : Fits(rule, ceiling[i])}

Intersect(requested, ceiling) ==
    UNION {{Combined(rule, ceiling[i]) : i \in FirstFit(rule, ceiling)} : rule \in requested}

\* the API and egressd accept a request none of whose rules was dropped
WithinCeiling(requested, ceiling) == Kept(requested, ceiling) = requested

=============================================================================
