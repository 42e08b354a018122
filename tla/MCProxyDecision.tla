---------------------------- MODULE MCProxyDecision ----------------------------
(* Two requests for one tag, one of them, of which the tags have white space around
   them, for a package version or for a tag no reference can be built for at other
   times; strict mode, which refuses and pins.  An advisory is about the package
   version, or about nothing yet. *)
EXTENDS ProxyDecision, TLC

CONSTANTS a, b, t, u, k, v

MCRequests == {a, b}
MCSpaced == {b}
MCTags == {t, u}
MCUnbuildable == {u}
MCPackages == {k}
MCAdvisories == {v}
MCAsks == [p \in Requests |-> IF p = a THEN {t} ELSE {t, u, k}]
MCPushed == {[x \in Tags |-> d] : d \in Digests}
MCPublished == {[x \in Advisories |-> S] : S \in {{k}}}
MCConfigs == {[allow |-> FALSE, pin |-> FALSE, strict |-> TRUE]}
MCSymmetry == Permutations(Digests)
=============================================================================
