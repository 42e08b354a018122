------------------------------ MODULE MCMiseFix ------------------------------
(***************************************************************************)
(* Two configs that lock into one file, a tool and its backend-qualified   *)
(* namesake, three releases, a partial selector and a floating one.        *)
(***************************************************************************)
EXTENDS MiseFix, TLC

CONSTANTS a, b, sharedLock, node, npmNode, line, latest

MCConfigs == {a, b}
MCLockOf == a :> sharedLock @@ b :> sharedLock
MCKeys == {node, npmNode}
MCShort == node :> node @@ npmNode :> node
MCVersions == 1..3
MCRequests == MCVersions \cup {line, latest}

\* line selects releases 1 and 2 ("20" for 20.1 and 20.2).
MCSelects == [r \in MCVersions |-> {r}] @@ line :> {1, 2} @@ latest :> MCVersions
MCOrder == [r \in MCVersions |-> r] @@ line :> 1 @@ latest :> 0

FixA == [config |-> a, tool |-> npmNode, currents |-> {2}, target |-> 3]
FixB == [config |-> b, tool |-> node, currents |-> {1, 2}, target |-> 3]
FixUnknown == [config |-> b, tool |-> node, currents |-> {}, target |-> 3]

\* a declares the qualified name, in every form the fix tells apart, and may
\* declare the short one; b declares the short name or a's very key.
MCDeclarable ==
    a :> (node :> {<<>>, <<2>>}
          @@ npmNode :> {<<2>>, <<line>>, <<1, 2>>, <<2, 3>>, <<2, latest>>})
    @@ b :> (node :> {<<>>, <<line>>, <<1, 2>>} @@ npmNode :> {<<>>, <<2>>})
MCPlans == {FixA, FixB, FixUnknown}

-----------------------------------------------------------------------------
\* One config and one tool, whose lockfile still records a release that
\* nothing declares any more.
OneConfig == {a}
OneLock == a :> sharedLock
OneKey == {npmNode}
OneShort == npmNode :> node
HistoryVersions == 1..4
HistorySelects == [r \in HistoryVersions |-> {r}]
HistoryOrder == [r \in HistoryVersions |-> r]
HistoryDeclarable == a :> (npmNode :> {<<2>>, <<3>>, <<2, 3>>, <<3, 2>>})
HistoryPlans == {[config |-> a, tool |-> npmNode, currents |-> {2}, target |-> 4],
                 [config |-> a, tool |-> npmNode, currents |-> {2, 3}, target |-> 4]}

=============================================================================
