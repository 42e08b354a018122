-------------------------- MODULE IsolatedWorkspace --------------------------
(***************************************************************************)
(* The state that the two reviews of an isolated workspace have in common: *)
(* the user's work tree, the copy the command worked on, and the changes   *)
(* on their way from the one to the other.  The user has an editor open.   *)
(***************************************************************************)
EXTENDS WorkspaceTree

CONSTANTS
    Originals,      \* the work trees a run may start from
    Gone,           \* an isolated workspace that was removed or never made
    UserPaths,      \* bound: the paths the user's edits change
    MaxUser         \* bound: edits the user makes meanwhile

ASSUME OriginalsAreTrees == Originals \subseteq Tree
ASSUME UserIsBounded == MaxUser \in Nat

VARIABLES
    orig,       \* the user's work tree
    shown,      \* history: the original as it was compared, or as a session found it
    iso,        \* the isolated workspace, or Gone
    todo,       \* the changes still to be written back
    users       \* edits the user has made (bounded)

\* The user edits the original.
UserEdit ==
    /\ users < MaxUser
    /\ orig' \in {t \in Edits(orig) \ {orig} : \A p \in Paths \ UserPaths : t[p] = orig[p]}
    /\ users' = users + 1
    /\ UNCHANGED <<shown, iso, todo>>

=============================================================================
