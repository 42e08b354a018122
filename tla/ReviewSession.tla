---------------------------- MODULE ReviewSession ----------------------------
(***************************************************************************)
(* workspace.ReviewSession over a snapshot or tmpfs isolator, after the    *)
(* command has finished: the changes are loaded and selected, and applying *)
(* them (Isolator.Sync) computes the changes again and writes those that   *)
(* match the selection's patterns, through os.Root.  The user may edit the *)
(* original at any moment, also between two writes.                        *)
(***************************************************************************)
EXTENDS IsolatedWorkspace

CONSTANTS
    Copies,         \* what the command may leave of its copy
    DottedNames,    \* names that contain ".."
    Globs,          \* the pairs of a name, as a pattern, and a name it matches
    BadGlobs,       \* names that are no pattern, with a bracket left open
    MaxApplies      \* bound: applications of one session

ASSUME CopiesAreTrees == Copies \subseteq Tree
ASSUME AppliesAreBounded == MaxApplies \in Nat

VARIABLES
    loaded,     \* the paths of the changes LoadChanges found
    selected,   \* the paths selectedPaths maps to true
    syncing,    \* which application is in progress
    result,     \* ReviewSession.result
    applied,    \* history: the selection of the last successful ApplySelected
    asked,      \* history: what all applications were asked for, Paths for all
    applies     \* applications begun (bounded)

sessionVars == <<orig, shown, iso, loaded, selected, syncing, todo, result, applied, asked,
                 applies, users>>

SessionInit ==
    /\ orig \in Originals
    /\ shown = orig
    /\ iso \in Copies
    /\ loaded = {} /\ selected = {}
    /\ syncing = "no" /\ todo = {}
    /\ result = "pending" /\ applied = {} /\ asked = {}
    /\ applies = 0 /\ users = 0

Idle == syncing = "no"

SessionUserEdits ==
    /\ UserEdit
    /\ UNCHANGED <<loaded, selected, syncing, result, applied, asked, applies>>

PathsOf(list) == {c.path : c \in list}

\* All of the changes become selected; what was selected before stays so.
LoadChanges ==
    /\ Idle /\ iso # Gone
    /\ loaded' = PathsOf(DiffDirectories(orig, iso))
    /\ selected' = selected \cup loaded'
    /\ UNCHANGED <<orig, shown, iso, syncing, todo, result, applied, asked, applies, users>>

TogglePath ==
    /\ Idle
    /\ \E p \in loaded : selected' = SymDiff(selected, {p})
    /\ UNCHANGED <<orig, shown, iso, loaded, syncing, todo, result, applied, asked, applies, users>>

\* globmatch: a pattern without a slash matches an entry of that name at any
\* depth, one with a slash its path, and both all beneath; a name may be a glob.
Matches(pattern, p) ==
    IF Len(pattern) = 1 THEN \E i \in 1..Len(p) : <<pattern[1], p[i]>> \in Globs
    ELSE Len(pattern) <= Len(p) /\ \A i \in 1..Len(pattern) : <<pattern[i], p[i]>> \in Globs

Bad(pattern) == \E i \in 1..Len(pattern) : pattern[i] \in BadGlobs

\* matchesAnyPattern: one pattern that does not compile, and nothing is matched.
MatchesAny(patterns, p) ==
    /\ \A s \in patterns : ~Bad(s)
    /\ \E s \in patterns : Matches(s, p)

\* No selection leaves nothing to apply; the workspace stays.
ApplyNone ==
    /\ Idle /\ selected = {}
    /\ result' = "discarded"
    /\ UNCHANGED <<orig, shown, iso, loaded, selected, syncing, todo, applied, asked, applies, users>>

\* Mutant of ApplySelected: the paths the review showed first are forgotten.
MutApplyAddedOnly ==
    /\ Idle /\ iso # Gone /\ selected # {} /\ applies < MaxApplies
    /\ todo' = {c \in DiffDirectories(orig, iso) : c.type # "deleted" /\ c.path \in selected}
    /\ syncing' = "selected"
    /\ asked' = asked \cup selected
    /\ applies' = applies + 1
    /\ UNCHANGED <<orig, shown, iso, loaded, selected, result, applied, users>>

\* The changes are computed anew, and each selected path is a pattern.
ApplySelected ==
    /\ Idle /\ iso # Gone /\ selected # {} /\ applies < MaxApplies
    /\ todo' = {c \in DiffDirectories(orig, iso) : MatchesAny(selected, c.path)}
    /\ syncing' = "selected"
    /\ asked' = asked \cup selected
    /\ applies' = applies + 1
    /\ UNCHANGED <<orig, shown, iso, loaded, selected, result, applied, users>>

ApplyAll ==
    /\ Idle /\ iso # Gone /\ applies < MaxApplies
    /\ todo' = DiffDirectories(orig, iso)
    /\ syncing' = "all"
    /\ asked' = Paths
    /\ applies' = applies + 1
    /\ UNCHANGED <<orig, shown, iso, loaded, selected, result, applied, users>>

\* root.Mkdir: what exists already is fine, a missing parent is not.
MadeDir(t, p) ==
    LET e == Entry(t, p)
    IN  IF e = Elsewhere THEN {t}
        ELSE IF t[e] # None THEN {t}
        ELSE {[t EXCEPT ![e] = Dir]} \cap Tree

Dotted(p) == \E i \in 1..Len(p) : p[i] \in DottedNames

\* The loop passes over a path with "..", though it is only part of a name, and over
\* the links of the copy.
Skipped(c) ==
    \/ Dotted(c.path)
    \/ c.type # "deleted" /\ iso[c.path] \in Links

\* os.Root refuses a path that leads out of the tree.
Refused(t, c) ==
    \/ \E q \in Above(c.path) : Place(t, q) = Elsewhere
    \/ c.type # "deleted" /\ iso[c.path] # Dir /\ Place(t, c.path) = Elsewhere

\* Mutant of SessionSyncChange: what exists already is left as it is.
MutSyncKeepsExisting(t, c) ==
    CASE Skipped(c)          -> {t}
      [] Refused(t, c)       -> {}
      [] c.type = "deleted"  -> Removed(t, c.path)
      [] iso[c.path] = Dir   -> MadeDir(t, c.path)
      [] OTHER               -> IF t[c.path] = None THEN Copied(t, c.path, iso[c.path]) ELSE {t}

SessionSyncChange(t, c) ==
    IF Skipped(c) THEN {t}
    ELSE IF Refused(t, c) THEN {}
    ELSE IF c.type = "deleted" THEN Removed(t, c.path)
    ELSE IF iso[c.path] = Dir THEN MadeDir(t, c.path)
    ELSE Copied(t, c.path, iso[c.path])

SessionSyncNext ==
    /\ ~Idle
    /\ \E c \in First(todo) : /\ orig' \in SessionSyncChange(orig, c)
                              /\ todo' = todo \ {c}
    /\ UNCHANGED <<shown, iso, loaded, selected, syncing, result, applied, asked, applies, users>>

\* Any write may fail half way.  The error leaves the session as it was, and the call
\* may be made again.
SessionSyncFails ==
    /\ ~Idle
    /\ \E c \in First(todo) :
          /\ ~Skipped(c)
          /\ orig' \in IF c.type = "deleted" \/ iso[c.path] = Dir
                      THEN {orig} ELSE Spoiled(orig, c.path)
    /\ todo' = {} /\ syncing' = "no"
    /\ UNCHANGED <<shown, iso, loaded, selected, result, applied, asked, applies, users>>

SessionSyncEnds ==
    /\ ~Idle /\ todo = {}
    /\ syncing' = "no" /\ result' = syncing
    /\ applied' = IF syncing = "selected" THEN selected ELSE applied
    /\ UNCHANGED <<orig, shown, iso, loaded, selected, todo, asked, applies, users>>

\* An isolator configured to preserve its workspace keeps it all the same.
Discard ==
    /\ Idle
    /\ result' = "discarded"
    /\ iso' \in {iso, Gone}
    /\ UNCHANGED <<orig, shown, loaded, selected, syncing, todo, applied, asked, applies, users>>

Preserve ==
    /\ Idle
    /\ result' = "preserved"
    /\ UNCHANGED <<orig, shown, iso, loaded, selected, syncing, todo, applied, asked, applies, users>>

SessionNext ==
    \/ SessionUserEdits \/ LoadChanges \/ TogglePath
    \/ ApplyNone \/ ApplySelected \/ ApplyAll
    \/ SessionSyncNext \/ SessionSyncFails \/ SessionSyncEnds \/ Discard \/ Preserve

SessionSpec == SessionInit /\ [][SessionNext]_sessionVars

-----------------------------------------------------------------------------
(* Properties *)

SessionTypeOK ==
    /\ orig \in Tree /\ shown \in Tree /\ iso \in Tree \cup {Gone}
    /\ selected \subseteq Paths /\ loaded \subseteq Paths
    /\ applied \subseteq Paths /\ asked \subseteq Paths
    /\ syncing \in {"no", "all", "selected"}
    /\ todo \subseteq Change
    /\ result \in {"pending", "all", "selected", "discarded", "preserved"}
    /\ applies \in 0..MaxApplies /\ users \in 0..MaxUser

\* Nobody but the session writes to the original, and no path of the copy leads
\* through a link.
Undisturbed == users = 0 /\ iso # Gone /\ Straight(shown, iso)

\* Once every change was applied, and nobody else wrote, a new comparison finds
\* nothing left to apply but what the writer passes over: it undoes every
\* other difference that the comparison can report.  ReviewSession.ApplyAll,
\* syncChanges, diffDirectories.
AppliedLeavesNoChanges ==
    Undisturbed /\ result = "all" => \A c \in DiffDirectories(orig, iso) : Skipped(c)

\* A selected path is one the selection's patterns match, if all are patterns and it
\* matches itself.
SelectsItself(p, patterns) ==
    (\A s \in patterns : ~Bad(s)) /\ Matches(p, p)

\* What was selected when ApplySelected succeeded is in the original as the
\* command left it, whatever is selected and applied later, if the selection's
\* patterns reach it and it is not passed over; and until everything is applied,
\* the original is what it was but for what a selected pattern matches and the
\* directories above that.  ReviewSession.ApplySelected, matchesAnyPattern.
SelectedAreApplied ==
    Undisturbed =>
        /\ \A p \in applied : SelectsItself(p, applied) => orig[p] = iso[p] \/ Dotted(p)
        /\ \A p \in Paths : orig[p] # shown[p] =>
              \/ asked = Paths
              \/ \E s \in asked : \E q \in Below(p) \cup {p} : Matches(s, q)

=============================================================================
