--------------------------- MODULE WorkspaceReview ---------------------------
(***************************************************************************)
(* One `deputy exec --workspace-isolation ... --review`.  On a host        *)
(* runtime the manager wraps the runtime (wrapWithIsolation) and the       *)
(* wrapper copies the work tree (IsolatingRuntime.Execute); the docker     *)
(* runtime copies it itself and leaves out what the mask hides             *)
(* (DockerIsolator).  The command runs in the copy, the changes are        *)
(* reported, the run waits inside yield for the user's review and tears    *)
(* the copy down; accepting writes the reported changes back one by one    *)
(* (pathBasedReviewer.SyncChanges).  The user may go on editing the        *)
(* original all the while.  Command and user may make symbolic links, and  *)
(* the writes go through the links that are there.                         *)
(***************************************************************************)
EXTENDS IsolatedWorkspace

CONSTANTS
    Configs,        \* runtime, mode, mask, review, preserve: the flags
    MaxCommand      \* bound: edits the command makes

ASSUME ConfigsAreFlags ==
    Configs \subseteq [runtime : {"host", "docker"},
                       mode : {"snapshot", "tmpfs", "git-worktree"},
                       masked : SUBSET Paths,
                       review : BOOLEAN, preserve : BOOLEAN]
ASSUME CommandIsBounded == MaxCommand \in Nat

VARIABLES
    cfg,        \* the configuration of this run
    mounts,     \* the hidden paths, an empty mount over each in the container
    phase,      \* where the run is
    changes,    \* the changes the event reports
    outcome,    \* what the review came to
    touched,    \* history: the paths the command changed
    commands    \* edits the command has made (bounded)

vars == <<cfg, orig, iso, mounts, phase, changes, todo, outcome, shown,
          touched, commands, users>>

Phases == {"start", "direct", "running", "review", "syncing", "teardown", "ended"}
Outcomes == {"none", "accepted", "rejected", "aborted"}

Init ==
    /\ cfg \in Configs
    /\ orig \in Originals
    /\ iso = Gone /\ mounts = {}
    /\ phase = "start"
    /\ changes = {} /\ todo = {} /\ outcome = "none"
    /\ shown = orig
    /\ touched = {}
    /\ commands = 0 /\ users = 0

-----------------------------------------------------------------------------
(* Setting up *)

Docker == cfg.runtime = "docker"

\* For docker every mode is a copy.
InWorktree == cfg.mode = "git-worktree" /\ ~Docker

\* A git worktree needs a repository: without one no isolator is made, and the
\* manager runs the command on the original.
WrapFails ==
    /\ phase = "start"
    /\ InWorktree /\ orig[<<GitDir>>] = None
    /\ phase' = "direct"
    /\ UNCHANGED <<cfg, mounts, orig, iso, changes, todo, outcome, shown, touched, commands, users>>

Setup ==
    /\ phase = "start" /\ ~InWorktree /\ ~Docker
    /\ iso' = CopyDir(orig)
    /\ phase' = "running"
    /\ UNCHANGED <<cfg, orig, mounts, changes, todo, outcome, shown, touched, commands, users>>

\* Only docker looks at the mask.  The container engine makes a directory at each
\* mount point, in the copy.
DockerSetup ==
    /\ phase = "start" /\ Docker
    /\ mounts' = HiddenPaths(orig, cfg.masked)
    /\ LET copy == CreateMaskedWorkspace(orig, cfg.masked)
       IN  iso' = [p \in Paths |-> IF p \in mounts' THEN Dir ELSE copy[p]]
    /\ phase' = "running"
    /\ UNCHANGED <<cfg, orig, changes, todo, outcome, shown, touched, commands, users>>

\* The copy or the mount fails or times out: nothing of it stays.
SetupFails ==
    /\ phase = "start" /\ ~InWorktree
    /\ phase' = "ended"
    /\ UNCHANGED <<cfg, mounts, orig, iso, changes, todo, outcome, shown, touched, commands, users>>

-----------------------------------------------------------------------------
(* The command and the user *)

\* The command reaches nothing at or below a mount.
CommandEdits ==
    /\ phase \in {"running", "direct"}
    /\ commands < MaxCommand
    /\ LET tree == IF phase = "running" THEN iso ELSE orig
       IN  \E t \in Edits(tree) \ {tree} :
              /\ \A p \in mounts : \A q \in Below(p) \cup {p} : t[q] = tree[q]
              /\ touched' = touched \cup {p \in Paths : t[p] # tree[p]}
              /\ IF phase = "running" THEN iso' = t /\ orig' = orig
                                      ELSE orig' = t /\ iso' = iso
    /\ commands' = commands + 1
    /\ UNCHANGED <<cfg, mounts, phase, changes, todo, outcome, shown, users>>

UserEdits ==
    /\ phase \notin {"start", "direct", "ended"}
    /\ UserEdit
    /\ UNCHANGED <<cfg, mounts, phase, changes, outcome, shown, touched, commands>>

\* The inner runtime reports the exit: with --review the changes are computed
\* and, if there are any, the event is held in yield while the user decides.
Completes ==
    /\ phase = "running"
    /\ changes' = IF cfg.review THEN DiffDirectories(orig, iso) ELSE {}
    /\ shown' = orig
    /\ phase' = IF changes' = {} THEN "teardown" ELSE "review"
    /\ UNCHANGED <<cfg, mounts, orig, iso, todo, outcome, touched, commands, users>>

\* A fatal error ends the loop of the CLI, or the runtime ends without an exit:
\* there is no review.
EndsEarly ==
    /\ phase = "running"
    /\ phase' = "teardown"
    /\ UNCHANGED <<cfg, mounts, orig, iso, changes, todo, outcome, shown, touched, commands, users>>

DirectEnds ==
    /\ phase = "direct"
    /\ phase' = "ended"
    /\ UNCHANGED <<cfg, mounts, orig, iso, changes, todo, outcome, shown, touched, commands, users>>

-----------------------------------------------------------------------------
(* The review *)

Accept ==
    /\ phase = "review"
    /\ phase' = "syncing"
    /\ todo' = changes
    /\ UNCHANGED <<cfg, mounts, orig, iso, changes, outcome, shown, touched, commands, users>>

\* "r", or standard input that is no terminal; "q" or the end of the input.
Decline ==
    /\ phase = "review"
    /\ outcome' \in {"rejected", "aborted"}
    /\ phase' = "teardown"
    /\ UNCHANGED <<cfg, mounts, orig, iso, changes, todo, shown, touched, commands, users>>

\* Mutant of SyncChange: a deletion takes all beneath it (os.RemoveAll).
MutSyncRemovesAll(t, c) ==
    IF c.type = "deleted"
    THEN {[q \in Paths |-> IF q \in Below(c.path) \cup {c.path} THEN None ELSE t[q]]}
    ELSE UNION {IF n = Dir THEN MakeDirs(t, Above(c.path) \cup {c.path})
                ELSE Copied(t, c.path, n) : n \in Reads(iso, c.path) \ {None}}

\* What writing one change back leaves of a tree, or {} when it must fail.  What is
\* written is what the path leads to in the copy.
SyncChange(t, c) ==
    IF c.type = "deleted" THEN Removed(t, c.path)
    ELSE UNION {IF n = Dir THEN MakeDirs(t, Above(c.path) \cup {c.path})
                ELSE Copied(t, c.path, n) : n \in Reads(iso, c.path) \ {None}}

SyncNext ==
    /\ phase = "syncing"
    /\ \E c \in First(todo) : /\ orig' \in SyncChange(orig, c)
                              /\ todo' = todo \ {c}
    /\ UNCHANGED <<cfg, mounts, iso, phase, changes, outcome, shown, touched, commands, users>>

\* Any write may fail, and may leave the directories it made and a file with part of
\* what it held.  The first failure ends the loop and is reported as an aborted review.
SyncFails ==
    /\ phase = "syncing"
    /\ \E c \in First(todo) :
          orig' \in IF c.type = "deleted" THEN {orig}
                   ELSE IF Reads(iso, c.path) \cap Files = {} THEN PartlyMade(orig, c.path)
                   ELSE Spoiled(orig, c.path)
    /\ outcome' = "aborted"
    /\ phase' = "teardown"
    /\ UNCHANGED <<cfg, mounts, iso, changes, todo, shown, touched, commands, users>>

SyncEnds ==
    /\ phase = "syncing" /\ todo = {}
    /\ outcome' = "accepted"
    /\ phase' = "teardown"
    /\ UNCHANGED <<cfg, mounts, orig, iso, changes, todo, shown, touched, commands, users>>

\* The copy is kept for --review and --preserve-workspace; the host's tmpfs is
\* unmounted whatever is asked.
Kept == (Docker \/ cfg.mode = "snapshot") /\ (cfg.review \/ cfg.preserve)

Teardown ==
    /\ phase = "teardown"
    /\ iso' = IF Kept THEN iso ELSE Gone
    /\ phase' = "ended"
    /\ UNCHANGED <<cfg, mounts, orig, changes, todo, outcome, shown, touched, commands, users>>

Next ==
    \/ WrapFails \/ Setup \/ DockerSetup \/ SetupFails
    \/ CommandEdits \/ UserEdits \/ Completes \/ EndsEarly \/ DirectEnds
    \/ Accept \/ Decline \/ SyncNext \/ SyncFails \/ SyncEnds \/ Teardown

Spec == Init /\ [][Next]_vars

-----------------------------------------------------------------------------
(* Properties *)

TypeOK ==
    /\ cfg \in Configs
    /\ orig \in Tree /\ shown \in Tree
    /\ iso \in Tree \cup {Gone}
    /\ mounts \subseteq cfg.masked
    /\ phase \in Phases /\ outcome \in Outcomes
    /\ changes \subseteq Change /\ todo \subseteq changes
    /\ touched \subseteq Paths
    /\ commands \in 0..MaxCommand /\ users \in 0..MaxUser

\* What the command left, the metadata of git apart, is what the original holds
\* once the accepted changes are reported synced, if nobody edited it meanwhile and
\* the copy has nothing at or beneath a link; except where the command put a directory
\* in the place of a file, which the comparison does not report.  DiffDirectories and
\* SyncChanges together.
AcceptedIsWhole ==
    phase = "teardown" /\ outcome = "accepted" /\ users = 0 /\ Straight(shown, iso) =>
        \A p \in Paths :
            \/ InGit(p) \/ orig[p] = iso[p]
            \/ \E q \in Above(p) \cup {p} : iso[q] = Dir /\ orig[q] # Dir

\* The change that a review makes at a path is one of those it showed: an entry
\* whose removal was reported, what the copy holds at a reported path, written where
\* that path leads, a missing directory on the way to it, or what is left of a
\* write that failed.
IsReviewed(p) ==
    \E c \in changes :
        \/ c.type = "deleted" /\ p = Entry(orig, c.path) /\ orig'[p] = None
        \/ /\ c.type # "deleted" /\ p = Place(orig, c.path)
           /\ \/ orig'[p] \in Reads(iso, c.path)
              \/ orig'[p] = Torn /\ outcome' = "aborted"
        \/ /\ orig[p] = None /\ orig'[p] = Dir
           /\ \E q \in Above(c.path) \cup {c.path} : p = Place(orig, q)

\* While a copy is in use nobody but the user and an accepted review write to
\* the original, and the review writes only what it showed.  A link in the original
\* can take a reported path elsewhere; nothing that no reported path leads to is
\* written, whatever the user and the command do.  pathBasedReviewer.SyncChanges.
OnlyReviewedIsWritten ==
    [][users' = users /\ orig' # orig /\ phase # "direct" =>
         /\ phase = "syncing"
         /\ \A p \in Paths : orig'[p] # orig[p] => IsReviewed(p)]_vars

\* A review never writes the git metadata, whatever the command did to its copy,
\* unless the work tree has a link through which a reported path leads: "Syncing .git
\* changes could corrupt the git state" (diffDirectories).
GitIsLeftAlone ==
    [][users' = users /\ phase # "direct" /\ (\A c \in changes : ~Linked(orig, c.path)) =>
         \A p \in Paths : InGit(p) => orig'[p] = orig[p]]_vars

\* A file the command moved is in the original at its old path or at its new
\* one at every moment of the review, also when a write fails half way: the
\* deletions come last.  The order of diffDirectories.
MovedFilesAreKept ==
    users = 0 /\ phase \in {"review", "syncing", "teardown"} /\ Straight(shown, iso) =>
        \A d, a \in changes :
            /\ d.type = "deleted" /\ a.type = "added"
            /\ shown[d.path] \in Contents /\ iso[a.path] = shown[d.path]
            => orig[d.path] = shown[d.path] \/ orig[a.path] = shown[d.path]

\* "Changes returns the list of files modified during execution": what the
\* review shows is what the command did.  Symbolic links the copy leaves out,
\* and what a mask hid from a container, are shown too, as deletions.
ReportsOnlyExecuted ==
    \A c \in changes : c.path \in touched

=============================================================================
