---------------------------- MODULE WorkspaceTree ----------------------------
(***************************************************************************)
(* Work trees and the two ways of comparing and writing them that          *)
(* internal/sandbox/workspace and the review of `deputy exec` use.         *)
(*                                                                         *)
(* A path is the sequence of the names that lead to it; a tree gives every *)
(* path nothing, a directory, a symbolic link or a file.  A system call is *)
(* the set of the trees it can leave: {} when it fails.  It follows the    *)
(* links at and above the path it is given; one that leads out of the tree *)
(* takes a write elsewhere and leaves the tree as it is, unless the call   *)
(* is made through os.Root, which refuses it.                              *)
(***************************************************************************)
EXTENDS Naturals, FiniteSets, Sequences, SequencesExt

CONSTANTS
    Paths,          \* the paths of the tree, sequences of names
    GitDir,         \* the name ".git"
    Contents,       \* file contents
    Torn,           \* what a write that failed leaves in a file
    None,           \* nothing at a path
    Dir,            \* a directory
    Links,          \* symbolic links
    Leads,          \* Leads[l]: the path link l leads to, or Elsewhere
    Elsewhere,      \* outside the tree
    MaxHops         \* bound: links followed one after the other

ASSUME PathsAreNames == Paths \subseteq Seq(Nat)
ASSUME PathsAreFinite == IsFiniteSet(Paths)
ASSUME PathsAreClosed ==
    \A p \in Paths : p # <<>> /\ \A n \in 1..Len(p) : SubSeq(p, 1, n) \in Paths
ASSUME LinksLead == Leads \in [Links -> Paths \cup {Elsewhere}] /\ Elsewhere \notin Paths
ASSUME HopsAreBounded == MaxHops \in Nat
ASSUME NodesDiffer ==
    /\ None # Dir /\ None # Torn /\ Dir # Torn
    /\ {None, Dir, Torn} \cap Contents = {}
    /\ Links \cap ({None, Dir, Torn} \cup Contents) = {}

Files == Contents \cup {Torn}
Nodes == Files \cup {None, Dir} \cup Links
Above(p) == {q \in Paths : IsStrictPrefix(q, p)}
Below(p) == {q \in Paths : IsStrictPrefix(p, q)}

\* Only directories have entries.
Tree == {t \in [Paths -> Nodes] :
            \A p \in Paths : t[p] # None => \A q \in Above(p) : t[q] = Dir}

-----------------------------------------------------------------------------
(* Following links *)

\* The links of a tree, by their paths.
LinksOf(t) == [p \in {q \in Paths : t[q] \in Links} |-> t[p]]

\* A path leads through a link, at its end or above it.
Crosses(L, p) == (Above(p) \cup {p}) \cap DOMAIN L # {}
Linked(t, p) == Crosses(LinksOf(t), p)

\* The uppermost link of a path is replaced by what it leads to.
Hop(L, p) ==
    LET q == CHOOSE x \in (Above(p) \cup {p}) \cap DOMAIN L : Above(x) \cap DOMAIN L = {}
        rest == SubSeq(p, Len(q) + 1, Len(p))
    IN  IF Leads[L[q]] = Elsewhere THEN Elsewhere ELSE Leads[L[q]] \o rest

Hops(L, p) ==
    LET hop[n \in Nat] == IF n = 0 THEN p
                          ELSE IF hop[n - 1] \in Paths /\ Crosses(L, hop[n - 1])
                          THEN Hop(L, hop[n - 1]) ELSE hop[n - 1]
    IN  hop[MaxHops]

\* Where a path leads; a loop of links leads nowhere.
Follow(L, p) ==
    IF ~Crosses(L, p) THEN p
    ELSE LET end == Hops(L, p)
         IN  IF end \in Paths /\ ~Crosses(L, end) THEN end ELSE Elsewhere

Place(t, p) == Follow(LinksOf(t), p)

\* Where an entry is whose removal is asked for: a link is removed, not followed.
Entry(t, p) ==
    IF \A q \in Above(p) : t[q] \notin Links THEN p
    ELSE LET parent == Place(t, Front(p))
         IN  IF parent \in Paths /\ parent \o <<p[Len(p)]>> \in Paths
             THEN parent \o <<p[Len(p)]>> ELSE Elsewhere

\* What reading a path finds; outside the tree it may be anything.
Reads(t, p) ==
    IF Place(t, p) = Elsewhere THEN Contents \cup {None, Dir} ELSE {t[Place(t, p)]}

-----------------------------------------------------------------------------
(* Copying and comparing *)

CopyDir(t) == [p \in Paths |-> IF t[p] \in Links THEN None ELSE t[p]]

\* The uppermost of the paths a mask hides.
HiddenPaths(t, masked) == {p \in masked : t[p] # None /\ Above(p) \cap masked = {}}

CreateMaskedWorkspace(t, masked) ==
    [p \in Paths |-> IF t[p] \in Links \/ p \in masked \/ Above(p) \cap masked # {}
                     THEN None ELSE t[p]]

InGit(p) == p[1] = GitDir

\* No path leads beneath a file.
Barred(t, p) == \E q \in Above(p) : t[q] \notin {None, Dir}

\* The walks follow no link; what the original has at a path is looked up through
\* its links, as long as they stay in the tree.
Added(o, m) == {p \in Paths : /\ m[p] # None
                              /\ Place(o, p) # Elsewhere
                              /\ o[Place(o, p)] = None
                              /\ ~Barred(o, Place(o, p))}
\* A link of the copy never has the size of what it is compared with.
Modified(o, m) == {p \in Paths : /\ m[p] \in Files \cup Links
                                 /\ Place(o, p) # Elsewhere
                                 /\ o[Place(o, p)] \notin {None, m[p]}}
Deleted(o, m) == {p \in Paths : o[p] # None /\ m[p] = None}

Change == [path : Paths, type : {"added", "modified", "deleted"}]

\* Mutant of Listed: the git metadata is listed too.
MutListedWithGit(type, S) == {[path |-> p, type |-> type] : p \in S}

\* The changes of one type; a walk skips the git metadata.
Listed(type, S) == {[path |-> p, type |-> type] : p \in {q \in S : ~InGit(q)}}

\* Mutant of DiffDirectories: only the modified tree is walked.
MutNoDeletions(o, m) == Listed("added", Added(o, m)) \cup Listed("modified", Modified(o, m))

DiffDirectories(o, m) ==
    Listed("added", Added(o, m))
    \cup Listed("modified", Modified(o, m))
    \cup Listed("deleted", Deleted(o, m))

\* fs.WalkDir: a directory before its entries, the entries in name order.
WalksBefore(p, q) ==
    \/ IsStrictPrefix(p, q)
    \/ \E i \in 1..Len(p) : /\ i <= Len(q)
                            /\ \A j \in 1..(i - 1) : p[j] = q[j]
                            /\ p[i] < q[i]

\* Mutant of ListedBefore: the original is walked first.
MutDeletionsFirst(c, d) ==
    IF c.type = "deleted" <=> d.type = "deleted" THEN WalksBefore(c.path, d.path)
    ELSE c.type = "deleted"

\* The order of the list: one walk of the modified tree, then one of the original.
ListedBefore(c, d) ==
    IF c.type = "deleted" <=> d.type = "deleted" THEN WalksBefore(c.path, d.path)
    ELSE d.type = "deleted"

\* The change of the list that is written next.
First(list) == {c \in list : \A d \in list \ {c} : ListedBefore(c, d)}

-----------------------------------------------------------------------------
(* Writing *)

\* Mutant of Removed: a directory goes and its entries stay.
MutRemovedWithoutEntries(t, p) == {[t EXCEPT ![p] = None]}

Removed(t, p) ==
    LET e == Entry(t, p)
    IN  IF e = Elsewhere THEN {t}
        ELSE IF Barred(t, e) THEN {}
        ELSE {[t EXCEPT ![e] = None]} \cap Tree

\* Directories are made where nothing is; a link that leads to nothing is in the way.
MakeDirs(t, S) ==
    IF \E q \in S : /\ Place(t, q) # Elsewhere
                    /\ t[Place(t, q)] # Dir
                    /\ t[Place(t, q)] # None \/ t[q] \in Links
    THEN {}
    ELSE {[r \in Paths |-> IF \E q \in S : Place(t, q) = r THEN Dir ELSE t[r]]} \cap Tree

Written(t, p, c) ==
    IF Place(t, p) = Elsewhere THEN {t}
    ELSE IF t[Place(t, p)] = Dir THEN {}
    ELSE {[t EXCEPT ![Place(t, p)] = c]} \cap Tree

\* Mutant of Copied: the parents are taken for granted.
MutCopiedWithoutParents(t, p, c) == {[t EXCEPT ![p] = c]}

\* A file's parents are made first.
Copied(t, p, c) == UNION {Written(u, p, c) : u \in MakeDirs(t, Above(p))}

\* What making a path leaves that fails half way: some of the directories above it; ...
PartlyMade(t, p) == {t} \cup UNION {MakeDirs(t, Above(q)) : q \in Above(p) \cup {p}}

\* ... and for a file that, or all of them and the file truncated.
Spoiled(t, p) == PartlyMade(t, p) \cup Copied(t, p, Torn)

\* No path that the copy holds leads through a link, of the original or of its own.
Straight(o, m) == \A p \in Paths : m[p] # None => ~Linked(o, p) /\ m[p] \notin Links

\* One change to a tree by a program that knows nothing of the review: a file
\* written, a directory or a link made, something removed with all beneath it.
Edits(t) ==
    LET Entries == {q \in Paths : \A r \in Above(q) : t[r] = Dir}
    IN  (UNION {Written(t, p, c) : p \in Entries, c \in Contents})
        \cup {[t EXCEPT ![p] = n] : p \in {q \in Entries : t[q] = None}, n \in Links \cup {Dir}}
        \cup {[q \in Paths |-> IF q \in Below(p) \cup {p} THEN None ELSE t[q]] : p \in Paths}

=============================================================================
