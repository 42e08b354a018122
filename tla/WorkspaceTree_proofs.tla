------------------------- MODULE WorkspaceTree_proofs -------------------------
(***************************************************************************)
(* Lemmas about WorkspaceTree, for any paths and contents: what is written *)
(* to a tree leaves a tree, and writing what a comparison reports brings a *)
(* tree nearer to the one it was compared with.                            *)
(***************************************************************************)
EXTENDS WorkspaceTree, SequenceTheorems, FiniteSetTheorems, TLAPS

-----------------------------------------------------------------------------
(* Paths *)

\* A strict prefix is shorter and agrees as far as it goes.
LEMMA StrictPrefixIs ==
    ASSUME NEW s \in Seq(Nat), NEW t \in Seq(Nat)
    PROVE  IsStrictPrefix(s, t) <=> Len(s) < Len(t) /\ \A i \in 1..Len(s) : s[i] = t[i]
<1>1. SubSeq(s, 1, Len(s)) = s
  BY SubSeqProperties
<1>2. ASSUME Len(s) <= Len(t)
      PROVE  SubSeq(t, 1, Len(s)) = s <=> \A i \in 1..Len(s) : s[i] = t[i]
  <2> DEFINE u == SubSeq(t, 1, Len(s))
  <2>1. u \in Seq(Nat) /\ Len(u) = Len(s) /\ \A i \in 1..Len(s) : u[i] = t[i]
    BY <1>2
  <2>2. u = s <=> \A i \in 1..Len(s) : u[i] = s[i]
    BY <2>1, SeqEqual
  <2>3. QED
    BY <2>1, <2>2
<1>3. IsPrefix(s, t) <=> Len(s) <= Len(t) /\ \A i \in 1..Len(s) : s[i] = t[i]
  BY <1>1, <1>2 DEF IsPrefix
<1>4. ASSUME IsPrefix(s, t)
      PROVE  s # t <=> Len(s) < Len(t)
  BY <1>3, <1>4, SeqEqual
<1>5. QED
  BY <1>3, <1>4 DEF IsStrictPrefix

\* What is above a path that is above another is above that one too, ...
LEMMA AboveIsTransitive ==
    ASSUME NEW p \in Paths, NEW q \in Above(p), NEW r \in Above(q)
    PROVE  r \in Above(p)
<1>1. p \in Seq(Nat) /\ q \in Seq(Nat) /\ r \in Seq(Nat) /\ r \in Paths
  BY PathsAreNames DEF Above
<1>2. /\ Len(q) < Len(p) /\ \A i \in 1..Len(q) : q[i] = p[i]
      /\ Len(r) < Len(q) /\ \A i \in 1..Len(r) : r[i] = q[i]
  BY <1>1, StrictPrefixIs DEF Above
<1>3. Len(r) < Len(p) /\ \A i \in 1..Len(r) : r[i] = p[i]
  BY <1>1, <1>2
<1>4. QED
  BY <1>1, <1>3, StrictPrefixIs DEF Above

\* ... never the path itself, and on the same side of git's metadata.
LEMMA AboveIsApart ==
    ASSUME NEW p \in Paths, NEW q \in Above(p)
    PROVE  /\ q \in Paths /\ q # p /\ p \in Below(q)
           /\ InGit(q) <=> InGit(p)
<1>1. p \in Seq(Nat) /\ q \in Seq(Nat) /\ q \in Paths /\ q # <<>>
  BY PathsAreNames, PathsAreClosed DEF Above
<1>2. Len(q) < Len(p) /\ \A i \in 1..Len(q) : q[i] = p[i]
  BY <1>1, StrictPrefixIs DEF Above
<1>3. q[1] = p[1]
  BY <1>1, <1>2
<1>4. QED
  BY <1>1, <1>2, <1>3 DEF Above, Below, InGit

\* What is below a path has it above.
LEMMA BelowIsAbove ==
    ASSUME NEW p \in Paths, NEW q \in Below(p)
    PROVE  q \in Paths /\ p \in Above(q)
BY DEF Above, Below

-----------------------------------------------------------------------------
(* Trees *)

\* A tree gives each path a node, and entries to directories only; ...
LEMMA TreeIs ==
    ASSUME NEW t
    PROVE  t \in Tree <=> /\ t \in [Paths -> Nodes]
                          /\ \A p \in Paths : t[p] # None => \A q \in Above(p) : t[q] = Dir
BY DEF Tree

\* ... nothing is beneath what is no directory.
LEMMA TreeUnder ==
    ASSUME NEW t \in Tree, NEW p \in Paths, NEW q \in Below(p), t[p] # Dir
    PROVE  t[q] = None
BY BelowIsAbove, TreeIs

\* The copy of a tree is a tree, ...
LEMMA CopyDirIsTree ==
    ASSUME NEW t \in Tree
    PROVE  CopyDir(t) \in Tree
<1> DEFINE u == CopyDir(t)
<1>1. u \in [Paths -> Nodes]
  BY DEF CopyDir, Tree, Nodes
<1>2. \A p \in Paths : u[p] = IF t[p] \in Links THEN None ELSE t[p]
  BY DEF CopyDir
<1> HIDE DEF u
<1>3. \A p \in Paths : u[p] # None => \A q \in Above(p) : u[q] = Dir
  BY <1>2, NodesDiffer, AboveIsApart, TreeIs
<1>4. QED
  BY <1>1, <1>3, TreeIs DEF u

\* ... and so is one that a mask hides part of, with a directory where each
\* hidden part is mounted over.
LEMMA MaskedIsTree ==
    ASSUME NEW t \in Tree, NEW masked \in SUBSET Paths, NEW mounts,
           mounts = HiddenPaths(t, masked),
           NEW u, u = [p \in Paths |-> IF p \in mounts THEN Dir
                                       ELSE CreateMaskedWorkspace(t, masked)[p]]
    PROVE  u \in Tree
<1> DEFINE hidden(p) == p \in masked \/ Above(p) \cap masked # {}
<1>1. \A p \in Paths : u[p] = IF p \in mounts THEN Dir
                              ELSE IF t[p] \in Links \/ hidden(p) THEN None ELSE t[p]
  BY DEF CreateMaskedWorkspace
<1>2. u \in [Paths -> Nodes]
  <2>1. \A p \in Paths : u[p] \in Nodes
    BY <1>1, TreeIs DEF Nodes
  <2>2. QED
    BY <2>1
<1>3. ASSUME NEW p \in Paths, u[p] # None, NEW q \in Above(p)
      PROVE  u[q] = Dir
  <2>1. q \in Paths
    BY AboveIsApart
  <2>2. t[p] # None
    BY <1>1, <1>3 DEF HiddenPaths
  <2>3. t[q] = Dir
    BY <2>2, TreeIs
  <2>4. Above(p) \cap masked = {}
    BY <1>1, <1>3 DEF HiddenPaths
  <2>5. ~hidden(q)
    BY <1>3, <2>4, AboveIsTransitive
  <2>6. QED
    BY <1>1, <2>1, <2>3, <2>5, NodesDiffer
<1>4. QED
  BY <1>2, <1>3, TreeIs

-----------------------------------------------------------------------------
(* Links *)

\* A path leads through a link when one is at it or above it; ...
LEMMA LinkedIs ==
    ASSUME NEW t, NEW p \in Paths
    PROVE  Linked(t, p) <=> \E q \in Above(p) \cup {p} : t[q] \in Links
BY DEF Linked, Crosses, LinksOf, Above

\* ... otherwise it leads to itself, and in any case to a path or out of the tree.
LEMMA PlaceIs ==
    ASSUME NEW t, NEW p \in Paths
    PROVE  /\ Place(t, p) \in Paths \cup {Elsewhere}
           /\ ~Linked(t, p) => Place(t, p) = p
BY DEF Place, Follow, Linked

\* An entry beneath no link is itself; in any case it is a path or outside.
LEMMA EntryIs ==
    ASSUME NEW t, NEW p \in Paths
    PROVE  /\ Entry(t, p) \in Paths \cup {Elsewhere}
           /\ (\A q \in Above(p) : t[q] \notin Links) => Entry(t, p) = p
BY DEF Entry

\* Where a path leads depends on the links only.
LEMMA SameLinksLeadAlike ==
    ASSUME NEW t, NEW u, NEW p \in Paths,
           \A q \in Paths : u[q] \in Links \/ t[q] \in Links => u[q] = t[q]
    PROVE  Place(u, p) = Place(t, p)
<1>1. {q \in Paths : u[q] \in Links} = {q \in Paths : t[q] \in Links}
  OBVIOUS
<1>2. LinksOf(u) = LinksOf(t)
  BY <1>1 DEF LinksOf
<1>3. QED
  BY <1>2 DEF Place

\* Nothing of a tree is beneath a link.
LEMMA NotBeneathLinks ==
    ASSUME NEW t \in Tree, NEW p \in Paths, t[p] # None
    PROVE  \A q \in Above(p) : t[q] \notin Links
BY TreeIs, NodesDiffer

\* No link of u is new.
NoNewLinks(o, u) == \A p \in Paths : u[p] \in Links => o[p] = u[p]

\* A tree without new links is as straight, ...
LEMMA StraightStays ==
    ASSUME NEW o, NEW u, NEW m, Straight(o, m), NoNewLinks(o, u)
    PROVE  Straight(u, m)
<1>1. SUFFICES ASSUME NEW p \in Paths, m[p] # None
               PROVE  ~Linked(u, p)
  BY DEF Straight
<1>2. \A q \in Above(p) \cup {p} : o[q] \notin Links
  BY <1>1, LinkedIs DEF Straight
<1>3. \A q \in Above(p) \cup {p} : u[q] \notin Links
  BY <1>2 DEF NoNewLinks, Above
<1>4. QED
  BY <1>3, LinkedIs

\* ... and paths of the copy, and those above them, lead to themselves.
LEMMA StraightIs ==
    ASSUME NEW o, NEW m \in Tree, Straight(o, m)
    PROVE  /\ \A p \in Paths : m[p] \notin Links
           /\ \A p \in Paths : m[p] # None => \A q \in Above(p) \cup {p} :
                 q \in Paths /\ ~Linked(o, q) /\ o[q] \notin Links /\ Place(o, q) = q
<1>1. \A p \in Paths : m[p] \notin Links
  BY NodesDiffer DEF Straight
<1>2. ASSUME NEW p \in Paths, m[p] # None, NEW q \in Above(p) \cup {p}
      PROVE  q \in Paths /\ ~Linked(o, q) /\ o[q] \notin Links /\ Place(o, q) = q
  <2>1. q \in Paths /\ m[q] # None
    BY <1>2, AboveIsApart, TreeIs, NodesDiffer
  <2>2. ~Linked(o, q)
    BY <2>1 DEF Straight
  <2>3. QED
    BY <2>1, <2>2, LinkedIs, PlaceIs
<1>3. QED
  BY <1>1, <1>2

-----------------------------------------------------------------------------
(* Writes, whatever the links *)

\* Removing takes the entry that is asked for and nothing else.
LEMMA RemovedIs ==
    ASSUME NEW t \in Tree, NEW p \in Paths, NEW u \in Removed(t, p)
    PROVE  /\ u \in Tree
           /\ \A q \in Paths : u[q] # t[q] => q = Entry(t, p) /\ u[q] = None
           /\ Entry(t, p) # Elsewhere => u[Entry(t, p)] = None
<1>1. CASE Entry(t, p) = Elsewhere
  BY <1>1 DEF Removed
<1>2. CASE Entry(t, p) # Elsewhere
  <2>1. u = [t EXCEPT ![Entry(t, p)] = None] /\ u \in Tree /\ Entry(t, p) \in Paths
    BY <1>2, EntryIs DEF Removed
  <2>2. QED
    BY <2>1, TreeIs
<1>3. QED
  BY <1>1, <1>2

\* Making directories puts them where nothing was, and leaves the links alone.
LEMMA MakeDirsIs ==
    ASSUME NEW t \in Tree, NEW S \in SUBSET Paths, NEW u \in MakeDirs(t, S)
    PROVE  /\ u \in Tree
           /\ \A r \in Paths : u[r] # t[r] =>
                 t[r] = None /\ u[r] = Dir /\ \E q \in S : r = Place(t, q)
           /\ \A q \in S : Place(t, q) # Elsewhere =>
                 u[Place(t, q)] = Dir /\ t[Place(t, q)] \in {None, Dir}
           /\ \A r \in Paths : u[r] \in Links \/ t[r] \in Links => u[r] = t[r]
<1>1. /\ u \in Tree
      /\ u = [r \in Paths |-> IF \E q \in S : Place(t, q) = r THEN Dir ELSE t[r]]
      /\ \A q \in S : Place(t, q) # Elsewhere => t[Place(t, q)] \in {None, Dir}
  BY DEF MakeDirs
<1>2. Elsewhere \notin Paths
  BY LinksLead
<1>3. \A r \in Paths : u[r] # t[r] => t[r] = None /\ u[r] = Dir /\ \E q \in S : r = Place(t, q)
  BY <1>1, <1>2
<1>4. \A q \in S : Place(t, q) # Elsewhere => u[Place(t, q)] = Dir
  BY <1>1, PlaceIs
<1>5. QED
  BY <1>1, <1>3, <1>4, NodesDiffer

\* Writing a file changes what the path leads to and nothing else.
LEMMA WrittenIs ==
    ASSUME NEW t \in Tree, NEW p \in Paths, NEW c, NEW u \in Written(t, p, c)
    PROVE  /\ u \in Tree
           /\ \A q \in Paths : u[q] # t[q] => q = Place(t, p) /\ u[q] = c
           /\ Place(t, p) # Elsewhere => u[Place(t, p)] = c /\ t[Place(t, p)] # Dir
<1>1. CASE Place(t, p) = Elsewhere
  BY <1>1 DEF Written
<1>2. CASE Place(t, p) # Elsewhere
  <2>1. /\ u = [t EXCEPT ![Place(t, p)] = c] /\ u \in Tree /\ Place(t, p) \in Paths
        /\ t[Place(t, p)] # Dir
    BY <1>2, PlaceIs DEF Written
  <2>2. QED
    BY <2>1, TreeIs
<1>3. QED
  BY <1>1, <1>2

\* Copying a file changes that too, and makes directories on the way.
LEMMA CopiedIs ==
    ASSUME NEW t \in Tree, NEW p \in Paths, NEW c, NEW u \in Copied(t, p, c)
    PROVE  /\ u \in Tree
           /\ \A r \in Paths : u[r] # t[r] =>
                 \/ r = Place(t, p) /\ u[r] = c
                 \/ t[r] = None /\ u[r] = Dir /\ \E q \in Above(p) : r = Place(t, q)
           /\ Place(t, p) # Elsewhere => u[Place(t, p)] = c /\ t[Place(t, p)] # Dir
<1>1. PICK w \in MakeDirs(t, Above(p)) : u \in Written(w, p, c)
  BY DEF Copied
<1>2. Above(p) \in SUBSET Paths
  BY DEF Above
<1>3. /\ w \in Tree
      /\ \A r \in Paths : w[r] # t[r] =>
            t[r] = None /\ w[r] = Dir /\ \E q \in Above(p) : r = Place(t, q)
      /\ \A r \in Paths : w[r] \in Links \/ t[r] \in Links => w[r] = t[r]
  BY <1>1, <1>2, MakeDirsIs
<1>4. Place(w, p) = Place(t, p)
  BY <1>3, SameLinksLeadAlike
<1>5. /\ u \in Tree
      /\ \A r \in Paths : u[r] # w[r] => r = Place(t, p) /\ u[r] = c
      /\ Place(t, p) # Elsewhere => u[Place(t, p)] = c /\ w[Place(t, p)] # Dir
  BY <1>1, <1>3, <1>4, WrittenIs
<1>6. Place(t, p) # Elsewhere => t[Place(t, p)] # Dir
  BY <1>3, <1>5, PlaceIs
<1>7. \A r \in Paths : u[r] # t[r] =>
          \/ r = Place(t, p) /\ u[r] = c
          \/ t[r] = None /\ u[r] = Dir /\ \E q \in Above(p) : r = Place(t, q)
  BY <1>3, <1>5
<1>8. QED
  BY <1>5, <1>6, <1>7

\* A write that fails leaves no more than that of directories, ...
LEMMA PartlyMadeIs ==
    ASSUME NEW t \in Tree, NEW p \in Paths, NEW u \in PartlyMade(t, p)
    PROVE  /\ u \in Tree
           /\ \A r \in Paths : u[r] # t[r] =>
                 t[r] = None /\ u[r] = Dir /\ \E q \in Above(p) : r = Place(t, q)
<1>1. CASE u = t
  BY <1>1
<1>2. ASSUME NEW q \in Above(p) \cup {p}, u \in MakeDirs(t, Above(q))
      PROVE  /\ u \in Tree
             /\ \A r \in Paths : u[r] # t[r] =>
                   t[r] = None /\ u[r] = Dir /\ \E s \in Above(p) : r = Place(t, s)
  <2>1. Above(q) \in SUBSET Paths /\ Above(q) \subseteq Above(p)
    BY AboveIsTransitive DEF Above
  <2>2. QED
    BY <1>2, <2>1, MakeDirsIs
<1>3. QED
  BY <1>1, <1>2 DEF PartlyMade

\* ... and what is torn where the path leads.
LEMMA SpoiledIs ==
    ASSUME NEW t \in Tree, NEW p \in Paths, NEW u \in Spoiled(t, p)
    PROVE  /\ u \in Tree
           /\ \A r \in Paths : u[r] # t[r] =>
                 \/ r = Place(t, p) /\ u[r] = Torn
                 \/ t[r] = None /\ u[r] = Dir /\ \E q \in Above(p) : r = Place(t, q)
BY PartlyMadeIs, CopiedIs DEF Spoiled

\* What is above a path, with or without it, is closed upwards.
LEMMA AboveIsClosed ==
    ASSUME NEW p \in Paths
    PROVE  /\ Above(p) \in SUBSET Paths /\ \A q \in Above(p) : Above(q) \subseteq Above(p)
           /\ \A q \in Above(p) \cup {p} : Above(q) \subseteq Above(p) \cup {p}
BY AboveIsTransitive DEF Above

\* Any edit leaves a tree.
LEMMA EditsAreTrees ==
    ASSUME NEW t \in Tree, NEW u \in Edits(t)
    PROVE  u \in Tree
<1>1. ASSUME NEW p \in Paths, NEW c \in Contents, u \in Written(t, p, c)
      PROVE  u \in Tree
  BY <1>1, WrittenIs
<1>2. ASSUME NEW p \in Paths, t[p] = None, \A r \in Above(p) : t[r] = Dir,
             NEW n \in Links \cup {Dir}, u = [t EXCEPT ![p] = n]
      PROVE  u \in Tree
  <2>1. u \in [Paths -> Nodes] /\ \A q \in Paths : u[q] = IF q = p THEN n ELSE t[q]
    BY <1>2, TreeIs DEF Nodes
  <2>2. ASSUME NEW q \in Paths, u[q] # None, NEW r \in Above(q)
        PROVE  u[r] = Dir
    BY <1>2, <2>1, <2>2, TreeIs, AboveIsApart, NodesDiffer
  <2>3. QED
    BY <2>1, <2>2, TreeIs
<1>3. ASSUME NEW p \in Paths, u = [q \in Paths |-> IF q \in Below(p) \cup {p} THEN None ELSE t[q]]
      PROVE  u \in Tree
  <2>1. t \in [Paths -> Nodes]
    BY TreeIs
  <2>2. u \in [Paths -> Nodes]
    BY <1>3, <2>1 DEF Nodes
  <2>3. ASSUME NEW q \in Paths, u[q] # None, NEW r \in Above(q)
        PROVE  u[r] = Dir
    <3>1. q \notin Below(p) \cup {p} /\ t[q] # None /\ r \in Paths
      BY <1>3, <2>3, AboveIsApart
    <3>2. r \notin Below(p) \cup {p}
      <4>1. CASE r = p
        BY <4>1, <3>1, AboveIsApart
      <4>2. CASE r \in Below(p)
        <5>1. p \in Above(r)
          BY <4>2, BelowIsAbove
        <5>2. p \in Above(q)
          BY <5>1, AboveIsTransitive
        <5>3. QED
          BY <5>2, <3>1, AboveIsApart
      <4>3. QED
        BY <4>1, <4>2
    <3>3. QED
      BY <1>3, <3>1, <3>2, TreeIs
  <2>4. QED
    BY <2>2, <2>3, TreeIs
<1>4. CASE u \in UNION {Written(t, p, c) : p \in {q \in Paths : \A r \in Above(q) : t[r] = Dir},
                                           c \in Contents}
  BY <1>1, <1>4
<1>5. CASE u \in {[t EXCEPT ![p] = n] :
                    p \in {q \in {s \in Paths : \A r \in Above(s) : t[r] = Dir} : t[q] = None},
                    n \in Links \cup {Dir}}
  BY <1>2, <1>5
<1>6. CASE u \in {[q \in Paths |-> IF q \in Below(p) \cup {p} THEN None ELSE t[q]] : p \in Paths}
  BY <1>3, <1>6
<1>7. QED
  BY <1>4, <1>5, <1>6 DEF Edits

-----------------------------------------------------------------------------
(* Comparing *)

\* A comparison reports changes, none of git's metadata; what it says of each
\* path is true of the two trees.
LEMMA DiffIs ==
    ASSUME NEW o, NEW m
    PROVE  /\ DiffDirectories(o, m) \subseteq Change
           /\ \A c \in DiffDirectories(o, m) :
                 /\ ~InGit(c.path)
                 /\ c.type = "added" => c.path \in Added(o, m)
                 /\ c.type = "modified" => c.path \in Modified(o, m)
                 /\ c.type = "deleted" => c.path \in Deleted(o, m)
           /\ \A p \in Paths : ~InGit(p) /\ p \in Added(o, m) \cup Modified(o, m) \cup Deleted(o, m)
                 => \E c \in DiffDirectories(o, m) : c.path = p
<1>1. Added(o, m) \subseteq Paths /\ Modified(o, m) \subseteq Paths /\ Deleted(o, m) \subseteq Paths
  BY DEF Added, Modified, Deleted
<1> DEFINE types == {"added", "modified", "deleted"}
           S(type) == IF type = "added" THEN Added(o, m)
                      ELSE IF type = "modified" THEN Modified(o, m) ELSE Deleted(o, m)
<1>2. \A c : c \in DiffDirectories(o, m) <=>
                \E type \in types : \E p \in S(type) : ~InGit(p) /\ c = [path |-> p, type |-> type]
  BY DEF DiffDirectories, Listed
<1>3. \A c \in DiffDirectories(o, m) : \E type \in types : \E p \in S(type) :
          p \in Paths /\ ~InGit(p) /\ c = [path |-> p, type |-> type]
  BY <1>1, <1>2
<1>4. \A type \in types : \A p \in S(type) :
          ~InGit(p) => [path |-> p, type |-> type] \in DiffDirectories(o, m)
  BY <1>2
<1>5. DiffDirectories(o, m) \subseteq Change
  BY <1>3 DEF Change
<1>6. ASSUME NEW c \in DiffDirectories(o, m)
      PROVE  ~InGit(c.path) /\ c.path \in S(c.type)
  BY <1>3
<1>7. ASSUME NEW p \in Paths, ~InGit(p), NEW type \in types, p \in S(type)
      PROVE  \E c \in DiffDirectories(o, m) : c.path = p
  BY <1>4, <1>7
<1>8. QED
  BY <1>5, <1>6, <1>7

\* A comparison says one thing of a path.
LEMMA DiffIsFunctional ==
    ASSUME NEW o, NEW m, NEW c \in DiffDirectories(o, m), NEW d \in DiffDirectories(o, m),
           c.path = d.path
    PROVE  c = d
<1>1. c \in Change /\ d \in Change
  BY DiffIs
<1>2. c.type = d.type
  BY <1>1, DiffIs, NodesDiffer DEF Change, Added, Modified, Deleted, Files
<1>3. QED
  BY <1>1, <1>2 DEF Change

\* Where no link is in the way, a comparison looks at each path in both trees.
LEMMA DiffIsPlain ==
    ASSUME NEW o, NEW m \in Tree, Straight(o, m)
    PROVE  /\ Added(o, m) = {p \in Paths : m[p] # None /\ o[p] = None /\ ~Barred(o, p)}
           /\ Modified(o, m) = {p \in Paths : m[p] \in Files /\ o[p] \notin {None, m[p]}}
<1>1. /\ Elsewhere \notin Paths
      /\ \A p \in Paths : m[p] \notin Links /\ (m[p] # None => Place(o, p) = p)
  BY StraightIs, LinksLead
<1>2. None \notin Files
  BY NodesDiffer DEF Files
<1>3. \A p : p \in Added(o, m) <=> p \in Paths /\ m[p] # None /\ o[p] = None /\ ~Barred(o, p)
  BY <1>1 DEF Added
<1>4. \A p : p \in Modified(o, m) <=> p \in Paths /\ m[p] \in Files /\ o[p] \notin {None, m[p]}
  BY <1>1, <1>2, NodesDiffer DEF Modified
<1>5. QED
  BY <1>3, <1>4

\* A reported path differs.
LEMMA DiffDiffers ==
    ASSUME NEW o, NEW m \in Tree, Straight(o, m), NEW c \in DiffDirectories(o, m)
    PROVE  o[c.path] # m[c.path]
<1>1. c \in Change
  BY DiffIs
<1>2. QED
  BY <1>1, DiffIs, DiffIsPlain DEF Change, Deleted

\* A reported path is written as what the copy holds: a deletion where nothing is
\* in the copy, anything else where a file or a directory is; a directory is made where
\* nothing is.
LEMMA DiffTells ==
    ASSUME NEW o \in Tree, NEW m \in Tree, Straight(o, m), NEW c \in DiffDirectories(o, m)
    PROVE  /\ c.path \in Paths /\ ~InGit(c.path)
           /\ IF c.type = "deleted" THEN m[c.path] = None /\ o[c.path] # None
              ELSE m[c.path] \in Files \cup {Dir}
           /\ m[c.path] = Dir => o[c.path] = None
<1>1. c \in Change
  BY DiffIs
<1>2. m[c.path] \in Nodes
  BY <1>1, TreeIs DEF Change
<1>3. /\ c.type = "added" => m[c.path] # None /\ o[c.path] = None
      /\ c.type = "modified" => m[c.path] \in Files
      /\ c.type = "deleted" => m[c.path] = None /\ o[c.path] # None
  BY <1>1, DiffIs, DiffIsPlain DEF Deleted
<1>4. m[c.path] \notin Links
  BY <1>1, StraightIs DEF Change
<1>5. QED
  BY <1>1, <1>2, <1>3, <1>4, DiffIs, NodesDiffer DEF Change, Nodes, Files

-----------------------------------------------------------------------------
(* Bringing a tree nearer to another *)

\* Nothing of o changed but at one path, where u has what was to be written or what
\* is left of that, and that directories above it that were missing were made.
Touches(o, u, m, p) ==
    /\ u \in Tree
    /\ u[p] \notin Links \/ u[p] = o[p]
    /\ \A q \in Paths \ {p} :
          u[q] = o[q] \/ (q \in Above(p) /\ o[q] = None /\ u[q] = Dir /\ m[q] = Dir)

\* One path of o is made what it is in m.
SyncsPath(o, u, m, p) == Touches(o, u, m, p) /\ u[p] = m[p] /\ (m[p] = Dir => o[p] = None)

\* Each path of u is as in o or as in m, and where it is a directory of m
\* nothing was in the way.
Nearer(o, u, m) ==
    \A p \in Paths : u[p] = o[p] \/ (u[p] = m[p] /\ (m[p] = Dir => o[p] = None))

\* Whatever is written makes no link.
LEMMA TouchesMakesNoLinks ==
    ASSUME NEW o, NEW u, NEW m, NEW p \in Paths, Touches(o, u, m, p)
    PROVE  NoNewLinks(o, u)
BY NodesDiffer DEF Touches, NoNewLinks

\* A deletion, ...
LEMMA RemovedSyncs ==
    ASSUME NEW o \in Tree, NEW m \in Tree, NEW p \in Paths, m[p] = None, o[p] # None,
           NEW u \in Removed(o, p)
    PROVE  SyncsPath(o, u, m, p)
<1>1. Entry(o, p) = p /\ p # Elsewhere
  BY NotBeneathLinks, EntryIs, LinksLead
<1>2. QED
  BY <1>1, RemovedIs, NodesDiffer DEF SyncsPath, Touches

\* ... a directory with those above it ...
LEMMA MakeDirsSyncs ==
    ASSUME NEW o \in Tree, NEW m \in Tree, Straight(o, m), NEW p \in Paths, m[p] = Dir,
           o[p] = None, NEW u \in MakeDirs(o, Above(p) \cup {p})
    PROVE  SyncsPath(o, u, m, p)
<1>1. \A q \in Above(p) : m[q] = Dir
  BY TreeIs, NodesDiffer
<1>2. \A q \in Above(p) \cup {p} : q \in Paths /\ Place(o, q) = q /\ q # Elsewhere
  BY StraightIs, LinksLead, NodesDiffer
<1>3. Above(p) \cup {p} \in SUBSET Paths
  BY AboveIsClosed
<1>4. /\ u \in Tree
      /\ \A r \in Paths : u[r] # o[r] =>
            o[r] = None /\ u[r] = Dir /\ \E q \in Above(p) \cup {p} : r = Place(o, q)
      /\ \A q \in Above(p) \cup {p} : Place(o, q) # Elsewhere => u[Place(o, q)] = Dir
  BY <1>3, MakeDirsIs
<1>5. u[p] = Dir
  BY <1>2, <1>4
<1>6. \A r \in Paths : u[r] # o[r] => o[r] = None /\ u[r] = Dir /\ r \in Above(p) \cup {p}
  BY <1>2, <1>4
<1>7. QED
  BY <1>1, <1>4, <1>5, <1>6, NodesDiffer DEF SyncsPath, Touches

\* ... and a file each bring one path to what it should be.
LEMMA CopiedSyncs ==
    ASSUME NEW o \in Tree, NEW m \in Tree, Straight(o, m), NEW p \in Paths, m[p] \in Files,
           NEW u \in Copied(o, p, m[p])
    PROVE  SyncsPath(o, u, m, p)
<1>1. m[p] # None /\ m[p] # Dir /\ m[p] \notin Links
  BY NodesDiffer DEF Files
<1>2. \A q \in Above(p) : m[q] = Dir
  BY <1>1, TreeIs
<1>3. \A q \in Above(p) \cup {p} : q \in Paths /\ Place(o, q) = q /\ q # Elsewhere
  BY <1>1, StraightIs, LinksLead
<1>4. /\ u \in Tree
      /\ \A r \in Paths : u[r] # o[r] =>
            \/ r = Place(o, p) /\ u[r] = m[p]
            \/ o[r] = None /\ u[r] = Dir /\ \E q \in Above(p) : r = Place(o, q)
      /\ Place(o, p) # Elsewhere => u[Place(o, p)] = m[p]
  BY CopiedIs
<1>5. u[p] = m[p]
  BY <1>3, <1>4
<1>6. \A r \in Paths \ {p} : u[r] = o[r] \/ (r \in Above(p) /\ o[r] = None /\ u[r] = Dir)
  BY <1>3, <1>4
<1>7. QED
  BY <1>1, <1>2, <1>4, <1>5, <1>6 DEF SyncsPath, Touches

\* A write that fails touches no more than that.
LEMMA SpoiledTouches ==
    ASSUME NEW o \in Tree, NEW m \in Tree, Straight(o, m), NEW p \in Paths, m[p] # None,
           NEW u \in Spoiled(o, p)
    PROVE  Touches(o, u, m, p)
<1>1. \A q \in Above(p) : m[q] = Dir
  BY TreeIs
<1>2. \A q \in Above(p) \cup {p} : q \in Paths /\ Place(o, q) = q
  BY StraightIs
<1>3. /\ u \in Tree
      /\ \A r \in Paths : u[r] # o[r] =>
            \/ r = Place(o, p) /\ u[r] = Torn
            \/ o[r] = None /\ u[r] = Dir /\ \E q \in Above(p) : r = Place(o, q)
  BY SpoiledIs
<1>4. \A r \in Paths : u[r] # o[r] =>
          (r = p /\ u[r] = Torn) \/ (o[r] = None /\ u[r] = Dir /\ r \in Above(p))
  BY <1>2, <1>3
<1>5. QED
  BY <1>1, <1>3, <1>4, NodesDiffer DEF Touches

\* A tree one of whose paths was synced is nearer.
LEMMA SyncsNear ==
    ASSUME NEW o, NEW u, NEW m, NEW p \in Paths, SyncsPath(o, u, m, p)
    PROVE  Nearer(o, u, m)
BY DEF SyncsPath, Touches, Nearer

\* Nearer is a preorder.
LEMMA NearerIsTransitive ==
    ASSUME NEW o, NEW u, NEW v, NEW m, Nearer(o, u, m), Nearer(u, v, m)
    PROVE  Nearer(o, v, m)
BY NodesDiffer DEF Nearer

\* A nearer tree differs in no new way, ...
LEMMA NearerDiffersLess ==
    ASSUME NEW o \in Tree, NEW u \in Tree, NEW m \in Tree, Straight(o, m), Straight(u, m),
           Nearer(o, u, m)
    PROVE  DiffDirectories(u, m) \subseteq DiffDirectories(o, m)
<1>1. ASSUME NEW p \in Added(u, m)
      PROVE  p \in Added(o, m)
  <2>1. p \in Paths /\ m[p] # None /\ u[p] = None /\ ~Barred(u, p)
    BY DiffIsPlain
  <2>2. o[p] = None
    BY <2>1 DEF Nearer
  <2>3. ASSUME NEW q \in Above(p)
        PROVE  o[q] \in {None, Dir}
    <3>1. q \in Paths /\ m[q] = Dir /\ u[q] \in {None, Dir}
      BY <2>1, AboveIsApart, TreeIs DEF Barred
    <3>2. QED
      BY <3>1 DEF Nearer
  <2>4. QED
    BY <2>1, <2>2, <2>3, DiffIsPlain DEF Barred
<1>2. ASSUME NEW p \in Modified(u, m)
      PROVE  p \in Modified(o, m)
  BY DiffIsPlain DEF Nearer
<1>3. ASSUME NEW p \in Deleted(u, m)
      PROVE  p \in Deleted(o, m)
  BY DEF Deleted, Nearer
<1>4. QED
  BY <1>1, <1>2, <1>3 DEF DiffDirectories, Listed

\* ... and what was reported of a path that is as it was is reported still, unless
\* something beside directories came above it.
LEMMA TouchedKeepsDiffering ==
    ASSUME NEW o \in Tree, NEW u \in Tree, NEW m \in Tree, Straight(o, m), Straight(u, m),
           NEW p \in Paths, Touches(o, u, m, p),
           NEW c \in DiffDirectories(o, m), c.path # p, u[c.path] = o[c.path],
           p \in Above(c.path) /\ m[c.path] # None => u[p] \in {o[p], m[p]}
    PROVE  c \in DiffDirectories(u, m)
<1> DEFINE r == c.path
<1>1. c \in Change /\ r \in Paths
  BY DiffIs DEF Change
<1>2. CASE c.type = "added"
  <2>1. m[r] # None /\ o[r] = None /\ ~Barred(o, r)
    BY <1>1, <1>2, DiffIs, DiffIsPlain
  <2>2. ASSUME NEW q \in Above(r)
        PROVE  u[q] \in {None, Dir}
    <3>1. q \in Paths /\ m[q] = Dir /\ o[q] \in {None, Dir}
      BY <1>1, <2>1, AboveIsApart, TreeIs DEF Barred
    <3>2. QED
      BY <2>1, <3>1 DEF Touches
  <2>3. r \in Added(u, m)
    BY <1>1, <2>1, <2>2, DiffIsPlain DEF Barred
  <2>4. QED
    BY <1>1, <1>2, <2>3, DiffIs DEF DiffDirectories, Listed, Change
<1>3. CASE c.type = "modified"
  <2>1. r \in Modified(u, m)
    BY <1>1, <1>3, DiffIs, DiffIsPlain
  <2>2. QED
    BY <1>1, <1>3, <2>1, DiffIs DEF DiffDirectories, Listed, Change
<1>4. CASE c.type = "deleted"
  <2>1. r \in Deleted(u, m)
    BY <1>1, <1>4, DiffIs DEF Deleted
  <2>2. QED
    BY <1>1, <1>4, <2>1, DiffIs DEF DiffDirectories, Listed, Change
<1>5. QED
  BY <1>1, <1>2, <1>3, <1>4 DEF Change

\* A file that was not written, or not well, is reported still.
LEMMA SpoiledIsReported ==
    ASSUME NEW o \in Tree, NEW m \in Tree, Straight(o, m),
           NEW c \in DiffDirectories(o, m), m[c.path] \in Files,
           NEW u \in Spoiled(o, c.path), u[c.path] # m[c.path]
    PROVE  \E e \in DiffDirectories(u, m) : e.path = c.path
<1> DEFINE p == c.path
<1>1. c \in Change /\ p \in Paths /\ ~InGit(p) /\ m[p] # None /\ m[p] # Dir
  BY DiffIs, NodesDiffer DEF Change, Files
<1>2. Touches(o, u, m, p) /\ u \in Tree
  BY <1>1, SpoiledTouches DEF Touches
<1>3. Straight(u, m)
  BY <1>1, <1>2, TouchesMakesNoLinks, StraightStays
<1>4. CASE u[p] # None
  <2>1. p \in Modified(u, m)
    BY <1>1, <1>3, <1>4, DiffIsPlain
  <2>2. QED
    BY <1>1, <2>1, DiffIs
<1>5. CASE u[p] = None
  <2>1. Place(o, p) = p /\ \A q \in Above(p) : Place(o, q) = q
    BY <1>1, StraightIs
  <2>2. o[p] = None
    BY <1>1, <1>5, SpoiledIs, NodesDiffer
  <2>3. ~Barred(o, p)
    BY <1>1, <2>2, DiffIs, DiffIsPlain, NodesDiffer DEF Change, Deleted
  <2>4. p \in Added(u, m)
    BY <1>1, <1>2, <1>3, <1>5, <2>3, DiffIsPlain, AboveIsApart DEF Touches, Barred
  <2>5. QED
    BY <1>1, <2>4, DiffIs
<1>6. QED
  BY <1>4, <1>5

\* Where every reported path is right, a tree is as the one it was compared
\* with, except beneath what the comparison does not report.
LEMMA SyncedIsWhole ==
    ASSUME NEW o \in Tree, NEW u \in Tree, NEW m \in Tree, Straight(o, m),
           Nearer(o, u, m), \A c \in DiffDirectories(o, m) : u[c.path] = m[c.path],
           NEW p \in Paths, ~InGit(p), u[p] # m[p]
    PROVE  \E q \in Above(p) \cup {p} : m[q] = Dir /\ u[q] # Dir
<1>1. p \notin Added(o, m) /\ p \notin Modified(o, m) /\ p \notin Deleted(o, m)
  BY DiffIs
<1>2. u[p] = o[p]
  BY DEF Nearer
<1>3. m[p] # None
  BY <1>1, <1>2 DEF Deleted
<1>4. m[p] \in Files \cup {Dir}
  BY <1>3, TreeIs, StraightIs DEF Nodes
<1>5. CASE m[p] = Dir
  BY <1>2, <1>5
<1>6. CASE m[p] \in Files /\ o[p] = None
  <2>1. PICK q \in Above(p) : o[q] \notin {None, Dir}
    BY <1>1, <1>3, <1>6, DiffIsPlain DEF Barred
  <2>2. q \in Paths /\ m[q] = Dir
    BY <1>3, AboveIsApart, TreeIs
  <2>3. u[q] = o[q]
    BY <2>1, <2>2 DEF Nearer
  <2>4. QED
    BY <2>1, <2>2, <2>3
<1>7. CASE m[p] \in Files /\ o[p] # None
  BY <1>1, <1>2, <1>7, DiffIsPlain
<1>8. QED
  BY <1>4, <1>5, <1>6, <1>7

-----------------------------------------------------------------------------
(* The order of the list *)

\* p is walked before q, and n is how far they agree.
Parts(p, q, n) ==
    /\ n <= Len(p) /\ n < Len(q)
    /\ \A i \in 1..n : p[i] = q[i]
    /\ n = Len(p) \/ p[n + 1] < q[n + 1]

\* A walk visits a path before another when the two part somewhere, and only then.
LEMMA WalksBeforeParts ==
    ASSUME NEW p \in Seq(Nat), NEW q \in Seq(Nat)
    PROVE  WalksBefore(p, q) <=> \E n \in Nat : Parts(p, q, n)
<1>1. ASSUME IsStrictPrefix(p, q)
      PROVE  Len(p) \in Nat /\ Parts(p, q, Len(p))
  BY <1>1, StrictPrefixIs DEF Parts
<1>2. ASSUME NEW i \in 1..Len(p), i <= Len(q), \A j \in 1..(i - 1) : p[j] = q[j], p[i] < q[i]
      PROVE  i - 1 \in Nat /\ Parts(p, q, i - 1)
  BY <1>2 DEF Parts
<1>3. ASSUME NEW n \in Nat, Parts(p, q, n)
      PROVE  WalksBefore(p, q)
  <2>1. CASE n = Len(p)
    BY <1>3, <2>1, StrictPrefixIs DEF Parts, WalksBefore
  <2>2. CASE n # Len(p)
    <3>1. n + 1 \in 1..Len(p) /\ n + 1 <= Len(q) /\ (n + 1) - 1 = n
      BY <1>3, <2>2 DEF Parts
    <3>2. QED
      BY <1>3, <2>2, <3>1 DEF Parts, WalksBefore
  <2>3. QED
    BY <2>1, <2>2
<1>4. QED
  BY <1>1, <1>2, <1>3 DEF WalksBefore

\* A walk visits no path before itself, ...
LEMMA WalkIsStrict ==
    ASSUME NEW p \in Seq(Nat)
    PROVE  ~WalksBefore(p, p)
<1>1. ASSUME NEW n \in Nat PROVE ~Parts(p, p, n)
  BY DEF Parts
<1>2. QED
  BY <1>1, WalksBeforeParts

\* ... and if a path before a second, then before all that come after the second.
LEMMA WalkIsTransitive ==
    ASSUME NEW p \in Seq(Nat), NEW q \in Seq(Nat), NEW r \in Seq(Nat),
           WalksBefore(p, q), WalksBefore(q, r)
    PROVE  WalksBefore(p, r)
<1>1. PICK n \in Nat : Parts(p, q, n)
  BY WalksBeforeParts
<1>2. PICK m \in Nat : Parts(q, r, m)
  BY WalksBeforeParts
<1>3. CASE n < m
  <2>1. q[n + 1] = r[n + 1] /\ n < Len(r) /\ \A i \in 1..n : p[i] = r[i]
    BY <1>1, <1>2, <1>3 DEF Parts
  <2>2. Parts(p, r, n)
    BY <1>1, <2>1 DEF Parts
  <2>3. QED
    BY <2>2, WalksBeforeParts
<1>4. CASE n = m
  <2>1. q[n + 1] < r[n + 1] /\ q[n + 1] \in Nat /\ n < Len(r) /\ \A i \in 1..n : p[i] = r[i]
    BY <1>1, <1>2, <1>4 DEF Parts
  <2>2. n = Len(p) \/ (p[n + 1] \in Nat /\ r[n + 1] \in Nat)
    BY <1>1, <2>1 DEF Parts
  <2>3. Parts(p, r, n)
    BY <1>1, <2>1, <2>2 DEF Parts
  <2>4. QED
    BY <2>3, WalksBeforeParts
<1>5. CASE m < n
  <2>1. p[m + 1] = q[m + 1] /\ m < Len(p) /\ m # Len(q) /\ \A i \in 1..m : p[i] = r[i]
    BY <1>1, <1>2, <1>5 DEF Parts
  <2>2. Parts(p, r, m)
    BY <1>2, <2>1 DEF Parts
  <2>3. QED
    BY <2>2, WalksBeforeParts
<1>6. QED
  BY <1>3, <1>4, <1>5

\* A set of numbers that is not empty has a least one.
LEMMA LeastNumber ==
    ASSUME NEW D, D \subseteq Nat, D # {}
    PROVE  \E n \in D : \A m \in D : n <= m
<1> DEFINE R == OpToRel(<, Nat)
<1>1. PICK n \in D : \A m \in D : <<m, n>> \notin R
  BY NatLessThanWellFounded, WFMin
<1>2. \A m \in D : ~(m < n)
  BY <1>1 DEF OpToRel
<1>3. QED
  BY <1>2

\* Of two paths a walk visits one first.
LEMMA WalkIsTotal ==
    ASSUME NEW p \in Seq(Nat), NEW q \in Seq(Nat), p # q
    PROVE  WalksBefore(p, q) \/ WalksBefore(q, p)
<1> DEFINE D == {n \in Nat : n < Len(p) /\ n < Len(q) /\ p[n + 1] # q[n + 1]}
<1>1. CASE D = {}
  <2>1. \A i \in 1..Len(p) : i <= Len(q) => p[i] = q[i]
    <3>1. ASSUME NEW i \in 1..Len(p), i <= Len(q)
          PROVE  p[i] = q[i]
      <4>1. i - 1 \in Nat /\ i - 1 < Len(p) /\ i - 1 < Len(q) /\ (i - 1) + 1 = i
        BY <3>1
      <4>2. QED
        BY <1>1, <4>1
    <3>2. QED
      BY <3>1
  <2>2. Len(p) # Len(q)
    BY <2>1, SeqEqual
  <2>3. Parts(p, q, Len(p)) \/ Parts(q, p, Len(q))
    BY <2>1, <2>2 DEF Parts
  <2>4. QED
    BY <2>3, WalksBeforeParts
<1>2. CASE D # {}
  <2>1. PICK n \in D : \A m \in D : n <= m
    BY <1>2, LeastNumber
  <2>2. \A i \in 1..n : p[i] = q[i]
    <3>1. ASSUME NEW i \in 1..n
          PROVE  p[i] = q[i]
      <4>1. i - 1 \in Nat /\ i - 1 < n /\ i - 1 \notin D /\ (i - 1) + 1 = i
        BY <2>1
      <4>2. QED
        BY <2>1, <4>1
    <3>2. QED
      BY <3>1
  <2>3. p[n + 1] \in Nat /\ q[n + 1] \in Nat
    BY <2>1
  <2>4. Parts(p, q, n) \/ Parts(q, p, n)
    BY <2>1, <2>2, <2>3 DEF Parts
  <2>5. QED
    BY <2>1, <2>4, WalksBeforeParts
<1>3. QED
  BY <1>1, <1>2

\* The changes of a list are in one order: no two are before each other, each two
\* are in some order, and what is before is before all that comes after.
LEMMA ListIsOrdered ==
    ASSUME NEW o, NEW m,
           NEW c \in DiffDirectories(o, m), NEW d \in DiffDirectories(o, m)
    PROVE  /\ ListedBefore(c, d) => ~ListedBefore(d, c)
           /\ c # d => ListedBefore(c, d) \/ ListedBefore(d, c)
           /\ \A e \in DiffDirectories(o, m) :
                 ListedBefore(c, d) /\ ListedBefore(d, e) => ListedBefore(c, e)
<1>1. ASSUME NEW e \in DiffDirectories(o, m)
      PROVE  e.path \in Seq(Nat)
  BY DiffIs, PathsAreNames DEF Change
<1>2. ListedBefore(c, d) => ~ListedBefore(d, c)
  BY <1>1, WalkIsStrict, WalkIsTransitive DEF ListedBefore
<1>3. ASSUME c # d
      PROVE  ListedBefore(c, d) \/ ListedBefore(d, c)
  <2>1. c.path # d.path
    BY <1>3, DiffIsFunctional
  <2>2. QED
    BY <1>1, <2>1, WalkIsTotal DEF ListedBefore
<1>4. ASSUME NEW e \in DiffDirectories(o, m), ListedBefore(c, d), ListedBefore(d, e)
      PROVE  ListedBefore(c, e)
  <2>1. WalksBefore(c.path, d.path) /\ WalksBefore(d.path, e.path) => WalksBefore(c.path, e.path)
    BY <1>1, WalkIsTransitive
  <2>2. QED
    BY <1>4, <2>1 DEF ListedBefore
<1>5. QED
  BY <1>2, <1>3, <1>4

\* A list is as finite as the trees.
LEMMA ListIsFinite ==
    ASSUME NEW list, list \subseteq Change
    PROVE  IsFiniteSet(list)
<1> DEFINE types == {"added", "modified", "deleted"}
           f == [x \in Paths \X types |-> [path |-> x[1], type |-> x[2]]]
<1>1. IsFiniteSet(types)
  <2>1. IsFiniteSet({"added"}) /\ IsFiniteSet({"modified"}) /\ IsFiniteSet({"deleted"})
    BY FS_Singleton
  <2>2. IsFiniteSet({"added"} \cup {"modified"})
    BY <2>1, FS_Union
  <2>3. IsFiniteSet(({"added"} \cup {"modified"}) \cup {"deleted"})
    BY <2>1, <2>2, FS_Union
  <2>4. types = ({"added"} \cup {"modified"}) \cup {"deleted"}
    OBVIOUS
  <2>5. QED
    BY <2>3, <2>4
<1>2. IsFiniteSet(Paths \X types)
  BY <1>1, FS_Product, PathsAreFinite
<1>3. f \in Surjection(Paths \X types, Change)
  <2>1. f \in [Paths \X types -> Change]
    BY DEF Change
  <2>2. ASSUME NEW c \in Change
        PROVE  \E x \in Paths \X types : f[x] = c
    <3>1. <<c.path, c.type>> \in Paths \X types /\ f[<<c.path, c.type>>] = c
      BY DEF Change
    <3>2. QED
      BY <3>1
  <2> HIDE DEF f, types
  <2>3. QED
    BY <2>1, <2>2 DEF Surjection
<1>4. IsFiniteSet(Change)
  BY <1>2, <1>3, FS_Surjection
<1>5. QED
  BY <1>4, FS_Subset

\* As long as something is on the list, one change of it is the first.
LEMMA OneIsFirst ==
    ASSUME NEW o, NEW m,
           NEW list, list \subseteq DiffDirectories(o, m), list # {}
    PROVE  \E c \in list : First(list) = {c}
<1> DEFINE Earlier(c) == {d \in list : ListedBefore(d, c)}
           T == {Earlier(c) : c \in list}
<1>1. IsFiniteSet(list)
  BY ListIsFinite, DiffIs
<1>2. T \subseteq FiniteSubsetsOf(list) /\ T # {}
  <2>1. ASSUME NEW c \in list
        PROVE  Earlier(c) \subseteq list /\ IsFiniteSet(Earlier(c))
    BY <1>1, FS_Subset
  <2>2. QED
    BY <2>1 DEF FiniteSubsetsOf
<1>3. PICK t \in T : \A u \in T : <<u, t>> \notin StrictSubsetOrdering(list)
  BY <1>2, FS_StrictSubsetOrderingWellFounded, WFMin
<1>4. PICK c \in list : t = Earlier(c)
  OBVIOUS
<1>5. ASSUME NEW d \in list, ListedBefore(d, c)
      PROVE  FALSE
  <2>1. Earlier(d) \subseteq Earlier(c)
    BY <1>5, ListIsOrdered
  <2>2. d \in Earlier(c) /\ d \notin Earlier(d)
    BY <1>5, ListIsOrdered
  <2>3. Earlier(d) \in T /\ Earlier(d) \subseteq list /\ Earlier(c) \subseteq list
    OBVIOUS
  <2> HIDE DEF Earlier, T
  <2>4. <<Earlier(d), Earlier(c)>> \in StrictSubsetOrdering(list)
    BY <2>1, <2>2, <2>3 DEF StrictSubsetOrdering
  <2>5. QED
    BY <1>3, <1>4, <2>3, <2>4
<1>6. \A d \in list \ {c} : ListedBefore(c, d) /\ ~ListedBefore(d, c)
  BY <1>5, ListIsOrdered
<1>7. QED
  BY <1>6 DEF First

=============================================================================
