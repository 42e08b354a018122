------------------------ MODULE WorkspaceReview_proofs ------------------------
(***************************************************************************)
(* Proofs about WorkspaceReview and ReviewSession, for any paths, contents,*)
(* links, work trees and configurations, and any number of edits and       *)
(* applications.                                                           *)
(***************************************************************************)
EXTENDS WorkspaceReview, ReviewSession, WorkspaceTree_proofs

\* The changes the run holds were computed by the comparison.
Compared == phase \in {"review", "syncing"} \/ (phase = "teardown" /\ outcome # "none")

\* The changes that were written back.
Done ==
    IF phase = "syncing" \/ outcome = "accepted" \/ todo # {} THEN changes \ todo ELSE {}

\* The copy is a tree from its making to the teardown.
CopyIsTree == phase \in {"running", "review", "syncing", "teardown"} => iso \in Tree

\* What is reported when, and what is still to be written.
ListFollowsPhase ==
    /\ phase = "start" => mounts = {}
    /\ phase \notin {"teardown", "ended"} => outcome = "none"
    /\ phase \notin {"syncing", "teardown", "ended"} => todo = {}
    /\ phase = "teardown" /\ outcome = "accepted" => todo = {}
    /\ Compared => changes = DiffDirectories(shown, iso)
    /\ ~Compared /\ phase # "ended" => changes = {} /\ todo = {}

\* Nobody but the review writes to the original, and no path of the copy leads
\* through a link.
Undisturbing == users = 0 /\ Straight(shown, iso)

\* Then the original is on its way from what was compared to the copy, until a write
\* fails; what was written is right, what is to be deleted is there, and what is to be
\* written would still be reported.
OriginalIsNearer ==
    Compared /\ Undisturbing =>
        /\ NoNewLinks(shown, orig)
        /\ outcome # "aborted" => Nearer(shown, orig, iso)
        /\ \A c \in Done : orig[c.path] = iso[c.path]
        /\ \A c \in changes \ Done : c.type = "deleted" => orig[c.path] = shown[c.path]
        /\ outcome = "none" => changes \ Done \subseteq DiffDirectories(orig, iso)

\* Changes are written in the order of the list.
WrittenInOrder ==
    Compared => \A c \in Done, d \in changes \ Done : ListedBefore(c, d)

IInv ==
    /\ TypeOK
    /\ CopyIsTree
    /\ ListFollowsPhase
    /\ OriginalIsNearer
    /\ WrittenInOrder

-----------------------------------------------------------------------------
(* Writing one change *)

\* What a copy without links reads at its paths.
LEMMA StraightReads ==
    ASSUME NEW o, NEW m \in Tree, Straight(o, m), NEW p \in Paths
    PROVE  Reads(m, p) = {m[p]}
<1>1. ~Linked(m, p)
  BY StraightIs, LinkedIs DEF Above
<1>2. Place(m, p) = p /\ p # Elsewhere
  BY <1>1, PlaceIs, LinksLead
<1>3. QED
  BY <1>2 DEF Reads

\* Writing one change that is still one makes its path what the copy holds.
LEMMA SyncChangeSyncs ==
    ASSUME orig \in Tree, iso \in Tree, Straight(orig, iso),
           NEW c \in DiffDirectories(orig, iso), NEW u \in SyncChange(orig, c)
    PROVE  SyncsPath(orig, u, iso, c.path)
<1>1. /\ c.path \in Paths
      /\ IF c.type = "deleted" THEN iso[c.path] = None /\ orig[c.path] # None
         ELSE iso[c.path] \in Files \cup {Dir}
      /\ iso[c.path] = Dir => orig[c.path] = None
      /\ Reads(iso, c.path) = {iso[c.path]}
  BY DiffTells, StraightReads
<1>2. CASE c.type = "deleted"
  BY <1>1, <1>2, RemovedSyncs DEF SyncChange
<1>3. CASE c.type # "deleted" /\ iso[c.path] = Dir
  BY <1>1, <1>3, MakeDirsSyncs DEF SyncChange
<1>4. CASE c.type # "deleted" /\ iso[c.path] # Dir
  BY <1>1, <1>4, CopiedSyncs DEF SyncChange
<1>5. QED
  BY <1>2, <1>3, <1>4

\* A write, done or failed, leaves a tree, in which what changed was reviewed.
LEMMA WritesAreReviewed ==
    ASSUME IInv, SyncNext \/ SyncFails
    PROVE  /\ phase = "syncing" /\ orig' \in Tree
           /\ \A p \in Paths : orig'[p] # orig[p] => IsReviewed(p)
<1>1. PICK c \in First(todo) :
          \/ orig' \in SyncChange(orig, c)
          \/ /\ outcome' = "aborted"
             /\ orig' \in IF c.type = "deleted" THEN {orig}
                          ELSE IF Reads(iso, c.path) \cap Files = {}
                          THEN PartlyMade(orig, c.path) ELSE Spoiled(orig, c.path)
  BY DEF SyncNext, SyncFails
<1>2. phase = "syncing" /\ orig \in Tree /\ c \in changes /\ c.path \in Paths
  BY DEF SyncNext, SyncFails, First, IInv, TypeOK, Change
<1>3. ASSUME NEW r \in Paths, orig[r] = None, orig'[r] = Dir,
             NEW q \in Above(c.path) \cup {c.path}, r = Place(orig, q), c.type # "deleted"
      PROVE  IsReviewed(r)
  BY <1>2, <1>3 DEF IsReviewed
<1>4. CASE c.type = "deleted"
  <2>1. orig' \in Removed(orig, c.path) \/ orig' = orig
    BY <1>1, <1>4 DEF SyncChange
  <2>2. QED
    BY <1>2, <1>4, <2>1, RemovedIs DEF IsReviewed
<1>5. CASE c.type # "deleted" /\ orig' \in SyncChange(orig, c)
  <2>1. PICK n \in Reads(iso, c.path) \ {None} :
            orig' \in IF n = Dir THEN MakeDirs(orig, Above(c.path) \cup {c.path})
                      ELSE Copied(orig, c.path, n)
    BY <1>5 DEF SyncChange
  <2>2. CASE n = Dir
    <3>1. Above(c.path) \cup {c.path} \in SUBSET Paths
      BY <1>2, AboveIsClosed
    <3>2. QED
      BY <1>2, <1>3, <1>5, <2>1, <2>2, <3>1, MakeDirsIs
  <2>3. CASE n # Dir
    <3>1. /\ orig' \in Tree
          /\ \A r \in Paths : orig'[r] # orig[r] =>
                \/ r = Place(orig, c.path) /\ orig'[r] = n
                \/ orig[r] = None /\ orig'[r] = Dir /\ \E q \in Above(c.path) : r = Place(orig, q)
      BY <1>2, <2>1, <2>3, CopiedIs
    <3>2. ASSUME NEW r \in Paths, r = Place(orig, c.path), orig'[r] = n
          PROVE  IsReviewed(r)
      BY <1>2, <1>5, <2>1, <3>2 DEF IsReviewed
    <3>3. QED
      BY <1>2, <1>3, <1>5, <3>1, <3>2
  <2>4. QED
    BY <2>2, <2>3
<1>6. CASE c.type # "deleted" /\ orig' \notin SyncChange(orig, c)
  <2>1. outcome' = "aborted" /\ orig' \in Spoiled(orig, c.path)
    BY <1>1, <1>6 DEF Spoiled
  <2>2. /\ orig' \in Tree
        /\ \A r \in Paths : orig'[r] # orig[r] =>
              \/ r = Place(orig, c.path) /\ orig'[r] = Torn
              \/ orig[r] = None /\ orig'[r] = Dir /\ \E q \in Above(c.path) : r = Place(orig, q)
    BY <1>2, <2>1, SpoiledIs
  <2>3. ASSUME NEW r \in Paths, r = Place(orig, c.path), orig'[r] = Torn
        PROVE  IsReviewed(r)
    BY <1>2, <1>6, <2>1, <2>3 DEF IsReviewed
  <2>4. QED
    BY <1>2, <1>3, <1>6, <2>2, <2>3
<1>7. QED
  BY <1>4, <1>5, <1>6

\* Where writing a change touches a path of another one that is still to be written,
\* the other one came first.
LEMMA PendingIsUntouched ==
    ASSUME NEW o \in Tree, NEW u, NEW m \in Tree, Straight(o, m),
           NEW c \in DiffDirectories(o, m), NEW d \in DiffDirectories(o, m), c # d,
           ListedBefore(c, d), Touches(o, u, m, c.path)
    PROVE  u[d.path] = o[d.path]
<1>1. /\ c.path \in Paths /\ d.path \in Paths /\ c.path # d.path
      /\ d.type = "deleted" => m[d.path] = None
      /\ c \in Change /\ d \in Change
  BY DiffTells, DiffIsFunctional, DiffIs
<1>2. SUFFICES ASSUME d.path \in Above(c.path), m[d.path] = Dir
               PROVE  FALSE
  BY <1>1 DEF Touches
<1>3. d.type # "deleted" /\ c.type # "deleted"
  BY <1>1, <1>2, NodesDiffer DEF ListedBefore
<1>4. WalksBefore(c.path, d.path) /\ WalksBefore(d.path, c.path)
  BY <1>1, <1>2, <1>3 DEF ListedBefore, WalksBefore, Above
<1>5. c.path \in Seq(Nat) /\ d.path \in Seq(Nat)
  BY <1>1, PathsAreNames
<1>6. QED
  BY <1>4, <1>5, WalkIsTransitive, WalkIsStrict

-----------------------------------------------------------------------------
(* The steps *)

\* The initial states satisfy the invariant.
LEMMA InitIInv == Init => IInv
BY OriginalsAreTrees, CommandIsBounded, UserIsBounded
DEF Init, IInv, TypeOK, CopyIsTree, ListFollowsPhase, OriginalIsNearer, WrittenInOrder,
    Compared, Phases, Outcomes

\* Setting up makes a copy that is a tree, or none.
LEMMA SetupSteps ==
    ASSUME IInv, WrapFails \/ Setup \/ DockerSetup \/ SetupFails
    PROVE  IInv'
<1> USE DEF IInv, TypeOK, CopyIsTree, ListFollowsPhase, OriginalIsNearer, WrittenInOrder,
            Compared, Phases
<1>1. CASE WrapFails
  BY <1>1 DEF WrapFails
<1>2. CASE Setup
  BY <1>2, CopyDirIsTree DEF Setup
<1>3. CASE DockerSetup
  <2>1. cfg.masked \in SUBSET Paths /\ mounts' = HiddenPaths(orig, cfg.masked)
    BY <1>3, ConfigsAreFlags DEF DockerSetup
  <2>2. iso' = [p \in Paths |-> IF p \in mounts' THEN Dir
                                ELSE CreateMaskedWorkspace(orig, cfg.masked)[p]]
    BY <1>3 DEF DockerSetup
  <2>3. iso' \in Tree
    BY <2>1, <2>2, MaskedIsTree
  <2>4. mounts' \subseteq cfg.masked
    BY <2>1 DEF HiddenPaths
  <2>5. QED
    BY <1>3, <2>3, <2>4 DEF DockerSetup
<1>4. CASE SetupFails
  BY <1>4 DEF SetupFails
<1>5. QED
  BY <1>1, <1>2, <1>3, <1>4

\* The command edits its copy, or the original when there is none.
LEMMA CommandStep == ASSUME IInv, CommandEdits PROVE IInv'
<1>1. PICK t \in Edits(IF phase = "running" THEN iso ELSE orig) :
          /\ touched' = touched \cup {p \in Paths : t[p] # (IF phase = "running" THEN iso ELSE orig)[p]}
          /\ IF phase = "running" THEN iso' = t /\ orig' = orig ELSE orig' = t /\ iso' = iso
  BY DEF CommandEdits
<1>2. phase \in {"running", "direct"} /\ commands' \in 0..MaxCommand /\ touched' \subseteq Paths
  BY <1>1, CommandIsBounded DEF CommandEdits, IInv, TypeOK
<1>3. CASE phase = "running"
  <2>1. iso' \in Tree /\ orig' = orig
    BY <1>1, <1>3, EditsAreTrees DEF IInv, CopyIsTree
  <2>2. QED
    BY <1>2, <1>3, <2>1 DEF CommandEdits, IInv, TypeOK, CopyIsTree, ListFollowsPhase,
       OriginalIsNearer, WrittenInOrder, Compared
<1>4. CASE phase = "direct"
  <2>1. orig' \in Tree /\ iso' = iso
    BY <1>1, <1>4, EditsAreTrees DEF IInv, TypeOK
  <2>2. QED
    BY <1>2, <1>4, <2>1 DEF CommandEdits, IInv, TypeOK, CopyIsTree, ListFollowsPhase,
       OriginalIsNearer, WrittenInOrder, Compared
<1>5. QED
  BY <1>2, <1>3, <1>4

\* The user's edits leave a tree, and suspend what is said of an undisturbed run.
LEMMA UserStep == ASSUME IInv, UserEdits PROVE IInv'
<1>1. orig' \in Tree /\ users' \in 0..MaxUser /\ users' # 0
  BY EditsAreTrees, UserIsBounded DEF UserEdits, UserEdit, IInv, TypeOK
<1>2. UNCHANGED Compared /\ UNCHANGED Done
  BY DEF UserEdits, UserEdit, Compared, Done
<1>3. QED
  BY <1>1, <1>2 DEF UserEdits, UserEdit, IInv, TypeOK, CopyIsTree, ListFollowsPhase,
     OriginalIsNearer, WrittenInOrder, Undisturbing

\* The comparison is of the original as it is.
LEMMA CompletesStep == ASSUME IInv, Completes PROVE IInv'
<1>1. /\ phase = "running" /\ outcome = "none" /\ todo = {} /\ orig \in Tree
      /\ iso \in Tree
  BY DEF IInv, TypeOK, CopyIsTree, ListFollowsPhase, Completes
<1>2. CASE changes' = {}
  BY <1>1, <1>2 DEF Completes, IInv, TypeOK, CopyIsTree, ListFollowsPhase, OriginalIsNearer,
     WrittenInOrder, Compared, Phases
<1>3. CASE changes' # {}
  <2>1. changes' = DiffDirectories(orig, iso) /\ shown' = orig /\ phase' = "review"
    BY <1>3 DEF Completes
  <2>2. UNCHANGED <<cfg, mounts, orig, iso, todo, outcome, touched, commands, users>>
    BY DEF Completes
  <2>3. Done' = {} /\ Compared'
    BY <1>1, <2>1, <2>2 DEF Done, Compared
  <2>4. TypeOK'
    BY <1>1, <2>1, <2>2, DiffIs DEF IInv, TypeOK, Phases
  <2>5. OriginalIsNearer' /\ WrittenInOrder'
    BY <2>1, <2>2, <2>3 DEF OriginalIsNearer, WrittenInOrder, Nearer, NoNewLinks
  <2>6. CopyIsTree' /\ ListFollowsPhase'
    BY <1>1, <2>1, <2>2, <2>3 DEF CopyIsTree, ListFollowsPhase
  <2>7. QED
    BY <2>4, <2>5, <2>6 DEF IInv
<1>4. QED
  BY <1>2, <1>3

\* The runs without a review, and the end of each.
LEMMA EndSteps ==
    ASSUME IInv, EndsEarly \/ DirectEnds \/ Teardown
    PROVE  IInv'
BY DEF EndsEarly, DirectEnds, Teardown, IInv, TypeOK, CopyIsTree, ListFollowsPhase,
   OriginalIsNearer, WrittenInOrder, Compared, Phases

\* The user decides; nothing was written yet.
LEMMA DecideSteps ==
    ASSUME IInv, Accept \/ Decline
    PROVE  IInv'
<1>1. phase = "review" /\ outcome = "none" /\ todo = {} /\ Compared
  BY DEF Accept, Decline, IInv, ListFollowsPhase, Compared
<1>2. Done = {} /\ Done' = {} /\ Compared'
  BY <1>1 DEF Done, Accept, Decline, Compared
<1>3. Undisturbing' = Undisturbing
  BY DEF Accept, Decline, Undisturbing
<1>4. QED
  BY <1>1, <1>2, <1>3 DEF Accept, Decline, IInv, TypeOK, CopyIsTree, ListFollowsPhase,
     OriginalIsNearer, WrittenInOrder, Phases, Outcomes

\* What is known of an undisturbed original as one more change is to be written.
LEMMA NextWrite ==
    ASSUME IInv, phase = "syncing", Undisturbing, NEW c \in First(todo)
    PROVE  /\ orig \in Tree /\ shown \in Tree /\ iso \in Tree /\ Straight(orig, iso)
           /\ changes = DiffDirectories(shown, iso) /\ Compared /\ outcome = "none"
           /\ Done = changes \ todo /\ changes \ Done = todo
           /\ c \in todo /\ \A d \in todo \ {c} : ListedBefore(c, d)
           /\ todo \subseteq DiffDirectories(orig, iso) /\ todo \subseteq changes
           /\ NoNewLinks(shown, orig) /\ Nearer(shown, orig, iso)
           /\ \A d \in Done : orig[d.path] = iso[d.path]
           /\ \A d \in todo : d.type = "deleted" => orig[d.path] = shown[d.path]
<1>1. /\ orig \in Tree /\ shown \in Tree /\ iso \in Tree /\ Compared /\ outcome = "none"
      /\ changes = DiffDirectories(shown, iso) /\ todo \subseteq changes
  BY DEF IInv, TypeOK, CopyIsTree, ListFollowsPhase, Compared
<1>2. Done = changes \ todo /\ changes \ Done = todo
  BY <1>1 DEF Done
<1>3. /\ NoNewLinks(shown, orig) /\ Nearer(shown, orig, iso)
      /\ \A d \in Done : orig[d.path] = iso[d.path]
      /\ \A d \in todo : d.type = "deleted" => orig[d.path] = shown[d.path]
      /\ todo \subseteq DiffDirectories(orig, iso)
  BY <1>1, <1>2 DEF IInv, OriginalIsNearer
<1>4. Straight(orig, iso)
  BY <1>3, StraightStays DEF Undisturbing
<1>5. c \in todo /\ \A d \in todo \ {c} : ListedBefore(c, d)
  BY DEF First
<1>6. QED
  BY <1>1, <1>2, <1>3, <1>4, <1>5

\* Whatever writing a change leaves, what was right stays right and what is to be
\* deleted stays there.
LEMMA TouchingKeeps ==
    ASSUME IInv, phase = "syncing", Undisturbing, NEW c \in First(todo),
           NEW u, Touches(orig, u, iso, c.path)
    PROVE  /\ NoNewLinks(shown, u)
           /\ \A d \in Done : u[d.path] = iso[d.path]
           /\ \A d \in todo \ {c} : u[d.path] = orig[d.path]
<1>1. c.path \in Paths
  BY NextWrite, DiffIs DEF Change
<1>2. NoNewLinks(orig, u)
  BY <1>1, TouchesMakesNoLinks
<1>3. NoNewLinks(shown, u)
  BY <1>2, NextWrite DEF NoNewLinks
<1>4. ASSUME NEW d \in Done
      PROVE  u[d.path] = iso[d.path]
  <2>1. d \in changes /\ c \in changes /\ d # c
    BY <1>4, NextWrite
  <2>2. d.path \in Paths /\ d.path # c.path
    BY <2>1, NextWrite, DiffIsFunctional, DiffIs DEF Change
  <2>3. orig[d.path] = iso[d.path]
    BY <1>4, NextWrite
  <2>4. QED
    BY <2>2, <2>3 DEF Touches
<1>5. ASSUME NEW d \in todo \ {c}
      PROVE  u[d.path] = orig[d.path]
  BY <1>5, NextWrite, PendingIsUntouched
<1>6. QED
  BY <1>3, <1>4, <1>5

\* One more change is written.
LEMMA SyncStep == ASSUME IInv, SyncNext PROVE IInv'
<1>1. PICK c \in First(todo) : orig' \in SyncChange(orig, c) /\ todo' = todo \ {c}
  BY DEF SyncNext
<1>2. /\ phase = "syncing" /\ Compared /\ outcome = "none"
      /\ UNCHANGED <<cfg, mounts, iso, phase, changes, outcome, shown, touched, commands, users>>
  BY DEF SyncNext, Compared, IInv, ListFollowsPhase
<1>3. c \in todo /\ todo \subseteq changes /\ \A d \in todo \ {c} : ListedBefore(c, d)
  BY <1>1 DEF First, IInv, TypeOK
<1>4. Compared' /\ Done = changes \ todo /\ Done' = Done \cup {c}
  BY <1>1, <1>2, <1>3 DEF Done, Compared
<1>5. orig' \in Tree
  BY WritesAreReviewed
<1>6. TypeOK'
  BY <1>1, <1>2, <1>5 DEF IInv, TypeOK
<1>7. CopyIsTree' /\ ListFollowsPhase'
  BY <1>2, <1>4 DEF IInv, CopyIsTree, ListFollowsPhase
<1>8. OriginalIsNearer'
  <2>1. SUFFICES ASSUME Undisturbing
                 PROVE  /\ NoNewLinks(shown, orig')
                        /\ Nearer(shown, orig', iso)
                        /\ \A d \in Done' : orig'[d.path] = iso[d.path]
                        /\ \A d \in changes \ Done' :
                              d.type = "deleted" => orig'[d.path] = shown[d.path]
                        /\ changes \ Done' \subseteq DiffDirectories(orig', iso)
    BY <1>2 DEF OriginalIsNearer, Undisturbing
  <2>2. /\ orig \in Tree /\ iso \in Tree /\ Straight(orig, iso) /\ Nearer(shown, orig, iso)
        /\ todo \subseteq DiffDirectories(orig, iso)
        /\ \A d \in todo : d.type = "deleted" => orig[d.path] = shown[d.path]
    BY <1>1, <1>2, <2>1, NextWrite
  <2>3. c \in DiffDirectories(orig, iso) /\ c.path \in Paths
    BY <1>3, <2>2, DiffIs DEF Change
  <2>4. SyncsPath(orig, orig', iso, c.path)
    BY <1>1, <2>2, <2>3, SyncChangeSyncs
  <2>5. /\ NoNewLinks(shown, orig')
        /\ \A d \in Done : orig'[d.path] = iso[d.path]
        /\ \A d \in todo \ {c} : orig'[d.path] = orig[d.path]
    BY <1>1, <1>2, <2>1, <2>4, TouchingKeeps DEF SyncsPath
  <2>6. Nearer(shown, orig', iso)
    BY <2>2, <2>3, <2>4, SyncsNear, NearerIsTransitive
  <2>7. orig'[c.path] = iso[c.path]
    BY <2>4 DEF SyncsPath
  <2>8. Straight(orig', iso)
    BY <2>2, <2>3, <2>4, TouchesMakesNoLinks, StraightStays DEF SyncsPath
  <2>9. ASSUME NEW d \in todo \ {c}
        PROVE  d \in DiffDirectories(orig', iso)
    <3>1. d \in DiffDirectories(orig, iso) /\ d.path # c.path /\ orig'[d.path] = orig[d.path]
      BY <1>3, <2>2, <2>3, <2>5, DiffIsFunctional
    <3>2. QED
      BY <1>5, <2>2, <2>3, <2>4, <2>7, <2>8, <3>1, TouchedKeepsDiffering DEF SyncsPath
  <2>10. changes \ Done' = todo \ {c}
    BY <1>3, <1>4
  <2>11. \A d \in Done' : orig'[d.path] = iso[d.path]
    BY <1>4, <2>5, <2>7
  <2>12. \A d \in changes \ Done' : d.type = "deleted" => orig'[d.path] = shown[d.path]
    BY <2>2, <2>5, <2>10
  <2>13. changes \ Done' \subseteq DiffDirectories(orig', iso)
    BY <2>9, <2>10
  <2>14. QED
    BY <2>5, <2>6, <2>11, <2>12, <2>13
<1>9. WrittenInOrder'
  BY <1>2, <1>3, <1>4 DEF IInv, WrittenInOrder
<1>10. QED
  BY <1>6, <1>7, <1>8, <1>9 DEF IInv

\* A write fails, and may have left half of it.
LEMMA SyncFailStep == ASSUME IInv, SyncFails PROVE IInv'
<1>1. PICK c \in First(todo) :
          orig' \in IF c.type = "deleted" THEN {orig}
                    ELSE IF Reads(iso, c.path) \cap Files = {} THEN PartlyMade(orig, c.path)
                    ELSE Spoiled(orig, c.path)
  BY DEF SyncFails
<1>2. /\ phase = "syncing" /\ Compared /\ Compared' /\ outcome' = "aborted" /\ phase' = "teardown"
      /\ UNCHANGED <<cfg, mounts, iso, changes, todo, shown, touched, commands, users>>
  BY DEF SyncFails, Compared
<1>3. c \in todo /\ Done' = Done /\ todo \subseteq changes
  BY <1>1, <1>2 DEF Done, First, IInv, TypeOK
<1>4. orig' \in Tree
  BY WritesAreReviewed
<1>5. TypeOK'
  BY <1>2, <1>4 DEF IInv, TypeOK, Phases, Outcomes
<1>6. CopyIsTree' /\ ListFollowsPhase'
  BY <1>2 DEF IInv, CopyIsTree, ListFollowsPhase
<1>7. OriginalIsNearer'
  <2>1. SUFFICES ASSUME Undisturbing
                 PROVE  /\ NoNewLinks(shown, orig')
                        /\ \A d \in Done : orig'[d.path] = iso[d.path]
                        /\ \A d \in changes \ Done :
                              d.type = "deleted" => orig'[d.path] = shown[d.path]
    BY <1>2, <1>3 DEF OriginalIsNearer, Undisturbing
  <2>2. /\ orig \in Tree /\ iso \in Tree /\ Straight(orig, iso) /\ changes \ Done = todo
        /\ todo \subseteq DiffDirectories(orig, iso)
        /\ NoNewLinks(shown, orig)
        /\ \A d \in Done : orig[d.path] = iso[d.path]
        /\ \A d \in todo : d.type = "deleted" => orig[d.path] = shown[d.path]
    BY <1>1, <1>2, <2>1, NextWrite
  <2>3. CASE orig' = orig
    BY <2>2, <2>3
  <2>4. CASE orig' # orig
    <3>1. c.type # "deleted" /\ orig' \in Spoiled(orig, c.path)
      BY <1>1, <2>4 DEF Spoiled
    <3>2. c.path \in Paths /\ iso[c.path] # None
      BY <1>3, <2>2, <3>1, DiffTells, NodesDiffer DEF Files
    <3>3. Touches(orig, orig', iso, c.path)
      BY <2>2, <3>1, <3>2, SpoiledTouches
    <3>4. /\ NoNewLinks(shown, orig')
          /\ \A d \in Done : orig'[d.path] = iso[d.path]
          /\ \A d \in todo \ {c} : orig'[d.path] = orig[d.path]
      BY <1>1, <1>2, <2>1, <3>3, TouchingKeeps
    <3>5. QED
      BY <2>2, <3>1, <3>4
  <2>5. QED
    BY <2>3, <2>4
<1>8. WrittenInOrder'
  BY <1>2, <1>3 DEF IInv, WrittenInOrder
<1>9. QED
  BY <1>5, <1>6, <1>7, <1>8 DEF IInv

\* The writing ends, with all written.
LEMMA SyncEndStep == ASSUME IInv, SyncEnds PROVE IInv'
<1>1. phase = "syncing" /\ Compared /\ Compared' /\ outcome = "none" /\ outcome' = "accepted"
  BY DEF SyncEnds, Compared, IInv, ListFollowsPhase
<1>2. Done' = Done /\ Undisturbing' = Undisturbing
  BY DEF SyncEnds, Done, Undisturbing
<1>3. QED
  BY <1>1, <1>2 DEF SyncEnds, IInv, TypeOK, CopyIsTree, ListFollowsPhase,
     OriginalIsNearer, WrittenInOrder, Phases, Outcomes

\* Every step keeps the invariant.
LEMMA StepIInv == IInv /\ [Next]_vars => IInv'
<1> SUFFICES ASSUME IInv, [Next]_vars PROVE IInv'
  OBVIOUS
<1>1. CASE UNCHANGED vars
  BY <1>1 DEF vars, IInv, TypeOK, CopyIsTree, ListFollowsPhase, OriginalIsNearer,
     WrittenInOrder, Compared, Done, Undisturbing
<1>2. QED
  BY <1>1, SetupSteps, CommandStep, UserStep, CompletesStep, EndSteps, DecideSteps,
     SyncStep, SyncFailStep, SyncEndStep DEF Next

\* The invariant holds in every reachable state.
LEMMA Invariant == Spec => []IInv
BY InitIInv, StepIInv, PTL DEF Spec

-----------------------------------------------------------------------------
(* The theorems *)

\* The types hold in every reachable state: among them, that the work tree stays
\* a tree whatever is written to it and by whom.
THEOREM TypesAreKept == Spec => []TypeOK
BY Invariant, PTL DEF IInv

\* A review that reports its changes synced made the original what the command
\* left, but for git's metadata and what the comparison does not report.
THEOREM AcceptedReviewsAreWhole == Spec => []AcceptedIsWhole
<1>1. IInv => AcceptedIsWhole
  <2> SUFFICES ASSUME IInv, phase = "teardown", outcome = "accepted", users = 0,
                      Straight(shown, iso),
                      NEW p \in Paths, ~InGit(p), orig[p] # iso[p]
               PROVE  \E q \in Above(p) \cup {p} : iso[q] = Dir /\ orig[q] # Dir
    BY DEF AcceptedIsWhole
  <2>1. Compared /\ todo = {} /\ Done = changes /\ Undisturbing
    BY DEF Compared, Done, IInv, ListFollowsPhase, Undisturbing
  <2>2. /\ orig \in Tree /\ shown \in Tree /\ iso \in Tree
        /\ changes = DiffDirectories(shown, iso)
    BY <2>1 DEF IInv, TypeOK, CopyIsTree, ListFollowsPhase
  <2>3. Nearer(shown, orig, iso) /\ \A c \in changes : orig[c.path] = iso[c.path]
    BY <2>1 DEF IInv, OriginalIsNearer
  <2>4. QED
    BY <2>2, <2>3, SyncedIsWhole
<1>2. QED
  BY <1>1, Invariant, PTL

\* As long as changes are left to be synced, one of them is the next: the list
\* the code walks puts every two changes of a comparison in one order, so that a
\* write or its failure is always possible (exec_review.go, SyncChanges).
THEOREM OneWriteIsNext ==
    Spec => [](phase = "syncing" /\ todo # {} => \E c \in todo : First(todo) = {c})
<1>1. ASSUME IInv, phase = "syncing", todo # {}
      PROVE  \E c \in todo : First(todo) = {c}
  <2>1. todo \subseteq DiffDirectories(shown, iso)
    BY <1>1 DEF IInv, TypeOK, ListFollowsPhase, Compared
  <2>2. QED
    BY <1>1, <2>1, OneIsFirst
<1>2. QED
  BY <1>1, Invariant, PTL

\* At no moment of a review, also one that fails half way, is a file that the
\* command moved missing from the original at both its places.
THEOREM MovedFilesAreNeverLost == Spec => []MovedFilesAreKept
<1>1. IInv => MovedFilesAreKept
  <2> SUFFICES ASSUME IInv, users = 0, phase \in {"review", "syncing", "teardown"},
                      Straight(shown, iso),
                      NEW d \in changes, NEW a \in changes,
                      d.type = "deleted", a.type = "added",
                      iso[a.path] = shown[d.path], orig[d.path] # shown[d.path]
               PROVE  orig[a.path] = shown[d.path]
    BY DEF MovedFilesAreKept
  <2>1. Compared /\ Undisturbing
    BY DEF IInv, ListFollowsPhase, Undisturbing
  <2>2. d \in Done
    BY <2>1 DEF IInv, OriginalIsNearer
  <2>3. ~ListedBefore(d, a)
    BY DEF ListedBefore
  <2>4. a \in Done
    BY <2>1, <2>2, <2>3 DEF IInv, WrittenInOrder
  <2>5. QED
    BY <2>1, <2>4 DEF IInv, OriginalIsNearer
<1>2. QED
  BY <1>1, Invariant, PTL

\* Beside the user, only the accepted review writes to an original of which there
\* is a copy.
LEMMA OnlySyncWrites ==
    ASSUME IInv, [Next]_vars, users' = users, orig' # orig, phase # "direct"
    PROVE  SyncNext \/ SyncFails
<1>1. ~UserEdits
  BY DEF UserEdits, UserEdit, IInv, TypeOK
<1>2. ~CommandEdits
  BY DEF CommandEdits
<1>3. QED
  BY <1>1, <1>2 DEF Next, vars, WrapFails, Setup, DockerSetup, SetupFails, Completes, EndsEarly,
     DirectEnds, Accept, Decline, SyncEnds, Teardown

\* A review writes what it showed, where its paths lead, and the directories on the
\* way, however the user and the command interfere, whatever links they make, and
\* whichever write fails half way.
THEOREM ReviewsWriteWhatTheyShow == Spec => OnlyReviewedIsWritten
<1>1. IInv /\ [Next]_vars =>
          [users' = users /\ orig' # orig /\ phase # "direct" =>
             /\ phase = "syncing"
             /\ \A p \in Paths : orig'[p] # orig[p] => IsReviewed(p)]_vars
  BY OnlySyncWrites, WritesAreReviewed
<1>2. QED
  BY <1>1, Invariant, PTL DEF Spec, OnlyReviewedIsWritten

\* No review writes at or below ".git", unless a reported path leads through a link.
THEOREM GitMetadataIsSafe == Spec => GitIsLeftAlone
<1>1. IInv /\ [Next]_vars =>
          [users' = users /\ phase # "direct" /\ (\A c \in changes : ~Linked(orig, c.path)) =>
             \A p \in Paths : InGit(p) => orig'[p] = orig[p]]_vars
  <2> SUFFICES ASSUME IInv, [Next]_vars, users' = users, phase # "direct", orig' # orig,
                      \A c \in changes : ~Linked(orig, c.path),
                      NEW p \in Paths, InGit(p)
               PROVE  orig'[p] = orig[p]
    OBVIOUS
  <2>1. phase = "syncing" /\ (orig'[p] # orig[p] => IsReviewed(p))
    BY OnlySyncWrites, WritesAreReviewed
  <2>2. ASSUME NEW c \in changes
        PROVE  /\ ~InGit(c.path) /\ p # Entry(orig, c.path)
               /\ \A q \in Above(c.path) \cup {c.path} : p # Place(orig, q)
    <3>1. c.path \in Paths /\ ~InGit(c.path)
      BY <2>1, DiffIs DEF IInv, ListFollowsPhase, Compared, Change
    <3>2. \A q \in Above(c.path) \cup {c.path} : orig[q] \notin Links
      BY <3>1, LinkedIs
    <3>3. Entry(orig, c.path) = c.path
      BY <3>1, <3>2, EntryIs
    <3>4. ASSUME NEW q \in Above(c.path) \cup {c.path}
          PROVE  Place(orig, q) = q /\ ~InGit(q)
      <4>1. q \in Paths /\ ~InGit(q)
        BY <3>1, AboveIsApart
      <4>2. ~Linked(orig, q)
        BY <3>1, <3>2, <4>1, AboveIsTransitive, LinkedIs
      <4>3. QED
        BY <4>1, <4>2, PlaceIs
    <3>5. QED
      BY <3>1, <3>3, <3>4
  <2>3. ~IsReviewed(p)
    BY <2>2 DEF IsReviewed
  <2>4. QED
    BY <2>1, <2>3
<1>2. QED
  BY <1>1, Invariant, PTL DEF Spec, GitIsLeftAlone

-----------------------------------------------------------------------------
(* The session *)

\* What is written next is on the list.
LEMMA FirstIsListed == \A list : First(list) \subseteq list
BY DEF First

\* The copy is one the command left, and it is there while changes are written; they
\* are of one comparison and among what the applications were asked for.
SessionWrites ==
    /\ iso \in Copies \cup {Gone}
    /\ Idle => todo = {}
    /\ ~Idle => iso # Gone /\ \E o \in Tree : todo \subseteq DiffDirectories(o, iso)
    /\ syncing = "all" => asked = Paths
    /\ syncing = "selected" =>
          /\ selected \subseteq asked
          /\ \A c \in todo : \E s \in selected : Matches(s, c.path)

\* A path is as in the copy, or reported as a change of a set.
RightOrIn(p, S) == orig[p] = iso[p] \/ \E c \in S : c.path = p

\* What was asked for reaches a path, or something below it.
Reached(p) == asked = Paths \/ \E s \in asked : \E q \in Below(p) \cup {p} : Matches(s, q)

\* Unless the user edits the original or links are in the way: what was shown and
\* selected is as in the copy, or a comparison would report it still, what is to be
\* written among it; the rest follows the properties while they come about.
SessionIsRight ==
    Undisturbed =>
        LET diff == DiffDirectories(orig, iso)
        IN  /\ NoNewLinks(shown, orig)
            /\ \A p \in loaded \cup selected : RightOrIn(p, diff)
            /\ \A p \in applied : SelectsItself(p, applied) => orig[p] = iso[p] \/ Dotted(p)
            /\ \A p \in Paths : orig[p] # shown[p] => Reached(p)
            /\ result = "all" => \A c \in diff : Skipped(c)
            /\ todo \subseteq diff
            /\ syncing = "all" => \A c \in diff : c \in todo \/ Skipped(c)
            /\ syncing = "selected" => \A p \in selected :
                  SelectsItself(p, selected) => RightOrIn(p, todo) \/ Dotted(p)

SessionIInv == SessionTypeOK /\ SessionWrites /\ SessionIsRight

\* What a comparison of an undisturbed session's trees rests on.
LEMMA UndisturbedIs ==
    ASSUME SessionIInv, Undisturbed
    PROVE  orig \in Tree /\ iso \in Tree /\ shown \in Tree /\ Straight(orig, iso)
BY CopiesAreTrees, StraightStays
DEF SessionIInv, SessionTypeOK, SessionWrites, SessionIsRight, Undisturbed

\* Whatever a session does to a change, it leaves a tree.
LEMMA SessionLeavesTrees ==
    ASSUME SessionIInv, NEW c \in Change,
           NEW u \in SessionSyncChange(orig, c) \cup Spoiled(orig, c.path)
    PROVE  u \in Tree
<1>1. orig \in Tree /\ c.path \in Paths
  BY DEF SessionIInv, SessionTypeOK, Change
<1>2. ASSUME u \in MadeDir(orig, c.path) PROVE u \in Tree
  BY <1>1, <1>2 DEF MadeDir
<1>3. QED
  BY <1>1, <1>2, RemovedIs, CopiedIs, SpoiledIs DEF SessionSyncChange

\* What an undisturbed session writes of a change.
LEMMA SessionSyncs ==
    ASSUME SessionIInv, Undisturbed, ~Idle, NEW c \in todo, ~Skipped(c),
           NEW u \in SessionSyncChange(orig, c)
    PROVE  SyncsPath(orig, u, iso, c.path)
<1>1. orig \in Tree /\ iso \in Tree /\ Straight(orig, iso) /\ c \in DiffDirectories(orig, iso)
  BY UndisturbedIs DEF SessionIInv, SessionIsRight
<1>2. /\ c.path \in Paths
      /\ IF c.type = "deleted" THEN iso[c.path] = None /\ orig[c.path] # None
         ELSE iso[c.path] \in Files \cup {Dir}
      /\ iso[c.path] = Dir => orig[c.path] = None
  BY <1>1, DiffTells
<1>3. CASE c.type = "deleted"
  BY <1>1, <1>2, <1>3, RemovedSyncs DEF SessionSyncChange
<1>4. CASE c.type # "deleted" /\ iso[c.path] = Dir
  <2>1. u \in MadeDir(orig, c.path)
    BY <1>4 DEF SessionSyncChange
  <2>2. \A q \in Above(c.path) \cup {c.path} : orig[q] \notin Links
    BY <1>1, <1>2, <1>4, StraightIs, NodesDiffer
  <2>3. Entry(orig, c.path) = c.path /\ c.path # Elsewhere
    BY <1>2, <2>2, EntryIs, LinksLead
  <2>4. u = [orig EXCEPT ![c.path] = Dir] /\ u \in Tree
    BY <1>2, <1>4, <2>1, <2>3 DEF MadeDir
  <2>5. \A q \in Paths : u[q] = IF q = c.path THEN Dir ELSE orig[q]
    BY <1>1, <2>4, TreeIs
  <2>6. QED
    BY <1>2, <1>4, <2>4, <2>5, NodesDiffer DEF SyncsPath, Touches
<1>5. CASE c.type # "deleted" /\ iso[c.path] # Dir
  BY <1>1, <1>2, <1>5, CopiedSyncs DEF SessionSyncChange
<1>6. QED
  BY <1>3, <1>4, <1>5

\* What writing a change, in whole or in part, leaves true.
LEMMA SessionTouches ==
    ASSUME SessionIInv, Undisturbed, ~Idle, NEW c \in First(todo),
           NEW u, Touches(orig, u, iso, c.path),
           u[c.path] = iso[c.path] \/ \E e \in DiffDirectories(u, iso) : e.path = c.path,
           iso[c.path] = Dir => u[c.path] \in {None, Dir}
    PROVE  /\ u \in Tree /\ Straight(u, iso) /\ NoNewLinks(shown, u) /\ c.path \in Paths
           /\ \A p \in Paths : orig[p] = iso[p] => u[p] = iso[p]
           /\ \A d \in DiffDirectories(orig, iso) :
                 u[d.path] = iso[d.path] \/ \E e \in DiffDirectories(u, iso) : e.path = d.path
           /\ \A d \in todo \ {c} : d \in DiffDirectories(u, iso)
           /\ \A p \in Paths : u[p] # shown[p] => Reached(p)
<1>1. /\ orig \in Tree /\ iso \in Tree /\ Straight(orig, iso) /\ NoNewLinks(shown, orig)
      /\ todo \subseteq DiffDirectories(orig, iso)
      /\ \A p \in Paths : orig[p] # shown[p] => Reached(p)
  BY UndisturbedIs DEF SessionIInv, SessionIsRight
<1>2. c \in todo /\ c.path \in Paths /\ orig[c.path] # iso[c.path]
      /\ \A d \in todo \ {c} : ListedBefore(c, d)
  BY <1>1, DiffTells, DiffDiffers DEF First
<1>3. NoNewLinks(orig, u)
  BY <1>2, TouchesMakesNoLinks
<1>4. u \in Tree /\ Straight(u, iso) /\ NoNewLinks(shown, u)
  BY <1>1, <1>3, StraightStays DEF NoNewLinks, Touches
<1>5. \A p \in Paths : orig[p] = iso[p] => u[p] = iso[p]
  BY <1>2 DEF Touches
<1>6. ASSUME NEW d \in DiffDirectories(orig, iso), d.path # c.path, u[d.path] = orig[d.path]
      PROVE  d \in DiffDirectories(u, iso)
  <2>1. ASSUME c.path \in Above(d.path), iso[d.path] # None
        PROVE  u[c.path] \in {orig[c.path], iso[c.path]}
    <3>1. d.path \in Paths /\ iso[c.path] = Dir
      BY <1>1, <2>1, DiffTells, TreeIs
    <3>2. d.type # "deleted"
      BY <1>1, <2>1, DiffTells
    <3>3. orig[c.path] = None
      BY <1>1, <1>2, <3>1, DiffTells
    <3>4. QED
      BY <3>1, <3>3
  <2>2. QED
    BY <1>1, <1>2, <1>4, <1>6, <2>1, TouchedKeepsDiffering
<1>7. ASSUME NEW d \in DiffDirectories(orig, iso)
      PROVE  u[d.path] = iso[d.path] \/ \E e \in DiffDirectories(u, iso) : e.path = d.path
  <2>1. d.path \in Paths
    BY <1>1, DiffTells
  <2>2. CASE d.path = c.path
    BY <2>2
  <2>3. CASE d.path # c.path
    BY <1>6, <2>1, <2>3 DEF Touches
  <2>4. QED
    BY <2>2, <2>3
<1>8. ASSUME NEW d \in todo \ {c}
      PROVE  d \in DiffDirectories(u, iso)
  <2>1. d.path # c.path /\ u[d.path] = orig[d.path]
    BY <1>1, <1>2, DiffIsFunctional, PendingIsUntouched
  <2>2. QED
    BY <1>1, <1>6, <2>1
<1>9. ASSUME NEW p \in Paths, u[p] # shown[p]
      PROVE  Reached(p)
  <2>1. CASE orig[p] # shown[p]
    BY <1>1, <2>1
  <2>2. CASE orig[p] = shown[p]
    <3>1. c.path \in Below(p) \cup {p}
      BY <1>2, <1>9, <2>2, AboveIsApart DEF Touches
    <3>2. syncing \in {"all", "selected"}
      BY DEF Idle, SessionIInv, SessionTypeOK
    <3>3. QED
      BY <1>2, <3>1, <3>2 DEF Reached, SessionIInv, SessionWrites
  <2>3. QED
    BY <2>1, <2>2
<1>10. QED
  BY <1>2, <1>4, <1>5, <1>7, <1>8, <1>9

\* A session begins with nothing loaded, selected or applied.
LEMMA SessionInitIInv == SessionInit => SessionIInv
BY OriginalsAreTrees, CopiesAreTrees, AppliesAreBounded, UserIsBounded
DEF SessionInit, SessionIInv, SessionTypeOK, SessionWrites, SessionIsRight,
    Idle, RightOrIn, NoNewLinks, SelectsItself

\* The user's edits suspend what is said of an undisturbed session.
LEMMA SessionUserStep ==
    ASSUME SessionIInv, SessionUserEdits PROVE SessionIInv'
<1>1. orig' \in Tree /\ users' \in 0..MaxUser /\ users' # 0
  BY EditsAreTrees, UserIsBounded DEF SessionUserEdits, UserEdit, SessionIInv, SessionTypeOK
<1>2. QED
  BY <1>1 DEF SessionUserEdits, UserEdit, SessionIInv, SessionTypeOK, SessionWrites,
     SessionIsRight, Idle, Undisturbed

\* Loading selects what a comparison reports; toggling stays within it.
LEMMA SessionSelectSteps ==
    ASSUME SessionIInv, LoadChanges \/ TogglePath PROVE SessionIInv'
<1>1. UNCHANGED <<orig, shown, iso, syncing, todo, result, applied, asked, applies, users>> /\ Idle
  BY DEF LoadChanges, TogglePath
<1>2. CASE LoadChanges
  <2> DEFINE diff == DiffDirectories(orig, iso)
  <2>1. loaded' = {c.path : c \in diff} /\ selected' = selected \cup loaded'
    BY <1>2 DEF LoadChanges, PathsOf
  <2>2. loaded' \subseteq Paths /\ \A p \in loaded' : \E c \in diff : c.path = p
    BY <2>1, DiffIs DEF Change
  <2> HIDE DEF diff
  <2>3. SessionIsRight'
    BY <1>1, <2>1, <2>2 DEF SessionIInv, SessionIsRight, RightOrIn, Idle, diff, Undisturbed,
       Reached, Skipped
  <2>4. QED
    BY <1>1, <2>1, <2>2, <2>3 DEF SessionIInv, SessionTypeOK, SessionWrites, Idle
<1>3. CASE TogglePath
  <2>1. PICK p \in loaded : selected' = SymDiff(selected, {p})
    BY <1>3 DEF TogglePath, SymDiff
  <2>2. loaded' = loaded /\ selected' \subseteq loaded \cup selected
    BY <1>3, <2>1 DEF TogglePath, SymDiff
  <2>3. SessionIsRight'
    BY <1>1, <2>2 DEF SessionIInv, SessionIsRight, RightOrIn, Idle, Undisturbed, Reached, Skipped
  <2>4. QED
    BY <1>1, <2>2, <2>3 DEF SessionIInv, SessionTypeOK, SessionWrites, Idle
<1>4. QED
  BY <1>2, <1>3

\* An application begins with what a new comparison reports.
LEMMA SessionApplySteps ==
    ASSUME SessionIInv, ApplySelected \/ ApplyAll PROVE SessionIInv'
<1> DEFINE diff == DiffDirectories(orig, iso)
<1>1. /\ UNCHANGED <<orig, shown, iso, loaded, selected, result, applied, users>>
      /\ iso # Gone /\ Idle /\ applies' \in 0..MaxApplies
  BY AppliesAreBounded DEF ApplySelected, ApplyAll, SessionIInv, SessionTypeOK
<1>2. orig \in Tree /\ iso \in Tree /\ selected \subseteq Paths /\ asked \subseteq Paths
  BY <1>1, CopiesAreTrees DEF SessionIInv, SessionTypeOK, SessionWrites
<1>3. /\ todo' \subseteq diff /\ syncing' \in {"all", "selected"}
      /\ syncing' = "all" => todo' = diff /\ asked' = Paths
      /\ syncing' = "selected" =>
            /\ asked' = asked \cup selected
            /\ \A c \in diff : c \in todo' <=> MatchesAny(selected, c.path)
      /\ asked = Paths => asked' = Paths
      /\ asked \subseteq asked' /\ asked' \subseteq Paths
  BY <1>2 DEF ApplySelected, ApplyAll
<1>4. diff \subseteq Change /\ \A c \in diff : c.path \in Paths
  BY DiffIs DEF Change
<1>5. SessionWrites'
  BY <1>1, <1>2, <1>3 DEF SessionIInv, SessionWrites, Idle, MatchesAny
<1>6. SessionIsRight'
  <2>1. SUFFICES ASSUME Undisturbed
                 PROVE  /\ NoNewLinks(shown, orig)
                        /\ \A p \in loaded \cup selected : RightOrIn(p, diff)
                        /\ \A p \in applied : SelectsItself(p, applied) => orig[p] = iso[p] \/ Dotted(p)
                        /\ \A p \in Paths : orig[p] # shown[p] => Reached(p)'
                        /\ result = "all" => \A c \in diff : Skipped(c)
                        /\ syncing' = "selected" => \A p \in selected :
                              SelectsItself(p, selected) =>
                                 orig[p] = iso[p] \/ (\E c \in todo' : c.path = p) \/ Dotted(p)
    BY <1>1, <1>3 DEF SessionIsRight, RightOrIn, Undisturbed, Skipped
  <2>2. /\ NoNewLinks(shown, orig)
        /\ \A p \in loaded \cup selected : RightOrIn(p, diff)
        /\ \A p \in applied : SelectsItself(p, applied) => orig[p] = iso[p] \/ Dotted(p)
        /\ \A p \in Paths : orig[p] # shown[p] => Reached(p)
        /\ result = "all" => \A c \in diff : Skipped(c)
    BY <1>1, <2>1 DEF SessionIInv, SessionIsRight
  <2>3. ASSUME syncing' = "selected", NEW p \in selected, SelectsItself(p, selected),
               orig[p] # iso[p]
        PROVE  \E c \in todo' : c.path = p
    <3>1. PICK c \in diff : c.path = p
      BY <2>2, <2>3 DEF RightOrIn
    <3>2. MatchesAny(selected, c.path)
      BY <2>3, <3>1 DEF SelectsItself, MatchesAny
    <3>3. QED
      BY <1>3, <2>3, <3>1, <3>2
  <2>4. \A p \in Paths : Reached(p) => Reached(p)'
    BY <1>3 DEF Reached
  <2>5. QED
    BY <2>2, <2>3, <2>4
<1>7. SessionTypeOK'
  BY <1>1, <1>3, <1>4 DEF SessionIInv, SessionTypeOK
<1>8. QED
  BY <1>5, <1>6, <1>7 DEF SessionIInv

\* One more change is written, or passed over.
LEMMA SessionSyncStep ==
    ASSUME SessionIInv, SessionSyncNext PROVE SessionIInv'
<1> DEFINE diff == DiffDirectories(orig, iso)
           diff1 == DiffDirectories(orig', iso)
<1>1. PICK c \in First(todo) : orig' \in SessionSyncChange(orig, c) /\ todo' = todo \ {c}
  BY DEF SessionSyncNext
<1>2. /\ ~Idle
      /\ UNCHANGED <<shown, iso, loaded, selected, syncing, result, applied, asked, applies, users>>
  BY DEF SessionSyncNext
<1>3. c \in todo /\ todo \subseteq Change /\ c.path \in Paths
  BY <1>1, FirstIsListed DEF SessionIInv, SessionTypeOK, Change
<1>4. orig' \in Tree
  BY <1>1, <1>3, SessionLeavesTrees
<1>5. SessionTypeOK'
  BY <1>1, <1>2, <1>4 DEF SessionIInv, SessionTypeOK
<1>6. SessionWrites'
  BY <1>1, <1>2 DEF SessionIInv, SessionWrites, Idle
<1>7. ASSUME Undisturbed, Skipped(c)
      PROVE  SessionIsRight'
  <2>1. orig' = orig
    BY <1>1, <1>7 DEF SessionSyncChange
  <2>2. Dotted(c.path)
    <3>1. c.type # "deleted" => iso[c.path] \notin Links
      BY <1>3, <1>7, UndisturbedIs, StraightIs
    <3>2. QED
      BY <1>7, <3>1 DEF Skipped
  <2>3. SessionIsRight /\ Undisturbed'
    BY <1>2, <1>7 DEF SessionIInv, Undisturbed
  <2>4. QED
    BY <1>1, <1>2, <1>7, <2>1, <2>2, <2>3 DEF SessionIsRight, RightOrIn, Reached, Skipped
<1>8. ASSUME Undisturbed, ~Skipped(c)
      PROVE  SessionIsRight'
  <2>1. /\ NoNewLinks(shown, orig)
        /\ \A p \in loaded \cup selected : RightOrIn(p, diff)
        /\ \A p \in applied : SelectsItself(p, applied) => orig[p] = iso[p] \/ Dotted(p)
        /\ result = "all" => \A d \in diff : Skipped(d)
        /\ todo \subseteq diff
        /\ syncing = "all" => \A d \in diff : d \in todo \/ Skipped(d)
        /\ syncing = "selected" => \A p \in selected :
              SelectsItself(p, selected) => RightOrIn(p, todo) \/ Dotted(p)
    BY <1>8 DEF SessionIInv, SessionIsRight
  <2>2. SyncsPath(orig, orig', iso, c.path)
    BY <1>1, <1>2, <1>3, <1>8, SessionSyncs
  <2>3. orig'[c.path] = iso[c.path] /\ Touches(orig, orig', iso, c.path)
    BY <2>2 DEF SyncsPath
  <2>4. /\ orig' \in Tree /\ Straight(orig', iso) /\ NoNewLinks(shown, orig')
        /\ \A p \in Paths : orig[p] = iso[p] => orig'[p] = iso[p]
        /\ \A d \in diff : orig'[d.path] = iso[d.path] \/ \E e \in diff1 : e.path = d.path
        /\ \A d \in todo \ {c} : d \in diff1
        /\ \A p \in Paths : orig'[p] # shown[p] => Reached(p)
    BY <1>1, <1>2, <1>8, <2>3, SessionTouches
  <2>5. diff1 \subseteq diff
    BY <1>3, <1>8, <2>2, <2>4, UndisturbedIs, SyncsNear, NearerDiffersLess
  <2>6. c \notin diff1
    BY <1>8, <2>3, <2>4, UndisturbedIs, DiffDiffers
  <2>7. loaded \cup selected \subseteq Paths /\ applied \subseteq Paths
    BY DEF SessionIInv, SessionTypeOK
  <2> HIDE DEF diff, diff1
  <2>8. \A p \in loaded \cup selected : orig'[p] = iso[p] \/ \E d \in diff1 : d.path = p
    BY <2>1, <2>4, <2>7 DEF RightOrIn
  <2>9. \A p \in applied : SelectsItself(p, applied) => orig'[p] = iso[p] \/ Dotted(p)
    BY <2>1, <2>4, <2>7
  <2>10. /\ result = "all" => \A d \in diff1 : Skipped(d)
         /\ todo' \subseteq diff1
         /\ syncing = "all" => \A d \in diff1 : d \in todo' \/ Skipped(d)
    BY <1>1, <2>1, <2>4, <2>5, <2>6
  <2>11. syncing = "selected" => \A p \in selected : SelectsItself(p, selected) =>
            orig'[p] = iso[p] \/ (\E d \in todo' : d.path = p) \/ Dotted(p)
    BY <1>1, <2>1, <2>3, <2>4, <2>7 DEF RightOrIn
  <2>12. DiffDirectories(orig, iso)' = diff1
    BY <1>2 DEF diff1
  <2>13. QED
    BY <1>2, <2>4, <2>8, <2>9, <2>10, <2>11, <2>12 DEF SessionIsRight, RightOrIn, Reached, Skipped
<1>9. ~Undisturbed => SessionIsRight'
  BY <1>2 DEF SessionIsRight, Undisturbed
<1>10. QED
  BY <1>5, <1>6, <1>7, <1>8, <1>9 DEF SessionIInv

\* A write fails, and may have left half of it.
LEMMA SessionFailStep ==
    ASSUME SessionIInv, SessionSyncFails PROVE SessionIInv'
<1> DEFINE diff1 == DiffDirectories(orig', iso)
<1>1. PICK c \in First(todo) :
          /\ ~Skipped(c)
          /\ orig' \in IF c.type = "deleted" \/ iso[c.path] = Dir
                       THEN {orig} ELSE Spoiled(orig, c.path)
  BY DEF SessionSyncFails
<1>2. /\ ~Idle /\ todo' = {} /\ syncing' = "no"
      /\ UNCHANGED <<shown, iso, loaded, selected, result, applied, asked, applies, users>>
  BY DEF SessionSyncFails
<1>3. c \in todo /\ c \in Change
  BY <1>1, FirstIsListed DEF SessionIInv, SessionTypeOK
<1>4. orig' \in Tree
  BY <1>1, <1>3, SessionLeavesTrees DEF SessionIInv, SessionTypeOK
<1>5. SessionTypeOK' /\ SessionWrites'
  BY <1>2, <1>4 DEF SessionIInv, SessionTypeOK, SessionWrites, Idle
<1>6. ASSUME Undisturbed
      PROVE  SessionIsRight'
  <2>1. SessionIsRight /\ Undisturbed'
    BY <1>2, <1>6 DEF SessionIInv, Undisturbed
  <2>2. CASE orig' = orig
    BY <1>2, <1>6, <2>1, <2>2 DEF SessionIsRight, RightOrIn, Reached, Skipped
  <2>3. CASE orig' # orig
    <3>1. c.type # "deleted" /\ iso[c.path] # Dir /\ orig' \in Spoiled(orig, c.path)
      BY <1>1, <2>3
    <3>2. /\ orig \in Tree /\ iso \in Tree /\ Straight(orig, iso)
          /\ todo \subseteq DiffDirectories(orig, iso)
      BY <1>6, UndisturbedIs DEF SessionIInv, SessionIsRight
    <3>3. c \in DiffDirectories(orig, iso) /\ c.path \in Paths /\ iso[c.path] \in Files
          /\ iso[c.path] # None
      BY <1>3, <3>1, <3>2, DiffTells, NodesDiffer DEF Files
    <3>4. Touches(orig, orig', iso, c.path)
      BY <3>1, <3>2, <3>3, SpoiledTouches
    <3>5. orig'[c.path] = iso[c.path] \/ \E e \in diff1 : e.path = c.path
      BY <3>1, <3>2, <3>3, SpoiledIsReported
    <3>6. /\ NoNewLinks(shown, orig')
          /\ \A p \in Paths : orig[p] = iso[p] => orig'[p] = iso[p]
          /\ \A d \in DiffDirectories(orig, iso) :
                orig'[d.path] = iso[d.path] \/ \E e \in diff1 : e.path = d.path
          /\ \A p \in Paths : orig'[p] # shown[p] => Reached(p)
      BY <1>1, <1>2, <1>6, <3>1, <3>4, <3>5, SessionTouches
    <3>7. result # "all"
      BY <1>1, <1>6, <2>1, <3>3 DEF SessionIsRight
    <3>8. loaded \cup selected \subseteq Paths /\ applied \subseteq Paths
      BY DEF SessionIInv, SessionTypeOK
    <3>9. DiffDirectories(orig, iso)' = diff1
      BY <1>2
    <3> HIDE DEF diff1
    <3>10. \A p \in loaded \cup selected : orig'[p] = iso[p] \/ \E d \in diff1 : d.path = p
      BY <1>6, <2>1, <3>6, <3>8 DEF SessionIsRight, RightOrIn
    <3>11. \A p \in applied : SelectsItself(p, applied) => orig'[p] = iso[p] \/ Dotted(p)
      BY <1>6, <2>1, <3>6, <3>8 DEF SessionIsRight
    <3>12. QED
      BY <1>2, <3>6, <3>7, <3>9, <3>10, <3>11 DEF SessionIsRight, RightOrIn, Reached
  <2>4. QED
    BY <2>2, <2>3
<1>7. ~Undisturbed => SessionIsRight'
  BY <1>2 DEF SessionIsRight, Undisturbed
<1>8. QED
  BY <1>5, <1>6, <1>7 DEF SessionIInv

\* An application ends, with all written.
LEMMA SessionEndStep ==
    ASSUME SessionIInv, SessionSyncEnds PROVE SessionIInv'
<1>1. /\ ~Idle /\ UNCHANGED <<orig, shown, iso, loaded, selected, asked, applies, users>>
      /\ todo = {} /\ todo' = {} /\ syncing' = "no" /\ result' = syncing
      /\ syncing \in {"all", "selected"}
      /\ applied' = IF syncing = "selected" THEN selected ELSE applied
  BY DEF SessionSyncEnds, Idle, SessionIInv, SessionTypeOK
<1>2. SessionTypeOK' /\ SessionWrites'
  BY <1>1 DEF SessionIInv, SessionTypeOK, SessionWrites, Idle
<1>3. SessionIsRight'
  BY <1>1 DEF SessionIInv, SessionIsRight, RightOrIn, Undisturbed, Reached, Skipped
<1>4. QED
  BY <1>2, <1>3 DEF SessionIInv

\* The session may be closed, and its copy removed.
LEMMA SessionOtherSteps ==
    ASSUME SessionIInv, ApplyNone \/ Discard \/ Preserve PROVE SessionIInv'
<1>1. UNCHANGED <<orig, shown, loaded, selected, syncing, todo, applied, asked, applies, users>>
      /\ iso' \in {iso, Gone} /\ Idle /\ result' \in {"discarded", "preserved"}
  BY DEF ApplyNone, Discard, Preserve
<1>2. todo = {}
  BY <1>1 DEF SessionIInv, SessionWrites
<1>3. CASE iso' = iso
  BY <1>1, <1>2, <1>3 DEF SessionIInv, SessionTypeOK, SessionWrites, SessionIsRight, Idle,
     RightOrIn, Undisturbed, Reached
<1>4. CASE iso' = Gone
  BY <1>1, <1>2, <1>4 DEF SessionIInv, SessionTypeOK, SessionWrites, SessionIsRight, Idle,
     Undisturbed
<1>5. QED
  BY <1>1, <1>3, <1>4

\* Every step of a session keeps its invariant.
LEMMA SessionStep ==
    SessionIInv /\ [SessionNext]_sessionVars => SessionIInv'
<1> SUFFICES ASSUME SessionIInv, [SessionNext]_sessionVars
             PROVE  SessionIInv'
  OBVIOUS
<1>1. CASE UNCHANGED sessionVars
  BY <1>1 DEF sessionVars, SessionIInv, SessionTypeOK, SessionWrites, SessionIsRight,
     Idle, RightOrIn, Undisturbed, Reached, Skipped
<1>2. QED
  BY <1>1, SessionUserStep, SessionSelectSteps, SessionApplySteps, SessionSyncStep,
     SessionFailStep, SessionEndStep, SessionOtherSteps DEF SessionNext

\* The invariant of the session holds in every reachable state.
LEMMA SessionInvariant == SessionSpec => []SessionIInv
<1>1. SessionInit => SessionIInv
  BY SessionInitIInv
<1>2. SessionIInv /\ [SessionNext]_sessionVars => SessionIInv'
  BY SessionStep
<1>3. QED
  BY <1>1, <1>2, PTL DEF SessionSpec

\* The types of a session hold in every reachable state.
THEOREM SessionTypesAreKept == SessionSpec => []SessionTypeOK
<1>1. SessionIInv => SessionTypeOK
  BY DEF SessionIInv
<1>2. QED
  BY <1>1, SessionInvariant, PTL

\* An application of a session, too, always knows the change it writes next, of
\* all the changes or of those that were selected (workspace.go, syncChanges).
THEOREM OneSessionWriteIsNext ==
    SessionSpec => [](~Idle /\ todo # {} => \E c \in todo : First(todo) = {c})
<1>1. ASSUME SessionIInv, ~Idle, todo # {}
      PROVE  \E c \in todo : First(todo) = {c}
  <2>1. PICK o \in Tree : todo \subseteq DiffDirectories(o, iso)
    BY <1>1 DEF SessionIInv, SessionWrites
  <2>2. QED
    BY <1>1, <2>1, OneIsFirst
<1>2. QED
  BY <1>1, SessionInvariant, PTL

\* After ApplyAll a comparison finds nothing left but what the writer passes over,
\* whatever was applied before and after, in whole or in part.
THEOREM AllIsApplied == SessionSpec => []AppliedLeavesNoChanges
<1>1. SessionIInv => AppliedLeavesNoChanges
  BY DEF SessionIInv, SessionIsRight, AppliedLeavesNoChanges
<1>2. QED
  BY <1>1, SessionInvariant, PTL

\* What was selected when ApplySelected succeeded and matches itself is, and stays,
\* as the command left it, and only what was asked for was written.
THEOREM SelectionIsApplied == SessionSpec => []SelectedAreApplied
<1>1. SessionIInv => SelectedAreApplied
  BY DEF SessionIInv, SessionIsRight, SelectedAreApplied, Reached
<1>2. QED
  BY <1>1, SessionInvariant, PTL

=============================================================================
