-------------------------- MODULE EditGuards_proofs --------------------------
(***************************************************************************)
(* Proofs about EditGuards, for every set of calls, trees and files.       *)
(***************************************************************************)
EXTENDS EditGuards, SequenceTheorems, TLAPS

\* Overlap does not depend on the order the two trees are named in.
LEMMA OverlapSymmetric ==
    \A a, b : TreesOverlap(a, b) <=> TreesOverlap(b, a)
BY DEF TreesOverlap

\* Two calls that edit one file are on overlapping trees.
LEMMA SharedTargetsOverlap ==
    ASSUME NEW c \in Calls, NEW d \in Calls,
           NEW i \in 1..Len(Targets[c]), NEW j \in 1..Len(Targets[d]),
           Targets[c][i] = Targets[d][j]
    PROVE  TreesOverlap(Identity[c], Identity[d])
<1>1. CASE Identity[c] = Unknown \/ Identity[d] = Unknown
  BY <1>1 DEF TreesOverlap
<1>2. CASE Identity[c] # Unknown /\ Identity[d] # Unknown
  <2>1. Identity[c] \in Trees /\ Identity[d] \in Trees
    BY <1>2, CallsAssumption DEF Keys
  <2>2. Targets[c][i] \in FilesUnder[Identity[c]] \cap FilesUnder[Identity[d]]
    BY <1>2, TargetsAreInTree
  <2>3. QED
    BY <2>1, <2>2, SharedFilesAreNested DEF TreesOverlap
<1>3. QED
  BY <1>1, <1>2

-----------------------------------------------------------------------------
\* What a call has read is still what the file holds when it writes.
SnapIsCurrent ==
    \A c \in Calls : pc[c] = "write" => snap[c] = content[Target(c)]

\* Only a call that has ended its edit has a result.  A broken file is the one its
\* call is at; until the call releases the guard
\* the rest of the file is part of what the call was writing.
TornIsOwn ==
    \A c \in Calls :
        /\ pc[c] = "fill" => torn[c] # {}
        /\ pc[c] \in {"start", "asleep", "woken", "read", "write", "fill"} => result[c] = "pending"
        /\ torn[c] # {} =>
              /\ c \in InPlace /\ torn[c] = {Target(c)}
              /\ pc[c] \in {"fill", "release", "broadcast", "done"}
              /\ pc[c] # "fill" => result[c] = "failed"
              /\ pc[c] \in {"fill", "release"} => content[Target(c)] \subseteq snap[c] \cup {c}

\* What was published is in the file, or was before the call that has the file
\* broken began, or is missing since a write that failed.
EditsAreKept ==
    \A c \in Calls : \A f \in wrote[c] :
        c \in Before(f) \/ \E d \in InPlace : f \in torn[d] /\ result[d] = "failed"

IInv ==
    /\ TypeOK
    /\ HeldIsInFlight
    /\ OverlappingEditsTakeTurns
    /\ SnapIsCurrent
    /\ TornIsOwn
    /\ EditsAreKept

\* A call that is editing has its key in the map.
LEMMA EditorHolds ==
    ASSUME HeldIsInFlight, NEW c \in Calls, pc[c] \in Editing
    PROVE  Identity[c] \in held
BY DEF HeldIsInFlight

\* The file a call is at is one of its targets.
LEMMA TargetIsFile ==
    ASSUME TypeOK, NEW c \in Calls
    PROVE  /\ Target(c) \in Files
           /\ step[c] \in 1..Len(Targets[c])
           /\ Len(Targets[c]) \in Nat
<1>1. Targets[c] \in Seq(Files) /\ step[c] \in 1..Len(Targets[c])
  BY CallsAssumption DEF TypeOK
<1>2. QED
  BY <1>1 DEF Target

\* The initial states satisfy the invariant.
LEMMA InitIInv == Init => IInv
<1> SUFFICES ASSUME Init PROVE IInv
  OBVIOUS
<1>1. TypeOK
  <2>1. \A c \in Calls : Targets[c] \in Seq(Files) /\ Targets[c] # <<>>
    BY CallsAssumption
  <2>2. ASSUME NEW c \in Calls PROVE 1 \in 1..Len(Targets[c])
    <3>1. Len(Targets[c]) \in Nat \ {0}
      BY <2>1, EmptySeq
    <3>2. QED
      BY <3>1
  <2>3. QED
    BY <2>2 DEF Init, TypeOK
<1>2. HeldIsInFlight
  BY DEF Init, HeldIsInFlight, Editing
<1>3. QED
  BY <1>1, <1>2
  DEF Init, IInv, OverlappingEditsTakeTurns, SnapIsCurrent, TornIsOwn, EditsAreKept, Editing

\* Every step preserves the types.
LEMMA TypePreserved == TypeOK /\ [Next]_vars => TypeOK'
<1> SUFFICES ASSUME TypeOK, [Next]_vars PROVE TypeOK'
  OBVIOUS
<1> USE DEF TypeOK
<1>1. ASSUME NEW c \in Calls, Reject(c) PROVE TypeOK'
  BY <1>1 DEF Reject, Goto
<1>2. ASSUME NEW c \in Calls, Wait(c) PROVE TypeOK'
  BY <1>2 DEF Wait, Goto
<1>3. ASSUME NEW c \in Calls, Claim(c) PROVE TypeOK'
  BY <1>3, CallsAssumption DEF Claim, Goto, Editing
<1>4. ASSUME NEW c \in Calls, Read(c) PROVE TypeOK'
  BY <1>4, TargetIsFile DEF Read, Goto, Editing
<1>5. ASSUME NEW c \in Calls, Write(c) PROVE TypeOK'
  <2>1. Target(c) \in Files /\ step[c] \in 1..Len(Targets[c]) /\ Len(Targets[c]) \in Nat
    BY TargetIsFile
  <2>2. /\ content' \in [Files -> SUBSET Calls] /\ wrote' \in [Calls -> SUBSET Files]
        /\ torn' \in [Calls -> SUBSET Files]
    BY <1>5, <2>1 DEF Write
  <2>3. /\ step' \in [Calls -> Nat]
        /\ \A d \in Calls : step'[d] \in 1..Len(Targets[d])
    <3>1. CASE step[c] < Len(Targets[c])
      <4>1. step' = [step EXCEPT ![c] = @ + 1]
        BY <1>5, <3>1 DEF Write
      <4>2. step[c] + 1 \in 1..Len(Targets[c])
        BY <2>1, <3>1
      <4>3. QED
        BY <4>1, <4>2
    <3>2. CASE ~(step[c] < Len(Targets[c]))
      BY <1>5, <3>2 DEF Write
    <3>3. QED
      BY <3>1, <3>2
  <2>4. /\ pc' = [pc EXCEPT ![c] = "read"] \/ pc' = [pc EXCEPT ![c] = "release"]
        /\ result' = result \/ result' = [result EXCEPT ![c] = "ok"]
        /\ held' = held /\ snap' = snap
    BY <1>5 DEF Write, Goto
  <2>5. QED
    BY <2>2, <2>3, <2>4 DEF Editing
<1>6. ASSUME NEW c \in Calls, LeaveAlone(c) PROVE TypeOK'
  BY <1>6 DEF LeaveAlone, Goto, Editing
<1>7. ASSUME NEW c \in Calls, Fail(c) PROVE TypeOK'
  BY <1>7 DEF Fail, Goto, Editing
<1>11. ASSUME NEW c \in Calls, Truncate(c) PROVE TypeOK'
  BY <1>11, TargetIsFile DEF Truncate, Goto, Editing
<1>12. ASSUME NEW c \in Calls, Tear(c) PROVE TypeOK'
  <2>1. PICK rest \in SUBSET (snap[c] \cup {c}) : content' = [content EXCEPT ![Target(c)] = rest]
    BY <1>12 DEF Tear
  <2>2. content' \in [Files -> SUBSET Calls]
    BY <2>1
  <2>3. QED
    BY <1>12, <2>2 DEF Tear, Goto, Editing
<1>8. ASSUME NEW c \in Calls, Release(c) PROVE TypeOK'
  BY <1>8 DEF Release, Goto
<1>9. ASSUME NEW c \in Calls, Broadcast(c) PROVE TypeOK'
  BY <1>9 DEF Broadcast, Editing
<1>10. CASE UNCHANGED vars
  BY <1>10 DEF vars
<1>13. QED
  BY <1>1, <1>2, <1>3, <1>4, <1>5, <1>6, <1>7, <1>8, <1>9, <1>10, <1>11, <1>12
  DEF Next, Guarding, FileIO, Finished

\* The state is well typed in every reachable state of every instance.
THEOREM TypeCorrect == Spec => []TypeOK
<1>1. Init => TypeOK
  BY InitIInv DEF IInv
<1>2. QED
  BY <1>1, TypePreserved, PTL DEF Spec

-----------------------------------------------------------------------------
\* A claim is granted only to a call that overlaps no editing call.
LEMMA ClaimIsApart ==
    ASSUME HeldIsInFlight, NEW c \in Calls, Claim(c),
           NEW d \in Calls, pc[d] \in Editing
    PROVE  ~TreesOverlap(Identity[c], Identity[d])
<1>1. Identity[d] \in held
  BY EditorHolds
<1>2. ~TreesOverlap(Identity[d], Identity[c])
  BY <1>1 DEF Claim, OverlapsHeld
<1>3. QED
  BY <1>2, OverlapSymmetric

\* Overlapping edits go on taking turns: only Claim starts an edit.
LEMMA TurnsPreserved ==
    TypeOK /\ HeldIsInFlight /\ OverlappingEditsTakeTurns /\ [Next]_vars
        => OverlappingEditsTakeTurns'
<1> SUFFICES ASSUME TypeOK, HeldIsInFlight, OverlappingEditsTakeTurns, [Next]_vars,
                    NEW c \in Calls, NEW d \in Calls, c # d,
                    pc'[c] \in Editing, pc'[d] \in Editing
             PROVE  ~TreesOverlap(Identity[c], Identity[d])
  BY DEF OverlappingEditsTakeTurns
<1>1. CASE pc[c] \in Editing /\ pc[d] \in Editing
  BY <1>1 DEF OverlappingEditsTakeTurns
<1>2. ASSUME NEW e \in Calls, pc[e] \notin Editing, pc'[e] \in Editing
      PROVE  Claim(e) /\ (\A f \in Calls : f # e => pc'[f] = pc[f])
  BY <1>2 DEF TypeOK, Next, Guarding, FileIO, Finished, vars, Reject, Wait, Claim,
    Read, Truncate, Publishes, Write, LeaveAlone, Fail, Tear, Release, Broadcast, Goto, Editing
<1>3. CASE pc[c] \notin Editing
  <2>1. Claim(c) /\ pc[d] \in Editing
    BY <1>2, <1>3
  <2>2. QED
    BY <2>1, ClaimIsApart
<1>4. CASE pc[d] \notin Editing
  <2>1. Claim(d) /\ pc[c] \in Editing
    BY <1>2, <1>4
  <2>2. QED
    BY <2>1, ClaimIsApart, OverlapSymmetric
<1>5. QED
  BY <1>1, <1>3, <1>4

\* The map and the edits in flight change together.
LEMMA HeldPreserved ==
    TypeOK /\ HeldIsInFlight /\ OverlappingEditsTakeTurns /\ [Next]_vars
        => HeldIsInFlight'
<1> SUFFICES ASSUME TypeOK, HeldIsInFlight, OverlappingEditsTakeTurns, [Next]_vars
             PROVE  HeldIsInFlight'
  OBVIOUS
<1> DEFINE Keyed == {Identity[c] : c \in {d \in Calls : pc[d] \in Editing}}
<1>1. OverlappingEditsTakeTurns'
  BY TurnsPreserved
<1>2. \A c, d \in Calls :
          /\ pc'[c] \in Editing /\ pc'[d] \in Editing
          /\ Identity[c] = Identity[d]
          => c = d
  BY <1>1 DEF OverlappingEditsTakeTurns, TreesOverlap
<1>3. held = Keyed
  BY DEF HeldIsInFlight
<1>4. ASSUME NEW c \in Calls, Claim(c) PROVE held' = Keyed'
  <2>1. held' = held \cup {Identity[c]}
    BY <1>4 DEF Claim
  <2>2. \A d \in Calls : pc'[d] \in Editing <=> pc[d] \in Editing \/ d = c
    BY <1>4 DEF Claim, Goto, TypeOK, Editing
  <2>3. QED
    BY <1>3, <2>1, <2>2
<1>5. ASSUME NEW c \in Calls, Release(c) PROVE held' = Keyed'
  <2>1. held' = held \ {Identity[c]} /\ pc[c] \in Editing
    BY <1>5 DEF Release, Editing
  <2>2. \A d \in Calls : pc'[d] \in Editing <=> pc[d] \in Editing /\ d # c
    BY <1>5 DEF Release, Goto, TypeOK, Editing
  <2>3. \A d \in Calls : pc[d] \in Editing /\ d # c => Identity[d] # Identity[c]
    BY <2>1 DEF HeldIsInFlight
  <2>4. QED
    BY <1>3, <2>1, <2>2, <2>3
<1>6. ASSUME held' = held, \A d \in Calls : pc'[d] \in Editing <=> pc[d] \in Editing
      PROVE  held' = Keyed'
  BY <1>3, <1>6
<1>7. ASSUME NEW c \in Calls,
             \/ Reject(c) \/ Wait(c) \/ Read(c) \/ Truncate(c) \/ Write(c)
             \/ LeaveAlone(c) \/ Fail(c) \/ Tear(c) \/ Broadcast(c)
      PROVE  held' = Keyed'
  <2>1. held' = held
    BY <1>7 DEF Reject, Wait, Read, Truncate, Write, LeaveAlone, Fail, Tear, Broadcast
  <2>2. \A d \in Calls : pc'[d] \in Editing <=> pc[d] \in Editing
    BY <1>7 DEF Reject, Wait, Read, Truncate, Publishes, Write, LeaveAlone, Fail, Tear,
      Broadcast, Goto, TypeOK, Editing
  <2>3. QED
    BY <2>1, <2>2, <1>6
<1>8. ASSUME UNCHANGED vars PROVE held' = Keyed'
  <2>1. held' = held /\ \A d \in Calls : pc'[d] \in Editing <=> pc[d] \in Editing
    BY <1>8 DEF vars
  <2>2. QED
    BY <2>1, <1>6
<1> HIDE DEF Keyed
<1>9. held' = Keyed'
  <2>1. CASE \E c \in Calls : Guarding(c)
    BY <2>1, <1>4, <1>5, <1>7 DEF Guarding
  <2>2. CASE \E c \in Calls : FileIO(c)
    BY <2>2, <1>7 DEF FileIO
  <2>3. CASE UNCHANGED vars
    BY <2>3, <1>8
  <2>4. QED
    BY <2>1, <2>2, <2>3 DEF Next, Finished
<1> USE DEF Keyed
<1>10. QED
  BY <1>2, <1>9 DEF HeldIsInFlight

\* Two calls that edit are at different files.
LEMMA EditorsAreApart ==
    ASSUME TypeOK, OverlappingEditsTakeTurns, NEW c \in Calls, NEW d \in Calls, c # d,
           pc[c] \in Editing, pc[d] \in Editing,
           NEW i \in 1..Len(Targets[c])
    PROVE  Targets[c][i] # Target(d)
<1>1. ~TreesOverlap(Identity[c], Identity[d])
  BY DEF OverlappingEditsTakeTurns
<1>2. QED
  BY <1>1, SharedTargetsOverlap, TargetIsFile DEF Target

\* The steps that write a file write the one their call is at.
LEMMA WritersWriteTheirs ==
    ASSUME TypeOK, OverlappingEditsTakeTurns, [Next]_vars, NEW c \in Calls, pc[c] \in Editing,
           ~Truncate(c), ~Write(c), ~Tear(c)
    PROVE  content'[Target(c)] = content[Target(c)]
<1>1. ASSUME NEW d \in Calls, Truncate(d) \/ Write(d) \/ Tear(d)
      PROVE  content'[Target(c)] = content[Target(c)]
  <2>1. d # c /\ pc[d] \in Editing
    BY <1>1 DEF Truncate, Write, Publishes, Tear, Editing
  <2>2. Target(c) # Target(d)
    BY <2>1, EditorsAreApart, TargetIsFile DEF Target
  <2>3. \A f \in Files : f # Target(d) => content'[f] = content[f]
    BY <1>1 DEF Truncate, Write, Tear, TypeOK
  <2>4. QED
    BY <2>2, <2>3, TargetIsFile
<1>2. CASE \A d \in Calls : ~Truncate(d) /\ ~Write(d) /\ ~Tear(d)
  BY <1>2 DEF Next, Guarding, FileIO, Finished, vars, Reject, Wait, Claim, Read,
    LeaveAlone, Fail, Release, Broadcast
<1>3. QED
  BY <1>1, <1>2

\* What is said of one call is disturbed only by its own steps.
LEMMA OthersKeep ==
    ASSUME TypeOK, [Next]_vars, NEW c \in Calls, ~Guarding(c), ~FileIO(c)
    PROVE  /\ step'[c] = step[c] /\ snap'[c] = snap[c] /\ wrote'[c] = wrote[c]
           /\ torn'[c] = torn[c] /\ result'[c] = result[c]
           /\ pc'[c] = pc[c] \/ (pc[c] = "asleep" /\ pc'[c] = "woken")
<1>1. ASSUME NEW d \in Calls, d # c, Guarding(d)
      PROVE  /\ step'[c] = step[c] /\ snap'[c] = snap[c] /\ wrote'[c] = wrote[c]
             /\ torn'[c] = torn[c] /\ result'[c] = result[c]
             /\ pc'[c] = pc[c] \/ (pc[c] = "asleep" /\ pc'[c] = "woken")
  BY <1>1 DEF TypeOK, Guarding, Reject, Wait, Claim, Release, Broadcast, Goto
<1>2. ASSUME NEW d \in Calls, d # c, Write(d)
      PROVE  /\ step'[c] = step[c] /\ snap'[c] = snap[c] /\ wrote'[c] = wrote[c]
             /\ torn'[c] = torn[c] /\ result'[c] = result[c] /\ pc'[c] = pc[c]
  BY <1>2 DEF TypeOK, Write, Goto
<1>3. ASSUME NEW d \in Calls, d # c, FileIO(d), ~Write(d)
      PROVE  /\ step'[c] = step[c] /\ snap'[c] = snap[c] /\ wrote'[c] = wrote[c]
             /\ torn'[c] = torn[c] /\ result'[c] = result[c] /\ pc'[c] = pc[c]
  BY <1>3 DEF TypeOK, FileIO, Read, Truncate, LeaveAlone, Fail, Tear, Goto
<1>4. CASE UNCHANGED vars
  BY <1>4 DEF vars
<1>5. QED
  BY <1>1, <1>2, <1>3, <1>4 DEF Next, Finished

\* Nobody else writes a file between a call's read and its write.
LEMMA SnapPreserved ==
    TypeOK /\ OverlappingEditsTakeTurns /\ SnapIsCurrent /\ [Next]_vars
        => SnapIsCurrent'
<1> SUFFICES ASSUME TypeOK, OverlappingEditsTakeTurns, SnapIsCurrent, [Next]_vars,
                    NEW c \in Calls, pc'[c] = "write"
             PROVE  snap'[c] = content'[Targets[c][step'[c]]]
  BY DEF SnapIsCurrent, Target
<1>1. CASE Read(c)
  BY <1>1 DEF Read, Goto, Target, TypeOK
<1>2. CASE ~Read(c)
  <2>1. ~Guarding(c) /\ ~FileIO(c)
    BY <1>2 DEF TypeOK, Guarding, FileIO, Reject, Wait, Claim, Truncate, Write, LeaveAlone,
      Fail, Tear, Release, Broadcast, Goto
  <2>2. pc[c] = "write" /\ step'[c] = step[c] /\ snap'[c] = snap[c]
    BY <2>1, OthersKeep
  <2>3. content'[Target(c)] = content[Target(c)]
    BY <2>1, <2>2, WritersWriteTheirs DEF Editing, FileIO
  <2>4. QED
    BY <2>2, <2>3 DEF SnapIsCurrent, Target
<1>3. QED
  BY <1>1, <1>2

\* A call breaks no file but the one it is at, and says so.
LEMMA TornPreserved ==
    TypeOK /\ OverlappingEditsTakeTurns /\ SnapIsCurrent /\ TornIsOwn /\ [Next]_vars => TornIsOwn'
<1> SUFFICES ASSUME TypeOK, OverlappingEditsTakeTurns, SnapIsCurrent, TornIsOwn, [Next]_vars
             PROVE  TornIsOwn'
  OBVIOUS
<1> DEFINE
      Early(c) == pc[c] \in {"start", "asleep", "woken", "read", "write", "fill"}
      Own(c) ==
        /\ pc[c] = "fill" => torn[c] # {}
        /\ Early(c) => result[c] = "pending"
        /\ torn[c] # {} =>
              /\ c \in InPlace /\ torn[c] = {Target(c)}
              /\ pc[c] \in {"fill", "release", "broadcast", "done"}
              /\ pc[c] # "fill" => result[c] = "failed"
              /\ pc[c] \in {"fill", "release"} => content[Target(c)] \subseteq snap[c] \cup {c}
<1>1. SUFFICES ASSUME NEW c \in Calls
               PROVE  Own(c)'
  BY DEF TornIsOwn
<1>2. Own(c)
  BY DEF TornIsOwn
<1>3. CASE Reject(c) \/ Wait(c) \/ Claim(c) \/ Read(c) \/ LeaveAlone(c) \/ Fail(c)
  <2>1. torn' = torn /\ torn[c] = {} /\ pc'[c] # "fill"
    BY <1>2, <1>3 DEF Reject, Wait, Claim, Read, LeaveAlone, Fail, Goto, TypeOK
  <2>2. Early(c)' => result'[c] = "pending"
    BY <1>2, <1>3 DEF Reject, Wait, Claim, Read, LeaveAlone, Fail, Goto, TypeOK
  <2>3. QED
    BY <2>1, <2>2
<1>4. CASE Truncate(c)
  <2>1. /\ pc'[c] = "fill" /\ torn'[c] = {Target(c)} /\ c \in InPlace /\ step' = step
        /\ result'[c] = result[c] /\ snap' = snap /\ pc[c] = "write"
    BY <1>4 DEF Truncate, Goto, TypeOK
  <2>2. content'[Target(c)] = {}
    BY <1>4, TargetIsFile DEF Truncate, TypeOK
  <2>3. QED
    BY <1>2, <2>1, <2>2 DEF Target
<1>5. CASE Write(c)
  <2>1. torn'[c] = {} /\ pc'[c] # "fill" /\ (pc'[c] = "read" => result'[c] = result[c])
        /\ pc'[c] \in {"read", "release"} /\ pc[c] \in {"write", "fill"}
    BY <1>5 DEF Write, Publishes, Goto, TypeOK
  <2>2. QED
    BY <1>2, <2>1
<1>6. CASE Tear(c)
  <2>1. /\ pc'[c] = "release" /\ torn' = torn /\ step' = step /\ snap' = snap
        /\ result'[c] = "failed" /\ pc[c] = "fill"
    BY <1>6 DEF Tear, Goto, TypeOK
  <2>2. content'[Target(c)] \subseteq snap[c] \cup {c}
    BY <1>6, TargetIsFile DEF Tear, TypeOK
  <2>3. QED
    BY <1>2, <2>1, <2>2 DEF Target
<1>7. CASE Release(c) \/ Broadcast(c)
  <2>1. /\ pc'[c] \in {"broadcast", "done"} /\ pc[c] \in {"release", "broadcast"}
        /\ torn' = torn /\ step' = step /\ result' = result
    BY <1>7 DEF Release, Broadcast, Goto, TypeOK
  <2>2. QED
    BY <1>2, <2>1 DEF Target
<1>8. CASE ~Guarding(c) /\ ~FileIO(c)
  <2>1. /\ step'[c] = step[c] /\ snap'[c] = snap[c] /\ torn'[c] = torn[c]
        /\ result'[c] = result[c]
        /\ pc'[c] = pc[c] \/ (pc[c] = "asleep" /\ pc'[c] = "woken")
    BY <1>8, OthersKeep
  <2>2. pc[c] \in {"fill", "release"} => content'[Target(c)] = content[Target(c)]
    BY <1>8, WritersWriteTheirs DEF Editing, FileIO
  <2>3. QED
    BY <1>2, <2>1, <2>2 DEF Target
<1>9. QED
  BY <1>3, <1>4, <1>5, <1>6, <1>7, <1>8 DEF Guarding, FileIO

\* No two calls have one file broken.
LEMMA OneBreaks ==
    ASSUME TypeOK, OverlappingEditsTakeTurns, TornIsOwn, NEW c \in Calls, pc[c] \in Editing
    PROVE  /\ Breaking(Target(c)) \subseteq {c}
           /\ c \in Breaking(Target(c)) <=> torn[c] # {}
           /\ \A f \in Files : c \in Breaking(f) => f = Target(c)
<1>1. ASSUME NEW d \in Calls, pc[d] \in Editing, torn[d] # {}
      PROVE  torn[d] = {Target(d)}
  BY <1>1 DEF TornIsOwn
<1>2. ASSUME NEW d \in Breaking(Target(c)), d # c
      PROVE  FALSE
  <2>1. pc[d] \in Editing /\ d \in Calls /\ Target(d) = Target(c)
    BY <1>1, <1>2 DEF Breaking, InFlight
  <2>2. Target(c) # Target(d)
    BY <1>2, <2>1, EditorsAreApart, TargetIsFile DEF Target
  <2>3. QED
    BY <2>1, <2>2
<1>3. QED
  BY <1>1, <1>2 DEF Breaking, InFlight

\* Behind a file that is being broken stands what it held before; a write adds
\* the edit of its call, and what a failed one left shows when its call ends.
LEMMA BeforeSteps ==
    ASSUME TypeOK, OverlappingEditsTakeTurns, SnapIsCurrent, TornIsOwn, [Next]_vars,
           NEW f \in Files
    PROVE  /\ \A c \in Calls : Write(c) =>
                 Before(f)' = IF f = Target(c) THEN Before(f) \cup {c} ELSE Before(f)
           /\ \A c \in Calls : Release(c) /\ torn[c] # {} =>
                 IF f = Target(c)
                 THEN Before(f)' = content[f] /\ content[f] \subseteq Before(f) \cup {c}
                 ELSE Before(f)' = Before(f)
           /\ (\A c \in Calls : ~Write(c) /\ ~(Release(c) /\ torn[c] # {}))
                 => Before(f)' = Before(f)
<1>1. ASSUME NEW c \in Calls, pc[c] \in Editing, f = Target(c)
      PROVE  Before(f) = IF torn[c] = {} THEN content[f] ELSE snap[c]
  <2>1. Breaking(f) = IF torn[c] = {} THEN {} ELSE {c}
    BY <1>1, OneBreaks
  <2>2. UNION {snap[d] : d \in {c}} = snap[c]
    OBVIOUS
  <2>3. QED
    BY <2>1, <2>2 DEF Before
<1>2. ASSUME Breaking(f)' = Breaking(f), content'[f] = content[f] \/ Breaking(f) # {},
             \A d \in Breaking(f) : snap'[d] = snap[d]
      PROVE  Before(f)' = Before(f)
  BY <1>2 DEF Before
<1>3. ASSUME NEW c \in Calls, Write(c)
      PROVE  Before(f)' = IF f = Target(c) THEN Before(f) \cup {c} ELSE Before(f)
  <2>1. /\ content' = [content EXCEPT ![Target(c)] = snap[c] \cup {c}]
        /\ torn' = [torn EXCEPT ![c] = {}] /\ snap' = snap /\ InFlight' = InFlight
        /\ pc[c] \in {"write", "fill"}
    BY <1>3 DEF Write, Publishes, Goto, InFlight, Editing, TypeOK
  <2>2. Breaking(f)' = Breaking(f) \ {c}
    BY <2>1 DEF Breaking, InFlight, TypeOK
  <2>3. CASE f = Target(c)
    <3>1. Breaking(f)' = {}
      BY <2>1, <2>2, <2>3, OneBreaks DEF Editing
    <3>2. Before(f)' = snap[c] \cup {c}
      BY <2>1, <2>3, <3>1 DEF Before, TypeOK
    <3>3. pc[c] = "write" => snap[c] = content[f] /\ torn[c] = {}
      BY <2>3 DEF SnapIsCurrent, TornIsOwn
    <3>4. pc[c] = "fill" => torn[c] # {}
      BY DEF TornIsOwn
    <3>5. Before(f) = snap[c]
      BY <1>1, <2>1, <2>3, <3>3, <3>4 DEF Editing
    <3>6. QED
      BY <2>3, <3>2, <3>5
  <2>4. CASE f # Target(c)
    <3>1. c \notin Breaking(f)
      BY <2>1, <2>4, OneBreaks DEF Editing
    <3>2. QED
      BY <1>2, <2>1, <2>2, <2>4, <3>1 DEF TypeOK
  <2>5. QED
    BY <2>3, <2>4
<1>4. ASSUME NEW c \in Calls, Release(c), torn[c] # {}
      PROVE  IF f = Target(c)
             THEN Before(f)' = content[f] /\ content[f] \subseteq Before(f) \cup {c}
             ELSE Before(f)' = Before(f)
  <2>1. /\ content' = content /\ torn' = torn /\ snap' = snap /\ InFlight' = InFlight \ {c}
        /\ pc[c] = "release"
    BY <1>4 DEF Release, Goto, InFlight, Editing, TypeOK
  <2>2. Breaking(f)' = Breaking(f) \ {c}
    BY <2>1 DEF Breaking
  <2>3. CASE f = Target(c)
    <3>1. Breaking(f)' = {}
      BY <2>1, <2>2, <2>3, OneBreaks DEF Editing
    <3>2. Before(f)' = content[f]
      BY <2>1, <3>1 DEF Before
    <3>3. Before(f) = snap[c]
      BY <1>1, <1>4, <2>1, <2>3 DEF Editing
    <3>4. content[f] \subseteq snap[c] \cup {c}
      BY <1>4, <2>1, <2>3 DEF TornIsOwn
    <3>5. QED
      BY <2>3, <3>2, <3>3, <3>4
  <2>4. CASE f # Target(c)
    <3>1. c \notin Breaking(f)
      BY <2>1, <2>4, OneBreaks DEF Editing
    <3>2. QED
      BY <1>2, <2>1, <2>2, <2>4, <3>1
  <2>5. QED
    BY <2>3, <2>4
<1>5. ASSUME NEW c \in Calls, Truncate(c)
      PROVE  Before(f)' = Before(f)
  <2>1. /\ content' = [content EXCEPT ![Target(c)] = {}]
        /\ torn' = [torn EXCEPT ![c] = {Target(c)}] /\ snap' = snap /\ InFlight' = InFlight
        /\ pc[c] = "write" /\ c \in InFlight
    BY <1>5 DEF Truncate, Goto, InFlight, Editing, TypeOK
  <2>2. torn[c] = {} /\ snap[c] = content[Target(c)]
    BY <2>1 DEF SnapIsCurrent, TornIsOwn
  <2>3. CASE f = Target(c)
    <3>1. Breaking(f) = {} /\ Breaking(f)' = {c}
      BY <2>1, <2>2, <2>3, OneBreaks DEF Breaking, Editing, TypeOK
    <3>2. Before(f)' = UNION {snap[d] : d \in {c}}
      BY <2>1, <3>1 DEF Before
    <3>3. QED
      BY <2>2, <2>3, <3>1, <3>2 DEF Before
  <2>4. CASE f # Target(c)
    <3>1. Breaking(f)' = Breaking(f)
      BY <2>1, <2>2, <2>4 DEF Breaking, TypeOK
    <3>2. QED
      BY <1>2, <2>1, <2>4, <3>1 DEF TypeOK
  <2>5. QED
    BY <2>3, <2>4
<1>6. ASSUME NEW c \in Calls, Tear(c)
      PROVE  Before(f)' = Before(f)
  <2>1. /\ torn' = torn /\ snap' = snap /\ InFlight' = InFlight /\ pc[c] = "fill"
        /\ \A g \in Files : g # Target(c) => content'[g] = content[g]
    BY <1>6 DEF Tear, Goto, InFlight, Editing, TypeOK
  <2>2. Breaking(f)' = Breaking(f)
    BY <2>1 DEF Breaking
  <2>3. f = Target(c) => Breaking(f) # {}
    <3>1. torn[c] # {}
      BY <2>1 DEF TornIsOwn
    <3>2. QED
      BY <2>1, <3>1, OneBreaks DEF Editing
  <2>4. QED
    BY <1>2, <2>1, <2>2, <2>3
<1>7. ASSUME NEW c \in Calls,
             \/ Reject(c) \/ Wait(c) \/ Claim(c) \/ Read(c) \/ LeaveAlone(c) \/ Fail(c)
             \/ Broadcast(c) \/ (Release(c) /\ torn[c] = {})
      PROVE  Before(f)' = Before(f)
  <2>1. content' = content /\ torn' = torn /\ \A d \in Calls : d # c => snap'[d] = snap[d]
    BY <1>7 DEF Reject, Wait, Claim, Read, LeaveAlone, Fail, Broadcast, Release, TypeOK
  <2>2. Broadcast(c) \/ torn[c] = {}
    BY <1>7 DEF Reject, Wait, Claim, Read, LeaveAlone, Fail, TornIsOwn
  <2>3. \A d \in Calls : d # c => (d \in InFlight' <=> d \in InFlight)
    BY <1>7 DEF Reject, Wait, Claim, Read, LeaveAlone, Fail, Broadcast, Release, Goto,
      InFlight, Editing, TypeOK
  <2>4. Broadcast(c) => InFlight' = InFlight /\ snap' = snap
    BY DEF Broadcast, InFlight, Editing, TypeOK
  <2>5. Breaking(f)' = Breaking(f) /\ \A d \in Breaking(f) : snap'[d] = snap[d]
    BY <2>1, <2>2, <2>3, <2>4 DEF Breaking, InFlight
  <2>6. QED
    BY <1>2, <2>1, <2>5
<1>8. ASSUME UNCHANGED vars PROVE Before(f)' = Before(f)
  BY <1>8 DEF vars, Before, Breaking, InFlight
<1>9. QED
  BY <1>3, <1>4, <1>5, <1>6, <1>7, <1>8 DEF Next, Guarding, FileIO, Finished

\* A published edit stays published, unless a write that fails takes it.
LEMMA WrittenPreserved ==
    TypeOK /\ OverlappingEditsTakeTurns /\ SnapIsCurrent /\ TornIsOwn /\ EditsAreKept
        /\ [Next]_vars => EditsAreKept'
<1> SUFFICES ASSUME TypeOK, OverlappingEditsTakeTurns, SnapIsCurrent, TornIsOwn, EditsAreKept,
                    [Next]_vars, NEW c \in Calls, NEW f \in wrote'[c]
             PROVE  c \in Before(f)' \/ \E d \in InPlace : f \in torn'[d] /\ result'[d] = "failed"
  BY DEF EditsAreKept
<1>1. f \in Files
  BY TypePreserved DEF TypeOK
<1>2. ASSUME NEW d \in InPlace, f \in torn[d], result[d] = "failed"
      PROVE  f \in torn'[d] /\ result'[d] = "failed"
  <2>1. pc[d] \in {"release", "broadcast", "done"} /\ d \in Calls
    BY <1>2, CallsAssumption DEF TornIsOwn
  <2>2. QED
    BY <1>2, <2>1 DEF TypeOK, Next, Guarding, FileIO, Finished, vars, Reject, Wait, Claim, Read,
      Truncate, Publishes, Write, LeaveAlone, Fail, Tear, Release, Broadcast, Goto
<1>3. CASE Write(c)
  <2>1. wrote'[c] = wrote[c] \cup {Target(c)}
    BY <1>3 DEF Write, TypeOK
  <2>2. Before(f)' = IF f = Target(c) THEN Before(f) \cup {c} ELSE Before(f)
    BY <1>1, <1>3, BeforeSteps
  <2>3. CASE f = Target(c)
    BY <2>2, <2>3
  <2>4. CASE f # Target(c)
    BY <1>2, <2>1, <2>2, <2>4 DEF EditsAreKept
  <2>5. QED
    BY <2>3, <2>4
<1>4. CASE ~Write(c)
  <2>1. f \in wrote[c]
    BY <1>4 DEF TypeOK, Next, Guarding, FileIO, Finished, vars, Reject, Wait, Claim, Read,
      Truncate, Write, LeaveAlone, Fail, Tear, Release, Broadcast, Goto
  <2>2. SUFFICES ASSUME c \in Before(f)
                 PROVE  \/ c \in Before(f)'
                        \/ \E d \in InPlace : f \in torn'[d] /\ result'[d] = "failed"
    BY <1>2, <2>1 DEF EditsAreKept
  <2>3. ASSUME NEW d \in Calls, Release(d), torn[d] # {}, f = Target(d)
        PROVE  d \in InPlace /\ f \in torn'[d] /\ result'[d] = "failed"
    BY <2>3 DEF Release, TornIsOwn
  <2>4. QED
    BY <1>1, <2>2, <2>3, BeforeSteps
<1>5. QED
  BY <1>3, <1>4

\* What is kept behind a broken file is in it once the file is whole.
LEMMA KeptIsNotLost == TornIsOwn /\ EditsAreKept => NoLostUpdate
<1> SUFFICES ASSUME TornIsOwn, EditsAreKept, NEW c \in Calls, NEW f \in wrote[c]
             PROVE  c \in content[f] \/ \E d \in InPlace : f \in torn[d] /\ result[d] # "ok"
  BY DEF NoLostUpdate
<1>1. CASE Breaking(f) = {}
  BY <1>1 DEF EditsAreKept, Before
<1>2. ASSUME NEW d \in Breaking(f)
      PROVE  d \in InPlace /\ f \in torn[d] /\ result[d] # "ok"
  BY <1>2 DEF Breaking, InFlight, TornIsOwn
<1>3. QED
  BY <1>1, <1>2

\* The invariant holds in every reachable state.
THEOREM Invariance == Spec => []IInv
<1>1. Init => IInv
  BY InitIInv
<1>2. IInv /\ [Next]_vars => IInv'
  BY TypePreserved, TurnsPreserved, HeldPreserved, SnapPreserved, TornPreserved,
     WrittenPreserved
  DEF IInv
<1>3. QED
  BY <1>1, <1>2, PTL DEF Spec

\* For every set of calls and trees: edits that could touch one file never
\* run at once.
THEOREM TakeTurns == Spec => []OverlappingEditsTakeTurns
<1>1. IInv => OverlappingEditsTakeTurns
  BY DEF IInv
<1>2. QED
  BY <1>1, Invariance, PTL

\* ... no published edit is ever lost, but to a write in place that fails and is
\* reported as failed ...
THEOREM EditsSurvive == Spec => []NoLostUpdate
<1>1. IInv => NoLostUpdate
  BY KeptIsNotLost DEF IInv
<1>2. QED
  BY <1>1, Invariance, PTL

\* ... and the map holds exactly the keys of the edits in flight.
THEOREM HeldBounded == Spec => []HeldIsInFlight
<1>1. IInv => HeldIsInFlight
  BY DEF IInv
<1>2. QED
  BY <1>1, Invariance, PTL

\* A sleeper is either blocked by an edit in flight or about to be woken.
LEMMA WakeupPreserved == TypeOK /\ NoLostWakeup /\ [Next]_vars => NoLostWakeup'
<1> SUFFICES ASSUME TypeOK, NoLostWakeup, [Next]_vars,
                    NEW c \in Calls, pc'[c] = "asleep"
             PROVE  \/ OverlapsHeld(Identity[c])'
                    \/ \E d \in Calls : pc'[d] = "broadcast"
  BY DEF NoLostWakeup
<1>1. CASE Wait(c)
  BY <1>1 DEF Wait, OverlapsHeld
<1>2. ASSUME NEW d \in Calls, Release(d)
      PROVE  \E e \in Calls : pc'[e] = "broadcast"
  BY <1>2 DEF Release, Goto, TypeOK
<1>3. ASSUME NEW d \in Calls, Broadcast(d) PROVE FALSE
  BY <1>3 DEF Broadcast, TypeOK
<1>4. CASE /\ ~Wait(c)
           /\ \A d \in Calls : ~Release(d) /\ ~Broadcast(d)
  <2>1. pc[c] = "asleep" /\ held \subseteq held'
    BY <1>4 DEF TypeOK, Next, Guarding, FileIO, Finished, vars, Reject, Wait,
      Claim, Read, Truncate, Publishes, Write, LeaveAlone, Fail, Tear, Goto
  <2>2. \A d \in Calls : pc[d] = "broadcast" => pc'[d] = "broadcast"
    BY <1>4 DEF TypeOK, Next, Guarding, FileIO, Finished, vars, Reject, Wait,
      Claim, Read, Truncate, Publishes, Write, LeaveAlone, Fail, Tear, Goto
  <2>3. QED
    BY <2>1, <2>2 DEF NoLostWakeup, OverlapsHeld
<1>5. QED
  BY <1>1, <1>2, <1>3, <1>4

\* No call sleeps in the wait of the guard with nobody left to wake it.
THEOREM NoSleeperForgotten == Spec => []NoLostWakeup
<1>1. Init => NoLostWakeup
  BY DEF Init, NoLostWakeup
<1>2. QED
  BY <1>1, WakeupPreserved, TypeCorrect, PTL DEF Spec

-----------------------------------------------------------------------------
(***************************************************************************)
(* The refinement: a call takes effect when it releases its guard.         *)
(***************************************************************************)

\* The first n files call c targets.
Prefix(c, n) == {Targets[c][i] : i \in 1..n}

\* What a call has written is a prefix of what it targets, nothing before it
\* edits; until it returns a file holds its edit just where it wrote one.
WritesInOrder ==
    \A c \in Calls :
        /\ pc[c] \in {"start", "asleep", "woken"} => wrote[c] = {} /\ step[c] = 1
        /\ pc[c] \in {"read", "write", "fill"} => wrote[c] = Prefix(c, step[c] - 1)
        /\ pc[c] = "release" =>
              /\ result[c] # "pending"
              /\ torn[c] # {} => wrote[c] = Prefix(c, step[c] - 1)
              /\ \E n \in 0..Len(Targets[c]) :
                     /\ wrote[c] = Prefix(c, n)
                     /\ result[c] = "ok" => n > 0
        /\ pc[c] \notin {"broadcast", "done"} =>
              \A f \in Files : c \in Before(f) <=> f \in wrote[c]

RInv == IInv /\ WritesInOrder

\* The edit of a call is seen behind a file just where the call published one.
LEMMA HoldsPreserved ==
    ASSUME RInv, [Next]_vars, NEW c \in Calls, pc'[c] \notin {"broadcast", "done"},
           NEW f \in Files
    PROVE  c \in Before(f)' <=> f \in wrote'[c]
<1>1. TypeOK /\ OverlappingEditsTakeTurns /\ SnapIsCurrent /\ TornIsOwn /\ WritesInOrder
  BY DEF RInv, IInv
<1>2. CASE Write(c)
  <2>1. wrote'[c] = wrote[c] \cup {Target(c)} /\ pc[c] \in {"write", "fill"}
    BY <1>1, <1>2 DEF Write, Publishes, TypeOK
  <2>2. Before(f)' = IF f = Target(c) THEN Before(f) \cup {c} ELSE Before(f)
    BY <1>1, <1>2, BeforeSteps
  <2>3. QED
    BY <1>1, <2>1, <2>2 DEF WritesInOrder
<1>3. CASE ~Write(c)
  <2>1. wrote'[c] = wrote[c] /\ pc[c] \notin {"broadcast", "done"} /\ ~Release(c)
    BY <1>1, <1>3 DEF TypeOK, Next, Guarding, FileIO, Finished, vars, Reject, Wait, Claim, Read,
      Truncate, Write, LeaveAlone, Fail, Tear, Release, Broadcast, Goto
  <2>2. c \in Before(f) <=> f \in wrote[c]
    BY <1>1, <2>1 DEF WritesInOrder
  <2>3. ASSUME NEW d \in Calls, Write(d)
        PROVE  c \in Before(f)' <=> c \in Before(f)
    BY <1>1, <1>3, <2>3, BeforeSteps
  <2>4. ASSUME NEW d \in Calls, Release(d), torn[d] # {}
        PROVE  c \in Before(f)' <=> c \in Before(f)
    <3>1. d # c /\ pc[d] \in Editing
      BY <2>1, <2>4 DEF Release, Editing
    <3>2. CASE f # Target(d)
      BY <1>1, <2>4, <3>2, BeforeSteps
    <3>3. CASE f = Target(d)
      <4>1. Before(f)' \subseteq Before(f) \cup {d}
        BY <1>1, <2>4, <3>3, BeforeSteps
      <4>2. f \notin wrote[c]
        <5>1. CASE pc[c] \in Editing
          <6>1. \E n \in 0..Len(Targets[c]) : wrote[c] = Prefix(c, n)
            <7>1. step[c] - 1 \in 0..Len(Targets[c])
              BY <1>1, TargetIsFile
            <7>2. QED
              BY <1>1, <5>1, <7>1 DEF WritesInOrder, Editing
          <6>2. \A i \in 1..Len(Targets[c]) : Targets[c][i] # f
            BY <1>1, <3>1, <3>3, <5>1, EditorsAreApart
          <6>3. \A n \in 0..Len(Targets[c]) : \A i \in 1..n : i \in 1..Len(Targets[c])
            BY <1>1, TargetIsFile
          <6>4. QED
            BY <6>1, <6>2, <6>3 DEF Prefix
        <5>2. CASE pc[c] \notin Editing
          BY <1>1, <2>1, <5>2 DEF WritesInOrder, Editing, TypeOK
        <5>3. QED
          BY <5>1, <5>2
      <4>3. QED
        BY <2>2, <3>1, <4>1, <4>2
    <3>4. QED
      BY <3>2, <3>3
  <2>5. QED
    BY <1>1, <2>1, <2>2, <2>3, <2>4, BeforeSteps
<1>4. QED
  BY <1>2, <1>3

\* A call writes its targets in their order, at every step.
LEMMA WritesPreserved == RInv /\ [Next]_vars => WritesInOrder'
<1> SUFFICES ASSUME RInv, [Next]_vars PROVE WritesInOrder'
  OBVIOUS
<1> DEFINE
      Early(c)  == pc[c] \in {"start", "asleep", "woken"} => wrote[c] = {} /\ step[c] = 1
      During(c) == pc[c] \in {"read", "write", "fill"} => wrote[c] = Prefix(c, step[c] - 1)
      After(c)  == pc[c] = "release" =>
                     /\ result[c] # "pending"
                     /\ torn[c] # {} => wrote[c] = Prefix(c, step[c] - 1)
                     /\ \E n \in 0..Len(Targets[c]) :
                            /\ wrote[c] = Prefix(c, n)
                            /\ result[c] = "ok" => n > 0
<1>1. TypeOK /\ TornIsOwn /\ WritesInOrder
  BY DEF RInv, IInv
<1>2. \A c \in Calls : Early(c) /\ During(c) /\ After(c)
  BY <1>1 DEF WritesInOrder
<1>3. SUFFICES ASSUME NEW c \in Calls
               PROVE  Early(c)' /\ During(c)' /\ After(c)'
  BY HoldsPreserved DEF WritesInOrder
<1>10. step[c] - 1 \in 0..Len(Targets[c]) /\ step[c] \in Nat
  BY <1>1, TargetIsFile DEF TypeOK
<1>4. CASE Write(c)
  <2>1. /\ Target(c) \in Files /\ step[c] \in 1..Len(Targets[c])
        /\ Len(Targets[c]) \in Nat
    BY <1>1, TargetIsFile
  <2>2. wrote' = [wrote EXCEPT ![c] = @ \cup {Target(c)}] /\ torn'[c] = {}
    BY <1>1, <1>4 DEF Write, TypeOK
  <2>4. wrote'[c] = Prefix(c, step[c])
    <3>1. wrote[c] = Prefix(c, step[c] - 1)
      BY <1>2, <1>4 DEF Write, Publishes
    <3>2. Prefix(c, step[c]) = Prefix(c, step[c] - 1) \cup {Target(c)}
      BY <2>1 DEF Prefix, Target
    <3>3. QED
      BY <1>1, <2>2, <3>1, <3>2 DEF TypeOK
  <2>5. CASE step[c] < Len(Targets[c])
    <3>1. step'[c] = step[c] + 1 /\ pc'[c] = "read"
      BY <1>1, <1>4, <2>5 DEF Write, Goto, TypeOK
    <3>2. wrote'[c] = Prefix(c, step'[c] - 1)
      BY <2>1, <2>4, <3>1
    <3>3. QED
      BY <3>1, <3>2
  <2>6. CASE ~(step[c] < Len(Targets[c]))
    <3>1. result'[c] = "ok" /\ pc'[c] = "release"
      BY <1>1, <1>4, <2>6 DEF Write, Goto, TypeOK
    <3>2. step[c] \in 0..Len(Targets[c]) /\ step[c] > 0
      BY <2>1
    <3>3. QED
      BY <2>2, <2>4, <3>1, <3>2
  <2>7. QED
    BY <2>5, <2>6
<1>5. CASE LeaveAlone(c) \/ Fail(c) \/ Tear(c)
  <2>1. /\ pc[c] \in {"read", "write", "fill"} /\ pc'[c] = "release"
        /\ step' = step /\ wrote' = wrote
    BY <1>1, <1>5 DEF LeaveAlone, Fail, Tear, Goto, TypeOK
  <2>2. result'[c] = "failed" \/ (result'[c] = "ok" /\ step[c] > 1)
    BY <1>1, <1>5 DEF LeaveAlone, Fail, Tear, TypeOK
  <2>3. wrote'[c] = Prefix(c, step'[c] - 1)
    BY <1>2, <2>1
  <2>4. \E n \in 0..Len(Targets[c]) : wrote'[c] = Prefix(c, n) /\ (result'[c] = "ok" => n > 0)
    BY <1>10, <2>1, <2>2, <2>3
  <2>5. QED
    BY <2>1, <2>2, <2>3, <2>4
<1>6. CASE Claim(c)
  <2>1. pc'[c] = "read" /\ wrote'[c] = {} /\ step'[c] = 1
    BY <1>1, <1>2, <1>6 DEF Claim, Goto, TypeOK
  <2>2. wrote'[c] = Prefix(c, step'[c] - 1)
    BY <2>1 DEF Prefix
  <2>3. QED
    BY <2>1, <2>2
<1>7. CASE Read(c) \/ Truncate(c)
  <2>1. /\ pc[c] \in {"read", "write"} /\ pc'[c] \in {"write", "fill"}
        /\ wrote' = wrote /\ step' = step
    BY <1>1, <1>7 DEF Read, Truncate, Goto, TypeOK
  <2>2. QED
    BY <1>2, <2>1
<1>8. CASE Reject(c) \/ Wait(c) \/ Release(c) \/ Broadcast(c)
  <2>1. /\ pc'[c] \in {"broadcast", "done"} \/ (pc[c] \in {"start", "woken"} /\ pc'[c] = "asleep")
        /\ wrote' = wrote /\ step' = step
    BY <1>1, <1>8 DEF Reject, Wait, Release, Broadcast, Goto, TypeOK
  <2>2. QED
    BY <1>2, <2>1
<1>9. CASE ~Guarding(c) /\ ~FileIO(c)
  <2>1. /\ step'[c] = step[c] /\ wrote'[c] = wrote[c]
        /\ torn'[c] = torn[c] /\ result'[c] = result[c]
        /\ pc'[c] = pc[c] \/ (pc[c] = "asleep" /\ pc'[c] = "woken")
    BY <1>1, <1>9, OthersKeep
  <2>2. QED
    BY <1>2, <2>1
<1>11. QED
  BY <1>4, <1>5, <1>6, <1>7, <1>8, <1>9 DEF Guarding, FileIO

\* At first no file holds an edit, and none is broken.
LEMMA InitIsUnbroken == Init => \A f \in Files : Before(f) = {}
<1> SUFFICES ASSUME Init, NEW f \in Files PROVE Before(f) = {}
  OBVIOUS
<1>1. \A c \in Calls : torn[c] = {}
  BY DEF Init
<1>2. Breaking(f) = {}
  BY <1>1 DEF Breaking, InFlight
<1>3. QED
  BY <1>2 DEF Before, Init

\* The invariant of the refinement holds in every reachable state.
LEMMA RInvariance == Spec => []RInv
<1>1. Init => WritesInOrder
  <2> SUFFICES ASSUME Init PROVE WritesInOrder
    OBVIOUS
  <2>1. \A f \in Files : Before(f) = {}
    BY InitIsUnbroken
  <2>2. QED
    BY <2>1 DEF Init, WritesInOrder
<1>2. QED
  BY <1>1, WritesPreserved, Invariance, PTL DEF Spec, RInv

\* The mapped variables, under names of their own.
AbsContent == [f \in Files |-> Before(f) \ InFlight]
AbsOutcome == [c \in Calls |->
                  IF pc[c] \in {"broadcast", "done"} THEN result[c] ELSE "pending"]

\* The initial states map to the initial state of serial edits, ...
LEMMA InitMaps == Init => Serial!Init
<1> SUFFICES ASSUME Init PROVE Serial!Init
  OBVIOUS
<1>1. AbsContent = [f \in Files |-> {}]
  BY InitIsUnbroken DEF AbsContent
<1>2. AbsOutcome = [c \in Calls |-> "pending"]
  BY DEF Init, AbsOutcome
<1>3. QED
  BY <1>1, <1>2 DEF Serial!Init, AbsContent, AbsOutcome

\* The release of a guard is the step in which the whole edit happens.
LEMMA ReleaseMaps ==
    ASSUME RInv, NEW c \in Calls, Release(c), torn[c] = {}
    PROVE  \E n \in 0..Len(Targets[c]) : Serial!Finish(c, n, result[c])
<1>1. /\ TypeOK /\ WritesInOrder /\ pc[c] = "release"
      /\ OverlappingEditsTakeTurns /\ SnapIsCurrent /\ TornIsOwn /\ [Next]_vars
  BY DEF RInv, IInv, Release, Next, Guarding
<1>2. PICK n \in 0..Len(Targets[c]) :
          wrote[c] = Prefix(c, n) /\ (result[c] = "ok" => n > 0)
  BY <1>1 DEF WritesInOrder
<1>3. InFlight' = InFlight \ {c} /\ c \in InFlight /\ result' = result
  BY <1>1 DEF Release, Goto, InFlight, Editing, TypeOK
<1>4. \A d \in Calls : ~Write(d) /\ ~(Release(d) /\ torn[d] # {})
  BY <1>1, <1>3 DEF Write, Release, Goto, InFlight, TypeOK
<1>5. ASSUME NEW f \in Files
      PROVE  Before(f)' \ InFlight' =
                IF \E i \in 1..n : Targets[c][i] = f
                THEN (Before(f) \ InFlight) \cup {c} ELSE Before(f) \ InFlight
  <2>1. c \in Before(f) <=> \E i \in 1..n : Targets[c][i] = f
    BY <1>1, <1>2 DEF WritesInOrder, Prefix
  <2>2. Before(f)' = Before(f)
    BY <1>1, <1>4, BeforeSteps
  <2>3. QED
    BY <1>3, <2>1, <2>2
<1>6. AbsContent' = [f \in Files |->
                        IF \E i \in 1..n : Targets[c][i] = f
                        THEN AbsContent[f] \cup {c} ELSE AbsContent[f]]
  BY <1>5 DEF AbsContent
<1>7. /\ AbsOutcome[c] = "pending"
      /\ AbsOutcome' = [AbsOutcome EXCEPT ![c] = result[c]]
  BY <1>1, <1>3 DEF AbsOutcome, Release, Goto, TypeOK
<1>8. QED
  BY <1>2, <1>6, <1>7 DEF Serial!Finish, AbsContent, AbsOutcome

\* The release after a write in place that failed shows the damage.
LEMMA BrokenReleaseMaps ==
    ASSUME RInv, NEW c \in Calls, Release(c), torn[c] # {}
    PROVE  c \in InPlace /\ \E n \in 0..(Len(Targets[c]) - 1) : Serial!Break(c, n)
<1>1. /\ TypeOK /\ WritesInOrder /\ pc[c] = "release"
      /\ OverlappingEditsTakeTurns /\ SnapIsCurrent /\ TornIsOwn /\ [Next]_vars
  BY DEF RInv, IInv, Release, Next, Guarding
<1>2. c \in InPlace /\ result[c] = "failed" /\ wrote[c] = Prefix(c, step[c] - 1)
  BY <1>1 DEF TornIsOwn, WritesInOrder
<1>10. PICK n \in 0..(Len(Targets[c]) - 1) : n = step[c] - 1
  BY <1>1, TargetIsFile
<1> DEFINE broken == Targets[c][n + 1]
           rest == content[broken] \ (InFlight \ {c})
<1>3. broken = Target(c) /\ broken \in Files
  BY <1>1, <1>10, TargetIsFile DEF Target
<1>4. InFlight' = InFlight \ {c} /\ c \in InFlight /\ result' = result
  BY <1>1 DEF Release, Goto, InFlight, Editing, TypeOK
<1>5. ASSUME NEW f \in Files
      PROVE  /\ f = broken => Before(f)' \ InFlight' = rest /\ rest \subseteq AbsContent[f] \cup {c}
             /\ f # broken => Before(f)' \ InFlight' =
                                 IF \E i \in 1..n : Targets[c][i] = f
                                 THEN AbsContent[f] \cup {c} ELSE AbsContent[f]
  <2>1. c \in Before(f) <=> \E i \in 1..n : Targets[c][i] = f
    BY <1>1, <1>2, <1>10 DEF WritesInOrder, Prefix
  <2>2. IF f = broken
        THEN Before(f)' = content[f] /\ content[f] \subseteq Before(f) \cup {c}
        ELSE Before(f)' = Before(f)
    BY <1>1, <1>3, BeforeSteps
  <2>3. AbsContent[f] = Before(f) \ InFlight
    BY DEF AbsContent
  <2>4. QED
    BY <1>4, <2>1, <2>2, <2>3
<1>6. /\ rest \in SUBSET (AbsContent[broken] \cup {c})
      /\ AbsContent' = [f \in Files |->
                           IF f = broken THEN rest
                           ELSE IF \E i \in 1..n : Targets[c][i] = f
                           THEN AbsContent[f] \cup {c} ELSE AbsContent[f]]
  <2> HIDE DEF broken, rest
  <2>1. QED
    BY <1>3, <1>5 DEF AbsContent
<1>7. /\ AbsOutcome[c] = "pending"
      /\ AbsOutcome' = [AbsOutcome EXCEPT ![c] = "failed"]
  BY <1>1, <1>2, <1>4 DEF AbsOutcome, Release, Goto, TypeOK
<1>8. Serial!Break(c, n)
  BY <1>6, <1>7 DEF Serial!Break, AbsContent, AbsOutcome
<1>9. QED
  BY <1>2, <1>8

\* A rejected command finishes with no file edited.
LEMMA RejectMaps ==
    ASSUME RInv, NEW c \in Calls, Reject(c)
    PROVE  Serial!Finish(c, 0, "failed")
<1>1. TypeOK /\ pc[c] = "start"
  BY DEF RInv, IInv, Reject
<1>2. InFlight' = InFlight /\ content' = content /\ torn' = torn /\ snap' = snap
  BY <1>1 DEF Reject, Goto, InFlight, Editing, TypeOK
<1>3. AbsContent' = AbsContent
  BY <1>2 DEF AbsContent, Before, Breaking
<1>4. /\ AbsOutcome[c] = "pending"
      /\ AbsOutcome' = [AbsOutcome EXCEPT ![c] = "failed"]
  BY <1>1 DEF AbsOutcome, Reject, Goto, TypeOK
<1>5. AbsContent = [f \in Files |->
                       IF \E i \in 1..0 : Targets[c][i] = f
                       THEN AbsContent[f] \cup {c} ELSE AbsContent[f]]
  BY DEF AbsContent
<1>6. QED
  BY <1>3, <1>4, <1>5 DEF Serial!Finish, AbsContent, AbsOutcome

\* Every other step of a call leaves the mapped state as it is.
LEMMA OthersStutter ==
    ASSUME RInv, NEW c \in Calls, FileIO(c) \/ Wait(c) \/ Claim(c) \/ Broadcast(c)
    PROVE  AbsContent' = AbsContent /\ AbsOutcome' = AbsOutcome
<1>1. /\ TypeOK /\ WritesInOrder
      /\ OverlappingEditsTakeTurns /\ SnapIsCurrent /\ TornIsOwn /\ [Next]_vars
  BY DEF RInv, IInv, Next, Guarding
<1>2. AbsOutcome' = AbsOutcome
  <2>1. CASE FileIO(c)
    <3>1. /\ \A d \in Calls : d # c => pc'[d] = pc[d] /\ result'[d] = result[d]
          /\ pc[c] \in Editing /\ pc'[c] \in Editing
      BY <1>1, <2>1 DEF TypeOK, FileIO, Read, Truncate, Write, Publishes, LeaveAlone, Fail, Tear,
        Goto, Editing
    <3>2. QED
      BY <3>1 DEF AbsOutcome, Editing
  <2>2. CASE Wait(c) \/ Claim(c) \/ Broadcast(c)
    BY <1>1, <2>2 DEF AbsOutcome, TypeOK, Wait, Claim, Broadcast, Goto
  <2>3. QED
    BY <2>1, <2>2
<1>3. \A d \in Calls : ~Release(d)
  BY <1>1 DEF Release, FileIO, Read, Truncate, Write, Publishes, LeaveAlone, Fail, Tear, Wait,
    Claim, Broadcast, Goto, TypeOK
<1>4. CASE Write(c)
  <2>1. InFlight' = InFlight /\ c \in InFlight
    BY <1>1, <1>4 DEF Write, Publishes, Goto, InFlight, Editing, TypeOK
  <2>2. \A f \in Files : Before(f)' = IF f = Target(c) THEN Before(f) \cup {c} ELSE Before(f)
    BY <1>1, <1>4, BeforeSteps
  <2>3. \A f \in Files : Before(f)' \ InFlight' = Before(f) \ InFlight
    BY <2>1, <2>2
  <2>4. QED
    BY <1>2, <2>3 DEF AbsContent
<1>5. CASE ~Write(c)
  <2>1. \A d \in Calls : ~Write(d)
    BY <1>1, <1>5 DEF Write, Publishes, FileIO, Read, Truncate, LeaveAlone, Fail, Tear, Wait,
      Claim, Broadcast, Goto, TypeOK
  <2>2. \A f \in Files : Before(f)' = Before(f)
    BY <1>1, <1>3, <2>1, BeforeSteps
  <2>3. CASE Claim(c)
    <3>1. InFlight' = InFlight \cup {c} /\ pc[c] \in {"start", "woken"}
      BY <1>1, <2>3 DEF Claim, Goto, InFlight, Editing, TypeOK
    <3>2. \A f \in Files : c \notin Before(f)
      BY <1>1, <3>1 DEF WritesInOrder
    <3>3. \A f \in Files : Before(f)' \ InFlight' = Before(f) \ InFlight
      BY <2>2, <3>1, <3>2
    <3>4. QED
      BY <1>2, <3>3 DEF AbsContent
  <2>4. CASE FileIO(c) \/ Wait(c) \/ Broadcast(c)
    <3>1. InFlight' = InFlight
      BY <1>1, <1>5, <2>4 DEF FileIO, Read, Truncate, LeaveAlone, Fail, Tear, Wait, Broadcast,
        Goto, InFlight, Editing, TypeOK
    <3>2. QED
      BY <1>2, <2>2, <3>1 DEF AbsContent
  <2>5. QED
    BY <2>3, <2>4
<1>6. QED
  BY <1>4, <1>5

\* ... and every step to one of serial edits or to none.
LEMMA StepMaps == RInv /\ [Next]_vars => [Serial!Next]_(Serial!absVars)
<1> SUFFICES ASSUME RInv, [Next]_vars PROVE [Serial!Next]_(Serial!absVars)
  OBVIOUS
<1>1. ASSUME NEW c \in Calls, Release(c) PROVE Serial!Next
  <2>1. result[c] \in {"ok", "failed"}
    BY <1>1 DEF RInv, IInv, TypeOK, WritesInOrder, Release
  <2>2. CASE torn[c] = {}
    <3>1. PICK n \in 0..Len(Targets[c]) : Serial!Finish(c, n, result[c])
      BY <1>1, <2>2, ReleaseMaps
    <3>2. CASE result[c] = "ok"
      <4>1. Serial!Finish(c, n, "ok")
        BY <3>1, <3>2 DEF Serial!Finish
      <4>2. QED
        BY <4>1 DEF Serial!Next
    <3>3. CASE result[c] = "failed"
      <4>1. Serial!Finish(c, n, "failed")
        BY <3>1, <3>3 DEF Serial!Finish
      <4>2. QED
        BY <4>1 DEF Serial!Next
    <3>4. QED
      BY <2>1, <3>2, <3>3
  <2>3. CASE torn[c] # {}
    BY <1>1, <2>3, BrokenReleaseMaps DEF Serial!Next
  <2>4. QED
    BY <2>2, <2>3
<1>2. ASSUME NEW c \in Calls, Reject(c) PROVE Serial!Next
  <2>1. 0 \in 0..Len(Targets[c])
    BY <1>2, TargetIsFile DEF RInv, IInv
  <2>2. QED
    BY <1>2, <2>1, RejectMaps DEF Serial!Next
<1>3. ASSUME NEW c \in Calls, FileIO(c) \/ Wait(c) \/ Claim(c) \/ Broadcast(c)
      PROVE  UNCHANGED Serial!absVars
  BY <1>3, OthersStutter DEF Serial!absVars, AbsContent, AbsOutcome
<1>4. ASSUME UNCHANGED vars PROVE UNCHANGED Serial!absVars
  <2>1. AbsContent' = AbsContent /\ AbsOutcome' = AbsOutcome
    BY <1>4 DEF vars, AbsContent, AbsOutcome, Before, Breaking, InFlight
  <2>2. QED
    BY <2>1 DEF Serial!absVars, AbsContent, AbsOutcome
<1>5. QED
  BY <1>1, <1>2, <1>3, <1>4 DEF Next, Guarding, Finished

\* For every set of calls and trees the guarded, interleaved edits implement
\* edits that each run alone.
THEOREM Refines == Spec => EditsAreSerial
<1>1. Spec => Serial!Init /\ [][Serial!Next]_(Serial!absVars)
  BY InitMaps, StepMaps, RInvariance, PTL DEF Spec
<1>2. QED
  BY <1>1 DEF EditsAreSerial, Serial!Spec

=============================================================================
