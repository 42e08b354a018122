---------------------------- MODULE MiseFix_proofs ----------------------------
(***************************************************************************)
(* Proofs about MiseFix, for any configs, lockfiles, keys, releases and    *)
(* requests, and any fixes that go forward.                                *)
(***************************************************************************)
EXTENDS MiseFix, TLAPS

\* What the edit establishes, or finds established, and the prune relies on:
\* the tool is declared at the target and at no version of the finding, and only
\* once where the finding names none.
ReadyToPrune(p) ==
    LET d == Declared(p.config, p.tool)
    IN  /\ p.target \in d
        /\ p.currents \cap d = {}
        /\ p.currents = {} => Len(decl[p.config][p.tool]) = 1

IInv ==
    /\ TypeOK
    /\ pc = "prune" => ReadyToPrune(plan)
    /\ FixIsEffective
    /\ RetryCanFinish

-----------------------------------------------------------------------------
(* The operators *)

\* The fields of a fix.
LEMMA PlanTypes ==
    ASSUME NEW p \in Plans
    PROVE  /\ p.config \in Configs /\ p.tool \in Keys
           /\ p.currents \subseteq Versions /\ p.target \in Versions
           /\ p.target \notin p.currents
BY MiseAssumption, PlansGoForward

\* A rewrite keeps the length of a declaration and asks for nothing but
\* requests.
LEMMA RewrittenTypes ==
    ASSUME TypeOK, NEW p \in Plans
    PROVE  /\ Rewritten(p) \in Seq(Requests)
           /\ Len(Rewritten(p)) = Len(decl[p.config][p.tool])
           /\ \A i \in 1..Len(Rewritten(p)) :
                 Rewritten(p)[i] \in {decl[p.config][p.tool][i], p.target}
<1>1. decl[p.config][p.tool] \in Seq(Requests) /\ p.target \in Requests
  BY PlanTypes, MiseAssumption DEF TypeOK
<1>2. QED
  BY <1>1 DEF Rewritten

\* No version of the finding survives a rewrite: the sole declaration of one is
\* replaced because it selects itself, and so is each of several.
LEMMA RewrittenDropsCurrents ==
    ASSUME TypeOK, NEW p \in Plans, NEW i \in 1..Len(Rewritten(p))
    PROVE  Rewritten(p)[i] \notin p.currents
<1> DEFINE s == decl[p.config][p.tool]
<1>1. s \in Seq(Requests) /\ i \in 1..Len(s)
  BY RewrittenTypes, PlanTypes DEF TypeOK
<1>2. CASE s[i] \in p.currents
  <2>1. ~DeclaresNewer(p, s[i])
    BY <1>2, PlansGoForward, PlanTypes, MiseAssumption DEF DeclaresNewer
  <2>2. TargetsCurrent(p, s[i])
    BY <1>2, PlanTypes, MiseAssumption DEF TargetsCurrent
  <2>3. Rewritten(p)[i] = p.target
    BY <1>1, <1>2, <2>1, <2>2 DEF Rewritten
  <2>4. QED
    BY <2>3, PlanTypes
<1>3. CASE s[i] \notin p.currents
  BY <1>3, RewrittenTypes, PlanTypes
<1>4. QED
  BY <1>2, <1>3

\* A rewrite that changes something wrote the target, and a finding without
\* versions rewrites a sole declaration only.
LEMMA AppliedHasTarget ==
    ASSUME TypeOK, NEW p \in Plans, Applies(p)
    PROVE  /\ \E i \in 1..Len(Rewritten(p)) : Rewritten(p)[i] = p.target
           /\ p.currents = {} => Len(Rewritten(p)) = 1
<1> DEFINE s == decl[p.config][p.tool]
<1>1. s \in Seq(Requests)
  BY PlanTypes DEF TypeOK
<1>2. PICK i \in 1..Len(s) : Rewritten(p)[i] # s[i]
  BY <1>1, RewrittenTypes, SMT DEF Applies
<1>3. Rewritten(p)[i] = p.target
  BY <1>2, RewrittenTypes
<1>4. p.currents = {} => Len(s) = 1
  BY <1>1, <1>2 DEF Rewritten
<1>5. QED
  BY <1>1, <1>3, <1>4, RewrittenTypes

-----------------------------------------------------------------------------
(* The steps *)

\* The initial states satisfy the invariant.
LEMMA InitIInv == Init => IInv
BY MiseAssumption DEF Init, IInv, TypeOK, FixIsEffective, RetryCanFinish

\* Publishing the rewrite establishes what the prune needs.
LEMMA RewriteStep ==
    ASSUME IInv, RewriteConfig
    PROVE  /\ TypeOK' /\ ReadyToPrune(plan)'
           /\ Declared(plan.config, plan.tool) # {}
           /\ decl' = [decl EXCEPT ![plan.config][plan.tool] = Rewritten(plan)]
<1> DEFINE c == plan.config
           k == plan.tool
           w == Rewritten(plan)
<1>1. plan \in Plans /\ TypeOK /\ Applies(plan)
  BY DEF IInv, TypeOK, RewriteConfig
<1>2. c \in Configs /\ k \in Keys /\ w \in Seq(Requests)
  BY <1>1, PlanTypes, RewrittenTypes
<1>3. TypeOK'
  BY <1>1, <1>2 DEF TypeOK, RewriteConfig
<1>4. decl'[c][k] = w /\ plan' = plan
  BY <1>1, <1>2 DEF TypeOK, RewriteConfig
<1>5. Declared(c, k)' = {w[i] : i \in 1..Len(w)}
  BY <1>4 DEF Declared
<1>6. plan.target \in Declared(c, k)' /\ plan.currents \cap Declared(c, k)' = {}
  BY <1>1, <1>5, AppliedHasTarget, RewrittenDropsCurrents
<1>7. plan.currents = {} => Len(decl[c][k])' = 1
  BY <1>1, <1>4, AppliedHasTarget
<1>8. Declared(c, k) # {}
  <2>1. Len(w) = Len(decl[c][k]) /\ Len(w) \in Nat /\ \E i \in 1..Len(w) : TRUE
    BY <1>1, <1>2, RewrittenTypes, AppliedHasTarget
  <2>2. QED
    BY <2>1 DEF Declared
<1>9. QED
  BY <1>3, <1>4, <1>6, <1>7, <1>8 DEF ReadyToPrune, RewriteConfig, Declared

\* A fix that finds its edit already there finds what the prune needs.
LEMMA FindStep ==
    ASSUME TypeOK, NEW p \in Plans, AlreadyAt(p)
    PROVE  ReadyToPrune(p)
BY DEF AlreadyAt, ReadyToPrune

\* A fix that is ready to be pruned can be run again.
LEMMA ReadyIsAlready ==
    ASSUME NEW p \in Plans, ReadyToPrune(p), p.config \notin broken
    PROVE  AlreadyAt(p)
BY DEF ReadyToPrune, AlreadyAt

\* Where the finding names no version, the target is all that is declared.
LEMMA ReadyIsSole ==
    ASSUME TypeOK, NEW p \in Plans, ReadyToPrune(p), p.currents = {}
    PROVE  Declared(p.config, p.tool) = {p.target}
<1>1. decl[p.config][p.tool] \in Seq(Requests)
  BY PlanTypes DEF TypeOK
<1>2. QED
  BY <1>1 DEF ReadyToPrune, Declared

\* What a stale entry is to a tool that is ready to be pruned: at no version
\* of the finding when kept, at no version declared when dropped.
LEMMA StaleIsUndeclared ==
    ASSUME TypeOK, NEW p \in Plans, ReadyToPrune(p), NEW v \in Versions
    PROVE  /\ Stale(p, v) => v \notin Declared(p.config, p.tool)
           /\ ~Stale(p, v) => v \notin p.currents
<1>1. CASE p.currents # {} /\ ~Exclusive(p)
  BY <1>1 DEF Stale, ReadyToPrune
<1>2. CASE p.currents = {}
  BY <1>2, ReadyIsSole DEF Stale
<1>3. CASE Exclusive(p)
  BY <1>3, PlanTypes DEF Stale, Exclusive
<1>4. QED
  BY <1>1, <1>2, <1>3

\* The prune touches the names it owns in one lockfile, and drops from them
\* the stale entries.
LEMMA PrunedLock ==
    ASSUME TypeOK, PruneLock, NEW l \in Locks, NEW n \in Names
    PROVE  lock'[l][n] = IF l = LockOf[plan.config] /\ n \in PruneKeys(plan)
                         THEN {v \in lock[l][n] : ~Stale(plan, v)}
                         ELSE lock[l][n]
BY DEF TypeOK, PruneLock

\* A declaration's candidate names are names, and its lockfile is one.
LEMMA CandidatesAreNames ==
    ASSUME NEW c \in Configs, NEW k \in Keys
    PROVE  CandidateNames(k) \subseteq Names /\ LockOf[c] \in Locks
BY DEF CandidateNames, Names, Locks

\* A successful prune leaves the tool at no version of the finding: what it
\* declares is none, and what an owned name lends survived the prune.
LEMMA PruneIsEffective ==
    ASSUME IInv, PruneLock
    PROVE  FixIsEffective'
<1> DEFINE c == plan.config
           k == plan.tool
<1>1. plan \in Plans /\ TypeOK /\ ReadyToPrune(plan) /\ pc = "prune"
  BY DEF IInv, TypeOK, PruneLock
<1>2. c \in Configs /\ k \in Keys
  BY <1>1, PlanTypes
<1>3. UNCHANGED <<decl, broken, plan>>
  BY DEF PruneLock
<1>4. ASSUME NEW n \in CandidateNames(k), NEW v \in Versions,
             OwnershipKnown(c), Lends(c, n, v)'
      PROVE  v \notin plan.currents
  <2>1. ~Contested(c, n)
    BY <1>3, <1>4 DEF Lends, Contested, Claimants
  <2>2. n \in PruneKeys(plan)
    BY <2>1, <1>4 DEF PruneKeys
  <2>3. v \in lock'[LockOf[c]][n]
    BY <1>3, <1>4 DEF Lends
  <2>4. lock'[LockOf[c]][n] = {u \in lock[LockOf[c]][n] : ~Stale(plan, u)}
    BY <1>1, <1>2, <1>4, <2>2, PrunedLock, CandidatesAreNames
  <2>5. ~Stale(plan, v)
    BY <2>3, <2>4
  <2>6. QED
    BY <2>5, <1>1, StaleIsUndeclared
<1>5. ASSUME NEW r \in Declared(c, k)
      PROVE  Resolved(c, k, r)' \notin plan.currents
  <2>1. r \notin plan.currents
    BY <1>1 DEF ReadyToPrune
  <2> DEFINE lent(n) == {v \in Versions : Lends(c, n, v)}
  <2>2. OwnershipKnown(c)' = OwnershipKnown(c)
    BY <1>3 DEF OwnershipKnown
  <2>3. CASE Resolved(c, k, r)' = r
    BY <2>1, <2>3
  <2>4. CASE Resolved(c, k, r)' # r
    <3>1. PICK n \in CandidateNames(k) :
             /\ lent(n)' # {} /\ OwnershipKnown(c)
             /\ Resolved(c, k, r)' = CHOOSE v \in lent(n)' : TRUE
      BY <1>3, <2>2, <2>4 DEF Resolved, CandidateNames
    <3>2. Resolved(c, k, r)' \in lent(n)'
      BY <3>1
    <3>3. QED
      BY <1>3, <1>4, <3>1, <3>2
  <2>5. QED
    BY <2>3, <2>4
<1>6. Reported(c, k)' \cap plan.currents = {}
  BY <1>3, <1>5 DEF Reported, Declared
<1>7. QED
  BY <1>3, <1>6 DEF FixIsEffective


\* Pruning loses nothing a declaration matches: the entries it drops stand under
\* names only the fixed tool claims, and the tool does not declare them.
LEMMA PruneKeepsDeclared ==
    ASSUME IInv, PruneLock, NEW c \in Configs, NEW k \in Keys, NEW n \in CandidateNames(k)
    PROVE  Declared(c, k) \cap lock[LockOf[c]][n] \subseteq lock'[LockOf[c]][n]
<1>1. plan \in Plans /\ TypeOK /\ ReadyToPrune(plan)
  BY DEF IInv, TypeOK, PruneLock
<1>2. plan.config \in Configs /\ plan.tool \in Keys
  BY <1>1, PlanTypes
<1>3. SUFFICES ASSUME NEW v \in Declared(c, k), v \in lock[LockOf[c]][n],
                      v \notin lock'[LockOf[c]][n]
               PROVE  FALSE
  OBVIOUS
<1>4. LockOf[c] = LockOf[plan.config] /\ n \in PruneKeys(plan) /\ Stale(plan, v)
  BY <1>1, <1>3, PrunedLock, CandidatesAreNames
<1>5. <<c, k>> \in Claimants(plan.config, n)
  <2>1. decl[c][k] # <<>>
    BY <1>3 DEF Declared
  <2>2. QED
    BY <1>4, <2>1 DEF Claimants, Sharing
<1>6. <<plan.config, plan.tool>> \in Claimants(plan.config, n)
  <2>1. decl[plan.config][plan.tool] # <<>>
    BY <1>1 DEF ReadyToPrune, Declared
  <2>2. QED
    BY <1>2, <1>4, <2>1 DEF Claimants, Sharing, PruneKeys
<1>7. <<c, k>> = <<plan.config, plan.tool>>
  BY <1>4, <1>5, <1>6 DEF PruneKeys, Contested
<1>8. c = plan.config /\ k = plan.tool
  BY <1>7
<1>9. v \in Versions
  BY <1>1, <1>3, CandidatesAreNames DEF TypeOK
<1>10. QED
  BY <1>1, <1>3, <1>4, <1>8, <1>9, StaleIsUndeclared

-----------------------------------------------------------------------------
(* The inductive invariant *)

\* The types survive the steps that change neither of the files' contents in a
\* way of their own.
LEMMA PruneTypes == ASSUME TypeOK, PruneLock PROVE TypeOK'
<1>1. lock' \in [Locks -> [Names -> SUBSET Versions]]
  BY DEF TypeOK, PruneLock
<1>2. plan # NoPlan
  BY DEF TypeOK, PruneLock
<1>3. QED
  BY <1>1, <1>2 DEF TypeOK, PruneLock

\* What a fix left unfinished depends on the configs alone, ...
LEMMA RetryStays ==
    ASSUME UNCHANGED <<decl, broken, unfinished>>, RetryCanFinish
    PROVE  RetryCanFinish'
<1>1. UNCHANGED decl /\ UNCHANGED broken /\ UNCHANGED unfinished
  OBVIOUS
<1>2. \A p \in {unfinished} : Applies(p)' = Applies(p) /\ AlreadyAt(p)' = AlreadyAt(p)
  BY <1>1 DEF Applies, Rewritten, AlreadyAt, Declared, DeclaresNewer, TargetsCurrent
<1>3. QED
  BY <1>1, <1>2 DEF RetryCanFinish

\* ... and what a request resolves to on the entries under the names of its
\* key, and on who else claims those.
LEMMA ResolvedStays ==
    ASSUME NEW c, NEW k, NEW r, UNCHANGED broken,
           \A n \in CandidateNames(k) : /\ Contested(c, n)' = Contested(c, n)
                                        /\ lock'[LockOf[c]][n] = lock[LockOf[c]][n]
    PROVE  Resolved(c, k, r)' = Resolved(c, k, r)
<1> DEFINE lent(n) == {v \in Versions : Lends(c, n, v)}
           exact == \E n \in CandidateNames(k) :
                        MayMatch(c, k, n) /\ r \in lock[LockOf[c]][n]
           choice == IF exact \/ ~OwnershipKnown(c) THEN r
                     ELSE IF lent(Short[k]) # {} THEN CHOOSE v \in lent(Short[k]) : TRUE
                     ELSE IF lent(k) # {} THEN CHOOSE v \in lent(k) : TRUE
                     ELSE r
<1>1. lent(Short[k])' = lent(Short[k]) /\ lent(k)' = lent(k)
  BY DEF Lends, CandidateNames
<1>2. exact' = exact
  BY DEF MayMatch
<1>3. OwnershipKnown(c)' = OwnershipKnown(c)
  BY DEF OwnershipKnown
<1>4. Resolved(c, k, r) = choice /\ Resolved(c, k, r)' = choice'
  BY DEF Resolved
<1> HIDE DEF lent, exact
<1>5. choice' = choice
  BY <1>1, <1>2, <1>3
<1>6. QED
  BY <1>4, <1>5

\* What a scan reports depends on the configs and their lockfile.
LEMMA ReportedStays ==
    ASSUME UNCHANGED <<decl, lock, broken>>, NEW c, NEW k
    PROVE  Reported(c, k)' = Reported(c, k)
<1>1. UNCHANGED decl /\ UNCHANGED lock /\ UNCHANGED broken
  OBVIOUS
<1>2. ASSUME NEW n PROVE Contested(c, n)' = Contested(c, n)
  BY <1>1 DEF Contested, Claimants
<1>3. ASSUME NEW r PROVE Resolved(c, k, r)' = Resolved(c, k, r)
  BY <1>1, <1>2, ResolvedStays
<1>4. QED
  BY <1>1, <1>3 DEF Reported

\* Every step of the fix, of a crash and of the user keeps the invariant.
LEMMA StepIInv == IInv /\ [Next]_vars => IInv'
<1> SUFFICES ASSUME IInv, [Next]_vars PROVE IInv'
  OBVIOUS
<1> USE DEF IInv
<1>1. ASSUME NEW p \in Plans, Start(p) PROVE IInv'
  BY <1>1, RetryStays, MiseAssumption DEF Start, TypeOK, FixIsEffective
<1>2. CASE RewriteConfig
  <2>1. TypeOK' /\ ReadyToPrune(plan)' /\ pc' = "prune" /\ unfinished' = plan /\ plan' = plan
    BY <1>2, RewriteStep DEF RewriteConfig
  <2>2. plan \in Plans
    BY <1>2 DEF TypeOK, RewriteConfig
  <2>3. RetryCanFinish'
    BY <2>1, <2>2 DEF RetryCanFinish, ReadyToPrune, AlreadyAt, Declared
  <2>4. QED
    BY <2>1, <2>3 DEF FixIsEffective
<1>3. CASE FindRewritten
  <2>1. plan \in Plans /\ ReadyToPrune(plan)
    BY <1>3, FindStep DEF TypeOK, FindRewritten
  <2>2. QED
    BY <1>3, <2>1, RetryStays DEF FindRewritten, TypeOK, FixIsEffective, ReadyToPrune, Declared
<1>4. CASE Refuse \/ FailIO \/ Crash
  BY <1>4, RetryStays DEF Refuse, FailIO, Crash, TypeOK, FixIsEffective
<1>5. CASE PruneLock
  BY <1>5, PruneTypes, PruneIsEffective DEF PruneLock, RetryCanFinish
<1>6. ASSUME NEW c \in Configs, NEW k \in Keys, EditConfig(c, k) PROVE IInv'
  <2>1. PICK s \in Seq(Requests) : decl' = [decl EXCEPT ![c][k] = s]
    <3>1. Declarable[c][k] \subseteq Seq(Requests)
      BY MiseAssumption
    <3>2. QED
      BY <1>6, <3>1 DEF EditConfig
  <2>2. TypeOK'
    BY <1>6, <2>1 DEF EditConfig, TypeOK
  <2>3. QED
    BY <1>6, <2>2 DEF EditConfig, FixIsEffective, RetryCanFinish
<1>7. ASSUME NEW c \in Configs, ToggleParse(c) PROVE IInv'
  BY <1>7 DEF ToggleParse, TypeOK, FixIsEffective, RetryCanFinish
<1>8. ASSUME NEW c \in Configs, NEW k \in Keys, MiseInstall(c, k) PROVE IInv'
  <2>1. PICK r \in Declared(c, k) : \E v \in Selects[r] :
           lock' = [lock EXCEPT ![LockOf[c]][k] = @ \cup {v}]
    BY <1>8 DEF MiseInstall
  <2>2. PICK v \in Selects[r] : lock' = [lock EXCEPT ![LockOf[c]][k] = @ \cup {v}]
    BY <2>1
  <2>3. v \in Versions
    <3>1. r \in Requests
      <4>1. decl[c][k] \in Seq(Requests)
        BY DEF TypeOK
      <4>2. QED
        BY <4>1 DEF Declared
    <3>2. QED
      BY <2>2, <3>1, MiseAssumption
  <2>4. lock' \in [Locks -> [Names -> SUBSET Versions]]
    BY <2>2, <2>3 DEF TypeOK
  <2>5. TypeOK'
    BY <1>8, <2>4 DEF MiseInstall, TypeOK
  <2>6. QED
    BY <1>8, <2>5, RetryStays DEF MiseInstall, FixIsEffective
<1>9. CASE UNCHANGED vars
  <2>1. TypeOK'
    BY <1>9 DEF vars, TypeOK
  <2>2. (pc = "prune" => ReadyToPrune(plan))'
    BY <1>9 DEF vars, ReadyToPrune, Declared
  <2>3. FixIsEffective'
    BY <1>9, ReportedStays DEF vars, FixIsEffective
  <2>4. QED
    BY <1>9, <2>1, <2>2, <2>3, RetryStays DEF vars
<1>10. QED
  BY <1>1, <1>2, <1>3, <1>4, <1>5, <1>6, <1>7, <1>8, <1>9 DEF Next, Fix, User

\* The invariant holds in every reachable state.
LEMMA Invariant == Spec => []IInv
BY InitIInv, StepIInv, PTL DEF Spec

-----------------------------------------------------------------------------
(* The others *)

\* Publishing an edited config changes who claims a lock entry for nobody: the
\* tool was declared before, and is after.
LEMMA ClaimsStay ==
    ASSUME IInv, RewriteConfig, NEW c, NEW n
    PROVE  Contested(c, n)' = Contested(c, n)
<1>1. /\ plan.config \in Configs /\ plan.tool \in Keys /\ TypeOK
      /\ decl' = [decl EXCEPT ![plan.config][plan.tool] = Rewritten(plan)]
  BY RewriteStep, PlanTypes DEF IInv, TypeOK, RewriteConfig
<1>2. decl[plan.config][plan.tool] # <<>>
  BY RewriteStep DEF Declared
<1>3. decl'[plan.config][plan.tool] # <<>>
  BY RewriteStep DEF ReadyToPrune, Declared, RewriteConfig
<1>4. ASSUME NEW d \in Configs, NEW k \in Keys
      PROVE  decl'[d][k] # <<>> <=> decl[d][k] # <<>>
  <2>1. CASE d = plan.config /\ k = plan.tool
    BY <2>1, <1>2, <1>3
  <2>2. CASE ~(d = plan.config /\ k = plan.tool)
    BY <2>2, <1>1 DEF TypeOK
  <2>3. QED
    BY <2>1, <2>2
<1>5. Claimants(c, n)' = Claimants(c, n)
  BY <1>4 DEF Claimants, Sharing
<1>6. QED
  BY <1>5 DEF Contested

\* The prune drops nothing under a name that another declaration could own.
LEMMA OtherEntriesStay ==
    ASSUME IInv, PruneLock, NEW c \in Configs, NEW k \in Keys, NEW n \in CandidateNames(k),
           decl[c][k] # <<>>, <<c, k>> # <<plan.config, plan.tool>>
    PROVE  lock'[LockOf[c]][n] = lock[LockOf[c]][n]
<1>1. plan \in Plans /\ TypeOK /\ ReadyToPrune(plan)
  BY DEF IInv, TypeOK, PruneLock
<1>2. plan.config \in Configs /\ plan.tool \in Keys
  BY <1>1, PlanTypes
<1>3. SUFFICES ASSUME LockOf[c] = LockOf[plan.config], n \in PruneKeys(plan)
               PROVE  FALSE
  BY <1>1, PrunedLock, CandidatesAreNames
<1>4. <<c, k>> \in Claimants(plan.config, n)
  BY <1>3 DEF Claimants, Sharing
<1>5. decl[plan.config][plan.tool] # <<>>
  BY <1>1 DEF ReadyToPrune, Declared
<1>6. <<plan.config, plan.tool>> \in Claimants(plan.config, n)
  BY <1>2, <1>3, <1>5 DEF Claimants, Sharing, PruneKeys
<1>7. QED
  BY <1>3, <1>4, <1>6 DEF PruneKeys, Contested

-----------------------------------------------------------------------------
(* The theorems *)

\* The types hold in every reachable state.
THEOREM TypesAreKept == Spec => []TypeOK
BY Invariant, PTL DEF IInv

\* After a fix that reports success no scan reports the tool at a version of the
\* finding, whatever was declared, recorded and interrupted before.
THEOREM FixesAreEffective == Spec => []FixIsEffective
BY Invariant, PTL DEF IInv

\* Wherever a fix was cut off between the config and the lockfile, running it
\* again finds its edit and can go on to the prune.
THEOREM RetriesCanFinish == Spec => []RetryCanFinish
BY Invariant, PTL DEF IInv

\* No step of a fix changes what a scan reports for another declaration, in the
\* same config or in one that shares its lockfile.
THEOREM OthersAreLeftAlone == Spec => FixLeavesOthersAlone
<1>1. IInv /\ [Next]_vars =>
          [~AtRest =>
              \A c \in Configs, k \in Keys :
                  <<c, k>> # <<plan.config, plan.tool>> =>
                      Reported(c, k)' = Reported(c, k)]_vars
  <2> SUFFICES ASSUME IInv, Next, ~AtRest, NEW c \in Configs, NEW k \in Keys,
                      <<c, k>> # <<plan.config, plan.tool>>
               PROVE  Reported(c, k)' = Reported(c, k)
    OBVIOUS
  <2>1. CASE RewriteConfig
    <3>1. plan.config \in Configs /\ plan.tool \in Keys /\ TypeOK
      BY <2>1, PlanTypes DEF IInv, TypeOK, RewriteConfig
    <3>2. decl'[c][k] = decl[c][k]
      BY <2>1, <3>1 DEF TypeOK, RewriteConfig
    <3>3. UNCHANGED <<lock, broken>>
      BY <2>1 DEF RewriteConfig
    <3>4. ASSUME NEW r PROVE Resolved(c, k, r)' = Resolved(c, k, r)
      BY <2>1, <3>3, ClaimsStay, ResolvedStays
    <3>5. QED
      BY <3>2, <3>3, <3>4 DEF Reported
  <2>2. CASE PruneLock
    <3>1. UNCHANGED <<decl, broken>>
      BY <2>2 DEF PruneLock
    <3>2. CASE decl[c][k] = <<>>
      <4>1. 1..Len(decl[c][k]) = {} /\ 1..Len(decl'[c][k]) = {}
        BY <3>1, <3>2
      <4>2. Reported(c, k) = {} /\ Reported(c, k)' = {}
        BY <4>1 DEF Reported
      <4>3. QED
        BY <4>2
    <3>3. CASE decl[c][k] # <<>>
      <4>1. ASSUME NEW n PROVE Contested(c, n)' = Contested(c, n)
        BY <3>1 DEF Contested, Claimants
      <4>2. ASSUME NEW r PROVE Resolved(c, k, r)' = Resolved(c, k, r)
        BY <2>2, <3>1, <3>3, <4>1, OtherEntriesStay, ResolvedStays
      <4>3. QED
        BY <3>1, <4>2 DEF Reported
    <3>4. QED
      BY <3>2, <3>3
  <2>3. CASE FindRewritten \/ Refuse \/ FailIO \/ Crash
    <3>1. UNCHANGED <<decl, lock, broken>>
      BY <2>3 DEF FindRewritten, Refuse, FailIO, Crash
    <3>2. QED
      BY <3>1, ReportedStays
  <2>4. QED
    BY <2>1, <2>2, <2>3
    DEF Next, Fix, User, Start, EditConfig, ToggleParse, MiseInstall
<1>2. QED
  BY <1>1, Invariant, PTL DEF Spec, FixLeavesOthersAlone

\* No step of a fix drops a lock entry that a declaration matches exactly, of
\* the fixed tool or of any other.
THEOREM NeededEntriesAreKept == Spec => NeededEntriesSurvive
<1>1. IInv /\ [Next]_vars =>
          [~AtRest =>
              \A c \in Configs, k \in Keys : \A n \in CandidateNames(k) :
                  MayMatch(c, k, n)' =>
                      (Declared(c, k)' \cap lock[LockOf[c]][n])
                          \subseteq lock'[LockOf[c]][n]]_vars
  <2> SUFFICES ASSUME IInv, Next, ~AtRest,
                      NEW c \in Configs, NEW k \in Keys, NEW n \in CandidateNames(k)
               PROVE  Declared(c, k)' \cap lock[LockOf[c]][n] \subseteq lock'[LockOf[c]][n]
    OBVIOUS
  <2>1. CASE PruneLock
    <3>1. Declared(c, k)' = Declared(c, k)
      BY <2>1 DEF PruneLock, Declared
    <3>2. QED
      BY <2>1, <3>1, PruneKeepsDeclared
  <2>2. CASE RewriteConfig \/ FindRewritten \/ Refuse \/ FailIO \/ Crash
    BY <2>2 DEF RewriteConfig, FindRewritten, Refuse, FailIO, Crash
  <2>3. QED
    BY <2>1, <2>2 DEF Next, Fix, User, Start, EditConfig, ToggleParse, MiseInstall
<1>2. QED
  BY <1>1, Invariant, PTL DEF Spec, NeededEntriesSurvive

=============================================================================
