------------------------------- MODULE MiseFix -------------------------------
(***************************************************************************)
(* A mise fix: applyMiseUpdate (internal/remediation/apply.go) bumps a     *)
(* tool in a mise config (internal/pin/mise/writer.go) and then prunes the *)
(* lock entries of the replaced versions from the lockfile the config      *)
(* shares with others (internal/mise).  The two files are published one    *)
(* after the other, each atomically; a crash or an I/O error between them  *)
(* leaves the config edited and the lockfile stale, and the user runs the  *)
(* fix again.                                                              *)
(*                                                                         *)
(* What a scan reports for a declaration afterwards comes from the same    *)
(* lockfile (Lockfile.Lookup, misex.Extract), so the readers are modelled  *)
(* beside the writer.  Spellings of one release (mise.SameVersion) are one *)
(* value; the text of the files is not modelled.                           *)
(***************************************************************************)
EXTENDS Naturals, Sequences

CONSTANTS
    Configs,    \* the mise configs of the repository
    LockOf,     \* LockOf[c]: the lockfile c locks into, symlinks resolved
    Keys,       \* the [tools] keys a config may declare
    Short,      \* Short[k]: k without its backend prefix (itself if none)
    Versions,   \* the concrete releases
    Requests,   \* what a declaration may ask for: Versions and selectors
    Selects,    \* Selects[r]: the releases request r may resolve to
    Order,      \* Order[r]: where r stands among releases, 0 if it has no order
    Plans,      \* the fixes: [config, tool, currents, target]
    Declarable, \* Declarable[c][k]: what the user may write for k in c
    NoPlan

Locks == {LockOf[c] : c \in Configs}
Names == Keys \cup {Short[k] : k \in Keys}

ASSUME MiseAssumption ==
    /\ Versions \subseteq Requests
    /\ Short \in [Keys -> Names]
    /\ Selects \in [Requests -> SUBSET Versions]
    /\ \A v \in Versions : Selects[v] = {v} /\ Order[v] > 0
    /\ Order \in [Requests -> Nat]
    /\ Declarable \in [Configs -> [Keys -> SUBSET Seq(Requests)]]
    /\ Plans \subseteq [config : Configs, tool : Keys,
                        currents : SUBSET Versions, target : Versions]
    /\ NoPlan \notin Plans

\* The planner proposes a release above every version of the finding.
ASSUME PlansGoForward ==
    \A p \in Plans : \A v \in p.currents : Order[v] < Order[p.target]

VARIABLES
    decl,       \* decl[c][k]: the versions config c declares for k, in order
    lock,       \* lock[l][n]: the versions lockfile l records under name n
    broken,     \* the configs mise.Parse cannot read
    pc,         \* where the fix stands
    plan,       \* the fix being applied, or the last one
    unfinished  \* history: the fix whose config edit is out but not its prune

vars == <<decl, lock, broken, pc, plan, unfinished>>

-----------------------------------------------------------------------------
\* ConfigsSharingLock.
Sharing(c) == {d \in Configs : LockOf[d] = LockOf[c]}

\* LockCandidateNames.
CandidateNames(k) == {Short[k], k}

\* Mutant of Claimants: only the config being edited is counted.
MutOwnClaimants(c, n) ==
    {x \in {c} \X Keys : decl[x[1]][x[2]] # <<>> /\ n \in CandidateNames(x[2])}

\* NameClaims, summed by countClaims over the configs that share the lockfile:
\* the declarations that could own an entry under name n.
Claimants(c, n) ==
    {x \in Sharing(c) \X Keys : decl[x[1]][x[2]] # <<>> /\ n \in CandidateNames(x[2])}

\* nameContested: a second declaration could own the entry.
Contested(c, n) == \E a, b \in Claimants(c, n) : a # b

\* LockClaims fails when a sharing config cannot be parsed.
OwnershipKnown(c) == Sharing(c) \cap broken = {}

\* MayMatchLockName: the literal key is the declaration's own at the version
\* it spells, any other name only when no second declaration claims it.
MayMatch(c, k, n) == n = k \/ ~Contested(c, n)

\* Lockfile.Sole, with MayBorrowSoleLockEntry before it.
Lends(c, n, v) == ~Contested(c, n) /\ lock[LockOf[c]][n] = {v}

\* Lockfile.Lookup for request r of declaration k in c, followed by
\* misex.Extract: the locked version when there is one, else the request.
Resolved(c, k, r) ==
    LET exact == \E n \in CandidateNames(k) :
                     MayMatch(c, k, n) /\ r \in lock[LockOf[c]][n]
        lent(n) == {v \in Versions : Lends(c, n, v)}
    IN  IF exact \/ ~OwnershipKnown(c) THEN r
        ELSE IF lent(Short[k]) # {} THEN CHOOSE v \in lent(Short[k]) : TRUE
        ELSE IF lent(k) # {} THEN CHOOSE v \in lent(k) : TRUE
        ELSE r

\* misex.Extract: the versions a scan reports for tool k of config c.
Reported(c, k) ==
    IF c \in broken THEN {}
    ELSE {Resolved(c, k, decl[c][k][i]) : i \in 1..Len(decl[c][k])}

-----------------------------------------------------------------------------
\* declaresNewerThan: writing the target would be a downgrade.
DeclaresNewer(p, r) == p.currents # {} /\ Order[r] > Order[p.target]

\* selectorTargetsCurrent.
TargetsCurrent(p, r) == p.currents = {} \/ p.currents \cap Selects[r] # {}

\* Mutant of Rewritten: a bump past the release the plan names.
MutOvershoot(p) ==
    [i \in 1..Len(decl[p.config][p.tool]) |-> p.target + 1]

\* replaceEntryVersion: a sole declaration is also replaced when its selector
\* could resolve to a current version; of several, only those naming one are.
Rewritten(p) ==
    LET s == decl[p.config][p.tool]
        hit(r) == /\ ~DeclaresNewer(p, r)
                  /\ IF Len(s) = 1 THEN TargetsCurrent(p, r) ELSE r \in p.currents
    IN  [i \in 1..Len(s) |-> IF hit(s[i]) THEN p.target ELSE s[i]]

Declared(c, k) == {decl[c][k][i] : i \in 1..Len(decl[c][k])}

\* rewriteToolsTable edits the declaration.
Applies(p) == Rewritten(p) # decl[p.config][p.tool]

\* Mutant of AlreadyAt: the rewrite is not idempotent.
MutNeverAlready(p) == FALSE /\ p = p

\* alreadyAtVersion: an earlier run applied this edit.
AlreadyAt(p) ==
    /\ p.config \notin broken
    /\ p.target \in Declared(p.config, p.tool)
    /\ IF p.currents = {} THEN Len(decl[p.config][p.tool]) = 1
       ELSE p.currents \cap Declared(p.config, p.tool) = {}

\* Mutant of PruneKeys: unresolved ownership prunes the exact key.
MutPruneUnowned(p) ==
    {n \in CandidateNames(p.tool) :
        n = p.tool \/ (OwnershipKnown(p.config) /\ ~Contested(p.config, n))}

\* miseLockKeys: the names no other declaration could own.
PruneKeys(p) ==
    {n \in CandidateNames(p.tool) :
        OwnershipKnown(p.config) /\ ~Contested(p.config, n)}

\* declaresOnlyNewVersion, asked of the edited config.
Exclusive(p) ==
    /\ p.config \notin broken
    /\ Declared(p.config, p.tool) = {p.target}

\* Mutant of Stale: off by a version, the replaced entry stays.
MutStaleKeeps(p, v) == v # p.target /\ v \notin p.currents

\* Mutant of Stale: whatever the fix did not write is stale.
MutStaleAll(p, v) == v # p.target

\* The staleness rule of pruneStaleMiseLock.
Stale(p, v) ==
    IF p.currents # {} /\ ~Exclusive(p) THEN v \in p.currents ELSE v # p.target

-----------------------------------------------------------------------------
Init ==
    /\ decl \in {d \in [Configs -> [Keys -> UNION {Declarable[c][k] :
                                        c \in Configs, k \in Keys}]] :
                    \A c \in Configs, k \in Keys : d[c][k] \in Declarable[c][k]}
    /\ lock \in [Locks -> [Names -> SUBSET Versions]]
    /\ broken = {}
    /\ pc = "idle"
    /\ plan = NoPlan
    /\ unfinished = NoPlan

AtRest == pc \in {"idle", "ok", "failed", "crashed"}

\* The user, or a plan's next step, runs fix p (for the first time or again).
Start(p) ==
    /\ AtRest
    /\ plan' = p
    /\ pc' = "rewrite"
    /\ UNCHANGED <<decl, lock, broken, unfinished>>

\* RewriteToolVersion publishes the edited config ...
RewriteConfig ==
    /\ pc = "rewrite"
    /\ Applies(plan)
    /\ decl' = [decl EXCEPT ![plan.config][plan.tool] = Rewritten(plan)]
    /\ unfinished' = plan
    /\ pc' = "prune"
    /\ UNCHANGED <<lock, broken, plan>>

\* ... or finds its edit already there ...
FindRewritten ==
    /\ pc = "rewrite"
    /\ ~Applies(plan)
    /\ AlreadyAt(plan)
    /\ pc' = "prune"
    /\ UNCHANGED <<decl, lock, broken, plan, unfinished>>

\* ... or refuses a declaration the finding does not describe.
Refuse ==
    /\ pc = "rewrite"
    /\ ~Applies(plan)
    /\ ~AlreadyAt(plan)
    /\ pc' = "failed"
    /\ UNCHANGED <<decl, lock, broken, plan, unfinished>>

\* pruneStaleMiseLock removes the stale entries under the names the tool owns.
PruneLock ==
    /\ pc = "prune"
    /\ lock' = [lock EXCEPT ![LockOf[plan.config]] =
                   [n \in Names |-> IF n \in PruneKeys(plan)
                                    THEN {v \in @[n] : ~Stale(plan, v)}
                                    ELSE @[n]]]
    /\ unfinished' = NoPlan
    /\ pc' = "ok"
    /\ UNCHANGED <<decl, broken, plan>>

\* Opening, reading or replacing a file fails; what is published stays.
FailIO ==
    /\ pc \in {"rewrite", "prune"}
    /\ pc' = "failed"
    /\ UNCHANGED <<decl, lock, broken, plan, unfinished>>

\* The process dies; ReplaceFileAtomically left each file old or new.
Crash ==
    /\ pc \in {"rewrite", "prune"}
    /\ pc' = "crashed"
    /\ UNCHANGED <<decl, lock, broken, plan, unfinished>>

Fix == RewriteConfig \/ FindRewritten \/ Refuse \/ PruneLock \/ FailIO \/ Crash

\* Between two fixes the user edits a declaration ...
EditConfig(c, k) ==
    /\ AtRest
    /\ \E s \in Declarable[c][k] : decl' = [decl EXCEPT ![c][k] = s]
    /\ pc' = "idle"
    /\ plan' = NoPlan
    /\ unfinished' = NoPlan
    /\ UNCHANGED <<lock, broken>>

\* ... leaves a config unparsable or repairs it ...
ToggleParse(c) ==
    /\ AtRest
    /\ broken' = IF c \in broken THEN broken \ {c} ELSE broken \cup {c}
    /\ pc' = "idle"
    /\ plan' = NoPlan
    /\ unfinished' = NoPlan
    /\ UNCHANGED <<decl, lock>>

\* ... or runs mise install, which records what a declaration resolves to.
MiseInstall(c, k) ==
    /\ AtRest
    /\ \E r \in Declared(c, k) : \E v \in Selects[r] :
           lock' = [lock EXCEPT ![LockOf[c]][k] = @ \cup {v}]
    /\ pc' = "idle"
    /\ plan' = NoPlan
    /\ UNCHANGED <<decl, broken, unfinished>>

User == \E c \in Configs : ToggleParse(c)
                           \/ \E k \in Keys : EditConfig(c, k) \/ MiseInstall(c, k)

Next == (\E p \in Plans : Start(p)) \/ Fix \/ User

Spec == Init /\ [][Next]_vars

-----------------------------------------------------------------------------
TypeOK ==
    /\ decl \in [Configs -> [Keys -> Seq(Requests)]]
    /\ lock \in [Locks -> [Names -> SUBSET Versions]]
    /\ broken \in SUBSET Configs
    /\ pc \in {"idle", "rewrite", "prune", "ok", "failed", "crashed"}
    /\ plan \in Plans \cup {NoPlan}
    /\ unfinished \in Plans \cup {NoPlan}
    /\ pc \notin {"idle"} => plan # NoPlan

\* A fix that reports success is one the next scan agrees with: the tool is
\* no longer reported at any version of the finding (applyMiseUpdate prunes
\* "so lock resolution cannot keep substituting the vulnerable version").
FixIsEffective ==
    pc = "ok" => Reported(plan.config, plan.tool) \cap plan.currents = {}

\* A fix whose config edit is out can always be run again to the end
\* ("without this a failure in that later work would be unrecoverable").
RetryCanFinish ==
    unfinished # NoPlan /\ unfinished.config \notin broken =>
        Applies(unfinished) \/ AlreadyAt(unfinished)

\* A fix changes what is reported for no declaration but the one it edits,
\* whichever configs share the lockfile and whatever names they share.
FixLeavesOthersAlone ==
    [][~AtRest =>
          \A c \in Configs, k \in Keys :
              <<c, k>> # <<plan.config, plan.tool>> =>
                  Reported(c, k)' = Reported(c, k)]_vars

\* Pruning keeps every entry, and its checksums, that some declaration matches
\* exactly: "nothing else installs from them" is true of what goes.
NeededEntriesSurvive ==
    [][~AtRest =>
          \A c \in Configs, k \in Keys : \A n \in CandidateNames(k) :
              MayMatch(c, k, n)' =>
                  (Declared(c, k)' \cap lock[LockOf[c]][n])
                      \subseteq lock'[LockOf[c]][n]]_vars

\* "Keeping them is how a fix reintroduces a version it was never asked about,
\* since the last obsolete entry left standing is a sole entry": pruning never
\* makes the scan report the tool at a version that it did not report before
\* and that the config does not ask for.
PruneReintroducesNothing ==
    [][pc = "prune" =>
          \A v \in Reported(plan.config, plan.tool)' :
              \/ v \in Reported(plan.config, plan.tool)
              \/ \E r \in Declared(plan.config, plan.tool)' : v \in Selects[r]]_vars

=============================================================================
