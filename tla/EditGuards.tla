----------------------------- MODULE EditGuards -----------------------------
(***************************************************************************)
(* The edit guards of internal/remediation/apply.go: fileEdits orders the  *)
(* read-compute-write edits that concurrent ApplyDeputyCommand calls of    *)
(* one process perform.  A guard is keyed by the working tree of the call; *)
(* calls whose trees overlap take turns, calls on unrelated trees run at   *)
(* once.                                                                   *)
(*                                                                         *)
(* Every critical section under editGuards.mu is one action: checking the  *)
(* held keys and either claiming the key or going to sleep (Cond.Wait      *)
(* enqueues the caller before it unlocks), and deleting the key.  The      *)
(* broadcast comes after the unlock and is an action of its own.           *)
(***************************************************************************)
EXTENDS Naturals, Sequences

CONSTANTS
    Calls,      \* the invocations of ApplyDeputyCommand, one goroutine each
    Files,      \* the files of every working tree, symlinks resolved
    Targets,    \* Targets[c]: the files call c edits, in the order it does
    Trees,      \* the working trees, as resolved absolute paths
    Unknown,    \* the identity of a directory that cannot be resolved
    Identity,   \* Identity[c]: treeIdentity of the directory call c is given
    Contains,   \* the pairs <<t, u>> of trees with u inside t
    FilesUnder, \* FilesUnder[t]: the files reachable in tree t
    Stuck,      \* calls whose file I/O may hang for ever (a dead mount)
    InPlace     \* calls that write with os.WriteFile, which truncates first

Keys == Trees \cup {Unknown}

ASSUME CallsAssumption ==
    /\ Targets \in [Calls -> Seq(Files)]
    /\ \A c \in Calls : Targets[c] # <<>>
    /\ Identity \in [Calls -> Keys]
    /\ Contains \in SUBSET (Trees \X Trees)
    /\ FilesUnder \in [Trees -> SUBSET Files]
    /\ Stuck \in SUBSET Calls
    /\ InPlace \in SUBSET Calls
    /\ Unknown \notin Trees

\* safeJoinPath and os.Root keep a call inside the tree it was given.
ASSUME TargetsAreInTree ==
    \A c \in Calls : Identity[c] # Unknown =>
        \A i \in 1..Len(Targets[c]) : Targets[c][i] \in FilesUnder[Identity[c]]

\* A file has one resolved path, so of two trees that reach it one contains
\* the other.
ASSUME SharedFilesAreNested ==
    \A t, u \in Trees : FilesUnder[t] \cap FilesUnder[u] # {} =>
        t = u \/ <<t, u>> \in Contains \/ <<u, t>> \in Contains

-----------------------------------------------------------------------------
VARIABLES
    held,       \* editGuards.held: the keys of the edits in flight
    pc,         \* pc[c]: where the goroutine of call c stands
    step,       \* step[c]: the index in Targets[c] of the file being edited
    snap,       \* snap[c]: the content call c read and computes its edit from
    content,    \* content[f]: the calls whose edit the bytes of f contain
    wrote,      \* history: the files call c has published an edit to
    torn,       \* history: the file that call c truncated and has not written
    result      \* result[c]: the error value call c returns, once decided

vars == <<held, pc, step, snap, content, wrote, torn, result>>

\* Mutant of TreesOverlap: only a tree given to the later call that lies
\* inside the held one counts as nested.
MutNestedOneWay(a, b) ==
    a = Unknown \/ b = Unknown \/ a = b \/ <<a, b>> \in Contains

\* Mutant of TreesOverlap: a tree that cannot be placed overlaps nothing else.
MutUnknownIsATree(a, b) ==
    a = b \/ <<a, b>> \in Contains \/ <<b, a>> \in Contains

\* treesOverlap: the same tree, one inside the other, or one of them unknown.
TreesOverlap(a, b) ==
    \/ a = Unknown
    \/ b = Unknown
    \/ a = b
    \/ <<a, b>> \in Contains
    \/ <<b, a>> \in Contains

\* Mutant of OverlapsHeld: one lock per tree.
MutSameKey(key) == key \in held

\* Mutant of OverlapsHeld: one lock for the process.
MutAnyHeld(key) == held # {}

\* overlapsHeldLocked: an edit is in flight against a tree sharing files.
OverlapsHeld(key) == \E h \in held : TreesOverlap(h, key)

Target(c) == Targets[c][step[c]]

Init ==
    /\ held = {}
    /\ pc = [c \in Calls |-> "start"]
    /\ step = [c \in Calls |-> 1]
    /\ snap = [c \in Calls |-> {}]
    /\ content = [f \in Files |-> {}]
    /\ wrote = [c \in Calls |-> {}]
    /\ torn = [c \in Calls |-> {}]
    /\ result = [c \in Calls |-> "pending"]

Goto(c, label) == pc' = [pc EXCEPT ![c] = label]

\* The command does not parse: the call returns before it takes a guard.
Reject(c) ==
    /\ pc[c] = "start"
    /\ Goto(c, "done")
    /\ result' = [result EXCEPT ![c] = "failed"]
    /\ UNCHANGED <<held, step, snap, content, wrote, torn>>

\* guard: an overlapping edit is in flight, so the caller waits on the cond.
Wait(c) ==
    /\ pc[c] \in {"start", "woken"}
    /\ OverlapsHeld(Identity[c])
    /\ Goto(c, "asleep")
    /\ UNCHANGED <<held, step, snap, content, wrote, torn, result>>

\* guard: nothing overlaps, so the caller claims its key and goes on.
Claim(c) ==
    /\ pc[c] \in {"start", "woken"}
    /\ ~OverlapsHeld(Identity[c])
    /\ held' = held \cup {Identity[c]}
    /\ Goto(c, "read")
    /\ UNCHANGED <<step, snap, content, wrote, torn, result>>

\* The command reads the file it is about to edit.
Read(c) ==
    /\ pc[c] = "read"
    /\ snap' = [snap EXCEPT ![c] = content[Target(c)]]
    /\ Goto(c, "write")
    /\ UNCHANGED <<held, step, content, wrote, torn, result>>

\* os.WriteFile empties the file before it writes it; what a mise fix publishes
\* is renamed over the file in one step (ReplaceFileAtomically).
Truncate(c) ==
    /\ pc[c] = "write" /\ c \in InPlace
    /\ content' = [content EXCEPT ![Target(c)] = {}]
    /\ torn' = [torn EXCEPT ![c] = {Target(c)}]
    /\ Goto(c, "fill")
    /\ UNCHANGED <<held, step, snap, wrote, result>>

Publishes(c) == pc[c] = IF c \in InPlace THEN "fill" ELSE "write"

\* Mutant of Write: the last file is taken for one more to come.
MutWriteOffByOne(c) ==
    /\ Publishes(c)
    /\ content' = [content EXCEPT ![Target(c)] = snap[c] \cup {c}]
    /\ wrote' = [wrote EXCEPT ![c] = @ \cup {Target(c)}]
    /\ torn' = [torn EXCEPT ![c] = {}]
    /\ IF step[c] <= Len(Targets[c])
       THEN /\ step' = [step EXCEPT ![c] = @ + 1]
            /\ Goto(c, "read")
            /\ UNCHANGED result
       ELSE /\ result' = [result EXCEPT ![c] = "ok"]
            /\ Goto(c, "release")
            /\ UNCHANGED step
    /\ UNCHANGED <<held, snap>>

\* The command publishes what it computed from the bytes it read, and goes on
\* to the next file it has to edit or returns.
Write(c) ==
    /\ Publishes(c)
    /\ content' = [content EXCEPT ![Target(c)] = snap[c] \cup {c}]
    /\ wrote' = [wrote EXCEPT ![c] = @ \cup {Target(c)}]
    /\ torn' = [torn EXCEPT ![c] = {}]
    /\ IF step[c] < Len(Targets[c])
       THEN /\ step' = [step EXCEPT ![c] = @ + 1]
            /\ Goto(c, "read")
            /\ UNCHANGED result
       ELSE /\ result' = [result EXCEPT ![c] = "ok"]
            /\ Goto(c, "release")
            /\ UNCHANGED step
    /\ UNCHANGED <<held, snap>>

\* Nothing in the lockfile is stale: the command returns without writing it.
\* Only the files after the one the command names may be left alone.
LeaveAlone(c) ==
    /\ pc[c] = "write"
    /\ step[c] > 1
    /\ result' = [result EXCEPT ![c] = "ok"]
    /\ Goto(c, "release")
    /\ UNCHANGED <<held, step, snap, content, wrote, torn>>

\* Mutant of Fail: the error path returns without the release.
MutFailKeepsKey(c) ==
    /\ pc[c] \in {"read", "write"}
    /\ result' = [result EXCEPT ![c] = "failed"]
    /\ Goto(c, "done")
    /\ UNCHANGED <<held, step, snap, content, wrote, torn>>

\* A path outside the tree, an unreadable file, no match for the reference, or a
\* publication that fails: the command returns an error, its earlier edits stay.
Fail(c) ==
    /\ pc[c] \in {"read", "write"}
    /\ result' = [result EXCEPT ![c] = "failed"]
    /\ Goto(c, "release")
    /\ UNCHANGED <<held, step, snap, content, wrote, torn>>

\* A full disk or a short write leaves the truncated file with the beginning of
\* what was to be written: any of the edits may be missing from it.
Tear(c) ==
    /\ pc[c] = "fill"
    /\ \E rest \in SUBSET (snap[c] \cup {c}) :
           content' = [content EXCEPT ![Target(c)] = rest]
    /\ result' = [result EXCEPT ![c] = "failed"]
    /\ Goto(c, "release")
    /\ UNCHANGED <<held, step, snap, wrote, torn>>

\* The deferred release deletes the key under the mutex ...
Release(c) ==
    /\ pc[c] = "release"
    /\ held' = held \ {Identity[c]}
    /\ Goto(c, "broadcast")
    /\ UNCHANGED <<step, snap, content, wrote, torn, result>>

\* Mutant of Broadcast: Signal, which wakes one waiter.
MutSignal(c) ==
    /\ pc[c] = "broadcast"
    /\ \/ \E w \in Calls :
              /\ pc[w] = "asleep"
              /\ pc' = [pc EXCEPT ![c] = "done", ![w] = "woken"]
       \/ /\ \A w \in Calls : pc[w] # "asleep"
          /\ Goto(c, "done")
    /\ UNCHANGED <<held, step, snap, content, wrote, torn, result>>

\* ... and wakes every waiter after unlocking it.
Broadcast(c) ==
    /\ pc[c] = "broadcast"
    /\ pc' = [d \in Calls |->
                 IF d = c THEN "done"
                 ELSE IF pc[d] = "asleep" THEN "woken" ELSE pc[d]]
    /\ UNCHANGED <<held, step, snap, content, wrote, torn, result>>

Done == \A c \in Calls : pc[c] = "done"

\* Every call has returned: the process has nothing left to do here.
Finished == Done /\ UNCHANGED vars

FileIO(c) == Read(c) \/ Truncate(c) \/ Write(c) \/ LeaveAlone(c) \/ Fail(c) \/ Tear(c)

Guarding(c) == Reject(c) \/ Wait(c) \/ Claim(c) \/ Release(c) \/ Broadcast(c)

Next == (\E c \in Calls : Guarding(c) \/ FileIO(c)) \/ Finished

Spec == Init /\ [][Next]_vars

\* A goroutine that can run is eventually scheduled, and the file I/O of a
\* call that is not stuck eventually returns.
Fairness ==
    /\ \A c \in Calls : WF_vars(Guarding(c))
    /\ \A c \in Calls \ Stuck : WF_vars(FileIO(c))

FairSpec == Spec /\ Fairness

-----------------------------------------------------------------------------
Editing == {"read", "write", "fill", "release"}

TypeOK ==
    /\ held \in SUBSET Keys
    /\ pc \in [Calls -> {"start", "asleep", "woken", "broadcast", "done"}
                          \cup Editing]
    /\ step \in [Calls -> Nat]
    /\ \A c \in Calls : step[c] \in 1..Len(Targets[c])
    /\ snap \in [Calls -> SUBSET Calls]
    /\ content \in [Files -> SUBSET Calls]
    /\ wrote \in [Calls -> SUBSET Files]
    /\ torn \in [Calls -> SUBSET Files]
    /\ result \in [Calls -> {"pending", "ok", "failed"}]

\* Two calls that edit at once never share a tree: "any two that could touch
\* one file still take turns" (apply.go, editGuards).
OverlappingEditsTakeTurns ==
    \A c, d \in Calls :
        c # d /\ pc[c] \in Editing /\ pc[d] \in Editing =>
            ~TreesOverlap(Identity[c], Identity[d])

\* No edit is written over: a file keeps the edit of every call that published
\* one to it, whatever ran beside it ("the loser's change is silently gone while
\* both report success"), unless a write in place broke the file, and the call
\* that did so never reports success.
NoLostUpdate ==
    \A c \in Calls : \A f \in wrote[c] :
        c \in content[f] \/ \E d \in InPlace : f \in torn[d] /\ result[d] # "ok"

\* "The map is bounded by the number of edits in flight": the held keys are
\* those of the calls that are editing, one entry each.
HeldIsInFlight ==
    /\ held = {Identity[c] : c \in {d \in Calls : pc[d] \in Editing}}
    /\ \A c, d \in Calls :
          /\ pc[c] \in Editing /\ pc[d] \in Editing
          /\ Identity[c] = Identity[d]
          => c = d

\* A sleeping call has someone to wake it: an overlapping edit in flight, or
\* a release whose broadcast is still to come.
NoLostWakeup ==
    \A c \in Calls : pc[c] = "asleep" =>
        \/ OverlapsHeld(Identity[c])
        \/ \E d \in Calls : pc[d] = "broadcast"

\* Every call on a tree that overlaps no stuck call returns, however long the
\* I/O of the stuck ones takes: "a slow read, write, or fsync in one request"
\* does not stall another tenant's remediation.
UnrelatedCallsReturn ==
    \A c \in Calls :
        (\A s \in Stuck : ~TreesOverlap(Identity[c], Identity[s]))
            => <>(pc[c] = "done")

-----------------------------------------------------------------------------
\* The calls whose edit is under way: not yet part of the abstract files.
InFlight == {c \in Calls : pc[c] \in Editing}

\* The calls that have a file broken, and what it held before they did.
Breaking(f) == {c \in InFlight : f \in torn[c]}
Before(f) == IF Breaking(f) = {} THEN content[f] ELSE UNION {snap[c] : c \in Breaking(f)}

\* An edit, or the damage of a failed one, becomes visible when its call
\* releases the guard.
Serial == INSTANCE SerialEdits WITH
    content <- [f \in Files |-> Before(f) \ InFlight],
    outcome <- [c \in Calls |->
                   IF pc[c] \in {"broadcast", "done"}
                   THEN result[c] ELSE "pending"]

\* The guarded edits implement edits that run one at a time.
EditsAreSerial == Serial!Spec

=============================================================================
