# A verification project for Deputy

Deputy (`src/`) is a supply-chain tool written in Go: it takes an inventory of
what a repository or an image is built from, looks its parts up in advisory
databases, plans and applies fixes (by itself or through a coding agent), runs
commands in a sandbox on a reviewed copy of a work tree, and serves all of this
as a command line, a daemon, a dependency proxy and an editor protocol.

This directory holds TLA+ models of the parts of Deputy whose correctness depends
on order, on failure and on who else is running; TLC configurations that check
them on small instances; and proofs, checked by TLAPS, of what matters most, for
every instance.

    tlc -workers 2 -config EditGuards.cfg MCEditGuards      # model-check a run
    tlapm EditGuards_proofs.tla                              # check the proofs

`PROJECT.json` is the index: the components, the runs, which lines of the source
each definition stands for, a mutation that each property catches, the hazards and
the theorems.

Contents: 1 the system and its parts; 2 the modules and the code; 3 the runs and
their bounds; 4 fairness; 5 what is proved; 6 where the code and its words
disagree; 7 what is not modelled; 8 the plan.

## 1. The system and its parts

Most of Deputy is pure: it parses, matches, merges and renders. What keeps state,
and what other parts do to it at the same time, is this.

### Remediation (`internal/remediation`, `internal/mise`, `internal/pin/mise`)

*State*: files of the user's work trees (manifests, workflows, mise configs and
lockfiles); in the process, `fileEdits`, a map of the working trees in which an
edit is in flight.
*Operations*: `ApplyDeputyCommand` applies one in-process edit (a Dockerfile base
image, a workflow action, a mise tool); `Execute` runs a planned external command.
*Interaction*: called by `deputy fix` one step after another, and by the daemon's
`ExecutePlan` from as many goroutines as there are requests, on trees that may
be the same, nested or unrelated.
*Hard*: read-compute-write over shared files; a lock whose granularity is
"overlapping trees"; a fix that publishes two files, with a crash between them; a
lockfile shared by several configs, where an entry may belong to any of them.
*Correct when*: no published edit is lost; a hung file in one tenant's tree does
not stop another's; a fix reported successful is one the next scan agrees with; a
fix interrupted anywhere can be run again; nobody else's tool is touched.

### Agent sessions (`internal/server/remediation_handler.go`, `internal/agent`)

*State*: the map of running sessions, each with a channel of capacity one for
approvals and an execution context.
*Operations*: `ExecuteWithAgent` (a stream), `ApproveStep`, `ResumeAgent`,
`ExecutePlan`, `GeneratePlan`.
*Interaction*: each RPC is a goroutine; `ApproveStep` of one client hands an answer
to the goroutine that serves another. The agent is an external program behind
`internal/agent`.
*Hard*: the lookup and the send are two steps; the session may end between them;
a client may answer twice, early, or never, and may disconnect at any moment.
*Correct when*: an accepted answer reaches its session once and in order; the agent
never passes a request without an answer; the answer taken is the answer to that
question; a session always leaves the map; a wait ends when its client goes.

### Workspace isolation and review (`internal/sandbox/workspace`, `internal/sandbox`, `internal/cli/cmd/exec_review.go`)

*State*: the user's work tree, an isolated copy of it (a snapshot directory, a
tmpfs mount, a git worktree, an overlay, or a masked copy for docker), a list of
changes, a selection.
*Operations*: set up, run the command, compare, show, accept or reject, write back,
tear down; `ReviewSession` offers the same to programs, with partial selections.
*Interaction*: the manager wraps a runtime; the wrapper holds an event inside the
consumer's `yield` while a person decides; that person can edit the original all
the while.
*Hard*: two comparisons and two writers of trees that must agree about kinds
(file, directory, link) and order; writes that fail half way; staleness.
*Correct when*: the review writes what it showed and nothing else; an accepted
review leaves what the command left; no file is ever in neither place; `.git` is
never written; what was hidden stays as it was; an abort does nothing.

### Sandbox executions (`internal/sandbox`, `internal/sandbox/runtimes`, `internal/cli/cmd/exec.go`)

*State*: a child process or a container, its pipes, one reader per output stream, a
channel of a hundred events, an isolated copy, an audit log.
*Operations*: `Manager.Execute` returns an iterator over events; the manager wraps the
isolating runtime, which wraps the runtime; the command line's loop consumes it.
*Interaction*: a `yield` calls up through every layer to the consumer, which may leave
its loop at any event; readers and the child run beside it; a cancelled context kills
some of them.
*Hard*: who still runs when somebody stops early; output in four places when the exit
is known; descendants of the command that keep its pipes open.
*Correct when*: the exit and the review come after all output; nothing of an execution
outlives it; no event follows the consumer's leaving; the audit record tells what
happened; a cancellation ends the execution.

### Key sets (`internal/auth/jwt`)

*State*: the cached key set of a token issuer, the time of the last success, the last
error; a refresh loop with its ticker.
*Operations*: construction (with discovery), a refresh per tick, a forced refresh for an
unknown key at most once per five minutes, `Close`.
*Interaction*: the loop and any number of requests refresh at the same time; each
fetches without the lock and stores under it.
*Hard*: an older answer stored over a newer one; failures that count, or do not
count, against the interval; the issuer rotates its keys meanwhile.
*Correct when*: a cache without an error is fresh; a key that has been published long
enough is found; `Close` returns.

### Proxy decisions (`internal/proxy`, `internal/cache/memory`)

*State*: bounded caches with expiry: the digest (or the failed resolution) of a tag, the
findings about a version or a digest; below them, on disk for a day, the records of
OSV's advisories, which every scan of the machine shares.
*Operations*: one request: resolve, look up or scan, check the tag, evaluate the policy,
forward (rewritten to the digest) or refuse.
*Interaction*: requests share the caches; a registry moves tags, and advisories are
published, between any two steps.
*Hard*: what is judged, what is served and what the tag names are three reads at three
times; failures are cached; entries are refreshed by late answers.
*Correct when*: what is served is what was judged; it was the tag's a bounded time ago;
an advisory takes effect within a bounded time.

### Other parts with state

| part | state | hard about it | why it is not modelled |
| --- | --- | --- | --- |
| agent plugins (`agent/*.go`) | event channel, child process, pipes | a line over the scanner's limit, a client that goes away | the shape of the runtimes; the next candidate (section 8) |
| plan execution (`remediation_handler.go`, `remediation/exec.go`) | step outcomes | a failure or a disconnect half way | a loop; what its steps share is `EditGuards` |
| batch secret scanning (`secrets/detector.go`) | a worker counter, a result channel | the counter is unsynchronised; close and cancel | nothing calls `ScanFiles` |
| advisory expansion (`analysis/osv`) | a shared index behind a singleflight | the flight's context is its first caller's | answers of networks; a lost one is asked for again; what it keeps on disk is in `ProxyDecision` |
| disk cache (`cache/disk`) | JSON files | removal and writing are not atomic | a lost or broken entry is a miss; OSV's records are in `ProxyDecision` |

The complete list of components, with those that keep no state, is in
`PROJECT.json`; section 7 says why each of those is left out.

## 2. The modules and the code

```
SerialEdits  <-- implemented by --  EditGuards  <-- EditGuards_proofs
MiseFix  <-- MiseFix_proofs
AgentSessions  <-- AgentSessions_proofs
WorkspaceTree  <-- extended by --  IsolatedWorkspace  <-- extended by --  WorkspaceReview, ReviewSession
WorkspaceTree_proofs  <-- extended by --  WorkspaceReview_proofs (about both reviews)
EventStream  <-- implemented by --  RuntimeStream  <-- RuntimeStream_proofs
JwksCache  <-- JwksCache_proofs
ProxyDecision  <-- ProxyDecision_proofs
MC*.tla: the instances TLC checks
```

An operation that the code performs under one mutex, or as one system call, is
one action; where the code unlocks, sends, yields or returns there is a step in
between. Operators named `Mut...` are the mutations that `PROJECT.json` pairs with
the properties; no specification uses them.

### `SerialEdits` and `EditGuards` (apply.go)

`SerialEdits` is what callers of `ApplyDeputyCommand` are promised: each call, in
one step, adds its edit to a prefix of its files and reports "ok" or "failed".
A file is the set of calls whose edit its bytes contain, which is exactly what
tells a lost update from a kept one.

`EditGuards` is the code. `held` is `editGuards.held`; `pc` the goroutine of each call.
`Wait` and `Claim` are the two outcomes of the loop in `guard` (checking and either claiming
or enqueueing on the `Cond` is one critical section); `Read`, `Write`, `LeaveAlone` and
`Fail` are the command's file steps (a mise fix edits two files); `Release` deletes the key
and `Broadcast`, after the unlock, wakes every sleeper. A woken call competes again with
newcomers, as `sync.Cond` does. A mise fix renames a new file into place, so its `Write` is
all or nothing. Actions and Dockerfiles are rewritten with `os.WriteFile`, which truncates
first: for the calls in `InPlace` there is a step between, `Truncate`, after which a file
may be `torn`: the write may fail (`Tear`), and what other calls had published in that file
may be gone with it. The call reports that it failed. `SerialEdits` has the step `Break` for
this, so that what is promised is: an edit stays until a call that edits the same file says
that it failed there. pin/mise/writer.go says why the mise writer avoids this. `Identity[c]`
is `treeIdentity`: a directory that cannot be resolved is `Unknown` and overlaps everything.
Two facts about file systems are assumptions: a call edits inside its tree (`safeJoinPath`,
`os.Root`), and of two trees that reach one resolved file one contains the other.

The refinement subtracts from each file the edits still in flight: an edit becomes visible
when its call releases the guard. A file being rewritten in place counts as what it held
before (`Before`), until the release of a call that failed there shows that it is broken.

### `MiseFix` (apply.go, mise/lock.go, pin/mise/writer.go, misex.go)

`decl` is what each config declares for each tool, `lock` what each lockfile records
under each name, `broken` the configs that do not parse. `RewriteConfig` is
`RewriteToolVersion`; `FindRewritten` the already-applied path of a rerun; `PruneLock`
is `pruneStaleMiseLock`. Each file is published atomically; `Crash` and `FailIO` are
possible before either. The readers are modelled beside the writer, because the
property that matters relates the two: `Resolved` is `Lockfile.Lookup`, with the
ownership rules (`MayMatch`, `Lends`, `Claimants`) the writer also uses, and
`Reported` is what a scan then says. Versions are ordered values, requests are
versions or selectors (`"20"`, `"latest"`) with the set of releases they may mean.

### `AgentSessions` (remediation_handler.go)

`sessions` is the handler's map, `approvals` the channels, `phase` the goroutine of
each `ExecuteWithAgent`, `rpc` each `ApproveStep` or `ResumeAgent`. `Approve` is the
lookup under the read lock; `Send`, `RefuseAnswer` and `CallerGone` are the three
ways out of its `select`. `Receive` and `CancelWait` are the two cases of the wait,
both of which may be ready; `Deregister` is the deferred delete. The agent is
the environment: any sequence of requests, then an end. `careful` is chosen once
per behaviour and says whether clients answer only a request they see, and each
one once; the code does not enforce that, so the property that needs it says so.
`accepted` and `taken` are histories.

### `WorkspaceTree`, `IsolatedWorkspace`, `WorkspaceReview`, `ReviewSession` (sandbox/workspace, isolating_runtime.go, docker.go, manager.go, exec_review.go)

`WorkspaceTree` has the data and the pure parts: a tree maps each path to nothing, a
directory, a link or a content; `CopyDir`, `CreateMaskedWorkspace` and
`DiffDirectories` are the functions of those names. The list of changes is a set with
an order, `ListedBefore` (two walks, the deletions last); what a loop over it takes next is
its `First`. Writing primitives give the set of trees a system call can leave, empty when
it is refused. They follow links, as `os.WriteFile` and `os.MkdirAll` do (`Follow`, at most
`MaxHops` times): `Leads` says where each link goes, to a path of the tree or
`Elsewhere`. A write through a link thus changes the file that the link leads to, which no
comparison named, or nothing in the tree. A failed write may leave the file it was to
replace `Torn`.

`IsolatedWorkspace` declares what the two reviews have in common: the original, the copy,
the changes still to be written, and the user, who edits the original.

`WorkspaceReview` is one run of `deputy exec`, from the choice of the isolation to
the teardown; `cfg` is what the flags come to. `SyncChange` is
`pathBasedReviewer.SyncChanges`, one change per step, so that a person's edit or a
failure may fall between any two. Where no isolator can be made
(`WrapFails`) the manager runs the command on the original, and the model does.

`ReviewSession` is the programmatic review over an isolator that still exists, after the
command, which may have left any copy (`Copies`): selections, `ApplySelected` and
`ApplyAll`, which compute the changes anew, retries, discard and preserve. A selected path
is compiled as a glob pattern, and so may fail to compile (`BadGlobs`; the session then
applies nothing and reports success), match other names (`Globs`) and not match itself.
`syncChanges` passes silently over every path with `..` in it (`DottedNames`). Its writer
(`syncChanges`, through `os.Root`) differs from the other in how it makes directories, and
has its own operator. Where both modules have a definition of one kind, the session's name
says so (`SessionSpec`, `SessionSyncNext`), so that one proof can speak of both.

Simplifications: copying is one step with respect to the user's edits; the
overlay mode is not modelled here (its teardown is, in `RuntimeStream`), and a git worktree
behaves as a snapshot; the user edits the paths in `UserPaths`; a link is never as
long as the file it leads to, so that a comparison always finds it; which names a pattern
matches is a relation between names, so that brackets that span a `/`, and names that are
`**`, are left out; masks hide (the kind the command line makes), and do not truncate or
replace; a mount point that the masked copy lacks is made there by the container engine.

### `EventStream` and `RuntimeStream` (sandbox/manager.go, isolating_runtime.go, runtimes/*, cli/cmd/exec.go)

`EventStream` is what a consumer may rely on: which kind of event may come after which, and
that none comes after it has left its loop. `RuntimeStream` is the chain behind it for one
execution, and implements it (`StreamIsWellFormed`). `mgr`, `wr` and `rt` say where
`Manager.Execute`, `IsolatingRuntime.Execute` and the runtime's `Execute` stand; a `yield`
runs every layer above it before it returns, so it is one step (`Yield`, `Give`), and `left`
is its answer. One takes longer: the command line's prompt for a review (`Asks`), which ends
with what a person types (`Answer`), whatever becomes of the context. `Unwind` is what the
runtime's deferred functions do in whatever state the execution is left. `reader`, `holds`,
`pipe` and `chan` are where output can be; `Reap` is sandboxexec's concurrent `cmd.Wait`,
which closes the pipes; `open` says whether a descendant still holds them.

What fails without a word fails here too. `Cut` is docker's attachment breaking: the error
of `StdCopy` is dropped and the pipes are closed as at their end. A container may be
`adrift`: its creation was given up by the client and not by the daemon, or its removal
failed. A copy may be `stuck`: its teardown failed, which is logged at most. `Remains` is
what a teardown leaves in each of the `Modes` (tmpfs nothing, overlay an upper directory
that is no longer mounted, the others the copy, if review or preserve is set); `direct` with
one of these flags is an execution whose wrapper could not be made. Docker, in whatever
isolated mode, makes its own masked copy, and gvisor, which is not wrapped either, none.

Simplifications: one connection to a docker container, which the client splits into two
pipes, is a pipe per stream; the container that
gvisor's docker command started may outlive the kill of that command, and is not
counted as the execution's process; one pull status stands for all; the plugin runtime
is not modelled.

### `JwksCache` (auth/jwt/jwks.go, authenticator.go)

`pc["new"]`, `pc["loop"]` and `pc[p]` are `NewJWKSCache`, `refreshLoop` and the requests;
`Fetched` and `Store` are the two halves of `refresh`, with anything in between. `Rotate` is
the issuer. `absent` and `asof` are histories, of the issuer and of the cached set.
Time is a clock. It is assumed that a refresh ends within `Timeout` (the HTTP client and
the loop's context both have ten seconds) and that the loop takes up a tick, or the
stop, before the clock moves (`Prompt`). A request that finds its key at once changes nothing
and is left out, as are static keys; a client that goes away is a fetch that fails.

### `ProxyDecision` (proxy/oci.go, oci_toctou.go, cache.go, handler*.go, policy_proxy.go, cache/memory)

A request is for a package version, a digest or a tag. `ArriveTag`, `ArriveFailed` and
`ArriveMiss` are the three answers of the cache of resolutions; `ArriveUnread` is a name no
reference can be built for (a repository of one letter), which `ServeHTTP` passes on without
a digest and without findings; `Head`, `Remember` and `HeadFails` the resolution; `Hit`,
`Miss`, `Scan`, `Query`, `Keep` and `LearnFails` the findings; `Blocked` is
`checkMutableTagPolicy`; `Pinned` says whether `rewriteManifestPath` finds the tag, which it
does not where white space surrounds it (`Spaced`); `Forward` answers with what upstream
serves. `Push`, `Publish` and `Serve` are the world: OSV may name an advisory whose record
it does not give. `records` is what `getCachedVuln` keeps on disk, where any scan of the
machine writes it (`FetchRecord`) and it may be lost (`LoseRecord`). `Found` is a scan's
answer: the advisories OSV names for the item now, judged by the record on disk if there is
one. An advisory without a record is a warning, which is dropped, and the answer is cached
without it. `judged` and `verdict` are what the policy sees. `Advance` drops entries past
their time, as `Get` does; `EvictDigest` and `EvictFindings` drop any entry, because the
keys of other requests decide which one is the oldest.

Assumptions: the policy denies what has findings (it may deny anything else); what upstream
serves under a digest or a version does not change; a registry ignores the white space
around a tag; what OSV names, and the records it is judged by, are read at one moment of the
call; an advisory is taken together with its aliases; the other sources answer in full or
fail; a scan ends within `ScanDelay` (the code's timeout), and so does an advisory query
(which has the timeouts of its clients); a registry answers within `HeadDelay`, for which
the code has no limit; `RecordTTL` is the code's day and the time the fetching call took;
time passes only in these calls, so that a licence lookup adds its own duration to the
bounds. Requests without a version, blobs and the other operations of a registry are
forwarded without any of this and are left out, as are the scopes of tenants and listeners.
`Asks` is what each request of an instance may be for.

## 3. The runs and their bounds

| run | instance | checks |
| --- | --- | --- |
| `edit_guards` | 4 calls: a monorepo root (2 files), a directory inside it, an unrelated tree whose I/O may hang, an unresolvable directory; two of them replace files, two rewrite one in place | types, `OverlappingEditsTakeTurns`, `NoLostUpdate`, `HeldIsInFlight`, `NoLostWakeup`, refinement `EditsAreSerial`, liveness `UnrelatedCallsReturn` |
| `mise_fix` | 2 configs sharing a lockfile, a tool and its qualified namesake, 3 releases, a partial and a floating selector, 3 plans; unbounded user edits, installs, crashes and reruns | `FixIsEffective`, `RetryCanFinish`, `FixLeavesOthersAlone`, `NeededEntriesSurvive` |
| `mise_fix_history` | 1 config, 1 tool, 4 releases | violated: `PruneReintroducesNothing` |
| `agent_sessions` | 2 sessions with 2 requests each, 2 operations, 2 calls, capacity 1 | `RegisteredWhileLive`, `AnswersOnceInOrder`, `OneAnswerPerRequest`, `AnswerMatchesQuestion`, liveness `WaitsEnd` |
| `agent_stale_approval` | 1 session | violated: `AcceptedIsPending` |
| `workspace_review` | 5 paths (git's entry, a directory with 2 entries, one beside it), 2 contents, a link into the tree and one out of it; snapshot, tmpfs, worktree and masked copy, reviewed, preserved or neither; 3 edits of the command, 1 of the user | `AcceptedIsWhole`, `OnlyReviewedIsWritten`, `GitIsLeftAlone`, `MovedFilesAreKept` |
| `review_reports` | the same paths, fewer edits | violated: `ReportsOnlyExecuted` |
| `review_session` | 7 paths: one name at two depths, a pattern, a pattern that does not compile, a name with `..`; 11 copies (changed, removed, moved, of another kind, a link); 1 edit of the user, 2 applications | `AppliedLeavesNoChanges`, `SelectedAreApplied` |
| `runtime_stream` | 4 runtimes, 2 kinds of consumer, 4 modes of isolation, every review and preserve flag; 2 streams with 2 and 1 chunks, a pipe and a channel of 1 | refinement `StreamIsWellFormed`, `OutputBeforeExit`, `NothingLeftBehind`, `ShownCopyIsKept`, `AuditTellsTheOutcome`, liveness `CancelEnds` |
| `runtime_cancel` | docker alone | violated: `CancelTerminates` |
| `jwks_cache` | 1 key, the loop and a request beside it, intervals of 2 and 3, a timeout of 1, a clock of 7 | `HealthyIsFresh`, `PublishedIsFound`, liveness `CloseEnds` |
| `proxy_decision` | 2 requests, one of them with white space around its tag, a mutable tag and one no reference can be built for, 2 digests, 1 package, 1 advisory; strict mode; 1 event upstream, times to live of 0 and 1, a clock of 4 | action properties `PullIsPinned`, `VulnerableIsRefused` |

Why these bounds are enough to be interesting:

- *EditGuards* needs a pair of nested trees that are not the same key, a pair that
  is unrelated, an unknown one, a call that edits two files, two calls that edit
  one file, and a third call to steal a claim from a woken one. The instance
  has each. No counter is bounded: a call runs once, which loses nothing, since
  another invocation is another call.
- *MiseFix*: ownership questions are about two claimants of one name, so two
  configs and a tool with a short namesake suffice; a third release tells
  "replaced", "target" and "other" apart, and two releases below the target
  give a selector something to choose from. What a user may write is in
  `MCDeclarable`: a single version, a selector, pairs with and without the
  target, and a pair with a floating selector. Nothing else is bounded.
- *AgentSessions*: `MaxAsks` = 2 is what it takes for an answer to the first
  request to reach the second. Two calls are what it takes for two answers to
  one request, or an answer and a resume. The proofs below have no bounds.
- *WorkspaceReview* and *ReviewSession*: `MaxCommand` = 3 allows a move (write,
  remove) and something in the way of it, or a directory made, filled and
  replaced; a session starts from the copy itself, so that how many edits made it does not
  matter. The two links tell a write that reaches another file of the tree from one that
  leaves it. `MaxUser` = 1 allows one edit at each point of the review, and two
  applications a retry, or a selection and then everything. The proofs have no bounds.
  Contents are interchangeable and are a symmetry set; every property is
  symmetric in them, and neither run has a liveness property.

- *RuntimeStream*: two chunks on one stream and capacities of one make both the pipe and the
  channel block while the other stream still flows; a reader then holds a chunk that is in
  neither. The code's capacity of a hundred only makes that rarer.
- *JwksCache*: the clock lets the ticker fire twice, and a request refresh between the two;
  a refresh may take the whole of its timeout. One request is enough to overlap the loop;
  the proofs are for any number, and for all times.
- *ProxyDecision*: the second request is for the same tag, so that one judges what the other
  cached; the clock lets an entry be made, used and expire while a scan is under way (a time
  to live of 0 is to the end of the tick); one push, one change of the advisory or of
  whether OSV serves it, falls between any two steps. Strict mode is the one that refuses
  and pins; with the others a property says less. The proofs have no bounds and take any
  configuration. The digests are interchangeable (a symmetry set; no liveness).

`CHECK_DEADLOCK FALSE` stands in the agent, workspace, stream, key set and proxy
configurations: a run of `deputy exec` ends, so do the RPCs, and the clocks stop at
their bounds. `EditGuards` has an explicit
`Finished` step instead, so that a deadlock of the guards would be found, and
`MiseFix` never ends.

Every property of a passing run has a mutation of the code in `PROJECT.json` that TLC
finds with the same configuration: dropped guards (`MutReceiveDefault`,
`MutFailKeepsKey`), one-way overlap, `Signal` for `Broadcast`, pruning names nobody
owns, removing a deleted directory with all beneath it, and so on.

## 4. Fairness

- `EditGuards`: weak fairness of each call's guard steps (a goroutine that can run
  is scheduled by Go's runtime; a mutex does not starve), and of its file I/O,
  except for the calls in `Stuck`, whose I/O may hang for ever. Nothing stronger:
  a woken call can lose its turn to a newcomer, which the finite number of calls
  bounds here. With an endless stream of overlapping calls a `sync.Cond` gives no
  such promise, and no property claims it.
- `AgentSessions`: weak fairness of the `select` of a waiting execution and of the
  deferred delete. Nobody has to answer, to disconnect, or to end the agent's run:
  `WaitsEnd` says only that an accepted answer, or a disconnected client, ends a
  wait. Since both cases of the `select` may be ready, either may be chosen.
- `RuntimeStream`: weak fairness of the goroutines of the execution (manager, wrapper,
  runtime, each reader, `Reap`, the context's kill). The command need not write, end or
  be cancelled, and its descendants need not let go of the pipes: `CancelEnds` says what
  follows once it is cancelled, and where descendants matter says so. Neither need a
  person answer: `Answer` is under no fairness, and a cancelled execution ends or waits for that
  answer. A consumer otherwise takes what it is given (it writes to a terminal).
- `JwksCache`: weak fairness of the loop, of its refresh (each fetch is answered or times
  out) and of the last step of `Close`. The clock need not advance.
- The other specifications are checked for safety only.

## 5. What is proved

All theorems are for every value of the constants that meets the named assumptions;
nothing is taken on trust, and each proof has one step per action.

`EditGuards_proofs`, from `CallsAssumption` (types of the constants),
`TargetsAreInTree` and `SharedFilesAreNested`:

- The invariants alone are not inductive. `NoLostUpdate` fails if a call can write
  bytes computed from a stale read, so `IInv` adds `SnapIsCurrent`: whoever is about
  to write still has what the file holds. That is preserved because another
  writer of the same file would be on an overlapping tree (`SharedTargetsOverlap`,
  from the two file-system assumptions), which `OverlappingEditsTakeTurns` excludes,
  which in turn needs `HeldIsInFlight` at each `Claim`. `TornIsOwn`: a file is torn only
  by the one call that is rewriting it or has failed there (and reports so), which is why
  everybody else's edits are kept in every other file (`EditsAreKept`).
- `TypeCorrect`, `TakeTurns`, `EditsSurvive`, `HeldBounded` are its consequences;
  `NoSleeperForgotten` needs a second induction on top of it: a sleeper's blocker is
  in the map until `Release`, and from then on a broadcast is owed.
- `Refines`: `Spec => Serial!Spec`. Its invariant adds that what a call has written
  is the prefix of its targets before `step` (`WritesInOrder`); `Release` maps to
  `Finish`, or to `Break` where the call failed in the middle of a rewrite
  (`BrokenReleaseMaps`), the refusal of a command to `Finish` with no file, every other step
  to a stutter.

`AgentSessions_proofs`, from `SessionsAssumption`:

- `IInv` adds to the checked invariants that the call behind an accepted answer has
  been told so and moves no more (`AcceptedIsTold`), hence that no call's answer
  appears twice, and that a session that has not begun is blank (`NewIsBlank`).
  From it: `AgentTypeCorrect`, `AgentsRegistered`, `AnswersInOrder`,
  `RequestsAnswered`.
- `AnswersMatch`: `Spec => AnswerMatchesQuestion`, an action property, for every
  capacity of the channel. `CInv` says that, when clients are careful, every answer
  under way to a session (found but not sent, or in the channel) names its open
  request (`PendingIsCurrent`), and that two calls never answer one request
  (`AnsweredOnce`); so `Receive` takes the only one there is (`TakenIsCurrent`)
  and leaves nothing behind. It matters that `CancelWait` ends the execution: were
  the agent to go on after a wait that was given up (the mutation
  `MutGiveUpWaiting`), the late answer would be there for its next question.

`JwksCache_proofs`, from `JwksAssumption`, for any keys, requests and intervals and
without a bound on the clock:

- `TypesAreKept`, `HealthyCacheIsFresh`, `PublishedKeyIsFound`. What makes the two properties
  inductive is a bound on everything that can be stored: a refresh under way is no older
  than its timeout, hence neither is what it stored (`RefreshesAreYoung`); a set that
  lacks a key was fetched no later than the key was last missing (`AbsenceIsKept`);
  a request that was told it is too soon came less than an interval after the last
  success (`AskedInTime`); and the ticker is at most so far ahead of the clock and of
  what is cached, in each state of the loop (`Scheduled`).

`ProxyDecision_proofs`, from `ProxyAssumption`, for any tags, items, advisories, requests,
times to live and delays:

- `TypesAreKept`, and the two action properties as `PullsArePinned` and
  `VulnerablesAreRefused`. `IInv` says of every place where a digest or a finding can be how
  long ago it was true at most: in a cache (`DigestsAreRecent`, `FindingsAreRecent`), in the
  hands of a request that calls, and of one that goes on (`ResolvedRecently`,
  `FailedRecently`, `JudgedRecently`), given that no call is overdue (`CallsAreYoung`). The
  step that fails without it is `Keep`, which stores an answer that was on its way: it is as
  old as the call, not as the entry. For findings the ages add up. A record on disk was so
  within `RecordTTL` (`RecordsAreRecent`); a scan that leaves an advisory out has one of two
  excuses (`Excused`, `LeftOut`): the advisory was not about the item as lately as the
  record it read was written, or OSV lacked the record at the scan; the cached findings add
  their own time to either.

`RuntimeStream_proofs`, from `StreamAssumption`, for any of the four
runtimes, any streams, chunks, pipes and channel, with or without isolation:

- `OutputComesBeforeExit`. A chunk is in one of four places, and each can be drained only in
  order. `PumpInOrder` says of each stream that what was written is what passed the reader,
  then the chunk in its hand, then the pipe, without a gap, until a reader ends early and
  says that output is lost; `ChannelInOrder` that the channel goes on where the consumer's
  part ends. From both, `AllIsTold`: once the loop over the channel is over nothing is
  missing that was not said, unless docker's attachment broke (`cut`), of which nothing is
  said: the property has that exception and no other. The step that needs all of it is
  `LoopEnds`; the one that would break it is `Reap`, which closes the pipes under the
  readers and has to be accounted for as a loss (`waited`).
- `NothingIsLeftBehind`, `ShownCopySurvives`: the three layers unwind from the inside out
  (`LayersAgree`), and each layer owns what it has to release: `CopyIsOwned`,
  `ProcessIsOwned`, `ReadersAreOwned`. What the first says is that a release is always
  tried, on every way out: only a container `adrift` or a copy `stuck`, whose release was
  tried and failed, is left. The second says of a reviewed or preserved copy that it is
  there as long as it is shown, and after the execution for docker's copies and snapshots
  (`CopyRemains`).
- `AuditIsTrue`: `ToldSoFar` ties what the consumer has seen to where the layers are (no
  exit after a fatal error, an exit held back while a review is shown), and `AuditFollows`
  the record to both.
- `StreamKeepsItsPromise`: `Spec => Stream!Spec`. A step that yields maps to the step of
  `EventStream` for its event (`EventFits`, `ChunkFits`: what `ToldSoFar` and
  `ChannelInOrder` say is what `Fits` asks), the end of `Manager.Execute` to the end, every
  other step to a stutter. That `Fits` holds of a chunk is `ChannelInOrder` again.

`MiseFix_proofs`, for any tools, names, configs, lockfiles and releases that meet
the assumptions of `MiseFix`:

- `FixesAreEffective`, `RetriesCanFinish`. The promise of the first is about what a scan
  says after the prune; what makes it inductive is what the prune finds
  (`ReadyToPrune`): the tool is declared at the target and at no version of the
  finding, and once only if the finding names none. The edit establishes that, and so
  does a rerun that recognises its own edit (`FindRewritten`), which is why an interrupted
  fix can be taken up again. Then no entry that is left under a name the tool resolves by
  is one of the finding's: an exact match is not, and a sole entry is lent only if it
  survived `Stale`.
- `OthersAreLeftAlone`, `NeededEntriesAreKept`, both action properties: the prune goes
  through the names of the tool that nobody else claims (`PruneKeys`); another
  declaration that resolves by such a name would be a claimant. The entry of a
  declaration that matches exactly is not `Stale`, since the tool's own declaration is the
  only one left that could match.

`WorkspaceTree_proofs` has the lemmas about trees, for any finite set of paths closed under
prefixes. Each write of a listed change leaves a tree (`RemovedIs`, `MakeDirsIs`,
`CopiedIs`) that has the copy's value at the path, and is otherwise what it was but for
missing directories on the way, which the copy has too (`SyncsPath`). That takes a path
without a link (`Straight`); of any other path only what the write reaches is known
(`Touches`). A write makes no link where none was (`NoNewLinks`), so that what is straight
stays so. Hence the tree is `Nearer` to the copy: each path is as it was or as in the copy,
and where a directory came nothing was in the way. `Nearer` is a preorder under which a
comparison finds less (`NearerDiffersLess`), and every old difference is either still found
or right (`NearerKeepsDiffering`). And the list is one: of two paths a walk visits exactly
one first (`WalkIsTotal`, by the least place where they part), so `ListedBefore` is a strict
total order on a comparison's changes (`ListIsOrdered`), and what is left of them has a
`First` (`OneIsFirst`, a minimum of a finite set).

`WorkspaceReview_proofs`, from the assumptions of the module and these lemmas, for any work
trees, flags and numbers of edits:

- `AcceptedReviewsAreWhole`, `MovedFilesAreNeverLost`. The invariant: the list is the
  comparison of what was shown with a copy that does not change (`ListFollowsPhase`,
  `CopyIsTree`); unless the user edits it, a link is in the way, or a write has failed, the
  original is on its way from the one to the other, with what was written right and what is
  to be deleted still there (`OriginalIsNearer`); and what was written comes before what was
  not (`WrittenInOrder`). A moved file is safe because its deletion comes after all
  additions: were it done, so would be its copy.
- `ReviewsWriteWhatTheyShow`, `GitMetadataIsSafe`, action properties that need nothing of
  the user: each write touches the places a reported path, or a directory above it, leads
  to, links followed. For git's metadata that is enough only where no reported path leads
  through a link.
- `OneWriteIsNext`, `OneSessionWriteIsNext`: while changes are left, one of them is the
  first. The loop over a list is thus what `\E c \in First(todo)` says: it neither stops
  early nor has a choice. No run states this; it justifies the way the models were written.
- `SessionTypesAreKept`, `AllIsApplied`, `SelectionIsApplied` are about `ReviewSession`,
  from its assumptions. `SessionIsRight` says of what is shown, selected, applied and still
  to be written that it is as in the copy, or that a comparison made now would find it; what
  is still to be written is in the comparison it came from, and until everything is applied
  what differs from what was shown is what a selected pattern reaches (`Reached`). Every
  write preserves that, since it makes the tree nearer, and a new comparison restores it.

TLC finds every invariant named here true on the instance of its run.

Only model-checked: the four liveness properties (`UnrelatedCallsReturn`, `WaitsEnd`,
`CloseEnds`, `CancelEnds`), since liveness under fairness and `ENABLED` are out of the prover's
reach; that the mutations break what they break; and the four properties of section 6, which
do not hold. What a recursive definition computes could not be proved either, and no
model needs one: a list of changes is a set with an order for that reason.

## 6. Where the code and its words disagree

Four runs are expected to fail; `PROJECT.json` ("findings") quotes the sentence.

1. `mise_fix_history`: in a declaration that stays multi-version, pruning drops only
   the plan's versions, so a historical lock entry becomes the sole one and the
   next scan is lent it. The comment over the code names this as the thing to avoid.
2. `agent_stale_approval`: the buffer of one makes `ApproveStep` report Accepted when
   nothing is pending; the next request consumes that answer.
3. `review_reports`: links are not copied, so each one is reported as deleted by the
   command, and removed on acceptance; so is what a mask hid from it.
4. `runtime_cancel`: the docker runtime's loop over its output hears nothing but the
   channel, so that a cancelled command that does not end goes on.

Others met while reading, for which there is no run. Rewriting an action or a Dockerfile
truncates it first, which the mise writer avoids and explains. A deleted directory precedes
its entries in the list of changes, so its removal fails, and a review half written is
reported as an abort that took no action. The review writes through links, so that accepting
a change of one path can change another that was not shown, in the tree or outside it. A
path that turns from file to directory is not reported or synced (`AcceptedIsWhole` excepts
it). An aborted review prints "Changes preserved" and a path (exec.go:480), which the tmpfs
teardown removes and the overlay teardown unmounts (`ShownCopyIsKept` says for which copies
the words are true); rejecting leaves a snapshot behind. A copy or a container whose removal
fails stays, which is logged at most, and a container whose creation the client gave up may
run. When docker's attachment breaks, the rest of the output is lost and the exit is
reported as usual (docker.go:1142; `OutputBeforeExit` excepts it). The manager goes on
without isolation when none can be made, and gvisor and plugin runtimes never isolate.
`ApplySelected` passes paths as glob patterns, so a selected `a` reaches every `x/a`, a
selected `app/[id]/page.tsx` does not reach itself, and one that is no pattern makes it
apply nothing and report success; `syncChanges` passes over `a..b` and reports success
(`SelectedAreApplied` and `AppliedLeavesNoChanges` say what is left of the promise).
`ResumeAgent` finds running sessions only, and runs a second execution beside the first.
`normalizeConfig` copies only some of the configuration's fields. The non-interactive hint
offers an option to accept, but that path always rejects. The `git` mask preset is
documented as `.git/**` and hides five entries of it. A command line that leaves at a fatal
error leaves no closing audit record (`AuditTellsTheOutcome` excepts it). A plugin's process
is started under the context of the first execution that needs it, and its client is kept
when that context ends; a cancelled plugin stream ends without an exit, and is audited as a
success. `emitWorkspaceChanges` and docker's pull ignore the answer of `yield`, which a
consumer that stops at any event would make a panic. In the proxy: `createEcosystemHandler`
passes no options, so a listener's `oci:` section and its cache scope never reach the
handler; the header of `oci_toctou.go` says the content fetched matches what was scanned,
but after a failed resolution, which is cached for two minutes whatever its cause, requests
go by tag; so do those of a name for which no reference can be built (oci.go:157 ignores the
error of :381), and those with white space around the tag, which `checkMutableTagPolicy`
lets pass in strict mode because a digest is known, and the rewriting does not find
(`PullIsPinned` says exactly when); a scan or lookup that fails is judged as no findings;
one whose advisories have no record is cached as clean, without its warnings (query.go:742,
cache.go:490), and a record that was widened is judged as it was for a day
(`VulnerableIsRefused` adds it to the bound); the parser of npm paths takes the version
after the last hyphen, so `1.0.0-beta` is looked up as `beta`; metadata of images never
reaches a policy. `BatchScanner.ScanFiles`, which nothing calls, counts its workers without
a lock. The package comment of the disk cache says writes are atomic; they are not.

## 7. What is not modelled, and why

- *Text*: parsers, renderers, SBOM and SARIF conversion, version comparison, policy
  expressions, command-safety patterns, secret detectors, the glob language (which names
  a pattern matches is given to `ReviewSession`), the
  editor protocol's documents. They are functions of their input and the repository
  tests and fuzzes them; a model would restate their tables.
- *Clients of networks and other programs*: registries, forges, AI providers, threat
  intelligence, VM image readers. Their state is elsewhere.
- *Wiring*: flags, transports, logging, telemetry, generated code, examples.
- *Planning of fixes*: pure consolidation over versions and ecosystems.
- *State, not modelled*: the table at the end of section 1. Their hazards that callers
  can meet are in `PROJECT.json`, with the reason no property covers them.
- *Most of the source by volume* is generated protocol code, parsers and rendering:
  the lines the models map are a small share of it, and nearly all of what
  keeps state.
- *Beyond one process*: the edit guard is a variable of one process; two processes on
  one tree are not kept apart, and nothing in the code says they are.

## 8. The plan

Done, in the order of what a mistake costs: `EditGuards`, `MiseFix`, `WorkspaceReview`,
`ReviewSession` (a user's files); `AgentSessions` (what nobody approved is run);
`RuntimeStream` (what is left running, what a reviewer does not see); `ProxyDecision` and
`JwksCache` (what is let in). Every safety property that a passing run checks is proved,
and both refinements.

Next: that a session that is not interrupted leaves the copy itself behind where no link
and no change of kind is in the way.

Candidates for further models: the agent plugins' streams, as a second instance of
`EventStream`; `ExecutePlan` over `SerialEdits`. Runs stay few, one question each. Modules to be
proved about use sets, functions and folds, and no recursive operator.
