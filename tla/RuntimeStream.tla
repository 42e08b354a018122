----------------------------- MODULE RuntimeStream -----------------------------
(***************************************************************************)
(* One execution in a sandbox: the chain of iterators                      *)
(*   runtime (docker, gvisor, sandboxexec, none)                           *)
(*     -> IsolatingRuntime, where the runtime has no isolation of its own  *)
(*     -> Manager.Execute -> the consumer's loop                           *)
(* and the goroutines behind the runtime: one reader per output stream,    *)
(* the bounded channel they send to, sandboxexec's concurrent cmd.Wait, and *)
(* the context's kill.  A yield runs every layer above it before it        *)
(* returns, so it is one step, but for the one that asks a person to       *)
(* review; its answer is FALSE once the consumer has left its loop.        *)
(*                                                                         *)
(* A command may leave a descendant that holds its output pipes open.      *)
(* Output is chunks numbered as they are written.                          *)
(***************************************************************************)
EXTENDS Naturals, Sequences, SequencesExt

CONSTANTS
    Kinds,      \* the runtimes a behaviour may use
    Modes,      \* the isolation it may have
    Consumers,  \* "cli" leaves at a fatal error, "collect" drains the stream
    Streams,    \* stdout and stderr
    First,      \* the one of Streams that none hands over first
    Chunks,     \* bound: Chunks[s], what the command writes to s
    MaxChunk,   \* bound on those
    PipeCap,    \* capacity of an operating system pipe
    ChanCap     \* capacity of the event channel (100 in the code)

ASSUME StreamAssumption ==
    /\ Kinds \subseteq {"docker", "gvisor", "sandboxexec", "none"}
    /\ Modes \subseteq {"direct", "snapshot", "overlay", "tmpfs"}
    /\ Consumers \subseteq {"cli", "collect"}
    /\ First \in Streams
    /\ MaxChunk \in Nat
    /\ Chunks \in [Streams -> 0..MaxChunk]
    /\ PipeCap \in Nat \ {0}
    /\ ChanCap \in Nat \ {0}

VARIABLES
    cfg,        \* the request and its consumer
    mgr,        \* where Manager.Execute stands
    wr,         \* where IsolatingRuntime.Execute stands
    rt,         \* where the runtime's Execute stands
    held,       \* the wrapper keeps back the runtime's exit
    iso,        \* the isolated copy
    child,      \* the process the runtime started, or the container's
    open,       \* somebody holds the write ends of the output pipes
    box,        \* the container
    status,     \* how the process ended
    written,    \* written[s]: chunks written so far
    pipe,       \* pipe[s]: the chunks in the pipe
    reader,     \* reader[s]: where the reader of s stands
    holds,      \* holds[s]: the chunk the reader of s wants to send
    chan,       \* the event channel
    waited,     \* sandboxexec: cmd.Wait has returned and closed the pipes
    cut,        \* docker: the attachment broke before its end
    cancelled,  \* the execution's context is done
    audit,      \* the audit record of this execution
    seen, left  \* what the consumer was given, and whether it left

procVars == <<child, open, box, status, written>>
pumpVars == <<pipe, reader, holds, chan, waited, cut>>
userVars == <<seen, left, held>>
vars == <<cfg, mgr, wr, rt, iso, procVars, pumpVars, cancelled, audit, userVars>>

Stream == INSTANCE EventStream

Ev(k) == [kind |-> k]
Chunk(s, n) == [kind |-> "output", stream |-> s, n |-> n]

\* wrapWithIsolation: containers isolate by themselves, the others are wrapped.
\* A wrapper that cannot be made is done without: the mode is then direct.
Isolated == cfg.mode # "direct"
Wrapped == Isolated /\ cfg.kind \in {"sandboxexec", "none"}
Keeps == cfg.review \/ cfg.preserve

Configs == [kind : Kinds, who : Consumers, mode : Modes, review : BOOLEAN, preserve : BOOLEAN]

\* Mutant of Remains: a review alone does not keep the copy.
MutRemains ==
    IF Wrapped /\ cfg.mode = "tmpfs" THEN {"gone", "stuck"}
    ELSE IF ~cfg.preserve THEN {"gone", "stuck"}
    ELSE IF Wrapped /\ cfg.mode = "overlay" THEN {"upper", "kept"}
    ELSE {"kept"}

\* What Teardown leaves of a copy, whose isolator was made with Keeps.  tmpfs
\* removes it always, overlay unmounts what was shown and keeps the upper
\* directory; the others, and docker's own in every mode, keep it.  A removal
\* or an umount that fails is logged or ignored.
Remains ==
    IF Wrapped /\ cfg.mode = "tmpfs" THEN {"gone", "stuck"}
    ELSE IF ~Keeps THEN {"gone", "stuck"}
    ELSE IF Wrapped /\ cfg.mode = "overlay" THEN {"upper", "kept"}
    ELSE {"kept"}

\* Containers do not tell one isolated mode from another.
Init ==
    /\ cfg \in {c \in Configs : c.kind \in {"docker", "gvisor"} => c.mode \in {"direct", "snapshot"}}
    /\ mgr = "select" /\ wr = "off" /\ rt = "off"
    /\ iso = "none"
    /\ child = "none" /\ open = FALSE /\ box = "none" /\ status = "none"
    /\ written = [s \in Streams |-> 0]
    /\ pipe = [s \in Streams |-> <<>>]
    /\ reader = [s \in Streams |-> "off"]
    /\ holds = [s \in Streams |-> 0]
    /\ chan = <<>>
    /\ waited = FALSE /\ cut = FALSE /\ cancelled = FALSE
    /\ audit = <<>>
    /\ seen = <<>> /\ left = FALSE /\ held = FALSE

-----------------------------------------------------------------------------
\* Mutant of Leaves: the loop breaks at any error event.
MutLeaves(e) == cfg.who = "cli" /\ e.kind \in {"fatal", "warning", "lost"}

\* The consumer's loop: the command line breaks at a fatal error.
Leaves(e) == cfg.who = "cli" /\ e.kind = "fatal"

\* An event reaches the consumer, through the manager.
Give(e) ==
    /\ seen' = Append(seen, e)
    /\ left' = Leaves(e)
    /\ UNCHANGED held

\* Mutant of Yield: the exit is remembered for later and passed on as well.
MutYieldTwice(e) ==
    /\ seen' = Append(seen, e)
    /\ left' = Leaves(e)
    /\ held' = (held \/ (Wrapped /\ cfg.review /\ e.kind = "completed"))

\* A runtime's yield.  The wrapper keeps an exit back until the review is over.
Yield(e) ==
    IF Wrapped /\ cfg.review /\ e.kind = "completed"
    THEN held' = TRUE /\ UNCHANGED <<seen, left>>
    ELSE Give(e)

\* The next state of a runtime after a yield, when it checks the answer.
After(next) == rt' = IF left' THEN "unwind" ELSE next

-----------------------------------------------------------------------------
\* Manager.Execute: no runtime can be selected.
NoRuntime ==
    /\ mgr = "select"
    /\ audit' = Append(audit, "failed")
    /\ Give(Ev("fatal"))
    /\ mgr' = "done"
    /\ UNCHANGED <<cfg, wr, rt, iso, procVars, pumpVars, cancelled>>

\* The policy denies the execution.
Deny ==
    /\ mgr = "select"
    /\ audit' = audit \o <<"requested", "denied">>
    /\ Give(Ev("fatal"))
    /\ mgr' = "done"
    /\ UNCHANGED <<cfg, wr, rt, iso, procVars, pumpVars, cancelled>>

\* The execution is delegated to the runtime, wrapped or not.
Delegate ==
    /\ mgr = "select"
    /\ audit' = audit \o <<"requested", "started">>
    /\ mgr' = "run"
    /\ IF Wrapped THEN wr' = "setup" /\ UNCHANGED rt ELSE rt' = "begin" /\ UNCHANGED wr
    /\ UNCHANGED <<cfg, iso, procVars, pumpVars, cancelled, userVars>>

\* Mutant of Conclude: every stream that ended counts as a completed run.
MutConcludeCompleted ==
    /\ mgr = "run"
    /\ rt \in {"off", "ended"} /\ wr \in {"off", "done"} /\ (rt = "off" => wr = "done")
    /\ mgr' = "done"
    /\ audit' = IF left THEN audit ELSE Append(audit, "completed")
    /\ UNCHANGED <<cfg, wr, rt, iso, procVars, pumpVars, cancelled, userVars>>

\* The stream below is exhausted: the outcome is recorded, unless the
\* consumer left, when the manager's loop body has returned already.
Conclude ==
    /\ mgr = "run"
    /\ rt \in {"off", "ended"} /\ wr \in {"off", "done"} /\ (rt = "off" => wr = "done")
    /\ mgr' = "done"
    /\ audit' = IF left THEN audit
                ELSE Append(audit, IF Stream!Saw("fatal") THEN "failed" ELSE "completed")
    /\ UNCHANGED <<cfg, wr, rt, iso, procVars, pumpVars, cancelled, userVars>>

-----------------------------------------------------------------------------
\* IsolatingRuntime.Execute: the copy is made and announced, ...
WrapSetup ==
    /\ wr = "setup"
    /\ iso' = "up"
    /\ Give(Ev("status"))
    /\ wr' = "on" /\ rt' = "begin"
    /\ UNCHANGED <<cfg, mgr, procVars, pumpVars, cancelled, audit>>

\* ... or cannot be made, and what there is of it cannot always be removed.
WrapFails ==
    /\ wr = "setup"
    /\ iso' \in {"none", "stuck"}
    /\ Give(Ev("fatal"))
    /\ wr' = "done"
    /\ UNCHANGED <<cfg, mgr, rt, procVars, pumpVars, cancelled, audit>>

\* The runtime is exhausted, or the consumer left: Teardown(false).
WrapLoopEnds ==
    /\ wr = "on" /\ rt = "ended"
    /\ IF left
       THEN wr' = "done" /\ iso' \in Remains
       ELSE wr' = (IF cfg.review /\ held THEN "show" ELSE "down") /\ UNCHANGED iso
    /\ UNCHANGED <<cfg, mgr, rt, procVars, pumpVars, cancelled, audit, userVars>>

\* Where a layer goes on when the changes are shown: the command line asks.
Asks == IF cfg.who = "cli" THEN "asks" ELSE "exit"

\* emitWorkspaceChanges, when there are any and they can be listed.
WrapShow ==
    /\ wr = "show"
    /\ Give(Ev("changes"))
    /\ wr' = Asks
    /\ UNCHANGED <<cfg, mgr, rt, iso, procVars, pumpVars, cancelled, audit>>

WrapShowNothing ==
    /\ wr = "show"
    /\ wr' = "exit"
    /\ UNCHANGED <<cfg, mgr, rt, iso, procVars, pumpVars, cancelled, audit, userVars>>

\* The exit that was kept back.
WrapExit ==
    /\ wr = "exit"
    /\ Give(Ev("completed"))
    /\ wr' = "down"
    /\ UNCHANGED <<cfg, mgr, rt, iso, procVars, pumpVars, cancelled, audit>>

\* The copy is torn down.
WrapTeardown ==
    /\ wr = "down"
    /\ iso' \in Remains
    /\ wr' = "done"
    /\ UNCHANGED <<cfg, mgr, rt, procVars, pumpVars, cancelled, audit, userVars>>

-----------------------------------------------------------------------------
\* A fatal error before the output: a refused request, a failed setup, image,
\* container, attachment or start.  With a context that is done, nothing is
\* created or started any more; but a creation given up may yet take place,
\* and a copy that fails may not be removable.
Refuse ==
    /\ rt \in {"begin", "image", "create", "attach", "launch"}
    /\ box' \in IF rt = "create" THEN {"none", "adrift"} ELSE {box}
    /\ iso' \in IF rt = "begin" /\ cfg.kind = "docker" /\ Isolated THEN {"none", "stuck"} ELSE {iso}
    /\ Yield(Ev("fatal"))
    /\ rt' = "unwind"
    /\ UNCHANGED <<cfg, mgr, wr, child, open, status, written, pumpVars, cancelled, audit>>

\* docker: its own isolation is set up and announced.
DockerIsolate ==
    /\ rt = "begin" /\ cfg.kind = "docker" /\ Isolated
    /\ iso' = "up"
    /\ Yield(Ev("status"))
    /\ After("image")
    /\ UNCHANGED <<cfg, mgr, wr, procVars, pumpVars, cancelled, audit>>

\* docker: the image is there, ...
NeedsImage == cfg.kind = "docker" /\ rt = IF Isolated THEN "image" ELSE "begin"

DockerHasImage ==
    /\ NeedsImage /\ ~cancelled
    /\ rt' = "create"
    /\ UNCHANGED <<cfg, mgr, wr, iso, procVars, pumpVars, cancelled, audit, userVars>>

\* ... or is pulled, with progress events (one stands for all).  The answer of
\* their yields is not heeded unless the context is done as well.
DockerPull ==
    /\ NeedsImage
    /\ Yield(Ev("status"))
    /\ rt' = IF left' /\ cancelled THEN "unwind" ELSE "create"
    /\ UNCHANGED <<cfg, mgr, wr, iso, procVars, pumpVars, cancelled, audit>>

\* docker: the container is created.
DockerCreate ==
    /\ rt = "create" /\ ~cancelled
    /\ box' = "created"
    /\ Yield(Ev("started"))
    /\ After("attach")
    /\ UNCHANGED <<cfg, mgr, wr, iso, child, open, status, written, pumpVars, cancelled, audit>>

\* The readers start with the process: docker, gvisor and sandboxexec.
StartProcess ==
    /\ child' = "running" /\ open' = TRUE
    /\ box' = IF cfg.kind \in {"docker", "gvisor"} THEN "running" ELSE box
    /\ UNCHANGED <<status, written>>

StartReaders ==
    /\ reader' = [s \in Streams |-> "reading"]
    /\ UNCHANGED <<pipe, holds, chan, waited, cut>>

DockerStart ==
    /\ rt = "attach" /\ ~cancelled
    /\ StartProcess /\ StartReaders
    /\ rt' = "stream"
    /\ UNCHANGED <<cfg, mgr, wr, iso, cancelled, audit, userVars>>

\* gvisor and none announce the start and then start the process.
Announce ==
    /\ rt = "begin" /\ cfg.kind \in {"gvisor", "none"}
    /\ Yield(Ev("started"))
    /\ After("launch")
    /\ UNCHANGED <<cfg, mgr, wr, iso, procVars, pumpVars, cancelled, audit>>

Launch ==
    /\ rt = "launch" /\ ~cancelled
    /\ StartProcess
    /\ IF cfg.kind = "gvisor"
       THEN StartReaders /\ rt' = "stream"
       ELSE UNCHANGED pumpVars /\ rt' = "wait"
    /\ UNCHANGED <<cfg, mgr, wr, iso, cancelled, audit, userVars>>

\* sandboxexec starts the process first, announces it, and warns.
LaunchAndAnnounce ==
    /\ rt = "begin" /\ cfg.kind = "sandboxexec" /\ ~cancelled
    /\ Yield(Ev("started"))
    /\ After("warn")
    /\ child' = IF left' THEN "exited" ELSE "running"
    /\ open' = TRUE
    /\ UNCHANGED <<cfg, mgr, wr, iso, box, status, written, pumpVars, cancelled, audit>>

WarnDeprecated ==
    /\ rt = "warn"
    /\ Yield(Ev("warning"))
    /\ IF left' THEN rt' = "unwind" /\ child' = "exited" /\ UNCHANGED pumpVars
                ELSE rt' = "stream" /\ StartReaders /\ UNCHANGED child
    /\ UNCHANGED <<cfg, mgr, wr, iso, open, box, status, written, cancelled, audit>>

-----------------------------------------------------------------------------
\* The process, or a descendant of it, writes.
Write(s) ==
    /\ open /\ written[s] < Chunks[s]
    /\ written' = [written EXCEPT ![s] = @ + 1]
    /\ IF cut
       THEN UNCHANGED pipe
       ELSE /\ cfg.kind # "none" => ~waited /\ reader[s] # "done" /\ Len(pipe[s]) < PipeCap
            /\ pipe' = [pipe EXCEPT ![s] = Append(@, written[s] + 1)]
    /\ UNCHANGED <<cfg, mgr, wr, rt, iso, child, open, box, status,
                   reader, holds, chan, waited, cut, cancelled, audit, userVars>>

\* A process on the host may leave a descendant; a container's all end with it.
PipesAfterExit == IF cfg.kind \in {"sandboxexec", "none"} THEN BOOLEAN ELSE {FALSE}

\* The process ends by itself; docker run --rm ends when its container does.
Exit ==
    /\ child = "running"
    /\ child' = "exited"
    /\ open' \in PipesAfterExit
    /\ status' \in {"success", "failure"}
    /\ box' = IF box = "running" THEN "stopped" ELSE box
    /\ UNCHANGED <<cfg, mgr, wr, rt, iso, written, pumpVars, cancelled, audit, userVars>>

\* A descendant ends.
DescendantExits ==
    /\ child = "exited" /\ open
    /\ open' = FALSE
    /\ UNCHANGED <<cfg, mgr, wr, rt, iso, child, box, status, written, pumpVars, cancelled, audit, userVars>>

\* The caller's context is cancelled, or the request's time is up.
Cancel ==
    /\ ~cancelled /\ mgr # "done"
    /\ cancelled' = TRUE
    /\ UNCHANGED <<cfg, mgr, wr, rt, iso, procVars, pumpVars, audit, userVars>>

\* exec.CommandContext kills its process.  gvisor's is the docker command: the
\* container it speaks for goes on.  Nothing kills a docker container.
KillByContext ==
    /\ cancelled /\ child = "running" /\ cfg.kind # "docker"
    /\ child' = "exited"
    /\ open' \in PipesAfterExit
    /\ status' = "killed"
    /\ UNCHANGED <<cfg, mgr, wr, rt, iso, box, written, pumpVars, cancelled, audit, userVars>>

-----------------------------------------------------------------------------
\* A reader takes a chunk, ...
ReadChunk(s) ==
    /\ reader[s] = "reading" /\ pipe[s] # <<>>
    /\ holds' = [holds EXCEPT ![s] = Head(pipe[s])]
    /\ pipe' = [pipe EXCEPT ![s] = Tail(@)]
    /\ reader' = [reader EXCEPT ![s] = "sending"]
    /\ UNCHANGED <<cfg, mgr, wr, rt, iso, procVars, chan, waited, cut, cancelled, audit, userVars>>

\* Mutant of SendChunk: the channel has no bound.
MutSendAnyway(s) ==
    /\ reader[s] = "sending"
    /\ chan' = Append(chan, Chunk(s, holds[s]))
    /\ reader' = [reader EXCEPT ![s] = "reading"]
    /\ UNCHANGED <<cfg, mgr, wr, rt, iso, procVars, pipe, holds, waited, cut, cancelled, audit, userVars>>

\* ... sends it when the channel has room, ...
SendChunk(s) ==
    /\ reader[s] = "sending" /\ Len(chan) < ChanCap
    /\ chan' = Append(chan, Chunk(s, holds[s]))
    /\ reader' = [reader EXCEPT ![s] = "reading"]
    /\ UNCHANGED <<cfg, mgr, wr, rt, iso, procVars, pipe, holds, waited, cut, cancelled, audit, userVars>>

\* ... ends at the end of its stream, or of what StdCopy hands on, ...
ReadEnd(s) ==
    /\ reader[s] = "reading" /\ pipe[s] = <<>> /\ (~open \/ cut) /\ ~waited
    /\ reader' = [reader EXCEPT ![s] = "done"]
    /\ UNCHANGED <<cfg, mgr, wr, rt, iso, procVars, pipe, holds, chan, waited, cut, cancelled, audit, userVars>>

\* ... or gives up and says so: sandboxexec's finds the pipe closed by cmd.Wait,
\* gvisor's meets a line that is too long, and closes the pipe itself.
ReadFails(s) ==
    /\ reader[s] = "reading" /\ Len(chan) < ChanCap
    /\ waited \/ (cfg.kind = "gvisor" /\ pipe[s] # <<>>)
    /\ chan' = Append(chan, Ev("lost"))
    /\ reader' = [reader EXCEPT ![s] = "done"]
    /\ pipe' = [pipe EXCEPT ![s] = <<>>]
    /\ UNCHANGED <<cfg, mgr, wr, rt, iso, procVars, holds, waited, cut, cancelled, audit, userVars>>

\* docker: StdCopy fails, as the attached connection does.  Its error is
\* discarded and both pipes are closed as if the output had ended; the
\* container writes on, to nobody.
Cut ==
    /\ cfg.kind = "docker" /\ rt = "stream" /\ ~cut
    /\ cut' = TRUE
    /\ pipe' = [s \in Streams |-> <<>>]
    /\ UNCHANGED <<cfg, mgr, wr, rt, iso, procVars, reader, holds, chan, waited, cancelled, audit, userVars>>

\* Mutant of Reap: the process is waited for once its output is read.
MutReapAfterReaders ==
    /\ cfg.kind = "sandboxexec" /\ rt = "stream" /\ child = "exited" /\ ~waited
    /\ \A s \in Streams : reader[s] = "done"
    /\ waited' = TRUE
    /\ UNCHANGED <<cfg, mgr, wr, rt, iso, procVars, pipe, reader, holds, chan, cut, cancelled, audit, userVars>>

\* sandboxexec: cmd.Wait returns in its goroutine, beside the readers, and
\* closes the read ends: what is in the pipes is lost.
Reap ==
    /\ cfg.kind = "sandboxexec" /\ rt = "stream" /\ child = "exited" /\ ~waited
    /\ waited' = TRUE
    /\ pipe' = [s \in Streams |-> <<>>]
    /\ UNCHANGED <<cfg, mgr, wr, rt, iso, procVars, reader, holds, chan, cut, cancelled, audit, userVars>>

\* The channel is closed when both readers are done.
Closed == \A s \in Streams : reader[s] = "done"

\* The runtime's loop: an event is yielded; if the consumer left, the process
\* is killed (ContainerKill, Process.Kill) and nobody receives any more.
Receive ==
    /\ rt = "stream" /\ chan # <<>>
    /\ chan' = Tail(chan)
    /\ Yield(Head(chan))
    /\ After("stream")
    /\ child' = IF left' THEN "exited" ELSE child
    /\ UNCHANGED <<cfg, mgr, wr, iso, open, box, status, written,
                   pipe, reader, holds, waited, cut, cancelled, audit>>

\* Mutant of LoopEnds: the loop ends with the process, not with its output.
MutLoopEndsAtExit ==
    /\ rt = "stream" /\ child = "exited"
    /\ rt' = "wait"
    /\ UNCHANGED <<cfg, mgr, wr, iso, procVars, pumpVars, cancelled, audit, userVars>>

\* The loop ends: the channel is closed and drained, and sandboxexec has also
\* got the process's end.
LoopEnds ==
    /\ rt = "stream" /\ chan = <<>> /\ Closed
    /\ cfg.kind = "sandboxexec" => waited
    /\ rt' = "wait"
    /\ UNCHANGED <<cfg, mgr, wr, iso, procVars, pumpVars, cancelled, audit, userVars>>

\* ContainerWait, cmd.Wait or cmd.Run has the end of the process.
ProcessOver == child = "exited" /\ (cfg.kind = "none" => ~open)

\* none hands over what it buffered, one stream after the other.
\* (What the code sends as one event is one chunk after another here.)
Flush(s) ==
    /\ rt = "wait" /\ cfg.kind = "none" /\ ProcessOver
    /\ pipe[s] # <<>> /\ (s # First => pipe[First] = <<>>)
    /\ pipe' = [pipe EXCEPT ![s] = Tail(@)]
    /\ Yield(Chunk(s, Head(pipe[s])))
    /\ After("wait")
    /\ UNCHANGED <<cfg, mgr, wr, iso, procVars, reader, holds, chan, waited, cut, cancelled, audit>>

Flushed == cfg.kind = "none" => \A s \in Streams : pipe[s] = <<>>

\* The wait fails, or the context is done first (docker), or was (none).
WaitFails ==
    /\ rt = "wait"
    /\ cfg.kind # "docker" => ProcessOver /\ Flushed
    /\ cfg.kind = "none" => cancelled \/ status = "failure"
    /\ Yield(Ev("fatal"))
    /\ rt' = "unwind"
    /\ UNCHANGED <<cfg, mgr, wr, iso, procVars, pumpVars, cancelled, audit>>

\* The exit code is there.  docker shows the changes of its own copy first.
WaitDone ==
    /\ rt = "wait" /\ ProcessOver /\ Flushed
    /\ cfg.kind = "none" /\ cancelled => status = "success"
    /\ rt' = IF cfg.kind = "docker" /\ iso = "up" /\ cfg.review THEN "show" ELSE "exit"
    /\ UNCHANGED <<cfg, mgr, wr, iso, procVars, pumpVars, cancelled, audit, userVars>>

DockerShow ==
    /\ rt = "show"
    /\ Yield(Ev("changes"))
    /\ rt' = Asks
    /\ UNCHANGED <<cfg, mgr, wr, iso, procVars, pumpVars, cancelled, audit>>

DockerShowNothing ==
    /\ rt = "show"
    /\ rt' = "exit"
    /\ UNCHANGED <<cfg, mgr, wr, iso, procVars, pumpVars, cancelled, audit, userVars>>

\* The person answers the review, which does not listen to the context.
Answer ==
    /\ \/ wr = "asks" /\ wr' = "exit" /\ UNCHANGED rt
       \/ rt = "asks" /\ rt' = "exit" /\ UNCHANGED wr
    /\ UNCHANGED <<cfg, mgr, iso, procVars, pumpVars, cancelled, audit, userVars>>

Complete ==
    /\ rt = "exit"
    /\ Yield(Ev("completed"))
    /\ rt' = "unwind"
    /\ UNCHANGED <<cfg, mgr, wr, iso, procVars, pumpVars, cancelled, audit>>

\* Execute returns and runs what it deferred: docker removes the container, by
\* force, and tears its copy down.  The error of the removal, which has half a
\* minute, is discarded: the container is then adrift as it is.
Unwind ==
    /\ rt = "unwind"
    /\ rt' = "ended"
    /\ IF cfg.kind = "docker" /\ box \in {"created", "running", "stopped"}
       THEN \/ /\ box' = "removed" /\ open' = FALSE
               /\ child' = (IF child = "none" THEN child ELSE "exited")
            \/ box' = "adrift" /\ UNCHANGED <<open, child>>
       ELSE UNCHANGED <<box, open, child>>
    /\ iso' \in IF cfg.kind = "docker" /\ iso = "up" THEN Remains ELSE {iso}
    /\ UNCHANGED <<cfg, mgr, wr, status, written, pumpVars, cancelled, audit, userVars>>

-----------------------------------------------------------------------------
Manager == NoRuntime \/ Deny \/ Delegate \/ Conclude
Wrapper == \/ WrapSetup \/ WrapFails \/ WrapLoopEnds \/ WrapShow \/ WrapShowNothing
           \/ WrapExit \/ WrapTeardown
Runtime == \/ Refuse \/ DockerIsolate \/ DockerHasImage \/ DockerPull
           \/ DockerCreate \/ DockerStart \/ Announce \/ Launch
           \/ LaunchAndAnnounce \/ WarnDeprecated \/ Receive \/ LoopEnds
           \/ \E s \in Streams : Flush(s)
           \/ WaitFails \/ WaitDone \/ DockerShow \/ DockerShowNothing \/ Complete \/ Unwind
Reader(s) == ReadChunk(s) \/ SendChunk(s) \/ ReadEnd(s) \/ ReadFails(s)
Environment == Exit \/ DescendantExits \/ Cancel \/ Cut \/ Answer \/ \E s \in Streams : Write(s)

Next == Manager \/ Wrapper \/ Runtime \/ (\E s \in Streams : Reader(s)) \/ Reap \/ KillByContext \/ Environment

\* The goroutines run when they can, what they write to the terminal is taken,
\* and a kill takes effect.  Nobody has to write, to end, to cancel, or to
\* answer a review.
Fairness ==
    /\ WF_vars(Manager \/ Wrapper \/ Runtime)
    /\ \A s \in Streams : WF_vars(Reader(s))
    /\ WF_vars(Reap) /\ WF_vars(KillByContext)

Spec == Init /\ [][Next]_vars /\ Fairness

-----------------------------------------------------------------------------
\* The variables are of the kinds the code gives them.
TypeOK ==
    /\ cfg \in Configs
    /\ mgr \in {"select", "run", "done"}
    /\ wr \in {"off", "setup", "on", "show", "asks", "exit", "down", "done"}
    /\ rt \in {"off", "begin", "image", "create", "attach", "launch", "warn", "stream", "wait",
               "show", "asks", "exit", "unwind", "ended"}
    /\ iso \in {"none", "up", "kept", "upper", "gone", "stuck"}
    /\ child \in {"none", "running", "exited"}
    /\ box \in {"none", "created", "running", "stopped", "removed", "adrift"}
    /\ status \in {"none", "success", "failure", "killed"}
    /\ held \in BOOLEAN /\ open \in BOOLEAN /\ waited \in BOOLEAN /\ cut \in BOOLEAN
    /\ cancelled \in BOOLEAN /\ left \in BOOLEAN
    /\ written \in [Streams -> 0..MaxChunk]
    /\ reader \in [Streams -> {"off", "reading", "sending", "done"}]
    /\ holds \in [Streams -> 0..MaxChunk]
    /\ pipe \in [Streams -> Seq(1..MaxChunk)]
    /\ chan \in Seq(Stream!Event) /\ Len(chan) <= ChanCap
    /\ seen \in Seq(Stream!Event)

\* What a consumer has seen when it is given the exit or the changes is all
\* the command wrote, or it was told that output is lost: by streamOutput's
\* closing after both readers, and although sandboxexec's cmd.Wait closes the
\* pipes under its readers.  docker alone loses output without a word, when its
\* attachment breaks.
OutputBeforeExit ==
    Stream!Saw("completed") \/ Stream!Saw("changes") =>
        Stream!Saw("lost") \/ cut \/ \A s \in Streams : Stream!Arrived(s) = 1..written[s]

\* When Manager.Execute has returned, nothing of the execution is left that was
\* not tried to be removed: no process it started outside a container adrift,
\* no reader, no container whose removal did not fail or whose creation did
\* not, and no copy but one to keep and the rest of a teardown that failed.
\* (A container behind the docker command gvisor runs is not its process.)
NothingLeftBehind ==
    mgr = "done" =>
        /\ child = "running" => cfg.kind = "docker" /\ box = "adrift"
        /\ \A s \in Streams : reader[s] \in {"off", "done"}
        /\ cfg.kind = "docker" => box \in {"none", "removed", "adrift"}
        /\ iso \in {"none", "gone", "stuck"} \/ (iso \in {"kept", "upper"} /\ Keeps)

\* A copy whose changes are shown is there until the review is over and the
\* exit is told; and one that a snapshot, a worktree or docker made survives
\* the execution: its path is what an aborted review prints.  (That review
\* prints it for tmpfs and overlay, too, which take it away.)
ShownCopyIsKept ==
    Stream!Saw("changes") =>
        /\ ~Stream!Over => iso = "up"
        /\ cfg.kind = "docker" \/ cfg.mode = "snapshot" => iso \in {"up", "kept"}

\* A started execution that its consumer followed to the end has one closing
\* audit record, and it says what the consumer saw.
AuditTellsTheOutcome ==
    mgr = "done" /\ ~left /\ Contains(audit, "started") =>
        /\ Stream!Saw("fatal") => audit = <<"requested", "started", "failed">>
        /\ Stream!Saw("completed") => audit = <<"requested", "started", "completed">>
        /\ Stream!Over

\* Every event is one the consumer may expect then (the comment of Execute).
StreamIsWellFormed == Stream!Spec

\* A cancelled execution of a host process ends by itself: at once where the
\* pipes are closed with the process, and when its descendants let go of the
\* pipes otherwise; unless it waits for a person's answer to a review.
CancelEnds ==
    (cancelled /\ (cfg.kind \in {"gvisor", "sandboxexec"} \/ (cfg.kind = "none" /\ child = "exited" /\ ~open)))
        ~> (mgr = "done" \/ wr = "asks")

\* What the comment of Execute says: "Context cancellation will terminate the
\* sandbox execution."
CancelTerminates == cancelled ~> (mgr = "done" /\ child # "running" /\ box # "running")
=============================================================================
