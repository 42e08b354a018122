---------------------------- MODULE AgentSessions ----------------------------
(***************************************************************************)
(* Approvals of a running remediation agent (RemediationHandler in         *)
(* internal/server/remediation_handler.go).  ExecuteWithAgent registers a  *)
(* session, forwards the agent's events and, at each ApprovalRequired      *)
(* event, blocks on the session's approvals channel (capacity 1) until     *)
(* some concurrent ApproveStep call has put an answer there or its context *)
(* is cancelled.  ResumeAgent finds its agent through the same map.        *)
(*                                                                         *)
(* Each RPC runs on its own goroutine.  ApproveStep holds the lock only    *)
(* for its lookup, so the session it found may end before it sends.        *)
(***************************************************************************)
EXTENDS Naturals, Sequences

CONSTANTS
    Sessions,   \* the ExecuteWithAgent calls, by the session id each draws
    Ops,        \* the operations an agent may ask approval for
    Callers,    \* the ApproveStep and ResumeAgent calls
    Capacity,   \* of a session's approvals channel
    MaxAsks,    \* bound: ApprovalRequired events of one session
    NoOp, NoSession

ASSUME SessionsAssumption ==
    /\ Capacity \in Nat \ {0}
    /\ MaxAsks \in Nat
    /\ NoOp \notin Ops
    /\ NoSession \notin Sessions

VARIABLES
    careful,    \* TRUE when clients answer each request they see, once
    phase,      \* phase[s]: where ExecuteWithAgent of s stands
    sessions,   \* the registered sessions
    cancelled,  \* the sessions whose execution context is done
    asking,     \* asking[s]: the operation s waits for an answer to
    asks,       \* asks[s]: the ApprovalRequired events of s so far
    approvals,  \* approvals[s]: the answers in the channel of s
    rpc,        \* rpc[c]: where call c stands, and what it carries
    accepted,   \* history: the answers reported Accepted, per session
    taken       \* history: the answers s took off its channel

vars == <<careful, phase, sessions, cancelled, asking, asks, approvals, rpc, accepted, taken>>

Answers == [op : Ops, by : Callers]
Calls == [pc : {"idle", "found", "accepted", "refused", "gone", "notFound",
                "resuming", "resumed"},
          session : Sessions \cup {NoSession}, op : Ops \cup {NoOp}, ask : Nat]

NoCall == [pc |-> "idle", session |-> NoSession, op |-> NoOp, ask |-> 0]

Live(s) == phase[s] \in {"running", "waiting", "leaving"}

Init ==
    /\ careful \in BOOLEAN
    /\ phase = [s \in Sessions |-> "new"]
    /\ sessions = {}
    /\ cancelled = {}
    /\ asking = [s \in Sessions |-> NoOp]
    /\ asks = [s \in Sessions |-> 0]
    /\ approvals = [s \in Sessions |-> <<>>]
    /\ rpc = [c \in Callers |-> NoCall]
    /\ accepted = [s \in Sessions |-> <<>>]
    /\ taken = [s \in Sessions |-> <<>>]

-----------------------------------------------------------------------------
\* ExecuteWithAgent: the checks passed, the session is registered.
Begin(s) ==
    /\ phase[s] = "new"
    /\ phase' = [phase EXCEPT ![s] = "running"]
    /\ sessions' = sessions \cup {s}
    /\ UNCHANGED <<careful, cancelled, asking, asks, approvals, rpc, accepted, taken>>

\* Mutant of Ask: the request is forwarded and nothing waits for its answer.
MutAskOnly(s, o) ==
    /\ phase[s] = "running"
    /\ asks[s] < MaxAsks
    /\ asking' = [asking EXCEPT ![s] = o]
    /\ asks' = [asks EXCEPT ![s] = @ + 1]
    /\ UNCHANGED <<careful, phase, sessions, cancelled, approvals, rpc, accepted, taken>>

\* The agent asks for approval, the event is sent, and the call blocks.
Ask(s, o) ==
    /\ phase[s] = "running"
    /\ asks[s] < MaxAsks
    /\ phase' = [phase EXCEPT ![s] = "waiting"]
    /\ asking' = [asking EXCEPT ![s] = o]
    /\ asks' = [asks EXCEPT ![s] = @ + 1]
    /\ UNCHANGED <<careful, sessions, cancelled, approvals, rpc, accepted, taken>>

\* Mutant of Receive: the answer is read and left in the channel.
MutPeek(s) ==
    /\ phase[s] = "waiting"
    /\ approvals[s] # <<>>
    /\ phase' = [phase EXCEPT ![s] = "running"]
    /\ asking' = [asking EXCEPT ![s] = NoOp]
    /\ taken' = [taken EXCEPT ![s] = Append(@, Head(approvals[s]))]
    /\ UNCHANGED <<careful, sessions, cancelled, asks, approvals, rpc, accepted>>

\* Mutant of Receive: an empty channel is not waited for.
MutReceiveDefault(s) ==
    /\ phase[s] = "waiting"
    /\ phase' = [phase EXCEPT ![s] = "running"]
    /\ asking' = [asking EXCEPT ![s] = NoOp]
    /\ taken' = [taken EXCEPT ![s] = @ \o approvals[s]]
    /\ approvals' = [approvals EXCEPT ![s] = <<>>]
    /\ UNCHANGED <<careful, sessions, cancelled, asks, rpc, accepted>>

\* The select takes the oldest answer and hands it to the agent's Approve.
\* A failed delivery is logged and the agent keeps running all the same.
Receive(s) ==
    /\ phase[s] = "waiting"
    /\ approvals[s] # <<>>
    /\ phase' = [phase EXCEPT ![s] = "running"]
    /\ asking' = [asking EXCEPT ![s] = NoOp]
    /\ taken' = [taken EXCEPT ![s] = Append(@, Head(approvals[s]))]
    /\ approvals' = [approvals EXCEPT ![s] = Tail(@)]
    /\ UNCHANGED <<careful, sessions, cancelled, asks, rpc, accepted>>

\* Mutant of CancelWait: the wait has no context case.
MutDeafToCancel(s) == s \notin Sessions /\ UNCHANGED vars

\* Mutant of CancelWait: the wait is given up and the agent goes on.
MutGiveUpWaiting(s) ==
    /\ phase[s] = "waiting"
    /\ phase' = [phase EXCEPT ![s] = "running"]
    /\ asking' = [asking EXCEPT ![s] = NoOp]
    /\ UNCHANGED <<careful, sessions, cancelled, asks, approvals, rpc, accepted, taken>>

\* The select sees the execution context done; both cases may be ready.
CancelWait(s) ==
    /\ phase[s] = "waiting"
    /\ s \in cancelled
    /\ phase' = [phase EXCEPT ![s] = "leaving"]
    /\ asking' = [asking EXCEPT ![s] = NoOp]
    /\ UNCHANGED <<careful, sessions, cancelled, asks, approvals, rpc, accepted, taken>>

\* The agent is done or fails, is no Executor, or an event cannot be sent.
Return(s) ==
    /\ phase[s] = "running"
    /\ phase' = [phase EXCEPT ![s] = "leaving"]
    /\ UNCHANGED <<careful, sessions, cancelled, asking, asks, approvals, rpc, accepted, taken>>

\* Mutant of Deregister: a cancelled session stays in the map.
MutKeepCancelled(s) ==
    /\ phase[s] = "leaving"
    /\ phase' = [phase EXCEPT ![s] = "ended"]
    /\ sessions' = IF s \in cancelled THEN sessions ELSE sessions \ {s}
    /\ UNCHANGED <<careful, cancelled, asking, asks, approvals, rpc, accepted, taken>>

\* The deferred delete, on every way out.
Deregister(s) ==
    /\ phase[s] = "leaving"
    /\ phase' = [phase EXCEPT ![s] = "ended"]
    /\ sessions' = sessions \ {s}
    /\ UNCHANGED <<careful, cancelled, asking, asks, approvals, rpc, accepted, taken>>

\* The client of the stream goes away.
Disconnect(s) ==
    /\ phase[s] \in {"running", "waiting"}
    /\ s \notin cancelled
    /\ cancelled' = cancelled \cup {s}
    /\ UNCHANGED <<careful, phase, sessions, asking, asks, approvals, rpc, accepted, taken>>

-----------------------------------------------------------------------------
\* When clients answer what they see: the open request, not answered before.
MayAnswer(s, o) ==
    careful =>
        /\ phase[s] = "waiting"
        /\ asking[s] = o
        /\ \A c \in Callers : ~(rpc[c].session = s /\ rpc[c].ask = asks[s])

\* ApproveStep: the lookup under the read lock.
Approve(c, s, o) ==
    /\ rpc[c].pc = "idle"
    /\ MayAnswer(s, o)
    /\ rpc' = [rpc EXCEPT ![c] =
                 [pc |-> IF s \in sessions THEN "found" ELSE "notFound",
                  session |-> s, op |-> o, ask |-> asks[s]]]
    /\ UNCHANGED <<careful, phase, sessions, cancelled, asking, asks, approvals, accepted, taken>>

Room(s) == Len(approvals[s]) < Capacity

\* The non-blocking send to the session found, registered or not by now ...
Send(c) ==
    LET s == rpc[c].session
        answer == [op |-> rpc[c].op, by |-> c]
    IN  /\ rpc[c].pc = "found"
        /\ Room(s)
        /\ approvals' = [approvals EXCEPT ![s] = Append(@, answer)]
        /\ accepted' = [accepted EXCEPT ![s] = Append(@, answer)]
        /\ rpc' = [rpc EXCEPT ![c].pc = "accepted"]
        /\ UNCHANGED <<careful, phase, sessions, cancelled, asking, asks, taken>>

\* ... "No pending approval for this session" when the channel is full ...
RefuseAnswer(c) ==
    /\ rpc[c].pc = "found"
    /\ ~Room(rpc[c].session)
    /\ rpc' = [rpc EXCEPT ![c].pc = "refused"]
    /\ UNCHANGED <<careful, phase, sessions, cancelled, asking, asks, approvals, accepted, taken>>

\* ... or the caller's own context is done and that case is chosen.
CallerGone(c) ==
    /\ rpc[c].pc = "found"
    /\ rpc' = [rpc EXCEPT ![c].pc = "gone"]
    /\ UNCHANGED <<careful, phase, sessions, cancelled, asking, asks, approvals, accepted, taken>>

\* ResumeAgent runs the agent of the session it finds a second time ...
Resume(c, s) ==
    /\ rpc[c].pc = "idle"
    /\ rpc' = [rpc EXCEPT ![c].pc = IF s \in sessions THEN "resuming" ELSE "notFound",
                          ![c].session = s]
    /\ UNCHANGED <<careful, phase, sessions, cancelled, asking, asks, approvals, accepted, taken>>

\* ... forwarding its events without ever waiting for an answer.
EndResume(c) ==
    /\ rpc[c].pc = "resuming"
    /\ rpc' = [rpc EXCEPT ![c].pc = "resumed"]
    /\ UNCHANGED <<careful, phase, sessions, cancelled, asking, asks, approvals, accepted, taken>>

-----------------------------------------------------------------------------
Executing(s) == Receive(s) \/ CancelWait(s) \/ Return(s) \/ Deregister(s)

Serving(c) == Send(c) \/ RefuseAnswer(c) \/ CallerGone(c) \/ EndResume(c)

Next ==
    \/ \E s \in Sessions :
          Begin(s) \/ Executing(s) \/ Disconnect(s) \/ \E o \in Ops : Ask(s, o)
    \/ \E c \in Callers :
          Serving(c) \/ \E s \in Sessions : Resume(c, s) \/ \E o \in Ops : Approve(c, s, o)

Spec == Init /\ [][Next]_vars

\* A goroutine whose select or deferred delete can go on does; nobody has to
\* answer, to disconnect, or to end the agent's run.
Scheduling ==
    \A s \in Sessions : WF_vars(Receive(s) \/ CancelWait(s)) /\ WF_vars(Deregister(s))

LiveSpec == Spec /\ Scheduling

-----------------------------------------------------------------------------
TypeOK ==
    /\ careful \in BOOLEAN
    /\ phase \in [Sessions -> {"new", "running", "waiting", "leaving", "ended"}]
    /\ sessions \in SUBSET Sessions
    /\ cancelled \in SUBSET Sessions
    /\ asking \in [Sessions -> Ops \cup {NoOp}]
    /\ asks \in [Sessions -> Nat]
    /\ approvals \in [Sessions -> Seq(Answers)]
    /\ rpc \in [Callers -> Calls]
    /\ \A c \in Callers : rpc[c].pc = "found" => rpc[c].session \in Sessions /\ rpc[c].op \in Ops
    /\ accepted \in [Sessions -> Seq(Answers)]
    /\ taken \in [Sessions -> Seq(Answers)]
    /\ \A s \in Sessions : (asking[s] # NoOp) <=> (phase[s] = "waiting")

\* The handler's map holds the executions in progress and no other: one that
\* fails, is cancelled or completes leaves it.
RegisteredWhileLive == \A s \in Sessions : s \in sessions <=> Live(s)

\* An answer reported Accepted reaches its own session, in the order of the
\* acceptances, and is taken at most once.
AnswersOnceInOrder ==
    \A s \in Sessions :
        /\ accepted[s] = taken[s] \o approvals[s]
        /\ \A i \in 1..Len(accepted[s]) : rpc[accepted[s][i].by].session = s
        /\ \A i, j \in 1..Len(accepted[s]) :
               accepted[s][i].by = accepted[s][j].by => i = j

\* The agent never gets past a request for approval without an answer, nor
\* uses one answer for two requests.
OneAnswerPerRequest ==
    \A s \in Sessions :
        CASE phase[s] = "running" -> Len(taken[s]) = asks[s]
          [] phase[s] = "waiting" -> Len(taken[s]) + 1 = asks[s]
          [] OTHER -> Len(taken[s]) <= asks[s]

\* When every client answers a request it sees, and once, the answer a wait
\* takes is the answer to what it asked.  (Clients that answer twice, or
\* ahead, can break this: the channel holds their answer for the next wait.)
AnswerMatchesQuestion ==
    [][\A s \in Sessions :
          careful /\ Len(taken'[s]) > Len(taken[s]) =>
              taken'[s][Len(taken'[s])].op = asking[s]]_vars

\* "No pending approval for this session": an answer is accepted only while
\* its session waits for one.
AcceptedIsPending ==
    [][\A s \in Sessions :
          Len(accepted'[s]) > Len(accepted[s]) => phase[s] = "waiting"]_vars

\* An accepted answer ends the wait it finds, and a disconnected client ends
\* the wait and the registration of its session.
WaitsEnd ==
    \A s \in Sessions :
        /\ (phase[s] = "waiting" /\ approvals[s] # <<>>) ~> (phase[s] # "waiting")
        /\ (phase[s] = "waiting" /\ s \in cancelled)
               ~> (phase[s] = "running" \/ s \notin sessions)

=============================================================================
