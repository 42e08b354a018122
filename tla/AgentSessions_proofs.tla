------------------------ MODULE AgentSessions_proofs ------------------------
(***************************************************************************)
(* Proofs about AgentSessions, for every set of sessions, operations and   *)
(* calls, every channel capacity and every number of requests.             *)
(***************************************************************************)
EXTENDS AgentSessions, SequenceTheorems, TLAPS

\* The caller of an accepted answer has been told so, and has made no other call.
AcceptedIsTold ==
    \A s \in Sessions : \A i \in 1..Len(accepted[s]) :
        rpc[accepted[s][i].by].pc = "accepted"

\* A session that has not begun has asked and taken nothing.
NewIsBlank == \A s \in Sessions : phase[s] = "new" => taken[s] = <<>> /\ asks[s] = 0

IInv ==
    /\ TypeOK
    /\ RegisteredWhileLive
    /\ AnswersOnceInOrder
    /\ AcceptedIsTold
    /\ OneAnswerPerRequest
    /\ NewIsBlank

-----------------------------------------------------------------------------
\* A call stays a call as it moves from line to line.
LEMMA CallGoesOn ==
    ASSUME NEW r \in Calls, NEW l \in {"found", "accepted", "refused", "gone", "resumed"}
    PROVE  [r EXCEPT !.pc = l] \in Calls
BY DEF Calls

\* The initial states satisfy the invariant.
LEMMA InitIInv == Init => IInv
<1> SUFFICES ASSUME Init PROVE IInv
  OBVIOUS
<1>1. TypeOK
  <2>1. NoCall \in Calls
    BY DEF NoCall, Calls
  <2>2. <<>> \in Seq(Answers)
    OBVIOUS
  <2>3. QED
    BY <2>1, <2>2, SessionsAssumption DEF Init, TypeOK, NoCall
<1>2. RegisteredWhileLive
  BY DEF Init, RegisteredWhileLive, Live
<1>3. AnswersOnceInOrder
  <2>1. <<>> = <<>> \o <<>> /\ Len(<<>>) = 0
    OBVIOUS
  <2>2. ASSUME NEW s \in Sessions
        PROVE  accepted[s] = taken[s] \o approvals[s] /\ Len(accepted[s]) = 0
    BY <2>1 DEF Init
  <2>3. \A s \in Sessions : 1..Len(accepted[s]) = {}
    <3>1. 1..0 = {}
      OBVIOUS
    <3>2. QED
      BY <2>2, <3>1
  <2>4. QED
    BY <2>2, <2>3 DEF AnswersOnceInOrder
<1>4. AcceptedIsTold /\ OneAnswerPerRequest /\ NewIsBlank
  BY DEF Init, AcceptedIsTold, OneAnswerPerRequest, NewIsBlank
<1>5. QED
  BY <1>1, <1>2, <1>3, <1>4 DEF IInv

\* Moving the head of a sequence to the end of another.
LEMMA MoveHead ==
    ASSUME NEW t \in Seq(Answers), NEW q \in Seq(Answers), q # <<>>
    PROVE  Append(t, Head(q)) \o Tail(q) = t \o q
OBVIOUS

\* What was taken from a channel and what it holds, when an answer is sent.
LEMMA AppendConcat ==
    ASSUME NEW t \in Seq(Answers), NEW q \in Seq(Answers), NEW a \in Answers
    PROVE  Append(t \o q, a) = t \o Append(q, a)
OBVIOUS

\* What Receive does to a channel and to the answers taken from it.
LEMMA TakeHead ==
    ASSUME TypeOK, NEW s \in Sessions, approvals[s] # <<>>
    PROVE  /\ Head(approvals[s]) \in Answers /\ Tail(approvals[s]) \in Seq(Answers)
           /\ Append(taken[s], Head(approvals[s])) \in Seq(Answers)
           /\ Len(Append(taken[s], Head(approvals[s]))) = Len(taken[s]) + 1
           /\ Append(taken[s], Head(approvals[s]))[Len(taken[s]) + 1] = Head(approvals[s])
           /\ Append(taken[s], Head(approvals[s])) \o Tail(approvals[s])
                 = taken[s] \o approvals[s]
<1>1. taken[s] \in Seq(Answers) /\ approvals[s] \in Seq(Answers)
  BY DEF TypeOK
<1>2. Append(taken[s], Head(approvals[s])) \o Tail(approvals[s]) = taken[s] \o approvals[s]
  BY <1>1, MoveHead, Zenon
<1>3. Head(approvals[s]) \in Answers /\ Tail(approvals[s]) \in Seq(Answers)
  BY <1>1, HeadTailProperties
<1>4. QED
  BY <1>1, <1>2, <1>3, AppendProperties

\* Every step preserves the types.
LEMMA TypePreserved == TypeOK /\ [Next]_vars => TypeOK'
<1> SUFFICES ASSUME TypeOK, [Next]_vars PROVE TypeOK'
  OBVIOUS
<1> USE SessionsAssumption DEF TypeOK
<1>1. ASSUME NEW s \in Sessions, Begin(s) PROVE TypeOK'
  BY <1>1 DEF Begin
<1>2. ASSUME NEW s \in Sessions, NEW o \in Ops, Ask(s, o) PROVE TypeOK'
  BY <1>2 DEF Ask
<1>3. ASSUME NEW s \in Sessions, Receive(s) PROVE TypeOK'
  BY <1>3, TakeHead DEF Receive
<1>4. ASSUME NEW s \in Sessions, CancelWait(s) \/ Return(s) PROVE TypeOK'
  BY <1>4 DEF CancelWait, Return
<1>5. ASSUME NEW s \in Sessions, Deregister(s) \/ Disconnect(s) PROVE TypeOK'
  BY <1>5 DEF Deregister, Disconnect
<1>6. ASSUME NEW c \in Callers, NEW s \in Sessions, NEW o \in Ops, Approve(c, s, o)
      PROVE  TypeOK'
  BY <1>6 DEF Approve, Calls
<1>7. ASSUME NEW c \in Callers, Send(c) PROVE TypeOK'
  <2>1. rpc[c].session \in Sessions /\ rpc[c].op \in Ops
    BY <1>7 DEF Send
  <2>. DEFINE s == rpc[c].session
              answer == [op |-> rpc[c].op, by |-> c]
  <2>2. answer \in Answers
    BY <2>1 DEF Answers
  <2>3. /\ Append(approvals[s], answer) \in Seq(Answers)
        /\ Append(accepted[s], answer) \in Seq(Answers)
    BY <2>1, <2>2
  <2>4. rpc' \in [Callers -> Calls]
    <3>1. rpc' = [rpc EXCEPT ![c] = [rpc[c] EXCEPT !.pc = "accepted"]]
      BY <1>7 DEF Send
    <3>2. QED
      BY <3>1, CallGoesOn
  <2>5. /\ approvals' = [approvals EXCEPT ![s] = Append(approvals[s], answer)]
        /\ accepted' = [accepted EXCEPT ![s] = Append(accepted[s], answer)]
        /\ UNCHANGED <<careful, phase, sessions, cancelled, asking, asks, taken>>
    BY <1>7 DEF Send
  <2>6. rpc'[c].pc = "accepted" /\ \A d \in Callers \ {c} : rpc'[d] = rpc[d]
    BY <1>7 DEF Send, Calls
  <2>. HIDE DEF s, answer
  <2>7. s \in Sessions
    BY <2>1 DEF s
  <2>8. approvals' \in [Sessions -> Seq(Answers)] /\ accepted' \in [Sessions -> Seq(Answers)]
    BY <2>3, <2>5, <2>7
  <2>9. QED
    BY <2>4, <2>5, <2>6, <2>8
<1>8. ASSUME NEW c \in Callers, RefuseAnswer(c) \/ CallerGone(c) \/ EndResume(c)
      PROVE  TypeOK'
  <2>1. PICK l \in {"refused", "gone", "resumed"} :
            rpc' = [rpc EXCEPT ![c] = [rpc[c] EXCEPT !.pc = l]]
    BY <1>8 DEF RefuseAnswer, CallerGone, EndResume
  <2>2. rpc' \in [Callers -> Calls]
    BY <2>1, CallGoesOn
  <2>3. rpc'[c].pc = l /\ \A d \in Callers \ {c} : rpc'[d] = rpc[d]
    BY <2>1 DEF Calls
  <2>4. QED
    BY <1>8, <2>2, <2>3 DEF RefuseAnswer, CallerGone, EndResume
<1>9. ASSUME NEW c \in Callers, NEW s \in Sessions, Resume(c, s) PROVE TypeOK'
  <2>1. PICK l \in {"resuming", "notFound"} :
            rpc' = [rpc EXCEPT ![c] = [rpc[c] EXCEPT !.pc = l, !.session = s]]
    BY <1>9 DEF Resume
  <2>2. [rpc[c] EXCEPT !.pc = l, !.session = s] \in Calls
    BY DEF Calls
  <2>3. rpc'[c].pc = l /\ \A d \in Callers \ {c} : rpc'[d] = rpc[d]
    BY <2>1 DEF Calls
  <2>4. rpc' \in [Callers -> Calls]
    BY <2>1, <2>2
  <2>5. QED
    BY <1>9, <2>3, <2>4 DEF Resume
<1>10. CASE UNCHANGED vars
  BY <1>10 DEF vars
<1>11. QED
  BY <1>1, <1>2, <1>3, <1>4, <1>5, <1>6, <1>7, <1>8, <1>9, <1>10
  DEF Next, Executing, Serving

\* The state is well typed in every reachable state of every instance.
THEOREM AgentTypeCorrect == Spec => []TypeOK
<1>1. Init => TypeOK
  BY InitIInv DEF IInv
<1>2. QED
  BY <1>1, TypePreserved, PTL DEF Spec

-----------------------------------------------------------------------------
\* A session is in the map just as long as its execution lives, at every step.
LEMMA RegisteredPreserved ==
    TypeOK /\ RegisteredWhileLive /\ [Next]_vars => RegisteredWhileLive'
<1> SUFFICES ASSUME TypeOK, RegisteredWhileLive, [Next]_vars, NEW t \in Sessions
             PROVE  (t \in sessions <=> Live(t))'
  BY DEF RegisteredWhileLive
<1>0. t \in sessions <=> Live(t)
  BY DEF RegisteredWhileLive
<1> USE <1>0 DEF TypeOK, Live
<1>1. ASSUME NEW s \in Sessions, Begin(s) PROVE (t \in sessions <=> Live(t))'
  BY <1>1 DEF Begin
<1>2. ASSUME NEW s \in Sessions, NEW o \in Ops, Ask(s, o)
      PROVE  (t \in sessions <=> Live(t))'
  BY <1>2 DEF Ask
<1>3. ASSUME NEW s \in Sessions, Receive(s) \/ CancelWait(s) \/ Return(s)
      PROVE  (t \in sessions <=> Live(t))'
  BY <1>3 DEF Receive, CancelWait, Return
<1>4. ASSUME NEW s \in Sessions, Deregister(s) PROVE (t \in sessions <=> Live(t))'
  BY <1>4 DEF Deregister
<1>5. CASE UNCHANGED <<phase, sessions>>
  BY <1>5
<1>6. QED
  BY <1>1, <1>2, <1>3, <1>4, <1>5
  DEF Next, Executing, Serving, Disconnect, Approve, Send, RefuseAnswer, CallerGone,
      Resume, EndResume, vars

\* A call that is not accepted has no answer among the accepted ones.
LEMMA OthersAnswered ==
    ASSUME TypeOK, AcceptedIsTold, NEW c \in Callers, rpc[c].pc # "accepted",
           NEW s \in Sessions, NEW i \in 1..Len(accepted[s])
    PROVE  accepted[s][i].by \in Callers \ {c}
<1>1. accepted[s] \in Seq(Answers)
  BY DEF TypeOK
<1>2. accepted[s][i] \in Answers
  BY <1>1
<1>3. QED
  BY <1>2 DEF AcceptedIsTold, Answers

InOrder(s) ==
    /\ accepted[s] = taken[s] \o approvals[s]
    /\ \A i \in 1..Len(accepted[s]) :
           rpc[accepted[s][i].by].session = s /\ rpc[accepted[s][i].by].pc = "accepted"
    /\ \A i, j \in 1..Len(accepted[s]) :
           accepted[s][i].by = accepted[s][j].by => i = j

\* The two properties, told session by session.
LEMMA InOrderIsBoth ==
    (\A s \in Sessions : InOrder(s)) <=> AnswersOnceInOrder /\ AcceptedIsTold
BY DEF InOrder, AnswersOnceInOrder, AcceptedIsTold

\* A call that was not accepted may change: no accepted answer is its own.
LEMMA RpcMoves ==
    ASSUME TypeOK, AnswersOnceInOrder, AcceptedIsTold,
           NEW c \in Callers, rpc[c].pc # "accepted",
           \A d \in Callers \ {c} : rpc'[d] = rpc[d],
           UNCHANGED <<accepted, taken, approvals>>,
           NEW s \in Sessions
    PROVE  InOrder(s)'
<1>1. InOrder(s)
  BY InOrderIsBoth
<1>2. \A i \in 1..Len(accepted[s]) : rpc'[accepted[s][i].by] = rpc[accepted[s][i].by]
  BY OthersAnswered
<1>3. QED
  BY <1>1, <1>2 DEF InOrder

\* The answer goes to the end of the channel and of the accepted ones.
LEMMA SendInOrder ==
    ASSUME TypeOK, AnswersOnceInOrder, AcceptedIsTold,
           NEW c \in Callers, Send(c), NEW s \in Sessions
    PROVE  InOrder(s)'
<1>1. rpc[c].pc = "found" /\ rpc[c].session \in Sessions /\ rpc[c].op \in Ops
  BY DEF Send, TypeOK
<1>2. /\ rpc'[c].pc = "accepted" /\ rpc'[c].session = rpc[c].session
      /\ \A d \in Callers \ {c} : rpc'[d] = rpc[d]
  BY DEF Send, TypeOK, Calls
<1>3. InOrder(s)
  BY InOrderIsBoth
<1>4. \A i \in 1..Len(accepted[s]) : accepted[s][i].by \in Callers \ {c}
  BY <1>1, OthersAnswered
<1>5. CASE s # rpc[c].session
  <2>1. accepted'[s] = accepted[s] /\ approvals'[s] = approvals[s] /\ taken' = taken
    BY <1>1, <1>5 DEF Send, TypeOK
  <2>2. \A i \in 1..Len(accepted[s]) : rpc'[accepted[s][i].by] = rpc[accepted[s][i].by]
    BY <1>2, <1>4
  <2>3. accepted'[s] = taken'[s] \o approvals'[s]
    BY <1>3, <2>1 DEF InOrder
  <2>4. ASSUME NEW i \in 1..Len(accepted'[s])
        PROVE  rpc'[accepted'[s][i].by].session = s /\ rpc'[accepted'[s][i].by].pc = "accepted"
    <3>1. accepted'[s][i] = accepted[s][i] /\ i \in 1..Len(accepted[s])
      BY <2>1
    <3>2. rpc'[accepted[s][i].by] = rpc[accepted[s][i].by]
      BY <2>2, <3>1
    <3>3. QED
      BY <1>3, <3>1, <3>2 DEF InOrder
  <2>5. \A i, j \in 1..Len(accepted'[s]) :
            accepted'[s][i].by = accepted'[s][j].by => i = j
    BY <1>3, <2>1 DEF InOrder
  <2>6. QED
    BY <2>3, <2>4, <2>5 DEF InOrder
<1>6. CASE s = rpc[c].session
  <2>. DEFINE answer == [op |-> rpc[c].op, by |-> c]
              n == Len(accepted[s])
  <2>1. answer \in Answers
    BY <1>1 DEF Answers
  <2>2. accepted[s] \in Seq(Answers) /\ approvals[s] \in Seq(Answers) /\ taken[s] \in Seq(Answers)
    BY DEF TypeOK
  <2>3. /\ accepted'[s] = Append(accepted[s], answer)
        /\ approvals'[s] = Append(approvals[s], answer)
        /\ taken'[s] = taken[s]
    BY <1>1, <1>6 DEF Send, TypeOK
  <2>4. accepted'[s] = taken'[s] \o approvals'[s]
    BY <1>3, <2>1, <2>2, <2>3, AppendConcat, Zenon DEF InOrder
  <2>5. /\ Len(accepted'[s]) = n + 1 /\ n \in Nat
        /\ accepted'[s][n + 1] = answer
        /\ \A i \in 1..n : accepted'[s][i] = accepted[s][i]
    BY <2>1, <2>2, <2>3
  <2>6. answer.by = c
    OBVIOUS
  <2>7. \A i \in 1..(n + 1) : i = n + 1 \/ i \in 1..n
    BY <2>5
  <2>. HIDE DEF answer, n
  <2>8. ASSUME NEW i \in 1..Len(accepted'[s])
        PROVE  rpc'[accepted'[s][i].by].session = s /\ rpc'[accepted'[s][i].by].pc = "accepted"
    <3>1. CASE i = n + 1
      BY <1>2, <1>6, <2>5, <2>6, <3>1
    <3>2. CASE i \in 1..n
      <4>1. accepted'[s][i] = accepted[s][i] /\ i \in 1..Len(accepted[s])
        BY <2>5, <3>2 DEF n
      <4>2. rpc'[accepted[s][i].by] = rpc[accepted[s][i].by]
        BY <1>2, <1>4, <4>1
      <4>3. QED
        BY <1>3, <4>1, <4>2 DEF InOrder
    <3>3. QED
      BY <2>5, <2>7, <3>1, <3>2
  <2>9. \A i, j \in 1..Len(accepted'[s]) :
            accepted'[s][i].by = accepted'[s][j].by => i = j
    BY <1>3, <1>4, <2>5, <2>6, <2>7 DEF InOrder, n
  <2>10. QED
    BY <2>4, <2>8, <2>9 DEF InOrder
<1>7. QED
  BY <1>5, <1>6

\* No step loses, repeats or reorders an answer that was accepted.
LEMMA AnswersPreserved ==
    TypeOK /\ AnswersOnceInOrder /\ AcceptedIsTold /\ [Next]_vars
        => AnswersOnceInOrder' /\ AcceptedIsTold'
<1> SUFFICES ASSUME TypeOK, AnswersOnceInOrder, AcceptedIsTold, [Next]_vars, NEW t \in Sessions
             PROVE  InOrder(t)'
  BY DEF InOrder, AnswersOnceInOrder, AcceptedIsTold
<1>0. InOrder(t)
  BY InOrderIsBoth
<1>1. CASE UNCHANGED <<approvals, rpc, accepted, taken>>
  BY <1>0, <1>1 DEF InOrder
<1>2. ASSUME NEW s \in Sessions, Receive(s) PROVE InOrder(t)'
  <2>1. taken'[t] \o approvals'[t] = taken[t] \o approvals[t]
    <3>1. CASE s = t
      <4>1. /\ taken'[t] = Append(taken[t], Head(approvals[t]))
            /\ approvals'[t] = Tail(approvals[t])
            /\ approvals[t] # <<>>
        BY <1>2, <3>1 DEF Receive, TypeOK
      <4>2. QED
        BY <4>1, TakeHead
    <3>2. CASE s # t
      <4>1. taken'[t] = taken[t] /\ approvals'[t] = approvals[t]
        BY <1>2, <3>2 DEF Receive, TypeOK
      <4>2. QED
        BY <4>1
    <3>3. QED
      BY <3>1, <3>2
  <2>2. accepted' = accepted /\ rpc' = rpc
    BY <1>2 DEF Receive
  <2>3. QED
    BY <1>0, <2>1, <2>2 DEF InOrder
<1>3. ASSUME NEW c \in Callers, NEW s \in Sessions, NEW o \in Ops, Approve(c, s, o)
      PROVE  InOrder(t)'
  <2>1. /\ rpc[c].pc # "accepted"
        /\ \A d \in Callers \ {c} : rpc'[d] = rpc[d]
        /\ UNCHANGED <<accepted, taken, approvals>>
    BY <1>3 DEF Approve, TypeOK
  <2>2. QED
    BY <2>1, RpcMoves
<1>4. ASSUME NEW c \in Callers, RefuseAnswer(c) \/ CallerGone(c) \/ EndResume(c)
      PROVE  InOrder(t)'
  <2>1. /\ rpc[c].pc # "accepted"
        /\ \A d \in Callers \ {c} : rpc'[d] = rpc[d]
        /\ UNCHANGED <<accepted, taken, approvals>>
    BY <1>4 DEF RefuseAnswer, CallerGone, EndResume, TypeOK
  <2>2. QED
    BY <2>1, RpcMoves
<1>5. ASSUME NEW c \in Callers, Send(c) PROVE InOrder(t)'
  BY <1>5, SendInOrder
<1>6. ASSUME NEW c \in Callers, NEW s \in Sessions, Resume(c, s) PROVE InOrder(t)'
  <2>1. /\ rpc[c].pc # "accepted"
        /\ \A d \in Callers \ {c} : rpc'[d] = rpc[d]
        /\ UNCHANGED <<accepted, taken, approvals>>
    BY <1>6 DEF Resume, TypeOK
  <2>2. QED
    BY <2>1, RpcMoves
<1>7. QED
  BY <1>1, <1>2, <1>3, <1>4, <1>5, <1>6
  DEF Next, Executing, Serving, Begin, Ask, CancelWait, Return, Deregister, Disconnect, vars

\* A wait ends with one more answer taken or not at all; only Ask opens one.
LEMMA OneAnswerPreserved ==
    TypeOK /\ OneAnswerPerRequest /\ NewIsBlank /\ [Next]_vars
        => OneAnswerPerRequest' /\ NewIsBlank'
<1> DEFINE Counted(s) == CASE phase[s] = "running" -> Len(taken[s]) = asks[s]
                           [] phase[s] = "waiting" -> Len(taken[s]) + 1 = asks[s]
                           [] OTHER -> Len(taken[s]) <= asks[s]
           Blank(s) == phase[s] = "new" => taken[s] = <<>> /\ asks[s] = 0
<1> SUFFICES ASSUME TypeOK, OneAnswerPerRequest, NewIsBlank, [Next]_vars, NEW t \in Sessions
             PROVE  Counted(t)' /\ Blank(t)'
  BY DEF OneAnswerPerRequest, NewIsBlank
<1>0. /\ Counted(t) /\ Blank(t)
      /\ phase[t] \in {"new", "running", "waiting", "leaving", "ended"}
      /\ Len(taken[t]) \in Nat /\ asks[t] \in Nat
  BY DEF OneAnswerPerRequest, NewIsBlank, TypeOK
<1>1. CASE UNCHANGED <<phase, asks, taken>>
  BY <1>0, <1>1
<1>2. ASSUME NEW s \in Sessions, Begin(s) PROVE Counted(t)' /\ Blank(t)'
  <2>1. Len(<<>>) = 0
    OBVIOUS
  <2>2. QED
    BY <1>0, <1>2, <2>1 DEF Begin, TypeOK
<1>3. ASSUME NEW s \in Sessions, NEW o \in Ops, Ask(s, o) PROVE Counted(t)' /\ Blank(t)'
  BY <1>0, <1>3 DEF Ask, TypeOK
<1>4. ASSUME NEW s \in Sessions, Receive(s) PROVE Counted(t)' /\ Blank(t)'
  <2>1. CASE s = t
    <3>1. /\ taken'[t] = Append(taken[t], Head(approvals[t])) /\ approvals[t] # <<>>
          /\ phase[t] = "waiting" /\ phase'[t] = "running" /\ asks' = asks
      BY <1>4, <2>1 DEF Receive, TypeOK
    <3>2. Len(taken'[t]) = Len(taken[t]) + 1
      BY <3>1, TakeHead
    <3>3. QED
      BY <1>0, <3>1, <3>2
  <2>2. CASE s # t
    BY <1>0, <1>4, <2>2 DEF Receive, TypeOK
  <2>3. QED
    BY <2>1, <2>2
<1>5. ASSUME NEW s \in Sessions, CancelWait(s) \/ Return(s) \/ Deregister(s)
      PROVE  Counted(t)' /\ Blank(t)'
  BY <1>0, <1>5 DEF CancelWait, Return, Deregister, TypeOK
<1>6. QED
  BY <1>1, <1>2, <1>3, <1>4, <1>5
  DEF Next, Executing, Serving, Disconnect, Approve, Send, RefuseAnswer, CallerGone,
      Resume, EndResume, vars

\* The invariant holds in every reachable state.
THEOREM AgentInvariance == Spec => []IInv
<1>1. Init => IInv
  BY InitIInv
<1>2. IInv /\ [Next]_vars => IInv'
  BY TypePreserved, RegisteredPreserved, AnswersPreserved, OneAnswerPreserved DEF IInv
<1>3. QED
  BY <1>1, <1>2, PTL DEF Spec

\* For every number of sessions, requests and calls: the map holds exactly the
\* executions in progress ...
THEOREM AgentsRegistered == Spec => []RegisteredWhileLive
<1>1. IInv => RegisteredWhileLive
  BY DEF IInv
<1>2. QED
  BY <1>1, AgentInvariance, PTL

\* ... accepted answers are taken in order, once, by the session they name ...
THEOREM AnswersInOrder == Spec => []AnswersOnceInOrder
<1>1. IInv => AnswersOnceInOrder
  BY DEF IInv
<1>2. QED
  BY <1>1, AgentInvariance, PTL

\* ... and no request for approval is passed without an answer.
THEOREM RequestsAnswered == Spec => []OneAnswerPerRequest
<1>1. IInv => OneAnswerPerRequest
  BY DEF IInv
<1>2. QED
  BY <1>1, AgentInvariance, PTL

-----------------------------------------------------------------------------
(***************************************************************************)
(* When clients answer only what they see, and once, a wait takes the      *)
(* answer to its own question: the answers under way to a session are      *)
(* answers to its open request, and there is at most one.                  *)
(***************************************************************************)
\* The answer of call c to session s is on its way, or in the channel.
Pending(c, s) ==
    /\ rpc[c].session = s
    /\ \/ rpc[c].pc = "found"
       \/ \E i \in 1..Len(approvals[s]) : approvals[s][i].by = c

\* Call c answers the open request of s, if s can still take an answer.
Current(c, s) ==
    \/ phase[s] \in {"leaving", "ended"}
    \/ phase[s] = "waiting" /\ rpc[c].ask = asks[s] /\ rpc[c].op = asking[s]

PendingIsCurrent ==
    careful => \A s \in Sessions : \A c \in Callers : Pending(c, s) => Current(c, s)

\* The channel holds what its callers meant to answer.
ChannelIsCalled ==
    \A s \in Sessions : \A i \in 1..Len(approvals[s]) :
        rpc[approvals[s][i].by].op = approvals[s][i].op

IdleIsBlank == \A c \in Callers : rpc[c].pc = "idle" => rpc[c].ask = 0

\* No two careful calls answer one request.
AnsweredOnce ==
    careful => \A c, d \in Callers :
        c # d /\ rpc[c].session = rpc[d].session /\ rpc[c].ask = rpc[d].ask
            => rpc[c].ask = 0

CInv ==
    /\ IInv
    /\ ChannelIsCalled
    /\ IdleIsBlank
    /\ AnsweredOnce
    /\ PendingIsCurrent

\* The second part of a concatenation stands behind the first ...
LEMMA ConcatParts ==
    ASSUME NEW t \in Seq(Answers), NEW q \in Seq(Answers)
    PROVE  \A i \in 1..Len(q) :
               Len(t) + i \in 1..Len(t \o q) /\ (t \o q)[Len(t) + i] = q[i]
OBVIOUS

\* The answers in a channel: of calls that are accepted, one of each.
LEMMA ChannelFacts ==
    ASSUME TypeOK, AnswersOnceInOrder, AcceptedIsTold, NEW s \in Sessions
    PROVE  /\ \A i \in 1..Len(approvals[s]) :
                 /\ approvals[s][i].by \in Callers
                 /\ rpc[approvals[s][i].by].session = s
                 /\ rpc[approvals[s][i].by].pc = "accepted"
           /\ \A i, j \in 1..Len(approvals[s]) :
                 approvals[s][i].by = approvals[s][j].by => i = j
<1>1. taken[s] \in Seq(Answers) /\ approvals[s] \in Seq(Answers)
  BY DEF TypeOK
<1>2. accepted[s] = taken[s] \o approvals[s]
  BY DEF AnswersOnceInOrder
<1>3. ASSUME NEW i \in 1..Len(approvals[s])
      PROVE  /\ Len(taken[s]) + i \in 1..Len(accepted[s])
             /\ accepted[s][Len(taken[s]) + i] = approvals[s][i]
             /\ approvals[s][i].by \in Callers
             /\ rpc[approvals[s][i].by].session = s
             /\ rpc[approvals[s][i].by].pc = "accepted"
  <2>1. /\ Len(taken[s]) + i \in 1..Len(taken[s] \o approvals[s])
        /\ (taken[s] \o approvals[s])[Len(taken[s]) + i] = approvals[s][i]
    BY <1>1, ConcatParts, Zenon
  <2>2. /\ Len(taken[s]) + i \in 1..Len(accepted[s])
        /\ accepted[s][Len(taken[s]) + i] = approvals[s][i]
    BY <1>2, <2>1, Zenon
  <2>3. approvals[s][i].by \in Callers
    <3>1. approvals[s][i] \in Answers
      BY <1>1
    <3>2. QED
      BY <3>1 DEF Answers
  <2>4. \A k \in 1..Len(accepted[s]) :
            rpc[accepted[s][k].by].session = s /\ rpc[accepted[s][k].by].pc = "accepted"
    BY Zenon DEF AnswersOnceInOrder, AcceptedIsTold
  <2>5. QED
    BY <2>2, <2>3, <2>4
<1>4. ASSUME NEW i \in 1..Len(approvals[s]), NEW j \in 1..Len(approvals[s]),
             approvals[s][i].by = approvals[s][j].by
      PROVE  i = j
  <2>1. accepted[s][Len(taken[s]) + i].by = accepted[s][Len(taken[s]) + j].by
    BY <1>3, <1>4
  <2>2. Len(taken[s]) + i = Len(taken[s]) + j
    BY <1>3, <2>1, Zenon DEF AnswersOnceInOrder
  <2>3. Len(taken[s]) \in Nat /\ i \in Nat /\ j \in Nat
    BY <1>1
  <2>4. QED
    BY <2>2, <2>3
<1>5. QED
  BY <1>3, <1>4

\* ... a tail is the sequence without its first element ...
LEMMA TailParts ==
    ASSUME NEW q \in Seq(Answers), q # <<>>
    PROVE  /\ 1 \in 1..Len(q) /\ Head(q) = q[1]
           /\ \A i \in 1..Len(Tail(q)) : i + 1 \in 1..Len(q) /\ Tail(q)[i] = q[i + 1]
OBVIOUS

\* ... and an extended sequence adds one element to those it had.
LEMMA AppendParts ==
    ASSUME NEW q \in Seq(Answers), NEW a \in Answers
    PROVE  \A i \in 1..Len(Append(q, a)) :
               (i \in 1..Len(q) /\ Append(q, a)[i] = q[i]) \/ Append(q, a)[i] = a
OBVIOUS

\* What a step does to the channel t: it keeps its answers, drops some of the
\* first ones, or adds the answer of a call that has found its session.
LEMMA ChannelMoves ==
    ASSUME TypeOK, [Next]_vars, NEW t \in Sessions, NEW i \in 1..Len(approvals'[t])
    PROVE  \/ \E j \in 1..Len(approvals[t]) : approvals'[t][i] = approvals[t][j]
           \/ \E c \in Callers :
                 /\ Send(c)
                 /\ rpc[c].session = t
                 /\ approvals'[t][i] = [op |-> rpc[c].op, by |-> c]
<1>1. approvals[t] \in Seq(Answers)
  BY DEF TypeOK
<1>2. CASE approvals'[t] = approvals[t]
  BY <1>2
<1>3. ASSUME NEW s \in Sessions, Receive(s), approvals'[t] # approvals[t]
      PROVE  \E j \in 1..Len(approvals[t]) : approvals'[t][i] = approvals[t][j]
  <2>1. approvals'[t] = Tail(approvals[t]) /\ approvals[t] # <<>>
    BY <1>3 DEF Receive, TypeOK
  <2>2. i + 1 \in 1..Len(approvals[t]) /\ approvals'[t][i] = approvals[t][i + 1]
    BY <1>1, <2>1, TailParts
  <2>3. QED
    BY <2>2
<1>4. ASSUME NEW c \in Callers, Send(c), approvals'[t] # approvals[t]
      PROVE  \/ \E j \in 1..Len(approvals[t]) : approvals'[t][i] = approvals[t][j]
             \/ rpc[c].session = t /\ approvals'[t][i] = [op |-> rpc[c].op, by |-> c]
  <2>. DEFINE answer == [op |-> rpc[c].op, by |-> c]
  <2>1. answer \in Answers
    BY <1>4 DEF Answers, Send, TypeOK
  <2>2. rpc[c].session = t /\ approvals'[t] = Append(approvals[t], answer)
    BY <1>4 DEF Send, TypeOK
  <2>. HIDE DEF answer
  <2>3. \/ i \in 1..Len(approvals[t]) /\ approvals'[t][i] = approvals[t][i]
        \/ approvals'[t][i] = answer
    BY <1>1, <2>1, <2>2, AppendParts
  <2>4. QED
    BY <2>2, <2>3 DEF answer
<1>5. QED
  BY <1>2, <1>3, <1>4
  DEF Next, Executing, Serving, Begin, Ask, CancelWait, Return, Deregister, Disconnect,
      Approve, RefuseAnswer, CallerGone, Resume, EndResume, vars

\* A call that is served moves, and says what it said; the others stay.
LEMMA ServedMoves ==
    ASSUME TypeOK, NEW c \in Callers, Serving(c)
    PROVE  /\ rpc[c].pc \in {"found", "resuming"}
           /\ rpc'[c].pc \in {"accepted", "refused", "gone", "resumed"}
           /\ rpc'[c].op = rpc[c].op /\ rpc'[c].session = rpc[c].session
           /\ rpc'[c].ask = rpc[c].ask
           /\ \A d \in Callers \ {c} : rpc'[d] = rpc[d]
<1>1. PICK l \in {"accepted", "refused", "gone", "resumed"} :
          rpc' = [rpc EXCEPT ![c] = [rpc[c] EXCEPT !.pc = l]]
  BY DEF Serving, Send, RefuseAnswer, CallerGone, EndResume
<1>2. rpc'[c] = [rpc[c] EXCEPT !.pc = l] /\ \A d \in Callers \ {c} : rpc'[d] = rpc[d]
  BY <1>1 DEF TypeOK
<1>3. rpc[c] \in Calls
  BY DEF TypeOK
<1>4. /\ rpc'[c].pc = l /\ rpc'[c].op = rpc[c].op /\ rpc'[c].session = rpc[c].session
      /\ rpc'[c].ask = rpc[c].ask
  BY <1>2, <1>3 DEF Calls
<1>5. rpc[c].pc \in {"found", "resuming"}
  BY DEF Serving, Send, RefuseAnswer, CallerGone, EndResume
<1>6. QED
  BY <1>2, <1>4, <1>5

\* A step leaves a call that has begun as it is, but for where it stands.
LEMMA CallKept ==
    ASSUME TypeOK, [Next]_vars, NEW d \in Callers, rpc[d].pc # "idle"
    PROVE  /\ rpc'[d].op = rpc[d].op /\ rpc'[d].session = rpc[d].session
           /\ rpc'[d].ask = rpc[d].ask
           /\ rpc[d].pc = "accepted" => rpc'[d].pc = "accepted"
           /\ rpc'[d].pc = "found" => rpc[d].pc = "found"
<1>1. CASE rpc' = rpc
  BY <1>1
<1>2. ASSUME NEW c \in Callers, NEW s \in Sessions,
             Resume(c, s) \/ \E o \in Ops : Approve(c, s, o)
      PROVE  d # c /\ rpc'[d] = rpc[d]
  BY <1>2 DEF Resume, Approve, TypeOK
<1>3. ASSUME NEW c \in Callers, Serving(c)
      PROVE  /\ rpc'[d].op = rpc[d].op /\ rpc'[d].session = rpc[d].session
             /\ rpc'[d].ask = rpc[d].ask
             /\ rpc[d].pc = "accepted" => rpc'[d].pc = "accepted"
             /\ rpc'[d].pc = "found" => rpc[d].pc = "found"
  BY <1>3, ServedMoves
<1>4. QED
  BY <1>1, <1>2, <1>3
  DEF Next, Executing, Begin, Ask, Receive, CancelWait, Return, Deregister, Disconnect, vars

\* What a channel holds is of the operation its caller asked for, at every step.
LEMMA CalledPreserved == IInv /\ ChannelIsCalled /\ [Next]_vars => ChannelIsCalled'
<1> SUFFICES ASSUME IInv, ChannelIsCalled, [Next]_vars,
                    NEW t \in Sessions, NEW i \in 1..Len(approvals'[t])
             PROVE  rpc'[approvals'[t][i].by].op = approvals'[t][i].op
  BY DEF ChannelIsCalled
<1> USE DEF IInv
<1>1. ASSUME NEW j \in 1..Len(approvals[t]), approvals'[t][i] = approvals[t][j]
      PROVE  rpc'[approvals'[t][i].by].op = approvals'[t][i].op
  <2>1. approvals[t][j].by \in Callers /\ rpc[approvals[t][j].by].pc = "accepted"
    BY ChannelFacts
  <2>2. rpc'[approvals[t][j].by].op = rpc[approvals[t][j].by].op
    BY <2>1, CallKept
  <2>3. QED
    BY <1>1, <2>2 DEF ChannelIsCalled
<1>2. ASSUME NEW c \in Callers, Send(c), approvals'[t][i] = [op |-> rpc[c].op, by |-> c]
      PROVE  rpc'[approvals'[t][i].by].op = approvals'[t][i].op
  BY <1>2, CallKept DEF Send
<1>3. QED
  BY <1>1, <1>2, ChannelMoves

\* A caller that is idle refers to no request, at every step.
LEMMA BlankPreserved == TypeOK /\ IdleIsBlank /\ [Next]_vars => IdleIsBlank'
<1> SUFFICES ASSUME TypeOK, IdleIsBlank, [Next]_vars, NEW d \in Callers, rpc'[d].pc = "idle"
             PROVE  rpc'[d].ask = 0
  BY DEF IdleIsBlank
<1>1. CASE rpc'[d] = rpc[d]
  BY <1>1 DEF IdleIsBlank
<1>2. ASSUME NEW c \in Callers, Serving(c) PROVE rpc'[d] = rpc[d]
  BY <1>2, ServedMoves
<1>3. ASSUME NEW c \in Callers, NEW s \in Sessions, Resume(c, s) PROVE rpc'[d] = rpc[d]
  <2>1. rpc'[c].pc # "idle" /\ \A e \in Callers \ {c} : rpc'[e] = rpc[e]
    BY <1>3 DEF Resume, TypeOK, Calls
  <2>2. QED
    BY <2>1
<1>4. ASSUME NEW c \in Callers, NEW s \in Sessions, NEW o \in Ops, Approve(c, s, o)
      PROVE  rpc'[d] = rpc[d]
  <2>1. rpc'[c].pc # "idle" /\ \A e \in Callers \ {c} : rpc'[e] = rpc[e]
    BY <1>4 DEF Approve, TypeOK
  <2>2. QED
    BY <2>1
<1>5. QED
  BY <1>1, <1>2, <1>3, <1>4
  DEF Next, Executing, Begin, Ask, Receive, CancelWait, Return, Deregister, Disconnect, vars

\* Whether the callers are careful does not change.
LEMMA CarefulStays == [Next]_vars => careful' = careful
BY DEF Next, Executing, Serving, Begin, Ask, Receive, CancelWait, Return, Deregister,
       Disconnect, Approve, Send, RefuseAnswer, CallerGone, Resume, EndResume, vars

\* Careful callers never answer one request twice, at every step.
LEMMA AnsweredPreserved ==
    TypeOK /\ IdleIsBlank /\ AnsweredOnce /\ [Next]_vars => AnsweredOnce'
<1> SUFFICES ASSUME TypeOK, IdleIsBlank, AnsweredOnce, [Next]_vars, careful',
                    NEW d \in Callers, NEW e \in Callers, d # e,
                    rpc'[d].session = rpc'[e].session, rpc'[d].ask = rpc'[e].ask
             PROVE  rpc'[d].ask = 0
  BY DEF AnsweredOnce
<1>1. careful
  BY CarefulStays
<1>2. ASSUME NEW c \in Callers, NEW s \in Sessions, NEW o \in Ops, Approve(c, s, o)
      PROVE  rpc'[d].ask = 0
  <2>1. /\ rpc'[c].session = s /\ rpc'[c].ask = asks[s]
        /\ \A x \in Callers \ {c} : rpc'[x] = rpc[x]
    BY <1>2 DEF Approve, TypeOK
  <2>2. \A x \in Callers : ~(rpc[x].session = s /\ rpc[x].ask = asks[s])
    BY <1>1, <1>2 DEF Approve, MayAnswer
  <2>3. d # c /\ e # c
    BY <2>1, <2>2
  <2>4. QED
    BY <1>1, <2>1, <2>3 DEF AnsweredOnce
<1>3. ASSUME NEW c \in Callers, NEW s \in Sessions, Resume(c, s) PROVE rpc'[d].ask = 0
  <2>1. rpc'[c].ask = 0 /\ \A x \in Callers \ {c} : rpc'[x] = rpc[x]
    BY <1>3 DEF Resume, TypeOK, Calls, IdleIsBlank
  <2>2. QED
    BY <1>1, <2>1 DEF AnsweredOnce
<1>4. CASE \A x \in Callers : rpc'[x].session = rpc[x].session /\ rpc'[x].ask = rpc[x].ask
  BY <1>1, <1>4 DEF AnsweredOnce
<1>5. ASSUME NEW c \in Callers, Serving(c)
      PROVE  \A x \in Callers : rpc'[x].session = rpc[x].session /\ rpc'[x].ask = rpc[x].ask
  BY <1>5, ServedMoves
<1>6. QED
  BY <1>2, <1>3, <1>4, <1>5
  DEF Next, Executing, Begin, Ask, Receive, CancelWait, Return, Deregister, Disconnect, vars

\* An answer is pending after a step if its call was just made, or it was
\* pending before and the call still says the same.
LEMMA PendingBefore ==
    ASSUME IInv, [Next]_vars, NEW t \in Sessions, NEW d \in Callers, Pending(d, t)'
    PROVE  \/ \E o \in Ops : Approve(d, t, o)
           \/ Pending(d, t) /\ rpc'[d].op = rpc[d].op /\ rpc'[d].ask = rpc[d].ask
<1> USE DEF IInv
<1>1. CASE rpc'[d].pc = "found"
  <2>1. CASE rpc[d].pc = "idle"
    <3>1. rpc'[d].session = t
      BY DEF Pending
    <3>2. rpc'[d] # rpc[d]
      BY <1>1, <2>1
    <3>3. ASSUME NEW c \in Callers, Serving(c) PROVE rpc'[d] = rpc[d]
      BY <2>1, <3>3 DEF Serving, Send, RefuseAnswer, CallerGone, EndResume, TypeOK
    <3>4. ASSUME NEW c \in Callers, NEW s \in Sessions, Resume(c, s) PROVE FALSE
      BY <1>1, <2>1, <3>4 DEF Resume, TypeOK, Calls
    <3>5. ASSUME NEW c \in Callers, NEW s \in Sessions, NEW o \in Ops, Approve(c, s, o)
          PROVE  c = d /\ s = t
      BY <3>1, <3>2, <3>5 DEF Approve, TypeOK
    <3>6. QED
      BY <3>2, <3>3, <3>4, <3>5
      DEF Next, Executing, Begin, Ask, Receive, CancelWait, Return, Deregister, Disconnect,
          vars
  <2>2. CASE rpc[d].pc # "idle"
    BY <1>1, <2>2, CallKept DEF Pending
  <2>3. QED
    BY <2>1, <2>2
<1>2. ASSUME NEW i \in 1..Len(approvals'[t]), approvals'[t][i].by = d
      PROVE  Pending(d, t) /\ rpc'[d].op = rpc[d].op /\ rpc'[d].ask = rpc[d].ask
  <2>1. ASSUME NEW j \in 1..Len(approvals[t]), approvals'[t][i] = approvals[t][j]
        PROVE  Pending(d, t) /\ rpc[d].pc = "accepted"
    <3>1. approvals[t][j].by = d
      BY <1>2, <2>1
    <3>2. QED
      BY <3>1, ChannelFacts DEF Pending
  <2>2. ASSUME NEW c \in Callers, Send(c), rpc[c].session = t,
               approvals'[t][i] = [op |-> rpc[c].op, by |-> c]
        PROVE  Pending(d, t) /\ rpc[d].pc = "found"
    BY <1>2, <2>2 DEF Send, Pending
  <2>3. QED
    BY <2>1, <2>2, ChannelMoves, CallKept
<1>3. QED
  BY <1>1, <1>2 DEF Pending

\* What a wait takes was pending: it is the answer to its open request, and no
\* other answer is pending then.
LEMMA TakenIsCurrent ==
    ASSUME CInv, careful, NEW s \in Sessions, Receive(s)
    PROVE  /\ Head(approvals[s]).op = asking[s]
           /\ \A d \in Callers : Pending(d, s) => d = Head(approvals[s]).by
<1> USE DEF CInv, IInv
<1>. DEFINE c == approvals[s][1].by
<1>1. phase[s] = "waiting" /\ 1 \in 1..Len(approvals[s]) /\ Head(approvals[s]) = approvals[s][1]
  <2>1. approvals[s] \in Seq(Answers) /\ approvals[s] # <<>> /\ phase[s] = "waiting"
    BY DEF Receive, TypeOK
  <2>2. QED
    BY <2>1, TailParts
<1>2. c \in Callers /\ rpc[c].session = s
  BY <1>1, ChannelFacts
<1>3. rpc[c].op = approvals[s][1].op
  BY <1>1 DEF ChannelIsCalled
<1>4. Pending(c, s)
  BY <1>1, <1>2 DEF Pending
<1>. HIDE DEF c
<1>5. \A d \in Callers : Pending(d, s) => rpc[d].ask = asks[s] /\ rpc[d].op = asking[s]
  BY <1>1 DEF PendingIsCurrent, Current
<1>6. asks[s] # 0
  BY <1>1 DEF OneAnswerPerRequest, TypeOK
<1>7. ASSUME NEW d \in Callers, Pending(d, s) PROVE d = c
  <2>1. rpc[d].session = s /\ rpc[d].ask = asks[s] /\ rpc[c].ask = asks[s]
    BY <1>2, <1>4, <1>5, <1>7 DEF Pending
  <2>2. QED
    BY <1>2, <1>6, <2>1 DEF AnsweredOnce
<1>8. QED
  BY <1>1, <1>2, <1>3, <1>4, <1>5, <1>7 DEF c

\* What careful callers have under way is about the current request, at every step.
LEMMA PendingPreserved == CInv /\ [Next]_vars => PendingIsCurrent'
<1> SUFFICES ASSUME CInv, [Next]_vars, careful',
                    NEW t \in Sessions, NEW d \in Callers, Pending(d, t)'
             PROVE  Current(d, t)'
  BY DEF PendingIsCurrent
<1> USE DEF CInv, IInv
<1>1. careful
  BY CarefulStays
<1>2. ASSUME NEW o \in Ops, Approve(d, t, o) PROVE Current(d, t)'
  BY <1>1, <1>2 DEF Approve, MayAnswer, Current, TypeOK, Calls
<1>3. ASSUME Pending(d, t), rpc'[d].op = rpc[d].op, rpc'[d].ask = rpc[d].ask
      PROVE  Current(d, t)'
  <2>1. Current(d, t)
    BY <1>1, <1>3 DEF PendingIsCurrent
  <2>2. CASE UNCHANGED <<phase, asks, asking>>
    BY <1>3, <2>1, <2>2 DEF Current
  <2>3. ASSUME NEW s \in Sessions, Begin(s) \/ \E o \in Ops : Ask(s, o)
        PROVE  Current(d, t)'
    BY <1>3, <2>1, <2>3 DEF Begin, Ask, Current, TypeOK
  <2>4. ASSUME NEW s \in Sessions, CancelWait(s) \/ Return(s) \/ Deregister(s)
        PROVE  Current(d, t)'
    BY <1>3, <2>1, <2>4 DEF CancelWait, Return, Deregister, Current, TypeOK
  <2>5. ASSUME NEW s \in Sessions, Receive(s) PROVE Current(d, t)'
    <3>1. CASE s # t
      BY <1>3, <2>1, <2>5, <3>1 DEF Receive, Current, TypeOK
    <3>2. CASE s = t
      <4>1. approvals[t] \in Seq(Answers) /\ approvals[t] # <<>>
        BY <2>5, <3>2 DEF Receive, TypeOK
      <4>2. d = approvals[t][1].by /\ 1 \in 1..Len(approvals[t])
        BY <1>1, <1>3, <2>5, <3>2, <4>1, TakenIsCurrent, TailParts
      <4>3. rpc'[d].pc = "accepted"
        BY <2>5, <4>2, ChannelFacts DEF Receive
      <4>4. approvals'[t] = Tail(approvals[t])
        BY <2>5, <3>2 DEF Receive, TypeOK
      <4>5. PICK i \in 1..Len(approvals'[t]) : approvals'[t][i].by = d
        BY <4>3 DEF Pending
      <4>6. i + 1 \in 1..Len(approvals[t]) /\ approvals[t][i + 1].by = d
        BY <4>1, <4>4, <4>5, TailParts
      <4>7. i + 1 = 1
        BY <4>2, <4>6, ChannelFacts
      <4>8. i # 0 /\ i \in Nat
        <5>1. Len(approvals'[t]) \in Nat
          BY <4>1, <4>4
        <5>2. QED
          BY <5>1
      <4>9. QED
        BY <4>7, <4>8
    <3>3. QED
      BY <3>1, <3>2
  <2>6. QED
    BY <2>2, <2>3, <2>4, <2>5
    DEF Next, Executing, Serving, Disconnect, Approve, Send, RefuseAnswer, CallerGone,
        Resume, EndResume, vars
<1>4. QED
  BY <1>2, <1>3, PendingBefore

\* The initial states satisfy the stronger invariant.
LEMMA InitCInv == Init => CInv
<1> SUFFICES ASSUME Init PROVE CInv
  OBVIOUS
<1>1. \A s \in Sessions : 1..Len(approvals[s]) = {}
  <2>1. Len(<<>>) = 0 /\ 1..0 = {}
    OBVIOUS
  <2>2. QED
    BY <2>1 DEF Init
<1>2. ChannelIsCalled
  BY <1>1 DEF ChannelIsCalled
<1>3. \A c \in Callers : rpc[c].pc = "idle" /\ rpc[c].ask = 0
  BY DEF Init, NoCall
<1>4. IdleIsBlank /\ AnsweredOnce /\ PendingIsCurrent
  BY <1>1, <1>3 DEF IdleIsBlank, AnsweredOnce, PendingIsCurrent, Pending
<1>5. QED
  BY <1>2, <1>4, InitIInv DEF CInv

\* For every channel capacity: when clients answer each request they see and
\* only once, a wait never takes the answer to another question.
THEOREM AnswersMatch == Spec => AnswerMatchesQuestion
<1>1. CInv /\ [Next]_vars => CInv'
  BY TypePreserved, RegisteredPreserved, AnswersPreserved, OneAnswerPreserved,
     CalledPreserved, BlankPreserved, AnsweredPreserved, PendingPreserved DEF CInv, IInv
<1>2. ASSUME CInv, [Next]_vars, careful, NEW s \in Sessions, Len(taken'[s]) > Len(taken[s])
      PROVE  taken'[s][Len(taken'[s])].op = asking[s]
  <2>1. taken' # taken
    <3>1. Len(taken[s]) \in Nat
      BY <1>2 DEF CInv, IInv, TypeOK
    <3>2. QED
      BY <1>2, <3>1
  <2>2. PICK r \in Sessions : Receive(r)
    BY <1>2, <2>1
    DEF Next, Executing, Serving, Begin, Ask, CancelWait, Return, Deregister, Disconnect,
        Approve, Send, RefuseAnswer, CallerGone, Resume, EndResume, vars
  <2>3. r = s /\ taken'[s] = Append(taken[s], Head(approvals[s])) /\ approvals[s] # <<>>
    <3>1. Len(taken[s]) \in Nat
      BY <1>2 DEF CInv, IInv, TypeOK
    <3>2. QED
      BY <1>2, <2>2, <3>1 DEF Receive, CInv, IInv, TypeOK
  <2>4. taken'[s][Len(taken'[s])] = Head(approvals[s])
    BY <1>2, <2>3, TakeHead DEF CInv, IInv
  <2>5. QED
    BY <1>2, <2>2, <2>3, <2>4, TakenIsCurrent
<1>3. CInv /\ [Next]_vars =>
          [\A s \in Sessions : careful /\ Len(taken'[s]) > Len(taken[s]) =>
               taken'[s][Len(taken'[s])].op = asking[s]]_vars
  BY <1>2
<1>4. QED
  BY <1>1, <1>3, InitCInv, PTL DEF Spec, AnswerMatchesQuestion

=============================================================================
