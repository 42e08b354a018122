---------------------------- MODULE SerialEdits ----------------------------
(***************************************************************************)
(* What ApplyDeputyCommand (internal/remediation/apply.go) promises its    *)
(* callers: the edits of one process behave as if each ran alone.          *)
(*                                                                         *)
(* A call is one invocation of ApplyDeputyCommand.  A file is abstracted   *)
(* to the set of calls whose edit its bytes contain, which is what tells a *)
(* lost update from a kept one.  Whatever the interleaving, a call takes   *)
(* effect in one step: it adds its edit to a prefix of the files it        *)
(* targets (a mise fix edits the config and then its lockfile) and         *)
(* reports its outcome.  A call that writes in place may also break the    *)
(* file it failed at, and then reports the failure.                        *)
(***************************************************************************)
EXTENDS Naturals, Sequences

CONSTANTS
    Calls,      \* the invocations of ApplyDeputyCommand
    Files,      \* the files of every working tree
    Targets,    \* Targets[c]: the files call c edits, in the order it does
    InPlace     \* calls that write with os.WriteFile

VARIABLES
    content,    \* content[f]: the calls whose edit f contains
    outcome     \* outcome[c]: what the caller has been told

absVars == <<content, outcome>>

Init ==
    /\ content = [f \in Files |-> {}]
    /\ outcome = [c \in Calls |-> "pending"]

\* Call c edits its first n files and reports r.  A success has edited at
\* least the file the command names; a failure may have edited any prefix.
Finish(c, n, r) ==
    /\ outcome[c] = "pending"
    /\ r = "ok" => n > 0
    /\ content' = [f \in Files |->
                      IF \E i \in 1..n : Targets[c][i] = f
                      THEN content[f] \cup {c} ELSE content[f]]
    /\ outcome' = [outcome EXCEPT ![c] = r]

\* Call c edits its first n files, fails at the next one, and leaves any part of
\* the edits that file held.
Break(c, n) ==
    /\ outcome[c] = "pending"
    /\ \E rest \in SUBSET (content[Targets[c][n + 1]] \cup {c}) :
          content' = [f \in Files |->
                         IF f = Targets[c][n + 1] THEN rest
                         ELSE IF \E i \in 1..n : Targets[c][i] = f
                         THEN content[f] \cup {c} ELSE content[f]]
    /\ outcome' = [outcome EXCEPT ![c] = "failed"]

Next ==
    \/ \E c \in Calls, r \in {"ok", "failed"} :
          \E n \in 0..Len(Targets[c]) : Finish(c, n, r)
    \/ \E c \in InPlace : \E n \in 0..(Len(Targets[c]) - 1) : Break(c, n)

Spec == Init /\ [][Next]_absVars

=============================================================================
