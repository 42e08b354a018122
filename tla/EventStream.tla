------------------------------ MODULE EventStream ------------------------------
(***************************************************************************)
(* What the consumer of a sandbox execution may rely on (the comment of    *)
(* Runtime.Execute in internal/sandbox/runtime.go, and the way             *)
(* internal/cli/cmd/exec.go reads the events): an announcement comes       *)
(* before the start, output and warnings between the start and the review, *)
(* the changes once and only when all is written, and last one exit or one *)
(* fatal error.  A consumer that has left is not called again.             *)
(***************************************************************************)
EXTENDS Naturals, Sequences, SequencesExt

CONSTANTS Streams,   \* the output streams
          MaxChunk   \* bound: chunks of one stream

VARIABLES seen,   \* the events the consumer was given, oldest first
          left    \* the consumer has ended its loop

vars == <<seen, left>>

Plain == [kind : {"status", "started", "warning", "lost",
                   "changes", "completed", "fatal"}]
Output == [kind : {"output"}, stream : Streams, n : 1..MaxChunk]
Event == Plain \cup Output

Saw(k) == \E i \in DOMAIN seen : seen[i].kind = k

\* The chunks of a stream that arrived.
Arrived(s) == {n \in 1..MaxChunk : Contains(seen, [kind |-> "output", stream |-> s, n |-> n])}

Over == Saw("completed") \/ Saw("fatal")

Running == Saw("started") /\ ~Saw("changes")

\* The events that may come next.
Fits(e) ==
    /\ ~left /\ ~Over
    /\ \/ e.kind \in {"status", "started"} /\ ~Saw("started")
       \/ e.kind = "fatal"
       \/ e.kind \in {"warning", "lost", "changes"} /\ Running
       \/ e.kind = "output" /\ Running /\ Arrived(e.stream) = 1..(e.n - 1)
       \/ e.kind = "completed" /\ Saw("started")

Init == seen = <<>> /\ left = FALSE

Give(e) ==
    /\ Fits(e)
    /\ seen' = Append(seen, e)
    /\ left' \in BOOLEAN

Next == \E e \in Event : Give(e)

Spec == Init /\ [][Next]_vars
=============================================================================
