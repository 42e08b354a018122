------------------------- MODULE RuntimeStream_proofs -------------------------
(***************************************************************************)
(* Proofs about RuntimeStream, for any runtimes, consumers, streams,       *)
(* chunks and capacities.                                                  *)
(***************************************************************************)
EXTENDS RuntimeStream, SequenceTheorems, TLAPS

\* The kinds of the events the consumer was given, and of those in the channel.
SeenKinds == {seen[i].kind : i \in DOMAIN seen}
ChanKinds == {chan[i].kind : i \in DOMAIN chan}

\* The chunks of each stream that arrived, that are in the channel, and both.
Got == [s \in Streams |-> Stream!Arrived(s)]
InChan == [s \in Streams |-> {n \in 1..MaxChunk : \E i \in DOMAIN chan : chan[i] = Chunk(s, n)}]
Passed(s) == Got[s] \cup InChan[s]

\* Where the three layers stand relative to each other.
LayersAgree ==
    /\ mgr = "select" => wr = "off" /\ rt = "off"
    /\ mgr = "run" => wr # "off" \/ (rt # "off" /\ ~Wrapped)
    /\ mgr = "done" => wr \in {"off", "done"} /\ rt \in {"off", "ended"}
    /\ wr # "off" => Wrapped
    /\ wr = "setup" => rt = "off"
    /\ wr = "on" => rt # "off"
    /\ wr \in {"show", "asks", "exit", "down"} => rt = "ended"
    /\ wr = "done" => rt \in {"off", "ended"}
    /\ wr = "off" /\ Wrapped => rt = "off"
    /\ wr \in {"show", "asks", "exit"} => held

\* Which runtime gets where.
RuntimesDiffer ==
    /\ rt \in {"image", "create", "attach", "show", "asks"} => cfg.kind = "docker"
    /\ rt = "image" => Isolated
    /\ rt = "warn" => cfg.kind = "sandboxexec"
    /\ rt = "launch" => cfg.kind \in {"gvisor", "none"}
    /\ rt = "stream" => cfg.kind # "none"

\* Which layer has a copy, and when.
CopyIsOwned ==
    /\ iso # "none" => Isolated /\ cfg.kind # "gvisor"
    /\ iso \in {"kept", "upper"} => Keeps
    /\ cfg.kind = "docker" =>
        /\ rt \in {"off", "begin"} => iso = "none"
        /\ rt \notin {"off", "begin", "unwind", "ended"} => iso \in {"none", "up"}
        /\ rt = "unwind" => iso \in {"none", "up", "stuck"}
        /\ rt \in {"show", "asks"} => cfg.review /\ iso = "up"
        /\ rt = "ended" => iso # "up"
    /\ Wrapped =>
        /\ wr \in {"off", "setup"} => iso = "none"
        /\ wr \in {"on", "show", "asks", "exit", "down"} => iso = "up"
        /\ wr = "done" => iso # "up"

\* The process and the container.
ProcessIsOwned ==
    /\ rt \in {"off", "begin", "image", "create", "attach", "launch"} => child = "none"
    /\ rt \in {"warn", "stream", "wait", "show", "asks", "exit"} => child # "none"
    /\ rt \in {"show", "asks", "exit"} => child # "running"
    /\ rt = "ended" /\ child = "running" => cfg.kind = "docker" /\ box = "adrift"
    /\ rt = "unwind" /\ cfg.kind # "docker" => child # "running"
    /\ child = "running" => open
    /\ child = "none" => ~open /\ \A s \in Streams : written[s] = 0 /\ reader[s] = "off"
    /\ cfg.kind = "docker" =>
        /\ rt \in {"off", "begin", "image", "create"} => box = "none"
        /\ child # "none" => box # "none"
        /\ child = "running" => box \in {"running", "adrift"}
        /\ box \in {"removed", "adrift"} => rt \in {"unwind", "ended"}
        /\ rt = "unwind" /\ box \in {"removed", "adrift"} => child = "none"
        /\ rt = "ended" => box \in {"none", "removed", "adrift"}

\* The readers and the channel.
ReadersAreOwned ==
    /\ rt = "warn" \/ cfg.kind = "none" => \A s \in Streams : reader[s] = "off"
    /\ rt = "stream" => \A s \in Streams : reader[s] # "off"
    /\ rt \in {"wait", "show", "asks", "exit"} /\ cfg.kind # "none" => \A s \in Streams : reader[s] = "done"
    /\ rt \in {"unwind", "ended"} => \A s \in Streams : reader[s] \in {"off", "done"}
    /\ rt # "stream" => chan = <<>>
    /\ \A i \in DOMAIN chan : chan[i].kind \in {"output", "lost"}
    /\ waited => /\ cfg.kind = "sandboxexec" /\ child = "exited" /\ rt # "warn"
                 /\ \A s \in Streams : pipe[s] = <<>>
    /\ cut => cfg.kind = "docker" /\ child # "none" /\ \A s \in Streams : pipe[s] = <<>>

\* What the consumer has been told so far.
ToldSoFar ==
    /\ mgr = "select" => SeenKinds = {}
    /\ rt \in {"off", "begin", "image", "create"} => "started" \notin SeenKinds
    /\ rt \in {"attach", "launch", "warn", "stream", "wait", "show", "asks", "exit"} => "started" \in SeenKinds
    /\ rt \in {"unwind", "ended"} => held \/ "fatal" \in SeenKinds \/ "completed" \in SeenKinds
    /\ wr \in {"down", "done"} => "fatal" \in SeenKinds \/ "completed" \in SeenKinds
    /\ held => /\ Wrapped /\ cfg.review /\ rt \in {"unwind", "ended"}
               /\ "started" \in SeenKinds /\ "fatal" \notin SeenKinds
    /\ left => "fatal" \in SeenKinds
    /\ "fatal" \in SeenKinds => /\ mgr = "done" \/ wr = "done" \/ rt \in {"unwind", "ended"}
                                /\ "completed" \notin SeenKinds
    /\ "completed" \in SeenKinds => /\ rt \in {"unwind", "ended"}
                                    /\ Wrapped /\ cfg.review => wr \in {"down", "done"}
    /\ "changes" \in SeenKinds =>
          /\ cfg.review
          /\ "completed" \in SeenKinds \/ "fatal" \in SeenKinds \/ iso = "up"
          /\ cfg.kind = "docker" \/ cfg.mode = "snapshot" => iso \in {"up", "kept"}
          /\ \/ cfg.kind = "docker" /\ rt \in {"asks", "exit", "unwind", "ended"}
             \/ Wrapped /\ wr \in {"asks", "exit", "down", "done"}

\* The audit record follows the manager.
AuditFollows ==
    /\ mgr = "select" => audit = <<>>
    /\ mgr = "run" => audit = <<"requested", "started">>
    /\ mgr = "done" =>
        \/ audit \in {<<"failed">>, <<"requested", "denied">>}
        \/ audit = <<"requested", "started">> /\ left
        \/ audit = <<"requested", "started", "failed">> /\ "fatal" \in SeenKinds
        \/ audit = <<"requested", "started", "completed">>
              /\ "completed" \in SeenKinds /\ "fatal" \notin SeenKinds

\* Chunks are read, sent and received in the order in which they were written,
\* and none is missing unless that was said.
PumpInOrder ==
    \A s \in Streams :
        /\ Passed(s) \subseteq 1..written[s]
        /\ reader[s] = "sending" => holds[s] \in 1..written[s] /\ Passed(s) = 1..(holds[s] - 1)
        /\ ~waited /\ ~cut /\ reader[s] # "done" =>
              /\ Len(pipe[s]) <= written[s]
              /\ \A i \in DOMAIN pipe[s] : pipe[s][i] = written[s] - Len(pipe[s]) + i
              /\ reader[s] = "sending" => holds[s] = written[s] - Len(pipe[s])
              /\ reader[s] # "sending" => Passed(s) = 1..(written[s] - Len(pipe[s]))
        /\ reader[s] = "done" =>
              /\ pipe[s] = <<>>
              /\ \/ cut \/ "lost" \in SeenKinds \cup ChanKinds
                 \/ ~open /\ Passed(s) = 1..written[s]

\* What arrived has no gap, and the channel goes on where it ends.
ChannelInOrder ==
    /\ \A s \in Streams : \A n \in Got[s] : 1..n \subseteq Got[s]
    /\ \A i \in DOMAIN chan : chan[i].kind = "output" =>
          /\ chan[i].n \notin Got[chan[i].stream]
          /\ \A m \in 1..(chan[i].n - 1) :
                m \in Got[chan[i].stream] \/ \E j \in 1..(i - 1) : chan[j] = Chunk(chan[i].stream, m)
          /\ \A j \in DOMAIN chan : chan[j] = chan[i] => j = i

\* From the end of the process's output on, nothing is missing that was not said.
AllIsTold ==
    rt \in {"show", "asks", "exit"} \/ held \/ "completed" \in SeenKinds \/ "changes" \in SeenKinds =>
        "lost" \in SeenKinds \/ cut \/ (~open /\ \A s \in Streams : Got[s] = 1..written[s])

IInv ==
    /\ TypeOK
    /\ LayersAgree /\ RuntimesDiffer /\ CopyIsOwned /\ ProcessIsOwned /\ ReadersAreOwned
    /\ ToldSoFar /\ AuditFollows
    /\ PumpInOrder /\ ChannelInOrder /\ AllIsTold

-----------------------------------------------------------------------------
\* The events the layers make are events of the stream.
LEMMA EventTypes ==
    /\ \A k \in {"status", "started", "warning", "lost", "changes", "completed", "fatal"} :
          Ev(k) \in Stream!Event /\ Ev(k).kind = k
    /\ \A s \in Streams, n \in 1..MaxChunk :
          /\ Chunk(s, n) \in Stream!Event
          /\ Chunk(s, n).kind = "output" /\ Chunk(s, n).stream = s /\ Chunk(s, n).n = n
    /\ \A e \in Stream!Event : e.kind = "output" =>
          e.stream \in Streams /\ e.n \in 1..MaxChunk /\ e = Chunk(e.stream, e.n)
    /\ \A e \in Stream!Event : e.kind = "lost" => e = Ev("lost")
  BY DEF Ev, Chunk, Stream!Event, Stream!Plain, Stream!Output

\* What the abstract stream says of the events is what the sets here say.
LEMMA SawIsSeen == \A k : Stream!Saw(k) <=> k \in SeenKinds
  BY DEF Stream!Saw, SeenKinds

\* A sequence with one more element.
LEMMA OneMore ==
    ASSUME NEW T, NEW q \in Seq(T), NEW e \in T
    PROVE  LET r == Append(q, e)
           IN  /\ r \in Seq(T)
               /\ DOMAIN q = 1..Len(q) /\ DOMAIN r = 1..Len(r)
               /\ {r[i].kind : i \in DOMAIN r} = {q[i].kind : i \in DOMAIN q} \cup {e.kind}
               /\ \A x : (\E i \in DOMAIN r : r[i] = x) <=> (\E i \in DOMAIN q : q[i] = x) \/ e = x
<1> DEFINE r == Append(q, e)
<1>1. r \in Seq(T) /\ Len(q) \in Nat /\ DOMAIN q = 1..Len(q) /\ DOMAIN r = 1..Len(r) /\ Len(r) = Len(q) + 1
  OBVIOUS
<1>2. r[Len(q) + 1] = e /\ \A i \in 1..Len(q) : r[i] = q[i]
  OBVIOUS
<1>3. DOMAIN r = DOMAIN q \cup {Len(q) + 1}
  BY <1>1
<1> HIDE DEF r
<1>4. {r[i].kind : i \in DOMAIN r} = {q[i].kind : i \in DOMAIN q} \cup {e.kind}
  BY <1>1, <1>2, <1>3
<1>5. ASSUME NEW x
      PROVE  (\E i \in DOMAIN r : r[i] = x) <=> (\E i \in DOMAIN q : q[i] = x) \/ e = x
  BY <1>1, <1>2, <1>3
<1>6. QED
  BY <1>1, <1>4, <1>5 DEF r

\* A sequence without its head.
LEMMA OneLess ==
    ASSUME NEW T, NEW q \in Seq(T), q # <<>>
    PROVE  /\ Head(q) = q[1] /\ Head(q) \in T /\ Tail(q) \in Seq(T)
           /\ Len(q) \in Nat /\ Len(q) >= 1 /\ Len(Tail(q)) = Len(q) - 1
           /\ DOMAIN q = 1..Len(q) /\ DOMAIN Tail(q) = 1..Len(Tail(q))
           /\ \A i \in 1..Len(Tail(q)) : Tail(q)[i] = q[i + 1]
           /\ \A i \in 2..Len(q) : i - 1 \in 1..Len(Tail(q)) /\ Tail(q)[i - 1] = q[i]
  OBVIOUS

\* One more event is one more kind and, if it is output, one more chunk.
LEMMA SeenGrows ==
    ASSUME TypeOK, NEW e \in Stream!Event, seen' = Append(seen, e)
    PROVE  /\ seen' \in Seq(Stream!Event)
           /\ SeenKinds' = SeenKinds \cup {e.kind}
           /\ Got' = [s \in Streams |-> IF e.kind = "output" /\ e.stream = s
                                        THEN Got[s] \cup {e.n} ELSE Got[s]]
<1>1. seen \in Seq(Stream!Event)
  BY DEF TypeOK
<1>2. /\ seen' \in Seq(Stream!Event)
      /\ DOMAIN seen = 1..Len(seen) /\ DOMAIN seen' = 1..Len(seen')
      /\ {seen'[i].kind : i \in DOMAIN seen'} = {seen[i].kind : i \in DOMAIN seen} \cup {e.kind}
      /\ \A x : (\E i \in DOMAIN seen' : seen'[i] = x) <=> (\E i \in DOMAIN seen : seen[i] = x) \/ e = x
  BY <1>1, OneMore
<1>3. ASSUME NEW s \in Streams
      PROVE  Stream!Arrived(s)' = IF e.kind = "output" /\ e.stream = s
                                  THEN Stream!Arrived(s) \cup {e.n} ELSE Stream!Arrived(s)
  BY <1>2, EventTypes DEF Stream!Arrived, Stream!Contains, Chunk
<1>4. QED
  BY <1>2, <1>3 DEF SeenKinds, Got

\* Nothing told, nothing changed.
LEMMA SeenStays == UNCHANGED seen => SeenKinds' = SeenKinds /\ Got' = Got
  BY DEF SeenKinds, Got, Stream!Arrived, Stream!Contains

\* Nothing sent, nothing changed.
LEMMA ChannelStays == UNCHANGED chan => ChanKinds' = ChanKinds /\ InChan' = InChan
  BY DEF ChanKinds, InChan, Chunk

\* Something is sent.
LEMMA ChannelGrows ==
    ASSUME TypeOK, NEW e \in Stream!Event, chan' = Append(chan, e)
    PROVE  /\ chan' \in Seq(Stream!Event)
           /\ ChanKinds' = ChanKinds \cup {e.kind}
           /\ InChan' = [s \in Streams |-> IF e.kind = "output" /\ e.stream = s
                                           THEN InChan[s] \cup {e.n} ELSE InChan[s]]
<1>1. chan \in Seq(Stream!Event)
  BY DEF TypeOK
<1>2. /\ chan' \in Seq(Stream!Event)
      /\ {chan'[i].kind : i \in DOMAIN chan'} = {chan[i].kind : i \in DOMAIN chan} \cup {e.kind}
      /\ \A x : (\E i \in DOMAIN chan' : chan'[i] = x) <=> (\E i \in DOMAIN chan : chan[i] = x) \/ e = x
  BY <1>1, OneMore
<1>3. ASSUME NEW s \in Streams
      PROVE  {n \in 1..MaxChunk : \E i \in DOMAIN chan' : chan'[i] = Chunk(s, n)}
                = IF e.kind = "output" /\ e.stream = s THEN InChan[s] \cup {e.n} ELSE InChan[s]
  BY <1>2, EventTypes DEF InChan, Chunk
<1>4. QED
  BY <1>2, <1>3 DEF ChanKinds, InChan, Chunk

\* Something is received.
LEMMA ChannelShrinks ==
    ASSUME TypeOK, chan # <<>>, chan' = Tail(chan)
    PROVE  /\ Head(chan) = chan[1] /\ Head(chan) \in Stream!Event
           /\ chan' \in Seq(Stream!Event)
           /\ Len(chan) \in Nat /\ Len(chan) >= 1 /\ Len(chan') = Len(chan) - 1
           /\ DOMAIN chan = 1..Len(chan) /\ DOMAIN chan' = 1..Len(chan')
           /\ \A i \in 1..Len(chan') : chan'[i] = chan[i + 1]
           /\ ChanKinds = ChanKinds' \cup {Head(chan).kind}
           /\ \A s \in Streams : InChan[s] =
                 InChan'[s] \cup {n \in 1..MaxChunk : Head(chan) = Chunk(s, n)}
<1>1. /\ Head(chan) = chan[1] /\ Head(chan) \in Stream!Event /\ chan' \in Seq(Stream!Event)
      /\ Len(chan) \in Nat /\ Len(chan) >= 1 /\ Len(chan') = Len(chan) - 1
      /\ DOMAIN chan = 1..Len(chan) /\ DOMAIN chan' = 1..Len(chan')
      /\ \A i \in 1..Len(chan') : chan'[i] = chan[i + 1]
      /\ \A i \in 2..Len(chan) : i - 1 \in 1..Len(chan') /\ chan'[i - 1] = chan[i]
  BY OneLess DEF TypeOK
<1>2. /\ \A i \in DOMAIN chan : chan[i] = Head(chan) \/ \E j \in DOMAIN chan' : chan'[j] = chan[i]
      /\ \A j \in DOMAIN chan' : \E i \in DOMAIN chan : chan'[j] = chan[i]
      /\ \E i \in DOMAIN chan : chan[i] = Head(chan)
  <2>1. ASSUME NEW i \in DOMAIN chan PROVE chan[i] = Head(chan) \/ \E j \in DOMAIN chan' : chan'[j] = chan[i]
    <3>1. i = 1 \/ i \in 2..Len(chan)
      BY <1>1
    <3>2. CASE i \in 2..Len(chan)
      <4>1. i - 1 \in DOMAIN chan' /\ chan'[i - 1] = chan[i]
        BY <1>1, <3>2
      <4>2. QED
        BY <4>1
    <3>3. QED
      BY <1>1, <3>1, <3>2
  <2>2. ASSUME NEW j \in DOMAIN chan' PROVE \E i \in DOMAIN chan : chan'[j] = chan[i]
    <3>1. j + 1 \in DOMAIN chan /\ chan'[j] = chan[j + 1]
      BY <1>1
    <3>2. QED
      BY <3>1
  <2>3. 1 \in DOMAIN chan
    BY <1>1
  <2>4. QED
    BY <1>1, <2>1, <2>2, <2>3
<1>3. ChanKinds = ChanKinds' \cup {Head(chan).kind}
  BY <1>2 DEF ChanKinds
<1>4. ASSUME NEW s \in Streams
      PROVE  InChan[s] = InChan'[s] \cup {n \in 1..MaxChunk : Head(chan) = Chunk(s, n)}
  BY <1>2 DEF InChan, Chunk
<1>5. QED
  BY <1>1, <1>3, <1>4

\* The record of a started execution, closed.
LEMMA ThirdRecord ==
    ASSUME NEW o \in {"failed", "completed"}
    PROVE  Append(<<"requested", "started">>, o) = <<"requested", "started", o>>
<1> DEFINE q == Append(<<"requested", "started">>, o)
           r == <<"requested", "started", o>>
           Records == {"requested", "started", "failed", "completed"}
<1>1. q \in Seq(Records) /\ r \in Seq(Records) /\ Len(q) = 3 /\ Len(r) = 3
  OBVIOUS
<1>2. q[1] = r[1] /\ q[2] = r[2] /\ q[3] = r[3]
  OBVIOUS
<1>3. \A i \in 1..Len(q) : q[i] = r[i]
  BY <1>1, <1>2
<1> HIDE DEF q, r
<1>4. q = r
  BY <1>1, <1>3, SeqEqual
<1>5. QED
  BY <1>4 DEF q, r

\* What is left of a copy that is torn down.
LEMMA CopyRemains ==
    /\ \A x \in Remains : x \in {"kept", "upper", "gone", "stuck"} /\ (x \in {"kept", "upper"} => Keeps)
    /\ Keeps /\ (cfg.kind = "docker" \/ cfg.mode = "snapshot") => \A x \in Remains : x = "kept"
  BY DEF Remains, Wrapped

\* An event other than output is told: by a yield, or by a layer above it.
LEMMA Told ==
    ASSUME TypeOK,
           NEW k \in {"status", "started", "warning", "lost", "changes", "completed", "fatal"},
           Give(Ev(k)) \/ (Yield(Ev(k)) /\ k # "completed")
    PROVE  /\ seen' \in Seq(Stream!Event) /\ SeenKinds' = SeenKinds \cup {k} /\ Got' = Got
           /\ left' \in BOOLEAN /\ (k # "fatal" => ~left') /\ held' = held
<1>1. Give(Ev(k))
  BY EventTypes DEF Yield
<1>2. seen' = Append(seen, Ev(k)) /\ left' \in BOOLEAN /\ held' = held
  BY <1>1 DEF Give, Leaves
<1>3. k # "fatal" => ~left'
  BY <1>1, EventTypes DEF Give, Leaves
<1>4. QED
  BY <1>2, <1>3, SeenGrows, EventTypes DEF Got, TypeOK

\* A chunk is told.
LEMMA ChunkTold ==
    ASSUME TypeOK, NEW s \in Streams, NEW n \in 1..MaxChunk, Yield(Chunk(s, n))
    PROVE  /\ seen' \in Seq(Stream!Event) /\ SeenKinds' = SeenKinds \cup {"output"}
           /\ Got' = [Got EXCEPT ![s] = @ \cup {n}]
           /\ ~left' /\ held' = held
<1>1. seen' = Append(seen, Chunk(s, n)) /\ ~left' /\ held' = held
  BY EventTypes DEF Yield, Give, Leaves
<1>2. Chunk(s, n) \in Stream!Event /\ Chunk(s, n).kind = "output" /\ Chunk(s, n).stream = s /\ Chunk(s, n).n = n
  BY EventTypes
<1>3. /\ seen' \in Seq(Stream!Event)
      /\ SeenKinds' = SeenKinds \cup {"output"}
      /\ Got' = [r \in Streams |-> IF s = r THEN Got[r] \cup {n} ELSE Got[r]]
  BY <1>1, <1>2, SeenGrows
<1>4. QED
  BY <1>1, <1>3 DEF Got

\* The yield of an exit: the wrapper may keep it back.
LEMMA ExitTold ==
    ASSUME TypeOK, Yield(Ev("completed"))
    PROVE  /\ held' \in BOOLEAN /\ left' \in BOOLEAN /\ seen' \in Seq(Stream!Event) /\ Got' = Got
           /\ \/ Wrapped /\ cfg.review /\ held' /\ UNCHANGED <<seen, left>> /\ SeenKinds' = SeenKinds
              \/ /\ ~(Wrapped /\ cfg.review) /\ held' = held /\ ~left'
                 /\ SeenKinds' = SeenKinds \cup {"completed"}
<1>1. CASE Wrapped /\ cfg.review
  <2>1. held' /\ held' \in BOOLEAN /\ UNCHANGED <<seen, left>>
    BY <1>1, EventTypes DEF Yield
  <2>2. QED
    BY <1>1, <2>1, SeenStays DEF TypeOK
<1>2. CASE ~(Wrapped /\ cfg.review)
  <2>1. Give(Ev("completed"))
    BY <1>2, EventTypes DEF Yield
  <2>2. QED
    BY <1>2, <2>1, Told DEF TypeOK
<1>3. QED
  BY <1>1, <1>2

\* What the order of the chunks depends on.
LEMMA PumpStays ==
    ASSUME PumpInOrder, ChannelInOrder, UNCHANGED <<written, pipe, reader, holds, chan, waited, cut>>,
           Got' = Got, SeenKinds \subseteq SeenKinds',
           \A s \in Streams : reader[s] = "done" => (open' => open)
    PROVE  PumpInOrder' /\ ChannelInOrder'
<1>1. ChanKinds' = ChanKinds /\ InChan' = InChan
  BY ChannelStays
<1>2. \A s \in Streams : Passed(s)' = Passed(s)
  BY <1>1 DEF Passed
<1>3. PumpInOrder'
  BY <1>1, <1>2 DEF PumpInOrder
<1>4. ChannelInOrder'
  BY DEF ChannelInOrder, Chunk
<1>5. QED
  BY <1>3, <1>4

-----------------------------------------------------------------------------
\* Nothing has happened at first.
LEMMA InitIInv == Init => IInv
<1> SUFFICES ASSUME Init PROVE IInv
  OBVIOUS
<1> USE StreamAssumption DEF Init
<1>1. SeenKinds = {} /\ ChanKinds = {} /\ \A s \in Streams : Got[s] = {} /\ InChan[s] = {}
  BY DEF SeenKinds, ChanKinds, Got, InChan, Stream!Arrived, Stream!Contains
<1>2. TypeOK
  <2>1. cfg \in Configs /\ ~held /\ ~open /\ ~waited /\ ~cut /\ ~cancelled /\ ~left
    OBVIOUS
  <2>2. held \in BOOLEAN /\ open \in BOOLEAN /\ waited \in BOOLEAN /\ cut \in BOOLEAN /\ cancelled \in BOOLEAN /\ left \in BOOLEAN
    OBVIOUS
  <2>3. QED
    BY <2>1, <2>2 DEF TypeOK
<1>3. LayersAgree /\ RuntimesDiffer /\ CopyIsOwned /\ ProcessIsOwned /\ ReadersAreOwned
  BY DEF LayersAgree, RuntimesDiffer, CopyIsOwned, ProcessIsOwned, ReadersAreOwned, Wrapped
<1>4. ToldSoFar /\ AuditFollows
  BY <1>1 DEF ToldSoFar, AuditFollows
<1>5. PumpInOrder /\ ChannelInOrder
  BY <1>1 DEF PumpInOrder, ChannelInOrder, Passed
<1>6. AllIsTold
  BY <1>1 DEF AllIsTold
<1>7. QED
  BY <1>2, <1>3, <1>4, <1>5, <1>6 DEF IInv

-----------------------------------------------------------------------------
\* No runtime: nothing is started, and the one event is fatal.
LEMMA StepNoRuntime == IInv /\ NoRuntime => IInv'
<1> SUFFICES ASSUME IInv, NoRuntime PROVE IInv'
  OBVIOUS
<1> USE StreamAssumption DEF IInv, NoRuntime, procVars, pumpVars, userVars
<1>1. SeenKinds' = SeenKinds \cup {"fatal"} /\ Got' = Got /\ held' = held /\ left' \in BOOLEAN /\ seen' \in Seq(Stream!Event)
  BY Told
<1>2. TypeOK'
  BY <1>1 DEF TypeOK
<1>3. LayersAgree' /\ RuntimesDiffer' /\ CopyIsOwned'
  BY <1>1 DEF TypeOK, LayersAgree, RuntimesDiffer, CopyIsOwned, ToldSoFar, Wrapped, Isolated, Keeps, Configs
<1>4. ProcessIsOwned' /\ ReadersAreOwned'
  BY <1>1 DEF TypeOK, RuntimesDiffer, ProcessIsOwned, ReadersAreOwned, ToldSoFar, LayersAgree, Wrapped
<1>5. ToldSoFar' /\ AuditFollows'
  BY <1>1 DEF TypeOK, LayersAgree, RuntimesDiffer, CopyIsOwned, ToldSoFar, AuditFollows, Wrapped, Isolated, Keeps, Configs
<1>6. PumpInOrder' /\ ChannelInOrder'
  BY <1>1, PumpStays DEF TypeOK, ProcessIsOwned
<1>7. AllIsTold'
  BY <1>1 DEF TypeOK, AllIsTold, ToldSoFar, ReadersAreOwned, ProcessIsOwned, LayersAgree
<1>8. QED
  BY <1>2, <1>3, <1>4, <1>5, <1>6, <1>7

\* A denied execution starts nothing either.
LEMMA StepDeny == IInv /\ Deny => IInv'
<1> SUFFICES ASSUME IInv, Deny PROVE IInv'
  OBVIOUS
<1> USE StreamAssumption DEF IInv, Deny, procVars, pumpVars, userVars
<1>1. SeenKinds' = SeenKinds \cup {"fatal"} /\ Got' = Got /\ held' = held /\ left' \in BOOLEAN /\ seen' \in Seq(Stream!Event)
  BY Told
<1>2. audit' = <<"requested", "denied">>
  BY DEF AuditFollows
<1>3. TypeOK'
  BY <1>1 DEF TypeOK
<1>4. LayersAgree' /\ RuntimesDiffer' /\ CopyIsOwned'
  BY <1>1 DEF TypeOK, LayersAgree, RuntimesDiffer, CopyIsOwned, ToldSoFar, Wrapped, Isolated, Keeps, Configs
<1>5. ProcessIsOwned' /\ ReadersAreOwned'
  BY <1>1 DEF TypeOK, RuntimesDiffer, ProcessIsOwned, ReadersAreOwned, ToldSoFar, LayersAgree, Wrapped
<1>6. ToldSoFar' /\ AuditFollows'
  BY <1>1, <1>2 DEF TypeOK, LayersAgree, RuntimesDiffer, CopyIsOwned, ToldSoFar, AuditFollows, Wrapped, Isolated, Keeps, Configs
<1>7. PumpInOrder' /\ ChannelInOrder'
  BY <1>1, PumpStays DEF TypeOK, ProcessIsOwned
<1>8. AllIsTold'
  BY <1>1 DEF TypeOK, AllIsTold, ToldSoFar, ReadersAreOwned, ProcessIsOwned, LayersAgree
<1>9. QED
  BY <1>3, <1>4, <1>5, <1>6, <1>7, <1>8

\* The runtime or its wrapper stands at its beginning.
LEMMA StepDelegate == IInv /\ Delegate => IInv'
<1> SUFFICES ASSUME IInv, Delegate PROVE IInv'
  OBVIOUS
<1> USE StreamAssumption DEF IInv, Delegate, procVars, pumpVars, userVars
<1>1. SeenKinds' = SeenKinds /\ Got' = Got /\ UNCHANGED <<seen, left, held>>
  BY SeenStays
<1>2. audit' = <<"requested", "started">>
  BY DEF AuditFollows
<1>3. TypeOK'
  BY <1>1 DEF TypeOK
<1>4. LayersAgree' /\ RuntimesDiffer' /\ CopyIsOwned'
  BY <1>1 DEF TypeOK, LayersAgree, RuntimesDiffer, CopyIsOwned, ToldSoFar, Wrapped, Isolated, Keeps, Configs
<1>5. ProcessIsOwned' /\ ReadersAreOwned'
  BY <1>1 DEF TypeOK, RuntimesDiffer, ProcessIsOwned, ReadersAreOwned, ToldSoFar, LayersAgree, Wrapped
<1>6. ToldSoFar' /\ AuditFollows'
  BY <1>1, <1>2 DEF TypeOK, LayersAgree, RuntimesDiffer, CopyIsOwned, ToldSoFar, AuditFollows, Wrapped, Isolated, Keeps, Configs
<1>7. PumpInOrder' /\ ChannelInOrder'
  BY <1>1, PumpStays DEF TypeOK, ProcessIsOwned
<1>8. AllIsTold'
  BY <1>1 DEF TypeOK, AllIsTold, ToldSoFar, ReadersAreOwned, ProcessIsOwned, LayersAgree
<1>9. QED
  BY <1>3, <1>4, <1>5, <1>6, <1>7, <1>8

\* The closing record is chosen by what was seen.
LEMMA StepConclude == IInv /\ Conclude => IInv'
<1> SUFFICES ASSUME IInv, Conclude PROVE IInv'
  OBVIOUS
<1> USE StreamAssumption DEF IInv, Conclude, procVars, pumpVars, userVars
<1>1. SeenKinds' = SeenKinds /\ Got' = Got /\ UNCHANGED <<seen, left, held>>
  BY SeenStays
<1>2. \/ left /\ audit' = <<"requested", "started">>
      \/ "fatal" \in SeenKinds /\ audit' = <<"requested", "started", "failed">>
      \/ "fatal" \notin SeenKinds /\ audit' = <<"requested", "started", "completed">>
  <2>1. audit = <<"requested", "started">>
    BY DEF AuditFollows
  <2>2. /\ Append(audit, "failed") = <<"requested", "started", "failed">>
        /\ Append(audit, "completed") = <<"requested", "started", "completed">>
    BY <2>1, ThirdRecord
  <2>3. CASE left
    BY <2>1, <2>3
  <2>4. CASE ~left /\ "fatal" \in SeenKinds
    <3>1. audit' = Append(audit, "failed")
      BY <2>4, SawIsSeen
    <3>2. QED
      BY <2>1, <2>2, <2>4, <3>1
  <2>5. CASE ~left /\ "fatal" \notin SeenKinds
    <3>1. audit' = Append(audit, "completed")
      BY <2>5, SawIsSeen
    <3>2. QED
      BY <2>1, <2>2, <2>5, <3>1
  <2>6. QED
    BY <2>3, <2>4, <2>5
<1>3. TypeOK'
  BY <1>1 DEF TypeOK
<1>4. LayersAgree' /\ RuntimesDiffer' /\ CopyIsOwned'
  BY <1>1 DEF TypeOK, LayersAgree, RuntimesDiffer, CopyIsOwned, ToldSoFar, Wrapped, Isolated, Keeps, Configs
<1>5. ProcessIsOwned' /\ ReadersAreOwned'
  BY <1>1 DEF TypeOK, RuntimesDiffer, ProcessIsOwned, ReadersAreOwned, ToldSoFar, LayersAgree, Wrapped
<1>6. ToldSoFar' /\ AuditFollows'
  BY <1>1, <1>2 DEF TypeOK, LayersAgree, RuntimesDiffer, CopyIsOwned, ToldSoFar, AuditFollows, Wrapped, Isolated, Keeps, Configs
<1>7. PumpInOrder' /\ ChannelInOrder'
  BY <1>1, PumpStays DEF TypeOK, ProcessIsOwned
<1>8. AllIsTold'
  BY <1>1 DEF TypeOK, AllIsTold, ToldSoFar, ReadersAreOwned, ProcessIsOwned, LayersAgree
<1>9. QED
  BY <1>3, <1>4, <1>5, <1>6, <1>7, <1>8

\* The copy is up before the runtime begins.
LEMMA StepWrapSetup == IInv /\ WrapSetup => IInv'
<1> SUFFICES ASSUME IInv, WrapSetup PROVE IInv'
  OBVIOUS
<1> USE StreamAssumption DEF IInv, WrapSetup, procVars, pumpVars, userVars
<1>1. SeenKinds' = SeenKinds \cup {"status"} /\ Got' = Got /\ held' = held /\ ~left' /\ left' \in BOOLEAN /\ seen' \in Seq(Stream!Event)
  BY Told
<1>2. TypeOK'
  BY <1>1 DEF TypeOK
<1>3. LayersAgree' /\ RuntimesDiffer' /\ CopyIsOwned'
  BY <1>1 DEF TypeOK, LayersAgree, RuntimesDiffer, CopyIsOwned, ToldSoFar, Wrapped, Isolated, Keeps, Configs
<1>4. ProcessIsOwned' /\ ReadersAreOwned'
  BY <1>1 DEF TypeOK, RuntimesDiffer, ProcessIsOwned, ReadersAreOwned, ToldSoFar, LayersAgree, Wrapped
<1>5. ToldSoFar' /\ AuditFollows'
  BY <1>1 DEF TypeOK, LayersAgree, RuntimesDiffer, CopyIsOwned, ToldSoFar, AuditFollows, Wrapped, Isolated, Keeps, Configs
<1>6. PumpInOrder' /\ ChannelInOrder'
  BY <1>1, PumpStays DEF TypeOK, ProcessIsOwned
<1>7. AllIsTold'
  BY <1>1 DEF TypeOK, AllIsTold, ToldSoFar, ReadersAreOwned, ProcessIsOwned, LayersAgree
<1>8. QED
  BY <1>2, <1>3, <1>4, <1>5, <1>6, <1>7

\* Without a copy the runtime never begins.
LEMMA StepWrapFails == IInv /\ WrapFails => IInv'
<1> SUFFICES ASSUME IInv, WrapFails PROVE IInv'
  OBVIOUS
<1> USE StreamAssumption DEF IInv, WrapFails, procVars, pumpVars, userVars
<1>1. SeenKinds' = SeenKinds \cup {"fatal"} /\ Got' = Got /\ held' = held /\ left' \in BOOLEAN /\ seen' \in Seq(Stream!Event)
  BY Told
<1>2. TypeOK'
  BY <1>1 DEF TypeOK
<1>3. LayersAgree' /\ RuntimesDiffer' /\ CopyIsOwned'
  BY <1>1 DEF TypeOK, LayersAgree, RuntimesDiffer, CopyIsOwned, ToldSoFar, Wrapped, Isolated, Keeps, Configs
<1>4. ProcessIsOwned' /\ ReadersAreOwned'
  BY <1>1 DEF TypeOK, RuntimesDiffer, ProcessIsOwned, ReadersAreOwned, ToldSoFar, LayersAgree, Wrapped
<1>5. ToldSoFar' /\ AuditFollows'
  BY <1>1 DEF TypeOK, LayersAgree, RuntimesDiffer, CopyIsOwned, ToldSoFar, AuditFollows, Wrapped, Isolated, Keeps, Configs
<1>6. PumpInOrder' /\ ChannelInOrder'
  BY <1>1, PumpStays DEF TypeOK, ProcessIsOwned
<1>7. AllIsTold'
  BY <1>1 DEF TypeOK, AllIsTold, ToldSoFar, ReadersAreOwned, ProcessIsOwned, LayersAgree
<1>8. QED
  BY <1>2, <1>3, <1>4, <1>5, <1>6, <1>7

\* The runtime has ended; with an exit kept back the review follows.
LEMMA StepWrapLoopEnds == IInv /\ WrapLoopEnds => IInv'
<1> SUFFICES ASSUME IInv, WrapLoopEnds PROVE IInv'
  OBVIOUS
<1> USE StreamAssumption DEF IInv, WrapLoopEnds, procVars, pumpVars, userVars
<1>1. SeenKinds' = SeenKinds /\ Got' = Got /\ UNCHANGED <<seen, left, held>>
  BY SeenStays
<1>2. TypeOK'
  BY <1>1, CopyRemains DEF TypeOK
<1>3. LayersAgree' /\ RuntimesDiffer' /\ CopyIsOwned'
  <2>1. iso' # "up" \/ ~left
    BY CopyRemains
  <2>2. iso' \in {"kept", "upper"} => Keeps
    BY CopyRemains DEF CopyIsOwned
  <2>3. CopyIsOwned'
    BY <2>1, <2>2 DEF TypeOK, LayersAgree, CopyIsOwned, Wrapped, Isolated, Keeps
  <2>4. LayersAgree' /\ RuntimesDiffer'
    BY <1>1 DEF TypeOK, LayersAgree, RuntimesDiffer, Wrapped, Isolated
  <2>5. QED
    BY <2>3, <2>4
<1>4. ProcessIsOwned' /\ ReadersAreOwned'
  BY <1>1 DEF TypeOK, RuntimesDiffer, ProcessIsOwned, ReadersAreOwned, ToldSoFar, LayersAgree, Wrapped
<1>5. ToldSoFar' /\ AuditFollows'
  BY <1>1, CopyRemains DEF TypeOK, LayersAgree, RuntimesDiffer, CopyIsOwned, ToldSoFar, AuditFollows, Wrapped, Isolated, Keeps, Configs
<1>6. PumpInOrder' /\ ChannelInOrder'
  BY <1>1, PumpStays DEF TypeOK, ProcessIsOwned
<1>7. AllIsTold'
  BY <1>1 DEF TypeOK, AllIsTold, ToldSoFar, ReadersAreOwned, ProcessIsOwned, LayersAgree
<1>8. QED
  BY <1>2, <1>3, <1>4, <1>5, <1>6, <1>7

\* The changes are shown while the exit is kept back.
LEMMA StepWrapShow == IInv /\ WrapShow => IInv'
<1> SUFFICES ASSUME IInv, WrapShow PROVE IInv'
  OBVIOUS
<1> USE StreamAssumption DEF IInv, WrapShow, procVars, pumpVars, userVars, Asks
<1>1. SeenKinds' = SeenKinds \cup {"changes"} /\ Got' = Got /\ held' = held /\ ~left' /\ left' \in BOOLEAN /\ seen' \in Seq(Stream!Event)
  BY Told
<1>2. TypeOK'
  BY <1>1 DEF TypeOK
<1>3. LayersAgree' /\ RuntimesDiffer' /\ CopyIsOwned'
  BY <1>1 DEF TypeOK, LayersAgree, RuntimesDiffer, CopyIsOwned, ToldSoFar, Wrapped, Isolated, Keeps, Configs
<1>4. ProcessIsOwned' /\ ReadersAreOwned'
  BY <1>1 DEF TypeOK, RuntimesDiffer, ProcessIsOwned, ReadersAreOwned, ToldSoFar, LayersAgree, Wrapped
<1>5. ToldSoFar' /\ AuditFollows'
  BY <1>1 DEF TypeOK, LayersAgree, RuntimesDiffer, CopyIsOwned, ToldSoFar, AuditFollows, Wrapped, Isolated, Keeps, Configs
<1>6. PumpInOrder' /\ ChannelInOrder'
  BY <1>1, PumpStays DEF TypeOK, ProcessIsOwned
<1>7. AllIsTold'
  BY <1>1 DEF TypeOK, AllIsTold, ToldSoFar, ReadersAreOwned, ProcessIsOwned, LayersAgree
<1>8. QED
  BY <1>2, <1>3, <1>4, <1>5, <1>6, <1>7

\* No changes are shown.
LEMMA StepWrapShowNothing == IInv /\ WrapShowNothing => IInv'
<1> SUFFICES ASSUME IInv, WrapShowNothing PROVE IInv'
  OBVIOUS
<1> USE StreamAssumption DEF IInv, WrapShowNothing, procVars, pumpVars, userVars
<1>1. SeenKinds' = SeenKinds /\ Got' = Got /\ UNCHANGED <<seen, left, held>>
  BY SeenStays
<1>2. TypeOK'
  BY <1>1 DEF TypeOK
<1>3. LayersAgree' /\ RuntimesDiffer' /\ CopyIsOwned'
  BY <1>1 DEF TypeOK, LayersAgree, RuntimesDiffer, CopyIsOwned, ToldSoFar, Wrapped, Isolated, Keeps, Configs
<1>4. ProcessIsOwned' /\ ReadersAreOwned'
  BY <1>1 DEF TypeOK, RuntimesDiffer, ProcessIsOwned, ReadersAreOwned, ToldSoFar, LayersAgree, Wrapped
<1>5. ToldSoFar' /\ AuditFollows'
  BY <1>1 DEF TypeOK, LayersAgree, RuntimesDiffer, CopyIsOwned, ToldSoFar, AuditFollows, Wrapped, Isolated, Keeps, Configs
<1>6. PumpInOrder' /\ ChannelInOrder'
  BY <1>1, PumpStays DEF TypeOK, ProcessIsOwned
<1>7. AllIsTold'
  BY <1>1 DEF TypeOK, AllIsTold, ToldSoFar, ReadersAreOwned, ProcessIsOwned, LayersAgree
<1>8. QED
  BY <1>2, <1>3, <1>4, <1>5, <1>6, <1>7

\* The exit that was kept back is told once.
LEMMA StepWrapExit == IInv /\ WrapExit => IInv'
<1> SUFFICES ASSUME IInv, WrapExit PROVE IInv'
  OBVIOUS
<1> USE StreamAssumption DEF IInv, WrapExit, procVars, pumpVars, userVars
<1>1. SeenKinds' = SeenKinds \cup {"completed"} /\ Got' = Got /\ held' = held /\ ~left' /\ left' \in BOOLEAN /\ seen' \in Seq(Stream!Event)
  BY Told
<1>2. TypeOK'
  BY <1>1 DEF TypeOK
<1>3. LayersAgree' /\ RuntimesDiffer' /\ CopyIsOwned'
  BY <1>1 DEF TypeOK, LayersAgree, RuntimesDiffer, CopyIsOwned, ToldSoFar, Wrapped, Isolated, Keeps, Configs
<1>4. ProcessIsOwned' /\ ReadersAreOwned'
  BY <1>1 DEF TypeOK, RuntimesDiffer, ProcessIsOwned, ReadersAreOwned, ToldSoFar, LayersAgree, Wrapped
<1>5. ToldSoFar' /\ AuditFollows'
  BY <1>1 DEF TypeOK, LayersAgree, RuntimesDiffer, CopyIsOwned, ToldSoFar, AuditFollows, Wrapped, Isolated, Keeps, Configs
<1>6. PumpInOrder' /\ ChannelInOrder'
  BY <1>1, PumpStays DEF TypeOK, ProcessIsOwned
<1>7. AllIsTold'
  BY <1>1 DEF TypeOK, AllIsTold, ToldSoFar, ReadersAreOwned, ProcessIsOwned, LayersAgree
<1>8. QED
  BY <1>2, <1>3, <1>4, <1>5, <1>6, <1>7

\* A reviewed copy is kept.
LEMMA StepWrapTeardown == IInv /\ WrapTeardown => IInv'
<1> SUFFICES ASSUME IInv, WrapTeardown PROVE IInv'
  OBVIOUS
<1> USE StreamAssumption DEF IInv, WrapTeardown, procVars, pumpVars, userVars
<1>1. SeenKinds' = SeenKinds /\ Got' = Got /\ UNCHANGED <<seen, left, held>>
  BY SeenStays
<1>2. TypeOK'
  BY <1>1, CopyRemains DEF TypeOK
<1>3. LayersAgree' /\ RuntimesDiffer' /\ CopyIsOwned'
  BY <1>1, CopyRemains DEF TypeOK, LayersAgree, RuntimesDiffer, CopyIsOwned, ToldSoFar, Wrapped, Isolated, Keeps, Configs
<1>4. ProcessIsOwned' /\ ReadersAreOwned'
  BY <1>1 DEF TypeOK, RuntimesDiffer, ProcessIsOwned, ReadersAreOwned, ToldSoFar, LayersAgree, Wrapped
<1>5. ToldSoFar' /\ AuditFollows'
  BY <1>1, CopyRemains DEF TypeOK, LayersAgree, RuntimesDiffer, CopyIsOwned, ToldSoFar, AuditFollows, Wrapped, Isolated, Keeps, Configs
<1>6. PumpInOrder' /\ ChannelInOrder'
  BY <1>1, PumpStays DEF TypeOK, ProcessIsOwned
<1>7. AllIsTold'
  BY <1>1 DEF TypeOK, AllIsTold, ToldSoFar, ReadersAreOwned, ProcessIsOwned, LayersAgree
<1>8. QED
  BY <1>2, <1>3, <1>4, <1>5, <1>6, <1>7

\* Before the process starts there is nothing to lose.
LEMMA StepRefuse == IInv /\ Refuse => IInv'
<1> SUFFICES ASSUME IInv, Refuse PROVE IInv'
  OBVIOUS
<1> USE StreamAssumption DEF IInv, Refuse, procVars, pumpVars, userVars
<1>1. SeenKinds' = SeenKinds \cup {"fatal"} /\ Got' = Got /\ held' = held /\ left' \in BOOLEAN /\ seen' \in Seq(Stream!Event)
  BY Told
<1>2. TypeOK'
  BY <1>1 DEF TypeOK
<1>3. LayersAgree' /\ RuntimesDiffer' /\ CopyIsOwned'
  BY <1>1 DEF TypeOK, LayersAgree, RuntimesDiffer, CopyIsOwned, ToldSoFar, Wrapped, Isolated, Keeps, Configs
<1>4. ProcessIsOwned' /\ ReadersAreOwned'
  BY <1>1 DEF TypeOK, RuntimesDiffer, ProcessIsOwned, ReadersAreOwned, ToldSoFar, LayersAgree, Wrapped
<1>5. ToldSoFar' /\ AuditFollows'
  BY <1>1 DEF TypeOK, LayersAgree, RuntimesDiffer, CopyIsOwned, ToldSoFar, AuditFollows, Wrapped, Isolated, Keeps, Configs
<1>6. PumpInOrder' /\ ChannelInOrder'
  BY <1>1, PumpStays DEF TypeOK, ProcessIsOwned
<1>7. AllIsTold'
  BY <1>1 DEF TypeOK, AllIsTold, ToldSoFar, ReadersAreOwned, ProcessIsOwned, LayersAgree
<1>8. QED
  BY <1>2, <1>3, <1>4, <1>5, <1>6, <1>7

\* docker has a copy of its own.
LEMMA StepDockerIsolate == IInv /\ DockerIsolate => IInv'
<1> SUFFICES ASSUME IInv, DockerIsolate PROVE IInv'
  OBVIOUS
<1> USE StreamAssumption DEF IInv, DockerIsolate, procVars, pumpVars, userVars, After
<1>1. SeenKinds' = SeenKinds \cup {"status"} /\ Got' = Got /\ held' = held /\ ~left' /\ left' \in BOOLEAN /\ seen' \in Seq(Stream!Event)
  BY Told
<1>2. TypeOK'
  BY <1>1 DEF TypeOK
<1>3. LayersAgree' /\ RuntimesDiffer' /\ CopyIsOwned'
  BY <1>1 DEF TypeOK, LayersAgree, RuntimesDiffer, CopyIsOwned, ToldSoFar, Wrapped, Isolated, Keeps, Configs
<1>4. ProcessIsOwned' /\ ReadersAreOwned'
  BY <1>1 DEF TypeOK, RuntimesDiffer, ProcessIsOwned, ReadersAreOwned, ToldSoFar, LayersAgree, Wrapped
<1>5. ToldSoFar' /\ AuditFollows'
  BY <1>1 DEF TypeOK, LayersAgree, RuntimesDiffer, CopyIsOwned, ToldSoFar, AuditFollows, Wrapped, Isolated, Keeps, Configs
<1>6. PumpInOrder' /\ ChannelInOrder'
  BY <1>1, PumpStays DEF TypeOK, ProcessIsOwned
<1>7. AllIsTold'
  BY <1>1 DEF TypeOK, AllIsTold, ToldSoFar, ReadersAreOwned, ProcessIsOwned, LayersAgree
<1>8. QED
  BY <1>2, <1>3, <1>4, <1>5, <1>6, <1>7

\* Nothing but the place of the runtime changes.
LEMMA StepDockerHasImage == IInv /\ DockerHasImage => IInv'
<1> SUFFICES ASSUME IInv, DockerHasImage PROVE IInv'
  OBVIOUS
<1> USE StreamAssumption DEF IInv, DockerHasImage, procVars, pumpVars, userVars, NeedsImage
<1>1. SeenKinds' = SeenKinds /\ Got' = Got /\ UNCHANGED <<seen, left, held>>
  BY SeenStays
<1>2. TypeOK'
  BY <1>1 DEF TypeOK
<1>3. LayersAgree' /\ RuntimesDiffer' /\ CopyIsOwned'
  BY <1>1 DEF TypeOK, LayersAgree, RuntimesDiffer, CopyIsOwned, ToldSoFar, Wrapped, Isolated, Keeps, Configs
<1>4. ProcessIsOwned' /\ ReadersAreOwned'
  BY <1>1 DEF TypeOK, RuntimesDiffer, ProcessIsOwned, ReadersAreOwned, ToldSoFar, LayersAgree, Wrapped
<1>5. ToldSoFar' /\ AuditFollows'
  BY <1>1 DEF TypeOK, LayersAgree, RuntimesDiffer, CopyIsOwned, ToldSoFar, AuditFollows, Wrapped, Isolated, Keeps, Configs
<1>6. PumpInOrder' /\ ChannelInOrder'
  BY <1>1, PumpStays DEF TypeOK, ProcessIsOwned
<1>7. AllIsTold'
  BY <1>1 DEF TypeOK, AllIsTold, ToldSoFar, ReadersAreOwned, ProcessIsOwned, LayersAgree
<1>8. QED
  BY <1>2, <1>3, <1>4, <1>5, <1>6, <1>7

\* Progress is told before the start.
LEMMA StepDockerPull == IInv /\ DockerPull => IInv'
<1> SUFFICES ASSUME IInv, DockerPull PROVE IInv'
  OBVIOUS
<1> USE StreamAssumption DEF IInv, DockerPull, procVars, pumpVars, userVars, NeedsImage
<1>1. SeenKinds' = SeenKinds \cup {"status"} /\ Got' = Got /\ held' = held /\ ~left' /\ left' \in BOOLEAN /\ seen' \in Seq(Stream!Event)
  BY Told
<1>2. TypeOK'
  BY <1>1 DEF TypeOK
<1>3. LayersAgree' /\ RuntimesDiffer' /\ CopyIsOwned'
  BY <1>1 DEF TypeOK, LayersAgree, RuntimesDiffer, CopyIsOwned, ToldSoFar, Wrapped, Isolated, Keeps, Configs
<1>4. ProcessIsOwned' /\ ReadersAreOwned'
  BY <1>1 DEF TypeOK, RuntimesDiffer, ProcessIsOwned, ReadersAreOwned, ToldSoFar, LayersAgree, Wrapped
<1>5. ToldSoFar' /\ AuditFollows'
  BY <1>1 DEF TypeOK, LayersAgree, RuntimesDiffer, CopyIsOwned, ToldSoFar, AuditFollows, Wrapped, Isolated, Keeps, Configs
<1>6. PumpInOrder' /\ ChannelInOrder'
  BY <1>1, PumpStays DEF TypeOK, ProcessIsOwned
<1>7. AllIsTold'
  BY <1>1 DEF TypeOK, AllIsTold, ToldSoFar, ReadersAreOwned, ProcessIsOwned, LayersAgree
<1>8. QED
  BY <1>2, <1>3, <1>4, <1>5, <1>6, <1>7

\* From here there is a container to remove.
LEMMA StepDockerCreate == IInv /\ DockerCreate => IInv'
<1> SUFFICES ASSUME IInv, DockerCreate PROVE IInv'
  OBVIOUS
<1> USE StreamAssumption DEF IInv, DockerCreate, procVars, pumpVars, userVars, After
<1>1. SeenKinds' = SeenKinds \cup {"started"} /\ Got' = Got /\ held' = held /\ ~left' /\ left' \in BOOLEAN /\ seen' \in Seq(Stream!Event)
  BY Told
<1>2. TypeOK'
  BY <1>1 DEF TypeOK
<1>3. LayersAgree' /\ RuntimesDiffer' /\ CopyIsOwned'
  BY <1>1 DEF TypeOK, LayersAgree, RuntimesDiffer, CopyIsOwned, ToldSoFar, Wrapped, Isolated, Keeps, Configs
<1>4. ProcessIsOwned' /\ ReadersAreOwned'
  BY <1>1 DEF TypeOK, RuntimesDiffer, ProcessIsOwned, ReadersAreOwned, ToldSoFar, LayersAgree, Wrapped
<1>5. ToldSoFar' /\ AuditFollows'
  BY <1>1 DEF TypeOK, LayersAgree, RuntimesDiffer, CopyIsOwned, ToldSoFar, AuditFollows, Wrapped, Isolated, Keeps, Configs
<1>6. PumpInOrder' /\ ChannelInOrder'
  BY <1>1, PumpStays DEF TypeOK, ProcessIsOwned
<1>7. AllIsTold'
  BY <1>1 DEF TypeOK, AllIsTold, ToldSoFar, ReadersAreOwned, ProcessIsOwned, LayersAgree
<1>8. QED
  BY <1>2, <1>3, <1>4, <1>5, <1>6, <1>7

\* The readers start with nothing written.
LEMMA StepDockerStart == IInv /\ DockerStart => IInv'
<1> SUFFICES ASSUME IInv, DockerStart PROVE IInv'
  OBVIOUS
<1> USE StreamAssumption DEF IInv, DockerStart, procVars, pumpVars, userVars, StartProcess, StartReaders
<1>1. SeenKinds' = SeenKinds /\ Got' = Got /\ UNCHANGED <<seen, left, held>>
  BY SeenStays
<1>2. open' \in BOOLEAN /\ child = "none"
  BY DEF ProcessIsOwned
<1>3. TypeOK'
  BY <1>1, <1>2 DEF TypeOK
<1>4. LayersAgree' /\ RuntimesDiffer' /\ CopyIsOwned'
  BY <1>1, <1>2 DEF TypeOK, LayersAgree, RuntimesDiffer, CopyIsOwned, ToldSoFar, Wrapped, Isolated, Keeps, Configs
<1>5. ProcessIsOwned' /\ ReadersAreOwned'
  BY <1>1, <1>2 DEF TypeOK, RuntimesDiffer, ProcessIsOwned, ReadersAreOwned, ToldSoFar, LayersAgree, Wrapped
<1>6. ToldSoFar' /\ AuditFollows'
  BY <1>1, <1>2 DEF TypeOK, LayersAgree, RuntimesDiffer, CopyIsOwned, ToldSoFar, AuditFollows, Wrapped, Isolated, Keeps, Configs
<1>7. ChanKinds' = ChanKinds /\ InChan' = InChan
  BY ChannelStays
<1>8. \A s \in Streams : Passed(s)' = Passed(s)
  BY <1>1, <1>7 DEF Passed
<1>9. \A s \in Streams : reader[s] = "off" /\ ~waited /\ ~cut
  BY DEF ProcessIsOwned, ReadersAreOwned, TypeOK
<1>10. PumpInOrder'
  BY <1>1, <1>2, <1>7, <1>8, <1>9 DEF TypeOK, PumpInOrder
<1>11. ChannelInOrder'
  BY <1>1, <1>2, <1>7, <1>8, <1>9 DEF ChannelInOrder, Chunk
<1>12. AllIsTold'
  BY <1>1, <1>2 DEF TypeOK, AllIsTold, ToldSoFar, ReadersAreOwned, ProcessIsOwned, LayersAgree
<1>13. QED
  BY <1>3, <1>4, <1>5, <1>6, <1>10, <1>11, <1>12

\* The start is told before the process runs.
LEMMA StepAnnounce == IInv /\ Announce => IInv'
<1> SUFFICES ASSUME IInv, Announce PROVE IInv'
  OBVIOUS
<1> USE StreamAssumption DEF IInv, Announce, procVars, pumpVars, userVars, After
<1>1. SeenKinds' = SeenKinds \cup {"started"} /\ Got' = Got /\ held' = held /\ ~left' /\ left' \in BOOLEAN /\ seen' \in Seq(Stream!Event)
  BY Told
<1>2. TypeOK'
  BY <1>1 DEF TypeOK
<1>3. LayersAgree' /\ RuntimesDiffer' /\ CopyIsOwned'
  BY <1>1 DEF TypeOK, LayersAgree, RuntimesDiffer, CopyIsOwned, ToldSoFar, Wrapped, Isolated, Keeps, Configs
<1>4. ProcessIsOwned' /\ ReadersAreOwned'
  BY <1>1 DEF TypeOK, RuntimesDiffer, ProcessIsOwned, ReadersAreOwned, ToldSoFar, LayersAgree, Wrapped
<1>5. ToldSoFar' /\ AuditFollows'
  BY <1>1 DEF TypeOK, LayersAgree, RuntimesDiffer, CopyIsOwned, ToldSoFar, AuditFollows, Wrapped, Isolated, Keeps, Configs
<1>6. PumpInOrder' /\ ChannelInOrder'
  BY <1>1, PumpStays DEF TypeOK, ProcessIsOwned
<1>7. AllIsTold'
  BY <1>1 DEF TypeOK, AllIsTold, ToldSoFar, ReadersAreOwned, ProcessIsOwned, LayersAgree
<1>8. QED
  BY <1>2, <1>3, <1>4, <1>5, <1>6, <1>7

\* gvisor has readers, none has not.
LEMMA StepLaunch == IInv /\ Launch => IInv'
<1> SUFFICES ASSUME IInv, Launch PROVE IInv'
  OBVIOUS
<1> USE StreamAssumption DEF IInv, Launch, procVars, pumpVars, userVars, StartProcess, StartReaders
<1>1. SeenKinds' = SeenKinds /\ Got' = Got /\ UNCHANGED <<seen, left, held>>
  BY SeenStays
<1>2. open' \in BOOLEAN /\ child = "none"
  BY DEF ProcessIsOwned
<1>3. TypeOK'
  BY <1>1, <1>2 DEF TypeOK
<1>4. LayersAgree' /\ RuntimesDiffer' /\ CopyIsOwned'
  BY <1>1, <1>2 DEF TypeOK, LayersAgree, RuntimesDiffer, CopyIsOwned, ToldSoFar, Wrapped, Isolated, Keeps, Configs
<1>5. ProcessIsOwned' /\ ReadersAreOwned'
  BY <1>1, <1>2 DEF TypeOK, RuntimesDiffer, ProcessIsOwned, ReadersAreOwned, ToldSoFar, LayersAgree, Wrapped
<1>6. ToldSoFar' /\ AuditFollows'
  BY <1>1, <1>2 DEF TypeOK, LayersAgree, RuntimesDiffer, CopyIsOwned, ToldSoFar, AuditFollows, Wrapped, Isolated, Keeps, Configs
<1>7. ChanKinds' = ChanKinds /\ InChan' = InChan
  BY ChannelStays
<1>8. \A s \in Streams : Passed(s)' = Passed(s)
  BY <1>1, <1>7 DEF Passed
<1>9. \A s \in Streams : reader[s] = "off" /\ ~waited /\ ~cut
  BY DEF ProcessIsOwned, ReadersAreOwned, TypeOK
<1>10. PumpInOrder'
  <2>1. CASE cfg.kind = "gvisor"
    BY <2>1, <1>1, <1>2, <1>7, <1>8, <1>9 DEF TypeOK, PumpInOrder
  <2>2. CASE cfg.kind # "gvisor"
    BY <2>2, <1>1, <1>2, PumpStays DEF ProcessIsOwned
  <2>3. QED
    BY <2>1, <2>2
<1>11. ChannelInOrder'
  BY <1>1, <1>2, <1>7, <1>8, <1>9 DEF ChannelInOrder, Chunk
<1>12. AllIsTold'
  BY <1>1, <1>2 DEF TypeOK, AllIsTold, ToldSoFar, ReadersAreOwned, ProcessIsOwned, LayersAgree
<1>13. QED
  BY <1>3, <1>4, <1>5, <1>6, <1>10, <1>11, <1>12

\* sandboxexec runs without readers until the warning is told.
LEMMA StepLaunchAndAnnounce == IInv /\ LaunchAndAnnounce => IInv'
<1> SUFFICES ASSUME IInv, LaunchAndAnnounce PROVE IInv'
  OBVIOUS
<1> USE StreamAssumption DEF IInv, LaunchAndAnnounce, procVars, pumpVars, userVars, After
<1>1. SeenKinds' = SeenKinds \cup {"started"} /\ Got' = Got /\ held' = held /\ ~left' /\ left' \in BOOLEAN /\ seen' \in Seq(Stream!Event)
  BY Told
<1>2. open' \in BOOLEAN /\ child = "none"
  BY DEF ProcessIsOwned
<1>3. TypeOK'
  BY <1>1, <1>2 DEF TypeOK
<1>4. LayersAgree' /\ RuntimesDiffer' /\ CopyIsOwned'
  BY <1>1, <1>2 DEF TypeOK, LayersAgree, RuntimesDiffer, CopyIsOwned, ToldSoFar, Wrapped, Isolated, Keeps, Configs
<1>5. ProcessIsOwned' /\ ReadersAreOwned'
  BY <1>1, <1>2 DEF TypeOK, RuntimesDiffer, ProcessIsOwned, ReadersAreOwned, ToldSoFar, LayersAgree, Wrapped
<1>6. ToldSoFar' /\ AuditFollows'
  BY <1>1, <1>2 DEF TypeOK, LayersAgree, RuntimesDiffer, CopyIsOwned, ToldSoFar, AuditFollows, Wrapped, Isolated, Keeps, Configs
<1>7. PumpInOrder' /\ ChannelInOrder'
  BY <1>1, <1>2, PumpStays DEF TypeOK, ProcessIsOwned
<1>8. AllIsTold'
  BY <1>1, <1>2 DEF TypeOK, AllIsTold, ToldSoFar, ReadersAreOwned, ProcessIsOwned, LayersAgree
<1>9. QED
  BY <1>3, <1>4, <1>5, <1>6, <1>7, <1>8

\* The readers find what was written since the start in order.
LEMMA StepWarnDeprecated == IInv /\ WarnDeprecated => IInv'
<1> SUFFICES ASSUME IInv, WarnDeprecated PROVE IInv'
  OBVIOUS
<1> USE StreamAssumption DEF IInv, WarnDeprecated, procVars, pumpVars, userVars, StartReaders
<1>1. SeenKinds' = SeenKinds \cup {"warning"} /\ Got' = Got /\ held' = held /\ ~left' /\ left' \in BOOLEAN /\ seen' \in Seq(Stream!Event)
  BY Told
<1>2. TypeOK'
  BY <1>1 DEF TypeOK
<1>3. LayersAgree' /\ RuntimesDiffer' /\ CopyIsOwned'
  BY <1>1 DEF TypeOK, LayersAgree, RuntimesDiffer, CopyIsOwned, ToldSoFar, Wrapped, Isolated, Keeps, Configs
<1>4. ProcessIsOwned' /\ ReadersAreOwned'
  BY <1>1 DEF TypeOK, RuntimesDiffer, ProcessIsOwned, ReadersAreOwned, ToldSoFar, LayersAgree, Wrapped
<1>5. ToldSoFar' /\ AuditFollows'
  BY <1>1 DEF TypeOK, LayersAgree, RuntimesDiffer, CopyIsOwned, ToldSoFar, AuditFollows, Wrapped, Isolated, Keeps, Configs
<1>6. ChanKinds' = ChanKinds /\ InChan' = InChan
  BY ChannelStays
<1>7. \A s \in Streams : Passed(s)' = Passed(s)
  BY <1>1, <1>6 DEF Passed
<1>8. \A s \in Streams : reader[s] = "off" /\ ~waited /\ ~cut
  BY DEF ProcessIsOwned, ReadersAreOwned, RuntimesDiffer, TypeOK
<1>9. PumpInOrder'
  BY <1>1, <1>6, <1>7, <1>8 DEF TypeOK, PumpInOrder
<1>10. ChannelInOrder'
  BY <1>1, <1>6, <1>7, <1>8 DEF ChannelInOrder, Chunk
<1>11. AllIsTold'
  BY <1>1 DEF TypeOK, AllIsTold, ToldSoFar, ReadersAreOwned, ProcessIsOwned, LayersAgree
<1>12. QED
  BY <1>2, <1>3, <1>4, <1>5, <1>9, <1>10, <1>11

\* The channel is empty and the readers are done.
LEMMA StepLoopEnds == IInv /\ LoopEnds => IInv'
<1> SUFFICES ASSUME IInv, LoopEnds PROVE IInv'
  OBVIOUS
<1> USE StreamAssumption DEF IInv, LoopEnds, procVars, pumpVars, userVars, Closed
<1>1. SeenKinds' = SeenKinds /\ Got' = Got /\ UNCHANGED <<seen, left, held>>
  BY SeenStays
<1>2. TypeOK'
  BY <1>1 DEF TypeOK
<1>3. LayersAgree' /\ RuntimesDiffer' /\ CopyIsOwned'
  BY <1>1 DEF TypeOK, LayersAgree, RuntimesDiffer, CopyIsOwned, ToldSoFar, Wrapped, Isolated, Keeps, Configs
<1>4. ProcessIsOwned' /\ ReadersAreOwned'
  BY <1>1 DEF TypeOK, RuntimesDiffer, ProcessIsOwned, ReadersAreOwned, ToldSoFar, LayersAgree, Wrapped
<1>5. ToldSoFar' /\ AuditFollows'
  BY <1>1 DEF TypeOK, LayersAgree, RuntimesDiffer, CopyIsOwned, ToldSoFar, AuditFollows, Wrapped, Isolated, Keeps, Configs
<1>6. PumpInOrder' /\ ChannelInOrder'
  BY <1>1, PumpStays DEF TypeOK, ProcessIsOwned
<1>7. AllIsTold'
  BY <1>1 DEF TypeOK, AllIsTold, ToldSoFar, ReadersAreOwned, ProcessIsOwned, LayersAgree
<1>8. QED
  BY <1>2, <1>3, <1>4, <1>5, <1>6, <1>7

\* A fatal error ends the execution.
LEMMA StepWaitFails == IInv /\ WaitFails => IInv'
<1> SUFFICES ASSUME IInv, WaitFails PROVE IInv'
  OBVIOUS
<1> USE StreamAssumption DEF IInv, WaitFails, procVars, pumpVars, userVars, ProcessOver, Flushed
<1>1. SeenKinds' = SeenKinds \cup {"fatal"} /\ Got' = Got /\ held' = held /\ left' \in BOOLEAN /\ seen' \in Seq(Stream!Event)
  BY Told
<1>2. TypeOK'
  BY <1>1 DEF TypeOK
<1>3. LayersAgree' /\ RuntimesDiffer' /\ CopyIsOwned'
  BY <1>1 DEF TypeOK, LayersAgree, RuntimesDiffer, CopyIsOwned, ToldSoFar, Wrapped, Isolated, Keeps, Configs
<1>4. ProcessIsOwned' /\ ReadersAreOwned'
  BY <1>1 DEF TypeOK, RuntimesDiffer, ProcessIsOwned, ReadersAreOwned, ToldSoFar, LayersAgree, Wrapped
<1>5. ToldSoFar' /\ AuditFollows'
  BY <1>1 DEF TypeOK, LayersAgree, RuntimesDiffer, CopyIsOwned, ToldSoFar, AuditFollows, Wrapped, Isolated, Keeps, Configs
<1>6. PumpInOrder' /\ ChannelInOrder'
  BY <1>1, PumpStays DEF TypeOK, ProcessIsOwned
<1>7. AllIsTold'
  BY <1>1 DEF TypeOK, AllIsTold, ToldSoFar, ReadersAreOwned, ProcessIsOwned, LayersAgree
<1>8. QED
  BY <1>2, <1>3, <1>4, <1>5, <1>6, <1>7

\* The turning point: what arrived is all that was written.
LEMMA StepWaitDone == IInv /\ WaitDone => IInv'
<1> SUFFICES ASSUME IInv, WaitDone PROVE IInv'
  OBVIOUS
<1> USE StreamAssumption DEF IInv, WaitDone, procVars, pumpVars, userVars, ProcessOver, Flushed
<1>1. SeenKinds' = SeenKinds /\ Got' = Got /\ UNCHANGED <<seen, left, held>>
  BY SeenStays
<1>2. TypeOK'
  BY <1>1 DEF TypeOK
<1>3. LayersAgree' /\ RuntimesDiffer' /\ CopyIsOwned'
  BY <1>1 DEF TypeOK, LayersAgree, RuntimesDiffer, CopyIsOwned, ToldSoFar, Wrapped, Isolated, Keeps, Configs
<1>4. ProcessIsOwned' /\ ReadersAreOwned'
  BY <1>1 DEF TypeOK, RuntimesDiffer, ProcessIsOwned, ReadersAreOwned, ToldSoFar, LayersAgree, Wrapped
<1>5. ToldSoFar' /\ AuditFollows'
  BY <1>1 DEF TypeOK, LayersAgree, RuntimesDiffer, CopyIsOwned, ToldSoFar, AuditFollows, Wrapped, Isolated, Keeps, Configs
<1>6. PumpInOrder' /\ ChannelInOrder'
  BY <1>1, PumpStays DEF TypeOK, ProcessIsOwned
<1>7. chan = <<>> /\ InChan = [s \in Streams |-> {}] /\ ChanKinds = {}
  BY DEF ReadersAreOwned, InChan, ChanKinds
<1>8. \A s \in Streams : Passed(s) = Got[s]
  BY <1>7 DEF Passed, Got
<1>9. cfg.kind = "none" => ~open /\ ~waited /\ ~cut /\ \A s \in Streams : reader[s] = "off" /\ pipe[s] = <<>>
  BY DEF ReadersAreOwned, TypeOK
<1>10. cfg.kind = "none" => \A s \in Streams : Got[s] = 1..written[s]
  <2>1. SUFFICES ASSUME cfg.kind = "none", NEW s \in Streams PROVE Got[s] = 1..written[s]
    OBVIOUS
  <2>2. pipe[s] = <<>> /\ reader[s] = "off" /\ ~waited /\ ~cut /\ Passed(s) = 1..(written[s] - Len(pipe[s]))
    BY <2>1, <1>9 DEF PumpInOrder
  <2>3. written[s] - Len(pipe[s]) = written[s]
    BY <2>2 DEF TypeOK
  <2>4. QED
    BY <2>2, <2>3, <1>8
<1>11. cfg.kind # "none" => \A s \in Streams : "lost" \in SeenKinds \/ cut \/ (~open /\ Got[s] = 1..written[s])
  BY <1>7, <1>8 DEF PumpInOrder, ReadersAreOwned
<1>12. AllIsTold'
  BY <1>1, <1>9, <1>10, <1>11 DEF AllIsTold
<1>13. QED
  BY <1>2, <1>3, <1>4, <1>5, <1>6, <1>12

\* docker shows its changes before its exit.
LEMMA StepDockerShow == IInv /\ DockerShow => IInv'
<1> SUFFICES ASSUME IInv, DockerShow PROVE IInv'
  OBVIOUS
<1> USE StreamAssumption DEF IInv, DockerShow, procVars, pumpVars, userVars, Asks
<1>1. SeenKinds' = SeenKinds \cup {"changes"} /\ Got' = Got /\ held' = held /\ ~left' /\ left' \in BOOLEAN /\ seen' \in Seq(Stream!Event)
  BY Told
<1>2. TypeOK'
  BY <1>1 DEF TypeOK
<1>3. LayersAgree' /\ RuntimesDiffer' /\ CopyIsOwned'
  BY <1>1 DEF TypeOK, LayersAgree, RuntimesDiffer, CopyIsOwned, ToldSoFar, Wrapped, Isolated, Keeps, Configs
<1>4. ProcessIsOwned' /\ ReadersAreOwned'
  BY <1>1 DEF TypeOK, RuntimesDiffer, ProcessIsOwned, ReadersAreOwned, ToldSoFar, LayersAgree, Wrapped
<1>5. ToldSoFar' /\ AuditFollows'
  BY <1>1 DEF TypeOK, LayersAgree, RuntimesDiffer, CopyIsOwned, ToldSoFar, AuditFollows, Wrapped, Isolated, Keeps, Configs
<1>6. PumpInOrder' /\ ChannelInOrder'
  BY <1>1, PumpStays DEF TypeOK, ProcessIsOwned
<1>7. AllIsTold'
  BY <1>1 DEF TypeOK, AllIsTold, ToldSoFar, ReadersAreOwned, ProcessIsOwned, LayersAgree
<1>8. QED
  BY <1>2, <1>3, <1>4, <1>5, <1>6, <1>7

\* docker has nothing to show.
LEMMA StepDockerShowNothing == IInv /\ DockerShowNothing => IInv'
<1> SUFFICES ASSUME IInv, DockerShowNothing PROVE IInv'
  OBVIOUS
<1> USE StreamAssumption DEF IInv, DockerShowNothing, procVars, pumpVars, userVars
<1>1. SeenKinds' = SeenKinds /\ Got' = Got /\ UNCHANGED <<seen, left, held>>
  BY SeenStays
<1>2. TypeOK'
  BY <1>1 DEF TypeOK
<1>3. LayersAgree' /\ RuntimesDiffer' /\ CopyIsOwned'
  BY <1>1 DEF TypeOK, LayersAgree, RuntimesDiffer, CopyIsOwned, ToldSoFar, Wrapped, Isolated, Keeps, Configs
<1>4. ProcessIsOwned' /\ ReadersAreOwned'
  BY <1>1 DEF TypeOK, RuntimesDiffer, ProcessIsOwned, ReadersAreOwned, ToldSoFar, LayersAgree, Wrapped
<1>5. ToldSoFar' /\ AuditFollows'
  BY <1>1 DEF TypeOK, LayersAgree, RuntimesDiffer, CopyIsOwned, ToldSoFar, AuditFollows, Wrapped, Isolated, Keeps, Configs
<1>6. PumpInOrder' /\ ChannelInOrder'
  BY <1>1, PumpStays DEF TypeOK, ProcessIsOwned
<1>7. AllIsTold'
  BY <1>1 DEF TypeOK, AllIsTold, ToldSoFar, ReadersAreOwned, ProcessIsOwned, LayersAgree
<1>8. QED
  BY <1>2, <1>3, <1>4, <1>5, <1>6, <1>7

\* The exit is told, or kept back by the wrapper.
LEMMA StepComplete == IInv /\ Complete => IInv'
<1> SUFFICES ASSUME IInv, Complete PROVE IInv'
  OBVIOUS
<1> USE StreamAssumption DEF IInv, Complete, procVars, pumpVars, userVars
<1>1. /\ held' \in BOOLEAN /\ left' \in BOOLEAN /\ seen' \in Seq(Stream!Event) /\ Got' = Got
      /\ \/ Wrapped /\ cfg.review /\ held' /\ UNCHANGED <<seen, left>> /\ SeenKinds' = SeenKinds
         \/ /\ ~(Wrapped /\ cfg.review) /\ held' = held /\ ~left'
            /\ SeenKinds' = SeenKinds \cup {"completed"}
  BY ExitTold
<1>2. TypeOK'
  BY <1>1 DEF TypeOK
<1>3. LayersAgree' /\ RuntimesDiffer' /\ CopyIsOwned'
  BY <1>1 DEF TypeOK, LayersAgree, RuntimesDiffer, CopyIsOwned, ToldSoFar, Wrapped, Isolated, Keeps, Configs
<1>4. ProcessIsOwned' /\ ReadersAreOwned'
  BY <1>1 DEF TypeOK, RuntimesDiffer, ProcessIsOwned, ReadersAreOwned, ToldSoFar, LayersAgree, Wrapped
<1>5. ToldSoFar' /\ AuditFollows'
  BY <1>1 DEF TypeOK, LayersAgree, RuntimesDiffer, CopyIsOwned, ToldSoFar, AuditFollows, Wrapped, Isolated, Keeps, Configs
<1>6. PumpInOrder' /\ ChannelInOrder'
  BY <1>1, PumpStays DEF TypeOK, ProcessIsOwned
<1>7. AllIsTold'
  BY <1>1 DEF TypeOK, AllIsTold, ToldSoFar, ReadersAreOwned, ProcessIsOwned, LayersAgree
<1>8. QED
  BY <1>2, <1>3, <1>4, <1>5, <1>6, <1>7

\* docker removes the container and drops or keeps its copy.
LEMMA StepUnwind == IInv /\ Unwind => IInv'
<1> SUFFICES ASSUME IInv, Unwind PROVE IInv'
  OBVIOUS
<1> USE StreamAssumption DEF IInv, Unwind, procVars, pumpVars, userVars
<1>1. SeenKinds' = SeenKinds /\ Got' = Got /\ UNCHANGED <<seen, left, held>>
  BY SeenStays
<1>2. open' \in BOOLEAN /\ (open' => open)
  BY DEF TypeOK, ProcessIsOwned
<1>3. TypeOK'
  BY <1>1, <1>2, CopyRemains DEF TypeOK
<1>4. LayersAgree' /\ RuntimesDiffer' /\ CopyIsOwned'
  BY <1>1, <1>2, CopyRemains DEF TypeOK, LayersAgree, RuntimesDiffer, CopyIsOwned, ToldSoFar, Wrapped, Isolated, Keeps, Configs
<1>5. ProcessIsOwned' /\ ReadersAreOwned'
  BY <1>1, <1>2 DEF TypeOK, RuntimesDiffer, ProcessIsOwned, ReadersAreOwned, ToldSoFar, LayersAgree, Wrapped
<1>6. ToldSoFar' /\ AuditFollows'
  BY <1>1, <1>2, CopyRemains DEF TypeOK, LayersAgree, RuntimesDiffer, CopyIsOwned, ToldSoFar, AuditFollows, Wrapped, Isolated, Keeps, Configs
<1>7. PumpInOrder' /\ ChannelInOrder'
  BY <1>1, <1>2, PumpStays DEF TypeOK, ProcessIsOwned
<1>8. AllIsTold'
  BY <1>1, <1>2 DEF TypeOK, AllIsTold, ToldSoFar, ReadersAreOwned, ProcessIsOwned, LayersAgree
<1>9. QED
  BY <1>3, <1>4, <1>5, <1>6, <1>7, <1>8

\* A kill takes the process and perhaps its pipes.
LEMMA StepKillByContext == IInv /\ KillByContext => IInv'
<1> SUFFICES ASSUME IInv, KillByContext PROVE IInv'
  OBVIOUS
<1> USE StreamAssumption DEF IInv, KillByContext, procVars, pumpVars, userVars, PipesAfterExit
<1>1. SeenKinds' = SeenKinds /\ Got' = Got /\ UNCHANGED <<seen, left, held>>
  BY SeenStays
<1>2. open' \in BOOLEAN /\ (open' => open)
  BY DEF TypeOK, ProcessIsOwned
<1>3. TypeOK'
  BY <1>1, <1>2 DEF TypeOK
<1>4. LayersAgree' /\ RuntimesDiffer' /\ CopyIsOwned'
  BY <1>1, <1>2 DEF TypeOK, LayersAgree, RuntimesDiffer, CopyIsOwned, ToldSoFar, Wrapped, Isolated, Keeps, Configs
<1>5. ProcessIsOwned' /\ ReadersAreOwned'
  BY <1>1, <1>2 DEF TypeOK, RuntimesDiffer, ProcessIsOwned, ReadersAreOwned, ToldSoFar, LayersAgree, Wrapped
<1>6. ToldSoFar' /\ AuditFollows'
  BY <1>1, <1>2 DEF TypeOK, LayersAgree, RuntimesDiffer, CopyIsOwned, ToldSoFar, AuditFollows, Wrapped, Isolated, Keeps, Configs
<1>7. PumpInOrder' /\ ChannelInOrder'
  BY <1>1, <1>2, PumpStays DEF TypeOK, ProcessIsOwned
<1>8. AllIsTold'
  BY <1>1, <1>2 DEF TypeOK, AllIsTold, ToldSoFar, ReadersAreOwned, ProcessIsOwned, LayersAgree
<1>9. QED
  BY <1>3, <1>4, <1>5, <1>6, <1>7, <1>8

\* The process ends; a descendant may hold the pipes.
LEMMA StepExit == IInv /\ Exit => IInv'
<1> SUFFICES ASSUME IInv, Exit PROVE IInv'
  OBVIOUS
<1> USE StreamAssumption DEF IInv, Exit, procVars, pumpVars, userVars, PipesAfterExit
<1>1. SeenKinds' = SeenKinds /\ Got' = Got /\ UNCHANGED <<seen, left, held>>
  BY SeenStays
<1>2. open' \in BOOLEAN /\ (open' => open)
  BY DEF TypeOK, ProcessIsOwned
<1>3. TypeOK'
  BY <1>1, <1>2 DEF TypeOK
<1>4. LayersAgree' /\ RuntimesDiffer' /\ CopyIsOwned'
  BY <1>1, <1>2 DEF TypeOK, LayersAgree, RuntimesDiffer, CopyIsOwned, ToldSoFar, Wrapped, Isolated, Keeps, Configs
<1>5. ProcessIsOwned' /\ ReadersAreOwned'
  BY <1>1, <1>2 DEF TypeOK, RuntimesDiffer, ProcessIsOwned, ReadersAreOwned, ToldSoFar, LayersAgree, Wrapped
<1>6. ToldSoFar' /\ AuditFollows'
  BY <1>1, <1>2 DEF TypeOK, LayersAgree, RuntimesDiffer, CopyIsOwned, ToldSoFar, AuditFollows, Wrapped, Isolated, Keeps, Configs
<1>7. PumpInOrder' /\ ChannelInOrder'
  BY <1>1, <1>2, PumpStays DEF TypeOK, ProcessIsOwned
<1>8. AllIsTold'
  BY <1>1, <1>2 DEF TypeOK, AllIsTold, ToldSoFar, ReadersAreOwned, ProcessIsOwned, LayersAgree
<1>9. QED
  BY <1>3, <1>4, <1>5, <1>6, <1>7, <1>8

\* The pipes are let go of.
LEMMA StepDescendantExits == IInv /\ DescendantExits => IInv'
<1> SUFFICES ASSUME IInv, DescendantExits PROVE IInv'
  OBVIOUS
<1> USE StreamAssumption DEF IInv, DescendantExits, procVars, pumpVars, userVars
<1>1. SeenKinds' = SeenKinds /\ Got' = Got /\ UNCHANGED <<seen, left, held>>
  BY SeenStays
<1>2. open' \in BOOLEAN /\ (open' => open)
  BY DEF TypeOK, ProcessIsOwned
<1>3. TypeOK'
  BY <1>1, <1>2 DEF TypeOK
<1>4. LayersAgree' /\ RuntimesDiffer' /\ CopyIsOwned'
  BY <1>1, <1>2 DEF TypeOK, LayersAgree, RuntimesDiffer, CopyIsOwned, ToldSoFar, Wrapped, Isolated, Keeps, Configs
<1>5. ProcessIsOwned' /\ ReadersAreOwned'
  BY <1>1, <1>2 DEF TypeOK, RuntimesDiffer, ProcessIsOwned, ReadersAreOwned, ToldSoFar, LayersAgree, Wrapped
<1>6. ToldSoFar' /\ AuditFollows'
  BY <1>1, <1>2 DEF TypeOK, LayersAgree, RuntimesDiffer, CopyIsOwned, ToldSoFar, AuditFollows, Wrapped, Isolated, Keeps, Configs
<1>7. PumpInOrder' /\ ChannelInOrder'
  BY <1>1, <1>2, PumpStays DEF TypeOK, ProcessIsOwned
<1>8. AllIsTold'
  BY <1>1, <1>2 DEF TypeOK, AllIsTold, ToldSoFar, ReadersAreOwned, ProcessIsOwned, LayersAgree
<1>9. QED
  BY <1>3, <1>4, <1>5, <1>6, <1>7, <1>8

\* The context is done; nothing else changes.
LEMMA StepCancel == IInv /\ Cancel => IInv'
<1> SUFFICES ASSUME IInv, Cancel PROVE IInv'
  OBVIOUS
<1> USE StreamAssumption DEF IInv, Cancel, procVars, pumpVars, userVars
<1>1. SeenKinds' = SeenKinds /\ Got' = Got /\ UNCHANGED <<seen, left, held>>
  BY SeenStays
<1>2. TypeOK'
  BY <1>1 DEF TypeOK
<1>3. LayersAgree' /\ RuntimesDiffer' /\ CopyIsOwned'
  BY <1>1 DEF TypeOK, LayersAgree, RuntimesDiffer, CopyIsOwned, ToldSoFar, Wrapped, Isolated, Keeps, Configs
<1>4. ProcessIsOwned' /\ ReadersAreOwned'
  BY <1>1 DEF TypeOK, RuntimesDiffer, ProcessIsOwned, ReadersAreOwned, ToldSoFar, LayersAgree, Wrapped
<1>5. ToldSoFar' /\ AuditFollows'
  BY <1>1 DEF TypeOK, LayersAgree, RuntimesDiffer, CopyIsOwned, ToldSoFar, AuditFollows, Wrapped, Isolated, Keeps, Configs
<1>6. PumpInOrder' /\ ChannelInOrder'
  BY <1>1, PumpStays DEF TypeOK, ProcessIsOwned
<1>7. AllIsTold'
  BY <1>1 DEF TypeOK, AllIsTold, ToldSoFar, ReadersAreOwned, ProcessIsOwned, LayersAgree
<1>8. QED
  BY <1>2, <1>3, <1>4, <1>5, <1>6, <1>7

\* The review is over: nothing was told meanwhile.
LEMMA StepAnswer == IInv /\ Answer => IInv'
<1> SUFFICES ASSUME IInv, Answer PROVE IInv'
  OBVIOUS
<1> USE StreamAssumption DEF IInv, Answer, procVars, pumpVars, userVars
<1>1. SeenKinds' = SeenKinds /\ Got' = Got /\ UNCHANGED <<seen, left, held>>
  BY SeenStays
<1>2. TypeOK'
  BY <1>1 DEF TypeOK
<1>3. LayersAgree' /\ RuntimesDiffer' /\ CopyIsOwned'
  BY <1>1 DEF TypeOK, LayersAgree, RuntimesDiffer, CopyIsOwned, ToldSoFar, Wrapped, Isolated, Keeps, Configs
<1>4. ProcessIsOwned' /\ ReadersAreOwned'
  BY <1>1 DEF TypeOK, RuntimesDiffer, ProcessIsOwned, ReadersAreOwned, ToldSoFar, LayersAgree, Wrapped
<1>5. ToldSoFar' /\ AuditFollows'
  BY <1>1 DEF TypeOK, LayersAgree, RuntimesDiffer, CopyIsOwned, ToldSoFar, AuditFollows, Wrapped, Isolated, Keeps, Configs
<1>6. PumpInOrder' /\ ChannelInOrder'
  BY <1>1, PumpStays DEF TypeOK, ProcessIsOwned
<1>7. AllIsTold'
  BY <1>1 DEF TypeOK, AllIsTold, ToldSoFar, ReadersAreOwned, ProcessIsOwned, LayersAgree
<1>8. QED
  BY <1>2, <1>3, <1>4, <1>5, <1>6, <1>7

\* What is in the attached connection is lost, without a word.
LEMMA StepCut == IInv /\ Cut => IInv'
<1> SUFFICES ASSUME IInv, Cut PROVE IInv'
  OBVIOUS
<1> USE StreamAssumption DEF IInv, Cut, userVars, procVars
<1>1. SeenKinds' = SeenKinds /\ Got' = Got /\ ChanKinds' = ChanKinds /\ InChan' = InChan
  BY SeenStays, ChannelStays
<1>2. \A r \in Streams : Passed(r)' = Passed(r)
  BY <1>1 DEF Passed
<1>3. cut' /\ cut' \in BOOLEAN
  OBVIOUS
<1>4. TypeOK'
  BY <1>3 DEF TypeOK
<1>5. LayersAgree' /\ RuntimesDiffer' /\ CopyIsOwned' /\ ToldSoFar' /\ AuditFollows'
  BY <1>1 DEF TypeOK, LayersAgree, RuntimesDiffer, CopyIsOwned, ToldSoFar, AuditFollows, Wrapped, Isolated, Keeps, Configs
<1>6. ProcessIsOwned' /\ ReadersAreOwned'
  BY DEF TypeOK, ProcessIsOwned, ReadersAreOwned
<1>7. PumpInOrder'
  BY <1>1, <1>2, <1>3 DEF PumpInOrder
<1>8. ChannelInOrder'
  BY <1>1 DEF ChannelInOrder, Chunk
<1>9. AllIsTold'
  BY <1>1, <1>3 DEF AllIsTold
<1>10. QED
  BY <1>4, <1>5, <1>6, <1>7, <1>8, <1>9

\* A chunk goes to the end of the pipe.
LEMMA StepWrite == ASSUME IInv, NEW s \in Streams, Write(s) PROVE IInv'
<1> USE StreamAssumption DEF IInv, Write, userVars
<1>1. SeenKinds' = SeenKinds /\ Got' = Got /\ ChanKinds' = ChanKinds /\ InChan' = InChan
  BY SeenStays, ChannelStays
<1>2. written[s] + 1 \in 1..MaxChunk /\ written[s] \in Nat /\ MaxChunk \in Nat
  <2>1. written[s] \in 0..MaxChunk /\ Chunks[s] \in 0..MaxChunk /\ MaxChunk \in Nat /\ written[s] < Chunks[s]
    BY DEF TypeOK
  <2>2. QED
    BY <2>1
<1>3. \A r \in Streams : Passed(r)' = Passed(r)
  BY <1>1 DEF Passed
<1>4. TypeOK'
  <2>1. pipe' \in [Streams -> Seq(1..MaxChunk)]
    <3>1. CASE cut
      BY <3>1 DEF TypeOK
    <3>2. CASE ~cut
      <4>1. pipe[s] \in Seq(1..MaxChunk) /\ pipe \in [Streams -> Seq(1..MaxChunk)]
        BY DEF TypeOK
      <4>2. Append(pipe[s], written[s] + 1) \in Seq(1..MaxChunk)
        BY <1>2, <4>1
      <4>3. pipe' = [pipe EXCEPT ![s] = Append(@, written[s] + 1)]
        BY <3>2
      <4> HIDE DEF IInv, Write
      <4>4. QED
        BY <4>1, <4>2, <4>3
    <3>3. QED
      BY <3>1, <3>2
  <2>2. written' \in [Streams -> 0..MaxChunk]
    BY <1>2 DEF TypeOK
  <2>3. QED
    BY <2>1, <2>2 DEF TypeOK
<1>5. LayersAgree' /\ RuntimesDiffer' /\ CopyIsOwned' /\ ToldSoFar' /\ AuditFollows'
  BY <1>1 DEF TypeOK, LayersAgree, RuntimesDiffer, CopyIsOwned, ToldSoFar, AuditFollows, Wrapped, Isolated, Keeps, Configs
<1>6. ~waited /\ child # "none" /\ (~cut => reader[s] # "done")
  BY DEF ReadersAreOwned, ProcessIsOwned
<1>7. ProcessIsOwned' /\ ReadersAreOwned'
  BY <1>6 DEF TypeOK, ProcessIsOwned, ReadersAreOwned
<1>8. PumpInOrder'
  <2>1. CASE cut
    <3>1. 1..written[s] \subseteq 1..written'[s] /\ \A r \in Streams : r # s => written'[r] = written[r]
      BY <1>2 DEF TypeOK
    <3>2. UNCHANGED <<pipe, reader, holds, cut>>
      BY <2>1
    <3>3. QED
      BY <1>1, <1>3, <2>1, <3>1, <3>2 DEF PumpInOrder
  <2>2. CASE ~cut
    <3> SUFFICES ASSUME NEW r \in Streams
                 PROVE  /\ Passed(r) \subseteq 1..written'[r]
                        /\ reader[r] = "sending" => holds[r] \in 1..written'[r] /\ Passed(r) = 1..(holds[r] - 1)
                        /\ reader[r] # "done" =>
                              /\ Len(pipe'[r]) <= written'[r]
                              /\ \A i \in DOMAIN pipe'[r] : pipe'[r][i] = written'[r] - Len(pipe'[r]) + i
                              /\ reader[r] = "sending" => holds[r] = written'[r] - Len(pipe'[r])
                              /\ reader[r] # "sending" => Passed(r) = 1..(written'[r] - Len(pipe'[r]))
                        /\ reader[r] = "done" =>
                              pipe'[r] = <<>> /\ "lost" \in SeenKinds \cup ChanKinds
      BY <1>1, <1>3, <1>6, <2>2 DEF PumpInOrder
    <3>1. CASE r # s
      <4>1. /\ pipe'[r] = pipe[r] /\ written'[r] = written[r]
            /\ holds' = holds /\ reader' = reader /\ open /\ open' = open /\ waited' = waited
        BY <2>2, <3>1 DEF TypeOK
      <4> HIDE DEF Write
      <4>2. QED
        BY <1>6, <2>2, <4>1 DEF PumpInOrder
    <3>2. CASE r = s
      <4>1. written'[s] = written[s] + 1 /\ pipe'[s] = Append(pipe[s], written[s] + 1) /\ pipe[s] \in Seq(1..MaxChunk)
        BY <2>2 DEF TypeOK
      <4>2. /\ Len(pipe'[s]) = Len(pipe[s]) + 1 /\ Len(pipe[s]) \in Nat /\ DOMAIN pipe'[s] = 1..(Len(pipe[s]) + 1)
            /\ DOMAIN pipe[s] = 1..Len(pipe[s])
            /\ pipe'[s][Len(pipe[s]) + 1] = written[s] + 1
            /\ \A i \in 1..Len(pipe[s]) : pipe'[s][i] = pipe[s][i]
        BY <4>1, <1>2
      <4>3. Len(pipe[s]) <= written[s] /\ \A i \in DOMAIN pipe[s] : pipe[s][i] = written[s] - Len(pipe[s]) + i
        BY <1>6, <2>2 DEF PumpInOrder
      <4>4. ASSUME NEW i \in 1..(Len(pipe[s]) + 1)
            PROVE  pipe'[s][i] = (written[s] + 1) - (Len(pipe[s]) + 1) + i
        <5>1. CASE i = Len(pipe[s]) + 1
          BY <1>2, <4>2, <5>1
        <5>2. CASE i \in 1..Len(pipe[s])
          <6>1. pipe'[s][i] = pipe[s][i] /\ pipe[s][i] = written[s] - Len(pipe[s]) + i
            BY <4>2, <4>3, <5>2
          <6>2. QED
            BY <1>2, <4>2, <6>1
        <5>3. QED
          BY <4>2, <5>1, <5>2
      <4>5. written'[s] - Len(pipe'[s]) = written[s] - Len(pipe[s])
        <5> HIDE DEF Write, IInv
        <5>1. QED
          BY <1>2, <4>1, <4>2
      <4>6. /\ Passed(s) \subseteq 1..written[s]
            /\ reader[s] = "sending" => holds[s] \in 1..written[s] /\ Passed(s) = 1..(holds[s] - 1)
            /\ reader[s] = "sending" => holds[s] = written[s] - Len(pipe[s])
            /\ reader[s] # "sending" => Passed(s) = 1..(written[s] - Len(pipe[s]))
        BY <1>6, <2>2 DEF PumpInOrder
      <4>7. 1..written[s] \subseteq 1..written'[s]
        BY <1>2, <4>1
      <4>8. Passed(s) \subseteq 1..written'[s] /\ Len(pipe'[s]) <= written'[s]
        BY <1>2, <4>1, <4>2, <4>3, <4>6, <4>7
      <4>9. reader[s] = "sending" => holds[s] \in 1..written'[s] /\ holds[s] = written'[s] - Len(pipe'[s])
        BY <4>5, <4>6, <4>7
      <4>10. \A i \in DOMAIN pipe'[s] : pipe'[s][i] = written'[s] - Len(pipe'[s]) + i
        BY <4>1, <4>2, <4>4
      <4>11. QED
        BY <1>6, <2>2, <3>2, <4>5, <4>6, <4>8, <4>9, <4>10
    <3>3. QED
      BY <3>1, <3>2
  <2>3. QED
    BY <2>1, <2>2
<1>9. ChannelInOrder'
  BY <1>1 DEF ChannelInOrder, Chunk
<1>10. AllIsTold'
  BY <1>1 DEF AllIsTold
<1>11. QED
  BY <1>4, <1>5, <1>7, <1>8, <1>9, <1>10

\* The reader holds the chunk that comes next.
LEMMA StepReadChunk == ASSUME IInv, NEW s \in Streams, ReadChunk(s) PROVE IInv'
<1> USE StreamAssumption DEF IInv
<1>1. SeenKinds' = SeenKinds /\ Got' = Got /\ ChanKinds' = ChanKinds /\ InChan' = InChan
  BY SeenStays, ChannelStays DEF ReadChunk, userVars
<1>2. \A r \in Streams : Passed(r)' = Passed(r)
  BY <1>1 DEF Passed
<1>3. ~waited /\ ~cut /\ cfg.kind # "none" /\ rt # "warn" /\ rt \notin {"wait", "show", "exit", "unwind", "ended"} /\ child # "none"
  BY DEF ReadersAreOwned, ProcessIsOwned, ReadChunk
<1> DEFINE p == pipe[s]
           t == Tail(p)
<1>4. /\ Head(p) = p[1] /\ Head(p) \in 1..MaxChunk /\ t \in Seq(1..MaxChunk)
      /\ Len(p) \in Nat /\ Len(p) >= 1 /\ Len(t) = Len(p) - 1
      /\ DOMAIN p = 1..Len(p) /\ DOMAIN t = 1..Len(t)
      /\ \A i \in 1..Len(t) : t[i] = p[i + 1]
  BY OneLess DEF TypeOK, ReadChunk
<1>5. TypeOK'
  BY <1>4 DEF TypeOK, ReadChunk, userVars, procVars
<1>6. LayersAgree' /\ RuntimesDiffer' /\ CopyIsOwned' /\ ToldSoFar' /\ AuditFollows'
  BY <1>1 DEF TypeOK, LayersAgree, RuntimesDiffer, CopyIsOwned, ToldSoFar, AuditFollows, Wrapped, Isolated, Keeps, Configs, ReadChunk, userVars
<1>7. ProcessIsOwned' /\ ReadersAreOwned'
  BY <1>3 DEF TypeOK, ProcessIsOwned, ReadersAreOwned, ReadChunk, procVars
<1>8. PumpInOrder'
  <2> SUFFICES ASSUME NEW r \in Streams
               PROVE  /\ Passed(r) \subseteq 1..written[r]
                      /\ reader'[r] = "sending" => holds'[r] \in 1..written[r] /\ Passed(r) = 1..(holds'[r] - 1)
                      /\ reader'[r] # "done" =>
                            /\ Len(pipe'[r]) <= written[r]
                            /\ \A i \in DOMAIN pipe'[r] : pipe'[r][i] = written[r] - Len(pipe'[r]) + i
                            /\ reader'[r] = "sending" => holds'[r] = written[r] - Len(pipe'[r])
                            /\ reader'[r] # "sending" => Passed(r) = 1..(written[r] - Len(pipe'[r]))
                      /\ reader'[r] = "done" =>
                            /\ pipe'[r] = <<>>
                            /\ cut \/ "lost" \in SeenKinds \cup ChanKinds \/ (~open /\ Passed(r) = 1..written[r])
    BY <1>1, <1>2, <1>3 DEF PumpInOrder, ReadChunk, procVars
  <2>1. CASE r # s
    <3>1. pipe'[r] = pipe[r] /\ holds'[r] = holds[r] /\ reader'[r] = reader[r]
      BY <2>1 DEF TypeOK, ReadChunk
    <3>2. /\ Passed(r) \subseteq 1..written[r]
          /\ reader[r] = "sending" => holds[r] \in 1..written[r] /\ Passed(r) = 1..(holds[r] - 1)
          /\ ~waited /\ ~cut /\ reader[r] # "done" =>
                /\ Len(pipe[r]) <= written[r]
                /\ \A i \in DOMAIN pipe[r] : pipe[r][i] = written[r] - Len(pipe[r]) + i
                /\ reader[r] = "sending" => holds[r] = written[r] - Len(pipe[r])
                /\ reader[r] # "sending" => Passed(r) = 1..(written[r] - Len(pipe[r]))
          /\ reader[r] = "done" =>
                /\ pipe[r] = <<>>
                /\ cut \/ "lost" \in SeenKinds \cup ChanKinds \/ (~open /\ Passed(r) = 1..written[r])
      BY DEF PumpInOrder
    <3>3. QED
      BY <1>3, <3>1, <3>2
  <2>2. CASE r = s
    <3>1. pipe'[s] = t /\ holds'[s] = Head(p) /\ reader'[s] = "sending" /\ written[s] \in Nat
      BY DEF TypeOK, ReadChunk
    <3>2. /\ Passed(s) \subseteq 1..written[s] /\ Len(p) <= written[s]
          /\ \A i \in DOMAIN p : p[i] = written[s] - Len(p) + i
          /\ Passed(s) = 1..(written[s] - Len(p))
      BY <1>3 DEF PumpInOrder, ReadChunk
    <3> HIDE DEF p, t
    <3>3. Head(p) = written[s] - Len(p) + 1 /\ Head(p) = written[s] - Len(t)
      <4>1. 1 \in DOMAIN p
        BY <1>4
      <4>2. p[1] = written[s] - Len(p) + 1
        BY <3>2, <4>1
      <4>3. Head(p) = written[s] - Len(p) + 1
        BY <1>4, <4>2
      <4>4. written[s] - (Len(p) - 1) = written[s] - Len(p) + 1
        BY <1>4, <3>1
      <4>5. QED
        BY <1>4, <4>3, <4>4
    <3>4. ASSUME NEW i \in DOMAIN t PROVE t[i] = written[s] - Len(t) + i
      <4>1. i + 1 \in DOMAIN p /\ t[i] = p[i + 1] /\ i \in Nat
        BY <1>4
      <4>2. p[i + 1] = written[s] - Len(p) + (i + 1)
        BY <3>2, <4>1
      <4>3. written[s] - Len(p) + (i + 1) = written[s] - (Len(p) - 1) + i
        <5>1. written[s] \in Nat /\ Len(p) \in Nat /\ i \in Nat
          BY <1>4, <3>1, <4>1
        <5>2. QED
          BY <5>1
      <4>4. QED
        BY <1>4, <4>1, <4>2, <4>3
    <3>5. Head(p) \in 1..written[s] /\ Head(p) - 1 = written[s] - Len(p) /\ Len(t) <= written[s]
      BY <1>4, <3>1, <3>2, <3>3
    <3>6. QED
      BY <2>2, <3>1, <3>2, <3>3, <3>4, <3>5
  <2>3. QED
    BY <2>1, <2>2
<1>9. ChannelInOrder'
  BY <1>1 DEF ChannelInOrder, Chunk, ReadChunk
<1>10. AllIsTold'
  BY <1>1 DEF AllIsTold, ReadChunk, userVars, procVars
<1>11. QED
  BY <1>5, <1>6, <1>7, <1>8, <1>9, <1>10

\* The chunk goes behind all earlier ones of its stream.
LEMMA StepSendChunk == ASSUME IInv, NEW s \in Streams, SendChunk(s) PROVE IInv'
<1> USE StreamAssumption DEF IInv, SendChunk, userVars, procVars
<1>1. SeenKinds' = SeenKinds /\ Got' = Got
  BY SeenStays
<1>2. holds[s] \in 1..written[s] /\ holds[s] \in 1..MaxChunk /\ Passed(s) = 1..(holds[s] - 1) /\ written[s] \in Nat
  BY DEF PumpInOrder, TypeOK
<1> DEFINE e == Chunk(s, holds[s])
<1>3. e \in Stream!Event /\ e.kind = "output" /\ e.stream = s /\ e.n = holds[s]
  BY <1>2, EventTypes
<1>4. /\ chan' \in Seq(Stream!Event) /\ ChanKinds' = ChanKinds \cup {"output"}
      /\ InChan' = [r \in Streams |-> IF s = r THEN InChan[r] \cup {holds[s]} ELSE InChan[r]]
  BY <1>3, ChannelGrows
<1>5. /\ \A r \in Streams : r # s => Passed(r)' = Passed(r)
      /\ Passed(s)' = Passed(s) \cup {holds[s]}
  BY <1>1, <1>4 DEF Passed
<1>6. /\ DOMAIN chan = 1..Len(chan) /\ Len(chan) \in Nat
      /\ DOMAIN chan' = 1..(Len(chan) + 1) /\ chan'[Len(chan) + 1] = e
      /\ \A i \in 1..Len(chan) : chan'[i] = chan[i]
  BY <1>3 DEF TypeOK
<1>7. rt = "stream" /\ child # "none"
  BY DEF ReadersAreOwned, ProcessIsOwned, TypeOK
<1>8. TypeOK'
  BY <1>4 DEF TypeOK
<1>9. LayersAgree' /\ RuntimesDiffer' /\ CopyIsOwned' /\ ToldSoFar' /\ AuditFollows'
  BY <1>1 DEF TypeOK, LayersAgree, RuntimesDiffer, CopyIsOwned, ToldSoFar, AuditFollows, Wrapped, Isolated, Keeps, Configs
<1>10. ProcessIsOwned'
  BY <1>7 DEF TypeOK, ProcessIsOwned
<1>11. ReadersAreOwned'
  <2>1. \A i \in DOMAIN chan' : chan'[i].kind \in {"output", "lost"}
    BY <1>3, <1>6 DEF ReadersAreOwned
  <2>2. QED
    BY <1>7, <2>1 DEF TypeOK, ReadersAreOwned, RuntimesDiffer
<1>12. PumpInOrder'
  <2> SUFFICES ASSUME NEW r \in Streams
               PROVE  /\ Passed(r)' \subseteq 1..written[r]
                      /\ reader'[r] = "sending" => holds[r] \in 1..written[r] /\ Passed(r)' = 1..(holds[r] - 1)
                      /\ ~waited /\ ~cut /\ reader'[r] # "done" =>
                            /\ Len(pipe[r]) <= written[r]
                            /\ \A i \in DOMAIN pipe[r] : pipe[r][i] = written[r] - Len(pipe[r]) + i
                            /\ reader'[r] = "sending" => holds[r] = written[r] - Len(pipe[r])
                            /\ reader'[r] # "sending" => Passed(r)' = 1..(written[r] - Len(pipe[r]))
                      /\ reader'[r] = "done" =>
                            /\ pipe[r] = <<>>
                            /\ cut \/ "lost" \in SeenKinds \cup ChanKinds' \/ (~open /\ Passed(r)' = 1..written[r])
    BY <1>1 DEF PumpInOrder
  <2>1. CASE r # s
    <3>1. reader'[r] = reader[r] /\ Passed(r)' = Passed(r) /\ ChanKinds \subseteq ChanKinds'
      BY <2>1, <1>4, <1>5 DEF TypeOK
    <3>2. /\ Passed(r) \subseteq 1..written[r]
          /\ reader[r] = "sending" => holds[r] \in 1..written[r] /\ Passed(r) = 1..(holds[r] - 1)
          /\ ~waited /\ ~cut /\ reader[r] # "done" =>
                /\ Len(pipe[r]) <= written[r]
                /\ \A i \in DOMAIN pipe[r] : pipe[r][i] = written[r] - Len(pipe[r]) + i
                /\ reader[r] = "sending" => holds[r] = written[r] - Len(pipe[r])
                /\ reader[r] # "sending" => Passed(r) = 1..(written[r] - Len(pipe[r]))
          /\ reader[r] = "done" =>
                /\ pipe[r] = <<>>
                /\ cut \/ "lost" \in SeenKinds \cup ChanKinds \/ (~open /\ Passed(r) = 1..written[r])
      BY DEF PumpInOrder
    <3>3. QED
      BY <3>1, <3>2
  <2>2. CASE r = s
    <3>1. Passed(s)' = 1..holds[s] /\ reader'[s] = "reading"
      BY <1>2, <1>5 DEF TypeOK
    <3>2. ~waited /\ ~cut => /\ Len(pipe[s]) <= written[s] /\ holds[s] = written[s] - Len(pipe[s])
                     /\ \A i \in DOMAIN pipe[s] : pipe[s][i] = written[s] - Len(pipe[s]) + i
      BY DEF PumpInOrder
    <3>3. Passed(s)' \subseteq 1..written[s]
      BY <1>2, <3>1
    <3>4. QED
      BY <2>2, <3>1, <3>2, <3>3
  <2>3. QED
    BY <2>1, <2>2
<1>13. ChannelInOrder'
  <2>1. \A r \in Streams : \A n \in Got'[r] : 1..n \subseteq Got'[r]
    BY <1>1 DEF ChannelInOrder
  <2>2. holds[s] \notin Got[s] /\ holds[s] \notin InChan[s]
    BY <1>2 DEF Passed
  <2>3. \A i \in DOMAIN chan : chan[i] # e
    BY <1>2, <2>2 DEF InChan
  <2>4. ASSUME NEW m \in 1..(holds[s] - 1)
        PROVE  m \in Got[s] \/ \E j \in 1..Len(chan) : chan[j] = Chunk(s, m)
    BY <1>2, <1>6 DEF Passed, InChan
  <2>5. ASSUME NEW i \in DOMAIN chan', chan'[i].kind = "output"
        PROVE  /\ chan'[i].n \notin Got[chan'[i].stream]
               /\ \A m \in 1..(chan'[i].n - 1) : m \in Got[chan'[i].stream]
                     \/ \E j \in 1..(i - 1) : chan'[j] = Chunk(chan'[i].stream, m)
               /\ \A j \in DOMAIN chan' : chan'[j] = chan'[i] => j = i
    <3>1. CASE i = Len(chan) + 1
      <4>1. chan'[i] = e /\ chan'[i].n = holds[s] /\ chan'[i].stream = s
        BY <1>3, <1>6, <3>1
      <4>2. \A m \in 1..(holds[s] - 1) : m \in Got[s] \/ \E j \in 1..(i - 1) : chan'[j] = Chunk(s, m)
        BY <1>6, <2>4, <3>1
      <4>3. \A j \in DOMAIN chan' : chan'[j] = e => j = i
        BY <1>6, <2>3, <3>1
      <4>4. QED
        BY <2>2, <4>1, <4>2, <4>3
    <3>2. CASE i \in 1..Len(chan)
      <4>1. chan'[i] = chan[i] /\ chan[i] # e /\ i \in DOMAIN chan
        BY <1>6, <2>3, <3>2
      <4>2. /\ chan[i].n \notin Got[chan[i].stream]
            /\ \A m \in 1..(chan[i].n - 1) : m \in Got[chan[i].stream]
                     \/ \E j \in 1..(i - 1) : chan[j] = Chunk(chan[i].stream, m)
            /\ \A j \in DOMAIN chan : chan[j] = chan[i] => j = i
        BY <2>5, <4>1 DEF ChannelInOrder
      <4>3. \A j \in 1..(i - 1) : chan'[j] = chan[j]
        BY <1>6, <3>2
      <4>4. \A j \in DOMAIN chan' : chan'[j] = chan[i] => j = i
        BY <1>6, <4>1, <4>2
      <4>5. QED
        BY <4>1, <4>2, <4>3, <4>4
    <3>3. QED
      BY <1>6, <3>1, <3>2
  <2>6. QED
    BY <1>1, <2>1, <2>5 DEF ChannelInOrder, Chunk
<1>14. AllIsTold'
  BY <1>1 DEF AllIsTold
<1>15. QED
  BY <1>8, <1>9, <1>10, <1>11, <1>12, <1>13, <1>14

\* A reader that meets the end has passed on everything.
LEMMA StepReadEnd == ASSUME IInv, NEW s \in Streams, ReadEnd(s) PROVE IInv'
<1> USE StreamAssumption DEF IInv, ReadEnd, userVars, procVars
<1>1. SeenKinds' = SeenKinds /\ Got' = Got /\ ChanKinds' = ChanKinds /\ InChan' = InChan
  BY SeenStays, ChannelStays
<1>2. \A r \in Streams : Passed(r)' = Passed(r)
  BY <1>1 DEF Passed
<1>3. cfg.kind # "none" /\ rt # "warn" /\ child # "none"
  BY DEF ReadersAreOwned, ProcessIsOwned
<1>4. TypeOK'
  BY DEF TypeOK
<1>5. LayersAgree' /\ RuntimesDiffer' /\ CopyIsOwned' /\ ToldSoFar' /\ AuditFollows'
  BY <1>1 DEF TypeOK, LayersAgree, RuntimesDiffer, CopyIsOwned, ToldSoFar, AuditFollows, Wrapped, Isolated, Keeps, Configs
<1>6. ProcessIsOwned' /\ ReadersAreOwned'
  BY <1>3 DEF TypeOK, ProcessIsOwned, ReadersAreOwned
<1>7. cut \/ Passed(s) = 1..written[s]
  <2> SUFFICES ASSUME ~cut PROVE Passed(s) = 1..written[s]
    OBVIOUS
  <2>0. reader[s] = "reading" /\ pipe[s] = <<>> /\ ~waited /\ written[s] \in Nat
    BY DEF TypeOK
  <2>1. Passed(s) = 1..(written[s] - Len(pipe[s])) /\ Len(pipe[s]) = 0 /\ written[s] \in Nat
    <3>1. PumpInOrder
      OBVIOUS
    <3> HIDE DEF IInv, ReadEnd
    <3>2. QED
      BY <2>0, <3>1 DEF PumpInOrder
  <2>2. QED
    BY <2>1
<1>8. PumpInOrder'
  BY <1>1, <1>2, <1>7 DEF PumpInOrder, TypeOK
<1>9. ChannelInOrder'
  BY <1>1 DEF ChannelInOrder, Chunk
<1>10. AllIsTold'
  BY <1>1 DEF AllIsTold
<1>11. QED
  BY <1>4, <1>5, <1>6, <1>8, <1>9, <1>10

\* A reader that gives up says so.
LEMMA StepReadFails == ASSUME IInv, NEW s \in Streams, ReadFails(s) PROVE IInv'
<1> USE StreamAssumption DEF IInv, ReadFails, userVars, procVars
<1>1. SeenKinds' = SeenKinds /\ Got' = Got
  BY SeenStays
<1>2. /\ chan' \in Seq(Stream!Event) /\ ChanKinds' = ChanKinds \cup {"lost"}
      /\ InChan' = [r \in Streams |-> InChan[r]]
  <2>1. Ev("lost") \in Stream!Event /\ Ev("lost").kind = "lost"
    BY EventTypes
  <2>2. QED
    BY <2>1, ChannelGrows DEF InChan
<1>3. \A r \in Streams : Passed(r)' = Passed(r)
  BY <1>1, <1>2 DEF Passed
<1>4. rt = "stream" /\ child # "none"
  BY DEF ReadersAreOwned, ProcessIsOwned, TypeOK
<1>5. /\ DOMAIN chan = 1..Len(chan) /\ Len(chan) \in Nat
      /\ DOMAIN chan' = 1..(Len(chan) + 1) /\ chan'[Len(chan) + 1].kind = "lost"
      /\ \A i \in 1..Len(chan) : chan'[i] = chan[i]
  BY EventTypes DEF TypeOK
<1>6. TypeOK'
  BY <1>2 DEF TypeOK
<1>7. LayersAgree' /\ RuntimesDiffer' /\ CopyIsOwned' /\ ToldSoFar' /\ AuditFollows'
  BY <1>1 DEF TypeOK, LayersAgree, RuntimesDiffer, CopyIsOwned, ToldSoFar, AuditFollows, Wrapped, Isolated, Keeps, Configs
<1>8. ProcessIsOwned'
  BY <1>4 DEF TypeOK, ProcessIsOwned
<1>9. ReadersAreOwned'
  <2>1. \A i \in DOMAIN chan' : chan'[i].kind \in {"output", "lost"}
    BY <1>5 DEF ReadersAreOwned
  <2>2. QED
    BY <1>4, <2>1 DEF TypeOK, ReadersAreOwned, RuntimesDiffer
<1>10. PumpInOrder'
  <2>1. "lost" \in ChanKinds' /\ ChanKinds \subseteq ChanKinds'
    BY <1>2
  <2>2. reader'[s] = "done" /\ pipe'[s] = <<>> /\ \A r \in Streams : r # s => reader'[r] = reader[r] /\ pipe'[r] = pipe[r]
    BY DEF TypeOK
  <2>3. QED
    BY <1>1, <1>3, <2>1, <2>2 DEF PumpInOrder
<1>11. ChannelInOrder'
  <2>1. \A r \in Streams : \A n \in Got'[r] : 1..n \subseteq Got'[r]
    BY <1>1 DEF ChannelInOrder
  <2>2. ASSUME NEW i \in DOMAIN chan', chan'[i].kind = "output"
        PROVE  /\ chan'[i].n \notin Got[chan'[i].stream]
               /\ \A m \in 1..(chan'[i].n - 1) : m \in Got[chan'[i].stream]
                     \/ \E j \in 1..(i - 1) : chan'[j] = Chunk(chan'[i].stream, m)
               /\ \A j \in DOMAIN chan' : chan'[j] = chan'[i] => j = i
    <3>1. i \in 1..Len(chan) /\ i \in DOMAIN chan /\ chan'[i] = chan[i]
      BY <1>5, <2>2
    <3>2. /\ chan[i].n \notin Got[chan[i].stream]
          /\ \A m \in 1..(chan[i].n - 1) : m \in Got[chan[i].stream]
                     \/ \E j \in 1..(i - 1) : chan[j] = Chunk(chan[i].stream, m)
          /\ \A j \in DOMAIN chan : chan[j] = chan[i] => j = i
      BY <2>2, <3>1 DEF ChannelInOrder
    <3>3. \A j \in 1..(i - 1) : chan'[j] = chan[j]
      BY <1>5, <3>1
    <3>4. \A j \in DOMAIN chan' : chan'[j] = chan[i] => j = i
      BY <1>5, <2>2, <3>1, <3>2
    <3>5. QED
      BY <3>1, <3>2, <3>3, <3>4
  <2>3. QED
    BY <1>1, <2>1, <2>2 DEF ChannelInOrder, Chunk
<1>12. AllIsTold'
  BY <1>1 DEF AllIsTold
<1>13. QED
  BY <1>6, <1>7, <1>8, <1>9, <1>10, <1>11, <1>12

\* What is in the pipes is lost, and the readers will find out.
LEMMA StepReap == IInv /\ Reap => IInv'
<1> SUFFICES ASSUME IInv, Reap PROVE IInv'
  OBVIOUS
<1> USE StreamAssumption DEF IInv, Reap, userVars, procVars
<1>1. SeenKinds' = SeenKinds /\ Got' = Got /\ ChanKinds' = ChanKinds /\ InChan' = InChan
  BY SeenStays, ChannelStays
<1>2. \A r \in Streams : Passed(r)' = Passed(r)
  BY <1>1 DEF Passed
<1>3. waited' /\ waited' \in BOOLEAN
  OBVIOUS
<1>4. TypeOK'
  BY <1>3 DEF TypeOK
<1>5. LayersAgree' /\ RuntimesDiffer' /\ CopyIsOwned' /\ ToldSoFar' /\ AuditFollows'
  BY <1>1 DEF TypeOK, LayersAgree, RuntimesDiffer, CopyIsOwned, ToldSoFar, AuditFollows, Wrapped, Isolated, Keeps, Configs
<1>6. ProcessIsOwned' /\ ReadersAreOwned'
  BY DEF TypeOK, ProcessIsOwned, ReadersAreOwned
<1>7. PumpInOrder'
  BY <1>1, <1>2, <1>3 DEF PumpInOrder
<1>8. ChannelInOrder'
  BY <1>1 DEF ChannelInOrder, Chunk
<1>9. AllIsTold'
  BY <1>1 DEF AllIsTold
<1>10. QED
  BY <1>4, <1>5, <1>6, <1>7, <1>8, <1>9


\* A chunk of the channel is the one its stream goes on with.
LEMMA HeadIsNext ==
    ASSUME IInv, chan # <<>>, NEW s \in Streams, NEW n \in 1..MaxChunk, Head(chan) = Chunk(s, n)
    PROVE  n \notin Got[s] /\ 1..(n - 1) \subseteq Got[s]
<1>1. Head(chan) = chan[1] /\ 1 \in DOMAIN chan
  BY OneLess DEF IInv, TypeOK
<1>2. chan[1].kind = "output" /\ chan[1].stream = s /\ chan[1].n = n
  BY <1>1, EventTypes
<1>3. /\ chan[1].n \notin Got[chan[1].stream]
      /\ \A m \in 1..(chan[1].n - 1) :
            m \in Got[chan[1].stream] \/ \E j \in 1..(1 - 1) : chan[j] = Chunk(chan[1].stream, m)
  BY <1>1, <1>2 DEF IInv, ChannelInOrder
<1>4. 1..(1 - 1) = {}
  OBVIOUS
<1>5. QED
  BY <1>2, <1>3, <1>4

\* What was first in the channel is told.
LEMMA StepReceive == IInv /\ Receive => IInv'
<1> SUFFICES ASSUME IInv, Receive PROVE IInv'
  OBVIOUS
<1> USE StreamAssumption DEF IInv
<1> DEFINE h == Head(chan)
<1>1. /\ rt = "stream" /\ chan # <<>> /\ chan' = Tail(chan)
      /\ UNCHANGED <<cfg, mgr, wr, iso, open, box, status, written, pipe, reader, holds, waited, cut, cancelled, audit>>
  BY DEF Receive
<1>2. /\ h = chan[1] /\ h \in Stream!Event /\ chan' \in Seq(Stream!Event)
      /\ Len(chan) \in Nat /\ Len(chan) >= 1 /\ Len(chan') = Len(chan) - 1
      /\ DOMAIN chan = 1..Len(chan) /\ DOMAIN chan' = 1..Len(chan')
      /\ \A i \in 1..Len(chan') : chan'[i] = chan[i + 1]
      /\ ChanKinds = ChanKinds' \cup {h.kind}
      /\ \A s \in Streams : InChan[s] = InChan'[s] \cup {n \in 1..MaxChunk : h = Chunk(s, n)}
  BY <1>1, ChannelShrinks
<1>3. 1 \in DOMAIN chan /\ h.kind \in {"output", "lost"}
  BY <1>2 DEF ReadersAreOwned
<1>4. /\ seen' \in Seq(Stream!Event) /\ left' \in BOOLEAN /\ ~left' /\ held' = held
      /\ SeenKinds' = SeenKinds \cup {h.kind}
      /\ \A s \in Streams : Got'[s] = Got[s] \cup {n \in 1..MaxChunk : h = Chunk(s, n)}
  <2>1. CASE h.kind = "lost"
    <3>1. h = Ev("lost") /\ \A s \in Streams, n \in 1..MaxChunk : h # Chunk(s, n)
      BY <1>2, <2>1, EventTypes
    <3>2. Yield(Ev("lost"))
      BY <3>1 DEF Receive
    <3>3. QED
      BY <2>1, <3>1, <3>2, Told
  <2>2. CASE h.kind = "output"
    <3> HIDE DEF IInv
    <3>1. PICK s \in Streams, n \in 1..MaxChunk : h = Chunk(s, n)
      <4>1. h.stream \in Streams /\ h.n \in 1..MaxChunk /\ h = Chunk(h.stream, h.n)
        BY <1>2, <2>2, EventTypes
      <4>2. QED
        BY <4>1
    <3> USE DEF IInv
    <3>2. Yield(Chunk(s, n))
      BY <3>1 DEF Receive
    <3>3. /\ seen' \in Seq(Stream!Event) /\ SeenKinds' = SeenKinds \cup {"output"}
          /\ Got' = [Got EXCEPT ![s] = @ \cup {n}] /\ ~left' /\ held' = held
      BY <3>2, ChunkTold
    <3>4. \A r \in Streams, m \in 1..MaxChunk : h = Chunk(r, m) <=> r = s /\ m = n
      BY <3>1, EventTypes
    <3>5. \A r \in Streams : Got'[r] = Got[r] \cup {m \in 1..MaxChunk : h = Chunk(r, m)}
      BY <3>3, <3>4 DEF Got
    <3>6. left' \in BOOLEAN
      BY <3>2 DEF Yield, Give, Leaves, TypeOK
    <3>7. QED
      BY <2>2, <3>3, <3>5, <3>6
  <2>3. QED
    BY <1>3, <2>1, <2>2
<1>5. rt' = "stream" /\ child' = child
  BY <1>4 DEF Receive, After
<1>6. \A r \in Streams : Passed(r)' = Passed(r)
  BY <1>2, <1>4 DEF Passed
<1>7. TypeOK'
  BY <1>1, <1>2, <1>4, <1>5 DEF TypeOK
<1>8. LayersAgree' /\ RuntimesDiffer' /\ CopyIsOwned'
  BY <1>1, <1>4, <1>5 DEF LayersAgree, RuntimesDiffer, CopyIsOwned, Wrapped, Isolated, Keeps
<1>9. ProcessIsOwned' /\ ReadersAreOwned'
  <2>1. \A i \in DOMAIN chan' : chan'[i].kind \in {"output", "lost"}
    <3> SUFFICES ASSUME NEW i \in DOMAIN chan' PROVE chan'[i].kind \in {"output", "lost"}
      OBVIOUS
    <3>1. i + 1 \in DOMAIN chan /\ chan'[i] = chan[i + 1]
      BY <1>2
    <3>2. QED
      BY <3>1 DEF ReadersAreOwned
  <2>2. QED
    BY <1>1, <1>5, <2>1 DEF ProcessIsOwned, ReadersAreOwned
<1>10. ToldSoFar' /\ AuditFollows'
  BY <1>1, <1>3, <1>4, <1>5 DEF TypeOK, LayersAgree, ToldSoFar, AuditFollows, Wrapped
<1>11. PumpInOrder'
  BY <1>1, <1>2, <1>4, <1>6 DEF PumpInOrder
<1>12. ChannelInOrder'
  <2>1. ASSUME NEW s \in Streams, NEW n \in Got'[s] PROVE 1..n \subseteq Got'[s]
    <3>1. CASE n \in Got[s]
      BY <1>4, <3>1 DEF ChannelInOrder
    <3>2. CASE n \in 1..MaxChunk /\ h = Chunk(s, n)
      <4>1. 1..(n - 1) \subseteq Got[s] /\ n \in Got'[s] /\ 1..n = 1..(n - 1) \cup {n}
        BY <1>1, <1>4, <3>2, HeadIsNext
      <4>2. QED
        BY <1>4, <4>1
    <3>3. QED
      BY <1>4, <3>1, <3>2
  <2>2. ASSUME NEW i \in DOMAIN chan', chan'[i].kind = "output"
        PROVE  /\ chan'[i].n \notin Got'[chan'[i].stream]
               /\ \A m \in 1..(chan'[i].n - 1) : m \in Got'[chan'[i].stream]
                     \/ \E j \in 1..(i - 1) : chan'[j] = Chunk(chan'[i].stream, m)
               /\ \A j \in DOMAIN chan' : chan'[j] = chan'[i] => j = i
    <3> DEFINE s == chan'[i].stream
               n == chan'[i].n
    <3>1. i + 1 \in DOMAIN chan /\ chan'[i] = chan[i + 1] /\ i \in Nat /\ i >= 1
      BY <1>2
    <3>2. s \in Streams /\ n \in 1..MaxChunk /\ chan'[i] = Chunk(s, n)
      BY <1>2, <2>2, EventTypes
    <3> HIDE DEF s, n
    <3>3. /\ n \notin Got[s]
          /\ \A m \in 1..(n - 1) : m \in Got[s] \/ \E j \in 1..((i + 1) - 1) : chan[j] = Chunk(s, m)
          /\ \A j \in DOMAIN chan : chan[j] = chan[i + 1] => j = i + 1
      BY <2>2, <3>1 DEF ChannelInOrder, s, n
    <3>4. h # Chunk(s, n)
      <4>1. chan[1] = chan[i + 1] => 1 = i + 1
        BY <1>3, <3>3
      <4>2. 1 # i + 1
        BY <3>1
      <4>3. QED
        BY <1>2, <3>1, <3>2, <4>1, <4>2
    <3>5. n \notin Got'[s]
      BY <1>4, <3>2, <3>3, <3>4
    <3>6. ASSUME NEW m \in 1..(n - 1), m \notin Got'[s]
          PROVE  \E j \in 1..(i - 1) : chan'[j] = Chunk(s, m)
      <4>1. m \in 1..MaxChunk /\ m \notin Got[s] /\ h # Chunk(s, m)
        BY <1>4, <3>2, <3>6
      <4>2. PICK j \in 1..i : chan[j] = Chunk(s, m)
        <5>1. (i + 1) - 1 = i
          BY <3>1
        <5>2. QED
          BY <3>3, <4>1, <5>1
      <4>3. j # 1 /\ j \in Nat /\ j <= i /\ j >= 1
        BY <1>2, <3>1, <4>1, <4>2
      <4>4. j - 1 \in 1..(i - 1) /\ j - 1 \in 1..Len(chan') /\ (j - 1) + 1 = j
        BY <1>2, <3>1, <4>3
      <4>5. chan'[j - 1] = chan[j]
        BY <1>2, <4>4
      <4>6. QED
        BY <4>2, <4>4, <4>5
    <3>7. ASSUME NEW j \in DOMAIN chan', chan'[j] = chan'[i] PROVE j = i
      <4>1. j + 1 \in DOMAIN chan /\ chan'[j] = chan[j + 1] /\ j \in Nat
        BY <1>2
      <4>2. j + 1 = i + 1
        BY <3>1, <3>3, <3>7, <4>1
      <4>3. QED
        BY <3>1, <4>1, <4>2
    <3>8. QED
      BY <3>5, <3>6, <3>7 DEF s, n
  <2>3. QED
    BY <2>1, <2>2 DEF ChannelInOrder, Chunk
<1>13. AllIsTold'
  BY <1>1, <1>3, <1>4, <1>5 DEF TypeOK, LayersAgree, AllIsTold, ToldSoFar
<1>14. QED
  BY <1>7, <1>8, <1>9, <1>10, <1>11, <1>12, <1>13

\* none hands over what comes next in its buffer.
LEMMA StepFlush == ASSUME IInv, NEW s \in Streams, Flush(s) PROVE IInv'
<1> USE StreamAssumption DEF IInv
<1> DEFINE p == pipe[s]
           t == Tail(p)
<1>1. /\ rt = "wait" /\ cfg.kind = "none" /\ ~open /\ child = "exited" /\ p # <<>> /\ Yield(Chunk(s, Head(p)))
      /\ pipe' = [pipe EXCEPT ![s] = t]
      /\ UNCHANGED <<cfg, mgr, wr, iso, child, open, box, status, written, reader, holds, chan, waited, cut, cancelled, audit>>
  BY DEF Flush, ProcessOver, procVars
<1>2. /\ Head(p) = p[1] /\ Head(p) \in 1..MaxChunk /\ t \in Seq(1..MaxChunk)
      /\ Len(p) \in Nat /\ Len(p) >= 1 /\ Len(t) = Len(p) - 1
      /\ DOMAIN p = 1..Len(p) /\ DOMAIN t = 1..Len(t)
      /\ \A i \in 1..Len(t) : t[i] = p[i + 1]
  BY <1>1, OneLess DEF TypeOK
<1>3. /\ seen' \in Seq(Stream!Event) /\ SeenKinds' = SeenKinds \cup {"output"}
      /\ Got' = [Got EXCEPT ![s] = @ \cup {Head(p)}] /\ ~left' /\ left' \in BOOLEAN /\ held' = held
  <2>1. left' \in BOOLEAN
    BY <1>1 DEF Yield, Give, Leaves, TypeOK
  <2>2. QED
    BY <1>1, <1>2, <2>1, ChunkTold
<1>4. rt' = "wait"
  BY <1>3 DEF Flush, After
<1>5. ChanKinds' = ChanKinds /\ InChan' = InChan
  BY <1>1, ChannelStays
<1>6. chan = <<>> /\ ~waited /\ ~cut /\ \A r \in Streams : reader[r] = "off" /\ InChan[r] = {}
  BY <1>1 DEF ReadersAreOwned, InChan
<1>7. pipe'[s] = t /\ written[s] \in Nat /\ \A r \in Streams : r # s => pipe'[r] = pipe[r]
  BY <1>1 DEF TypeOK
<1>8. Got'[s] = Got[s] \cup {Head(p)} /\ \A r \in Streams : r # s => Got'[r] = Got[r]
  BY <1>3 DEF Got
<1>9. /\ Passed(s)' = Passed(s) \cup {Head(p)} /\ \A r \in Streams : r # s => Passed(r)' = Passed(r)
      /\ Passed(s) = Got[s]
  BY <1>5, <1>6, <1>8 DEF Passed
<1>10. /\ Passed(s) \subseteq 1..written[s] /\ Len(p) <= written[s]
       /\ \A i \in DOMAIN p : p[i] = written[s] - Len(p) + i
       /\ Passed(s) = 1..(written[s] - Len(p))
  BY <1>6 DEF PumpInOrder
<1>11. TypeOK'
  BY <1>1, <1>2, <1>3, <1>4 DEF TypeOK
<1>12. LayersAgree' /\ RuntimesDiffer' /\ CopyIsOwned'
  BY <1>1, <1>3, <1>4 DEF LayersAgree, RuntimesDiffer, CopyIsOwned, Wrapped, Isolated, Keeps
<1>13. ProcessIsOwned' /\ ReadersAreOwned'
  BY <1>1, <1>4, <1>6 DEF ProcessIsOwned, ReadersAreOwned
<1>14. ToldSoFar' /\ AuditFollows'
  BY <1>1, <1>3, <1>4 DEF TypeOK, LayersAgree, ToldSoFar, AuditFollows, Wrapped
<1> HIDE DEF p, t
<1>15. Head(p) = written[s] - Len(p) + 1
  <2>1. 1 \in DOMAIN p
    BY <1>2
  <2>2. QED
    BY <1>2, <1>10, <2>1
<1>16. Passed(s)' = 1..(written[s] - Len(t)) /\ Passed(s)' \subseteq 1..written[s] /\ Len(t) <= written[s]
  <2>1. written[s] - Len(t) = written[s] - Len(p) + 1
    BY <1>2, <1>7
  <2>2. QED
    BY <1>2, <1>7, <1>9, <1>10, <1>15, <2>1
<1>17. ASSUME NEW i \in DOMAIN t PROVE t[i] = written[s] - Len(t) + i
  <2>1. i + 1 \in DOMAIN p /\ t[i] = p[i + 1] /\ i \in Nat
    BY <1>2
  <2>2. p[i + 1] = written[s] - Len(p) + (i + 1)
    BY <1>10, <2>1
  <2>3. written[s] - Len(p) + (i + 1) = written[s] - (Len(p) - 1) + i
    <3>1. written[s] \in Nat /\ Len(p) \in Nat /\ i \in Nat
      BY <1>2, <1>7, <2>1
    <3>2. QED
      BY <3>1
  <2>4. QED
    BY <1>2, <2>1, <2>2, <2>3
<1>18. PumpInOrder'
  <2> SUFFICES ASSUME NEW r \in Streams
               PROVE  /\ Passed(r)' \subseteq 1..written[r]
                      /\ Len(pipe'[r]) <= written[r]
                      /\ \A i \in DOMAIN pipe'[r] : pipe'[r][i] = written[r] - Len(pipe'[r]) + i
                      /\ Passed(r)' = 1..(written[r] - Len(pipe'[r]))
    BY <1>1, <1>6 DEF PumpInOrder
  <2>1. CASE r = s
    BY <1>7, <1>16, <1>17, <2>1
  <2>2. CASE r # s
    BY <1>6, <1>7, <1>9, <2>2 DEF PumpInOrder
  <2>3. QED
    BY <2>1, <2>2
<1>19. ChannelInOrder'
  <2>1. \A n \in Got'[s] : 1..n \subseteq Got'[s]
    <3>1. Got'[s] = 1..(written[s] - Len(t)) /\ written[s] - Len(t) \in Nat
      BY <1>2, <1>7, <1>8, <1>9, <1>16
    <3>2. QED
      BY <3>1
  <2>2. \A r \in Streams : \A n \in Got'[r] : 1..n \subseteq Got'[r]
    BY <1>8, <2>1 DEF ChannelInOrder
  <2>3. QED
    BY <1>1, <1>6, <2>2 DEF ChannelInOrder
<1>20. AllIsTold'
  BY <1>1, <1>3, <1>4 DEF TypeOK, LayersAgree, AllIsTold, ToldSoFar
<1>21. QED
  BY <1>11, <1>12, <1>13, <1>14, <1>18, <1>19, <1>20


-----------------------------------------------------------------------------
\* Every step preserves the invariant.
LEMMA StepIInv == IInv /\ [Next]_vars => IInv'
<1> SUFFICES ASSUME IInv, [Next]_vars PROVE IInv'
  OBVIOUS
<1>1. ASSUME Manager \/ Wrapper PROVE IInv'
  BY <1>1, StepNoRuntime, StepDeny, StepDelegate, StepConclude, StepWrapSetup, StepWrapFails, StepWrapLoopEnds,
     StepWrapShow, StepWrapShowNothing, StepWrapExit, StepWrapTeardown DEF Manager, Wrapper
<1>2. ASSUME Runtime PROVE IInv'
  BY <1>2, StepRefuse, StepDockerIsolate, StepDockerHasImage, StepDockerPull, StepDockerCreate, StepDockerStart,
     StepAnnounce, StepLaunch, StepLaunchAndAnnounce, StepWarnDeprecated, StepReceive, StepLoopEnds, StepFlush,
     StepWaitFails, StepWaitDone, StepDockerShow, StepDockerShowNothing, StepComplete, StepUnwind DEF Runtime
<1>3. ASSUME NEW s \in Streams, Reader(s) PROVE IInv'
  BY <1>3, StepReadChunk, StepSendChunk, StepReadEnd, StepReadFails DEF Reader
<1>4. ASSUME Reap \/ KillByContext \/ Environment PROVE IInv'
  BY <1>4, StepReap, StepKillByContext, StepExit, StepDescendantExits, StepCancel, StepAnswer, StepCut, StepWrite DEF Environment
<1>5. CASE UNCHANGED vars
  <2>1. SeenKinds' = SeenKinds /\ Got' = Got /\ ChanKinds' = ChanKinds /\ InChan' = InChan
    BY <1>5, SeenStays, ChannelStays DEF vars, userVars, pumpVars
  <2>2. TypeOK' /\ LayersAgree' /\ RuntimesDiffer' /\ CopyIsOwned' /\ ProcessIsOwned' /\ ReadersAreOwned'
    BY <1>5 DEF IInv, vars, userVars, pumpVars, procVars, TypeOK, LayersAgree, RuntimesDiffer, CopyIsOwned,
                ProcessIsOwned, ReadersAreOwned, Wrapped, Isolated, Keeps
  <2>3. ToldSoFar' /\ AuditFollows'
    BY <1>5, <2>1 DEF IInv, vars, userVars, ToldSoFar, AuditFollows, Wrapped, Isolated
  <2>4. PumpInOrder' /\ ChannelInOrder'
    BY <1>5, <2>1, PumpStays DEF IInv, vars, procVars, pumpVars
  <2>5. AllIsTold'
    BY <1>5, <2>1 DEF IInv, AllIsTold, vars, userVars, procVars, pumpVars
  <2>6. QED
    BY <2>2, <2>3, <2>4, <2>5 DEF IInv
<1>6. QED
  BY <1>1, <1>2, <1>3, <1>4, <1>5 DEF Next

\* The invariant holds in every reachable state.
LEMMA Invariant == Spec => []IInv
  BY InitIInv, StepIInv, PTL DEF Spec


-----------------------------------------------------------------------------
\* The variables keep their types.
THEOREM TypesAreKept == Spec => []TypeOK
<1>1. IInv => TypeOK
  BY DEF IInv
<1>2. QED
  BY <1>1, Invariant, PTL

\* When the exit or the changes are told, everything written was told before,
\* or that output is lost was: for any chunks, pipe and channel.
THEOREM OutputComesBeforeExit == Spec => []OutputBeforeExit
<1>1. IInv => OutputBeforeExit
  <2> SUFFICES ASSUME IInv, Stream!Saw("completed") \/ Stream!Saw("changes"), ~Stream!Saw("lost"), ~cut,
                      NEW s \in Streams
               PROVE  Stream!Arrived(s) = 1..written[s]
    BY DEF OutputBeforeExit
  <2>1. Got[s] = 1..written[s]
    BY SawIsSeen DEF IInv, AllIsTold
  <2>2. QED
    BY <2>1 DEF Got
<1>2. QED
  BY <1>1, Invariant, PTL

\* A returned Manager.Execute leaves no process, reader, container or copy, but
\* what it failed to remove.
THEOREM NothingIsLeftBehind == Spec => []NothingLeftBehind
<1>1. IInv => NothingLeftBehind
  <2> SUFFICES ASSUME IInv, mgr = "done"
               PROVE  /\ child = "running" => cfg.kind = "docker" /\ box = "adrift"
                      /\ \A s \in Streams : reader[s] \in {"off", "done"}
                      /\ cfg.kind = "docker" => box \in {"none", "removed", "adrift"}
                      /\ iso \in {"none", "gone", "stuck"} \/ (iso \in {"kept", "upper"} /\ Keeps)
    BY DEF NothingLeftBehind
  <2>1. rt \in {"off", "ended"} /\ wr \in {"off", "done"}
    BY DEF IInv, LayersAgree
  <2>2. /\ child = "running" => cfg.kind = "docker" /\ box = "adrift"
        /\ \A s \in Streams : reader[s] \in {"off", "done"}
    BY <2>1 DEF IInv, ProcessIsOwned, ReadersAreOwned
  <2>3. cfg.kind = "docker" => box \in {"none", "removed", "adrift"}
    BY <2>1 DEF IInv, ProcessIsOwned
  <2>4. iso = "none" \/ cfg.kind = "docker" \/ Wrapped
    BY StreamAssumption DEF IInv, TypeOK, CopyIsOwned, Wrapped, Isolated, Configs
  <2>5. iso # "up"
    BY <2>1, <2>4 DEF IInv, CopyIsOwned
  <2>6. QED
    BY <2>2, <2>3, <2>5 DEF IInv, TypeOK, CopyIsOwned
<1>2. QED
  BY <1>1, Invariant, PTL

\* A copy whose changes were shown is there while it is reviewed, and after the
\* execution where the isolation keeps copies.
THEOREM ShownCopySurvives == Spec => []ShownCopyIsKept
<1>1. IInv => ShownCopyIsKept
  BY SawIsSeen DEF IInv, ToldSoFar, ShownCopyIsKept, Stream!Over
<1>2. QED
  BY <1>1, Invariant, PTL

\* The closing audit record of an execution followed to its end says what was seen.
THEOREM AuditIsTrue == Spec => []AuditTellsTheOutcome
<1>1. IInv => AuditTellsTheOutcome
  <2> SUFFICES ASSUME IInv, mgr = "done", ~left, Contains(audit, "started")
               PROVE  /\ Stream!Saw("fatal") => audit = <<"requested", "started", "failed">>
                      /\ Stream!Saw("completed") => audit = <<"requested", "started", "completed">>
                      /\ Stream!Over
    BY DEF AuditTellsTheOutcome
  <2>1. audit # <<"failed">> /\ audit # <<"requested", "denied">>
    BY DEF Contains
  <2>2. \/ audit = <<"requested", "started", "failed">> /\ "fatal" \in SeenKinds
        \/ audit = <<"requested", "started", "completed">>
              /\ "completed" \in SeenKinds /\ "fatal" \notin SeenKinds
    BY <2>1 DEF IInv, AuditFollows
  <2>3. QED
    BY <2>2, SawIsSeen DEF IInv, ToldSoFar, Stream!Over
<1>2. QED
  BY <1>1, Invariant, PTL

-----------------------------------------------------------------------------
\* An event other than output that fits is a step of the abstract stream; an
\* exit that the wrapper keeps back is none.
LEMMA EventFits ==
    ASSUME IInv, NEW k \in {"status", "started", "warning", "lost", "changes", "completed", "fatal"},
           Give(Ev(k)) \/ Yield(Ev(k)),
           ~left, "completed" \notin SeenKinds, "fatal" \notin SeenKinds,
           k \in {"status", "started"} => "started" \notin SeenKinds,
           k \in {"warning", "lost", "changes"} => "started" \in SeenKinds /\ "changes" \notin SeenKinds,
           k = "completed" => "started" \in SeenKinds
    PROVE  [Stream!Next]_(Stream!vars)
<1> DEFINE e == Ev(k)
<1>1. e \in Stream!Event /\ e.kind = k
  BY EventTypes
<1>2. CASE Give(e)
  <2>1. seen' = Append(seen, e) /\ left' \in BOOLEAN
    BY <1>2 DEF Give, Leaves
  <2>2. Stream!Fits(e)
    BY <1>1, SawIsSeen DEF Stream!Fits, Stream!Over, Stream!Running
  <2>3. QED
    BY <1>1, <2>1, <2>2 DEF Stream!Next, Stream!Give
<1>3. CASE ~Give(e)
  <2>1. UNCHANGED <<seen, left>>
    BY <1>3 DEF Yield
  <2>2. QED
    BY <2>1 DEF Stream!vars
<1>4. QED
  BY <1>2, <1>3

\* The next chunk of a stream is a step of the abstract stream.
LEMMA ChunkFits ==
    ASSUME IInv, NEW s \in Streams, NEW n \in 1..MaxChunk, Yield(Chunk(s, n)),
           ~left, "completed" \notin SeenKinds, "fatal" \notin SeenKinds,
           "started" \in SeenKinds, "changes" \notin SeenKinds,
           Got[s] = 1..(n - 1)
    PROVE  [Stream!Next]_(Stream!vars)
<1> DEFINE e == Chunk(s, n)
<1>1. e \in Stream!Event /\ e.kind = "output" /\ e.stream = s /\ e.n = n
  BY EventTypes
<1>2. seen' = Append(seen, e) /\ left' \in BOOLEAN
  BY <1>1 DEF Yield, Give, Leaves
<1>3. Stream!Arrived(s) = 1..(n - 1)
  BY DEF Got
<1>4. Stream!Fits(e)
  BY <1>1, <1>3, SawIsSeen DEF Stream!Fits, Stream!Over, Stream!Running
<1>5. QED
  BY <1>1, <1>2, <1>4 DEF Stream!Next, Stream!Give

\* Nobody is told anything after the end.
LEMMA NotOver ==
    ASSUME IInv,
           \/ mgr = "select" \/ wr \in {"setup", "show", "exit"}
           \/ rt \notin {"off", "unwind", "ended"}
    PROVE  ~left /\ "completed" \notin SeenKinds /\ "fatal" \notin SeenKinds
  BY DEF IInv, TypeOK, LayersAgree, ToldSoFar

\* The manager and the wrapper.
LEMMA UpperLayersRefine == IInv /\ (Manager \/ Wrapper) => [Stream!Next]_(Stream!vars)
<1> SUFFICES ASSUME IInv, Manager \/ Wrapper PROVE [Stream!Next]_(Stream!vars)
  OBVIOUS
<1>1. CASE NoRuntime \/ Deny
  BY <1>1, EventFits, NotOver DEF NoRuntime, Deny
<1>2. CASE Delegate \/ Conclude \/ WrapLoopEnds \/ WrapShowNothing \/ WrapTeardown
  BY <1>2 DEF Delegate, Conclude, WrapLoopEnds, WrapShowNothing, WrapTeardown, userVars, Stream!vars
<1>3. CASE WrapSetup
  <2>1. "started" \notin SeenKinds
    BY <1>3 DEF IInv, LayersAgree, ToldSoFar, WrapSetup
  <2>2. QED
    BY <1>3, <2>1, EventFits, NotOver DEF WrapSetup
<1>4. CASE WrapFails
  BY <1>4, EventFits, NotOver DEF WrapFails
<1>5. CASE WrapShow
  <2>1. "started" \in SeenKinds /\ "changes" \notin SeenKinds
    BY <1>5 DEF IInv, TypeOK, LayersAgree, ToldSoFar, WrapShow, Wrapped
  <2>2. QED
    BY <1>5, <2>1, EventFits, NotOver DEF WrapShow
<1>6. CASE WrapExit
  <2>1. "started" \in SeenKinds
    BY <1>6 DEF IInv, LayersAgree, ToldSoFar, WrapExit
  <2>2. QED
    BY <1>6, <2>1, EventFits, NotOver DEF WrapExit
<1>7. QED
  BY <1>1, <1>2, <1>3, <1>4, <1>5, <1>6 DEF Manager, Wrapper

\* The runtime.
LEMMA RuntimeRefines == IInv /\ Runtime => [Stream!Next]_(Stream!vars)
<1> SUFFICES ASSUME IInv, Runtime PROVE [Stream!Next]_(Stream!vars)
  OBVIOUS
<1>1. CASE Refuse \/ WaitFails
  BY <1>1, EventFits, NotOver DEF Refuse, WaitFails
<1>2. CASE DockerHasImage \/ DockerStart \/ Launch \/ LoopEnds \/ WaitDone \/ DockerShowNothing \/ Unwind
  BY <1>2 DEF DockerHasImage, DockerStart, Launch, LoopEnds, WaitDone, DockerShowNothing, Unwind, userVars, Stream!vars
<1>3. CASE DockerIsolate \/ DockerPull
  <2>1. rt \in {"begin", "image"} /\ Yield(Ev("status"))
    BY <1>3 DEF DockerIsolate, DockerPull, NeedsImage
  <2>2. "started" \notin SeenKinds
    BY <2>1 DEF IInv, ToldSoFar
  <2>3. QED
    BY <2>1, <2>2, EventFits, NotOver
<1>4. CASE DockerCreate \/ Announce \/ LaunchAndAnnounce
  <2>1. rt \in {"begin", "create"} /\ Yield(Ev("started"))
    BY <1>4 DEF DockerCreate, Announce, LaunchAndAnnounce
  <2>2. "started" \notin SeenKinds
    BY <2>1 DEF IInv, ToldSoFar
  <2>3. QED
    BY <2>1, <2>2, EventFits, NotOver
<1>5. CASE WarnDeprecated \/ DockerShow
  <2>1. PICK k \in {"warning", "changes"} : rt \in {"warn", "show"} /\ Yield(Ev(k))
    BY <1>5 DEF WarnDeprecated, DockerShow
  <2>2. "started" \in SeenKinds /\ "changes" \notin SeenKinds
    BY <2>1 DEF IInv, ToldSoFar, LayersAgree
  <2>3. QED
    BY <2>1, <2>2, EventFits, NotOver
<1>6. CASE Complete
  <2>1. "started" \in SeenKinds
    BY <1>6 DEF IInv, ToldSoFar, Complete
  <2>2. QED
    BY <1>6, <2>1, EventFits, NotOver DEF Complete
<1>7. CASE Receive
  <2>1. rt = "stream" /\ chan # <<>> /\ Yield(Head(chan))
    BY <1>7 DEF Receive
  <2>2. "started" \in SeenKinds /\ "changes" \notin SeenKinds
    BY <2>1 DEF IInv, ToldSoFar, LayersAgree
  <2>3. Head(chan) = chan[1] /\ 1 \in DOMAIN chan /\ Head(chan) \in Stream!Event
    BY <2>1, OneLess DEF IInv, TypeOK
  <2>4. CASE Head(chan).kind = "lost"
    BY <2>1, <2>2, <2>3, <2>4, EventTypes, EventFits, NotOver
  <2>5. CASE Head(chan).kind = "output"
    <3>1. PICK s \in Streams, n \in 1..MaxChunk : Head(chan) = Chunk(s, n)
      BY <2>3, <2>5, EventTypes
    <3>2. n \notin Got[s] /\ 1..(n - 1) \subseteq Got[s] /\ Got[s] \subseteq 1..MaxChunk
      BY <2>1, <3>1, HeadIsNext DEF Got, Stream!Arrived
    <3>3. \A m \in Got[s] : n \notin 1..m
      BY <3>2 DEF IInv, ChannelInOrder
    <3>4. Got[s] = 1..(n - 1)
      <4>1. ASSUME NEW m \in Got[s] PROVE m \in 1..(n - 1)
        BY <3>2, <3>3, StreamAssumption
      <4>2. QED
        BY <3>2, <4>1
    <3>5. QED
      BY <2>1, <2>2, <3>1, <3>4, ChunkFits, NotOver
  <2>6. QED
    BY <2>3, <2>4, <2>5 DEF IInv, ReadersAreOwned
<1>8. ASSUME NEW s \in Streams, Flush(s) PROVE [Stream!Next]_(Stream!vars)
  <2> DEFINE p == pipe[s]
  <2>1. rt = "wait" /\ cfg.kind = "none" /\ p # <<>> /\ Yield(Chunk(s, Head(p)))
    BY <1>8 DEF Flush
  <2>2. "started" \in SeenKinds /\ "changes" \notin SeenKinds
    BY <2>1 DEF IInv, ToldSoFar, LayersAgree
  <2>3. /\ Head(p) = p[1] /\ Head(p) \in 1..MaxChunk
        /\ Len(p) \in Nat /\ Len(p) >= 1 /\ DOMAIN p = 1..Len(p)
    BY <2>1, OneLess DEF IInv, TypeOK
  <2>4. reader[s] = "off" /\ ~waited /\ ~cut /\ InChan[s] = {} /\ written[s] \in Nat
    BY <2>1, StreamAssumption DEF IInv, TypeOK, ReadersAreOwned, InChan
  <2>5. /\ \A i \in DOMAIN p : p[i] = written[s] - Len(p) + i
        /\ Got[s] = 1..(written[s] - Len(p))
    BY <2>4 DEF IInv, PumpInOrder, Passed
  <2> HIDE DEF p
  <2>6. 1 \in DOMAIN p
    BY <2>3
  <2>7. Head(p) = written[s] - Len(p) + 1
    BY <2>3, <2>5, <2>6
  <2>8. Head(p) - 1 = written[s] - Len(p)
    BY <2>3, <2>4, <2>7
  <2>9. QED
    BY <2>1, <2>2, <2>3, <2>5, <2>8, ChunkFits, NotOver
<1>9. QED
  BY <1>1, <1>2, <1>3, <1>4, <1>5, <1>6, <1>7, <1>8 DEF Runtime

\* Every step is a step of the abstract stream or none.
LEMMA StepRefines == IInv /\ [Next]_vars => [Stream!Next]_(Stream!vars)
<1> SUFFICES ASSUME IInv, [Next]_vars PROVE [Stream!Next]_(Stream!vars)
  OBVIOUS
<1>1. ASSUME NEW s \in Streams, Reader(s) \/ Write(s) PROVE UNCHANGED <<seen, left>>
  BY <1>1 DEF Reader, ReadChunk, SendChunk, ReadEnd, ReadFails, Write, userVars
<1>2. CASE Reap \/ KillByContext \/ Exit \/ DescendantExits \/ Cancel \/ Cut \/ Answer
  BY <1>2 DEF Reap, KillByContext, Exit, DescendantExits, Cancel, Cut, Answer, userVars, Stream!vars
<1>3. CASE UNCHANGED vars
  BY <1>3 DEF vars, userVars, Stream!vars
<1>4. QED
  BY <1>1, <1>2, <1>3, UpperLayersRefine, RuntimeRefines DEF Next, Environment, Stream!vars

\* The chain of iterators implements the event stream that the comment of
\* Execute promises.
THEOREM StreamKeepsItsPromise == Spec => StreamIsWellFormed
<1>1. Init => Stream!Init
  BY DEF Init, Stream!Init
<1>2. QED
  BY <1>1, StepRefines, Invariant, PTL DEF Spec, StreamIsWellFormed, Stream!Spec
=============================================================================
