------------------------------- MODULE JwksCache -------------------------------
(***************************************************************************)
(* The key sets of internal/auth/jwt/jwks.go: NewJWKSCache fetches once and *)
(* starts refreshLoop; requests look a key up, and force a refresh when it *)
(* is missing (authenticator.getKey); Close stops the loop.                *)
(*                                                                         *)
(* A refresh fetches without the lock and stores under it, so refreshes    *)
(* overlap, and what was fetched first may be stored last.  Time is a      *)
(* clock of small steps; Timeout bounds one refresh (the ten seconds of    *)
(* the client and of the loop's context), MinInterval is the five minutes  *)
(* of ForceRefresh, RefreshInterval the ticker's period.                   *)
(*                                                                         *)
(* The issuer publishes a set of key ids that changes at any moment.  What *)
(* it published is remembered in two histories, absent and asof, which no  *)
(* guard reads.                                                            *)
(***************************************************************************)
EXTENDS Naturals

CONSTANTS
    Kids,             \* the key ids
    Requests,         \* the concurrent requests
    MinInterval,      \* minJWKSRefreshInterval
    RefreshInterval,  \* the configured interval, raised to the minimum
    Timeout,          \* defaultJWKSHTTPTimeout
    MaxTime           \* bound on the clock

ASSUME JwksAssumption ==
    /\ MinInterval \in Nat /\ RefreshInterval \in Nat /\ Timeout \in Nat /\ MaxTime \in Nat
    /\ 0 < Timeout /\ Timeout < MinInterval /\ MinInterval <= RefreshInterval
    /\ Requests \cap {"new", "loop"} = {}

VARIABLES
    clock,
    published,    \* the key ids the issuer publishes now
    absent,       \* history: absent[k], the last time k was not published
    keySet,       \* the cached set
    asof,         \* history: when the cached set was what the issuer published
    lastRefresh, lastError,
    due, tick,    \* the ticker: its next firing, and its channel of one
    stopped,      \* stopCh is closed
    closer,       \* where Close stands
    pc,           \* where NewJWKSCache, refreshLoop and the requests stand
    began,        \* began[p]: when p began to refresh
    got,          \* got[p]: what p fetched, and when
    kid,          \* kid[p]: the key a request is after
    arrived       \* arrived[p]: when the request came

issuerVars == <<published, absent>>
cacheVars == <<keySet, asof, lastRefresh, lastError>>
loopVars == <<due, tick, stopped, closer>>
requestVars == <<kid, arrived>>
vars == <<clock, issuerVars, cacheVars, loopVars, requestVars, pc, began, got>>

Procs == Requests \cup {"new", "loop"}
Answer == [keys : SUBSET Kids, at : Nat]
NoAnswer == [keys |-> {}, at |-> 0]

Refreshing(p) == pc[p] \in {"fetch", "store"}

Goto(p, l) == pc' = [pc EXCEPT ![p] = l]

BeginRefresh(p) ==
    /\ Goto(p, "fetch")
    /\ began' = [began EXCEPT ![p] = clock]

EndRefresh(p, l) ==
    /\ Goto(p, l)
    /\ began' = [began EXCEPT ![p] = 0]

\* Where a failed fetch leads.
AfterFailure(p) == IF p = "loop" THEN "wait" ELSE IF p = "new" THEN "failed" ELSE "refused"

Init ==
    /\ clock = 0
    /\ published \in SUBSET Kids
    /\ absent = [k \in Kids |-> 0]
    /\ keySet = {} /\ asof = 0 /\ lastRefresh = 0 /\ lastError = FALSE
    /\ due = 0 /\ tick = FALSE /\ stopped = FALSE
    /\ closer = "open"
    /\ pc = [p \in Procs |-> IF p = "new" THEN "discover" ELSE "idle"]
    /\ began = [p \in Procs |-> 0]
    /\ got = [p \in Procs |-> NoAnswer]
    /\ kid \in [Requests -> Kids]
    /\ arrived = [p \in Requests |-> 0]

-----------------------------------------------------------------------------
\* The issuer rotates its keys.
Rotate ==
    /\ published' \in SUBSET Kids \ {published}
    /\ absent' = [k \in Kids |-> IF k \in published' /\ k \in published THEN absent[k] ELSE clock]
    /\ UNCHANGED <<clock, cacheVars, loopVars, requestVars, pc, began, got>>

\* Time passes, and the ticker fires when it is due.  No refresh outlives its
\* timeout, and the loop takes up what it waits for before the clock moves.
Prompt ==
    /\ \A p \in Procs : Refreshing(p) => clock < began[p] + Timeout
    /\ pc["new"] = "made" => pc["loop"] # "idle"
    /\ pc["loop"] = "wait" => ~tick /\ ~stopped

\* Mutant of Advance: the ticker fires once only.
MutAdvanceFiresOnce ==
    /\ clock < MaxTime /\ Prompt
    /\ clock' = clock + 1
    /\ absent' = [k \in Kids |-> IF k \in published THEN absent[k] ELSE clock']
    /\ tick' = (tick \/ (pc["loop"] \in {"wait", "fetch", "store"} /\ clock' = due))
    /\ UNCHANGED <<published, cacheVars, due, stopped, closer, requestVars, pc, began, got>>

Advance ==
    /\ clock < MaxTime /\ Prompt
    /\ clock' = clock + 1
    /\ absent' = [k \in Kids |-> IF k \in published THEN absent[k] ELSE clock']
    /\ IF pc["loop"] \in {"wait", "fetch", "store"} /\ clock' = due
       THEN tick' = TRUE /\ due' = due + RefreshInterval
       ELSE UNCHANGED <<tick, due>>
    /\ UNCHANGED <<published, cacheVars, stopped, closer, requestVars, pc, began, got>>

-----------------------------------------------------------------------------
\* refresh: the answer of jwk.FetchSet is what is published at one moment, ...
Fetched(p) ==
    /\ pc[p] = "fetch"
    /\ got' = [got EXCEPT ![p] = [keys |-> published, at |-> clock]]
    /\ Goto(p, "store")
    /\ UNCHANGED <<clock, issuerVars, cacheVars, loopVars, requestVars, began>>

\* Mutants of FetchFails: the failure is not recorded; it counts as a refresh.
MutFailsUnrecorded(p) ==
    /\ pc[p] = "fetch"
    /\ EndRefresh(p, AfterFailure(p))
    /\ UNCHANGED <<clock, issuerVars, cacheVars, loopVars, requestVars, got>>

MutFailsAsRefresh(p) ==
    /\ pc[p] = "fetch"
    /\ lastError' = TRUE /\ lastRefresh' = clock
    /\ EndRefresh(p, AfterFailure(p))
    /\ UNCHANGED <<clock, issuerVars, keySet, asof, loopVars, requestVars, got>>

\* ... or an error, which leaves the set and the time of the last success.
\* It ends the construction, and the request, which is refused; the loop goes on.
FetchFails(p) ==
    /\ pc[p] = "fetch"
    /\ lastError' = TRUE
    /\ EndRefresh(p, AfterFailure(p))
    /\ UNCHANGED <<clock, issuerVars, keySet, asof, lastRefresh, loopVars, requestVars, got>>

\* The set is stored under the lock, with the time of the storing.
Store(p) ==
    /\ pc[p] = "store"
    /\ keySet' = got[p].keys /\ asof' = got[p].at
    /\ lastRefresh' = clock /\ lastError' = FALSE
    /\ got' = [got EXCEPT ![p] = NoAnswer]
    /\ EndRefresh(p, IF p = "loop" THEN "wait" ELSE IF p = "new" THEN "made" ELSE "again")
    /\ UNCHANGED <<clock, issuerVars, loopVars, requestVars>>

Refresh(p) == Fetched(p) \/ FetchFails(p) \/ Store(p)

-----------------------------------------------------------------------------
\* NewJWKSCache: the address of the set is configured or discovered, or not.
Discovered ==
    /\ pc["new"] = "discover"
    /\ BeginRefresh("new")
    /\ UNCHANGED <<clock, issuerVars, cacheVars, loopVars, requestVars, got>>

DiscoveryFails ==
    /\ pc["new"] = "discover"
    /\ Goto("new", "failed")
    /\ UNCHANGED <<clock, issuerVars, cacheVars, loopVars, requestVars, began, got>>

-----------------------------------------------------------------------------
\* refreshLoop: the ticker is made when the goroutine starts.
LoopStarts ==
    /\ pc["new"] = "made" /\ pc["loop"] = "idle"
    /\ Goto("loop", "wait")
    /\ due' = clock + RefreshInterval /\ tick' = FALSE
    /\ UNCHANGED <<clock, issuerVars, cacheVars, stopped, closer, requestVars, began, got>>

\* The select: a tick, or the end; either, when both are there.
LoopTakesTick ==
    /\ pc["loop"] = "wait" /\ tick
    /\ tick' = FALSE
    /\ BeginRefresh("loop")
    /\ UNCHANGED <<clock, issuerVars, cacheVars, due, stopped, closer, requestVars, got>>

LoopStops ==
    /\ pc["loop"] = "wait" /\ stopped
    /\ Goto("loop", "done")
    /\ tick' = FALSE
    /\ UNCHANGED <<clock, issuerVars, cacheVars, due, stopped, closer, requestVars, began, got>>

\* Mutant of Close: it waits for the loop before it tells it to stop.
MutCloseWaitsFirst ==
    /\ pc["new"] = "made" /\ closer = "open"
    /\ closer' = "waiting"
    /\ UNCHANGED <<clock, issuerVars, cacheVars, due, tick, stopped, requestVars, pc, began, got>>

\* Close: the loop is told to stop, and waited for.
Close ==
    /\ pc["new"] = "made" /\ closer = "open"
    /\ stopped' = TRUE
    /\ closer' = "waiting"
    /\ UNCHANGED <<clock, issuerVars, cacheVars, due, tick, requestVars, pc, began, got>>

CloseReturns ==
    /\ closer = "waiting" /\ pc["loop"] = "done"
    /\ closer' = "closed"
    /\ UNCHANGED <<clock, issuerVars, cacheVars, due, tick, stopped, requestVars, pc, began, got>>

-----------------------------------------------------------------------------
\* authenticator.getKey: a request comes and its key is not in the set.  (One
\* that finds its key is answered at once.)
Arrive(p, k) ==
    /\ pc["new"] = "made" /\ pc[p] = "idle"
    /\ k \notin keySet
    /\ kid' = [kid EXCEPT ![p] = k]
    /\ arrived' = [arrived EXCEPT ![p] = clock]
    /\ Goto(p, "check")
    /\ UNCHANGED <<clock, issuerVars, cacheVars, loopVars, began, got>>

\* ForceRefresh, when the last success is long enough ago, ...
ForceRefresh(p) ==
    /\ pc[p] = "check" /\ clock >= lastRefresh + MinInterval
    /\ BeginRefresh(p)
    /\ UNCHANGED <<clock, issuerVars, cacheVars, loopVars, requestVars, got>>

\* ... and when it is not.
TooSoon(p) ==
    /\ pc[p] = "check" /\ clock < lastRefresh + MinInterval
    /\ Goto(p, "again")
    /\ UNCHANGED <<clock, issuerVars, cacheVars, loopVars, requestVars, began, got>>

\* The second lookup, when the refresh gave no error.
LookAgain(p) ==
    /\ pc[p] = "again"
    /\ Goto(p, IF kid[p] \in keySet THEN "found" ELSE "missing")
    /\ UNCHANGED <<clock, issuerVars, cacheVars, loopVars, requestVars, began, got>>

\* The request is answered.
Done(p) ==
    /\ pc[p] \in {"found", "missing", "refused"}
    /\ Goto(p, "idle")
    /\ arrived' = [arrived EXCEPT ![p] = 0]
    /\ UNCHANGED <<clock, issuerVars, cacheVars, loopVars, kid, began, got>>

-----------------------------------------------------------------------------
Loop == LoopStarts \/ LoopTakesTick \/ LoopStops
Request(p) == (\E k \in Kids : Arrive(p, k)) \/ ForceRefresh(p) \/ TooSoon(p) \/ LookAgain(p) \/ Done(p)

Next ==
    \/ Rotate \/ Advance
    \/ \E p \in Procs : Refresh(p)
    \/ Discovered \/ DiscoveryFails
    \/ Loop \/ Close \/ CloseReturns
    \/ \E p \in Requests : Request(p)

\* The loop's goroutine runs, and each fetch is answered or timed out.
Fairness ==
    /\ WF_vars(Loop)
    /\ WF_vars(Refresh("loop"))
    /\ WF_vars(CloseReturns)

Spec == Init /\ [][Next]_vars /\ Fairness

-----------------------------------------------------------------------------
\* The variables are of the kinds the code gives them, the ticker is armed for
\* a time to come, and what was fetched was fetched since the refresh began.
TypeOK ==
    /\ clock \in Nat
    /\ published \in SUBSET Kids /\ keySet \in SUBSET Kids
    /\ absent \in [Kids -> 0..clock]
    /\ asof \in 0..lastRefresh /\ lastRefresh \in 0..clock
    /\ lastError \in BOOLEAN /\ tick \in BOOLEAN /\ stopped \in BOOLEAN
    /\ due \in Nat /\ (pc["loop"] \in {"wait", "fetch", "store"} => clock < due)
    /\ closer \in {"open", "waiting", "closed"}
    /\ pc \in [Procs -> {"idle", "discover", "wait", "check", "fetch", "store",
                         "again", "found", "missing", "refused", "failed", "made", "done"}]
    /\ began \in [Procs -> 0..clock]
    /\ got \in [Procs -> Answer]
    /\ \A p \in Procs : pc[p] = "store" => got[p].at \in began[p]..clock
    /\ kid \in [Requests -> Kids]
    /\ arrived \in [Requests -> 0..clock]

\* While the loop runs and LastError is nil, the cached set is one the issuer
\* published no longer ago than one interval and two timeouts, however the
\* loop's refreshes, forced ones and failed ones overlap.
HealthyIsFresh ==
    ~lastError /\ pc["loop"] \in {"wait", "fetch", "store"} =>
        clock <= asof + RefreshInterval + 2 * Timeout

\* A request that is told its key is not there, though no fetch of its own
\* failed, asks for a key the issuer did not publish all the time since one
\* minimal interval and one timeout before the request came.
PublishedIsFound ==
    \A p \in Requests :
        pc[p] = "missing" => arrived[p] < absent[kid[p]] + MinInterval + Timeout

\* Close returns, a refresh in flight or not.
CloseEnds == closer = "waiting" ~> closer = "closed"
=============================================================================
