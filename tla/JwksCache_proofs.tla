--------------------------- MODULE JwksCache_proofs ---------------------------
(***************************************************************************)
(* Proofs about JwksCache, for any keys, requests and intervals.           *)
(***************************************************************************)
EXTENDS JwksCache, TLAPS

\* A refresh is no older than its timeout, and so is what it stored when it
\* stored it.
RefreshesAreYoung ==
    /\ \A p \in Procs : Refreshing(p) => clock <= began[p] + Timeout
    /\ lastRefresh <= asof + Timeout

\* What lacks a key was fetched when the key was not published, or before it
\* was last missing.
AbsenceIsKept ==
    /\ \A k \in Kids : k \notin published => absent[k] = clock
    /\ \A k \in Kids : k \notin keySet => asof <= absent[k]
    /\ \A p \in Procs : \A k \in Kids :
           pc[p] = "store" /\ k \notin got[p].keys => got[p].at <= absent[k]

\* A request that looks again came less than one interval after the last
\* success, or before it.
AskedInTime ==
    \A p \in Requests : pc[p] = "again" => arrived[p] < lastRefresh + MinInterval

\* The loop: how far its ticker is ahead of the clock, and of the cached set.
Lag(n) == ~lastError => due <= asof + Timeout + n

Scheduled ==
    /\ pc["new"] = "made" /\ pc["loop"] = "idle" => clock <= asof + Timeout
    /\ pc["loop"] = "wait" /\ ~tick =>
          clock < due /\ due <= clock + RefreshInterval /\ Lag(RefreshInterval)
    /\ pc["loop"] = "wait" /\ tick =>
          due = clock + RefreshInterval /\ Lag(2 * RefreshInterval)
    /\ pc["loop"] \in {"fetch", "store"} =>
          ~tick /\ due = began["loop"] + RefreshInterval /\ Lag(2 * RefreshInterval)

IInv ==
    /\ TypeOK
    /\ RefreshesAreYoung
    /\ AbsenceIsKept
    /\ AskedInTime
    /\ Scheduled
    /\ PublishedIsFound

\* The initial states satisfy the invariant.
LEMMA InitIInv == Init => IInv
<1> SUFFICES ASSUME Init PROVE IInv
  OBVIOUS
<1> USE JwksAssumption DEF Init, Procs
<1>1. TypeOK
  <2>1. /\ clock \in Nat /\ published \in SUBSET Kids /\ keySet \in SUBSET Kids
        /\ asof \in 0..lastRefresh /\ lastRefresh \in 0..clock
        /\ due \in Nat
        /\ closer \in {"open", "waiting", "closed"}
    OBVIOUS
  <2>2. lastError \in BOOLEAN /\ tick \in BOOLEAN /\ stopped \in BOOLEAN
    OBVIOUS
  <2>3. kid \in [Requests -> Kids]
    OBVIOUS
  <2>4. /\ absent \in [Kids -> 0..clock]
        /\ began \in [Procs -> 0..clock]
        /\ arrived \in [Requests -> 0..clock]
    OBVIOUS
  <2>5. /\ pc \in [Procs -> {"idle", "discover", "wait", "check", "fetch", "store",
                             "again", "found", "missing", "refused", "failed", "made", "done"}]
        /\ \A p \in Procs : pc[p] \in {"idle", "discover"}
    OBVIOUS
  <2>6. got \in [Procs -> Answer]
    BY DEF NoAnswer, Answer
  <2>7. QED
    BY <2>1, <2>2, <2>3, <2>4, <2>5, <2>6 DEF TypeOK
<1>2. \A p \in Procs : pc[p] \in {"idle", "discover"}
  OBVIOUS
<1>3. RefreshesAreYoung
  BY <1>2 DEF RefreshesAreYoung, Refreshing
<1>4. AbsenceIsKept
  BY <1>2 DEF AbsenceIsKept
<1>5. AskedInTime /\ PublishedIsFound
  BY <1>2 DEF AskedInTime, PublishedIsFound
<1>6. Scheduled
  BY <1>2 DEF Scheduled
<1>7. QED
  BY <1>1, <1>3, <1>4, <1>5, <1>6 DEF IInv

\* Every step preserves the types.
LEMMA TypePreserved == IInv /\ [Next]_vars => TypeOK'
<1> SUFFICES ASSUME IInv, [Next]_vars PROVE TypeOK'
  OBVIOUS
<1> USE JwksAssumption DEF IInv, TypeOK, RefreshesAreYoung, Refreshing, Scheduled, Procs, Answer, NoAnswer, cacheVars, issuerVars, loopVars, requestVars
<1>1. ASSUME Rotate PROVE TypeOK'
  BY <1>1 DEF Rotate
<1>2. ASSUME Advance PROVE TypeOK'
  <2>1. (clock \in Nat /\ published \in SUBSET Kids /\ keySet \in SUBSET Kids)'
    BY <1>2 DEF Advance, Prompt
  <2>2. (absent \in [Kids -> 0..clock])'
    BY <1>2 DEF Advance, Prompt
  <2>3. (asof \in 0..lastRefresh /\ lastRefresh \in 0..clock)'
    BY <1>2 DEF Advance, Prompt
  <2>4. (lastError \in BOOLEAN /\ tick \in BOOLEAN /\ stopped \in BOOLEAN)'
    BY <1>2 DEF Advance, Prompt
  <2>5. (due \in Nat /\ (pc["loop"] \in {"wait", "fetch", "store"} => clock < due))'
    BY <1>2 DEF Advance, Prompt
  <2>6. (closer \in {"open", "waiting", "closed"})'
    BY <1>2 DEF Advance, Prompt
  <2>7. (pc \in [Procs -> {"idle", "discover", "wait", "check", "fetch", "store",
                          "again", "found", "missing", "refused", "failed", "made", "done"}])'
    BY <1>2 DEF Advance, Prompt
  <2>8. (began \in [Procs -> 0..clock])'
    BY <1>2 DEF Advance, Prompt
  <2>9. (got \in [Procs -> Answer])'
    BY <1>2 DEF Advance, Prompt
  <2>10. (\A q \in Procs : pc[q] = "store" => got[q].at \in began[q]..clock)'
    BY <1>2 DEF Advance, Prompt
  <2>11. (kid \in [Requests -> Kids] /\ arrived \in [Requests -> 0..clock])'
    BY <1>2 DEF Advance, Prompt
  <2>12. QED
    BY <2>1, <2>2, <2>3, <2>4, <2>5, <2>6, <2>7, <2>8, <2>9, <2>10, <2>11 DEF TypeOK
<1>3. ASSUME NEW p \in Procs, Fetched(p) PROVE TypeOK'
  BY <1>3 DEF Fetched, Goto
<1>4. ASSUME NEW p \in Procs, FetchFails(p) PROVE TypeOK'
  BY <1>4 DEF FetchFails, EndRefresh, AfterFailure, Goto
<1>5. ASSUME NEW p \in Procs, Store(p) PROVE TypeOK'
  <2>1. (clock \in Nat /\ published \in SUBSET Kids /\ keySet \in SUBSET Kids)'
    BY <1>5 DEF Store, EndRefresh, Goto
  <2>2. (absent \in [Kids -> 0..clock])'
    BY <1>5 DEF Store, EndRefresh, Goto
  <2>3. (asof \in 0..lastRefresh /\ lastRefresh \in 0..clock)'
    BY <1>5 DEF Store, EndRefresh, Goto
  <2>4. (lastError \in BOOLEAN /\ tick \in BOOLEAN /\ stopped \in BOOLEAN)'
    BY <1>5 DEF Store, EndRefresh, Goto
  <2>5. (due \in Nat /\ (pc["loop"] \in {"wait", "fetch", "store"} => clock < due))'
    BY <1>5 DEF Store, EndRefresh, Goto
  <2>6. (closer \in {"open", "waiting", "closed"})'
    BY <1>5 DEF Store, EndRefresh, Goto
  <2>7. (pc \in [Procs -> {"idle", "discover", "wait", "check", "fetch", "store",
                          "again", "found", "missing", "refused", "failed", "made", "done"}])'
    BY <1>5 DEF Store, EndRefresh, Goto
  <2>8. (began \in [Procs -> 0..clock])'
    BY <1>5 DEF Store, EndRefresh, Goto
  <2>9. (got \in [Procs -> Answer])'
    BY <1>5 DEF Store, EndRefresh, Goto
  <2>10. (\A q \in Procs : pc[q] = "store" => got[q].at \in began[q]..clock)'
    BY <1>5 DEF Store, EndRefresh, Goto
  <2>11. (kid \in [Requests -> Kids] /\ arrived \in [Requests -> 0..clock])'
    BY <1>5 DEF Store, EndRefresh, Goto
  <2>12. QED
    BY <2>1, <2>2, <2>3, <2>4, <2>5, <2>6, <2>7, <2>8, <2>9, <2>10, <2>11 DEF TypeOK
<1>6. ASSUME Discovered PROVE TypeOK'
  BY <1>6 DEF Discovered, BeginRefresh, Goto
<1>7. ASSUME DiscoveryFails PROVE TypeOK'
  BY <1>7 DEF DiscoveryFails, Goto
<1>8. ASSUME LoopStarts PROVE TypeOK'
  <2>1. (clock \in Nat /\ published \in SUBSET Kids /\ keySet \in SUBSET Kids)'
    BY <1>8 DEF LoopStarts, Goto
  <2>2. (absent \in [Kids -> 0..clock])'
    BY <1>8 DEF LoopStarts, Goto
  <2>3. (asof \in 0..lastRefresh /\ lastRefresh \in 0..clock)'
    BY <1>8 DEF LoopStarts, Goto
  <2>4. (lastError \in BOOLEAN /\ tick \in BOOLEAN /\ stopped \in BOOLEAN)'
    BY <1>8 DEF LoopStarts, Goto
  <2>5. (due \in Nat /\ (pc["loop"] \in {"wait", "fetch", "store"} => clock < due))'
    BY <1>8 DEF LoopStarts, Goto
  <2>6. (closer \in {"open", "waiting", "closed"})'
    BY <1>8 DEF LoopStarts, Goto
  <2>7. (pc \in [Procs -> {"idle", "discover", "wait", "check", "fetch", "store",
                          "again", "found", "missing", "refused", "failed", "made", "done"}])'
    BY <1>8 DEF LoopStarts, Goto
  <2>8. (began \in [Procs -> 0..clock])'
    BY <1>8 DEF LoopStarts, Goto
  <2>9. (got \in [Procs -> Answer])'
    BY <1>8 DEF LoopStarts, Goto
  <2>10. (\A q \in Procs : pc[q] = "store" => got[q].at \in began[q]..clock)'
    BY <1>8 DEF LoopStarts, Goto
  <2>11. (kid \in [Requests -> Kids] /\ arrived \in [Requests -> 0..clock])'
    BY <1>8 DEF LoopStarts, Goto
  <2>12. QED
    BY <2>1, <2>2, <2>3, <2>4, <2>5, <2>6, <2>7, <2>8, <2>9, <2>10, <2>11 DEF TypeOK
<1>9. ASSUME LoopTakesTick PROVE TypeOK'
  <2>1. (clock \in Nat /\ published \in SUBSET Kids /\ keySet \in SUBSET Kids)'
    BY <1>9 DEF LoopTakesTick, BeginRefresh, Goto
  <2>2. (absent \in [Kids -> 0..clock])'
    BY <1>9 DEF LoopTakesTick, BeginRefresh, Goto
  <2>3. (asof \in 0..lastRefresh /\ lastRefresh \in 0..clock)'
    BY <1>9 DEF LoopTakesTick, BeginRefresh, Goto
  <2>4. (lastError \in BOOLEAN /\ tick \in BOOLEAN /\ stopped \in BOOLEAN)'
    BY <1>9 DEF LoopTakesTick, BeginRefresh, Goto
  <2>5. (due \in Nat /\ (pc["loop"] \in {"wait", "fetch", "store"} => clock < due))'
    BY <1>9 DEF LoopTakesTick, BeginRefresh, Goto
  <2>6. (closer \in {"open", "waiting", "closed"})'
    BY <1>9 DEF LoopTakesTick, BeginRefresh, Goto
  <2>7. (pc \in [Procs -> {"idle", "discover", "wait", "check", "fetch", "store",
                          "again", "found", "missing", "refused", "failed", "made", "done"}])'
    BY <1>9 DEF LoopTakesTick, BeginRefresh, Goto
  <2>8. (began \in [Procs -> 0..clock])'
    BY <1>9 DEF LoopTakesTick, BeginRefresh, Goto
  <2>9. (got \in [Procs -> Answer])'
    BY <1>9 DEF LoopTakesTick, BeginRefresh, Goto
  <2>10. (\A q \in Procs : pc[q] = "store" => got[q].at \in began[q]..clock)'
    BY <1>9 DEF LoopTakesTick, BeginRefresh, Goto
  <2>11. (kid \in [Requests -> Kids] /\ arrived \in [Requests -> 0..clock])'
    BY <1>9 DEF LoopTakesTick, BeginRefresh, Goto
  <2>12. QED
    BY <2>1, <2>2, <2>3, <2>4, <2>5, <2>6, <2>7, <2>8, <2>9, <2>10, <2>11 DEF TypeOK
<1>10. ASSUME LoopStops PROVE TypeOK'
  BY <1>10 DEF LoopStops, Goto
<1>11. ASSUME Close PROVE TypeOK'
  BY <1>11 DEF Close
<1>12. ASSUME CloseReturns PROVE TypeOK'
  BY <1>12 DEF CloseReturns
<1>13. ASSUME NEW p \in Requests, NEW k \in Kids, Arrive(p, k) PROVE TypeOK'
  BY <1>13 DEF Arrive, Goto
<1>14. ASSUME NEW p \in Requests, ForceRefresh(p) PROVE TypeOK'
  BY <1>14 DEF ForceRefresh, BeginRefresh, Goto
<1>15. ASSUME NEW p \in Requests, TooSoon(p) PROVE TypeOK'
  BY <1>15 DEF TooSoon, Goto
<1>16. ASSUME NEW p \in Requests, LookAgain(p) PROVE TypeOK'
  BY <1>16 DEF LookAgain, Goto
<1>17. ASSUME NEW p \in Requests, Done(p) PROVE TypeOK'
  BY <1>17 DEF Done, Goto
<1>18. CASE UNCHANGED vars
  BY <1>18 DEF vars
<1>19. QED
  BY <1>1, <1>2, <1>3, <1>4, <1>5, <1>6, <1>7, <1>8, <1>9, <1>10, <1>11, <1>12, <1>13, <1>14, <1>15, <1>16, <1>17, <1>18 DEF Next, Refresh, Loop, Request

\* No step lets a refresh grow old.
LEMMA YoungPreserved == IInv /\ [Next]_vars => RefreshesAreYoung'
<1> SUFFICES ASSUME IInv, [Next]_vars PROVE RefreshesAreYoung'
  OBVIOUS
<1> USE JwksAssumption DEF IInv, TypeOK, RefreshesAreYoung, Refreshing, Procs, cacheVars, issuerVars, loopVars, requestVars
<1>1. ASSUME Rotate PROVE RefreshesAreYoung'
  BY <1>1 DEF Rotate
<1>2. ASSUME Advance PROVE RefreshesAreYoung'
  BY <1>2 DEF Advance, Prompt
<1>3. ASSUME NEW p \in Procs, Fetched(p) PROVE RefreshesAreYoung'
  BY <1>3 DEF Fetched, Goto
<1>4. ASSUME NEW p \in Procs, FetchFails(p) PROVE RefreshesAreYoung'
  BY <1>4 DEF FetchFails, EndRefresh, AfterFailure, Goto
<1>5. ASSUME NEW p \in Procs, Store(p) PROVE RefreshesAreYoung'
  BY <1>5 DEF Store, EndRefresh, Goto
<1>6. ASSUME Discovered PROVE RefreshesAreYoung'
  BY <1>6 DEF Discovered, BeginRefresh, Goto
<1>7. ASSUME DiscoveryFails PROVE RefreshesAreYoung'
  BY <1>7 DEF DiscoveryFails, Goto
<1>8. ASSUME LoopStarts PROVE RefreshesAreYoung'
  BY <1>8 DEF LoopStarts, Goto
<1>9. ASSUME LoopTakesTick PROVE RefreshesAreYoung'
  BY <1>9 DEF LoopTakesTick, BeginRefresh, Goto
<1>10. ASSUME LoopStops PROVE RefreshesAreYoung'
  BY <1>10 DEF LoopStops, Goto
<1>11. ASSUME Close PROVE RefreshesAreYoung'
  BY <1>11 DEF Close
<1>12. ASSUME CloseReturns PROVE RefreshesAreYoung'
  BY <1>12 DEF CloseReturns
<1>13. ASSUME NEW p \in Requests, NEW k \in Kids, Arrive(p, k) PROVE RefreshesAreYoung'
  BY <1>13 DEF Arrive, Goto
<1>14. ASSUME NEW p \in Requests, ForceRefresh(p) PROVE RefreshesAreYoung'
  BY <1>14 DEF ForceRefresh, BeginRefresh, Goto
<1>15. ASSUME NEW p \in Requests, TooSoon(p) PROVE RefreshesAreYoung'
  BY <1>15 DEF TooSoon, Goto
<1>16. ASSUME NEW p \in Requests, LookAgain(p) PROVE RefreshesAreYoung'
  BY <1>16 DEF LookAgain, Goto
<1>17. ASSUME NEW p \in Requests, Done(p) PROVE RefreshesAreYoung'
  BY <1>17 DEF Done, Goto
<1>18. CASE UNCHANGED vars
  BY <1>18 DEF vars
<1>19. QED
  BY <1>1, <1>2, <1>3, <1>4, <1>5, <1>6, <1>7, <1>8, <1>9, <1>10, <1>11, <1>12, <1>13, <1>14, <1>15, <1>16, <1>17, <1>18 DEF Next, Refresh, Loop, Request

\* What lacks a key keeps its reason.
LEMMA AbsencePreserved == IInv /\ [Next]_vars => AbsenceIsKept'
<1> SUFFICES ASSUME IInv, [Next]_vars PROVE AbsenceIsKept'
  OBVIOUS
<1> USE JwksAssumption DEF IInv, TypeOK, AbsenceIsKept, Procs, Answer, cacheVars, issuerVars, loopVars, requestVars
<1>1. ASSUME Rotate PROVE AbsenceIsKept'
  BY <1>1 DEF Rotate
<1>2. ASSUME Advance PROVE AbsenceIsKept'
  BY <1>2 DEF Advance, Prompt
<1>3. ASSUME NEW p \in Procs, Fetched(p) PROVE AbsenceIsKept'
  BY <1>3 DEF Fetched, Goto
<1>4. ASSUME NEW p \in Procs, FetchFails(p) PROVE AbsenceIsKept'
  BY <1>4 DEF FetchFails, EndRefresh, AfterFailure, Goto
<1>5. ASSUME NEW p \in Procs, Store(p) PROVE AbsenceIsKept'
  BY <1>5 DEF Store, EndRefresh, Goto
<1>6. ASSUME Discovered PROVE AbsenceIsKept'
  BY <1>6 DEF Discovered, BeginRefresh, Goto
<1>7. ASSUME DiscoveryFails PROVE AbsenceIsKept'
  BY <1>7 DEF DiscoveryFails, Goto
<1>8. ASSUME LoopStarts PROVE AbsenceIsKept'
  BY <1>8 DEF LoopStarts, Goto
<1>9. ASSUME LoopTakesTick PROVE AbsenceIsKept'
  BY <1>9 DEF LoopTakesTick, BeginRefresh, Goto
<1>10. ASSUME LoopStops PROVE AbsenceIsKept'
  BY <1>10 DEF LoopStops, Goto
<1>11. ASSUME Close PROVE AbsenceIsKept'
  BY <1>11 DEF Close
<1>12. ASSUME CloseReturns PROVE AbsenceIsKept'
  BY <1>12 DEF CloseReturns
<1>13. ASSUME NEW p \in Requests, NEW k \in Kids, Arrive(p, k) PROVE AbsenceIsKept'
  BY <1>13 DEF Arrive, Goto
<1>14. ASSUME NEW p \in Requests, ForceRefresh(p) PROVE AbsenceIsKept'
  BY <1>14 DEF ForceRefresh, BeginRefresh, Goto
<1>15. ASSUME NEW p \in Requests, TooSoon(p) PROVE AbsenceIsKept'
  BY <1>15 DEF TooSoon, Goto
<1>16. ASSUME NEW p \in Requests, LookAgain(p) PROVE AbsenceIsKept'
  BY <1>16 DEF LookAgain, Goto
<1>17. ASSUME NEW p \in Requests, Done(p) PROVE AbsenceIsKept'
  BY <1>17 DEF Done, Goto
<1>18. CASE UNCHANGED vars
  BY <1>18 DEF vars
<1>19. QED
  BY <1>1, <1>2, <1>3, <1>4, <1>5, <1>6, <1>7, <1>8, <1>9, <1>10, <1>11, <1>12, <1>13, <1>14, <1>15, <1>16, <1>17, <1>18 DEF Next, Refresh, Loop, Request

\* No request looks again too late.
LEMMA AskedPreserved == IInv /\ [Next]_vars => AskedInTime'
<1> SUFFICES ASSUME IInv, [Next]_vars PROVE AskedInTime'
  OBVIOUS
<1> USE JwksAssumption DEF IInv, TypeOK, AskedInTime, Procs, cacheVars, issuerVars, loopVars, requestVars
<1>1. ASSUME Rotate PROVE AskedInTime'
  BY <1>1 DEF Rotate
<1>2. ASSUME Advance PROVE AskedInTime'
  BY <1>2 DEF Advance, Prompt
<1>3. ASSUME NEW p \in Procs, Fetched(p) PROVE AskedInTime'
  BY <1>3 DEF Fetched, Goto
<1>4. ASSUME NEW p \in Procs, FetchFails(p) PROVE AskedInTime'
  BY <1>4 DEF FetchFails, EndRefresh, AfterFailure, Goto
<1>5. ASSUME NEW p \in Procs, Store(p) PROVE AskedInTime'
  BY <1>5 DEF Store, EndRefresh, Goto
<1>6. ASSUME Discovered PROVE AskedInTime'
  BY <1>6 DEF Discovered, BeginRefresh, Goto
<1>7. ASSUME DiscoveryFails PROVE AskedInTime'
  BY <1>7 DEF DiscoveryFails, Goto
<1>8. ASSUME LoopStarts PROVE AskedInTime'
  BY <1>8 DEF LoopStarts, Goto
<1>9. ASSUME LoopTakesTick PROVE AskedInTime'
  BY <1>9 DEF LoopTakesTick, BeginRefresh, Goto
<1>10. ASSUME LoopStops PROVE AskedInTime'
  BY <1>10 DEF LoopStops, Goto
<1>11. ASSUME Close PROVE AskedInTime'
  BY <1>11 DEF Close
<1>12. ASSUME CloseReturns PROVE AskedInTime'
  BY <1>12 DEF CloseReturns
<1>13. ASSUME NEW p \in Requests, NEW k \in Kids, Arrive(p, k) PROVE AskedInTime'
  BY <1>13 DEF Arrive, Goto
<1>14. ASSUME NEW p \in Requests, ForceRefresh(p) PROVE AskedInTime'
  BY <1>14 DEF ForceRefresh, BeginRefresh, Goto
<1>15. ASSUME NEW p \in Requests, TooSoon(p) PROVE AskedInTime'
  BY <1>15 DEF TooSoon, Goto
<1>16. ASSUME NEW p \in Requests, LookAgain(p) PROVE AskedInTime'
  BY <1>16 DEF LookAgain, Goto
<1>17. ASSUME NEW p \in Requests, Done(p) PROVE AskedInTime'
  BY <1>17 DEF Done, Goto
<1>18. CASE UNCHANGED vars
  BY <1>18 DEF vars
<1>19. QED
  BY <1>1, <1>2, <1>3, <1>4, <1>5, <1>6, <1>7, <1>8, <1>9, <1>10, <1>11, <1>12, <1>13, <1>14, <1>15, <1>16, <1>17, <1>18 DEF Next, Refresh, Loop, Request

\* The ticker keeps its distance.
LEMMA SchedulePreserved == IInv /\ [Next]_vars => Scheduled'
<1> SUFFICES ASSUME IInv, [Next]_vars PROVE Scheduled'
  OBVIOUS
<1> USE JwksAssumption DEF IInv, TypeOK, RefreshesAreYoung, Refreshing, Scheduled, Lag, Procs, cacheVars, issuerVars, loopVars, requestVars
<1>1. ASSUME Rotate PROVE Scheduled'
  BY <1>1 DEF Rotate
<1>2. ASSUME Advance PROVE Scheduled'
  BY <1>2 DEF Advance, Prompt
<1>3. ASSUME NEW p \in Procs, Fetched(p) PROVE Scheduled'
  BY <1>3 DEF Fetched, Goto
<1>4. ASSUME NEW p \in Procs, FetchFails(p) PROVE Scheduled'
  BY <1>4 DEF FetchFails, EndRefresh, AfterFailure, Goto
<1>5. ASSUME NEW p \in Procs, Store(p) PROVE Scheduled'
  BY <1>5 DEF Store, EndRefresh, Goto
<1>6. ASSUME Discovered PROVE Scheduled'
  BY <1>6 DEF Discovered, BeginRefresh, Goto
<1>7. ASSUME DiscoveryFails PROVE Scheduled'
  BY <1>7 DEF DiscoveryFails, Goto
<1>8. ASSUME LoopStarts PROVE Scheduled'
  BY <1>8 DEF LoopStarts, Goto
<1>9. ASSUME LoopTakesTick PROVE Scheduled'
  BY <1>9 DEF LoopTakesTick, BeginRefresh, Goto
<1>10. ASSUME LoopStops PROVE Scheduled'
  BY <1>10 DEF LoopStops, Goto
<1>11. ASSUME Close PROVE Scheduled'
  BY <1>11 DEF Close
<1>12. ASSUME CloseReturns PROVE Scheduled'
  BY <1>12 DEF CloseReturns
<1>13. ASSUME NEW p \in Requests, NEW k \in Kids, Arrive(p, k) PROVE Scheduled'
  BY <1>13 DEF Arrive, Goto
<1>14. ASSUME NEW p \in Requests, ForceRefresh(p) PROVE Scheduled'
  BY <1>14 DEF ForceRefresh, BeginRefresh, Goto
<1>15. ASSUME NEW p \in Requests, TooSoon(p) PROVE Scheduled'
  BY <1>15 DEF TooSoon, Goto
<1>16. ASSUME NEW p \in Requests, LookAgain(p) PROVE Scheduled'
  BY <1>16 DEF LookAgain, Goto
<1>17. ASSUME NEW p \in Requests, Done(p) PROVE Scheduled'
  BY <1>17 DEF Done, Goto
<1>18. CASE UNCHANGED vars
  BY <1>18 DEF vars
<1>19. QED
  BY <1>1, <1>2, <1>3, <1>4, <1>5, <1>6, <1>7, <1>8, <1>9, <1>10, <1>11, <1>12, <1>13, <1>14, <1>15, <1>16, <1>17, <1>18 DEF Next, Refresh, Loop, Request

\* No request is refused a key that was published long enough.
LEMMA FoundPreserved == IInv /\ [Next]_vars => PublishedIsFound'
<1> SUFFICES ASSUME IInv, [Next]_vars PROVE PublishedIsFound'
  OBVIOUS
<1> USE JwksAssumption DEF IInv, TypeOK, RefreshesAreYoung, AbsenceIsKept, AskedInTime, PublishedIsFound, Procs, cacheVars, issuerVars, loopVars, requestVars
<1>1. ASSUME Rotate PROVE PublishedIsFound'
  BY <1>1 DEF Rotate
<1>2. ASSUME Advance PROVE PublishedIsFound'
  BY <1>2 DEF Advance, Prompt
<1>3. ASSUME NEW p \in Procs, Fetched(p) PROVE PublishedIsFound'
  BY <1>3 DEF Fetched, Goto
<1>4. ASSUME NEW p \in Procs, FetchFails(p) PROVE PublishedIsFound'
  BY <1>4 DEF FetchFails, EndRefresh, AfterFailure, Goto
<1>5. ASSUME NEW p \in Procs, Store(p) PROVE PublishedIsFound'
  BY <1>5 DEF Store, EndRefresh, Goto
<1>6. ASSUME Discovered PROVE PublishedIsFound'
  BY <1>6 DEF Discovered, BeginRefresh, Goto
<1>7. ASSUME DiscoveryFails PROVE PublishedIsFound'
  BY <1>7 DEF DiscoveryFails, Goto
<1>8. ASSUME LoopStarts PROVE PublishedIsFound'
  BY <1>8 DEF LoopStarts, Goto
<1>9. ASSUME LoopTakesTick PROVE PublishedIsFound'
  BY <1>9 DEF LoopTakesTick, BeginRefresh, Goto
<1>10. ASSUME LoopStops PROVE PublishedIsFound'
  BY <1>10 DEF LoopStops, Goto
<1>11. ASSUME Close PROVE PublishedIsFound'
  BY <1>11 DEF Close
<1>12. ASSUME CloseReturns PROVE PublishedIsFound'
  BY <1>12 DEF CloseReturns
<1>13. ASSUME NEW p \in Requests, NEW k \in Kids, Arrive(p, k) PROVE PublishedIsFound'
  BY <1>13 DEF Arrive, Goto
<1>14. ASSUME NEW p \in Requests, ForceRefresh(p) PROVE PublishedIsFound'
  BY <1>14 DEF ForceRefresh, BeginRefresh, Goto
<1>15. ASSUME NEW p \in Requests, TooSoon(p) PROVE PublishedIsFound'
  BY <1>15 DEF TooSoon, Goto
<1>16. ASSUME NEW p \in Requests, LookAgain(p) PROVE PublishedIsFound'
  BY <1>16 DEF LookAgain, Goto
<1>17. ASSUME NEW p \in Requests, Done(p) PROVE PublishedIsFound'
  BY <1>17 DEF Done, Goto
<1>18. CASE UNCHANGED vars
  BY <1>18 DEF vars
<1>19. QED
  BY <1>1, <1>2, <1>3, <1>4, <1>5, <1>6, <1>7, <1>8, <1>9, <1>10, <1>11, <1>12, <1>13, <1>14, <1>15, <1>16, <1>17, <1>18 DEF Next, Refresh, Loop, Request

-----------------------------------------------------------------------------
\* The invariant holds in every reachable state.
LEMMA Invariant == Spec => []IInv
<1>1. IInv /\ [Next]_vars => IInv'
  BY TypePreserved, YoungPreserved, AbsencePreserved, AskedPreserved, SchedulePreserved,
     FoundPreserved DEF IInv
<1>2. QED
  BY InitIInv, <1>1, PTL DEF Spec

\* The invariant bounds the age of what a healthy cache holds.
LEMMA IInvIsFresh == IInv => HealthyIsFresh
BY JwksAssumption
DEF IInv, TypeOK, RefreshesAreYoung, Refreshing, Scheduled, Lag, HealthyIsFresh, Procs

\* The variables keep their types, and the ticker stays ahead of the clock.
THEOREM TypesAreKept == Spec => []TypeOK
<1>1. IInv => TypeOK
  BY DEF IInv
<1>2. QED
  BY Invariant, <1>1, PTL

\* While the refresh loop runs and LastError is nil, the set GetKey reads is no
\* older than one interval and two timeouts.
THEOREM HealthyCacheIsFresh == Spec => []HealthyIsFresh
BY Invariant, IInvIsFresh, PTL

\* getKey refuses no key that was published since one minimal interval and one
\* timeout before the request, unless the request's own fetch failed.
THEOREM PublishedKeyIsFound == Spec => []PublishedIsFound
<1>1. IInv => PublishedIsFound
  BY DEF IInv
<1>2. QED
  BY Invariant, <1>1, PTL
=============================================================================
