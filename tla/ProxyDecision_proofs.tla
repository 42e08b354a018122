------------------------- MODULE ProxyDecision_proofs -------------------------
(***************************************************************************)
(* Proofs about ProxyDecision, for any tags, items, advisories, requests   *)
(* and times.                                                              *)
(***************************************************************************)
EXTENDS ProxyDecision, TLAPS

\* The histories are up to date.
HistoriesAreCurrent ==
    /\ \A t \in Tags : held[t][tagged[t]] = clock
    /\ \A v \in Advisories : v \notin served => unserved[v] = clock
    /\ \A v \in Advisories, x \in Items : x \notin affects[v] => unaffected[v][x] = clock

\* An entry was true one call before it was made.
DigestsAreRecent ==
    \A t \in Tags :
        /\ digestCache[t].value # None => clock <= digestCache[t].until
        /\ digestCache[t].value = Failed => digestCache[t].until <= failed[t] + DigestTTL
        /\ \A d \in Digests : digestCache[t].value = d =>
               digestCache[t].until <= held[t][d] + HeadDelay + DigestTTL

RecordsAreRecent ==
    \A v \in Advisories : OnDisk(v) =>
        /\ clock <= records[v].until
        /\ \A x \in Items : x \notin records[v].value =>
               records[v].until <= unaffected[v][x] + RecordTTL

\* Until time at, no answer that is n old has to know that v is about x.
Excused(at, n, v, x) ==
    \/ at <= unaffected[v][x] + RecordTTL + n
    \/ at <= unserved[v] + n

FindingsAreRecent ==
    \A x \in Items :
        /\ findings[x].value # "none" => clock <= findings[x].until
        /\ findings[x].value = "clean" =>
               \A v \in Advisories : Excused(findings[x].until, TTL(x) + ScanDelay, v, x)

\* No call is overdue.
CallsAreYoung ==
    \A p \in Requests :
        /\ pc[p] \in {"head", "resolved"} => clock <= began[p] + HeadDelay
        /\ pc[p] \in {"scan", "scanned", "query"} => clock <= began[p] + ScanDelay

\* The digest of a tag that a request goes on with was the tag's not long ago, ...
ResolvedRecently ==
    \A p \in Requests : asked[p] \in Tags /\ digest[p] # None =>
        LET h == held[asked[p]][digest[p]]
        IN  /\ pc[p] # "head"
            /\ pc[p] = "resolved" => began[p] <= h
            /\ pc[p] = "lookup" => clock <= h + DigestTTL + HeadDelay
            /\ pc[p] \in {"scan", "scanned"} => began[p] <= h + DigestTTL + HeadDelay
            /\ pc[p] = "check" => clock <= h + DigestTTL + HeadDelay + ScanDelay

\* ... and one that goes on without has a recent failure behind it, or no reference.
FailedRecently ==
    \A p \in Requests : asked[p] \in Tags \ Unbuildable /\ digest[p] = None =>
        /\ pc[p] \in {"scan", "scanned"} => began[p] <= failed[asked[p]] + DigestTTL
        /\ pc[p] = "check" => clock <= failed[asked[p]] + DigestTTL + ScanDelay

\* Findings are about what the request asks for, and not old.
JudgedRecently ==
    \A p \in Requests :
        /\ asked[p] \in Digests \ Unbuildable => digest[p] = asked[p]
        /\ asked[p] \in Packages => digest[p] = None
        /\ judged[p] # None => pc[p] \in {"scanned", "check"} /\ verdict[p] # "none"
        /\ judged[p] # None /\ Subject(p) # None => judged[p] = Subject(p)
        /\ pc[p] = "scanned" => judged[p] # None
        /\ \A x \in Items, v \in Advisories : judged[p] = x /\ verdict[p] = "clean" =>
              /\ pc[p] = "scanned" => Excused(began[p], 0, v, x)
              /\ pc[p] = "check" => Excused(clock, TTL(x) + ScanDelay, v, x)

IInv ==
    /\ TypeOK
    /\ HistoriesAreCurrent
    /\ DigestsAreRecent
    /\ RecordsAreRecent
    /\ FindingsAreRecent
    /\ CallsAreYoung
    /\ ResolvedRecently
    /\ FailedRecently
    /\ JudgedRecently

\* Nothing is cached and no request waits at first.
LEMMA InitIInv == Init => IInv
<1> SUFFICES ASSUME Init PROVE IInv
  OBVIOUS
<1> USE ProxyAssumption DEF Init, NoEntry, Items
<1>1. TypeOK
  BY DEF TypeOK, Verdicts, Waiting
<1>2. HistoriesAreCurrent
  BY DEF HistoriesAreCurrent
<1>3. DigestsAreRecent /\ RecordsAreRecent /\ FindingsAreRecent
  BY DEF DigestsAreRecent, RecordsAreRecent, OnDisk, FindingsAreRecent
<1>4. CallsAreYoung /\ ResolvedRecently /\ FailedRecently
  BY DEF CallsAreYoung, ResolvedRecently, FailedRecently
<1>5. JudgedRecently
  BY DEF JudgedRecently, Subject
<1>6. QED
  BY <1>1, <1>2, <1>3, <1>4, <1>5 DEF IInv

\* An advisory that an answer leaves out was not about the item a record ago, or has
\* no record.
LEMMA LeftOut ==
  ASSUME IInv, NEW x \in Items, NEW v \in Advisories, Found(x) = {}
  PROVE  Excused(clock, 0, v, x)
<1> USE ProxyAssumption DEF IInv, TypeOK, Excused
<1>1. CASE x \notin affects[v]
  BY <1>1 DEF HistoriesAreCurrent
<1>2. CASE x \in affects[v] /\ ~OnDisk(v)
  <2>1. v \notin served
    BY <1>2 DEF Found, Record
  <2>2. QED
    BY <2>1 DEF HistoriesAreCurrent
<1>3. CASE x \in affects[v] /\ OnDisk(v)
  <2>1. x \notin records[v].value
    BY <1>3 DEF Found, Record
  <2>2. QED
    BY <1>3, <2>1 DEF RecordsAreRecent
<1>4. QED
  BY <1>1, <1>2, <1>3

\* Every step preserves the types.
LEMMA TypePreserved == IInv /\ [Next]_vars => TypeOK'
<1> SUFFICES ASSUME IInv, [Next]_vars PROVE TypeOK'
  OBVIOUS
<1> USE ProxyAssumption DEF IInv, TypeOK, Subject, Items, Verdicts, Waiting, NoEntry, Entry, TTL, settings, world, caches, inputs
<1>1. ASSUME NEW t \in Tags, NEW d \in Digests, Push(t, d) PROVE TypeOK'
  <2>1. (clock \in Nat /\ cfg \in Configs /\ changes \in Nat)'
    BY <1>1 DEF Push
  <2>2. (tagged \in [Tags -> Digests] /\ held \in [Tags -> [Digests -> 0..clock]])'
    BY <1>1 DEF Push
  <2>3. (affects \in [Advisories -> SUBSET Items])'
    BY <1>1 DEF Push
  <2>4. (unaffected \in [Advisories -> [Items -> 0..clock]])'
    BY <1>1 DEF Push
  <2>5. (served \subseteq Advisories /\ unserved \in [Advisories -> 0..clock])'
    BY <1>1 DEF Push
  <2>6. (failed \in [Tags -> 0..clock])'
    BY <1>1 DEF Push
  <2>7. (digestCache \in [Tags -> [value : Digests \cup {None, Failed}, until : Nat]])'
    BY <1>1 DEF Push
  <2>8. (findings \in [Items -> [value : Verdicts, until : Nat]])'
    BY <1>1 DEF Push
  <2>9. (records \in [Advisories -> [value : SUBSET Items, until : Nat]])'
    BY <1>1 DEF Push
  <2>10. (pc \in [Requests -> Waiting \cup {"idle", "lookup", "check"}])'
    BY <1>1 DEF Push
  <2>11. (asked \in [Requests -> Tags \cup Items \cup {None}])'
    BY <1>1 DEF Push
  <2>12. (digest \in [Requests -> Digests \cup {None}] /\ judged \in [Requests -> Items \cup {None}])'
    BY <1>1 DEF Push
  <2>13. (verdict \in [Requests -> Verdicts])'
    BY <1>1 DEF Push
  <2>14. (began \in [Requests -> 0..clock])'
    BY <1>1 DEF Push
  <2>15. (\A q \in Requests :
          /\ pc[q] \in {"head", "resolved"} => asked[q] \in Tags
          /\ pc[q] = "query" => asked[q] \in Packages
          /\ pc[q] \in {"lookup", "resolved"} => Subject(q) # None
          /\ pc[q] = "scan" => asked[q] \in Tags \/ digest[q] # None
          /\ pc[q] # "idle" => asked[q] # None)'
    BY <1>1 DEF Push
  <2>16. QED
    BY <2>1, <2>2, <2>3, <2>4, <2>5, <2>6, <2>7, <2>8, <2>9, <2>10, <2>11, <2>12, <2>13, <2>14, <2>15 DEF TypeOK
<1>2. ASSUME NEW v \in Advisories, NEW x \in Items, Publish(v, x) PROVE TypeOK'
  <2>1. (clock \in Nat /\ cfg \in Configs /\ changes \in Nat)'
    BY <1>2 DEF Publish
  <2>2. (tagged \in [Tags -> Digests] /\ held \in [Tags -> [Digests -> 0..clock]])'
    BY <1>2 DEF Publish
  <2>3. (affects \in [Advisories -> SUBSET Items])'
    BY <1>2 DEF Publish
  <2>4. (unaffected \in [Advisories -> [Items -> 0..clock]])'
    BY <1>2 DEF Publish
  <2>5. (served \subseteq Advisories /\ unserved \in [Advisories -> 0..clock])'
    BY <1>2 DEF Publish
  <2>6. (failed \in [Tags -> 0..clock])'
    BY <1>2 DEF Publish
  <2>7. (digestCache \in [Tags -> [value : Digests \cup {None, Failed}, until : Nat]])'
    BY <1>2 DEF Publish
  <2>8. (findings \in [Items -> [value : Verdicts, until : Nat]])'
    BY <1>2 DEF Publish
  <2>9. (records \in [Advisories -> [value : SUBSET Items, until : Nat]])'
    BY <1>2 DEF Publish
  <2>10. (pc \in [Requests -> Waiting \cup {"idle", "lookup", "check"}])'
    BY <1>2 DEF Publish
  <2>11. (asked \in [Requests -> Tags \cup Items \cup {None}])'
    BY <1>2 DEF Publish
  <2>12. (digest \in [Requests -> Digests \cup {None}] /\ judged \in [Requests -> Items \cup {None}])'
    BY <1>2 DEF Publish
  <2>13. (verdict \in [Requests -> Verdicts])'
    BY <1>2 DEF Publish
  <2>14. (began \in [Requests -> 0..clock])'
    BY <1>2 DEF Publish
  <2>15. (\A q \in Requests :
          /\ pc[q] \in {"head", "resolved"} => asked[q] \in Tags
          /\ pc[q] = "query" => asked[q] \in Packages
          /\ pc[q] \in {"lookup", "resolved"} => Subject(q) # None
          /\ pc[q] = "scan" => asked[q] \in Tags \/ digest[q] # None
          /\ pc[q] # "idle" => asked[q] # None)'
    BY <1>2 DEF Publish
  <2>16. QED
    BY <2>1, <2>2, <2>3, <2>4, <2>5, <2>6, <2>7, <2>8, <2>9, <2>10, <2>11, <2>12, <2>13, <2>14, <2>15 DEF TypeOK
<1>3. ASSUME NEW v \in Advisories, Serve(v) PROVE TypeOK'
  <2>1. (clock \in Nat /\ cfg \in Configs /\ changes \in Nat)'
    BY <1>3 DEF Serve
  <2>2. (tagged \in [Tags -> Digests] /\ held \in [Tags -> [Digests -> 0..clock]])'
    BY <1>3 DEF Serve
  <2>3. (affects \in [Advisories -> SUBSET Items])'
    BY <1>3 DEF Serve
  <2>4. (unaffected \in [Advisories -> [Items -> 0..clock]])'
    BY <1>3 DEF Serve
  <2>5. (served \subseteq Advisories /\ unserved \in [Advisories -> 0..clock])'
    BY <1>3 DEF Serve
  <2>6. (failed \in [Tags -> 0..clock])'
    BY <1>3 DEF Serve
  <2>7. (digestCache \in [Tags -> [value : Digests \cup {None, Failed}, until : Nat]])'
    BY <1>3 DEF Serve
  <2>8. (findings \in [Items -> [value : Verdicts, until : Nat]])'
    BY <1>3 DEF Serve
  <2>9. (records \in [Advisories -> [value : SUBSET Items, until : Nat]])'
    BY <1>3 DEF Serve
  <2>10. (pc \in [Requests -> Waiting \cup {"idle", "lookup", "check"}])'
    BY <1>3 DEF Serve
  <2>11. (asked \in [Requests -> Tags \cup Items \cup {None}])'
    BY <1>3 DEF Serve
  <2>12. (digest \in [Requests -> Digests \cup {None}] /\ judged \in [Requests -> Items \cup {None}])'
    BY <1>3 DEF Serve
  <2>13. (verdict \in [Requests -> Verdicts])'
    BY <1>3 DEF Serve
  <2>14. (began \in [Requests -> 0..clock])'
    BY <1>3 DEF Serve
  <2>15. (\A q \in Requests :
          /\ pc[q] \in {"head", "resolved"} => asked[q] \in Tags
          /\ pc[q] = "query" => asked[q] \in Packages
          /\ pc[q] \in {"lookup", "resolved"} => Subject(q) # None
          /\ pc[q] = "scan" => asked[q] \in Tags \/ digest[q] # None
          /\ pc[q] # "idle" => asked[q] # None)'
    BY <1>3 DEF Serve
  <2>16. QED
    BY <2>1, <2>2, <2>3, <2>4, <2>5, <2>6, <2>7, <2>8, <2>9, <2>10, <2>11, <2>12, <2>13, <2>14, <2>15 DEF TypeOK
<1>4. ASSUME Advance PROVE TypeOK'
  <2>1. (clock \in Nat /\ cfg \in Configs /\ changes \in Nat)'
    BY <1>4 DEF Advance, Kept
  <2>2. (tagged \in [Tags -> Digests] /\ held \in [Tags -> [Digests -> 0..clock]])'
    BY <1>4 DEF Advance, Kept
  <2>3. (affects \in [Advisories -> SUBSET Items])'
    BY <1>4 DEF Advance, Kept
  <2>4. (unaffected \in [Advisories -> [Items -> 0..clock]])'
    BY <1>4 DEF Advance, Kept
  <2>5. (served \subseteq Advisories /\ unserved \in [Advisories -> 0..clock])'
    BY <1>4 DEF Advance, Kept
  <2>6. (failed \in [Tags -> 0..clock])'
    BY <1>4 DEF Advance, Kept
  <2>7. (digestCache \in [Tags -> [value : Digests \cup {None, Failed}, until : Nat]])'
    BY <1>4 DEF Advance, Kept
  <2>8. (findings \in [Items -> [value : Verdicts, until : Nat]])'
    BY <1>4 DEF Advance, Kept
  <2>9. (records \in [Advisories -> [value : SUBSET Items, until : Nat]])'
    BY <1>4 DEF Advance, Kept
  <2>10. (pc \in [Requests -> Waiting \cup {"idle", "lookup", "check"}])'
    BY <1>4 DEF Advance, Kept
  <2>11. (asked \in [Requests -> Tags \cup Items \cup {None}])'
    BY <1>4 DEF Advance, Kept
  <2>12. (digest \in [Requests -> Digests \cup {None}] /\ judged \in [Requests -> Items \cup {None}])'
    BY <1>4 DEF Advance, Kept
  <2>13. (verdict \in [Requests -> Verdicts])'
    BY <1>4 DEF Advance, Kept
  <2>14. (began \in [Requests -> 0..clock])'
    BY <1>4 DEF Advance, Kept
  <2>15. (\A q \in Requests :
          /\ pc[q] \in {"head", "resolved"} => asked[q] \in Tags
          /\ pc[q] = "query" => asked[q] \in Packages
          /\ pc[q] \in {"lookup", "resolved"} => Subject(q) # None
          /\ pc[q] = "scan" => asked[q] \in Tags \/ digest[q] # None
          /\ pc[q] # "idle" => asked[q] # None)'
    BY <1>4 DEF Advance, Kept
  <2>16. QED
    BY <2>1, <2>2, <2>3, <2>4, <2>5, <2>6, <2>7, <2>8, <2>9, <2>10, <2>11, <2>12, <2>13, <2>14, <2>15 DEF TypeOK
<1>5. ASSUME NEW t \in Tags, EvictDigest(t) PROVE TypeOK'
  BY <1>5 DEF EvictDigest
<1>6. ASSUME NEW x \in Items, EvictFindings(x) PROVE TypeOK'
  BY <1>6 DEF EvictFindings
<1>7. ASSUME NEW v \in Advisories, FetchRecord(v) PROVE TypeOK'
  <2>1. (clock \in Nat /\ cfg \in Configs /\ changes \in Nat)'
    BY <1>7 DEF FetchRecord
  <2>2. (tagged \in [Tags -> Digests] /\ held \in [Tags -> [Digests -> 0..clock]])'
    BY <1>7 DEF FetchRecord
  <2>3. (affects \in [Advisories -> SUBSET Items])'
    BY <1>7 DEF FetchRecord
  <2>4. (unaffected \in [Advisories -> [Items -> 0..clock]])'
    BY <1>7 DEF FetchRecord
  <2>5. (served \subseteq Advisories /\ unserved \in [Advisories -> 0..clock])'
    BY <1>7 DEF FetchRecord
  <2>6. (failed \in [Tags -> 0..clock])'
    BY <1>7 DEF FetchRecord
  <2>7. (digestCache \in [Tags -> [value : Digests \cup {None, Failed}, until : Nat]])'
    BY <1>7 DEF FetchRecord
  <2>8. (findings \in [Items -> [value : Verdicts, until : Nat]])'
    BY <1>7 DEF FetchRecord
  <2>9. (records \in [Advisories -> [value : SUBSET Items, until : Nat]])'
    BY <1>7 DEF FetchRecord
  <2>10. (pc \in [Requests -> Waiting \cup {"idle", "lookup", "check"}])'
    BY <1>7 DEF FetchRecord
  <2>11. (asked \in [Requests -> Tags \cup Items \cup {None}])'
    BY <1>7 DEF FetchRecord
  <2>12. (digest \in [Requests -> Digests \cup {None}] /\ judged \in [Requests -> Items \cup {None}])'
    BY <1>7 DEF FetchRecord
  <2>13. (verdict \in [Requests -> Verdicts])'
    BY <1>7 DEF FetchRecord
  <2>14. (began \in [Requests -> 0..clock])'
    BY <1>7 DEF FetchRecord
  <2>15. (\A q \in Requests :
          /\ pc[q] \in {"head", "resolved"} => asked[q] \in Tags
          /\ pc[q] = "query" => asked[q] \in Packages
          /\ pc[q] \in {"lookup", "resolved"} => Subject(q) # None
          /\ pc[q] = "scan" => asked[q] \in Tags \/ digest[q] # None
          /\ pc[q] # "idle" => asked[q] # None)'
    BY <1>7 DEF FetchRecord
  <2>16. QED
    BY <2>1, <2>2, <2>3, <2>4, <2>5, <2>6, <2>7, <2>8, <2>9, <2>10, <2>11, <2>12, <2>13, <2>14, <2>15 DEF TypeOK
<1>8. ASSUME NEW v \in Advisories, LoseRecord(v) PROVE TypeOK'
  BY <1>8 DEF LoseRecord
<1>9. ASSUME NEW p \in Requests, NEW x \in Items, ArriveItem(p, x) PROVE TypeOK'
  BY <1>9 DEF ArriveItem, Arrive, Goto
<1>10. ASSUME NEW p \in Requests, NEW x \in Unbuildable, ArriveUnread(p, x) PROVE TypeOK'
  BY <1>10 DEF ArriveUnread, Arrive, Goto
<1>11. ASSUME NEW p \in Requests, NEW t \in Tags, ArriveTag(p, t) PROVE TypeOK'
  <2>1. (/\ clock \in Nat /\ cfg \in Configs /\ changes \in Nat
         /\ tagged \in [Tags -> Digests] /\ held \in [Tags -> [Digests -> 0..clock]]
         /\ affects \in [Advisories -> SUBSET Items]
         /\ unaffected \in [Advisories -> [Items -> 0..clock]]
         /\ served \subseteq Advisories /\ unserved \in [Advisories -> 0..clock]
         /\ failed \in [Tags -> 0..clock]
         /\ digestCache \in [Tags -> [value : Digests \cup {None, Failed}, until : Nat]]
         /\ findings \in [Items -> [value : Verdicts, until : Nat]]
         /\ records \in [Advisories -> [value : SUBSET Items, until : Nat]])'
    BY <1>11 DEF ArriveTag, Arrive, Goto
  <2>2. (/\ pc \in [Requests -> Waiting \cup {"idle", "lookup", "check"}]
         /\ asked \in [Requests -> Tags \cup Items \cup {None}]
         /\ digest \in [Requests -> Digests \cup {None}]
         /\ judged \in [Requests -> Items \cup {None}]
         /\ verdict \in [Requests -> Verdicts]
         /\ began \in [Requests -> 0..clock])'
    BY <1>11 DEF ArriveTag, Arrive, Goto
  <2>3. (\A q \in Requests :
          /\ pc[q] \in {"head", "resolved"} => asked[q] \in Tags
          /\ pc[q] = "query" => asked[q] \in Packages
          /\ pc[q] \in {"lookup", "resolved"} => Subject(q) # None
          /\ pc[q] = "scan" => asked[q] \in Tags \/ digest[q] # None
          /\ pc[q] # "idle" => asked[q] # None)'
    BY <1>11 DEF ArriveTag, Arrive, Goto
  <2>4. QED
    BY <2>1, <2>2, <2>3 DEF TypeOK
<1>12. ASSUME NEW p \in Requests, NEW t \in Tags, ArriveFailed(p, t) PROVE TypeOK'
  <2>1. (/\ clock \in Nat /\ cfg \in Configs /\ changes \in Nat
         /\ tagged \in [Tags -> Digests] /\ held \in [Tags -> [Digests -> 0..clock]]
         /\ affects \in [Advisories -> SUBSET Items]
         /\ unaffected \in [Advisories -> [Items -> 0..clock]]
         /\ served \subseteq Advisories /\ unserved \in [Advisories -> 0..clock]
         /\ failed \in [Tags -> 0..clock]
         /\ digestCache \in [Tags -> [value : Digests \cup {None, Failed}, until : Nat]]
         /\ findings \in [Items -> [value : Verdicts, until : Nat]]
         /\ records \in [Advisories -> [value : SUBSET Items, until : Nat]])'
    BY <1>12 DEF ArriveFailed, Arrive, Wait, Goto
  <2>2. (/\ pc \in [Requests -> Waiting \cup {"idle", "lookup", "check"}]
         /\ asked \in [Requests -> Tags \cup Items \cup {None}]
         /\ digest \in [Requests -> Digests \cup {None}]
         /\ judged \in [Requests -> Items \cup {None}]
         /\ verdict \in [Requests -> Verdicts]
         /\ began \in [Requests -> 0..clock])'
    BY <1>12 DEF ArriveFailed, Arrive, Wait, Goto
  <2>3. (\A q \in Requests :
          /\ pc[q] \in {"head", "resolved"} => asked[q] \in Tags
          /\ pc[q] = "query" => asked[q] \in Packages
          /\ pc[q] \in {"lookup", "resolved"} => Subject(q) # None
          /\ pc[q] = "scan" => asked[q] \in Tags \/ digest[q] # None
          /\ pc[q] # "idle" => asked[q] # None)'
    BY <1>12 DEF ArriveFailed, Arrive, Wait, Goto
  <2>4. QED
    BY <2>1, <2>2, <2>3 DEF TypeOK
<1>13. ASSUME NEW p \in Requests, NEW t \in Tags, ArriveMiss(p, t) PROVE TypeOK'
  <2>1. (/\ clock \in Nat /\ cfg \in Configs /\ changes \in Nat
         /\ tagged \in [Tags -> Digests] /\ held \in [Tags -> [Digests -> 0..clock]]
         /\ affects \in [Advisories -> SUBSET Items]
         /\ unaffected \in [Advisories -> [Items -> 0..clock]]
         /\ served \subseteq Advisories /\ unserved \in [Advisories -> 0..clock]
         /\ failed \in [Tags -> 0..clock]
         /\ digestCache \in [Tags -> [value : Digests \cup {None, Failed}, until : Nat]]
         /\ findings \in [Items -> [value : Verdicts, until : Nat]]
         /\ records \in [Advisories -> [value : SUBSET Items, until : Nat]])'
    BY <1>13 DEF ArriveMiss, Arrive, Wait, Goto
  <2>2. (/\ pc \in [Requests -> Waiting \cup {"idle", "lookup", "check"}]
         /\ asked \in [Requests -> Tags \cup Items \cup {None}]
         /\ digest \in [Requests -> Digests \cup {None}]
         /\ judged \in [Requests -> Items \cup {None}]
         /\ verdict \in [Requests -> Verdicts]
         /\ began \in [Requests -> 0..clock])'
    BY <1>13 DEF ArriveMiss, Arrive, Wait, Goto
  <2>3. (\A q \in Requests :
          /\ pc[q] \in {"head", "resolved"} => asked[q] \in Tags
          /\ pc[q] = "query" => asked[q] \in Packages
          /\ pc[q] \in {"lookup", "resolved"} => Subject(q) # None
          /\ pc[q] = "scan" => asked[q] \in Tags \/ digest[q] # None
          /\ pc[q] # "idle" => asked[q] # None)'
    BY <1>13 DEF ArriveMiss, Arrive, Wait, Goto
  <2>4. QED
    BY <2>1, <2>2, <2>3 DEF TypeOK
<1>14. ASSUME NEW p \in Requests, Head(p) PROVE TypeOK'
  <2>1. (/\ clock \in Nat /\ cfg \in Configs /\ changes \in Nat
         /\ tagged \in [Tags -> Digests] /\ held \in [Tags -> [Digests -> 0..clock]]
         /\ affects \in [Advisories -> SUBSET Items]
         /\ unaffected \in [Advisories -> [Items -> 0..clock]]
         /\ served \subseteq Advisories /\ unserved \in [Advisories -> 0..clock]
         /\ failed \in [Tags -> 0..clock]
         /\ digestCache \in [Tags -> [value : Digests \cup {None, Failed}, until : Nat]]
         /\ findings \in [Items -> [value : Verdicts, until : Nat]]
         /\ records \in [Advisories -> [value : SUBSET Items, until : Nat]])'
    BY <1>14 DEF Head, Goto
  <2>2. (/\ pc \in [Requests -> Waiting \cup {"idle", "lookup", "check"}]
         /\ asked \in [Requests -> Tags \cup Items \cup {None}]
         /\ digest \in [Requests -> Digests \cup {None}]
         /\ judged \in [Requests -> Items \cup {None}]
         /\ verdict \in [Requests -> Verdicts]
         /\ began \in [Requests -> 0..clock])'
    BY <1>14 DEF Head, Goto
  <2>3. (\A q \in Requests :
          /\ pc[q] \in {"head", "resolved"} => asked[q] \in Tags
          /\ pc[q] = "query" => asked[q] \in Packages
          /\ pc[q] \in {"lookup", "resolved"} => Subject(q) # None
          /\ pc[q] = "scan" => asked[q] \in Tags \/ digest[q] # None
          /\ pc[q] # "idle" => asked[q] # None)'
    BY <1>14 DEF Head, Goto
  <2>4. QED
    BY <2>1, <2>2, <2>3 DEF TypeOK
<1>15. ASSUME NEW p \in Requests, Remember(p) PROVE TypeOK'
  <2>1. (clock \in Nat /\ cfg \in Configs /\ changes \in Nat)'
    BY <1>15 DEF Remember, Proceed, Goto
  <2>2. (tagged \in [Tags -> Digests] /\ held \in [Tags -> [Digests -> 0..clock]])'
    BY <1>15 DEF Remember, Proceed, Goto
  <2>3. (affects \in [Advisories -> SUBSET Items])'
    BY <1>15 DEF Remember, Proceed, Goto
  <2>4. (unaffected \in [Advisories -> [Items -> 0..clock]])'
    BY <1>15 DEF Remember, Proceed, Goto
  <2>5. (served \subseteq Advisories /\ unserved \in [Advisories -> 0..clock])'
    BY <1>15 DEF Remember, Proceed, Goto
  <2>6. (failed \in [Tags -> 0..clock])'
    BY <1>15 DEF Remember, Proceed, Goto
  <2>7. (digestCache \in [Tags -> [value : Digests \cup {None, Failed}, until : Nat]])'
    BY <1>15 DEF Remember, Proceed, Goto
  <2>8. (findings \in [Items -> [value : Verdicts, until : Nat]])'
    BY <1>15 DEF Remember, Proceed, Goto
  <2>9. (records \in [Advisories -> [value : SUBSET Items, until : Nat]])'
    BY <1>15 DEF Remember, Proceed, Goto
  <2>10. (pc \in [Requests -> Waiting \cup {"idle", "lookup", "check"}])'
    BY <1>15 DEF Remember, Proceed, Goto
  <2>11. (asked \in [Requests -> Tags \cup Items \cup {None}])'
    BY <1>15 DEF Remember, Proceed, Goto
  <2>12. (digest \in [Requests -> Digests \cup {None}] /\ judged \in [Requests -> Items \cup {None}])'
    BY <1>15 DEF Remember, Proceed, Goto
  <2>13. (verdict \in [Requests -> Verdicts])'
    BY <1>15 DEF Remember, Proceed, Goto
  <2>14. (began \in [Requests -> 0..clock])'
    BY <1>15 DEF Remember, Proceed, Goto
  <2>15. (\A q \in Requests :
          /\ pc[q] \in {"head", "resolved"} => asked[q] \in Tags
          /\ pc[q] = "query" => asked[q] \in Packages
          /\ pc[q] \in {"lookup", "resolved"} => Subject(q) # None
          /\ pc[q] = "scan" => asked[q] \in Tags \/ digest[q] # None
          /\ pc[q] # "idle" => asked[q] # None)'
    BY <1>15 DEF Remember, Proceed, Goto
  <2>16. QED
    BY <2>1, <2>2, <2>3, <2>4, <2>5, <2>6, <2>7, <2>8, <2>9, <2>10, <2>11, <2>12, <2>13, <2>14, <2>15 DEF TypeOK
<1>16. ASSUME NEW p \in Requests, HeadFails(p) PROVE TypeOK'
  <2>1. (clock \in Nat /\ cfg \in Configs /\ changes \in Nat)'
    BY <1>16 DEF HeadFails, Wait, Goto
  <2>2. (tagged \in [Tags -> Digests] /\ held \in [Tags -> [Digests -> 0..clock]])'
    BY <1>16 DEF HeadFails, Wait, Goto
  <2>3. (affects \in [Advisories -> SUBSET Items])'
    BY <1>16 DEF HeadFails, Wait, Goto
  <2>4. (unaffected \in [Advisories -> [Items -> 0..clock]])'
    BY <1>16 DEF HeadFails, Wait, Goto
  <2>5. (served \subseteq Advisories /\ unserved \in [Advisories -> 0..clock])'
    BY <1>16 DEF HeadFails, Wait, Goto
  <2>6. (failed \in [Tags -> 0..clock])'
    BY <1>16 DEF HeadFails, Wait, Goto
  <2>7. (digestCache \in [Tags -> [value : Digests \cup {None, Failed}, until : Nat]])'
    BY <1>16 DEF HeadFails, Wait, Goto
  <2>8. (findings \in [Items -> [value : Verdicts, until : Nat]])'
    BY <1>16 DEF HeadFails, Wait, Goto
  <2>9. (records \in [Advisories -> [value : SUBSET Items, until : Nat]])'
    BY <1>16 DEF HeadFails, Wait, Goto
  <2>10. (pc \in [Requests -> Waiting \cup {"idle", "lookup", "check"}])'
    BY <1>16 DEF HeadFails, Wait, Goto
  <2>11. (asked \in [Requests -> Tags \cup Items \cup {None}])'
    BY <1>16 DEF HeadFails, Wait, Goto
  <2>12. (digest \in [Requests -> Digests \cup {None}] /\ judged \in [Requests -> Items \cup {None}])'
    BY <1>16 DEF HeadFails, Wait, Goto
  <2>13. (verdict \in [Requests -> Verdicts])'
    BY <1>16 DEF HeadFails, Wait, Goto
  <2>14. (began \in [Requests -> 0..clock])'
    BY <1>16 DEF HeadFails, Wait, Goto
  <2>15. (\A q \in Requests :
          /\ pc[q] \in {"head", "resolved"} => asked[q] \in Tags
          /\ pc[q] = "query" => asked[q] \in Packages
          /\ pc[q] \in {"lookup", "resolved"} => Subject(q) # None
          /\ pc[q] = "scan" => asked[q] \in Tags \/ digest[q] # None
          /\ pc[q] # "idle" => asked[q] # None)'
    BY <1>16 DEF HeadFails, Wait, Goto
  <2>16. QED
    BY <2>1, <2>2, <2>3, <2>4, <2>5, <2>6, <2>7, <2>8, <2>9, <2>10, <2>11, <2>12, <2>13, <2>14, <2>15 DEF TypeOK
<1>17. ASSUME NEW p \in Requests, Hit(p) PROVE TypeOK'
  BY <1>17 DEF Hit, Learn, Goto
<1>18. ASSUME NEW p \in Requests, Miss(p) PROVE TypeOK'
  <2>1. (/\ clock \in Nat /\ cfg \in Configs /\ changes \in Nat
         /\ tagged \in [Tags -> Digests] /\ held \in [Tags -> [Digests -> 0..clock]]
         /\ affects \in [Advisories -> SUBSET Items]
         /\ unaffected \in [Advisories -> [Items -> 0..clock]]
         /\ served \subseteq Advisories /\ unserved \in [Advisories -> 0..clock]
         /\ failed \in [Tags -> 0..clock]
         /\ digestCache \in [Tags -> [value : Digests \cup {None, Failed}, until : Nat]]
         /\ findings \in [Items -> [value : Verdicts, until : Nat]]
         /\ records \in [Advisories -> [value : SUBSET Items, until : Nat]])'
    BY <1>18 DEF Miss, Wait, Goto
  <2>2. (/\ pc \in [Requests -> Waiting \cup {"idle", "lookup", "check"}]
         /\ asked \in [Requests -> Tags \cup Items \cup {None}]
         /\ digest \in [Requests -> Digests \cup {None}]
         /\ judged \in [Requests -> Items \cup {None}]
         /\ verdict \in [Requests -> Verdicts]
         /\ began \in [Requests -> 0..clock])'
    BY <1>18 DEF Miss, Wait, Goto
  <2>3. (\A q \in Requests :
          /\ pc[q] \in {"head", "resolved"} => asked[q] \in Tags
          /\ pc[q] = "query" => asked[q] \in Packages
          /\ pc[q] \in {"lookup", "resolved"} => Subject(q) # None
          /\ pc[q] = "scan" => asked[q] \in Tags \/ digest[q] # None
          /\ pc[q] # "idle" => asked[q] # None)'
    BY <1>18 DEF Miss, Wait, Goto
  <2>4. QED
    BY <2>1, <2>2, <2>3 DEF TypeOK
<1>19. ASSUME NEW p \in Requests, Scan(p) PROVE TypeOK'
  <2>1. (clock \in Nat /\ cfg \in Configs /\ changes \in Nat)'
    BY <1>19 DEF Scan, Judge, Learn, Goto
  <2>2. (tagged \in [Tags -> Digests] /\ held \in [Tags -> [Digests -> 0..clock]])'
    BY <1>19 DEF Scan, Judge, Learn, Goto
  <2>3. (affects \in [Advisories -> SUBSET Items])'
    BY <1>19 DEF Scan, Judge, Learn, Goto
  <2>4. (unaffected \in [Advisories -> [Items -> 0..clock]])'
    BY <1>19 DEF Scan, Judge, Learn, Goto
  <2>5. (served \subseteq Advisories /\ unserved \in [Advisories -> 0..clock])'
    BY <1>19 DEF Scan, Judge, Learn, Goto
  <2>6. (failed \in [Tags -> 0..clock])'
    BY <1>19 DEF Scan, Judge, Learn, Goto
  <2>7. (digestCache \in [Tags -> [value : Digests \cup {None, Failed}, until : Nat]])'
    BY <1>19 DEF Scan, Judge, Learn, Goto
  <2>8. (findings \in [Items -> [value : Verdicts, until : Nat]])'
    BY <1>19 DEF Scan, Judge, Learn, Goto
  <2>9. (records \in [Advisories -> [value : SUBSET Items, until : Nat]])'
    BY <1>19 DEF Scan, Judge, Learn, Goto
  <2>10. (pc \in [Requests -> Waiting \cup {"idle", "lookup", "check"}])'
    BY <1>19 DEF Scan, Judge, Learn, Goto
  <2>11. (asked \in [Requests -> Tags \cup Items \cup {None}])'
    BY <1>19 DEF Scan, Judge, Learn, Goto
  <2>12. (digest \in [Requests -> Digests \cup {None}] /\ judged \in [Requests -> Items \cup {None}])'
    BY <1>19 DEF Scan, Judge, Learn, Goto
  <2>13. (verdict \in [Requests -> Verdicts])'
    BY <1>19 DEF Scan, Judge, Learn, Goto
  <2>14. (began \in [Requests -> 0..clock])'
    BY <1>19 DEF Scan, Judge, Learn, Goto
  <2>15. (\A q \in Requests :
          /\ pc[q] \in {"head", "resolved"} => asked[q] \in Tags
          /\ pc[q] = "query" => asked[q] \in Packages
          /\ pc[q] \in {"lookup", "resolved"} => Subject(q) # None
          /\ pc[q] = "scan" => asked[q] \in Tags \/ digest[q] # None
          /\ pc[q] # "idle" => asked[q] # None)'
    BY <1>19 DEF Scan, Judge, Learn, Goto
  <2>16. QED
    BY <2>1, <2>2, <2>3, <2>4, <2>5, <2>6, <2>7, <2>8, <2>9, <2>10, <2>11, <2>12, <2>13, <2>14, <2>15 DEF TypeOK
<1>20. ASSUME NEW p \in Requests, Query(p) PROVE TypeOK'
  BY <1>20 DEF Query, Judge, Learn, Goto
<1>21. ASSUME NEW p \in Requests, Keep(p) PROVE TypeOK'
  <2>1. (clock \in Nat /\ cfg \in Configs /\ changes \in Nat)'
    BY <1>21 DEF Keep, Proceed, Goto
  <2>2. (tagged \in [Tags -> Digests] /\ held \in [Tags -> [Digests -> 0..clock]])'
    BY <1>21 DEF Keep, Proceed, Goto
  <2>3. (affects \in [Advisories -> SUBSET Items])'
    BY <1>21 DEF Keep, Proceed, Goto
  <2>4. (unaffected \in [Advisories -> [Items -> 0..clock]])'
    BY <1>21 DEF Keep, Proceed, Goto
  <2>5. (served \subseteq Advisories /\ unserved \in [Advisories -> 0..clock])'
    BY <1>21 DEF Keep, Proceed, Goto
  <2>6. (failed \in [Tags -> 0..clock])'
    BY <1>21 DEF Keep, Proceed, Goto
  <2>7. (digestCache \in [Tags -> [value : Digests \cup {None, Failed}, until : Nat]])'
    BY <1>21 DEF Keep, Proceed, Goto
  <2>8. (findings \in [Items -> [value : Verdicts, until : Nat]])'
    BY <1>21 DEF Keep, Proceed, Goto
  <2>9. (records \in [Advisories -> [value : SUBSET Items, until : Nat]])'
    BY <1>21 DEF Keep, Proceed, Goto
  <2>10. (pc \in [Requests -> Waiting \cup {"idle", "lookup", "check"}])'
    BY <1>21 DEF Keep, Proceed, Goto
  <2>11. (asked \in [Requests -> Tags \cup Items \cup {None}])'
    BY <1>21 DEF Keep, Proceed, Goto
  <2>12. (digest \in [Requests -> Digests \cup {None}] /\ judged \in [Requests -> Items \cup {None}])'
    BY <1>21 DEF Keep, Proceed, Goto
  <2>13. (verdict \in [Requests -> Verdicts])'
    BY <1>21 DEF Keep, Proceed, Goto
  <2>14. (began \in [Requests -> 0..clock])'
    BY <1>21 DEF Keep, Proceed, Goto
  <2>15. (\A q \in Requests :
          /\ pc[q] \in {"head", "resolved"} => asked[q] \in Tags
          /\ pc[q] = "query" => asked[q] \in Packages
          /\ pc[q] \in {"lookup", "resolved"} => Subject(q) # None
          /\ pc[q] = "scan" => asked[q] \in Tags \/ digest[q] # None
          /\ pc[q] # "idle" => asked[q] # None)'
    BY <1>21 DEF Keep, Proceed, Goto
  <2>16. QED
    BY <2>1, <2>2, <2>3, <2>4, <2>5, <2>6, <2>7, <2>8, <2>9, <2>10, <2>11, <2>12, <2>13, <2>14, <2>15 DEF TypeOK
<1>22. ASSUME NEW p \in Requests, LearnFails(p) PROVE TypeOK'
  BY <1>22 DEF LearnFails, Proceed, Goto
<1>23. ASSUME NEW p \in Requests, Leave(p) PROVE TypeOK'
  BY <1>23 DEF Leave, Goto
<1>24. CASE UNCHANGED vars
  BY <1>24 DEF vars
<1>25. QED
  BY <1>1, <1>2, <1>3, <1>4, <1>5, <1>6, <1>7, <1>8, <1>9, <1>10, <1>11, <1>12, <1>13, <1>14,
     <1>15, <1>16, <1>17, <1>18, <1>19, <1>20, <1>21, <1>22, <1>23, <1>24
  DEF Next, Request, Refuse, Forward

\* The clock and the world change together with their histories.
LEMMA HistoriesPreserved == IInv /\ [Next]_vars => HistoriesAreCurrent'
<1> SUFFICES ASSUME IInv, [Next]_vars PROVE HistoriesAreCurrent'
  OBVIOUS
<1> USE ProxyAssumption DEF IInv, TypeOK, HistoriesAreCurrent, Items, settings, world, caches, inputs
<1>1. ASSUME NEW t \in Tags, NEW d \in Digests, Push(t, d) PROVE HistoriesAreCurrent'
  BY <1>1 DEF Push
<1>2. ASSUME NEW v \in Advisories, NEW x \in Items, Publish(v, x) PROVE HistoriesAreCurrent'
  BY <1>2 DEF Publish
<1>3. ASSUME NEW v \in Advisories, Serve(v) PROVE HistoriesAreCurrent'
  BY <1>3 DEF Serve
<1>4. ASSUME Advance PROVE HistoriesAreCurrent'
  BY <1>4 DEF Advance
<1>5. ASSUME NEW t \in Tags, EvictDigest(t) PROVE HistoriesAreCurrent'
  BY <1>5 DEF EvictDigest
<1>6. ASSUME NEW x \in Items, EvictFindings(x) PROVE HistoriesAreCurrent'
  BY <1>6 DEF EvictFindings
<1>7. ASSUME NEW v \in Advisories, FetchRecord(v) PROVE HistoriesAreCurrent'
  BY <1>7 DEF FetchRecord
<1>8. ASSUME NEW v \in Advisories, LoseRecord(v) PROVE HistoriesAreCurrent'
  BY <1>8 DEF LoseRecord
<1>9. ASSUME NEW p \in Requests, NEW x \in Items, ArriveItem(p, x) PROVE HistoriesAreCurrent'
  BY <1>9 DEF ArriveItem, Arrive, Goto
<1>10. ASSUME NEW p \in Requests, NEW x \in Unbuildable, ArriveUnread(p, x) PROVE HistoriesAreCurrent'
  BY <1>10 DEF ArriveUnread, Arrive, Goto
<1>11. ASSUME NEW p \in Requests, NEW t \in Tags, ArriveTag(p, t) PROVE HistoriesAreCurrent'
  BY <1>11 DEF ArriveTag, Arrive, Goto
<1>12. ASSUME NEW p \in Requests, NEW t \in Tags, ArriveFailed(p, t) PROVE HistoriesAreCurrent'
  BY <1>12 DEF ArriveFailed, Arrive, Wait, Goto
<1>13. ASSUME NEW p \in Requests, NEW t \in Tags, ArriveMiss(p, t) PROVE HistoriesAreCurrent'
  BY <1>13 DEF ArriveMiss, Arrive, Wait, Goto
<1>14. ASSUME NEW p \in Requests, Head(p) PROVE HistoriesAreCurrent'
  BY <1>14 DEF Head, Goto
<1>15. ASSUME NEW p \in Requests, Remember(p) PROVE HistoriesAreCurrent'
  BY <1>15 DEF Remember, Proceed, Goto
<1>16. ASSUME NEW p \in Requests, HeadFails(p) PROVE HistoriesAreCurrent'
  BY <1>16 DEF HeadFails, Wait, Goto
<1>17. ASSUME NEW p \in Requests, Hit(p) PROVE HistoriesAreCurrent'
  BY <1>17 DEF Hit, Learn, Goto
<1>18. ASSUME NEW p \in Requests, Miss(p) PROVE HistoriesAreCurrent'
  BY <1>18 DEF Miss, Wait, Goto
<1>19. ASSUME NEW p \in Requests, Scan(p) PROVE HistoriesAreCurrent'
  BY <1>19 DEF Scan, Judge, Learn, Goto
<1>20. ASSUME NEW p \in Requests, Query(p) PROVE HistoriesAreCurrent'
  BY <1>20 DEF Query, Judge, Learn, Goto
<1>21. ASSUME NEW p \in Requests, Keep(p) PROVE HistoriesAreCurrent'
  BY <1>21 DEF Keep, Proceed, Goto
<1>22. ASSUME NEW p \in Requests, LearnFails(p) PROVE HistoriesAreCurrent'
  BY <1>22 DEF LearnFails, Proceed, Goto
<1>23. ASSUME NEW p \in Requests, Leave(p) PROVE HistoriesAreCurrent'
  BY <1>23 DEF Leave, Goto
<1>24. CASE UNCHANGED vars
  BY <1>24 DEF vars
<1>25. QED
  BY <1>1, <1>2, <1>3, <1>4, <1>5, <1>6, <1>7, <1>8, <1>9, <1>10, <1>11, <1>12, <1>13, <1>14,
     <1>15, <1>16, <1>17, <1>18, <1>19, <1>20, <1>21, <1>22, <1>23, <1>24
  DEF Next, Request, Refuse, Forward

\* No step keeps a digest for too long.
LEMMA DigestsPreserved == IInv /\ [Next]_vars => DigestsAreRecent'
<1> SUFFICES ASSUME IInv, [Next]_vars PROVE DigestsAreRecent'
  OBVIOUS
<1> USE ProxyAssumption DEF IInv, TypeOK, HistoriesAreCurrent, DigestsAreRecent, CallsAreYoung, ResolvedRecently, Subject, Items, Waiting, NoEntry, Entry, settings, world, caches, inputs
<1>1. ASSUME NEW t \in Tags, NEW d \in Digests, Push(t, d) PROVE DigestsAreRecent'
  BY <1>1 DEF Push
<1>2. ASSUME NEW v \in Advisories, NEW x \in Items, Publish(v, x) PROVE DigestsAreRecent'
  BY <1>2 DEF Publish
<1>3. ASSUME NEW v \in Advisories, Serve(v) PROVE DigestsAreRecent'
  BY <1>3 DEF Serve
<1>4. ASSUME Advance PROVE DigestsAreRecent'
  BY <1>4 DEF Advance, Kept
<1>5. ASSUME NEW t \in Tags, EvictDigest(t) PROVE DigestsAreRecent'
  BY <1>5 DEF EvictDigest
<1>6. ASSUME NEW x \in Items, EvictFindings(x) PROVE DigestsAreRecent'
  BY <1>6 DEF EvictFindings
<1>7. ASSUME NEW v \in Advisories, FetchRecord(v) PROVE DigestsAreRecent'
  BY <1>7 DEF FetchRecord
<1>8. ASSUME NEW v \in Advisories, LoseRecord(v) PROVE DigestsAreRecent'
  BY <1>8 DEF LoseRecord
<1>9. ASSUME NEW p \in Requests, NEW x \in Items, ArriveItem(p, x) PROVE DigestsAreRecent'
  BY <1>9 DEF ArriveItem, Arrive, Goto
<1>10. ASSUME NEW p \in Requests, NEW x \in Unbuildable, ArriveUnread(p, x) PROVE DigestsAreRecent'
  BY <1>10 DEF ArriveUnread, Arrive, Goto
<1>11. ASSUME NEW p \in Requests, NEW t \in Tags, ArriveTag(p, t) PROVE DigestsAreRecent'
  BY <1>11 DEF ArriveTag, Arrive, Goto
<1>12. ASSUME NEW p \in Requests, NEW t \in Tags, ArriveFailed(p, t) PROVE DigestsAreRecent'
  BY <1>12 DEF ArriveFailed, Arrive, Wait, Goto
<1>13. ASSUME NEW p \in Requests, NEW t \in Tags, ArriveMiss(p, t) PROVE DigestsAreRecent'
  BY <1>13 DEF ArriveMiss, Arrive, Wait, Goto
<1>14. ASSUME NEW p \in Requests, Head(p) PROVE DigestsAreRecent'
  BY <1>14 DEF Head, Goto
<1>15. ASSUME NEW p \in Requests, Remember(p) PROVE DigestsAreRecent'
  BY <1>15 DEF Remember, Proceed, Goto
<1>16. ASSUME NEW p \in Requests, HeadFails(p) PROVE DigestsAreRecent'
  BY <1>16 DEF HeadFails, Wait, Goto
<1>17. ASSUME NEW p \in Requests, Hit(p) PROVE DigestsAreRecent'
  BY <1>17 DEF Hit, Learn, Goto
<1>18. ASSUME NEW p \in Requests, Miss(p) PROVE DigestsAreRecent'
  BY <1>18 DEF Miss, Wait, Goto
<1>19. ASSUME NEW p \in Requests, Scan(p) PROVE DigestsAreRecent'
  BY <1>19 DEF Scan, Judge, Learn, Goto
<1>20. ASSUME NEW p \in Requests, Query(p) PROVE DigestsAreRecent'
  BY <1>20 DEF Query, Judge, Learn, Goto
<1>21. ASSUME NEW p \in Requests, Keep(p) PROVE DigestsAreRecent'
  BY <1>21 DEF Keep, Proceed, Goto
<1>22. ASSUME NEW p \in Requests, LearnFails(p) PROVE DigestsAreRecent'
  BY <1>22 DEF LearnFails, Proceed, Goto
<1>23. ASSUME NEW p \in Requests, Leave(p) PROVE DigestsAreRecent'
  BY <1>23 DEF Leave, Goto
<1>24. CASE UNCHANGED vars
  BY <1>24 DEF vars
<1>25. QED
  BY <1>1, <1>2, <1>3, <1>4, <1>5, <1>6, <1>7, <1>8, <1>9, <1>10, <1>11, <1>12, <1>13, <1>14,
     <1>15, <1>16, <1>17, <1>18, <1>19, <1>20, <1>21, <1>22, <1>23, <1>24
  DEF Next, Request, Refuse, Forward

\* No step keeps a record for too long.
LEMMA RecordsPreserved == IInv /\ [Next]_vars => RecordsAreRecent'
<1> SUFFICES ASSUME IInv, [Next]_vars PROVE RecordsAreRecent'
  OBVIOUS
<1> USE ProxyAssumption DEF IInv, TypeOK, HistoriesAreCurrent, RecordsAreRecent, OnDisk, Items, NoEntry, Entry, settings, world, caches, inputs
<1>1. ASSUME NEW t \in Tags, NEW d \in Digests, Push(t, d) PROVE RecordsAreRecent'
  BY <1>1 DEF Push
<1>2. ASSUME NEW v \in Advisories, NEW x \in Items, Publish(v, x) PROVE RecordsAreRecent'
  BY <1>2 DEF Publish
<1>3. ASSUME NEW v \in Advisories, Serve(v) PROVE RecordsAreRecent'
  BY <1>3 DEF Serve
<1>4. ASSUME Advance PROVE RecordsAreRecent'
  BY <1>4 DEF Advance, Kept
<1>5. ASSUME NEW t \in Tags, EvictDigest(t) PROVE RecordsAreRecent'
  BY <1>5 DEF EvictDigest
<1>6. ASSUME NEW x \in Items, EvictFindings(x) PROVE RecordsAreRecent'
  BY <1>6 DEF EvictFindings
<1>7. ASSUME NEW v \in Advisories, FetchRecord(v) PROVE RecordsAreRecent'
  BY <1>7 DEF FetchRecord
<1>8. ASSUME NEW v \in Advisories, LoseRecord(v) PROVE RecordsAreRecent'
  BY <1>8 DEF LoseRecord
<1>9. ASSUME NEW p \in Requests, NEW x \in Items, ArriveItem(p, x) PROVE RecordsAreRecent'
  BY <1>9 DEF ArriveItem, Arrive, Goto
<1>10. ASSUME NEW p \in Requests, NEW x \in Unbuildable, ArriveUnread(p, x) PROVE RecordsAreRecent'
  BY <1>10 DEF ArriveUnread, Arrive, Goto
<1>11. ASSUME NEW p \in Requests, NEW t \in Tags, ArriveTag(p, t) PROVE RecordsAreRecent'
  BY <1>11 DEF ArriveTag, Arrive, Goto
<1>12. ASSUME NEW p \in Requests, NEW t \in Tags, ArriveFailed(p, t) PROVE RecordsAreRecent'
  BY <1>12 DEF ArriveFailed, Arrive, Wait, Goto
<1>13. ASSUME NEW p \in Requests, NEW t \in Tags, ArriveMiss(p, t) PROVE RecordsAreRecent'
  BY <1>13 DEF ArriveMiss, Arrive, Wait, Goto
<1>14. ASSUME NEW p \in Requests, Head(p) PROVE RecordsAreRecent'
  BY <1>14 DEF Head, Goto
<1>15. ASSUME NEW p \in Requests, Remember(p) PROVE RecordsAreRecent'
  BY <1>15 DEF Remember, Proceed, Goto
<1>16. ASSUME NEW p \in Requests, HeadFails(p) PROVE RecordsAreRecent'
  BY <1>16 DEF HeadFails, Wait, Goto
<1>17. ASSUME NEW p \in Requests, Hit(p) PROVE RecordsAreRecent'
  BY <1>17 DEF Hit, Learn, Goto
<1>18. ASSUME NEW p \in Requests, Miss(p) PROVE RecordsAreRecent'
  BY <1>18 DEF Miss, Wait, Goto
<1>19. ASSUME NEW p \in Requests, Scan(p) PROVE RecordsAreRecent'
  BY <1>19 DEF Scan, Judge, Learn, Goto
<1>20. ASSUME NEW p \in Requests, Query(p) PROVE RecordsAreRecent'
  BY <1>20 DEF Query, Judge, Learn, Goto
<1>21. ASSUME NEW p \in Requests, Keep(p) PROVE RecordsAreRecent'
  BY <1>21 DEF Keep, Proceed, Goto
<1>22. ASSUME NEW p \in Requests, LearnFails(p) PROVE RecordsAreRecent'
  BY <1>22 DEF LearnFails, Proceed, Goto
<1>23. ASSUME NEW p \in Requests, Leave(p) PROVE RecordsAreRecent'
  BY <1>23 DEF Leave, Goto
<1>24. CASE UNCHANGED vars
  BY <1>24 DEF vars
<1>25. QED
  BY <1>1, <1>2, <1>3, <1>4, <1>5, <1>6, <1>7, <1>8, <1>9, <1>10, <1>11, <1>12, <1>13, <1>14,
     <1>15, <1>16, <1>17, <1>18, <1>19, <1>20, <1>21, <1>22, <1>23, <1>24
  DEF Next, Request, Refuse, Forward

\* No step keeps findings for too long.
LEMMA FindingsPreserved == IInv /\ [Next]_vars => FindingsAreRecent'
<1> SUFFICES ASSUME IInv, [Next]_vars PROVE FindingsAreRecent'
  OBVIOUS
<1> USE ProxyAssumption DEF IInv, TypeOK, HistoriesAreCurrent, FindingsAreRecent, CallsAreYoung, JudgedRecently, Verdicts, Waiting, Subject, Items, NoEntry, Entry, TTL, Excused, settings, world, caches, inputs
<1>1. ASSUME NEW t \in Tags, NEW d \in Digests, Push(t, d) PROVE FindingsAreRecent'
  BY <1>1 DEF Push
<1>2. ASSUME NEW v \in Advisories, NEW x \in Items, Publish(v, x) PROVE FindingsAreRecent'
  <2>1. \A w \in Advisories, y \in Items :
          unaffected[w][y] <= unaffected'[w][y] /\ unserved[w] <= unserved'[w]
    BY <1>2 DEF Publish
  <2>2. ASSUME NEW y \in Items, findings'[y].value # "none"
        PROVE  findings'[y] = findings[y] /\ clock' <= findings[y].until
    <3>1. findings'[y] = findings[y] /\ findings[y].value # "none"
      BY <1>2, <2>2 DEF Publish
    <3>2. clock <= findings[y].until
      BY <3>1
    <3>3. clock' <= findings[y].until
      BY <1>2, <2>2, <3>1, <3>2 DEF Publish
    <3>4. QED
      BY <3>1, <3>3
  <2>3. ASSUME NEW y \in Items, NEW w \in Advisories, findings'[y].value = "clean"
        PROVE  Excused(findings[y].until, TTL(y) + ScanDelay, w, y)'
    <3>1. findings'[y] = findings[y] /\ Excused(findings[y].until, TTL(y) + ScanDelay, w, y)
      BY <2>2, <2>3
    <3>2. /\ unaffected[w][y] \in Nat /\ unaffected'[w][y] \in Nat
          /\ unserved[w] \in Nat /\ unserved'[w] \in Nat
          /\ findings[y].until \in Nat /\ TTL(y) + ScanDelay \in Nat
      BY <1>2, TypePreserved DEF Publish
    <3>3. QED
      BY <2>1, <3>1, <3>2
  <2>4. QED
    BY <2>2, <2>3
<1>3. ASSUME NEW v \in Advisories, Serve(v) PROVE FindingsAreRecent'
  <2>1. \A w \in Advisories, y \in Items :
          unaffected[w][y] <= unaffected'[w][y] /\ unserved[w] <= unserved'[w]
    BY <1>3 DEF Serve
  <2>2. ASSUME NEW y \in Items, findings'[y].value # "none"
        PROVE  findings'[y] = findings[y] /\ clock' <= findings[y].until
    <3>1. findings'[y] = findings[y] /\ findings[y].value # "none"
      BY <1>3, <2>2 DEF Serve
    <3>2. clock <= findings[y].until
      BY <3>1
    <3>3. clock' <= findings[y].until
      BY <1>3, <2>2, <3>1, <3>2 DEF Serve
    <3>4. QED
      BY <3>1, <3>3
  <2>3. ASSUME NEW y \in Items, NEW w \in Advisories, findings'[y].value = "clean"
        PROVE  Excused(findings[y].until, TTL(y) + ScanDelay, w, y)'
    <3>1. findings'[y] = findings[y] /\ Excused(findings[y].until, TTL(y) + ScanDelay, w, y)
      BY <2>2, <2>3
    <3>2. /\ unaffected[w][y] \in Nat /\ unaffected'[w][y] \in Nat
          /\ unserved[w] \in Nat /\ unserved'[w] \in Nat
          /\ findings[y].until \in Nat /\ TTL(y) + ScanDelay \in Nat
      BY <1>3, TypePreserved DEF Serve
    <3>3. QED
      BY <2>1, <3>1, <3>2
  <2>4. QED
    BY <2>2, <2>3
<1>4. ASSUME Advance PROVE FindingsAreRecent'
  <2>1. \A w \in Advisories, y \in Items :
          unaffected[w][y] <= unaffected'[w][y] /\ unserved[w] <= unserved'[w]
    BY <1>4 DEF Advance, Kept
  <2>2. ASSUME NEW y \in Items, findings'[y].value # "none"
        PROVE  findings'[y] = findings[y] /\ clock' <= findings[y].until
    <3>1. findings'[y] = findings[y] /\ findings[y].value # "none"
      BY <1>4, <2>2 DEF Advance, Kept
    <3>2. clock <= findings[y].until
      BY <3>1
    <3>3. clock' <= findings[y].until
      BY <1>4, <2>2, <3>1, <3>2 DEF Advance, Kept
    <3>4. QED
      BY <3>1, <3>3
  <2>3. ASSUME NEW y \in Items, NEW w \in Advisories, findings'[y].value = "clean"
        PROVE  Excused(findings[y].until, TTL(y) + ScanDelay, w, y)'
    <3>1. findings'[y] = findings[y] /\ Excused(findings[y].until, TTL(y) + ScanDelay, w, y)
      BY <2>2, <2>3
    <3>2. /\ unaffected[w][y] \in Nat /\ unaffected'[w][y] \in Nat
          /\ unserved[w] \in Nat /\ unserved'[w] \in Nat
          /\ findings[y].until \in Nat /\ TTL(y) + ScanDelay \in Nat
      BY <1>4, TypePreserved DEF Advance, Kept
    <3>3. QED
      BY <2>1, <3>1, <3>2
  <2>4. QED
    BY <2>2, <2>3
<1>5. ASSUME NEW t \in Tags, EvictDigest(t) PROVE FindingsAreRecent'
  BY <1>5 DEF EvictDigest
<1>6. ASSUME NEW x \in Items, EvictFindings(x) PROVE FindingsAreRecent'
  BY <1>6 DEF EvictFindings
<1>7. ASSUME NEW v \in Advisories, FetchRecord(v) PROVE FindingsAreRecent'
  BY <1>7 DEF FetchRecord
<1>8. ASSUME NEW v \in Advisories, LoseRecord(v) PROVE FindingsAreRecent'
  BY <1>8 DEF LoseRecord
<1>9. ASSUME NEW p \in Requests, NEW x \in Items, ArriveItem(p, x) PROVE FindingsAreRecent'
  BY <1>9 DEF ArriveItem, Arrive, Goto
<1>10. ASSUME NEW p \in Requests, NEW x \in Unbuildable, ArriveUnread(p, x) PROVE FindingsAreRecent'
  BY <1>10 DEF ArriveUnread, Arrive, Goto
<1>11. ASSUME NEW p \in Requests, NEW t \in Tags, ArriveTag(p, t) PROVE FindingsAreRecent'
  BY <1>11 DEF ArriveTag, Arrive, Goto
<1>12. ASSUME NEW p \in Requests, NEW t \in Tags, ArriveFailed(p, t) PROVE FindingsAreRecent'
  BY <1>12 DEF ArriveFailed, Arrive, Wait, Goto
<1>13. ASSUME NEW p \in Requests, NEW t \in Tags, ArriveMiss(p, t) PROVE FindingsAreRecent'
  BY <1>13 DEF ArriveMiss, Arrive, Wait, Goto
<1>14. ASSUME NEW p \in Requests, Head(p) PROVE FindingsAreRecent'
  BY <1>14 DEF Head, Goto
<1>15. ASSUME NEW p \in Requests, Remember(p) PROVE FindingsAreRecent'
  BY <1>15 DEF Remember, Proceed, Goto
<1>16. ASSUME NEW p \in Requests, HeadFails(p) PROVE FindingsAreRecent'
  BY <1>16 DEF HeadFails, Wait, Goto
<1>17. ASSUME NEW p \in Requests, Hit(p) PROVE FindingsAreRecent'
  BY <1>17 DEF Hit, Learn, Goto
<1>18. ASSUME NEW p \in Requests, Miss(p) PROVE FindingsAreRecent'
  BY <1>18 DEF Miss, Wait, Goto
<1>19. ASSUME NEW p \in Requests, Scan(p) PROVE FindingsAreRecent'
  BY <1>19 DEF Scan, Judge, Learn, Goto
<1>20. ASSUME NEW p \in Requests, Query(p) PROVE FindingsAreRecent'
  BY <1>20 DEF Query, Judge, Learn, Goto
<1>21. ASSUME NEW p \in Requests, Keep(p) PROVE FindingsAreRecent'
  <2>1. ASSUME NEW y \in Items, NEW w \in Advisories, findings'[y].value = "clean"
        PROVE  Excused(findings[y].until, TTL(y) + ScanDelay, w, y)'
    <3>1. CASE y # Subject(p)
      BY <1>21, <2>1, <3>1 DEF Keep, Proceed, Goto
    <3>2. CASE y = Subject(p)
      <4>1. /\ findings'[y].value = verdict[p] /\ findings'[y].until = clock + TTL(y)
            /\ judged[p] = y /\ pc[p] = "scanned"
        BY <1>21, <3>2 DEF Keep, Proceed, Goto
      <4>2. Excused(began[p], 0, w, y) /\ clock <= began[p] + ScanDelay
        BY <2>1, <4>1
      <4>3. QED
        BY <1>21, <4>1, <4>2 DEF Keep
    <3>3. QED
      BY <3>1, <3>2
  <2>2. \A y \in Items : findings'[y].value # "none" => clock' <= findings'[y].until
    BY <1>21 DEF Keep, Proceed, Goto
  <2>3. QED
    BY <2>1, <2>2
<1>22. ASSUME NEW p \in Requests, LearnFails(p) PROVE FindingsAreRecent'
  BY <1>22 DEF LearnFails, Proceed, Goto
<1>23. ASSUME NEW p \in Requests, Leave(p) PROVE FindingsAreRecent'
  BY <1>23 DEF Leave, Goto
<1>24. CASE UNCHANGED vars
  BY <1>24 DEF vars
<1>25. QED
  BY <1>1, <1>2, <1>3, <1>4, <1>5, <1>6, <1>7, <1>8, <1>9, <1>10, <1>11, <1>12, <1>13, <1>14,
     <1>15, <1>16, <1>17, <1>18, <1>19, <1>20, <1>21, <1>22, <1>23, <1>24
  DEF Next, Request, Refuse, Forward

\* No step waits too long.
LEMMA CallsPreserved == IInv /\ [Next]_vars => CallsAreYoung'
<1> SUFFICES ASSUME IInv, [Next]_vars PROVE CallsAreYoung'
  OBVIOUS
<1> USE ProxyAssumption DEF IInv, TypeOK, CallsAreYoung, Waiting, Items, settings, world, caches, inputs
<1>1. ASSUME NEW t \in Tags, NEW d \in Digests, Push(t, d) PROVE CallsAreYoung'
  BY <1>1 DEF Push
<1>2. ASSUME NEW v \in Advisories, NEW x \in Items, Publish(v, x) PROVE CallsAreYoung'
  BY <1>2 DEF Publish
<1>3. ASSUME NEW v \in Advisories, Serve(v) PROVE CallsAreYoung'
  BY <1>3 DEF Serve
<1>4. ASSUME Advance PROVE CallsAreYoung'
  BY <1>4 DEF Advance, Overdue
<1>5. ASSUME NEW t \in Tags, EvictDigest(t) PROVE CallsAreYoung'
  BY <1>5 DEF EvictDigest
<1>6. ASSUME NEW x \in Items, EvictFindings(x) PROVE CallsAreYoung'
  BY <1>6 DEF EvictFindings
<1>7. ASSUME NEW v \in Advisories, FetchRecord(v) PROVE CallsAreYoung'
  BY <1>7 DEF FetchRecord
<1>8. ASSUME NEW v \in Advisories, LoseRecord(v) PROVE CallsAreYoung'
  BY <1>8 DEF LoseRecord
<1>9. ASSUME NEW p \in Requests, NEW x \in Items, ArriveItem(p, x) PROVE CallsAreYoung'
  BY <1>9 DEF ArriveItem, Arrive, Goto
<1>10. ASSUME NEW p \in Requests, NEW x \in Unbuildable, ArriveUnread(p, x) PROVE CallsAreYoung'
  BY <1>10 DEF ArriveUnread, Arrive, Goto
<1>11. ASSUME NEW p \in Requests, NEW t \in Tags, ArriveTag(p, t) PROVE CallsAreYoung'
  BY <1>11 DEF ArriveTag, Arrive, Goto
<1>12. ASSUME NEW p \in Requests, NEW t \in Tags, ArriveFailed(p, t) PROVE CallsAreYoung'
  BY <1>12 DEF ArriveFailed, Arrive, Wait, Goto
<1>13. ASSUME NEW p \in Requests, NEW t \in Tags, ArriveMiss(p, t) PROVE CallsAreYoung'
  BY <1>13 DEF ArriveMiss, Arrive, Wait, Goto
<1>14. ASSUME NEW p \in Requests, Head(p) PROVE CallsAreYoung'
  BY <1>14 DEF Head, Goto
<1>15. ASSUME NEW p \in Requests, Remember(p) PROVE CallsAreYoung'
  BY <1>15 DEF Remember, Proceed, Goto
<1>16. ASSUME NEW p \in Requests, HeadFails(p) PROVE CallsAreYoung'
  BY <1>16 DEF HeadFails, Wait, Goto
<1>17. ASSUME NEW p \in Requests, Hit(p) PROVE CallsAreYoung'
  BY <1>17 DEF Hit, Learn, Goto
<1>18. ASSUME NEW p \in Requests, Miss(p) PROVE CallsAreYoung'
  BY <1>18 DEF Miss, Wait, Goto
<1>19. ASSUME NEW p \in Requests, Scan(p) PROVE CallsAreYoung'
  BY <1>19 DEF Scan, Judge, Learn, Goto
<1>20. ASSUME NEW p \in Requests, Query(p) PROVE CallsAreYoung'
  BY <1>20 DEF Query, Judge, Learn, Goto
<1>21. ASSUME NEW p \in Requests, Keep(p) PROVE CallsAreYoung'
  BY <1>21 DEF Keep, Proceed, Goto
<1>22. ASSUME NEW p \in Requests, LearnFails(p) PROVE CallsAreYoung'
  BY <1>22 DEF LearnFails, Proceed, Goto
<1>23. ASSUME NEW p \in Requests, Leave(p) PROVE CallsAreYoung'
  BY <1>23 DEF Leave, Goto
<1>24. CASE UNCHANGED vars
  BY <1>24 DEF vars
<1>25. QED
  BY <1>1, <1>2, <1>3, <1>4, <1>5, <1>6, <1>7, <1>8, <1>9, <1>10, <1>11, <1>12, <1>13, <1>14,
     <1>15, <1>16, <1>17, <1>18, <1>19, <1>20, <1>21, <1>22, <1>23, <1>24
  DEF Next, Request, Refuse, Forward

\* No step goes on with a digest that is too old.
LEMMA ResolvedPreserved == IInv /\ [Next]_vars => ResolvedRecently'
<1> SUFFICES ASSUME IInv, [Next]_vars PROVE ResolvedRecently'
  OBVIOUS
<1> USE ProxyAssumption DEF IInv, TypeOK, HistoriesAreCurrent, DigestsAreRecent, CallsAreYoung, ResolvedRecently, JudgedRecently, Waiting, Subject, Items, settings, world, caches, inputs
<1>1. ASSUME NEW t \in Tags, NEW d \in Digests, Push(t, d) PROVE ResolvedRecently'
  BY <1>1 DEF Push
<1>2. ASSUME NEW v \in Advisories, NEW x \in Items, Publish(v, x) PROVE ResolvedRecently'
  BY <1>2 DEF Publish
<1>3. ASSUME NEW v \in Advisories, Serve(v) PROVE ResolvedRecently'
  BY <1>3 DEF Serve
<1>4. ASSUME Advance PROVE ResolvedRecently'
  BY <1>4 DEF Advance, Overdue
<1>5. ASSUME NEW t \in Tags, EvictDigest(t) PROVE ResolvedRecently'
  BY <1>5 DEF EvictDigest
<1>6. ASSUME NEW x \in Items, EvictFindings(x) PROVE ResolvedRecently'
  BY <1>6 DEF EvictFindings
<1>7. ASSUME NEW v \in Advisories, FetchRecord(v) PROVE ResolvedRecently'
  BY <1>7 DEF FetchRecord
<1>8. ASSUME NEW v \in Advisories, LoseRecord(v) PROVE ResolvedRecently'
  BY <1>8 DEF LoseRecord
<1>9. ASSUME NEW p \in Requests, NEW x \in Items, ArriveItem(p, x) PROVE ResolvedRecently'
  BY <1>9 DEF ArriveItem, Arrive, Goto
<1>10. ASSUME NEW p \in Requests, NEW x \in Unbuildable, ArriveUnread(p, x) PROVE ResolvedRecently'
  BY <1>10 DEF ArriveUnread, Arrive, Goto
<1>11. ASSUME NEW p \in Requests, NEW t \in Tags, ArriveTag(p, t) PROVE ResolvedRecently'
  <2>1. clock <= held[t][digestCache[t].value] + DigestTTL + HeadDelay
    <3>1. PICK d \in Digests : digestCache[t].value = d
      BY <1>11 DEF ArriveTag
    <3>2. digestCache[t].until <= held[t][d] + HeadDelay + DigestTTL
      BY <3>1, t \in Tags DEF DigestsAreRecent
    <3>3. d # None
      BY ProxyAssumption DEF Items
    <3>4. clock <= digestCache[t].until
      BY <3>1, <3>3, t \in Tags DEF DigestsAreRecent
    <3>5. held[t][d] \in Nat /\ digestCache[t].until \in Nat
      OBVIOUS
    <3>6. QED
      BY <3>1, <3>2, <3>4, <3>5
  <2>2. /\ asked' = [asked EXCEPT ![p] = t] /\ digest' = [digest EXCEPT ![p] = digestCache[t].value]
        /\ pc' = [pc EXCEPT ![p] = "lookup"]
        /\ UNCHANGED <<clock, held, began>>
    BY <1>11 DEF ArriveTag, Arrive, Goto
  <2>3. ASSUME NEW q \in Requests, asked'[q] \in Tags, digest'[q] # None
        PROVE  LET h == held'[asked'[q]][digest'[q]]
               IN  /\ pc'[q] # "head"
                   /\ pc'[q] = "resolved" => began'[q] <= h
                   /\ pc'[q] = "lookup" => clock' <= h + DigestTTL + HeadDelay
                   /\ pc'[q] \in {"scan", "scanned"} => began'[q] <= h + DigestTTL + HeadDelay
                   /\ pc'[q] = "check" => clock' <= h + DigestTTL + HeadDelay + ScanDelay
    BY <2>1, <2>2, <2>3
  <2>4. QED
    BY <2>3
<1>12. ASSUME NEW p \in Requests, NEW t \in Tags, ArriveFailed(p, t) PROVE ResolvedRecently'
  BY <1>12 DEF ArriveFailed, Arrive, Wait, Goto
<1>13. ASSUME NEW p \in Requests, NEW t \in Tags, ArriveMiss(p, t) PROVE ResolvedRecently'
  BY <1>13 DEF ArriveMiss, Arrive, Wait, Goto
<1>14. ASSUME NEW p \in Requests, Head(p) PROVE ResolvedRecently'
  BY <1>14 DEF Head, Goto
<1>15. ASSUME NEW p \in Requests, Remember(p) PROVE ResolvedRecently'
  BY <1>15 DEF Remember, Proceed, Goto
<1>16. ASSUME NEW p \in Requests, HeadFails(p) PROVE ResolvedRecently'
  BY <1>16 DEF HeadFails, Wait, Goto
<1>17. ASSUME NEW p \in Requests, Hit(p) PROVE ResolvedRecently'
  BY <1>17 DEF Hit, Learn, Goto
<1>18. ASSUME NEW p \in Requests, Miss(p) PROVE ResolvedRecently'
  BY <1>18 DEF Miss, Wait, Goto
<1>19. ASSUME NEW p \in Requests, Scan(p) PROVE ResolvedRecently'
  BY <1>19 DEF Scan, Judge, Learn, Goto
<1>20. ASSUME NEW p \in Requests, Query(p) PROVE ResolvedRecently'
  BY <1>20 DEF Query, Judge, Learn, Goto
<1>21. ASSUME NEW p \in Requests, Keep(p) PROVE ResolvedRecently'
  BY <1>21 DEF Keep, Proceed, Goto
<1>22. ASSUME NEW p \in Requests, LearnFails(p) PROVE ResolvedRecently'
  BY <1>22 DEF LearnFails, Proceed, Goto
<1>23. ASSUME NEW p \in Requests, Leave(p) PROVE ResolvedRecently'
  BY <1>23 DEF Leave, Goto
<1>24. CASE UNCHANGED vars
  BY <1>24 DEF vars
<1>25. QED
  BY <1>1, <1>2, <1>3, <1>4, <1>5, <1>6, <1>7, <1>8, <1>9, <1>10, <1>11, <1>12, <1>13, <1>14,
     <1>15, <1>16, <1>17, <1>18, <1>19, <1>20, <1>21, <1>22, <1>23, <1>24
  DEF Next, Request, Refuse, Forward

\* No step goes on without a digest for an old failure.
LEMMA FailedPreserved == IInv /\ [Next]_vars => FailedRecently'
<1> SUFFICES ASSUME IInv, [Next]_vars PROVE FailedRecently'
  OBVIOUS
<1> USE ProxyAssumption DEF IInv, TypeOK, DigestsAreRecent, CallsAreYoung, FailedRecently, ResolvedRecently, Waiting, Subject, Items, settings, world, caches, inputs
<1>1. ASSUME NEW t \in Tags, NEW d \in Digests, Push(t, d) PROVE FailedRecently'
  BY <1>1 DEF Push
<1>2. ASSUME NEW v \in Advisories, NEW x \in Items, Publish(v, x) PROVE FailedRecently'
  BY <1>2 DEF Publish
<1>3. ASSUME NEW v \in Advisories, Serve(v) PROVE FailedRecently'
  BY <1>3 DEF Serve
<1>4. ASSUME Advance PROVE FailedRecently'
  BY <1>4 DEF Advance, Overdue
<1>5. ASSUME NEW t \in Tags, EvictDigest(t) PROVE FailedRecently'
  BY <1>5 DEF EvictDigest
<1>6. ASSUME NEW x \in Items, EvictFindings(x) PROVE FailedRecently'
  BY <1>6 DEF EvictFindings
<1>7. ASSUME NEW v \in Advisories, FetchRecord(v) PROVE FailedRecently'
  BY <1>7 DEF FetchRecord
<1>8. ASSUME NEW v \in Advisories, LoseRecord(v) PROVE FailedRecently'
  BY <1>8 DEF LoseRecord
<1>9. ASSUME NEW p \in Requests, NEW x \in Items, ArriveItem(p, x) PROVE FailedRecently'
  BY <1>9 DEF ArriveItem, Arrive, Goto
<1>10. ASSUME NEW p \in Requests, NEW x \in Unbuildable, ArriveUnread(p, x) PROVE FailedRecently'
  BY <1>10 DEF ArriveUnread, Arrive, Goto
<1>11. ASSUME NEW p \in Requests, NEW t \in Tags, ArriveTag(p, t) PROVE FailedRecently'
  BY <1>11 DEF ArriveTag, Arrive, Goto
<1>12. ASSUME NEW p \in Requests, NEW t \in Tags, ArriveFailed(p, t) PROVE FailedRecently'
  BY <1>12 DEF ArriveFailed, Arrive, Wait, Goto
<1>13. ASSUME NEW p \in Requests, NEW t \in Tags, ArriveMiss(p, t) PROVE FailedRecently'
  BY <1>13 DEF ArriveMiss, Arrive, Wait, Goto
<1>14. ASSUME NEW p \in Requests, Head(p) PROVE FailedRecently'
  BY <1>14 DEF Head, Goto
<1>15. ASSUME NEW p \in Requests, Remember(p) PROVE FailedRecently'
  BY <1>15 DEF Remember, Proceed, Goto
<1>16. ASSUME NEW p \in Requests, HeadFails(p) PROVE FailedRecently'
  BY <1>16 DEF HeadFails, Wait, Goto
<1>17. ASSUME NEW p \in Requests, Hit(p) PROVE FailedRecently'
  BY <1>17 DEF Hit, Learn, Goto
<1>18. ASSUME NEW p \in Requests, Miss(p) PROVE FailedRecently'
  BY <1>18 DEF Miss, Wait, Goto
<1>19. ASSUME NEW p \in Requests, Scan(p) PROVE FailedRecently'
  BY <1>19 DEF Scan, Judge, Learn, Goto
<1>20. ASSUME NEW p \in Requests, Query(p) PROVE FailedRecently'
  BY <1>20 DEF Query, Judge, Learn, Goto
<1>21. ASSUME NEW p \in Requests, Keep(p) PROVE FailedRecently'
  BY <1>21 DEF Keep, Proceed, Goto
<1>22. ASSUME NEW p \in Requests, LearnFails(p) PROVE FailedRecently'
  BY <1>22 DEF LearnFails, Proceed, Goto
<1>23. ASSUME NEW p \in Requests, Leave(p) PROVE FailedRecently'
  BY <1>23 DEF Leave, Goto
<1>24. CASE UNCHANGED vars
  BY <1>24 DEF vars
<1>25. QED
  BY <1>1, <1>2, <1>3, <1>4, <1>5, <1>6, <1>7, <1>8, <1>9, <1>10, <1>11, <1>12, <1>13, <1>14,
     <1>15, <1>16, <1>17, <1>18, <1>19, <1>20, <1>21, <1>22, <1>23, <1>24
  DEF Next, Request, Refuse, Forward

\* No step goes on with findings that are too old.
LEMMA JudgedPreserved == IInv /\ [Next]_vars => JudgedRecently'
<1> SUFFICES ASSUME IInv, [Next]_vars PROVE JudgedRecently'
  OBVIOUS
<1> USE ProxyAssumption DEF IInv, TypeOK, HistoriesAreCurrent, FindingsAreRecent, CallsAreYoung, ResolvedRecently, JudgedRecently, Verdicts, Waiting, Subject, Items, TTL, Excused, settings, world, caches, inputs
<1>1. ASSUME NEW t \in Tags, NEW d \in Digests, Push(t, d) PROVE JudgedRecently'
  BY <1>1 DEF Push
<1>2. ASSUME NEW v \in Advisories, NEW x \in Items, Publish(v, x) PROVE JudgedRecently'
  BY <1>2 DEF Publish
<1>3. ASSUME NEW v \in Advisories, Serve(v) PROVE JudgedRecently'
  BY <1>3 DEF Serve
<1>4. ASSUME Advance PROVE JudgedRecently'
  BY <1>4 DEF Advance, Overdue
<1>5. ASSUME NEW t \in Tags, EvictDigest(t) PROVE JudgedRecently'
  BY <1>5 DEF EvictDigest
<1>6. ASSUME NEW x \in Items, EvictFindings(x) PROVE JudgedRecently'
  BY <1>6 DEF EvictFindings
<1>7. ASSUME NEW v \in Advisories, FetchRecord(v) PROVE JudgedRecently'
  BY <1>7 DEF FetchRecord
<1>8. ASSUME NEW v \in Advisories, LoseRecord(v) PROVE JudgedRecently'
  BY <1>8 DEF LoseRecord
<1>9. ASSUME NEW p \in Requests, NEW x \in Items, ArriveItem(p, x) PROVE JudgedRecently'
  BY <1>9 DEF ArriveItem, Arrive, Goto
<1>10. ASSUME NEW p \in Requests, NEW x \in Unbuildable, ArriveUnread(p, x) PROVE JudgedRecently'
  BY <1>10 DEF ArriveUnread, Arrive, Goto
<1>11. ASSUME NEW p \in Requests, NEW t \in Tags, ArriveTag(p, t) PROVE JudgedRecently'
  BY <1>11 DEF ArriveTag, Arrive, Goto
<1>12. ASSUME NEW p \in Requests, NEW t \in Tags, ArriveFailed(p, t) PROVE JudgedRecently'
  BY <1>12 DEF ArriveFailed, Arrive, Wait, Goto
<1>13. ASSUME NEW p \in Requests, NEW t \in Tags, ArriveMiss(p, t) PROVE JudgedRecently'
  BY <1>13 DEF ArriveMiss, Arrive, Wait, Goto
<1>14. ASSUME NEW p \in Requests, Head(p) PROVE JudgedRecently'
  BY <1>14 DEF Head, Goto
<1>15. ASSUME NEW p \in Requests, Remember(p) PROVE JudgedRecently'
  BY <1>15 DEF Remember, Proceed, Goto
<1>16. ASSUME NEW p \in Requests, HeadFails(p) PROVE JudgedRecently'
  BY <1>16 DEF HeadFails, Wait, Goto
<1>17. ASSUME NEW p \in Requests, Hit(p) PROVE JudgedRecently'
  <2>1. \A y \in Items, w \in Advisories : judged'[p] = y /\ verdict'[p] = "clean" => Excused(clock, TTL(y) + ScanDelay, w, y)
    <3>1. SUFFICES ASSUME NEW y \in Items, NEW w \in Advisories, judged'[p] = y, verdict'[p] = "clean"
                   PROVE  Excused(clock, TTL(y) + ScanDelay, w, y)
      OBVIOUS
    <3>2. findings[y].value = "clean"
      BY <1>17, <3>1 DEF Hit, Learn, Goto
    <3>3. clock <= findings[y].until /\ Excused(findings[y].until, TTL(y) + ScanDelay, w, y)
      BY <3>2
    <3>4. QED
      BY <3>3
  <2>2. ASSUME NEW q \in Requests, q # p PROVE /\ pc'[q] = pc[q] /\ judged'[q] = judged[q]
                                              /\ verdict'[q] = verdict[q]
    BY <1>17, <2>2 DEF Hit, Learn, Goto
  <2>3. /\ UNCHANGED <<clock, unaffected, unserved, began, asked, digest>>
        /\ pc'[p] = "check" /\ judged'[p] \in Items /\ verdict'[p] # "none"
        /\ Subject(p) # None => judged'[p] = Subject(p)
    BY <1>17 DEF Hit, Learn, Goto
  <2>4. ASSUME NEW q \in Requests, NEW y \in Items, NEW w \in Advisories, judged'[q] = y, verdict'[q] = "clean"
        PROVE  /\ pc'[q] = "scanned" => Excused(began[q], 0, w, y)'
               /\ pc'[q] = "check" => Excused(clock, TTL(y) + ScanDelay, w, y)'
    <3>1. CASE q = p
      BY <2>1, <2>3, <2>4, <3>1
    <3>2. CASE q # p
      BY <2>2, <2>3, <2>4, <3>2
    <3>3. QED
      BY <3>1, <3>2
  <2>5. ASSUME NEW q \in Requests
        PROVE  (/\ asked[q] \in Digests \ Unbuildable => digest[q] = asked[q]
                /\ asked[q] \in Packages => digest[q] = None
                /\ judged[q] # None => pc[q] \in {"scanned", "check"} /\ verdict[q] # "none"
                /\ judged[q] # None /\ Subject(q) # None => judged[q] = Subject(q)
                /\ pc[q] = "scanned" => judged[q] # None)'
    <3>1. CASE q = p
      BY <2>3, <3>1
    <3>2. CASE q # p
      BY <2>2, <2>3, <3>2
    <3>3. QED
      BY <3>1, <3>2
  <2>6. QED
    BY <2>4, <2>5
<1>18. ASSUME NEW p \in Requests, Miss(p) PROVE JudgedRecently'
  BY <1>18 DEF Miss, Wait, Goto
<1>19. ASSUME NEW p \in Requests, Scan(p) PROVE JudgedRecently'
  <2>1. \A y \in Items, w \in Advisories : judged'[p] = y /\ verdict'[p] = "clean" => Excused(began[p], 0, w, y)
    <3>1. SUFFICES ASSUME NEW y \in Items, NEW w \in Advisories, judged'[p] = y, verdict'[p] = "clean"
                   PROVE  Excused(began[p], 0, w, y)
      OBVIOUS
    <3>2. Found(y) = {}
      BY <1>19, <3>1 DEF Scan, Judge, Learn, Goto
    <3>3. Excused(clock, 0, w, y)
      BY <3>2, LeftOut
    <3>4. began[p] <= clock
      OBVIOUS
    <3>5. QED
      BY <3>3, <3>4
  <2>2. ASSUME NEW q \in Requests, q # p PROVE /\ pc'[q] = pc[q] /\ judged'[q] = judged[q]
                                              /\ verdict'[q] = verdict[q]
    BY <1>19, <2>2 DEF Scan, Judge, Learn, Goto
  <2>3. /\ UNCHANGED <<clock, unaffected, unserved, began, asked, digest>>
        /\ pc'[p] = "scanned" /\ judged'[p] \in Items /\ verdict'[p] # "none"
        /\ Subject(p) # None => judged'[p] = Subject(p)
    BY <1>19 DEF Scan, Judge, Learn, Goto
  <2>4. ASSUME NEW q \in Requests, NEW y \in Items, NEW w \in Advisories, judged'[q] = y, verdict'[q] = "clean"
        PROVE  /\ pc'[q] = "scanned" => Excused(began[q], 0, w, y)'
               /\ pc'[q] = "check" => Excused(clock, TTL(y) + ScanDelay, w, y)'
    <3>1. CASE q = p
      BY <2>1, <2>3, <2>4, <3>1
    <3>2. CASE q # p
      BY <2>2, <2>3, <2>4, <3>2
    <3>3. QED
      BY <3>1, <3>2
  <2>5. ASSUME NEW q \in Requests
        PROVE  (/\ asked[q] \in Digests \ Unbuildable => digest[q] = asked[q]
                /\ asked[q] \in Packages => digest[q] = None
                /\ judged[q] # None => pc[q] \in {"scanned", "check"} /\ verdict[q] # "none"
                /\ judged[q] # None /\ Subject(q) # None => judged[q] = Subject(q)
                /\ pc[q] = "scanned" => judged[q] # None)'
    <3>1. CASE q = p
      BY <2>3, <3>1
    <3>2. CASE q # p
      BY <2>2, <2>3, <3>2
    <3>3. QED
      BY <3>1, <3>2
  <2>6. QED
    BY <2>4, <2>5
<1>20. ASSUME NEW p \in Requests, Query(p) PROVE JudgedRecently'
  <2>1. \A y \in Items, w \in Advisories : judged'[p] = y /\ verdict'[p] = "clean" => Excused(began[p], 0, w, y)
    <3>1. SUFFICES ASSUME NEW y \in Items, NEW w \in Advisories, judged'[p] = y, verdict'[p] = "clean"
                   PROVE  Excused(began[p], 0, w, y)
      OBVIOUS
    <3>2. Found(y) = {}
      BY <1>20, <3>1 DEF Query, Judge, Learn, Goto
    <3>3. Excused(clock, 0, w, y)
      BY <3>2, LeftOut
    <3>4. began[p] <= clock
      OBVIOUS
    <3>5. QED
      BY <3>3, <3>4
  <2>2. ASSUME NEW q \in Requests, q # p PROVE /\ pc'[q] = pc[q] /\ judged'[q] = judged[q]
                                              /\ verdict'[q] = verdict[q]
    BY <1>20, <2>2 DEF Query, Judge, Learn, Goto
  <2>3. /\ UNCHANGED <<clock, unaffected, unserved, began, asked, digest>>
        /\ pc'[p] = "scanned" /\ judged'[p] \in Items /\ verdict'[p] # "none"
        /\ Subject(p) # None => judged'[p] = Subject(p)
    BY <1>20 DEF Query, Judge, Learn, Goto
  <2>4. ASSUME NEW q \in Requests, NEW y \in Items, NEW w \in Advisories, judged'[q] = y, verdict'[q] = "clean"
        PROVE  /\ pc'[q] = "scanned" => Excused(began[q], 0, w, y)'
               /\ pc'[q] = "check" => Excused(clock, TTL(y) + ScanDelay, w, y)'
    <3>1. CASE q = p
      BY <2>1, <2>3, <2>4, <3>1
    <3>2. CASE q # p
      BY <2>2, <2>3, <2>4, <3>2
    <3>3. QED
      BY <3>1, <3>2
  <2>5. ASSUME NEW q \in Requests
        PROVE  (/\ asked[q] \in Digests \ Unbuildable => digest[q] = asked[q]
                /\ asked[q] \in Packages => digest[q] = None
                /\ judged[q] # None => pc[q] \in {"scanned", "check"} /\ verdict[q] # "none"
                /\ judged[q] # None /\ Subject(q) # None => judged[q] = Subject(q)
                /\ pc[q] = "scanned" => judged[q] # None)'
    <3>1. CASE q = p
      BY <2>3, <3>1
    <3>2. CASE q # p
      BY <2>2, <2>3, <3>2
    <3>3. QED
      BY <3>1, <3>2
  <2>6. QED
    BY <2>4, <2>5
<1>21. ASSUME NEW p \in Requests, Keep(p) PROVE JudgedRecently'
  BY <1>21 DEF Keep, Proceed, Goto
<1>22. ASSUME NEW p \in Requests, LearnFails(p) PROVE JudgedRecently'
  BY <1>22 DEF LearnFails, Proceed, Goto
<1>23. ASSUME NEW p \in Requests, Leave(p) PROVE JudgedRecently'
  BY <1>23 DEF Leave, Goto
<1>24. CASE UNCHANGED vars
  BY <1>24 DEF vars
<1>25. QED
  BY <1>1, <1>2, <1>3, <1>4, <1>5, <1>6, <1>7, <1>8, <1>9, <1>10, <1>11, <1>12, <1>13, <1>14,
     <1>15, <1>16, <1>17, <1>18, <1>19, <1>20, <1>21, <1>22, <1>23, <1>24
  DEF Next, Request, Refuse, Forward

\* Every step preserves the invariant.
LEMMA StepIInv == IInv /\ [Next]_vars => IInv'
  BY TypePreserved, HistoriesPreserved, DigestsPreserved, RecordsPreserved, FindingsPreserved,
     CallsPreserved, ResolvedPreserved, FailedPreserved, JudgedPreserved DEF IInv

\* The invariant holds in every reachable state.
LEMMA Invariant == Spec => []IInv
  BY InitIInv, StepIInv, PTL DEF Spec

\* The variables keep their types, and a request that looks findings up knows of what.
THEOREM TypesAreKept == Spec => []TypeOK
<1>1. IInv => TypeOK
  BY DEF IInv
<1>2. QED
  BY <1>1, Invariant, PTL

\* A tag that is let through is pinned to the digest the policy saw, which was the
\* tag's no longer ago than the cache and the calls allow, for any times to live,
\* any delays and any number of requests and pushes, except where the request has
\* white space around its tag, no reference can be built or a lookup failed.
THEOREM PullsArePinned == Spec => PullIsPinned
<1>1. IInv /\ [Next]_vars =>
          [\A p \in Requests, x \in Items :
              Forward(p, x) /\ asked[p] \in Tags =>
                  IF EffectivePinDigests /\ digest[p] # None /\ p \notin Spaced
                  THEN /\ x = digest[p] /\ judged[p] \in {None, x}
                       /\ clock <= held[asked[p]][x] + DigestTTL + HeadDelay + ScanDelay
                  ELSE /\ EffectivePinDigests =>
                              \/ p \in Spaced
                              \/ asked[p] \in Unbuildable
                              \/ clock <= failed[asked[p]] + DigestTTL + ScanDelay
                       /\ asked[p] \in Mutable /\ ~EffectiveAllowMutableTags =>
                              p \in Spaced /\ digest[p] # None /\ EffectivePinDigests]_vars
  <2> SUFFICES ASSUME IInv, NEW p \in Requests, NEW x \in Items,
                      Forward(p, x), asked[p] \in Tags
               PROVE  IF EffectivePinDigests /\ digest[p] # None /\ p \notin Spaced
                      THEN /\ x = digest[p] /\ judged[p] \in {None, x}
                           /\ clock <= held[asked[p]][x] + DigestTTL + HeadDelay + ScanDelay
                      ELSE /\ EffectivePinDigests =>
                                  \/ p \in Spaced
                                  \/ asked[p] \in Unbuildable
                                  \/ clock <= failed[asked[p]] + DigestTTL + ScanDelay
                           /\ asked[p] \in Mutable /\ ~EffectiveAllowMutableTags =>
                                  p \in Spaced /\ digest[p] # None /\ EffectivePinDigests
    OBVIOUS
  <2>1. pc[p] = "check" /\ ~Blocked(p) /\ x = Upstream(p)
    BY DEF Forward
  <2>2. CASE EffectivePinDigests /\ digest[p] # None /\ p \notin Spaced
    <3>1. x = digest[p]
      BY <2>1, <2>2 DEF Upstream, Pinned
    <3>2. judged[p] \in {None, x}
      BY <2>2, <3>1, ProxyAssumption DEF IInv, JudgedRecently, Subject, Items
    <3>3. clock <= held[asked[p]][digest[p]] + DigestTTL + HeadDelay + ScanDelay
      BY <2>1, <2>2 DEF IInv, ResolvedRecently
    <3>4. QED
      BY <2>2, <3>1, <3>2, <3>3
  <2>3. CASE ~(EffectivePinDigests /\ digest[p] # None /\ p \notin Spaced)
    <3>1. EffectivePinDigests => \/ p \in Spaced
                                \/ asked[p] \in Unbuildable
                                \/ clock <= failed[asked[p]] + DigestTTL + ScanDelay
      BY <2>1, <2>3 DEF IInv, FailedRecently
    <3>2. asked[p] \in Mutable /\ ~EffectiveAllowMutableTags =>
              p \in Spaced /\ digest[p] # None /\ EffectivePinDigests
      BY <2>1, <2>3 DEF Blocked
    <3>3. QED
      BY <2>3, <3>1, <3>2
  <2>4. QED
    BY <2>2, <2>3
<1>2. QED
  BY <1>1, Invariant, PTL DEF Spec, PullIsPinned

\* An advisory takes effect within the times to live of its record and of the findings
\* and one scan, from when it is about the item and OSV has its record, for every item
\* whose findings the policy saw, however requests overlap.
THEOREM VulnerablesAreRefused == Spec => VulnerableIsRefused
<1>1. IInv /\ [Next]_vars =>
          [\A p \in Requests, x \in Items, v \in Advisories :
              Forward(p, x) /\ judged[p] = x =>
                  \/ clock <= unaffected[v][x] + RecordTTL + TTL(x) + ScanDelay
                  \/ clock <= unserved[v] + TTL(x) + ScanDelay]_vars
  <2> SUFFICES ASSUME IInv, NEW p \in Requests, NEW x \in Items, NEW v \in Advisories,
                      Forward(p, x), judged[p] = x
               PROVE  \/ clock <= unaffected[v][x] + RecordTTL + TTL(x) + ScanDelay
                      \/ clock <= unserved[v] + TTL(x) + ScanDelay
    OBVIOUS
  <2>1. x # None
    BY ProxyAssumption DEF Items
  <2>2. pc[p] = "check" /\ verdict[p] = "clean"
    BY <2>1 DEF Forward, IInv, TypeOK, Verdicts, JudgedRecently
  <2>3. Excused(clock, TTL(x) + ScanDelay, v, x)
    BY <2>2 DEF IInv, JudgedRecently
  <2>4. QED
    BY <2>3, ProxyAssumption DEF Excused, TTL, IInv, TypeOK
<1>2. QED
  BY <1>1, Invariant, PTL DEF Spec, VulnerableIsRefused
=============================================================================
