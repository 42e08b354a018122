----------------------------- MODULE ProxyDecision -----------------------------
(***************************************************************************)
(* The decisions of the dependency proxy (internal/proxy): a request for a *)
(* package version, an image digest or an image tag is answered with what  *)
(* upstream serves, unless a policy denies it for what is known about it.  *)
(*                                                                         *)
(* Upstream a tag names another digest at any moment, and an advisory is   *)
(* published, widened, narrowed or withdrawn at any moment.  The proxy     *)
(* keeps the digests of tags, and the findings about versions and digests, *)
(* in caches whose entries expire (cache/memory); it learns both through   *)
(* calls that take their time, of many requests at once.  A call about     *)
(* findings learns the names of the advisories from OSV and judges by      *)
(* their records, which every scan of the machine keeps on disk            *)
(* (analysis/osv).  The policy denies what has findings.                   *)
(*                                                                         *)
(* Time is a clock of small steps.  Only the calls take any: what a call   *)
(* is told is what is so at one moment of it, and it ends within HeadDelay *)
(* or ScanDelay.  held, unaffected, unserved and failed are histories; no  *)
(* guard reads them.                                                       *)
(***************************************************************************)
EXTENDS Naturals

CONSTANTS
    Tags, Mutable,     \* the tags; those isMutableTag takes for mutable
    Digests, Packages, \* image digests, package versions
    Unbuildable,       \* the tags and digests ParseReference does not take
    Advisories,        \* an advisory, with the records it has for aliases
    Requests, Asks,    \* Asks[p]: what request p may be for, one time after another
    Spaced,            \* the requests with white space around their tag
    Configs,           \* OCI configurations, Nil among them
    Pushed, Published, \* what upstream may hold at first: tags, advisories
    Nil, None, Failed,
    DigestTTL,         \* defaultDigestResolutionCacheTTL
    ImageTTL, OsvTTL,  \* the times to live of findings
    RecordTTL,         \* osvCacheTTL, and the call that fetched the record
    HeadDelay,         \* a registry answers by then
    ScanDelay,         \* GetImageScanTimeout; an advisory query takes no longer
    MaxTime,           \* bound on the clock
    MaxChanges         \* bound on what happens upstream

Items == Digests \cup Packages

ASSUME ProxyAssumption ==
    /\ Mutable \subseteq Tags /\ Unbuildable \subseteq Tags \cup Digests
    /\ Spaced \subseteq Requests
    /\ Pushed \subseteq [Tags -> Digests] /\ Published \subseteq [Advisories -> SUBSET Items]
    /\ Digests \cap Packages = {} /\ Tags \cap Items = {}
    /\ None \notin Items \cup Tags /\ Failed \notin Items /\ None # Failed
    /\ Configs \subseteq [allow : BOOLEAN, pin : BOOLEAN, strict : BOOLEAN] \cup {Nil}
    /\ \A n \in {DigestTTL, ImageTTL, OsvTTL, RecordTTL, HeadDelay, ScanDelay, MaxTime, MaxChanges} : n \in Nat

VARIABLES
    clock,
    cfg,
    changes,     \* what happened upstream so far
    tagged,      \* tagged[t]: the digest the registry has under t
    held,        \* history: held[t][d], the last time t was d; 0 before
    affects,     \* affects[v]: the items advisory v is about
    unaffected,  \* history: unaffected[v][x], the last time v was not about x
    served,      \* the advisories of which OSV has the record
    unserved,    \* history: unserved[v], the last time it had not
    failed,      \* history: failed[t], the last time a lookup of t failed
    digestCache, findings,
    records,     \* records[v]: the record of v on disk, the items it is about
    pc,
    asked,       \* asked[p]: the tag, digest or package version p is for
    digest,      \* digest[p]: the digest to judge and to pin, or None
    judged,      \* judged[p]: the item the findings are about, or None
    verdict,     \* verdict[p]: what the findings are
    began        \* began[p]: when p began to wait

settings == <<clock, cfg>>
world == <<changes, tagged, held, affects, unaffected, served, unserved>>
caches == <<digestCache, findings, records>>
inputs == <<asked, digest, judged, verdict>>
vars == <<settings, world, failed, caches, pc, inputs, began>>

Verdicts == {"clean", "vulnerable", "none"}
NoEntry(v) == [value |-> v, until |-> 0]
Entry(v, ttl) == [value |-> v, until |-> clock + ttl]
TTL(x) == IF x \in Packages THEN OsvTTL ELSE ImageTTL

Waiting == {"head", "resolved", "scan", "scanned", "query"}
Goto(p, l) == pc' = [pc EXCEPT ![p] = l]
Wait(p, l) == Goto(p, l) /\ began' = [began EXCEPT ![p] = clock]
Proceed(p, l) == Goto(p, l) /\ began' = [began EXCEPT ![p] = 0]

Init ==
    /\ clock = 1
    /\ cfg \in Configs
    /\ changes = 0
    /\ tagged \in Pushed
    /\ held = [t \in Tags |-> [d \in Digests |-> IF d = tagged[t] THEN 1 ELSE 0]]
    /\ affects \in Published
    /\ unaffected = [v \in Advisories |-> [x \in Items |-> IF x \in affects[v] THEN 0 ELSE 1]]
    /\ served \in SUBSET Advisories
    /\ unserved = [v \in Advisories |-> IF v \in served THEN 0 ELSE 1]
    /\ failed = [t \in Tags |-> 0]
    /\ digestCache = [t \in Tags |-> NoEntry(None)]
    /\ findings = [x \in Items |-> NoEntry("none")]
    /\ records = [v \in Advisories |-> NoEntry({})]
    /\ pc = [p \in Requests |-> "idle"]
    /\ asked = [p \in Requests |-> None] /\ digest = [p \in Requests |-> None]
    /\ judged = [p \in Requests |-> None] /\ verdict = [p \in Requests |-> "none"]
    /\ began = [p \in Requests |-> 0]

-----------------------------------------------------------------------------
(* The world *)

\* A tag is pushed again.
Push(t, d) ==
    /\ tagged[t] # d /\ changes < MaxChanges
    /\ changes' = changes + 1
    /\ tagged' = [tagged EXCEPT ![t] = d]
    /\ held' = [held EXCEPT ![t] = [@ EXCEPT ![d] = clock]]
    /\ UNCHANGED <<settings, affects, unaffected, served, unserved, failed, caches, pc, inputs, began>>

\* An advisory becomes one about x, or is no longer.
Publish(v, x) ==
    /\ changes < MaxChanges
    /\ changes' = changes + 1
    /\ affects' = [affects EXCEPT ![v] = IF x \in @ THEN @ \ {x} ELSE @ \cup {x}]
    /\ unaffected' = [unaffected EXCEPT ![v] = [@ EXCEPT ![x] = clock]]
    /\ UNCHANGED <<settings, tagged, held, served, unserved, failed, caches, pc, inputs, began>>

\* OSV has no record of an advisory that it names, or has it again.
Serve(v) ==
    /\ changes < MaxChanges
    /\ changes' = changes + 1
    /\ served' = IF v \in served THEN served \ {v} ELSE served \cup {v}
    /\ unserved' = [unserved EXCEPT ![v] = clock]
    /\ UNCHANGED <<settings, tagged, held, affects, unaffected, failed, caches, pc, inputs, began>>

\* Time passes while every request waits for an answer that is not overdue.  An
\* entry past its time is as good as none: Get drops it.
Overdue(p) ==
    /\ pc[p] # "idle"
    /\ \/ pc[p] \notin Waiting
       \/ pc[p] \in {"head", "resolved"} /\ clock >= began[p] + HeadDelay
       \/ pc[p] \in {"scan", "scanned", "query"} /\ clock >= began[p] + ScanDelay

Kept(e, none) == IF clock' <= e.until THEN e ELSE NoEntry(none)

Advance ==
    /\ clock < MaxTime /\ \A p \in Requests : ~Overdue(p)
    /\ clock' = clock + 1
    /\ held' = [t \in Tags |-> [held[t] EXCEPT ![tagged[t]] = clock']]
    /\ unaffected' = [v \in Advisories |->
          [x \in Items |-> IF x \in affects[v] THEN unaffected[v][x] ELSE clock']]
    /\ unserved' = [v \in Advisories |-> IF v \in served THEN unserved[v] ELSE clock']
    /\ digestCache' = [t \in Tags |-> Kept(digestCache[t], None)]
    /\ findings' = [x \in Items |-> Kept(findings[x], "none")]
    /\ records' = [v \in Advisories |-> Kept(records[v], {})]
    /\ UNCHANGED <<cfg, changes, tagged, affects, served, failed, pc, inputs, began>>

\* A full cache drops the entry used longest ago; the keys of other requests
\* decide which that is.
EvictDigest(t) ==
    /\ digestCache' = [digestCache EXCEPT ![t] = NoEntry(None)]
    /\ UNCHANGED <<settings, world, failed, findings, records, pc, inputs, began>>

EvictFindings(x) ==
    /\ findings' = [findings EXCEPT ![x] = NoEntry("none")]
    /\ UNCHANGED <<settings, world, failed, digestCache, records, pc, inputs, began>>

\* getCachedVuln, of any scan on this machine: a record that is not on disk is
\* fetched and written there.  One that cannot be written, or is removed, is fetched
\* again.
OnDisk(v) == records[v].until # 0

Record(v) == IF OnDisk(v) THEN records[v].value ELSE affects[v]

FetchRecord(v) ==
    /\ v \in served /\ ~OnDisk(v)
    /\ records' = [records EXCEPT ![v] = Entry(affects[v], RecordTTL)]
    /\ UNCHANGED <<settings, world, failed, digestCache, findings, pc, inputs, began>>

LoseRecord(v) ==
    /\ records' = [records EXCEPT ![v] = NoEntry({})]
    /\ UNCHANGED <<settings, world, failed, digestCache, findings, pc, inputs, began>>

-----------------------------------------------------------------------------
(* A request: what it is for *)

Arrive(p, x, d) ==
    /\ pc[p] = "idle" /\ x \in Asks[p]
    /\ asked' = [asked EXCEPT ![p] = x]
    /\ digest' = [digest EXCEPT ![p] = d]
    /\ UNCHANGED <<judged, verdict>>

\* genericHandler: a package and its version.  ociHandler: a manifest by digest, ...
ArriveItem(p, x) ==
    /\ x \notin Unbuildable
    /\ Arrive(p, x, IF x \in Digests THEN x ELSE None)
    /\ Goto(p, "lookup")
    /\ UNCHANGED <<settings, world, failed, caches, began>>

\* ... or by tag.  scanImageForPolicy: its digest is cached, ...
ArriveTag(p, t) ==
    /\ t \notin Unbuildable
    /\ digestCache[t].value \in Digests
    /\ Arrive(p, t, digestCache[t].value)
    /\ Goto(p, "lookup")
    /\ UNCHANGED <<settings, world, failed, caches, began>>

\* Mutant of ArriveFailed: the mark of a failure is taken for a digest.
MutArriveMark(p, t) ==
    /\ t \notin Unbuildable
    /\ digestCache[t].value = Failed
    /\ Arrive(p, t, Failed)
    /\ Goto(p, "lookup")
    /\ UNCHANGED <<settings, world, failed, caches, began>>

\* ... or that there was none, ...
ArriveFailed(p, t) ==
    /\ t \notin Unbuildable
    /\ digestCache[t].value = Failed
    /\ Arrive(p, t, None)
    /\ Wait(p, "scan")
    /\ UNCHANGED <<settings, world, failed, caches>>

\* ... or the registry is asked.
ArriveMiss(p, t) ==
    /\ t \notin Unbuildable
    /\ digestCache[t].value = None
    /\ Arrive(p, t, None)
    /\ Wait(p, "head")
    /\ UNCHANGED <<settings, world, failed, caches>>

\* No reference can be built for what the request names: nothing is resolved,
\* nothing scanned, and ServeHTTP goes on.
ArriveUnread(p, x) ==
    /\ x \in Unbuildable
    /\ Arrive(p, x, None)
    /\ Goto(p, "check")
    /\ UNCHANGED <<settings, world, failed, caches, began>>

Head(p) ==
    /\ pc[p] = "head"
    /\ digest' = [digest EXCEPT ![p] = tagged[asked[p]]]
    /\ Goto(p, "resolved")
    /\ UNCHANGED <<settings, world, failed, caches, asked, judged, verdict, began>>

Remember(p) ==
    /\ pc[p] = "resolved"
    /\ digestCache' = [digestCache EXCEPT ![asked[p]] = Entry(digest[p], DigestTTL)]
    /\ Proceed(p, "lookup")
    /\ UNCHANGED <<settings, world, failed, findings, records, inputs>>

\* A failure is cached too.  The client that went away is one reason for it.
HeadFails(p) ==
    /\ pc[p] = "head"
    /\ digestCache' = [digestCache EXCEPT ![asked[p]] = Entry(Failed, DigestTTL)]
    /\ failed' = [failed EXCEPT ![asked[p]] = clock]
    /\ Wait(p, "scan")
    /\ UNCHANGED <<settings, world, findings, records, inputs>>

-----------------------------------------------------------------------------
(* A request: what is known about it *)

Subject(p) == IF asked[p] \in Packages THEN asked[p] ELSE digest[p]

Learn(p, x, v) ==
    /\ judged' = [judged EXCEPT ![p] = x]
    /\ verdict' = [verdict EXCEPT ![p] = v]
    /\ UNCHANGED <<asked, digest>>

\* Mutant of Hit: an entry that is used lives on.
MutHitRenews(p) ==
    /\ pc[p] = "lookup" /\ findings[Subject(p)].value # "none"
    /\ Learn(p, Subject(p), findings[Subject(p)].value)
    /\ findings' = [findings EXCEPT ![Subject(p)] = Entry(@.value, TTL(Subject(p)))]
    /\ Goto(p, "check")
    /\ UNCHANGED <<settings, world, failed, digestCache, records, began>>

Hit(p) ==
    /\ pc[p] = "lookup" /\ findings[Subject(p)].value # "none"
    /\ Learn(p, Subject(p), findings[Subject(p)].value)
    /\ Goto(p, "check")
    /\ UNCHANGED <<settings, world, failed, caches, began>>

Miss(p) ==
    /\ pc[p] = "lookup" /\ findings[Subject(p)].value = "none"
    /\ Wait(p, IF asked[p] \in Packages THEN "query" ELSE "scan")
    /\ UNCHANGED <<settings, world, failed, caches, inputs>>

\* The advisories about x that OSV names, judged by their records.  One that has
\* none is a warning, and no error.
Found(x) == {v \in Advisories : x \in affects[v] /\ (OnDisk(v) \/ v \in served) /\ x \in Record(v)}

Judge(p, x) == Learn(p, x, IF Found(x) = {} THEN "clean" ELSE "vulnerable")

\* The image is pulled, by its digest if that is known, and scanned.
Scan(p) ==
    /\ pc[p] = "scan"
    /\ Judge(p, IF digest[p] = None THEN tagged[asked[p]] ELSE digest[p])
    /\ Goto(p, "scanned")
    /\ UNCHANGED <<settings, world, failed, caches, began>>

\* The advisory sources are asked about a package version.
Query(p) ==
    /\ pc[p] = "query"
    /\ Judge(p, asked[p])
    /\ Goto(p, "scanned")
    /\ UNCHANGED <<settings, world, failed, caches, began>>

\* What was found is kept, complete or not, under a digest or a version only.
Keep(p) ==
    /\ pc[p] = "scanned"
    /\ findings' = IF Subject(p) = None THEN findings
                   ELSE [findings EXCEPT ![Subject(p)] = Entry(verdict[p], TTL(Subject(p)))]
    /\ Proceed(p, "check")
    /\ UNCHANGED <<settings, world, failed, digestCache, records, inputs>>

\* A scan or a query that fails leaves nothing known, and nothing cached.
LearnFails(p) ==
    /\ pc[p] \in {"scan", "query"}
    /\ Proceed(p, "check")
    /\ UNCHANGED <<settings, world, failed, caches, inputs>>

-----------------------------------------------------------------------------
(* A request: the decision *)

EffectiveAllowMutableTags == IF cfg = Nil THEN TRUE ELSE ~cfg.strict /\ cfg.allow
EffectivePinDigests == IF cfg = Nil THEN TRUE ELSE cfg.strict \/ cfg.pin

\* checkMutableTagPolicy.
Blocked(p) ==
    /\ asked[p] \in Mutable
    /\ ~EffectiveAllowMutableTags
    /\ ~(EffectivePinDigests /\ digest[p] # None)

Leave(p) ==
    /\ asked' = [asked EXCEPT ![p] = None]
    /\ digest' = [digest EXCEPT ![p] = None]
    /\ judged' = [judged EXCEPT ![p] = None]
    /\ verdict' = [verdict EXCEPT ![p] = "none"]
    /\ Goto(p, "idle")
    /\ UNCHANGED <<settings, world, failed, caches, began>>

\* The tag is refused; the policy denies, or cannot be evaluated.
Refuse(p) == pc[p] = "check" /\ Leave(p)

\* Mutant of Upstream: the request keeps its tag.
MutUpstreamAsAsked(p) == IF asked[p] \in Tags THEN tagged[asked[p]] ELSE asked[p]

\* rewriteManifestPath looks for the tag at the end of the path, and does not find it
\* where white space follows or precedes it.  That is passed on, and a registry may
\* take it for the tag.
Pinned(p) ==
    /\ asked[p] \in Tags /\ p \notin Spaced
    /\ digest[p] # None /\ EffectivePinDigests

\* What upstream serves: the digest, if the request is pinned to it, or what the
\* request names.
Upstream(p) ==
    IF Pinned(p) THEN digest[p]
    ELSE IF asked[p] \in Tags THEN tagged[asked[p]]
    ELSE asked[p]

\* The request is passed on and answered with x.
Forward(p, x) ==
    /\ pc[p] = "check"
    /\ ~Blocked(p) /\ verdict[p] # "vulnerable"
    /\ x = Upstream(p)
    /\ Leave(p)

-----------------------------------------------------------------------------
Request(p) ==
    \/ \E x \in Items : ArriveItem(p, x)
    \/ \E x \in Unbuildable : ArriveUnread(p, x)
    \/ \E t \in Tags : ArriveTag(p, t) \/ ArriveFailed(p, t) \/ ArriveMiss(p, t)
    \/ Head(p) \/ Remember(p) \/ HeadFails(p)
    \/ Hit(p) \/ Miss(p) \/ Scan(p) \/ Query(p) \/ Keep(p) \/ LearnFails(p)
    \/ Refuse(p) \/ \E x \in Items : Forward(p, x)

Next ==
    \/ \E t \in Tags, d \in Digests : Push(t, d)
    \/ \E v \in Advisories, x \in Items : Publish(v, x)
    \/ \E v \in Advisories : Serve(v)
    \/ Advance
    \/ \E t \in Tags : EvictDigest(t)
    \/ \E x \in Items : EvictFindings(x)
    \/ \E v \in Advisories : FetchRecord(v) \/ LoseRecord(v)
    \/ \E p \in Requests : Request(p)

Spec == Init /\ [][Next]_vars

-----------------------------------------------------------------------------
\* The variables are of the kinds the code gives them; a request that looks
\* findings up knows of what, and the caches hold what they are for.
TypeOK ==
    /\ clock \in Nat /\ cfg \in Configs /\ changes \in Nat
    /\ tagged \in [Tags -> Digests] /\ held \in [Tags -> [Digests -> 0..clock]]
    /\ affects \in [Advisories -> SUBSET Items]
    /\ unaffected \in [Advisories -> [Items -> 0..clock]] 
    /\ served \subseteq Advisories /\ unserved \in [Advisories -> 0..clock]
    /\ failed \in [Tags -> 0..clock]
    /\ digestCache \in [Tags -> [value : Digests \cup {None, Failed}, until : Nat]]
    /\ findings \in [Items -> [value : Verdicts, until : Nat]]
    /\ records \in [Advisories -> [value : SUBSET Items, until : Nat]]
    /\ pc \in [Requests -> Waiting \cup {"idle", "lookup", "check"}]
    /\ asked \in [Requests -> Tags \cup Items \cup {None}]
    /\ digest \in [Requests -> Digests \cup {None}]
    /\ judged \in [Requests -> Items \cup {None}]
    /\ verdict \in [Requests -> Verdicts]
    /\ began \in [Requests -> 0..clock]
    /\ \A p \in Requests :
          /\ pc[p] \in {"head", "resolved"} => asked[p] \in Tags
          /\ pc[p] = "query" => asked[p] \in Packages
          /\ pc[p] \in {"lookup", "resolved"} => Subject(p) # None
          /\ pc[p] = "scan" => asked[p] \in Tags \/ digest[p] # None
          /\ pc[p] # "idle" => asked[p] # None

\* A tag that is let through: with pinning, the client gets the digest whose
\* findings the policy saw, and the tag was that digest no longer ago than the
\* cache and the calls allow.  Unpinned it goes only where pinning is off, where a
\* lookup of this tag failed recently, where no reference can be built for it, or
\* with white space around it; and a mutable tag that the configuration refuses goes
\* unpinned in the last case only.  ociHandler.ServeHTTP, checkMutableTagPolicy.
PullIsPinned ==
    [][\A p \in Requests, x \in Items :
        Forward(p, x) /\ asked[p] \in Tags =>
            IF EffectivePinDigests /\ digest[p] # None /\ p \notin Spaced
            THEN /\ x = digest[p] /\ judged[p] \in {None, x}
                 /\ clock <= held[asked[p]][x] + DigestTTL + HeadDelay + ScanDelay
            ELSE /\ EffectivePinDigests =>
                        \/ p \in Spaced
                        \/ asked[p] \in Unbuildable
                        \/ clock <= failed[asked[p]] + DigestTTL + ScanDelay
                 /\ asked[p] \in Mutable /\ ~EffectiveAllowMutableTags =>
                        p \in Spaced /\ digest[p] # None /\ EffectivePinDigests]_vars

\* What a client is served with its findings looked at (no scan or query failed,
\* none was left out for a reference that cannot be built, and no unpinned tag moved)
\* had no advisory as recently as a record, the findings and a scan may last together,
\* or none that OSV had the record of, as recently as the findings and a scan may
\* last: an advisory takes effect within that time, however requests overlap and
\* whatever is cached.
VulnerableIsRefused ==
    [][\A p \in Requests, x \in Items, v \in Advisories :
        Forward(p, x) /\ judged[p] = x =>
            \/ clock <= unaffected[v][x] + RecordTTL + TTL(x) + ScanDelay
            \/ clock <= unserved[v] + TTL(x) + ScanDelay]_vars
=============================================================================
