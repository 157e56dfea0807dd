------------------------------ MODULE RoutePool ------------------------------
(***************************************************************************)
(* The routes of one accelerated input (internal/inputproxy/proxy.go:      *)
(* sourceMetadata, collectFirstRoute, expandRoutes, adoptRoute,            *)
(* replenishRoutePool, fetchRange).                                        *)
(*                                                                         *)
(* The first request probes the configured entrances and takes the first   *)
(* that serves byte ranges; the source's metadata is that route's.  A      *)
(* background goroutine goes on probing for further routes with another    *)
(* final host and the same media, and a download that fails makes the next *)
(* success start such a goroutine again.  Requests, both goroutines,       *)
(* downloads and the release of the source interleave.  Each step is one   *)
(* critical section of metaMu or routeMu, or one blocking operation.       *)
(* Routes are numbered from 1; a failure count is kept as "below two" or   *)
(* not, since markRouteUnhealthy raises it to two at once.                 *)
(*                                                                         *)
(* A definition named D_X is D with a plausible bug in it: it is used by   *)
(* no specification, only to see the properties fail.                      *)
(***************************************************************************)
EXTENDS Naturals, Sequences, FiniteSets

CONSTANTS
    Urls,       \* src.urls: the candidates, in order of priority
    PoolSize,   \* p.workers, capped at maxWorkers: routes wanted, and probes at once
    Requests,   \* HTTP requests for the source's loopback URL
    Fetchers,   \* goroutines in fetchRange
    Retries,    \* chunkRetryAttempts
    Worlds,     \* download modes, with what each url serves: host, size, headers, bytes
    MaxRoutes,  \* bound on the length of the route list
    MaxFaults,  \* bound on the downloads that fail
    None        \* "" where a url, nobody where a request is expected

UrlSet == {Urls[i] : i \in DOMAIN Urls}

(* What entrances answer: final hosts, and samples of the head or of all   *)
(* the bytes                                                               *)
Hosts == {w.site[u].host : w \in Worlds, u \in UrlSet}
Contents == {w.site[u].head : w \in Worlds, u \in UrlSet}
            \cup {w.site[u].bytes : w \in Worlds, u \in UrlSet}

ASSUME RouteAssumption ==
    /\ Urls \in Seq(UrlSet) /\ Len(Urls) > 0
    /\ \A i, j \in DOMAIN Urls : Urls[i] = Urls[j] => i = j
    /\ {PoolSize, Retries, MaxRoutes} \subseteq Nat \ {0}
    /\ MaxFaults \in Nat
    /\ \A w \in Worlds : w.mode \in {"parallel", "failover"}
    /\ None \notin UrlSet \cup Requests

-----------------------------------------------------------------------------
(* mergeRepresentation, for strong etags: first is what the metadata hold, *)
(* next what the candidate answered                                        *)

Strong(s) == s.etag # ""
EtagsDiffer(first, next) == Strong(first) /\ Strong(next) /\ first.etag # next.etag
EtagsAgree(first, next) == Strong(first) /\ first.etag = next.etag
SameDate(first, next) == first.modified # "" /\ first.modified = next.modified

Merges(first, next) ==
    /\ first.size = next.size
    /\ ~EtagsDiffer(first, next)
    /\ EtagsAgree(first, next) \/ SameDate(first, next)

(* What HTTP says of validators, and adoptRoute takes on trust: answers    *)
(* that merge are of the same bytes.  Equal bytes have equal heads.        *)
ASSUME ValidatorsTruthful ==
    \A w \in Worlds : \A u, v \in UrlSet :
        /\ Merges(w.site[u], w.site[v]) => w.site[u].bytes = w.site[v].bytes
        /\ w.site[u].bytes = w.site[v].bytes => w.site[u].head = w.site[v].head

VARIABLES
    mode,       \* p.mode
    site,       \* url -> what it serves: the final host, size, headers, bytes
    meta,       \* src.meta: the url it was probed on, and its fingerprint
    unsupported,\* src.unsupported
    active,     \* src.active, finalHosts and failures, which change together
    focus,      \* src.failoverFocus
    cacheFile,  \* src.cacheFile is not nil
    pinned,     \* src.dedicated >= 0: other sources are registered too
    released    \* src.closed, and the token is out of p.sources

VARIABLES
    lock,       \* the request that holds metaMu across its probing, or None
    req,        \* where each request is
    round,      \* collectFirstRoute of the request that holds the lock
    scan,       \* the two kinds of goroutine in expandRoutes
    need,       \* src.needsReplenish
    fetch,      \* where each download is: the routes it has yet to try
    faults      \* downloads that failed so far

(* What happened so far, for the properties: no action looks at it.        *)
VARIABLES
    byHead,     \* urls taken because their head alone matched
    used        \* routes that served a download planned while pinned

sourceVars == <<meta, unsupported, active, focus, cacheFile, released>>
requestVars == <<lock, req, round>>
fetchVars == <<fetch, need, faults>>
pastVars == <<byHead, used>>
poolVars == <<mode, site, sourceVars, requestVars, scan, fetchVars, pinned, pastVars>>

(* recovering is TRUE exactly while the second one runs. *)
Scans == {"initial", "replenish"}

NoMeta == [url |-> None, print |-> "none", bytes |-> "none"]
NoRound == [next |-> 1, inFlight |-> {}, failed |-> FALSE, refused |-> {}]
Scanning(at, todo, flying, hosts, want) ==
    [at |-> at, todo |-> todo, inFlight |-> flying, hosts |-> hosts,
     url |-> None, recover |-> 0, first |-> NoMeta, want |-> want]
NoScan == Scanning("off", <<>>, {}, {}, 0)
NoFetch == [at |-> "idle", left |-> <<>>, preferred |-> 1, try |-> 1, own |-> FALSE]

PoolInit ==
    /\ \E w \in Worlds : mode = w.mode /\ site = w.site
    /\ meta = NoMeta /\ unsupported = FALSE /\ active = <<>>
    /\ focus = None /\ cacheFile = FALSE /\ released = FALSE
    /\ pinned \in BOOLEAN /\ byHead = {} /\ used = {}
    /\ lock = None
    /\ req = [r \in Requests |-> "idle"]
    /\ round = NoRound
    /\ scan = [e \in Scans |-> NoScan]
    /\ need = FALSE
    /\ fetch = [f \in Fetchers |-> NoFetch]
    /\ faults = 0

-----------------------------------------------------------------------------
(* The route list *)

Route(u) == [url |-> u, host |-> site[u].host, bad |-> FALSE]
HealthyIn(routes) == {i \in DOMAIN routes : ~routes[i].bad}
Healthy == HealthyIn(active)
Least(S) == CHOOSE i \in S : \A j \in S : i <= j

(* failedRouteIndex: the failed route a candidate would revive, 0 for none *)
FailedIndex(u) ==
    LET failed == {i \in DOMAIN active : active[i].url = u /\ active[i].bad}
    IN  IF failed = {} THEN 0 ELSE Least(failed)

(* acceptRoute: revive the failed route, or append another one *)
Accepted(u, i) ==
    IF i \in DOMAIN active /\ active[i].url = u
    THEN [active EXCEPT ![i] = Route(u)]
    ELSE Append(active, Route(u))

(* remainingCandidates: not the active one, and last those being probed *)
Remaining(first, launched) ==
    LET Fresh(u) == u # first /\ u \notin launched
        Later(u) == u # first /\ u \in launched
    IN  SelectSeq(Urls, Fresh) \o SelectSeq(Urls, Later)

-----------------------------------------------------------------------------
(* What is compared before a route is taken *)

(* hashFingerprint: the head alone, or the head, the middle and the tail *)
Sampled(u, print) == IF print = "head" THEN site[u].head ELSE site[u].bytes

(* fetchRangeFromURL: whether a route can serve a range under the          *)
(* validator of the source's metadata (representationValidator)            *)
Serves(u) ==
    LET first == site[meta.url]
    IN  /\ site[u].size = first.size
        /\ IF Strong(first) THEN site[u].etag = first.etag
           ELSE first.modified # "" => site[u].modified = first.modified

-----------------------------------------------------------------------------
(* sourceMetadata and collectFirstRoute *)

Lookup(r) ==
    /\ req[r] = "idle" /\ ~released
    /\ req' = [req EXCEPT ![r] = "found"]
    /\ UNCHANGED <<mode, site, sourceVars, lock, round, scan, fetchVars, pinned, pastVars>>

Batch == IF PoolSize < Len(Urls) THEN PoolSize ELSE Len(Urls)

(* A request that gets metaMu answers from what is known, or probes.  *)
Enter(r) ==
    /\ req[r] = "found" /\ lock = None
    /\ IF meta # NoMeta \/ unsupported
       THEN /\ req' = [req EXCEPT ![r] = IF meta # NoMeta THEN "accelerated" ELSE "fallback"]
            /\ UNCHANGED <<lock, round>>
       ELSE /\ req' = [req EXCEPT ![r] = "probing"]
            /\ lock' = r
            /\ round' = [NoRound EXCEPT !.next = Batch + 1,
                                        !.inFlight = {Urls[i] : i \in 1 .. Batch}]
    /\ UNCHANGED <<mode, site, sourceVars, scan, fetchVars, pinned, pastVars>>

(* The round without the probe of u, with the next candidate launched. *)
Without(u) ==
    LET more == round.next <= Len(Urls)
    IN  [round EXCEPT !.inFlight = (@ \ {u}) \cup IF more THEN {Urls[round.next]} ELSE {},
                      !.next = IF more THEN @ + 1 ELSE @]

(* The request gives metaMu back with an answer. *)
Answer(r, a) ==
    /\ req' = [req EXCEPT ![r] = a]
    /\ lock' = None
    /\ round' = NoRound

(* Only a round in which every candidate refused ranges is final. *)
GivesUp_OnErrors(left) == left.inFlight = {}
GivesUp(left) == left.inFlight = {} /\ ~left.failed

EndsUnaccepted(r, left) ==
    /\ unsupported' = GivesUp(left)
    /\ IF left.inFlight = {}
       THEN Answer(r, IF GivesUp(left) THEN "fallback" ELSE "error")
       ELSE round' = left /\ UNCHANGED <<req, lock>>
    /\ UNCHANGED <<mode, site, meta, active, focus, cacheFile, released, scan, fetchVars,
                   pinned, pastVars>>

ProbeFails(r, u) ==
    /\ lock = r /\ u \in round.inFlight
    /\ EndsUnaccepted(r, [Without(u) EXCEPT !.failed = TRUE])

(* No partial content or no total size: any status but 206 counts. *)
ProbeRefused(r, u) ==
    /\ lock = r /\ u \in round.inFlight
    /\ EndsUnaccepted(r, [Without(u) EXCEPT !.refused = @ \cup {u}])

(* The client leaves, or sourceProbeTimeout. *)
ProbeExpires(r) ==
    /\ lock = r
    /\ Answer(r, "error")
    /\ UNCHANGED <<mode, site, sourceVars, scan, fetchVars, pinned, pastVars>>

(* replaceRoutes, prepareCache, and the goroutine that looks for more.     *)
ProbeAccepted(r, u) ==
    /\ lock = r /\ u \in round.inFlight
    /\ active' = <<Route(u)>>
    /\ focus' = u
    /\ \E created \in BOOLEAN :
          /\ cacheFile' = (cacheFile \/ created)
          /\ IF cacheFile'
             THEN /\ meta' = [NoMeta EXCEPT !.url = u]
                  /\ Answer(r, "accelerated")
                  /\ scan' = IF Batch = 1 THEN scan ELSE
                        [scan EXCEPT !["initial"] =
                            Scanning("start", Remaining(u, {Urls[i] : i \in 1 .. round.next - 1}),
                                     {}, {site[u].host}, Batch)]
             ELSE Answer(r, "error") /\ UNCHANGED <<meta, scan>>
    /\ UNCHANGED <<mode, site, unsupported, released, fetchVars, pinned, pastVars>>

(* FFmpeg asks again after an error. *)
Leave(r) ==
    /\ req[r] = "error"
    /\ req' = [req EXCEPT ![r] = "idle"]
    /\ UNCHANGED <<mode, site, sourceVars, lock, round, scan, fetchVars, pinned, pastVars>>

-----------------------------------------------------------------------------
(* expandRoutes, in the goroutine e *)

(* launchMore, then the loop's condition; routes is the list at that time. *)
Onward(sc, routes) ==
    LET healthy == Cardinality(HealthyIn(routes))
        room == IF released \/ healthy >= sc.want THEN 0 ELSE sc.want - healthy
        slots == IF room < PoolSize THEN room ELSE PoolSize
        free == IF Cardinality(sc.inFlight) < slots THEN slots - Cardinality(sc.inFlight) ELSE 0
        k == IF free < Len(sc.todo) THEN free ELSE Len(sc.todo)
        flying == sc.inFlight \cup {sc.todo[i] : i \in 1 .. k}
    IN  IF flying = {} \/ released THEN NoScan
        ELSE Scanning("receive", SubSeq(sc.todo, k + 1, Len(sc.todo)), flying, sc.hosts, sc.want)

(* The other goroutine's snapshot: every candidate that is not a healthy   *)
(* route, from the first one on, and the hosts of those that are.          *)
Unused(u) == \A i \in Healthy : active[i].url # u
Candidates == SelectSeq(Urls, Unused)
Refill == Scanning("start", Candidates, {}, {active[i].host : i \in Healthy}, PoolSize)

ScanStarts(e) ==
    /\ scan[e].at = "start"
    /\ LET sc == IF e = "replenish" THEN Refill ELSE scan[e]
       IN  scan' = [scan EXCEPT ![e] = IF sc.want <= 1 THEN NoScan ELSE Onward(sc, active)]
    /\ UNCHANGED <<mode, site, sourceVars, requestVars, fetchVars, pinned, pastVars>>

Landed(e, u) == [scan[e] EXCEPT !.inFlight = @ \ {u}]

(* The probe failed, was refused, or shows the host of a route in use. *)
ScanDrops(e, u) ==
    /\ scan[e].at = "receive" /\ u \in scan[e].inFlight
    /\ scan' = [scan EXCEPT ![e] = Onward(Landed(e, u), active)]
    /\ UNCHANGED <<mode, site, sourceVars, requestVars, fetchVars, pinned, pastVars>>

NewHost_Any(e, u) == TRUE
NewHost(e, u) == site[u].host \notin scan[e].hosts

(* Otherwise failedRouteIndex, and adoptRoute as far as the headers go.     *)
ScanReceives(e, u) ==
    /\ scan[e].at = "receive" /\ u \in scan[e].inFlight
    /\ NewHost(e, u)
    /\ LET sc == [Landed(e, u) EXCEPT !.url = u, !.recover = FailedIndex(u)]
           first == site[meta.url]
           reject == \/ Healthy = {}
                     \/ first.size # site[u].size \/ EtagsDiffer(first, site[u])
       IN  scan' = [scan EXCEPT ![e] =
               IF ~reject /\ Merges(first, site[u]) THEN [sc EXCEPT !.at = "accept"]
               ELSE IF reject \/ released THEN Onward(sc, active)
               ELSE [sc EXCEPT !.at = "sample",
                               !.first = [meta EXCEPT !.url = active[Least(Healthy)].url]]]
    /\ UNCHANGED <<mode, site, sourceVars, requestVars, fetchVars, pinned, pastVars>>

ScanExpires(e) ==
    /\ scan[e].at = "receive"
    /\ scan' = [scan EXCEPT ![e] = NoScan]
    /\ UNCHANGED <<mode, site, sourceVars, requestVars, fetchVars, pinned, pastVars>>

(* ensureFingerprint: the one there is; else of the head, if it is cached, *)
(* or of three samples of the first healthy route.                         *)
Prints(first) ==
    IF first.print # "none" THEN {first}
    ELSE {[url |-> first.url, print |-> p, bytes |-> Sampled(first.url, p)] :
             p \in (IF cacheFile THEN {"head"} ELSE {}) \cup (IF Serves(first.url) THEN {"full"} ELSE {})}

Matches_HeadOnly(fp, u) == Sampled(u, "head") = Sampled(fp.url, "head")
Matches(fp, u) == fp.bytes = Sampled(u, fp.print)

ScanSamples(e) ==
    /\ scan[e].at = "sample"
    /\ \E fp \in Prints(scan[e].first) :
          IF Matches(fp, scan[e].url)
          THEN /\ scan' = [scan EXCEPT ![e].at = "accept"]
               /\ meta' = IF meta.print = "none" THEN [fp EXCEPT !.url = meta.url] ELSE meta
               /\ byHead' = IF fp.print = "head" THEN byHead \cup {scan[e].url} ELSE byHead
          ELSE /\ scan' = [scan EXCEPT ![e] = Onward(scan[e], active)]
               /\ UNCHANGED <<meta, byHead>>
    /\ UNCHANGED <<mode, site, unsupported, active, focus, cacheFile, released, requestVars, fetchVars,
                   pinned, used>>

(* A sample could not be fetched, or came too late. *)
ScanSampleFails(e) ==
    /\ scan[e].at = "sample"
    /\ scan' = [scan EXCEPT ![e] = Onward(scan[e], active)]
    /\ UNCHANGED <<mode, site, sourceVars, requestVars, fetchVars, pinned, pastVars>>

ScanAccepts(e) ==
    /\ scan[e].at = "accept"
    /\ LET sc == [scan[e] EXCEPT !.hosts = @ \cup {site[scan[e].url].host}]
           routes == Accepted(sc.url, sc.recover)
       IN  /\ Len(routes) <= MaxRoutes
           /\ active' = routes
           /\ scan' = [scan EXCEPT ![e] =
                  IF Cardinality(HealthyIn(routes)) >= sc.want THEN NoScan
                  ELSE Onward(sc, routes)]
    /\ UNCHANGED <<mode, site, meta, unsupported, focus, cacheFile, released, requestVars, fetchVars,
                   pinned, pastVars>>

-----------------------------------------------------------------------------
(* fetchRange, with the routes routeAttempts gives it *)

SetToAscending(S) == [k \in 1 .. Cardinality(S) |->
                         CHOOSE i \in S : Cardinality({j \in S : j < i}) = k - 1]

(* failoverRouteIndex: the focused route, else the first healthy one *)
FocusIndex_Latest == IF Healthy # {} THEN CHOOSE i \in Healthy : \A j \in Healthy : j <= i ELSE 1
FocusIndex ==
    LET focused == {i \in Healthy : active[i].url = focus}
    IN  IF focused # {} THEN Least(focused)
        ELSE IF Healthy # {} THEN Least(Healthy) ELSE 1

(* Only a source that is by itself follows the focus: one that shares the  *)
(* entrances with others keeps to the route it was planned for.            *)
Follows == mode = "failover" /\ ~pinned
Preferred(p) == IF Follows THEN FocusIndex ELSE p

(* taken are the indexes other sources are assigned.                       *)
RouteAttempts_HealthyOnly(p, taken) ==
    IF ~active[p].bad THEN <<p>> ELSE SetToAscending(Healthy)
RouteAttempts(p, taken) ==
    IF ~active[p].bad THEN <<p>>
    ELSE IF ~pinned THEN Append(SetToAscending(Healthy), p)
    ELSE SetToAscending(Healthy \ taken) \o SetToAscending(Healthy \cap taken)
         \o SetToAscending(DOMAIN active \ Healthy)

(* The routes of one round of attempts; the focus a source follows moves   *)
(* to the healthy route chosen.                                            *)
Try(f, p, n) ==
    /\ \E taken \in SUBSET DOMAIN active :
          fetch' = [fetch EXCEPT ![f] =
              [at |-> "trying", left |-> RouteAttempts(Preferred(p), taken),
               preferred |-> p, try |-> n, own |-> pinned]]
    /\ focus' = IF Follows /\ Healthy # {} THEN active[FocusIndex].url ELSE focus
    /\ UNCHANGED <<mode, site, meta, unsupported, active, cacheFile, released, requestVars, scan,
                   need, faults, pinned, pastVars>>

FetchStarts(f, p) ==
    /\ fetch[f].at = "idle" /\ meta # NoMeta
    /\ p \in DOMAIN active
    /\ Try(f, p, 1)

FetchRetries(f) ==
    /\ fetch[f].at = "pause"
    /\ Try(f, fetch[f].preferred, fetch[f].try + 1)

(* recordRouteResult, setFailoverFocus, and replenishRoutePool if a        *)
(* download failed since it was last called.                               *)
FetchSucceeds(f) ==
    LET i == Head(fetch[f].left)
    IN  /\ fetch[f].at = "trying" /\ Serves(active[i].url)
        /\ active' = [active EXCEPT ![i].bad = FALSE]
        /\ focus' = IF mode = "failover" THEN active[i].url ELSE focus
        /\ need' = FALSE
        /\ scan' = IF need /\ ~released /\ scan["replenish"].at = "off"
                   THEN [scan EXCEPT !["replenish"].at = "start"] ELSE scan
        /\ fetch' = [fetch EXCEPT ![f] = NoFetch]
        /\ used' = IF fetch[f].own THEN used \cup {i} ELSE used
        /\ UNCHANGED <<mode, site, meta, unsupported, cacheFile, released, requestVars, faults,
                       pinned, byHead>>

FetchFails(f) ==
    LET i == Head(fetch[f].left)
        rest == Tail(fetch[f].left)
    IN  /\ fetch[f].at = "trying"
        /\ faults < MaxFaults /\ faults' = faults + 1
        /\ active' = [active EXCEPT ![i].bad = TRUE]
        /\ need' = TRUE
        /\ fetch' = [fetch EXCEPT ![f] =
               IF rest # <<>> THEN [@ EXCEPT !.left = rest]
               ELSE IF @.try < Retries THEN [@ EXCEPT !.at = "pause", !.left = <<>>]
               ELSE NoFetch]
        /\ UNCHANGED <<mode, site, meta, unsupported, focus, cacheFile, released, requestVars, scan,
                       pinned, pastVars>>

FetchCanceled(f) ==
    /\ fetch[f].at # "idle"
    /\ fetch' = [fetch EXCEPT ![f] = NoFetch]
    /\ UNCHANGED <<mode, site, sourceVars, requestVars, scan, need, faults, pinned, pastVars>>

-----------------------------------------------------------------------------
(* The release function, or Close: closeCache included. *)
Release ==
    /\ ~released
    /\ released' = TRUE
    /\ cacheFile' = FALSE
    /\ UNCHANGED <<mode, site, meta, unsupported, active, focus, requestVars, scan, fetchVars,
                   pinned, pastVars>>

(* rebalanceLocked: another source comes, or the last of the others goes.  *)
Rebalance ==
    /\ ~released
    /\ pinned' = ~pinned
    /\ UNCHANGED <<mode, site, sourceVars, requestVars, scan, fetchVars, pastVars>>

Probe(r) ==
    \/ \E u \in UrlSet : ProbeFails(r, u) \/ ProbeRefused(r, u) \/ ProbeAccepted(r, u)
    \/ ProbeExpires(r)

Expand(e) ==
    \/ ScanStarts(e) \/ ScanExpires(e)
    \/ ScanSamples(e) \/ ScanSampleFails(e) \/ ScanAccepts(e)
    \/ \E u \in UrlSet : ScanDrops(e, u) \/ ScanReceives(e, u)

Download(f) ==
    \/ \E p \in 1 .. MaxRoutes : FetchStarts(f, p)
    \/ FetchRetries(f) \/ FetchSucceeds(f) \/ FetchFails(f) \/ FetchCanceled(f)

Gone == released /\ UNCHANGED poolVars

PoolNext ==
    \/ \E r \in Requests : Lookup(r) \/ Enter(r) \/ Probe(r) \/ Leave(r)
    \/ \E e \in Scans : Expand(e)
    \/ \E f \in Fetchers : Download(f)
    \/ Release \/ Rebalance
    \/ Gone

PoolSpec == PoolInit /\ [][PoolNext]_poolVars

-----------------------------------------------------------------------------
(* Properties *)

RouteTypeOK ==
    /\ meta \in [url : UrlSet \cup {None}, print : {"none", "head", "full"}, bytes : Contents \cup {"none"}]
    /\ unsupported \in BOOLEAN /\ cacheFile \in BOOLEAN /\ released \in BOOLEAN
    /\ \A i \in DOMAIN active : active[i] = [Route(active[i].url) EXCEPT !.bad = active[i].bad]
    /\ focus \in UrlSet \cup {None}
    /\ lock \in Requests \cup {None}
    /\ \A r \in Requests : lock = r <=> req[r] = "probing"
    /\ round.inFlight \subseteq UrlSet /\ (lock # None => round.inFlight # {})
    /\ \A e \in Scans : scan[e].recover \in 0 .. Len(active)
    /\ \A f \in Fetchers :
          /\ \A k \in DOMAIN fetch[f].left : fetch[f].left[k] \in DOMAIN active
          /\ fetch[f].at = "trying" => fetch[f].left # <<>>
    /\ need \in BOOLEAN /\ faults \in 0 .. MaxFaults
    /\ pinned \in BOOLEAN /\ byHead \subseteq UrlSet /\ used \subseteq DOMAIN active

(* Entrances that resolve to the same final host are used once.  It does   *)
(* not hold: the two goroutines each remember the hosts they found, and a  *)
(* failed route may recover by itself while it is probed again.            *)
DistinctHosts == \A i, j \in DOMAIN active : active[i].host = active[j].host => i = j

(* As long as no download fails there is one goroutine: whatever order the *)
(* probes end in, it takes every final host once and stops at the number   *)
(* of workers.                                                             *)
OneRoutePerHost == faults = 0 => DistinctHosts /\ Len(active) <= PoolSize

Serving(u) == \E i \in DOMAIN active : active[i].url = u

(* Chunks of different routes end up in one file.  Whatever goroutines     *)
(* take fingerprints at the same time, downloads fail and routes are taken *)
(* again: every route has the size and the head of the media the metadata  *)
(* describe, and all of its bytes too unless it was taken because its head *)
(* alone matched (the fingerprint is of the head whenever a stream was     *)
(* filling the cache as it was taken).                                     *)
SameMedia ==
    meta # NoMeta =>
        \A u \in UrlSet : Serving(u) =>
            LET mine == site[u]
                first == site[meta.url]
            IN  /\ mine.size = first.size /\ mine.head = first.head
                /\ u \notin byHead => mine.bytes = first.bytes

(* README.en.md:169 says samples of the head, the middle and the tail are  *)
(* compared before a second route is used, so all of its bytes are the     *)
(* media's.  It does not hold: see SameMedia.                              *)
WholeMedia ==
    meta # NoMeta => \A u \in UrlSet : Serving(u) => site[u].bytes = site[meta.url].bytes

(* A source is given up for good only in a round in which every entrance   *)
(* answered that it has no ranges: an error anywhere in the round, in      *)
(* whatever order the probes end, leaves it to the next request.           *)
UnsupportedByAll ==
    unsupported' /\ ~unsupported => \E u \in UrlSet : round.refused \cup {u} = UrlSet
UnsupportedUnanimous == [][UnsupportedByAll]_poolVars

(* In failover mode a route accepted later is a standby: as long as no     *)
(* download failed, a source that is by itself downloads from its first    *)
(* route only, or from one it was assigned, and served by, while it shared *)
(* the entrances with others - whichever of its downloads ends last.       *)
StandbyKept ==
    mode = "failover" /\ faults = 0 =>
        \A f \in Fetchers :
            fetch[f].at = "trying" /\ ~fetch[f].own => \E i \in {1} \cup used : fetch[f].left = <<i>>

=============================================================================
