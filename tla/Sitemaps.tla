------------------------------ MODULE Sitemaps ------------------------------
(***************************************************************************)
(* The sitemaps of one domain: the two handlers of                         *)
(* src/routes/organizations.ts that discover and fetch them, the walk over *)
(* the documents of an index (src/services/sitemap-fetch-service.ts,       *)
(* src/lib/safe-http-client.ts) and the transactions that store what the   *)
(* walk found (src/repositories/postgres/sitemap-persistence-repository.ts).*)
(*                                                                         *)
(* A call works in three stages: it logs that it has started, it reads the *)
(* network without touching the database, and one transaction stores its   *)
(* rows together with the outcome.  A storing transaction only writes, and *)
(* keeps its row locks to the end, so that it is one step here.            *)
(*                                                                         *)
(* The recursion of buildSitemapFetchTree is a list of the documents still *)
(* to be visited, in the order in which the recursion comes to them.       *)
(***************************************************************************)
EXTENDS Naturals, Sequences, FiniteSets, SequencesExt

CONSTANTS Doc,           \* normalized URLs of sitemap documents of the domain
          Page,          \* normalized URLs of pages of the domain
          Foreign,       \* an entry that normalizeTargetUrl rejects
          Fetch,         \* calls of the fetch endpoint
          Scan,          \* calls of the discovery endpoint
          Conventional,  \* the two documents every site may have
          RobotsTxt,     \* lists of documents robots.txt may name
          IndexAt,       \* for each document the lists it may serve as an index
          UrlsetAt,      \* for each document the lists it may serve as a urlset
          NoDoc,         \* no document
          BehindProxy,   \* OUTBOUND_PROXY_URL is set
          MaxDiscovered, MaxNested, MaxIndexDepth, MaxPerDomain, MaxRedirects

ASSUME SitemapsAssumption ==
    /\ Conventional \in Seq(Doc)
    /\ RobotsTxt \subseteq Seq(Doc \cup {Foreign})
    /\ \A d \in Doc : IndexAt[d] \subseteq Seq(Doc \cup {Foreign})
    /\ \A d \in Doc : UrlsetAt[d] \subseteq Seq(Page \cup {Foreign})
    /\ Foreign \notin Doc \cup Page /\ NoDoc \notin Doc /\ Fetch \cap Scan = {}
    /\ MaxDiscovered \in Nat /\ MaxNested \in Nat /\ MaxIndexDepth \in Nat
    /\ MaxPerDomain \in Nat /\ MaxRedirects \in Nat /\ BehindProxy \in BOOLEAN

VARIABLES verified,  \* the status of the domain's row is 'verified'
          sources,   \* status of the rows of sitemap_sources
          urls,      \* the rows of discovered_urls
          logged,    \* audit events of each call
          phase,     \* how far each call has come, and its answer
          target,    \* the source each fetch was called for
          counted,   \* existingTotal of each fetch
          budget,    \* remainingUrlBudget
          nested,    \* nestedCount
          todo,      \* documents still to be visited, with their depths
          hops,      \* redirects followed for the first of them
          nodes,     \* documents visited: which, how deep, and with what outcome
          overlapped,\* history: a fetch stored after its count had become stale
          hung       \* calls whose outbound request never settles

rows == <<sources, urls>>
walk == <<budget, nested, todo, hops, nodes>>
sitemapsVars == <<verified, sources, urls, logged, phase, target, counted, walk, overlapped, hung>>

Request == Fetch \cup Scan
InFlight == {"counting", "walking", "failing", "scanning"}

SitemapsInit ==
    /\ verified = TRUE
    /\ sources = [d \in Doc |-> "absent"]
    /\ urls = {}
    /\ logged = [c \in Request |-> {}]
    /\ phase = [c \in Request |-> "new"]
    /\ target = [c \in Fetch |-> NoDoc]
    /\ counted = [c \in Fetch |-> 0]
    /\ budget = [c \in Fetch |-> 0]
    /\ nested = [c \in Fetch |-> 0]
    /\ todo = [c \in Fetch |-> <<>>]
    /\ hops = [c \in Fetch |-> 0]
    /\ nodes = [c \in Fetch |-> <<>>]
    /\ overlapped = FALSE
    /\ hung = {}

Log(c, event) == logged' = [logged EXCEPT ![c] = @ \cup {event}]
Proceed(c, p) == phase' = [phase EXCEPT ![c] = p]

Smaller(m, n) == IF m < n THEN m ELSE n
FirstOf(n, s) == SubSeq(s, 1, Smaller(n, Len(s)))

\* The elements of s that are in S, in their order: SelectSeq, but without its
\* recursion, so that it can be reasoned about.
Kept(s, S) ==
    LET at == {i \in DOMAIN s : s[i] \in S}
        before(i) == {j \in at : j < i}
    IN  [k \in 1 .. Cardinality(at) |->
            s[CHOOSE i \in at : Cardinality(before(i)) = k - 1]]

-----------------------------------------------------------------------------
(* Faulty variants of definitions below: mistakes the code could have made, *)
(* kept to check that the properties notice them.                           *)

\* An index is read to its end.
WalkOverUncapped(c) == todo[c] = <<>>

\* The budget is that of an empty domain.
ReadBudgetFull(c) ==
    /\ phase[c] = "counting"
    /\ Proceed(c, "walking")
    /\ counted' = [counted EXCEPT ![c] = Cardinality(urls)]
    /\ budget' = [budget EXCEPT ![c] = MaxPerDomain]
    /\ todo' = [todo EXCEPT ![c] = <<[doc |-> target[c], depth |-> 0]>>]
    /\ UNCHANGED <<verified, rows, logged, target, nested, hops, nodes, overlapped, hung>>

\* The status of the source is written before the transaction begins.
StoreFailsHalfway(c) ==
    /\ phase[c] = "failing"
    /\ sources' = [sources EXCEPT ![target[c]] = "failed"]
    /\ Proceed(c, "error")
    /\ UNCHANGED <<verified, urls, logged, target, counted, walk, overlapped, hung>>

\* A redirect is followed without being counted.
RedirectedUncounted(c) ==
    /\ phase[c] = "walking" /\ todo[c] # <<>>
    /\ hops' = [hops EXCEPT ![c] = 1 - @]
    /\ UNCHANGED <<verified, rows, logged, phase, target, counted, budget, nested,
                   todo, nodes, overlapped, hung>>

-----------------------------------------------------------------------------
(* Discovery *)

\* What a scan proposes: the documents robots.txt names, then the
\* conventional ones, those of other hosts left out, and the first
\* MaxDiscovered of the rest.
Candidates(robots) ==
    LET named == FirstOf(MaxDiscovered, robots) \o Conventional
        valid == Kept(named, Doc)
        rank(i) == Cardinality(ToSet(SubSeq(valid, 1, i)))
    IN  {valid[i] : i \in {j \in DOMAIN valid : rank(j) =< MaxDiscovered}}

BeginScan(s) ==
    /\ phase[s] = "new"
    /\ verified
    /\ Log(s, "started")
    /\ Proceed(s, "scanning")
    /\ UNCHANGED <<verified, rows, target, counted, walk, overlapped, hung>>

\* New candidates become pending sources; a source that is there keeps its
\* status.  An unreadable robots.txt is one that names nothing.
StoreScan(s) ==
    /\ phase[s] = "scanning"
    /\ \E robots \in RobotsTxt :
         sources' = [d \in Doc |-> IF d \in Candidates(robots) /\ sources[d] = "absent"
                                   THEN "pending" ELSE sources[d]]
    /\ Log(s, "completed")
    /\ Proceed(s, "ok")
    /\ UNCHANGED <<verified, urls, target, counted, walk, overlapped, hung>>

-----------------------------------------------------------------------------
(* A fetch: from the request to the first document *)

BeginFetch(c, d) ==
    /\ phase[c] = "new"
    /\ sources[d] # "absent"
    /\ verified
    /\ Log(c, "started")
    /\ target' = [target EXCEPT ![c] = d]
    /\ Proceed(c, "counting")
    /\ UNCHANGED <<verified, rows, counted, walk, overlapped, hung>>

\* The event that a call has started cannot be written: nothing starts.
BeginFails(c) ==
    /\ phase[c] = "new"
    /\ verified
    /\ c \in Fetch => \E d \in Doc : sources[d] # "absent"
    /\ Proceed(c, "error")
    /\ UNCHANGED <<verified, rows, logged, target, counted, walk, overlapped, hung>>

\* countByDomain, once for the whole walk.
ReadBudget(c) ==
    /\ phase[c] = "counting"
    /\ Proceed(c, "walking")
    /\ counted' = [counted EXCEPT ![c] = Cardinality(urls)]
    /\ budget' = [budget EXCEPT ![c] = MaxPerDomain - Smaller(MaxPerDomain, Cardinality(urls))]
    /\ todo' = [todo EXCEPT ![c] = <<[doc |-> target[c], depth |-> 0]>>]
    /\ UNCHANGED <<verified, rows, logged, target, nested, hops, nodes, overlapped, hung>>

CountFails(c) ==
    /\ phase[c] = "counting"
    /\ Proceed(c, "failing")
    /\ UNCHANGED <<verified, rows, logged, target, counted, walk, overlapped, hung>>

-----------------------------------------------------------------------------
(* The walk *)

\* Nothing is left to visit, or no nested document may be visited any more,
\* which ends the loops over the entries at every level.
WalkOver(c) ==
    LET allowed == {v \in ToSet(todo[c]) : v.depth > 0 => nested[c] < MaxNested}
    IN  allowed = {}

Visiting(c) == phase[c] = "walking" /\ ~WalkOver(c)
Fetching(c) == Visiting(c) /\ Head(todo[c]).depth =< MaxIndexDepth

\* The first document to be visited gets a node, and `entries` come next.
Visited(c, success, pages, entries) ==
    LET visit == Head(todo[c])
    IN  /\ nodes' = [nodes EXCEPT ![c] =
                       Append(@, [doc |-> visit.doc, depth |-> visit.depth,
                                  success |-> success, pages |-> pages])]
        /\ todo' = [todo EXCEPT ![c] =
                       [i \in DOMAIN entries |-> [doc |-> entries[i], depth |-> visit.depth + 1]]
                       \o Tail(@)]
        /\ nested' = [nested EXCEPT ![c] = IF visit.depth > 0 THEN @ + 1 ELSE @]
        /\ hops' = [hops EXCEPT ![c] = 0]

\* safeFetch answers a redirect with a request for its target.
Redirected(c) ==
    /\ Fetching(c)
    /\ hops[c] < MaxRedirects
    /\ hops' = [hops EXCEPT ![c] = @ + 1]
    /\ UNCHANGED <<verified, rows, logged, phase, target, counted, budget, nested,
                   todo, nodes, overlapped, hung>>

ServesIndex(c) ==
    /\ Fetching(c)
    /\ \E locs \in IndexAt[Head(todo[c]).doc] :
         Visited(c, TRUE, {}, Kept(locs, Doc))
    /\ UNCHANGED <<verified, rows, logged, phase, target, counted, budget, overlapped, hung>>

\* The entries of a urlset that are taken: the valid ones while budget lasts.
Taken(c, locs) == FirstOf(budget[c], Kept(locs, Page))

ServesUrlset(c) ==
    /\ Fetching(c)
    /\ budget[c] > 0
    /\ \E locs \in UrlsetAt[Head(todo[c]).doc] :
         /\ Visited(c, TRUE, ToSet(Taken(c, locs)), <<>>)
         /\ budget' = [budget EXCEPT ![c] = @ - Len(Taken(c, locs))]
    /\ UNCHANGED <<verified, rows, logged, phase, target, counted, overlapped, hung>>

\* The document is too deep, cannot be fetched or parsed, or is a urlset for
\* which no budget is left.  A nested document gets a failed node.
NestedFails(c) ==
    /\ Visiting(c)
    /\ Head(todo[c]).depth > 0
    /\ Visited(c, FALSE, {}, <<>>)
    /\ UNCHANGED <<verified, rows, logged, phase, target, counted, budget, overlapped, hung>>

\* ... and for the document the call was made for, the walk fails.
TopFails(c) ==
    /\ Visiting(c)
    /\ Head(todo[c]).depth = 0
    /\ Proceed(c, "failing")
    /\ UNCHANGED <<verified, rows, logged, target, counted, walk, overlapped, hung>>

-----------------------------------------------------------------------------
(* Storing the outcome *)

\* persistNode goes through the tree in the order of the walk, and the last
\* node of a document decides on its row.
LastNode(c, d) ==
    LET at == {i \in DOMAIN nodes[c] : nodes[c][i].doc = d}
    IN  nodes[c][CHOOSE i \in at : \A j \in at : j =< i]

Walked(c) == {nodes[c][i].doc : i \in DOMAIN nodes[c]}
FoundBy(c) == UNION {nodes[c][i].pages : i \in DOMAIN nodes[c]}

Store(c) ==
    /\ phase[c] = "walking"
    /\ WalkOver(c)
    /\ sources' = [d \in Doc |-> IF d \notin Walked(c) THEN sources[d]
                                 ELSE IF LastNode(c, d).success THEN "success" ELSE "failed"]
    /\ urls' = urls \cup FoundBy(c)
    /\ overlapped' = (overlapped \/ counted[c] # Cardinality(urls))
    /\ Log(c, "completed")
    /\ Proceed(c, "ok")
    /\ UNCHANGED <<verified, target, counted, walk, hung>>

StoreFailure(c) ==
    /\ phase[c] = "failing"
    /\ sources' = [sources EXCEPT ![target[c]] = "failed"]
    /\ Log(c, "failed")
    /\ Proceed(c, "rejected")
    /\ UNCHANGED <<verified, urls, target, counted, walk, overlapped, hung>>

\* The transaction is rolled back.  Nothing more is written.
StoreFails(c) ==
    /\ phase[c] \in {"failing", "scanning"} \/ (phase[c] = "walking" /\ WalkOver(c))
    /\ Proceed(c, "error")
    /\ UNCHANGED <<verified, rows, logged, target, counted, walk, overlapped, hung>>

-----------------------------------------------------------------------------
\* The process dies with the calls it is working on.
Crash ==
    /\ \E c \in Request : phase[c] \in InFlight
    /\ phase' = [c \in Request |-> IF phase[c] \in InFlight THEN "lost" ELSE phase[c]]
    /\ UNCHANGED <<verified, rows, logged, target, counted, walk, overlapped, hung>>

\* The token is rotated, or the domain verified (DomainVerification).
DomainChanges ==
    /\ verified' = ~verified
    /\ UNCHANGED <<rows, logged, phase, target, counted, walk, overlapped, hung>>

\* A request of the call is made through a proxy that does not answer CONNECT,
\* closes the connection before it does, or leaves the TLS handshake behind it
\* unfinished.  The agent hands over no socket and no error, and the timeout of
\* the request starts with its socket: the call waits for ever.  A scan makes
\* its request for robots.txt.
Hang(c) ==
    /\ BehindProxy
    /\ c \notin hung
    /\ IF c \in Fetch THEN Fetching(c) ELSE phase[c] = "scanning"
    /\ hung' = hung \cup {c}
    /\ UNCHANGED <<verified, rows, logged, phase, target, counted, walk, overlapped>>

ScanStep(s) ==
    /\ s \notin hung
    /\ StoreScan(s) \/ StoreFails(s)

FetchStep(c) ==
    /\ c \notin hung
    /\ \/ ReadBudget(c) \/ CountFails(c)
       \/ Redirected(c) \/ ServesIndex(c) \/ ServesUrlset(c) \/ NestedFails(c) \/ TopFails(c)
       \/ Store(c) \/ StoreFailure(c) \/ StoreFails(c)

SitemapsNext ==
    \/ \E s \in Scan : BeginScan(s) \/ BeginFails(s) \/ ScanStep(s)
    \/ \E c \in Fetch : (\E d \in Doc : BeginFetch(c, d)) \/ BeginFails(c) \/ FetchStep(c)
    \/ \E c \in Request : Hang(c)
    \/ Crash
    \/ DomainChanges

SitemapsSpec == SitemapsInit /\ [][SitemapsNext]_sitemapsVars

\* A request to the site that has its connection is answered, times out or
\* breaks off, and a statement ends; one that waits for its connection behind a
\* proxy may hang.  Requests of users and changes of the domain need not come.
SitemapsFairness ==
    /\ \A s \in Scan : WF_sitemapsVars(ScanStep(s))
    /\ \A c \in Fetch : WF_sitemapsVars(FetchStep(c))

SitemapsFairSpec == SitemapsSpec /\ SitemapsFairness

-----------------------------------------------------------------------------
(* Properties *)

\* Whatever a site serves, an index that lists itself included, one call
\* visits at most MaxNested documents beside its own, fetches none deeper
\* than MaxIndexDepth and stores no more pages than it had budget for
\* (SITEMAP_FETCH_LIMITS).
WalkBounded ==
    \A c \in Fetch :
      /\ Len(nodes[c]) =< 1 + MaxNested
      /\ \A i \in DOMAIN nodes[c] : nodes[c][i].success => nodes[c][i].depth =< MaxIndexDepth
      /\ Cardinality(FoundBy(c)) + counted[c]
           =< IF counted[c] > MaxPerDomain THEN counted[c] ELSE MaxPerDomain

\* A domain has more URLs than its limit only if two fetches overlapped, so
\* that one of them stored what it found against a count that was no longer
\* true (countByDomain is read once, before the walk).
OverrunNeedsOverlap == Cardinality(urls) > MaxPerDomain => overlapped

\* Rows change only together with the outcome of exactly one call, and an
\* outcome is logged exactly when the call is answered with it: after a
\* rollback or a crash neither is there (runAuditedTransaction).
ChangesAreRecorded ==
    [][LET recorded == {c \in Request : logged'[c] \cap {"completed", "failed"}
                                       # logged[c] \cap {"completed", "failed"}}
       IN  /\ rows' # rows => Cardinality(recorded) = 1
           /\ recorded = {c \in Request : phase[c] \in InFlight /\ phase'[c] \in {"ok", "rejected"}}]_sitemapsVars

\* No walk goes on for ever, whatever the site answers: a step of it either
\* visits one more of the documents a call may visit, or leaves everything as
\* it is but for one more of the redirects a document may take.
WalksUseUp ==
    [][\A c \in Fetch :
         phase[c] = "walking" =>
           \/ UNCHANGED <<todo[c], nodes[c], hops[c]>>
           \/ Len(nodes'[c]) = Len(nodes[c]) + 1 /\ Len(nodes'[c]) =< 1 + MaxNested
           \/ /\ UNCHANGED <<todo[c], nodes[c]>>
              /\ hops'[c] = hops[c] + 1 /\ hops'[c] =< MaxRedirects]_sitemapsVars

\* A fetch that has started is answered unless the process dies or one of its
\* requests hangs in the proxy, also when the documents of the site list each
\* other in a circle.
EveryFetchEnds ==
    \A c \in Fetch : phase[c] \in InFlight ~> phase[c] \notin InFlight \/ c \in hung
=============================================================================
