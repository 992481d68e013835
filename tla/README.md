# TLA+ models of prerender-mvp

Models and proofs of the parts of the prerender service whose correctness
depends on the order of steps: what is shared between requests in a process
(the render queue, the browser, the verification guard), what is shared between
processes (rows in PostgreSQL, objects in the HTML store), and what happens when
a step fails or a process stops between two of them.

Every definition is translated from the TypeScript source. `PROJECT.json` maps
each of them to the lines it stands for; file names below are relative to
`src/src/` unless they name a document in the root of the repository.

Contents

1. Inventory of the system
2. Modules and how they correspond to the code
3. Runs, their bounds, and what they show
4. Fairness
5. Proofs
6. Disagreements between the code and what is said about it
7. Limits of the models
8. Plan

## 1. Inventory of the system

A Fastify server (`server.ts`, `app.ts`) with a PostgreSQL database, one
Chromium per process and a store of HTML objects. It has two faces: a render
endpoint authorized by API keys, and a management API authorized by sessions.

| Component | State | Operations | Hard behaviour | What makes it correct |
|---|---|---|---|---|
| Render capacity controller (`services/render-capacity.ts`) | counter of slots, queue, timers, `closed`, one promise per call | run, completion, queue timeout, close | callbacks in any order, two release paths, hung renders | slots never leak, no call forgotten, FIFO, nothing starts after close, every wait ends |
| Cache storage (`services/cache-storage-service.ts`, `repositories/postgres/cache-repository.ts`) | row of a cache entry, generation, storage key | begin, commit, mark failed, invalidate, read | row and object are written separately; slow writers; lost answers; crashes | one winner per generation, ready rows have objects, no late writer comes back |
| HTML object store (`repositories/filesystem-html-object-store.ts`) | files under keys | put (stat, temporary file, rename), get, delete | steps of two writers of one key | what a row refers to is there |
| API key management (`services/api-key-service.ts`, `repositories/postgres/api-key-repository.ts`) | row of a key: enabled, metadata with revokedAt and the links of rotations; row lock; audit events | create, revoke, rotate; Better Auth deletes the row of an expired key that is verified | reads outside of the transaction, lock, rollback, rows deleted under a call | dead keys stay dead, one successor, rows explained by the audit trail |
| API key authentication (`services/render-api-key-auth-service.ts`) | none of its own | verify | the two signals of a dead key | a key with either signal is refused |
| Domain verification (`services/domain-verification-service.ts`, `routes/organizations.ts`, `repositories/postgres/tenant-repository.ts`) | row of the domain; limiter window and single-flight guard per process | verify, rotate token | row read before a long network phase and again before the transaction; restarts | verified means proven, a rotation takes the proof back, guard released |
| Invitations, membership (`services/invitation-service.ts`, tenant repository) | rows of invitations, members and accounts, audit events | create, accept, cancel, change role, remove | READ COMMITTED; the account is written on another connection of a small pool | no account taken over, members were invited, no call waits for ever |
| Browser (`services/renderer.ts`) | launch promise, `closingIntentionally` | getBrowser, disconnect handler, close | callers awaiting one launch; failed launches; close during a launch | one browser unless a launch failed, none left at the end |
| Server process (`server.ts`, `app.ts`) | the server's connections, the handlers of two signals | start, markShuttingDown, close and its hooks, exit | signals that overlap, Playwright's own handlers of them (`lib/browser-launch.ts`); requests still on their way to the pool; pages without a timeout; clients that leave | the program takes nothing from a client that waits; no browser left; it ends |
| Readiness (`db/readiness.ts`, `db/client.ts`) | cached result, ping in flight | check, ping with a timeout | a result that serves several probes; a ping that outlives an outage | ready is never said of a database that was down |
| Render route (`routes/render.ts`) | none of its own | limiter, key, project and domain checks, then the controller | the rows change between the checks and while a call is queued | the pool is reached only through every check, and what is counted is what was called |
| Rate limiter (`lib/rate-limiter.ts`) | bucket of each name | check, cleanup, reset | fixed windows, buckets dropped by a timer | at most twice the limit within a window's length |
| Sitemaps (`services/sitemap-discovery-service.ts`, `services/sitemap-fetch-service.ts`, `repositories/postgres/sitemap-persistence-repository.ts`) | rows of sources and URLs; the budgets of a walk | discover, fetch, persist | documents that list one another; a count read before a walk and used after it; crashes between the events; an outbound proxy that does not answer | walks are bounded and end unless the proxy hangs, rows change with their event, the limit of a domain |
| Owner bootstrap (`services/bootstrap-owner-service.ts`) | user, organization, member | bootstrap | check and insert under READ COMMITTED | one owner to an organization |
| Permissions and tenant context (`auth/permissions.ts`, `auth/tenant-context.ts`, `auth/session.ts`) | none of their own: they read members | requireSession, requireOrganizationPermission | the role is read first and relied on later | no write without a role that allows it |
| Projects, domains (tenant repository, `routes/organizations.ts`) | rows | create, update, delete, list | a PATCH writes any status over any other; a project is read before the transaction that relies on it; lists change between two pages | deleted projects gain nothing; a reader of a list meets what stays, once |
| Audit events (`repositories/postgres/audit-repository.ts`, `services/audit-service.ts`) | append-only rows | insert in the mutation's transaction; list with a cursor | commit and rollback; a cursor coarser than the rows' times | each mutation explained; no event listed twice |
| Cache policy, identity, parsers, URL checks, HTTP client, CSRF, metrics, configuration | none, or write-only | pure functions, network I/O | none that depends on order | see `PROJECT.json` for why each is left out |

How they interact. The render route calls the controller; the controller runs
a task, which is the renderer; the renderer asks `getBrowser` for the browser
and opens a page. When a signal comes, `server.ts` closes the server, whose hook
closes the controller and the pool of connections, and then the browser. Playwright
hears the same signal: it closes its browsers at once, and on SIGINT it ends the
process after that.
The cache storage service is called with what a render returned and joins a row
(shared by all processes) with an object (shared file system). The management
routes read a row, decide, and then open a transaction in which the mutation and
its audit event commit together (`runAuditedTransaction`); most of them decide
from the row as it was before the transaction began. API keys are written by the
management API and read by the render route.

## 2. Modules and how they correspond to the code

| Module | Kind | Models |
|---|---|---|
| `RenderPool` | abstract | what the render route relies on: calls wait, render or are refused, within two limits |
| `RenderCapacity` | detailed, implements `RenderPool` | `services/render-capacity.ts` |
| `LinkedPage` | abstract | a page cell with load-linked, store-conditional writes |
| `CacheStorage` | detailed, implements `LinkedPage` | storage service, cache repository, filesystem store |
| `KeyRing` | abstract | keys that are issued, retired for good, or replaced by exactly one successor |
| `ApiKeys` | detailed, implements `KeyRing` | API key service and repository |
| `DomainVerification` | detailed | verify and rotate routes, limiter, guard, tenant repository |
| `Invitations` | detailed | creation, acceptance, cancellation, role change, removal |
| `Tenancy` | detailed | bootstrap, roles and permissions, the writes of the management routes |
| `Listing` | detailed | the lists of projects, domains, URLs and audit events, page by page |
| `Service` | abstract | what a process promises its clients: requests that are taken are kept, also when it stops |
| `Browser` | detailed, component of `Server` | `getBrowser`, disconnect handler, `close` |
| `Readiness` | detailed, component of `Server` | `db/readiness.ts` and the ping of `db/client.ts` |
| `Server` | composition of `RenderPool`, `Browser` and `Readiness`, implements `Service` | `server.ts`, the hooks of `app.ts`, `renderUrl` |
| `Sitemaps` | detailed | discovery and fetch routes, the walk, the storing transactions |
| `RateLimiter` | component without a specification of its own | `lib/rate-limiter.ts` |
| `RenderRequest` | composition of `RenderPool` and `RateLimiter` | `routes/render.ts` |
| `RenderCapacityProofs`, `CacheStorageProofs`, `ApiKeysProofs`, `TenancyProofs`, `RenderRequestProofs`, `DomainProofs`, `InvitationsProofs`, `ServerProofs` | proofs | see section 5 |
| `MC...` | instances for TLC | constants and symmetry sets |

`RenderCapacity`. JavaScript is single threaded, so an action is one
synchronous stretch: `RunNow`, `Enqueue`, `RunWhenFull` and `RunWhenClosed` are
the four ways through `run()`, `Complete` is the callback of a settled render
with the whole loop of `tryRunNext` it ends with, `QueueTimeout` the timer's
callback, `Close` the `onClose` hook. `active` is the counter, `executing` the
entries that hold a slot; that the two agree is something to check. The timer
callback and the release function of an entry can run late: the `cancelled`
flag and `Settled` (a promise settles once) are kept for that.

`CacheStorage`. One cache entry. A member of `Writer` is one render attempt
with its commit. Its steps are the statements and store calls of
`commitRenderedHtml`: the put that finds the object and writes nothing, or
finds nothing and renames later; the guarded update; the cleanup of a writer
that lost. `CommitUnanswered` is an update that committed and whose answer was
lost, `StopBeforePut` and `StopAfterPut` are the process dying. `Key(w)` is
generation and content hash, as `cache-storage-service.ts:167` builds it. A
reader reads the row and then the object.

`ApiKeys`. `enabled` and `revokedAt` are two variables since the code writes
both and reads both. `RevokeRead`/`RevokeCommit` and
`RotateRead`/`RotateLock`/`RotateCommit` are the read outside of the
transaction, `FOR UPDATE`, and the commit; `seen` is the metadata that a
revocation read and writes back. `Abort` is any failing statement: it rolls back
and releases the lock. An expired key that is verified loses its row (`Delete`,
which waits for a rotation's lock); `gone` are the keys whose row has been deleted
and `Stored` the rows there are. A call may find its row gone at each of its reads:
`RevokeReadAgain` is the second read of a revocation, which then answers `revoked`
and writes nothing, and `RotateLock` answers `not_found`.

`DomainVerification`. `ReadDomain`, `RecordAttempted`, `Admit`, `Check`,
`ReadExisting`, `MarkSuccess`/`MarkFailure` follow one request through the
route, the service and the repository. Window and guard are per process and are
lost in `Restart`. `proven` and `overtaken` are history variables that no action
reads. `Publish`, `Restart` and `Suspend` are the environment.

`Invitations`. One organization. An acceptance holds a connection from the
beginning of its transaction on, and its sign-in or sign-up needs another one
(`ConnectionFree`), whose statements commit by themselves. The writes of the
transaction come last; they wait for no one but transactions that are also at
their writes, and are one step. Membership handlers read before their
transaction and write without looking again: `ReadAsMember` says the row was
there at some time.

The invitations' rows begin absent: `CreateInvitation` inserts one.

`Tenancy`. A management call goes through `Arrive` (its session names the user),
`Authorize` (the role is read), what its handler reads, and the write of its
transaction; what it is for becomes known once it has been let in. `pc` names the
permission of the write that was just committed, which is what `NoStaleAuthority`
looks at. The rows of projects, domains, members and invitations are here;
revocations, verifications and the like, which other modules have, are
`WriteOther` and leave only the permission they were made with. A bootstrap looks
at the table of users twice (`LookForUsers`) before `CommitBootstrap`. `held` and
`live` are history variables: the roles a call's user has had, and the projects
that were there, at some time since the call began.

`Listing`. One list, by id or by time, with its writers and a reader. `createdAt`
is the time at which a transaction began, a row becomes visible later (`Commit`),
and a cursor keeps milliseconds only (`Millisecond`), as `encodeAuditCursor`
does. `ORDER BY` and `LIMIT` are said with `Place`, the number of selected rows
that come before a row: a page shows those whose place is below its size, and
`RowAt` is the row at a place. `listed`, `last` and `steady` are history variables.

`Server`. A request is accepted and checked (`request`: `away`, `checking`,
`called`), and calls the pool when its checks are done. `Accept` needs an open
server; `Arrive` needs nothing of the kind, since the route does not look at the
server again, and includes the refusal by a full or closed pool. What the checks
are is in `RenderRequest`; here one either refuses the request (`Reject`) or does
not. A render is then in the pool, waits for the browser and uses a page of it;
`phase`, `pc` and `on` are where it is in each of the three. The modules
`RenderPool`, `Browser` and `Readiness` are instances, and each of their steps is
a step of the process. `handler` is how far the handler of each signal has come,
`http` how far `app.close()` has: both handlers wait for the same server, and each
closes the browser that it finds. `app.close()` waits for every connection with a
request in flight, before the pool or in it (`Drained`). A client that leaves
(`Leave`) no longer keeps the server from closing, but its request goes on.

Playwright is launched with its default `handleSIGINT` and `handleSIGTERM`, and so
has handlers beside those of `server.ts`. `PlaywrightCloses` is a browser that goes
because of a signal, under whoever uses it. `caught` are the interrupts that
Playwright has heard as well: it hears one when a browser is up, and it may hear one
while a browser is being launched. `ExitOnInterrupt` is its `process.exit(130)`,
at any time after that.

`Service` is the same process as its clients see it: the requests whose client waits
(`served`), and how far the process has come (`stage`). `servedBar` and `Stage` are
the refinement mapping; `Breakable` says that there is an interrupt.

`Browser`. A promise is the number of its launch. What runs when a promise
settles, for the launcher and for all who wait, runs before any other event
(microtasks), and is one action: in `LaunchFails` the launcher resets the
promise and throws, then each waiter resets it and launches for itself.

`Sitemaps`. One domain. A call commits its started event, works on the network
without the database, and stores everything in one transaction; each of the
three is a step, and a crash may come between them. The storing transaction
writes without reading first and keeps its row locks to its end, so that it is
one step. The recursion of `buildSitemapFetchTree` is the list `todo` of the
documents it will still come to, each with its depth: visiting an index puts its
entries in front. `nested` and `budget` are the two counters that the recursion
shares, `WalkOver` is the `break` that ends the loops of all levels at once, and
a redirect is a step of its own with `hops` as its counter. What a site serves is
chosen anew at each visit. `Kept` filters a list as `SelectSeq` does, but says so
without recursion, by which positions are kept. `LastNode` is the order in which
`persistNode` writes. Where `OUTBOUND_PROXY_URL` is set (`BehindProxy`) a request
may never settle: `Hang` puts the call into `hung`, and it takes no further step.

`RateLimiter` and `RenderRequest`. `buckets` is the map of the limiter, `Allows`
and `Counted` are the two halves of `check`. The request goes through one
statement after the other (`at` names the next one), and every row may change
in between. What follows the last check, from the limiter of the key to the call
of the pool, contains no `await`: `Admit` is one step, which conjoins the limiter
with a step of `RenderPool`. Since `RenderCapacity` implements `RenderPool`
(proved, section 5), the route is composed with what the controller promises and
not with its queue and timers. `grants` and `unfit` are history variables.

Each detailed module has a section of faulty variants. They belong to no
behaviour; each is a mistake the code could plausibly contain, and `PROJECT.json`
("mutants") says which property notices it when it takes the place of the
definition it varies.

## 3. Runs, their bounds, and what they show

| Run | Bounds | States | Shows |
|---|---|---|---|
| `render_capacity` | 5 calls, 2 slots, queue of 2 | 19,012 | slots agree with running calls; no slot is idle while calls wait; FIFO; every wait ends; implements `RenderPool` |
| `cache_storage` | 3 writers, two of them with the same page, 1 reader, generation up to 4 | 202,076 | one winner per generation; rows consistent; objects accounted for; implements `LinkedPage` |
| `cache_twin` | the same | - | finding: a twin's cleanup deletes the active object |
| `api_keys` | 4 keys, 5 calls, symmetric | 51,022 | dead keys stay dead; signals agree; audit explains rows; implements `KeyRing` |
| `domain_verification` | 3 attempts in 2 processes, 1 rotation, 1 attempt per window | 400,312 | verified means proven; guard and audit exact; which attempts outlive a rotation |
| `domain_stale_write` | the same | - | finding: a failed attempt verifies a rotated domain |
| `invitations` | 3 acceptances of 2 invitations of one person, 2 passwords, pool of 3 | 121,568 | accounts guarded; members invited; every call ends |
| `tenancy` | 2 bootstraps, 2 users, 2 organizations, 2 calls at a time, 1 project, 1 host name | 555,644 | no stale authority; deleted projects gain nothing; one owner to an organization; members come by invitations |
| `listing` | 4 rows, pages of 1 or 2, 2 milliseconds of 2 ticks | 1,399,900 | nothing listed twice; what stays is listed, but for the events the cursor loses; each page comes closer to the end |
| `server` | 3 renders, 2 slots, queue of 1, 1 probe at a time, 2 signals, one of them an interrupt | 482,229 | the shutdown takes neither pool nor browser from a client that waits, and only Playwright does; it leaves no browser but in named cases, and ends; a ready answer was true; implements `Service` |
| `sitemaps` | 2 fetches, 1 discovery, 2 documents that may list each other, 3 pages, 2 nested, depth 1, 2 URLs per domain, behind a proxy | 50,434 | walks stay within their limits, and end unless the proxy hangs; rows change with their event; no step of a walk is for nothing; only overlapping fetches exceed the limit of a domain |
| `render_request` | 3 requests with one key, limits 1 and 2, window of 2 ticks, clock up to 2, 2 changes of rows | 379,970 | the pool is reached by the fit only; the key pays for calls only; grants in a tick and within a window's length |

More properties are stated in the modules and their proofs, proved for all
constants, and not repeated in a run: the type invariants; `ClosedIsFinal`,
`PendingAccounted` and `TimersMatchQueue` of `RenderCapacity`; `OneSuccessor` and
`SignalsAgree` of `ApiKeys` (the former is contained in `ImplementsKeyRing`); and
`ReadyRowIsConsistent` and `CommitsOnlyStoredPages` of `CacheStorage`.

Why the bounds are enough. Each was chosen so that the case a property is about
occurs, and the mutant of each property confirms that it does.

- Two slots and a queue of two make the queue full with one call left to refuse,
  let a completion start a call while an older one stays, and let timers fire on
  the head and on the middle of the queue. Nothing in the controller compares
  more than two entries.
- Three writers are a winner, its twin and a writer of another page. The
  generation is the one unbounded counter of the module; `MaxGeneration` stops
  `Begin`, `Invalidate` and failures after four steps, which leaves room for an
  invalidation before, between and after the commits.
- Four keys give a chain of two rotations and a key beside it. The model reuses
  no id. Keys and calls are interchangeable, and no property or constant names
  one, so that symmetry is sound.
- Two attempts in one process meet in its guard; the third is in another
  process, which no guard stops. One rotation suffices for every stale read. The
  two attempts of one process are interchangeable.
- Two calls with one token, by somebody who knows the password and by somebody
  who does not, and one with the token of another invitation of the same person.
  Three connections: the three transactions fill the pool together, while any
  two of them can get as far as a conflict of their inserts; ten connections and
  ten calls behave alike. The person starts with no account or with either password.
- Two bootstraps may both find the table of users empty, and leave
  two organizations; the second founder may be invited into the first one's, so
  that a role in another organization is there to be mistaken. Two calls are one
  that relies on what it has read and one that changes it meanwhile, as often as
  it likes: a call that has ended may begin again. Projects and host names are
  independent of each other, and one of each is enough to be deleted and restored
  between two steps. Calls are interchangeable.
- Four rows and pages of one or two are three pages and more. A millisecond of two
  ticks has rows that share a tick, and rows that share the millisecond only.
- Three renders are two that have the slots and one that waits, or that is still
  checked when the server stops accepting; one of them may lose its client. A
  request that was refused may come again. Three launches are what three callers
  can need. Of the two signals one is the interrupt, which Playwright answers with
  an exit, and one is not.
- Two documents are enough for an index that lists itself, for two that list
  each other, and for a urlset whose page another one has already brought. With
  two nested documents at a depth of one, the nested counter, the depth and the
  budget are each the limit that ends some walk. Each call may hang in the proxy,
  and without a proxy the behaviours are those in which none does. Two fetches overlap; a third
  would add one more stale count. The domain holds two URLs and the site three.
- Three requests are one more than the limit of their address, and two of them
  may hold the key's window one after the other: the pool then has one place
  taken and one call waiting or refused. Three times of the clock are a window and
  the begin of the next one.
  Two changes of rows are one that spoils a check that was passed and one that
  repairs a check still to come. The requests are interchangeable.

`CHECK_DEADLOCK FALSE` stands in the configurations in which the constants are
finite supplies of calls, rows or time, or in which the process ends: when all
calls are answered, or the process has exited, the system may stop.
`render_capacity` and `api_keys` check deadlock: their `Finished` action stutters
only once every call has been answered (and, for the keys, expired), so that a
call stuck before its answer would be a deadlock.

## 4. Fairness

- `RenderCapacity`: only the queue timers are fair. Renders may hang (page
  content, title and `context.close` have no timeout), and nobody has to call
  `close`. `EveryWaitEnds` follows from the timers alone.
- `Invitations`: the next step of each acceptance is weakly fair, because the
  database answers and because the pool's `connectionTimeoutMillis` runs. It is
  one fairness condition for all steps of a call. Cancellations, expiries and
  failures need not happen.
- `Server`: the steps of each render (the end of its checks, its queue timer, its
  call of the browser, its end), of each launch and of each handler are weakly fair,
  and so is the end of a ping, for which a timer runs. The checks end because
  PostgreSQL answers, and because the pool of connections gives up after
  `connectionTimeoutMillis`. Playwright's launch has a timeout, and so have its
  navigations, and its exit on an interrupt waits 30 seconds for the browsers at
  most. A page may hang where the code waits without a timeout: `OnPage` is a render
  that has a page of a browser that is up, and nothing makes it end.
  `EveryShutdownEnds` therefore supposes that no render is on its page for ever;
  such a page is the only thing that a shutdown can wait for. That Playwright closes
  a browser at the signal is not fair, and no property rests on it. Requests,
  signals, crashes and clients that leave need not come.
- `Sitemaps`: the steps of a call that has started are weakly fair, as one
  condition for each call. A direct request to the site is answered, breaks off or
  times out (`fetchTimeoutMs`), and a statement is answered. A request through the
  outbound proxy may do none of these: the agent has no timer and no handler for a
  connection that ends before the answer to `CONNECT`, and the timeout of the request
  starts with the socket that the agent hands over. A call that hangs there is in
  `hung`, has no fairness, and is the one exception of `EveryFetchEnds`. Nothing else
  is fair: users need not call, the domain need not change, and a crash need not happen. A redirect
  is such a step too, so that `EveryFetchEnds` rests on the counted redirects: no walk
  goes on for ever (`WalksUseUp`), and fairness is what makes it take its steps.
- The other modules are checked for safety only.

## 5. Proofs

All theorems are checked by TLAPS, for every value of the constants that
satisfies the assumption of the module: `CapacityAssumption` and
`ServerAssumption` (finitely many calls or renders and signals, a positive
number of slots), `InvitationsAssumption` (finitely many acceptances, a pool
that is not empty), `RenderRequestAssumption` (a positive window and positive
limits), and those of the other modules, which say no more than that functions
have their types, that null values are no values, and that attempts are no
rotations. In each, `IInv` is the inductive invariant, one lemma for each of its
parts goes through the actions, and the theorems follow from `Inductive`.
`TenancyProofs` and `DomainProofs` are about two modules each: the second ones,
`Listing` and `Sitemaps`, have their names prefixed (`ListingInit`,
`SitemapsNext`), and so have their invariants (`ListingInv`, `SitemapsInv`).

`RenderCapacityProofs`: `TypeOK`, `SlotsAccounted`, `PendingAccounted`,
`TimersMatchQueue`, `WorkConserving`, `FifoOrder`, `ClosedIsFinal`, and that the
controller implements `RenderPool`. The invariants support each other: that a
full queue means taken slots (`WorkConserving`) makes a completion start exactly
one call (`LoopEffect`), which keeps the counter right; that queue and running
entries are disjoint makes its removal from the queue a removal from the timers.
What had to be added is `CancelledAnswered`, by which no queued entry is
cancelled, so that the loop of `tryRunNext` skips nobody.

`CacheStorageProofs`: type, `OneWinnerPerGeneration`, `ReadyRowIsConsistent`,
`OnlyTwinsTakeObjects`, `ObjectsAccounted`, `CommitsOnlyStoredPages`, and that
the service implements `LinkedPage`. The strengthening says that an attempt is
never ahead of the row and that a loser, and a writer whose object has been
removed, is strictly behind it (`AttemptsBehindRow`); that winners are past
generations whose objects stay unless a twin deletes them
(`WinnersKeepObjects`); and that rows and readers hold only keys of winners
(`KeysAreWon`). `DistinctPagesKeepObjects` bounds the finding of `cache_twin`:
where no two attempts render equal pages, a ready row always has its object.

`ApiKeysProofs`: type, `AnsweredKeysStayDead`, `OneSuccessor`, `SignalsAgree`,
`AuditExplainsKeys`, and that rows implement `KeyRing`. No transaction enables a
key that has a row, so dead is stable; a rotation that holds the lock keeps
everybody else from disabling its key (`CallsInStep`), so the key it replaces is
alive and has no successor (`LinkedKeysDead`, `Lineage`). A row that is deleted is
never written again, and the lock keeps it there for the rotation that holds it. So
a revocation without an event is one whose key has lost its row
(`AuditExplainsKeys`), and the two signals agree on the rows there are.

`TenancyProofs`: of `Tenancy`, its type and all that the run `tenancy` checks, the
action property `CallsAddNobody` included. `OneOwnerEach` is not inductive: a call
writes over a role it has read two statements before. It becomes so with `NamedUsersExist`: a
member who was read is a user, and no owner; nobody becomes an owner but in a
bootstrap, which commits only for a user who is not there yet. `GrantsHeld` puts
the grant of a call among the roles held since it began, and has what the call
does next allowed by that grant; `ReadProjectsLived` puts the project it has read
among those that were live. A change of role adds nobody since its step looks for
the row again.

Of `Listing`, `NothingListedTwice`, `SteadyRowsListed` and the action property
`PagesAdvance`: all that the run `listing` checks. The cursor divides the rows.
What was listed is behind it (`ListedIsBehind`), so that no page takes it again;
what stays and was not listed is ahead of it, or is one of the events that share
the millisecond of a page's last one (`SteadyIsMet`). `CursorSplits` says this of
one cursor and one row, with the arithmetic of milliseconds in two lemmas of its
own. That a page has a last row, and shows what comes before it and nothing else
(`PageSplits`), needs the places of a finite set to leave no gaps. This is an
induction in disguise, and is proved without one: places are different for
different rows and below the number of rows, and a one-to-one function between
finite sets of one size takes every value (`PlacesAreFilled`).

`RenderRequestProofs`: type, `PoolOnlyForTheFit`, `KeysPayForCallsOnly`,
`GrantsBounded`. What is held against a request (`unfit`) never is more than what
is wrong now, so that a check that is passed clears the request of one thing for
good (`ChecksClear`). The bound of a limiter is for any limit and any window, and
is where a fixed window is hard to see through: attempts are counted from a
bucket's start, the clean-up drops buckets between the attempts, and a window's
length may lie across two windows. `WindowsApart` says that a bucket counts all
that was allowed since its start, and that of the time before its start at most
the limit less one attempts are recent, since the first one of their window is
too long ago; that is what makes the sum less than twice the limit and not equal
to it.

`DomainProofs`: of `DomainVerification`, type, `VerifiedMeansProven`, `InFlightAccounted`,
`OnlyOvertakenOutliveRotation`, `OutcomesAudited`. The row that a call has read is
as good a reason as the row itself, because nothing takes back that a token was
issued, published and found (`SeenMeansProven`). An attempt that no rotation has
overtaken is looking for the present token, and what it has read still holds
(`ReadsStillHold`): so only the others can verify a domain without cause. With
`GuardExact` two attempts of a process are never between guard and release.

Of `Sitemaps`, `WalkBounded`, `OverrunNeedsOverlap` and the action properties
`ChangesAreRecorded` and `WalksUseUp`, for any site. A node is counted when it is
made unless it is the first, because the document of the call is alone in the
list when it is visited and none of its depth comes later (`TopComesFirst`,
`NodesAreCounted`). What was found and the budget that remains never exceed what
was left when the call counted (`BudgetIsShared`); so a fetch whose count is still
true when it stores stays within the limit, which is `OverrunNeedsOverlap`. No
outcome is in the trail of a call that is not answered (`OutcomesComeLast`), so
that the step that answers it adds one, and each step either answers one call or
leaves the rows alone (`AnswersAreRecorded`, `NothingIsRecorded`). `WalksUseUp` is
the part of `EveryFetchEnds` that needs no fairness: a step of a walk uses up a
visit, or a redirect between two visits, and there are finitely many of both.

`InvitationsProofs`: type, `PasswordGuardsAccounts`, `MembersWereInvited`. An
account keeps its password, so that who has been identified stays so;
`UsedOnesCreated` says that a call gets past the search only with an invitation
that was created, and events are never taken back.

`ServerProofs`: type, the four invariants of the run `server`, and that the process
implements `Service`. The order of
the shutdown carries the argument (`ClosedInOrder`): when the server has drained,
the requests left, before the pool and in it, are without a client and cannot become
more; the pool is shut after that, and browsers are taken only when the server is
closed. Only what has passed the checks is known to the pool (`PooledWereChecked`),
so a request that arrives late is one that `app.close()` has waited for, or one that
its client has left. `BrowsersTracked` says where browsers are as long as no launch
has failed: with the promise before a handler has taken one, and with the handlers
afterwards, unless an interrupt has ended these. It needs the order of the shutdown
(a render that launches a browser after a handler has closed one is a render that its
client left, `LeftBeforePool`) and `LaunchesNumbered` (a new launch has a number that
none has). The refinement goes step by step: to accept a request is `Take`; a check
or a pool that refuses it is `Part`, and a call of the pool that does not is no step
of `Service` (`AcceptRefines`, `ChecksRefine`); the pool that the hook shuts refuses
waiting renders, which their clients have left (`CloseRefines`); a render that ends
hands its place to another one, whose client does not notice (`EndRefines`); and
Playwright's exit is `Break` (`ShutdownRefines`).

Every invariant, action property and refinement that a passing run checks is
proved. Only model-checked are the four liveness properties (`EveryWaitEnds`,
`EveryAcceptEnds`, `EveryShutdownEnds`, `EveryFetchEnds`): the prover reasons
neither about fairness nor about when an action is enabled. What `Kept` keeps
is known to be of its kind (`KeptIsOfItsKind`), which is all that the proofs need;
that it keeps the order of the list would be an induction over data, and no
property rests on it. No module uses recursive operators.

## 6. Disagreements between the code and what is said about it

Found by a run that violates the property:

- `cache_twin`: two attempts that render equal pages from the same generation
  share one object key; the loser's cleanup deletes the object of the ready row
  (`services/cache-storage-service.ts:231`; the comment at 123-126 says this
  cannot happen).
- `domain_stale_write`: a failed verification that read the row before a
  rotation committed writes `verified` over the rotation's `pending`
  (`repositories/postgres/tenant-repository.ts:427`; `DOMAIN_VERIFICATION.md`
  87-91).

Met while modelling, and recorded in `PROJECT.json` without a run: an acceptance
that read `pending` accepts an invitation that was cancelled meanwhile
(`services/invitation-service.ts:167`; the actions `ReadFresh`, `CancelCommit` and
`AcceptInvitation` of the model show it); after a failed launch each waiter
launches a browser of its own (`services/renderer.ts:58`; `LaunchFails`, and the
exception in `OneBrowserWithoutTrouble`); the cursor of an audit page drops the
microseconds of its last event, and events of the same millisecond are left out
(`services/audit-service.ts:47`; the exception in `SteadyRowsListed`);
`markRenderFailed` also takes ready pages away; `already_rotated` is never
answered; the limiter is called sliding and uses fixed windows; the verification
token is matched without anchors or case; two owner bootstraps can both succeed; a disconnect after
`close` can be counted; a cancellation that changed nothing is audited;
`roleAfter` may name a role that was not granted; and a revocation that finds its
row deleted answers `revoked` without an event
(`repositories/postgres/api-key-repository.ts:251`; the exception in
`AuditExplainsKeys`). In the sitemaps: through an outbound proxy a request may
never settle, whatever its timeout (`lib/safe-http-client.ts:55`; `Hang`); a fetch of an
index that lists itself answers 200 and leaves its own source `failed`
(`persistNode` writes the last visit over the first); two overlapping fetches
exceed the URL limit of a domain (`OverrunNeedsOverlap` says that nothing else
does); and the limit on nested documents counts the whole walk, not each index,
and cuts silently. On the render route: the limiter of the address counts valid
requests too and no success resets it; and the check of the URL's address runs
when the slot is taken, not before. At shutdown: Playwright's default handlers close
the browser under the renders in flight and, on SIGINT, end the process before the
server has drained, while the comment in `app.ts:303-305` and the handler in
`server.ts:15-21` count on draining first (`lib/browser-launch.ts:25-28`;
`PlaywrightCloses` and `ExitOnInterrupt`). Such a browser also counts as one that
disconnected by itself, since `closingIntentionally` is not set.

## 7. Limits of the models

- Data is abstract: a page is its content hash, a token a number, a key a model
  value. Formats, parsing, hashing and the wording of errors are left out.
- One cache entry, one project's keys, one domain, one organization: rows of
  different scopes share nothing but the pool, the store's keys and the audit
  table, all of which are scoped by their keys.
- The requests of `RenderRequest` come from one address and concern one domain.
  There a deleted key looks like a revoked one, for the route answers the same. A render that was
  admitted is not stopped when its key is revoked, and no property says so.
- READ COMMITTED is modelled by statements that read what is committed when they
  run; writes of a transaction appear at its commit, together.
- Clocks are events: a timer fires, a window slides, an invitation expires, at
  any time after it is armed.
- `closingIntentionally` decides only what is counted and is not in `Browser`.
- `Server` leaves out the routes that neither render nor probe. The end of the pool of
  connections is one step and always comes, and a statement that PostgreSQL never
  answers is not modelled (the client sets no statement timeout).
- Each signal comes once. A second SIGINT makes Playwright kill its browsers and exit at once.
  Playwright also kills the browser processes that are left when the process exits;
  `ExitLeavesNoBrowser` is about what the program closes itself.
- In `Tenancy` an invitation, once created, may be accepted at any later time and
  more than once, since a cancellation or an expiry can come too late; the races of
  one invitation are in `Invitations`. What Better Auth's own endpoints under
  `/api/auth` would change is not modelled: the code relies on them for sessions.
- `Listing` has one reader and leaves the filters of the audit list out. A row that
  commits after the reader has passed its place is not met, and nothing promises it.
- Better Auth is used as the code uses it: a sign-in tests a password, a sign-up
  inserts an account with a unique address, both commit by themselves.

### Not modelled

Each with its reason in `PROJECT.json`: the parsers' texts, URL and origin checks,
the HTTP client below its redirects, sessions and passwords, the limiters of the
sign-in and onboarding routes with their `reset()`, the freshness of cache entries
(a pure function of a row and the time), metrics and event logs, the parsing of the
environment, the routes that only answer 410, the backfill script, which has no rows
left to change, and the fakes used in tests.

Known hazards that no property covers, although the models contain their steps: an
expired invitation is marked over an acceptance that committed meanwhile
(`services/invitation-service.ts:118`); a cancellation that changed nothing answers
that it cancelled (`tenant-repository.ts:708`); two failed attempts at a
verification may count as one (`tenant-repository.ts:429`); and the answer of a
rotation that committed may be lost with the new key in it
(`api-key-repository.ts:364`).

## 8. Plan

In this order; each with the lemmas it needs.

1. More about the modules that have proofs: what a render is owed after its
   admission (`RenderRequest` with the controller instead of `RenderPool`), and
   an abstract specification of a domain's proof that `DomainVerification`
   implements up to the attempts that `OnlyOvertakenOutliveRotation` names.
2. The limiters of sign-in and onboarding, with `reset()`; cache freshness as
   operators compared with a reference definition over small timestamps.
