------------------------------- MODULE Listing -------------------------------
(***************************************************************************)
(* Lists that a client reads page by page while rows come and go: projects,*)
(* domains and discovered URLs in the order of their ids                   *)
(* (src/repositories/postgres/tenant-repository.ts), and audit events, the *)
(* latest first (src/services/audit-service.ts).                           *)
(*                                                                         *)
(* A page is a request of its own.  It carries the cursor that the page    *)
(* before it answered with, and reads what is committed when it runs.      *)
(* Ids are random, so that a new row may come before or after any other.   *)
(* The database counts time in ticks, of which a millisecond has several;  *)
(* createdAt is the time at which the row's transaction began.             *)
(***************************************************************************)
EXTENDS Naturals, FiniteSets

CONSTANTS Row,             \* ids, numbers in the order of the database
          Limit,           \* sizes of a page that the client asks for
          PerMillisecond,  \* ticks of the database in a millisecond
          MaxTime          \* bound on the database's clock

ASSUME ListingAssumption ==
    /\ Row \subseteq Nat /\ IsFiniteSet(Row)
    /\ Limit \subseteq Nat \ {0}
    /\ PerMillisecond \in Nat \ {0}
    /\ MaxTime \in Nat

VARIABLES list,       \* which list is read, "by_id" or "by_time"
          now,        \* the clock of the database
          createdAt,  \* of each row whose transaction has begun
          stored,     \* rows that a query can see
          cursor,     \* what the last page answered: where to go on
          listed,     \* how often each row was on a page
          last,       \* rows that were the last of a page but not of the list
          steady      \* rows that every page so far could see

listingVars == <<list, now, createdAt, stored, cursor, listed, last, steady>>

Start == [at |-> "start"]
Exhausted == [at |-> "end"]

ListingInit ==
    /\ list \in {"by_id", "by_time"}
    /\ now = 0
    /\ createdAt = <<>>
    /\ stored = {}
    /\ cursor = Start
    /\ listed = [r \in Row |-> 0]
    /\ last = {}
    /\ steady = Row

\* A cursor holds a JavaScript date, which counts in milliseconds.
Millisecond(t) == (t \div PerMillisecond) * PerMillisecond

CursorAt(r) == [at |-> "row", id |-> r, time |-> Millisecond(createdAt[r])]

\* Whether r comes before q in the list.
Before(r, q) ==
    IF list = "by_id" THEN r < q
    ELSE \/ createdAt[r] > createdAt[q]
         \/ createdAt[r] = createdAt[q] /\ r > q

\* How many rows of S come before r, and the row that has k of them before it.
Place(S, r) == Cardinality({q \in S : Before(q, r)})
RowAt(S, k) == CHOOSE r \in S : Place(S, r) = k

-----------------------------------------------------------------------------
(* Faulty variants of the definitions below: mistakes the code could have   *)
(* made, kept to check that the properties notice them.                     *)

\* The cursor's own row is taken again.
AfterOrAt(c, r) ==
    IF list = "by_id" THEN r >= c.id
    ELSE createdAt[r] <= c.time

\* The cursor is the extra row, which has not been on a page.
CursorOfExtra(S, n) ==
    IF Cardinality(S) <= n THEN Exhausted ELSE CursorAt(RowAt(S, n))

-----------------------------------------------------------------------------
(* Writers *)

\* A transaction that will insert the row begins.
Begin(r) ==
    /\ r \notin DOMAIN createdAt
    /\ createdAt' = [q \in DOMAIN createdAt \cup {r} |->
                        IF q = r THEN now ELSE createdAt[q]]
    /\ UNCHANGED <<list, now, stored, cursor, listed, last, steady>>

\* It commits, or an update brings a deleted project back.
Commit(r) ==
    /\ r \in DOMAIN createdAt \ stored
    /\ stored' = stored \cup {r}
    /\ UNCHANGED <<list, now, createdAt, cursor, listed, last, steady>>

\* A project is deleted.  Audit events stay.
Vanish(r) ==
    /\ list = "by_id"
    /\ r \in stored
    /\ stored' = stored \ {r}
    /\ steady' = steady \ {r}
    /\ UNCHANGED <<list, now, createdAt, cursor, listed, last>>

Tick ==
    /\ now < MaxTime
    /\ now' = now + 1
    /\ UNCHANGED <<list, createdAt, stored, cursor, listed, last, steady>>

-----------------------------------------------------------------------------
(* The reader *)

\* The condition that a page puts on its rows.
Passed(c, r) ==
    IF list = "by_id" THEN r > c.id
    ELSE createdAt[r] < c.time \/ (createdAt[r] = c.time /\ r < c.id)

\* What the query selects.
Wanted(c) == {r \in stored : c.at = "row" => Passed(c, r)}

\* The page shows the first n rows.  One row more than it shows says whether
\* there is another page.
Shown(S, n) == {r \in S : Place(S, r) < n}

Rest(S, n) ==
    IF Cardinality(S) <= n THEN Exhausted ELSE CursorAt(RowAt(S, n - 1))

ReadPage(n) ==
    LET wanted == Wanted(cursor)
        shown == Shown(wanted, n) IN
    /\ cursor # Exhausted
    /\ cursor' = Rest(wanted, n)
    /\ listed' = [r \in Row |-> IF r \in shown THEN listed[r] + 1 ELSE listed[r]]
    /\ last' = IF Cardinality(wanted) > n THEN last \cup {RowAt(wanted, n - 1)} ELSE last
    /\ steady' = IF cursor = Start THEN stored ELSE steady
    /\ UNCHANGED <<list, now, createdAt, stored>>

-----------------------------------------------------------------------------

ListingNext ==
    \/ \E r \in Row : Begin(r) \/ Commit(r) \/ Vanish(r)
    \/ Tick
    \/ \E n \in Limit : ReadPage(n)

ListingSpec == ListingInit /\ [][ListingNext]_listingVars

-----------------------------------------------------------------------------
(* Properties *)

\* A reader meets no row twice, whatever is inserted, deleted or restored
\* between two pages and whatever size each page has.  (The test of the audit
\* endpoint names its pages "never repeating or skipping records".)
NothingListedTwice == \A r \in Row : listed[r] <= 1

\* A reader who reaches the end has met every row that was there when he began
\* and stayed.  Of the audit events he misses some: those that come after the
\* last event of a page and share its millisecond, and no others.
SteadyRowsListed ==
    cursor = Exhausted =>
        \A r \in steady : listed[r] = 0 =>
            /\ list = "by_time"
            /\ \E q \in last : /\ Before(q, r)
                               /\ Millisecond(createdAt[q]) = Millisecond(createdAt[r])

\* The rows that a page after the cursor c may show.
InReach(c) == {r \in DOMAIN createdAt : c.at = "row" => Passed(c, r)}

\* A reader never goes round in a circle: a page that is not the last leaves
\* fewer rows within his reach, and none that was not before, although its
\* cursor is rounded and its rows may be gone when it is used.
PagesAdvance ==
    [][listed' # listed => \/ cursor' = Exhausted
                           \/ /\ InReach(cursor') \subseteq InReach(cursor)
                              /\ InReach(cursor') # InReach(cursor)]_listingVars
=============================================================================
