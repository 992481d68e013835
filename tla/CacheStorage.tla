---------------------------- MODULE CacheStorage ----------------------------
(***************************************************************************)
(* The storage of one cached page: its row in cache_entries                *)
(* (src/repositories/postgres/cache-repository.ts), the immutable objects  *)
(* its bytes are kept in (src/repositories/*-html-object-store.ts) and the *)
(* service that coordinates the two without a transaction or a lock        *)
(* (src/services/cache-storage-service.ts).                                *)
(*                                                                         *)
(* Every SQL statement is one atomic step and so is every call of the file *)
(* system; whatever other processes do may come between two of them.  A    *)
(* Writer is one attempt to render and store the page: it looks at the row *)
(* and then either commits or records a failure with the generation it     *)
(* saw.  A Reader is one call of readReadyHtml.                            *)
(*                                                                         *)
(* Content stands for the HTML with its encoding: pages with equal HTML    *)
(* and encoding have the same hash, and an object's bytes are those its    *)
(* key names.                                                              *)
(***************************************************************************)
EXTENDS Naturals

CONSTANTS Writer, Reader,
          Content,        \* pages that may be rendered
          NoContent,      \* stands for the null columns of a row
          ContentOf,      \* what each attempt renders
          MaxGeneration   \* bound on invalidations: none beyond this

ASSUME CacheAssumption ==
    /\ NoContent \notin Content
    /\ ContentOf \in [Writer -> Content]
    /\ MaxGeneration \in Nat

VARIABLES status,      \* of the row
          generation,  \* of the row, 0 while there is none
          storageKey,  \* of the row, with the content hash it embeds
          objects,     \* keys of the stored objects
          pc,          \* where each writer is
          observed,    \* each writer's expectedGeneration
          winners,     \* writers whose updateReady changed the row (history)
          reader,      \* where each reader is
          view         \* the storage key each reader found in the row

row == <<status, generation, storageKey>>
writing == <<pc, observed, winners>>
reading == <<reader, view>>
vars == <<row, objects, writing, reading>>

\* The key is built from the generation the write will become active as.
Key(w) == [generation |-> observed[w] + 1, content |-> ContentOf[w]]
NoKey == [generation |-> 0, content |-> NoContent]

Init ==
    /\ status = "absent"
    /\ generation = 0
    /\ storageKey = NoKey
    /\ objects = {}
    /\ pc = [w \in Writer |-> "idle"]
    /\ observed = [w \in Writer |-> 0]
    /\ winners = {}
    /\ reader = [r \in Reader |-> "idle"]
    /\ view = [r \in Reader |-> NoKey]

Goto(w, from, to) ==
    /\ pc[w] = from
    /\ pc' = [pc EXCEPT ![w] = to]

-----------------------------------------------------------------------------
(* Faulty variants of the actions below: mistakes the code could have made, *)
(* kept to check that the properties notice them.  No behaviour has them.   *)

\* updateReady without the generation in its WHERE clause.
MatchesAnything(w) == TRUE

\* A failed update of the metadata deletes what the row refers to.
CleanupOfActiveObject(w) ==
    /\ pc[w] = "losing"
    /\ objects' = objects \ {storageKey}
    /\ pc' = [pc EXCEPT ![w] = "conflict"]
    /\ UNCHANGED <<row, observed, winners, reading>>

\* A lost update is reported without deleting the object.
CommitLostKeepsObject(w) ==
    /\ Goto(w, "stored", "conflict")
    /\ generation # observed[w]
    /\ UNCHANGED <<row, objects, observed, winners, reading>>

\* Invalidation that leaves the generation alone.
InvalidateKeepsGeneration ==
    /\ status # "absent"
    /\ generation < MaxGeneration
    /\ status' = "invalidated"
    /\ UNCHANGED <<generation, storageKey, objects, writing, reading>>

-----------------------------------------------------------------------------
(* A render attempt *)

\* The row of an update is the one whose generation the writer expects.
Matches(w) == generation = observed[w]

SetReady(w) ==
    /\ status' = "ready"
    /\ generation' = generation + 1
    /\ storageKey' = Key(w)
    /\ winners' = winners \cup {w}

\* createPendingCacheEntry: INSERT ... ON CONFLICT DO NOTHING, and the SELECT
\* of the row that is there already.
Begin(w) ==
    /\ Goto(w, "idle", "observed")
    /\ IF status = "absent"
       THEN status' = "pending" /\ generation' = 1
       ELSE UNCHANGED <<status, generation>>
    /\ observed' = [observed EXCEPT ![w] = generation']
    /\ UNCHANGED <<storageKey, objects, winners, reading>>

\* The HTML, or its compressed form, is over the limit.
CommitTooLarge(w) ==
    /\ Goto(w, "observed", "failed")
    /\ UNCHANGED <<row, objects, observed, winners, reading>>

\* putObject finds the key in use and takes the bytes to be identical.
PutFindsObject(w) ==
    /\ Goto(w, "observed", "stored")
    /\ Key(w) \in objects
    /\ UNCHANGED <<row, objects, observed, winners, reading>>

\* putObject finds nothing and writes a temporary file.
PutFindsNothing(w) ==
    /\ Goto(w, "observed", "putting")
    /\ Key(w) \notin objects
    /\ UNCHANGED <<row, objects, observed, winners, reading>>

\* The temporary file is renamed into place.
PutRenames(w) ==
    /\ Goto(w, "putting", "stored")
    /\ objects' = objects \cup {Key(w)}
    /\ UNCHANGED <<row, observed, winners, reading>>

\* The write fails, the temporary file is removed and the error propagates.
PutFails(w) ==
    /\ Goto(w, "putting", "failed")
    /\ UNCHANGED <<row, objects, observed, winners, reading>>

CommitReady(w) ==
    /\ Goto(w, "stored", "success")
    /\ Matches(w)
    /\ SetReady(w)
    /\ UNCHANGED <<objects, observed, reading>>

\* The update was applied and its answer lost: the caller gets an error.
CommitUnanswered(w) ==
    /\ Goto(w, "stored", "unanswered")
    /\ Matches(w)
    /\ SetReady(w)
    /\ UNCHANGED <<objects, observed, reading>>

CommitLost(w) ==
    /\ Goto(w, "stored", "losing")
    /\ ~Matches(w)
    /\ UNCHANGED <<row, objects, observed, winners, reading>>

\* bestEffortCleanup, after which the caller is told of the conflict.
Cleanup(w) ==
    /\ Goto(w, "losing", "conflict")
    /\ objects' = objects \ {Key(w)}
    /\ UNCHANGED <<row, observed, winners, reading>>

CleanupFails(w) ==
    /\ Goto(w, "losing", "orphaned")
    /\ UNCHANGED <<row, objects, observed, winners, reading>>

\* markRenderFailed: the storage key stays in the row.
MarkRenderFailed(w) ==
    /\ Goto(w, "observed", "marked")
    /\ IF Matches(w)
       THEN status' = "failed" /\ generation' = generation + 1
       ELSE UNCHANGED <<status, generation>>
    /\ UNCHANGED <<storageKey, objects, observed, winners, reading>>

\* The process dies, or an update fails without having been applied.
StopBeforePut(w) ==
    /\ Goto(w, "observed", "failed") \/ Goto(w, "putting", "failed")
    /\ UNCHANGED <<row, objects, observed, winners, reading>>

StopAfterPut(w) ==
    /\ Goto(w, "stored", "orphaned") \/ Goto(w, "losing", "orphaned")
    /\ UNCHANGED <<row, objects, observed, winners, reading>>

-----------------------------------------------------------------------------

\* Metadata only: the object stays for readers that are about to fetch it.
Invalidate ==
    /\ status # "absent"
    /\ generation < MaxGeneration
    /\ status' = "invalidated"
    /\ generation' = generation + 1
    /\ UNCHANGED <<storageKey, objects, writing, reading>>

-----------------------------------------------------------------------------
(* readReadyHtml *)

\* The row is read and checked against itself.
ReadRow(r) ==
    /\ reader[r] = "idle"
    /\ reader' = [reader EXCEPT ![r] =
                     IF status # "ready" THEN "not_ready"
                     ELSE IF storageKey.generation # generation THEN "malformed"
                     ELSE "reading"]
    /\ view' = IF reader'[r] = "reading"
               THEN [view EXCEPT ![r] = storageKey] ELSE view
    /\ UNCHANGED <<row, objects, writing>>

ReadObject(r) ==
    /\ reader[r] = "reading"
    /\ reader' = [reader EXCEPT ![r] =
                     IF view[r] \in objects THEN "served" ELSE "missing_object"]
    /\ UNCHANGED <<row, objects, writing, view>>

ReadFails(r) ==
    /\ reader[r] = "reading"
    /\ reader' = [reader EXCEPT ![r] = "provider_error"]
    /\ UNCHANGED <<row, objects, writing, view>>

-----------------------------------------------------------------------------

Commit(w) ==
    \/ CommitTooLarge(w)
    \/ PutFindsObject(w)
    \/ PutFindsNothing(w)
    \/ PutRenames(w)
    \/ PutFails(w)
    \/ CommitReady(w)
    \/ CommitUnanswered(w)
    \/ CommitLost(w)
    \/ Cleanup(w)
    \/ CleanupFails(w)

Next ==
    \/ \E w \in Writer :
          \/ Begin(w)
          \/ Commit(w)
          \/ MarkRenderFailed(w)
          \/ StopBeforePut(w)
          \/ StopAfterPut(w)
    \/ Invalidate
    \/ \E r \in Reader : ReadRow(r) \/ ReadObject(r) \/ ReadFails(r)

Spec == Init /\ [][Next]_vars

-----------------------------------------------------------------------------
(* Properties *)

Keys == [generation : Nat \ {0}, content : Content]

Status == {"absent", "pending", "ready", "failed", "invalidated"}
WriterState == {"idle", "observed", "putting", "stored", "losing", "success",
                "unanswered", "conflict", "orphaned", "marked", "failed"}
ReaderState == {"idle", "reading", "not_ready", "malformed",
                "missing_object", "provider_error", "served"}

\* The shape of the row, the store and the callers' progress.
TypeOK ==
    /\ status \in Status
    /\ generation \in Nat
    /\ storageKey \in Keys \cup {NoKey}
    /\ objects \subseteq Keys
    /\ pc \in [Writer -> WriterState]
    /\ observed \in [Writer -> Nat]
    /\ winners \subseteq Writer
    /\ reader \in [Reader -> ReaderState]
    /\ view \in [Reader -> Keys \cup {NoKey}]

\* Of the attempts that saw the same generation of the row at most one ever
\* becomes active, whoever else was told of a conflict, crashed or got an
\* error back from a commit that was applied.
OneWinnerPerGeneration ==
    \A a, b \in winners : observed[a] = observed[b] => a = b

\* What a ready row says of itself agrees: no reader turns it down as
\* malformed metadata, whatever failures and invalidations came before.
ReadyRowIsConsistent ==
    /\ status = "ready" => /\ storageKey.generation = generation
                           /\ storageKey.content # NoContent
    /\ \A r \in Reader : reader[r] # "malformed"

\* The object of a ready row is in the store.  (The comments of the service
\* say that cleaning up can never delete an active object.)
ReadyRowHasObject == status = "ready" => storageKey \in objects

\* An attempt that rendered the same page from the same generation as
\* another, lost to it, and cleaned up.
CleanedTwinOf(key) == \E w \in Writer : pc[w] = "conflict" /\ Key(w) = key

\* A ready row, or a reader that has read one, is left without its object
\* only by the cleanup of such a twin: no other crash, failure, late writer,
\* invalidation or newer page takes the object away.
OnlyTwinsTakeObjects ==
    /\ status = "ready" /\ storageKey \notin objects => CleanedTwinOf(storageKey)
    /\ \A r \in Reader :
          reader[r] = "missing_object" => CleanedTwinOf(view[r])

\* A row becomes ready only for an object that is in the store at that
\* moment, also when the writer had found the key in use and wrote nothing.
CommitsOnlyStoredPages ==
    [][\A w \in winners' \ winners : Key(w) \in objects']_vars

\* Every stored object was active once, or its writer is still at work, or
\* it is an orphan whose writer stopped or could not clean up.  In
\* particular an attempt that was told of a conflict leaves nothing behind.
ObjectsAccounted ==
    \A k \in objects : \E w \in Writer :
        /\ Key(w) = k
        /\ w \in winners \/ pc[w] \in {"stored", "losing", "orphaned"}

-----------------------------------------------------------------------------
(* The service implements the cell its callers rely on. *)

pageBar == IF status = "ready" THEN storageKey.content ELSE NoContent
linkedBar == {w \in Writer : pc[w] # "idle" /\ observed[w] = generation}
takenBar == [r \in Reader |-> view[r].content]
servedBar == {r \in Reader : reader[r] = "served"}

Cell == INSTANCE LinkedPage WITH
            page <- pageBar, linked <- linkedBar,
            taken <- takenBar, served <- servedBar

\* An attempt becomes active only if nothing happened to the page since it
\* looked, so that a render which was under way when the page was invalidated,
\* marked failed or replaced never comes back, and readers are served pages
\* that were active when they looked.
ImplementsLinkedPage == Cell!Spec
=============================================================================
