----------------------------- MODULE LinkedPage -----------------------------
(***************************************************************************)
(* What the cache storage service promises about one cached page, without  *)
(* generations, storage keys or objects: a load-linked/store-conditional   *)
(* cell.                                                                   *)
(*                                                                         *)
(* A writer links itself to the cell before it renders.  It may publish    *)
(* its page only if the cell did not change in the meantime, and every     *)
(* change, a page published, a failure recorded or an invalidation, cuts   *)
(* all links.  A reader is served the page it found, or nothing.           *)
(***************************************************************************)
CONSTANTS Writer, Reader,
          Content,     \* pages that may be rendered
          NoContent,   \* no page
          ContentOf    \* the page each writer renders

VARIABLES page,    \* the page served now, or NoContent
          linked,  \* writers that saw the present state of the cell
          taken,   \* the page each reader found, or NoContent
          served   \* readers that have been served what they took

vars == <<page, linked, taken, served>>

Init ==
    /\ page = NoContent
    /\ linked = {}
    /\ taken = [r \in Reader |-> NoContent]
    /\ served = {}

Link(w) ==
    /\ linked' = linked \cup {w}
    /\ UNCHANGED <<page, taken, served>>

Publish(w) ==
    /\ w \in linked
    /\ page' = ContentOf[w]
    /\ linked' = {}
    /\ UNCHANGED <<taken, served>>

\* A linked writer gives up, or the owner of the page drops it.
Drop ==
    /\ page' = NoContent
    /\ linked' = {}
    /\ UNCHANGED <<taken, served>>

Take(r) ==
    /\ taken[r] = NoContent
    /\ page # NoContent
    /\ taken' = [taken EXCEPT ![r] = page]
    /\ UNCHANGED <<page, linked, served>>

Serve(r) ==
    /\ taken[r] # NoContent
    /\ served' = served \cup {r}
    /\ UNCHANGED <<page, linked, taken>>

Next ==
    \/ \E w \in Writer : Link(w) \/ Publish(w)
    \/ Drop
    \/ \E r \in Reader : Take(r) \/ Serve(r)

Spec == Init /\ [][Next]_vars
=============================================================================
