----------------------------- MODULE MCSitemaps -----------------------------
(***************************************************************************)
(* A site with two documents.  The first is a urlset of one page or two,   *)
(* or an index of the second and of itself; the second is a urlset that    *)
(* shares a page with the first, or an index of the first.  The limit of   *)
(* the domain can end a walk in the middle of a urlset.                    *)
(***************************************************************************)
EXTENDS Sitemaps

CONSTANTS d1, d2, p1, p2, p3

MCConventional == <<d1>>
MCRobotsTxt == {<<>>, <<Foreign, d2>>, <<d2, d1>>}
MCIndexAt == (d1 :> {<<d2, d1>>}) @@ (d2 :> {<<Foreign, d1>>})
MCUrlsetAt == (d1 :> {<<p1>>, <<p1, p2>>}) @@ (d2 :> {<<p2, Foreign, p3>>})
=============================================================================
