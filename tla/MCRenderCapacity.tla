--------------------------- MODULE MCRenderCapacity ---------------------------
(***************************************************************************)
(* Five calls on two slots and a queue of two: enough for a full queue, a  *)
(* handover that leaves an older call behind, and calls turned away.       *)
(***************************************************************************)
EXTENDS RenderCapacity
===============================================================================
