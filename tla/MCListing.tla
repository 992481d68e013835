------------------------------ MODULE MCListing ------------------------------
(***************************************************************************)
(* Four rows and pages of one or two: three pages and more, with rows      *)
(* inserted before and behind the cursor.  Two milliseconds of two ticks:  *)
(* a page may end at the first or at a later tick of a millisecond.        *)
(***************************************************************************)
EXTENDS Listing
==============================================================================
