--------------------------- MODULE MCRegionStream ---------------------------
(* RegionStream for TLC: a page with a long and a short region. *)
EXTENDS RegionStream

LongAndShort == [r \in Regions |-> IF r = "long" THEN 2 ELSE 1]
=============================================================================
