-------------------------- MODULE MCPagePipeline --------------------------
(* Documents for TLC: pages a and b are scans, repeated or not. *)
EXTENDS PagePipeline

Repeats == <<"a", "a", "b", "a">>
Mixed   == <<"a", "native", "a", "blank", "a", "b">>
=============================================================================
