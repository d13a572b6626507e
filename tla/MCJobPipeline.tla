--------------------------- MODULE MCJobPipeline ---------------------------
(* JobPipeline for TLC: its identifiers are interchangeable model values. *)
EXTENDS JobPipeline, TLC

\* A job's own entry carries its name; any other entry is a duplicate.
EntryJob ==
    [e \in Entries |-> IF e \in Jobs THEN e ELSE CHOOSE j \in Jobs : TRUE]

Symmetry == Permutations(Jobs) \cup Permutations(Workers) \cup Permutations(Slots)
=============================================================================
