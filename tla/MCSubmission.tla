---------------------------- MODULE MCSubmission ----------------------------
(* Submission for TLC: three requests of one tenant, and a file for every    *)
(* exit of submit().                                                         *)
EXTENDS Submission

OneTenant == [r \in Requests |-> "a"]
SomeKeys  == [r \in Requests |-> IF r = "r3" THEN NoKey ELSE "k"]

\* A long PDF, and what may be wrong with one; an image.
Pdf   == [suffix |-> "pdf", content |-> "pdf", bytes |-> 1, sound |-> TRUE,
          locked |-> FALSE, pages |-> 3]
Files == {Pdf,
          [Pdf EXCEPT !.suffix = "other"],
          [Pdf EXCEPT !.bytes = 2],
          [Pdf EXCEPT !.bytes = 0, !.content = "other"],
          [Pdf EXCEPT !.suffix = "image"],
          [Pdf EXCEPT !.sound = FALSE],
          [Pdf EXCEPT !.locked = TRUE],
          [Pdf EXCEPT !.suffix = "image", !.content = "image", !.pages = 1]}
=============================================================================
