----------------------------- MODULE MCPageText -----------------------------
(* PageText for TLC: a title, two columns whole and in parts, a wide table, a  *)
(* second sighting of the left column, a speck and a box beyond the page, each *)
(* on the canvas half a unit short of its place.                               *)
EXTENDS PageText

OnCanvas(b) == <<Scale * b[1] + PadX + 1, Scale * b[2] + PadY + 1,
                 Scale * b[3] + PadX - 1, Scale * b[4] + PadY - 1>>

Sights == {OnCanvas(b) : b \in
    {<<1, 0, 5, 3>>, <<0, 4, 2, 7>>, <<0, 4, 2, 13>>, <<0, 5, 2, 13>>, <<0, 9, 2, 13>>,
     <<4, 4, 6, 6>>, <<4, 4, 6, 13>>, <<4, 7, 7, 14>>, <<0, 9, 6, 13>>}}

\* Per unit of width: "no." is a short line, "name" a match of chance.
Length == [title |-> 5, a |-> 20, b |-> 30, c |-> 30, d |-> 20, e |-> 30, f |-> 20,
           no |-> 1, name |-> 6, essay |-> 250]

Line(w, x0, x1, y) == [x0 |-> x0, x1 |-> x1, y |-> y, says |-> w]
Title == Line("title", 1, 5, 0)

\* Two columns over a wide table, and other rows, with nothing said twice; columns of
\* short, middling and very long lines; columns that repeat each other and the title.
Texts == {
    {Title, Line("a", 0, 2, 4), Line("b", 0, 2, 7), Line("d", 4, 6, 4), Line("e", 4, 6, 7),
     Line("f", 0, 6, 10)},
    {Title, Line("a", 0, 2, 5), Line("b", 0, 2, 9), Line("d", 4, 6, 6), Line("e", 4, 6, 10)},
    {Title, Line("no", 0, 2, 4), Line("name", 0, 2, 7), Line("c", 0, 2, 10),
     Line("d", 4, 6, 4), Line("essay", 4, 6, 7), Line("f", 4, 6, 10)},
    {Line("a", 1, 5, 0), Line("no", 0, 2, 4), Line("a", 0, 2, 7), Line("b", 0, 2, 10),
     Line("b", 4, 6, 4), Line("a", 4, 6, 7), Line("no", 4, 6, 10)}}
=============================================================================
