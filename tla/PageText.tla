------------------------------ MODULE PageText ------------------------------
(***************************************************************************)
(* From the image of a page to its text: layout detection, reading order   *)
(* and tiling (workers/layout.py, Worker._prepare_page), the engine's      *)
(* answers, and their assembly (workers/postprocess.py).                   *)
(*                                                                         *)
(* A box is <<x0, y0, x1, y1>>.  What is printed on the page is a set of   *)
(* lines, in whatever places: boxes, tiles and crops may cut through them, *)
(* and two lines may say the same.  A line that is read becomes            *)
(* <<says, from, to, tile>>: what it says, which part of its width is in   *)
(* view, and the tile that garbled it because it is cut (0: none did).     *)
(* Characters matter only by their number: no word is hyphenated, and no   *)
(* line begins as another one ends, but for parts of one line.  A line cut *)
(* off at its side is read as far as it is in view.                        *)
(***************************************************************************)
EXTENDS Integers, Sequences, FiniteSets, SequencesExt, Ordering

CONSTANTS Boxes,         \* where the model may see something, on its canvas
          Scripts,       \* what may be printed on the page
          LineHeight,    \* of each line of it
          Letters,       \* characters per unit of width, by what the line says
          MaxFound,      \* bound: detections on a page,
          MaxRead,       \*   and on one that is sent to the engine
          Width, Height, \* of the page
          Scale,         \* canvas pixels per unit of the page
          PadX, PadY,    \* the letterbox's margins
          MinRegion,     \* MIN_REGION_PX
          MinGap,        \* min_gap of _xy_cut(),
          MaxDepth,      \*   and how deep it goes
          MaxHeight,     \* tile_max_height
          Overlap,       \* tile_overlap
          Margin,        \* pad of crop()
          MaxCheck,      \* max_check of _overlap_len(),
          MinMatch,      \*   and what a match must exceed there
          ShortLine,     \* repetition_ratio(): lines this short are left out,
          MinLines,      \*   fewer than these are never a loop
          Window,        \*   how far back it looks
          LoopLength     \* bound: how often a looping engine repeats a line

\* With a MaxHeight of 1 the loop of tile() might not advance.
ASSUME TextAssumption ==
    /\ Width \in Nat \ {0} /\ Height \in Nat \ {0} /\ Scale \in Nat \ {0}
    /\ PadX \in Nat /\ PadY \in Nat
    /\ Boxes \subseteq Int \X Int \X Int \X Int
    /\ MinRegion \in Nat \ {0} /\ MinGap \in Nat \ {0}
    /\ MaxDepth \in Nat /\ MaxFound \in Nat /\ MaxRead \in Nat
    /\ LineHeight \in Nat \ {0} /\ Margin \in Nat /\ ShortLine \in Nat
    /\ Scripts \subseteq SUBSET [x0 : Int, x1 : Int, y : Int, says : DOMAIN Letters]
    /\ \A w \in DOMAIN Letters : Letters[w] \in Nat \ {0}
    /\ MaxHeight \in Nat \ {0, 1} /\ Overlap \in Nat
    /\ MaxCheck \in Nat /\ MinMatch \in Nat /\ MinLines \in Nat /\ Window \in Nat
    /\ LoopLength \in Nat

VARIABLES
    stage,    \* "look", "prepared", "read", "done"
    found,    \* the detections, the most certain first
    export,   \* the format of the layout model's output
    regions,  \* the regions in reading order
    tiles,    \* what is sent to the engine, in order
    printed,  \* what is printed on the page, from when the engine reads it,
    cuts,     \*   and what the engine makes of lines cut off above and below
    bad,      \* the tile on which the engine fails or loops (0: none)
    texts,    \* its answers
    text,     \* the page's text
    flagged   \* filter_degenerate() found a loop

vars == <<stage, found, export, regions, tiles, printed, cuts, bad, texts, text, flagged>>

Blank == <<>>
Page  == [box |-> <<0, 0, Width, Height>>, src |-> 0]

Init ==
    /\ stage = "look"
    /\ found = <<>>
    /\ export \in {"v8", "v10"}
    /\ regions = <<>> /\ tiles = <<>> /\ texts = <<>> /\ text = <<>>
    /\ printed = {} /\ cuts = [above |-> "skipped", below |-> "skipped"]
    /\ bad = 0
    /\ flagged = FALSE

\* The layout model sees something: text, something without text, or something
\* with a score below the threshold.
See(b, kind) ==
    /\ stage = "look" /\ Len(found) < MaxFound
    /\ b \notin {found[i].box : i \in DOMAIN found}
    /\ found' = Append(found, [box |-> b, kind |-> kind, src |-> Len(found) + 1])
    /\ UNCHANGED <<stage, export, regions, tiles, printed, cuts, bad, texts, text, flagged>>

----------------------------------------------------------------------------
(* decode_detections() *)

Shared(a, b, axis) ==
    Max({0, Min({a[axis + 2], b[axis + 2]}) - Max({a[axis], b[axis]})})

Area(a) == (a[3] - a[1]) * (a[4] - a[2])

\* The intersection is more than 9/20 of the union.
Same(a, b) ==
    LET common == Shared(a, b, 1) * Shared(a, b, 2)
    IN  20 * common > 9 * (Area(a) + Area(b) - common)

\* NMSBoxes: of the detections in S one is kept unless one kept before it is the same.
Nms(ds, S) ==
    LET keep[i \in DOMAIN ds] ==
            i \in S /\ \A j \in 1..(i - 1) : keep[j] => ~Same(ds[j].box, ds[i].box)
    IN  {i \in S : keep[i]}

Ceil(n) == -((-n) \div Scale)

\* Mutant: both corners are truncated.
OnPageTruncated(b) ==
    <<Max({(b[1] - PadX) \div Scale, 0}), Max({(b[2] - PadY) \div Scale, 0}),
      Min({(b[3] - PadX) \div Scale, Width}), Min({(b[4] - PadY) \div Scale, Height})>>

OnPage(b) ==
    <<Max({(b[1] - PadX) \div Scale, 0}), Max({(b[2] - PadY) \div Scale, 0}),
      Min({Ceil(b[3] - PadX), Width}), Min({Ceil(b[4] - PadY), Height})>>

BigEnough(b) == b[3] - b[1] >= MinRegion /\ b[4] - b[2] >= MinRegion

\* The "v8" export has overlapping boxes, the "v10" export has none of one thing.
Decode(ds) ==
    LET sure  == {i \in DOMAIN ds : ds[i].kind # "unsure"}
        kept  == IF export = "v8" THEN Nms(ds, sure) ELSE sure
        text_ == Kept(ds, {i \in kept : ds[i].kind # "figure" /\ BigEnough(OnPage(ds[i].box))})
    IN  [k \in DOMAIN text_ |-> [box |-> OnPage(text_[k].box), src |-> text_[k].src]]

----------------------------------------------------------------------------
(* assign_reading_order() and tile() *)

\* The empty bands across an axis (1: x, 2: y) that no region of S crosses.
Gaps(rs, S, axis) ==
    LET start(i) == rs[i].box[axis]
        reach(s) == Max({rs[i].box[axis + 2] : i \in {k \in S : start(k) < s}})
        least    == Min({start(i) : i \in S})
    IN  {[axis |-> axis, from |-> reach(s), to |-> s] :
            s \in {t \in {start(i) : i \in S} \ {least} : reach(t) < t}}

\* The wider one, or else the vertical one, or else the first one.
Preferred(g, h) ==
    \/ g.to - g.from > h.to - h.from
    \/ g.to - g.from = h.to - h.from /\ g.axis < h.axis
    \/ g.to - g.from = h.to - h.from /\ g.axis = h.axis /\ g.to <= h.to

\* sorted() by the upper and the left edge, and stable.
TopDown(rs, S) ==
    LET before == {p \in S \X S :
            LET a == rs[p[1]].box  b == rs[p[2]].box IN
            \/ a[2] < b[2]
            \/ a[2] = b[2] /\ a[1] < b[1]
            \/ a[2] = b[2] /\ a[1] = b[1] /\ p[1] < p[2]}
    IN  Ordered(S, before)

\* The regions on the near side of the widest gap; none if no gap is wide enough.
Near(rs, S) ==
    LET gaps == IF S = {} THEN {} ELSE
                {g \in Gaps(rs, S, 1) \cup Gaps(rs, S, 2) : g.to - g.from >= MinGap}
        best == CHOOSE g \in gaps : \A h \in gaps : Preferred(g, h)
    IN  {i \in S : /\ gaps # {}
                   /\ rs[i].box[best.axis] + rs[i].box[best.axis + 2] < best.from + best.to}

\* Mutant: a column on each side of the page's midline, one after the other.
XyCutMidline(rs) ==
    LET left == {i \in DOMAIN rs : rs[i].box[1] + rs[i].box[3] < Width}
    IN  Picked(rs, TopDown(rs, left) \o TopDown(rs, DOMAIN rs \ left))

\* _xy_cut(): the page is cut in the widest gap, and each side in turn.
XyCut(rs) ==
    LET cut[d \in 0..MaxDepth] == [S \in SUBSET DOMAIN rs |->
            LET near == Near(rs, S)
            IN  IF d = 0 \/ near \in {{}, S} THEN TopDown(rs, S)
                ELSE cut[d - 1][near] \o cut[d - 1][S \ near]]
    IN  Picked(rs, cut[MaxDepth][DOMAIN rs])

\* detect(), with the whole page if nothing was found.
Detect(ds) == IF Decode(ds) = <<>> THEN <<Page>> ELSE XyCut(Decode(ds))

Step == Max({MaxHeight - Overlap, MaxHeight \div 2})

\* Mutant: the last tile is as high as the others.
CutUpOver(r) ==
    LET y0 == r.box[2]  y1 == r.box[4]
        last == Min({k \in 0..Height : y0 + k * Step + MaxHeight >= y1})
        top(k) == y0 + (k - 1) * Step
    IN  IF y1 - y0 <= MaxHeight THEN <<r>>
        ELSE [k \in 1..(last + 1) |->
                 [r EXCEPT !.box = <<r.box[1], top(k), r.box[3], top(k) + MaxHeight>>]]

CutUp(r) ==
    LET y0 == r.box[2]  y1 == r.box[4]
        last == Min({k \in 0..Height : y0 + k * Step + MaxHeight >= y1})
        top(k) == y0 + (k - 1) * Step
    IN  IF y1 - y0 <= MaxHeight THEN <<r>>
        ELSE [k \in 1..(last + 1) |->
                 [r EXCEPT !.box = <<r.box[1], top(k), r.box[3], Min({top(k) + MaxHeight, y1})>>]]

Tile(rs) == FlattenSeq([i \in DOMAIN rs |-> CutUp(rs[i])])

\* _prepare_page()
Prepare ==
    /\ stage = "look"
    /\ stage' = "prepared"
    /\ regions' = Detect(found)
    /\ tiles' = Tile(regions')
    /\ UNCHANGED <<found, export, printed, cuts, bad, texts, text, flagged>>

----------------------------------------------------------------------------
(* The engine *)

\* crop()
Crop(r) == <<Max({r.box[1] - Margin, 0}), Max({r.box[2] - Margin, 0}),
             Min({r.box[3] + Margin, Width}), Min({r.box[4] + Margin, Height})>>

CutAbove(l, r) == l.y < Crop(r)[2]
CutBelow(l, r) == l.y + LineHeight > Crop(r)[4]
Whole(l, r)    == ~CutAbove(l, r) /\ ~CutBelow(l, r)

\* Of the lines ls, those of which something is to be seen in a crop.
InView(ls, r) ==
    LET c == Crop(r)
    IN  {l \in ls : l.x0 < c[3] /\ c[1] < l.x1 /\ l.y < c[4] /\ c[2] < l.y + LineHeight}

\* What is read of a line; `tile` is 0 unless that tile garbles it.
Reading(l, r, tile) ==
    <<l.says, Max({Crop(r)[1] - l.x0, 0}), Min({Crop(r)[3], l.x1}) - l.x0, tile>>

\* From top to bottom, and from left to right.
InRows(ls) ==
    LET before(l, m) == l.y < m.y \/ (l.y = m.y /\ l.x0 < m.x0)
    IN  Ordered(ls, {p \in ls \X ls : before(p[1], p[2])})

Fates == {"skipped", "garbled", "guessed"}

\* A line that is cut off is skipped, garbled, or guessed as if it were all there.
Fate(l, r, how) == IF CutAbove(l, r) THEN how.above
                   ELSE IF CutBelow(l, r) THEN how.below ELSE "guessed"

Seen(k, ls, how) ==
    LET rows == InRows({l \in InView(ls, tiles[k]) : Fate(l, tiles[k], how) # "skipped"})
    IN  [i \in DOMAIN rows |->
            Reading(rows[i], tiles[k], IF Fate(rows[i], tiles[k], how) = "garbled" THEN k ELSE 0)]

\* It reads n lines and then the last p of them over and over again.
Loopings(s) ==
    UNION {{SubSeq(s, 1, n) \o [i \in 1..LoopLength |-> s[n - p + 1 + ((i - 1) % p)]] :
               p \in {1, n}} : n \in DOMAIN s}

\* What it answers, with blank lines around.
Answer(body) == <<Blank>> \o body \o <<Blank, Blank>>

\* All tiles are read, or but one, which fails or loops.  (What is not text leaves no
\* region: such pages are as those without it, and are not read once more.)
Read ==
    /\ stage = "prepared"
    /\ Len(found) <= MaxRead /\ \A i \in DOMAIN found : found[i].kind = "text"
    /\ stage' = "read"
    /\ \E ls \in Scripts, how \in [above : Fates, below : Fates] :
          /\ printed' = ls /\ cuts' = how
          /\ \/ bad' = 0 /\ texts' = [k \in DOMAIN tiles |-> Answer(Seen(k, ls, how))]
             \/ /\ bad' \in DOMAIN tiles
                /\ \E body \in {<<>>} \cup Loopings(Seen(bad', ls, how)) :
                      texts' = [k \in DOMAIN tiles |->
                                   Answer(IF k = bad' THEN body ELSE Seen(k, ls, how))]
    /\ UNCHANGED <<found, export, regions, tiles, text, flagged>>

----------------------------------------------------------------------------
(* stitch_regions() and filter_degenerate() *)

\* strip()
Strip(s) ==
    LET ink == {i \in DOMAIN s : s[i] # Blank}
    IN  IF ink = {} THEN <<>> ELSE SubSeq(s, Min(ink), Max(ink))

\* normalize_text(), as to blank lines: one at most, and none at the ends.
Normalize(s) ==
    FoldLeft(LAMBDA out, l : IF l = Blank /\ Last(out) = Blank THEN out ELSE Append(out, l),
             <<>>, Strip(s))

\* Mutant: nothing is taken for an overlap.
OverlapNone(a, b) == 0

\* How many characters there are, and the ends of all lines but the last.
Size(s) ==
    FoldLeft(LAMBDA n, l : n + 1 + (IF l = Blank THEN 0 ELSE Letters[l[1]] * (l[3] - l[2])), -1, s)

\* _overlap_len()
OverlapLen(a, b) ==
    LET sizes == {n \in 1..Min({Len(a), Len(b)}) :
                     /\ SubSeq(a, Len(a) - n + 1, Len(a)) = SubSeq(b, 1, n)
                     /\ Size(SubSeq(b, 1, n)) \in (MinMatch + 1)..MaxCheck}
    IN  IF sizes = {} THEN 0 ELSE Max(sizes)

Stitch(answers) ==
    LET inked == SelectSeq(answers, LAMBDA s : Strip(s) # <<>>)
        parts == [i \in DOMAIN inked |-> Normalize(inked[i])]
        join(out, part) ==
            LET n == OverlapLen(out, part)
                rest == SubSeq(part, n + 1, Len(part))
            IN  out \o <<Blank>> \o (IF rest # <<>> /\ Head(rest) = Blank THEN Tail(rest) ELSE rest)
    IN  IF parts = <<>> THEN <<>> ELSE Strip(FoldLeft(join, parts[1], Tail(parts)))

Long(l)   == Size(<<l>>) > ShortLine
LongOf(s) == SelectSeq(s, Long)

\* The lines that one of the Window lines before says as well.
Repeats(s) == {i \in DOMAIN s : \E j \in Max({1, i - Window})..(i - 1) : s[j] = s[i]}

\* Mutant: a loop is only what makes up all of the text.
LoopsTotally(s) ==
    Len(LongOf(s)) >= MinLines /\ Cardinality(ToSet(LongOf(s))) = 1

\* repetition_ratio() of 1/2 or more
Loops(s) ==
    Len(LongOf(s)) >= MinLines /\ 2 * Cardinality(Repeats(LongOf(s))) >= Len(LongOf(s))

\* filter_degenerate() cuts at the first long line that repeats any one before it.
BeforeRepeat(s) ==
    LET again == {i \in DOMAIN s : Long(s[i]) /\ \E j \in 1..(i - 1) : s[j] = s[i]}
    IN  IF again = {} THEN s ELSE Strip(SubSeq(s, 1, Min(again) - 1))

\* The end of _process_page()
Assemble ==
    /\ stage = "read"
    /\ stage' = "done"
    /\ LET all == Stitch(texts) IN
       /\ flagged' = Loops(all)
       /\ text' = IF Loops(all) THEN BeforeRepeat(all) ELSE all
    /\ UNCHANGED <<found, export, regions, tiles, printed, cuts, bad, texts>>

----------------------------------------------------------------------------
Next ==
    \/ \E b \in Boxes, kind \in {"text", "figure", "unsure"} : See(b, kind)
    \/ Prepare \/ Read \/ Assemble

Spec == Init /\ [][Next]_vars

----------------------------------------------------------------------------
(* Properties *)

Inside(b) == 0 <= b[1] /\ b[1] < b[3] /\ b[3] <= Width /\ 0 <= b[2] /\ b[2] < b[4] /\ b[4] <= Height

\* The regions and tiles are proper parts of the page, and no tile is higher than
\* the encoder's budget (layout.py:268).
TypeOK ==
    /\ stage \in {"look", "prepared", "read", "done"}
    /\ \A i \in DOMAIN found :
          found[i].box \in Boxes /\ found[i].kind \in {"text", "figure", "unsure"}
    /\ export \in {"v8", "v10"}
    /\ \A i \in DOMAIN regions : Inside(regions[i].box) /\ regions[i].src \in 0..Len(found)
    /\ \A i \in DOMAIN tiles :
          Inside(tiles[i].box) /\ tiles[i].box[4] - tiles[i].box[2] <= MaxHeight
    /\ printed \in Scripts \cup {{}} /\ cuts \in [above : Fates, below : Fates]
    /\ bad \in 0..Len(tiles)
    /\ Len(texts) \in {0, Len(tiles)}
    /\ flagged \in BOOLEAN

\* layout.py:117: a region covers all that was detected of it on the page.
NoInkClipped ==
    \A i \in DOMAIN regions :
        LET r == regions[i].box  d == found[regions[i].src].box IN
        regions[i].src # 0 =>
            /\ Scale * r[1] + PadX <= Max({d[1], PadX})
            /\ Scale * r[2] + PadY <= Max({d[2], PadY})
            /\ Scale * r[3] + PadX >= Min({d[3], Scale * Width + PadX})
            /\ Scale * r[4] + PadY >= Min({d[4], Scale * Height + PadY})

\* layout.py:246: whatever the order of detection and the columns, bands and
\* overlaps of the page, no region is lost or doubled, and of two regions one of
\* which is above the other it comes first.
NeverUpwards ==
    /\ stage # "look" => ToSet(Decode(found)) \subseteq ToSet(regions)
    /\ \A i, j \in DOMAIN regions :
          LET a == regions[i].box  b == regions[j].box IN
          /\ regions[i].src = regions[j].src => i = j
          /\ a[4] <= b[2] /\ a[1] < b[3] /\ b[1] < a[3] => i < j

Apart == \A i, j \in DOMAIN regions :
    i = j \/ Shared(regions[i].box, regions[j].box, 1) * Shared(regions[i].box, regions[j].box, 2) = 0

\* The lines that some tile of a region shows whole, from top to bottom, as they read.
Legible(r) ==
    LET mine(l) == {k \in DOMAIN tiles : tiles[k].src = r.src /\ l \in InView(printed, tiles[k])
                                                              /\ Whole(l, tiles[k])}
        rows == InRows({l \in printed : mine(l) # {}})
    IN  [i \in DOMAIN rows |-> Reading(rows[i], r, 0)]

\* No two tiles show parts of the line that overlap and yet differ.
Unsplit(l) ==
    \A j, k \in DOMAIN tiles : l \in InView(printed, tiles[j]) \cap InView(printed, tiles[k]) =>
        LET a == Reading(l, tiles[j], 0)  b == Reading(l, tiles[k], 0)
        IN  a = b \/ a[3] <= b[2] \/ b[3] <= a[2]

\* Regions do not overlap, no line is split, no two say the same, what is cut is skipped, and what
\* two tiles of a region share is nothing or within the limits of _overlap_len().
Clean ==
    /\ Apart
    /\ \A l \in printed : Unsplit(l) /\ \A m \in printed : l.says = m.says => l = m
    /\ cuts.above = "skipped" /\ cuts.below = "skipped"
    /\ \A k \in 1..(Len(tiles) - 1) : tiles[k].src = tiles[k + 1].src =>
          LET next == Seen(k + 1, printed, cuts)
              both == SelectSeq(Seen(k, printed, cuts), LAMBDA l : l \in ToSet(next))
          IN  both = <<>> \/ Size(both) \in (MinMatch + 1)..MaxCheck

Inked(s) == SelectSeq(s, LAMBDA l : l # Blank)

\* postprocess.py:13: when the engine reads every tile and the page is not taken for
\* a loop, every line that a tile shows whole is in the page's text; and where tiles share
\* enough to be told from chance, no more than is looked at, and nothing on the page
\* repeats, every line is there once and in reading order.
ReadOnce ==
    stage = "done" /\ bad = 0 /\ ~flagged =>
        /\ \A k \in DOMAIN tiles : \A l \in InView(printed, tiles[k]) :
              Whole(l, tiles[k]) /\ Unsplit(l) => Reading(l, tiles[k], 0) \in ToSet(text)
        /\ Clean => Inked(text) = FlattenSeq([i \in DOMAIN regions |-> Legible(regions[i])])

\* postprocess.py:9: what a page ships is never a loop for the most part; and where
\* nothing on the page repeats and the tiles are stitched well, all that was read
\* before the engine began to loop is kept.
LoopCut ==
    stage = "done" =>
        /\ Len(LongOf(text)) < MinLines
           \/ 2 * Cardinality(Repeats(LongOf(text))) < Len(LongOf(text))
        /\ Clean => \A k \in 1..(bad - 1) : ToSet(Seen(k, printed, cuts)) \subseteq ToSet(text)
=============================================================================
