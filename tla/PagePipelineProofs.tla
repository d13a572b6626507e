------------------------- MODULE PagePipelineProofs -------------------------
(***************************************************************************)
(* For documents of any length, with any repetitions, and for any          *)
(* concurrency, prefetch and number of errors: the pages in memory are     *)
(* bounded, a hash costs one engine call, nothing outlives a run that      *)
(* returns, which misses only pages it lost to errors, and a duplicate     *)
(* carries its original's text.  In whatever order the pages end, each is  *)
(* in its place in the full text, the Markdown and the PDF (InPlace): the  *)
(* sorted list has a page at its rank, and leaving pages out of it keeps   *)
(* the order of the others.                                                *)
(*                                                                         *)
(* PageInv is inductive.  The renderer and the main coroutine do not touch *)
(* the results, the page tasks do not touch the queue; so the steps of the *)
(* tasks are looked at twice, once for what they all have in common        *)
(* (PageMoves) and once for the results (RegisteredStep, DeliveredStep).   *)
(***************************************************************************)
EXTENDS PagePipeline, FiniteSetTheorems, FunctionTheorems, TLAPS

\* What a page task does, of its own or because of an error or a cancellation.
PageAction(p) == PageStep(p) \/ PageFault(p) \/ Cancelled(p)

\* What the renderer, the client and the main coroutine do, but for starting a
\* page task.
MainAction ==
    \/ RequestCancel \/ Render \/ RenderFault \/ Put
    \/ Get \/ Close \/ Throttle \/ SeeCancel \/ MarkCancelled \/ Gather \/ MainFault

\* The next-state relation, sorted in this way.
LEMMA NextCases ==
    ASSUME [Next]_vars
    PROVE  \/ MainAction \/ Spawn \/ UNCHANGED vars
           \/ \E p \in Pages : PageAction(p)
BY DEF Next, MainStep, MainAction, PageAction

----------------------------------------------------------------------------
(* Finite sets of pages *)

\* The document has NPages pages, and any set of them is finite.
LEMMA PagesFinite ==
    /\ IsFiniteSet(Pages) /\ Cardinality(Pages) = NPages
    /\ \A S : S \subseteq Pages => /\ IsFiniteSet(S)
                                   /\ Cardinality(S) \in Nat
                                   /\ Cardinality(S) <= NPages
<1>1. IsFiniteSet(Pages) /\ Cardinality(Pages) = NPages
    BY PagesAssumption, FS_Interval DEF Pages
<1>2. ASSUME NEW S, S \subseteq Pages
      PROVE  IsFiniteSet(S) /\ Cardinality(S) \in Nat /\ Cardinality(S) <= NPages
    BY <1>1, <1>2, FS_Subset, FS_CardinalityType
<1>. QED  BY <1>1, <1>2

\* A smaller set of pages has no more of them.
LEMMA FewerPages ==
    ASSUME NEW T, T \subseteq Pages, NEW S, S \subseteq T
    PROVE  Cardinality(S) <= Cardinality(T)
BY PagesFinite, FS_Subset

\* Page numbers are not the markers of the queue.
LEMMA Markers ==
    /\ Nothing \notin Pages /\ Exc \notin Pages /\ Done \notin Pages /\ 0 \notin Pages
    /\ Nothing # Exc /\ Exc # Done /\ Nothing # Done
    /\ \A n \in 0..NPages : n # 0 => n \in Pages
    /\ \A n \in 0..NPages : n < NPages => n + 1 \in Pages
BY PagesAssumption DEF Pages, Nothing, Exc, Done

\* Every page is plain or has a hash.
LEMMA Kinds ==
    ASSUME NEW p \in Pages
    PROVE  Kind[p] \in Plain \/ Kind[p] \in Hashes
BY DEF Hashes

----------------------------------------------------------------------------
(* What the steps of a page task have in common *)

\* The tasks a step of p leaves: only p moves, and the set `tasks` follows.
Moves(p) ==
    /\ task[p] \in Active
    /\ task' \in [Pages -> {"none"} \cup Active \cup Over]
    /\ \A q \in Pages : q # p => task'[q] = task[q]
    /\ task'[p] \in Active \cup Over
    /\ live' = {q \in Pages : task'[q] \in Active}

\* Step() moves one task, and discards it when it is over.
LEMMA StepMoves ==
    ASSUME TypeOK, NEW p \in Pages, task[p] \in Active,
           NEW pc \in Active \cup Over, Step(p, pc)
    PROVE  Moves(p) /\ task'[p] = pc
<1>1. task' = [task EXCEPT ![p] = pc] /\ task \in [Pages -> {"none"} \cup Active \cup Over]
    BY DEF Step, TypeOK
<1>2. Active \cap Over = {} /\ "none" \notin Active
    BY DEF Active, InSem, Over
<1>3. live' = {q \in Pages : task'[q] \in Active}
    BY <1>1, <1>2 DEF Step, TypeOK
<1>. QED  BY <1>1, <1>3 DEF Moves

\* Whatever it does, a page task leaves the renderer and the main coroutine
\* alone, moves on, and is not counted twice.
LEMMA PageMoves ==
    ASSUME TypeOK, NEW p \in Pages, PageAction(p)
    PROVE  /\ UNCHANGED <<render, main, cur, watched, doomed>>
           /\ Moves(p)
           /\ task[p] \in Over \cup {"report"} => task'[p] \in Over \cup {"report"}
<1>. USE DEF Active, InSem, Over
<1>1. CASE Acquire(p)
    BY <1>1, StepMoves DEF Acquire
<1>2. CASE Classify(p)
    <2>1. \E pc \in {"count", "wait", "announce"} : Step(p, pc)
        BY <1>2 DEF Classify
    <2>2. task[p] = "prep" /\ UNCHANGED <<render, main, cur, watched, doomed>>
        BY <1>2 DEF Classify
    <2>. QED  BY <2>1, <2>2, StepMoves
<1>3. CASE Copy(p)
    BY <1>3, StepMoves DEF Copy
<1>4. CASE Announce(p)
    BY <1>4, StepMoves DEF Announce
<1>5. CASE Ocr(p)
    BY <1>5, StepMoves DEF Ocr
<1>6. CASE Flush(p)
    BY <1>6, StepMoves DEF Flush
<1>7. CASE FlushRaising(p)
    BY <1>7, StepMoves DEF FlushRaising
<1>8. CASE Count(p)
    BY <1>8, StepMoves DEF Count
<1>9. CASE Report(p)
    BY <1>9, StepMoves DEF Report
<1>10. CASE PageFault(p)
    <2>1. \E pc \in {"flushExc", "lost"} : Step(p, pc) /\ (task[p] = "report" => pc = "lost")
        BY <1>10 DEF PageFault
    <2>. QED  BY <1>10, <2>1, StepMoves DEF PageFault
<1>11. CASE Cancelled(p)
    <2>1. \E pc \in {"flushExc", "gone"} : Step(p, pc) /\ (task[p] = "report" => pc = "gone")
        BY <1>11 DEF Cancelled
    <2>. QED  BY <1>11, <2>1, StepMoves DEF Cancelled
<1>. QED
    BY <1>1, <1>2, <1>3, <1>4, <1>5, <1>6, <1>7, <1>8, <1>9, <1>10, <1>11
    DEF PageAction, PageStep

\* The main coroutine and the renderer leave tasks and results alone.
LEMMA MainMoves ==
    ASSUME MainAction
    PROVE  UNCHANGED <<task, live, results>>
BY DEF MainAction, RequestCancel, Render, RenderFault, Put, Get, Close, Throttle,
       SeeCancel, MarkCancelled, Gather, MainFault, control, results

----------------------------------------------------------------------------
(* Types *)

\* HINCRBY of a page that had not been counted.
LEMMA CountOne ==
    ASSUME TypeOK, pagesDone <= Cardinality(Counted), NEW p \in Pages, PageAction(p)
    PROVE  pagesDone' <= Cardinality(Counted') /\ pagesDone' \in 0..NPages
<1>1. Moves(p) /\ Counted \subseteq Counted' /\ Counted' \subseteq Pages
    BY PageMoves DEF Moves, Counted
<1>2. Cardinality(Counted) <= Cardinality(Counted')
    BY <1>1, FewerPages
<1>3. /\ Cardinality(Counted) \in Nat
      /\ Cardinality(Counted') \in Nat /\ Cardinality(Counted') <= NPages
    BY <1>1, PagesFinite
<1>4. CASE Count(p)
    <2>1. task[p] = "count" /\ pagesDone' = pagesDone + 1 /\ task'[p] = "report"
        BY <1>4, StepMoves DEF Count, Active, InSem
    <2>2. p \notin Counted /\ Counted \cup {p} \subseteq Counted'
        BY <1>1, <2>1 DEF Counted, Over
    <2>3. Cardinality(Counted \cup {p}) = Cardinality(Counted) + 1
        BY <1>1, <2>2, PagesFinite, FS_AddElement
    <2>4. Cardinality(Counted \cup {p}) <= Cardinality(Counted')
        BY <1>1, <2>2, FewerPages
    <2>. QED  BY <1>3, <2>1, <2>3, <2>4, PagesAssumption DEF TypeOK
<1>5. CASE ~Count(p)
    <2>1. UNCHANGED pagesDone
        BY <1>5 DEF PageAction, PageStep, Acquire, Classify, Copy, Announce, Ocr, Flush,
           FlushRaising, Report, PageFault, Cancelled, results
    <2>. QED  BY <1>2, <1>3, <2>1, PagesAssumption DEF TypeOK
<1>. QED  BY <1>4, <1>5

\* The results keep their types.
LEMMA ResultTypes ==
    ASSUME TypeOK, Registered, NEW p \in Pages, PageAction(p)
    PROVE  /\ dedupe' \in [Hashes -> 0..NPages]
           /\ shared' \in [Pages -> {"none", "open"} \cup Texts]
           /\ answer' \in [Pages -> {"none"} \cup Texts]
           /\ pages' \in [Pages -> {"missing"} \cup Texts]
           /\ cancelFlag' \in BOOLEAN /\ faults' \in 0..MaxFaults
<1>. USE DEF TypeOK
<1>1. "native" \in Texts /\ "" \in Texts /\ "gap" \in Texts /\ "raw" \in Texts /\ "cut" \in Texts
    BY DEF Texts
<1>2. CASE Classify(p)
    <2>1. CASE Kind[p] \in Plain
        BY <1>1, <1>2, <2>1, Kinds DEF Classify, Deliver, Hashes
    <2>2. CASE Kind[p] \in Hashes
        <3>1. Kind[p] \notin Plain /\ p \in 0..NPages
            BY <2>2, PagesAssumption DEF Hashes, Pages
        <3>2. /\ UNCHANGED <<pages, answer, cancelFlag, faults>>
              /\ \/ UNCHANGED <<dedupe, shared>>
                 \/ /\ dedupe' = [dedupe EXCEPT ![Kind[p]] = p]
                    /\ shared' = [shared EXCEPT ![p] = "open"]
            BY <1>2, <3>1 DEF Classify
        <3>. QED  BY <2>2, <3>1, <3>2
    <2>. QED  BY <2>1, <2>2, Kinds
<1>3. CASE Copy(p)
    BY <1>3 DEF Copy, Deliver
<1>4. CASE Ocr(p)
    BY <1>1, <1>4 DEF Ocr
<1>5. CASE Flush(p)
    <2>1. answer[p] \in Texts /\ Filter(Kind[p], answer[p]) \in Texts
        BY <1>1, <1>5 DEF Flush, Filter, Registered
    <2>. QED  BY <1>5, <2>1 DEF Flush, Deliver
<1>6. CASE FlushRaising(p)
    BY <1>1, <1>6 DEF FlushRaising
<1>7. CASE PageFault(p)
    BY <1>7, PagesAssumption DEF PageFault, Fault, results
<1>8. CASE Acquire(p) \/ Announce(p) \/ Count(p) \/ Report(p) \/ Cancelled(p)
    BY <1>8 DEF Acquire, Announce, Count, Report, Cancelled, results
<1>. QED
    BY <1>2, <1>3, <1>4, <1>5, <1>6, <1>7, <1>8 DEF PageAction, PageStep

\* Every step keeps the types.
LEMMA TypeStep ==
    ASSUME PageInv, [Next]_vars
    PROVE  TypeOK'
<1>. USE DEF PageInv
<1>1. CASE UNCHANGED vars
    BY <1>1 DEF vars, TypeOK
<1>2. CASE Spawn
    <2>1. cur \in Pages /\ task[cur] = "none"
        BY <1>2, Markers DEF Spawn, TypeOK, Throttled, OnePlace
    <2>2. task' \in [Pages -> {"none"} \cup Active \cup Over]
        BY <1>2, <2>1 DEF Spawn, TypeOK, Active
    <2>3. live' = {q \in Pages : task'[q] \in Active}
        BY <1>2, <2>1 DEF Spawn, TypeOK, Active
    <2>. QED  BY <1>2, <2>2, <2>3, PagesAssumption DEF Spawn, TypeOK, render, results
<1>3. CASE MainAction
    <2>1. UNCHANGED <<task, live, results>>
        BY <1>3, MainMoves
    <2>2. /\ made' \in 0..NPages /\ held' \in {Nothing, Exc, Done} \cup Pages
          /\ producer' \in {"running", "ended"}
          /\ queue' \in Seq({Exc, Done} \cup Pages) /\ Len(queue') <= QueueCap
          /\ main' \in {"get", "check", "throttle", "closing", "raising", "gather",
                        "cancelling", "returned", "failed", "cancelled"}
          /\ cur' \in 0..NPages /\ watched' \subseteq Pages /\ doomed' \subseteq Pages
          /\ cancelFlag' \in BOOLEAN /\ faults' \in 0..MaxFaults
        <3>. USE PagesAssumption DEF TypeOK
        <3>1. CASE RequestCancel
            BY <3>1 DEF RequestCancel, render, control
        <3>2. CASE Render
            BY <3>2, Markers DEF Render, control
        <3>3. CASE RenderFault
            BY <3>3 DEF RenderFault, Fault, control
        <3>4. CASE Put
            <4>1. held \in {Exc, Done} \cup Pages /\ Len(queue) + 1 <= QueueCap
                BY <3>4 DEF Put, QueueCap
            <4>. QED  BY <3>4, <4>1 DEF Put, control
        <3>5. CASE Get
            <4>1. /\ Head(queue) \in {Exc, Done} \cup Pages
                  /\ Tail(queue) \in Seq({Exc, Done} \cup Pages)
                  /\ Len(Tail(queue)) <= QueueCap
                BY <3>5 DEF Get, QueueCap
            <4>. QED  BY <3>5, <4>1 DEF Get, Pages
        <3>6. CASE Close
            BY <3>6 DEF Close, render
        <3>7. CASE SeeCancel
            BY <3>7 DEF SeeCancel, render
        <3>8. CASE MainFault
            BY <3>8 DEF MainFault, Fault, render
        <3>9. CASE Throttle \/ MarkCancelled \/ Gather
            BY <3>9 DEF Throttle, MarkCancelled, Gather, render
        <3>. QED
            BY <1>3, <3>1, <3>2, <3>3, <3>4, <3>5, <3>6, <3>7, <3>8, <3>9 DEF MainAction
    <2>. QED  BY <2>1, <2>2 DEF TypeOK, results
<1>4. ASSUME NEW p \in Pages, PageAction(p) PROVE TypeOK'
    <2>1. UNCHANGED <<render, main, cur, watched, doomed>> /\ Moves(p)
        BY <1>4, PageMoves
    <2>2. pagesDone' \in 0..NPages
        BY <1>4, CountOne
    <2>. QED  BY <1>4, <2>1, <2>2, ResultTypes DEF TypeOK, Moves, render
<1>. QED  BY <1>1, <1>2, <1>3, <1>4, NextCases

----------------------------------------------------------------------------
(* The way of a page, and the number of tasks *)

\* No step puts a page in two places.
LEMMA OnePlaceStep ==
    ASSUME PageInv, [Next]_vars
    PROVE  OnePlace'
<1>. USE Markers, PagesAssumption DEF PageInv, TypeOK, OnePlace
<1>1. CASE UNCHANGED vars
    BY <1>1 DEF vars
<1>2. CASE Spawn
    <2>1. cur \in Pages /\ cur' = 0 /\ UNCHANGED <<made, held, queue>>
        BY <1>2 DEF Spawn, Throttled, render
    <2>2. \A q \in Pages : q # cur => task'[q] = task[q]
        BY <1>2 DEF Spawn
    <2>. QED  BY <2>1, <2>2
<1>3. CASE MainAction
    <2>1. UNCHANGED task
        BY <1>3, MainMoves
    <2>2. CASE Render
        <3>1. held = Nothing /\ UNCHANGED <<queue, cur>>
            BY <2>2 DEF Render, control
        <3>2. CASE made < NPages
            <4>1. made' = made + 1 /\ held' = made + 1 /\ made + 1 \in Pages
                BY <2>2, <3>2 DEF Render
            <4>2. made + 1 > made /\ \A q \in Pages : q > made + 1 => q > made /\ q # made + 1
                BY DEF Pages
            <4>3. /\ made + 1 # cur /\ task[made + 1] = "none"
                  /\ \A i \in DOMAIN queue : queue[i] # made + 1
                BY <4>1, <4>2
            <4>. QED  BY <2>1, <3>1, <4>1, <4>2, <4>3
        <3>3. CASE ~(made < NPages)
            BY <2>1, <2>2, <3>1, <3>3 DEF Render
        <3>. QED  BY <3>2, <3>3
    <2>3. CASE RenderFault
        BY <2>1, <2>3 DEF RenderFault, control
    <2>4. CASE Put
        <3>1. /\ queue' = Append(queue, held) /\ UNCHANGED <<made, cur>>
              /\ held' \in {Done, Nothing}
            BY <2>4 DEF Put, control
        <3>2. /\ DOMAIN queue' = DOMAIN queue \cup {Len(queue) + 1}
              /\ Len(queue) + 1 \notin DOMAIN queue
              /\ queue'[Len(queue) + 1] = held
              /\ \A i \in DOMAIN queue : queue'[i] = queue[i]
            BY <3>1
        <3>. QED  BY <2>1, <3>1, <3>2
    <2>5. CASE Get
        <3>1. /\ queue # <<>> /\ queue' = Tail(queue) /\ UNCHANGED <<made, held>>
              /\ cur' = 0 \/ (cur' = queue[1] /\ queue[1] \in Pages)
            BY <2>5 DEF Get
        <3>2. \A i \in DOMAIN queue' : i + 1 \in DOMAIN queue /\ queue'[i] = queue[i + 1]
            BY <3>1
        <3>3. 1 \in DOMAIN queue /\ \A i \in DOMAIN queue' : i \in Nat /\ i + 1 # 1
            BY <3>1
        <3>4. \A i, j \in DOMAIN queue' : i + 1 = j + 1 => i = j
            BY <3>3
        <3>. QED  BY <2>1, <3>1, <3>2, <3>3, <3>4
    <2>6. CASE RequestCancel \/ Close \/ Throttle \/ SeeCancel \/ MarkCancelled \/ Gather
               \/ MainFault
        <3>1. UNCHANGED <<made, held, queue>> /\ (cur' = cur \/ cur' = 0)
            BY <2>6 DEF RequestCancel, Close, Throttle, SeeCancel, MarkCancelled, Gather,
               MainFault, render, control
        <3>. QED  BY <2>1, <3>1
    <2>. QED  BY <1>3, <2>2, <2>3, <2>4, <2>5, <2>6 DEF MainAction
<1>4. ASSUME NEW p \in Pages, PageAction(p) PROVE OnePlace'
    <2>1. UNCHANGED <<made, held, queue, cur>> /\ task[p] # "none"
        BY <1>4, PageMoves DEF render, Moves, Active, InSem
    <2>2. \A q \in Pages : task[q] = "none" => task'[q] = "none"
        BY <1>4, <2>1, PageMoves DEF Moves
    <2>. QED  BY <2>1, <2>2
<1>. QED  BY <1>1, <1>2, <1>3, <1>4, NextCases

\* A task more only when there is room for it, and none behind a run that
\* returns.
LEMMA ThrottledStep ==
    ASSUME PageInv, [Next]_vars
    PROVE  Throttled'
<1>. USE Markers, PagesAssumption DEF PageInv, Throttled
<1>0. live \subseteq Pages /\ IsFiniteSet(live) /\ Cardinality(live) \in Nat
    BY PagesFinite DEF TypeOK
<1>1. CASE UNCHANGED vars
    BY <1>1 DEF vars
<1>2. CASE Spawn
    <2>1. /\ main = "check" /\ live' = live \cup {cur} /\ cur' = 0
          /\ main' = IF Cardinality(live') > PageConcurrency + Prefetch
                     THEN "throttle" ELSE "get"
        BY <1>2 DEF Spawn
    <2>2. /\ Cardinality(live') \in Nat
          /\ Cardinality(live') <= Cardinality(live) + 1
        BY <1>0, <2>1, FS_AddElement
    <2>. QED  BY <1>0, <2>1, <2>2
<1>3. CASE MainAction
    <2>1. UNCHANGED live
        BY <1>3, MainMoves
    <2>2. CASE Get
        BY <2>1, <2>2 DEF Get
    <2>3. CASE Throttle
        BY <2>1, <2>3 DEF Throttle
    <2>4. CASE Gather
        <3>1. \A p \in watched : task[p] \in Over
            BY <2>4 DEF Gather
        <3>2. main = "gather" /\ live = {}
            BY <2>4, <3>1 DEF Gather, TypeOK, Active, InSem, Over
        <3>. QED  BY <2>1, <2>4, <3>2 DEF Gather
    <2>5. CASE Close
        BY <2>1, <2>5 DEF Close
    <2>6. CASE SeeCancel \/ MarkCancelled \/ MainFault
        BY <2>1, <2>6 DEF SeeCancel, MarkCancelled, MainFault
    <2>7. CASE RequestCancel \/ Render \/ RenderFault \/ Put
        BY <2>1, <2>7 DEF RequestCancel, Render, RenderFault, Put, control
    <2>. QED  BY <1>3, <2>2, <2>3, <2>4, <2>5, <2>6, <2>7 DEF MainAction
<1>4. ASSUME NEW p \in Pages, PageAction(p) PROVE Throttled'
    <2>1. UNCHANGED <<main, cur, watched>> /\ live' \subseteq live
        BY <1>4, PageMoves DEF Moves, TypeOK
    <2>2. Cardinality(live') <= Cardinality(live) /\ Cardinality(live') \in Nat
        BY <1>0, <2>1, FewerPages, PagesFinite
    <2>. QED  BY <1>0, <2>1, <2>2
<1>. QED  BY <1>1, <1>2, <1>3, <1>4, NextCases

\* The counter follows the tasks.
LEMMA CountedStep ==
    ASSUME PageInv, [Next]_vars
    PROVE  pagesDone' <= Cardinality(Counted')
<1>. USE DEF PageInv
<1>1. CASE UNCHANGED vars
    BY <1>1 DEF vars, Counted
<1>2. CASE Spawn
    <2>1. task[cur] = "none" /\ task' = [task EXCEPT ![cur] = "sem"] /\ UNCHANGED pagesDone
        BY <1>2, Markers DEF Spawn, TypeOK, Throttled, OnePlace, results
    <2>2. Counted' = Counted
        BY <2>1 DEF Counted, Over, TypeOK
    <2>. QED  BY <2>1, <2>2
<1>3. CASE MainAction
    BY <1>3, MainMoves DEF Counted, results
<1>4. ASSUME NEW p \in Pages, PageAction(p) PROVE pagesDone' <= Cardinality(Counted')
    BY <1>4, CountOne
<1>. QED  BY <1>1, <1>2, <1>3, <1>4, NextCases

----------------------------------------------------------------------------
(* The futures and the results *)

\* The steps that do not touch the futures, the answers and the results.
LEMMA OtherSteps ==
    ASSUME NEW p \in Pages, PageAction(p),
           ~Classify(p), ~Copy(p), ~Ocr(p), ~Flush(p), ~FlushRaising(p)
    PROVE  UNCHANGED <<dedupe, shared, answer, pages>>
BY DEF PageAction, PageStep, Acquire, Announce, Count, Report, PageFault, Cancelled,
       results

\* Where they take a task: towards the engine only in the order of the code, and
\* to its end from anywhere.
LEMMA OtherMoves ==
    ASSUME TypeOK, NEW p \in Pages, PageAction(p),
           ~Classify(p), ~Copy(p), ~Ocr(p), ~Flush(p), ~FlushRaising(p)
    PROVE  \/ task[p] = "sem" /\ task'[p] = "prep"
           \/ task[p] = "announce" /\ task'[p] = "ocr"
           \/ task[p] = "ocr" /\ task'[p] = "flushExc"
           \/ task[p] = "count" /\ task'[p] = "report"
           \/ task[p] = "report" /\ task'[p] = "done"
           \/ task'[p] \in {"lost", "gone"}
<1>. USE DEF Step, TypeOK
<1>1. CASE Acquire(p) \/ Announce(p) \/ Count(p) \/ Report(p)
    BY <1>1 DEF Acquire, Announce, Count, Report
<1>2. CASE PageFault(p) \/ Cancelled(p)
    BY <1>2 DEF PageFault, Cancelled
<1>. QED  BY <1>1, <1>2 DEF PageAction, PageStep

\* What Classify decides.
LEMMA ClassifyCases ==
    ASSUME TypeOK, NEW p \in Pages, Classify(p)
    PROVE  /\ task[p] = "prep" /\ UNCHANGED answer
           /\ \/ /\ Kind[p] \in Plain /\ Kind[p] \notin Hashes
                 /\ \E text \in Texts : pages' = [pages EXCEPT ![p] = text]
                 /\ task' = [task EXCEPT ![p] = "count"]
                 /\ UNCHANGED <<dedupe, shared>>
              \/ /\ Kind[p] \in Hashes /\ dedupe[Kind[p]] # 0
                 /\ task' = [task EXCEPT ![p] = "wait"]
                 /\ UNCHANGED <<dedupe, shared, pages>>
              \/ /\ Kind[p] \in Hashes /\ dedupe[Kind[p]] = 0
                 /\ dedupe' = [dedupe EXCEPT ![Kind[p]] = p]
                 /\ shared' = [shared EXCEPT ![p] = "open"]
                 /\ task' = [task EXCEPT ![p] = "announce"]
                 /\ UNCHANGED pages
<1>1. "native" \in Texts /\ "" \in Texts
    BY DEF Texts
<1>2. task[p] = "prep" /\ UNCHANGED answer
    BY DEF Classify
<1>3. CASE Kind[p] \in Plain
    BY <1>1, <1>2, <1>3 DEF Classify, Deliver, Step, Hashes
<1>4. CASE Kind[p] \in Hashes
    BY <1>2, <1>4 DEF Classify, Step, Hashes
<1>. QED  BY <1>3, <1>4, Kinds

\* What the other steps that touch them do, to the letter.
LEMMA ResultSteps ==
    ASSUME NEW p \in Pages
    PROVE  /\ Copy(p) =>
                /\ task[p] = "wait" /\ shared[dedupe[Kind[p]]] \in Texts
                /\ task' = [task EXCEPT ![p] = "count"]
                /\ pages' = [pages EXCEPT ![p] = shared[dedupe[Kind[p]]]]
                /\ UNCHANGED <<dedupe, shared, answer>>
           /\ Ocr(p) =>
                /\ task[p] = "ocr"
                /\ task' = [task EXCEPT ![p] = "flush"]
                /\ \E text \in Texts : answer' = [answer EXCEPT ![p] = text]
                /\ UNCHANGED <<dedupe, shared, pages>>
           /\ Flush(p) =>
                /\ task[p] = "flush"
                /\ task' = [task EXCEPT ![p] = "count"]
                /\ shared' = [shared EXCEPT ![p] = answer[p]]
                /\ pages' = [pages EXCEPT ![p] = Filter(Kind[p], answer[p])]
                /\ UNCHANGED <<dedupe, answer>>
           /\ FlushRaising(p) =>
                /\ task[p] = "flushExc"
                /\ \E end \in {"gone", "lost"} : task' = [task EXCEPT ![p] = end]
                /\ shared' = [shared EXCEPT ![p] = "gap"]
                /\ UNCHANGED <<dedupe, answer, pages>>
BY DEF Copy, Ocr, Flush, FlushRaising, Step, Deliver, Texts

\* A page is registered for its hash before it goes to the engine, and its future
\* is open while it is there.
LEMMA RegisteredStep ==
    ASSUME PageInv, [Next]_vars
    PROVE  Registered'
<1>. USE Markers DEF PageInv, TypeOK, Registered
<1>1. CASE UNCHANGED vars
    BY <1>1 DEF vars
<1>2. CASE Spawn
    <2>1. /\ \A q \in Pages : task'[q] # task[q] => task[q] = "none" /\ task'[q] = "sem"
          /\ UNCHANGED <<dedupe, shared, answer>>
        BY <1>2 DEF Spawn, results, Throttled, OnePlace
    <2>. QED  BY <2>1
<1>3. CASE MainAction
    BY <1>3, MainMoves DEF results
<1>4. ASSUME NEW p \in Pages, PageAction(p) PROVE Registered'
    <2>1. CASE Classify(p)
        <3>1. task[p] = "prep" /\ UNCHANGED answer
            BY <2>1, ClassifyCases
        <3>2. CASE /\ task' = [task EXCEPT ![p] = "count"]
                   /\ UNCHANGED <<dedupe, shared>>
            BY <3>1, <3>2
        <3>3. CASE /\ Kind[p] \in Hashes /\ dedupe[Kind[p]] # 0
                   /\ task' = [task EXCEPT ![p] = "wait"]
                   /\ UNCHANGED <<dedupe, shared>>
            BY <3>1, <3>3
        <3>4. CASE /\ Kind[p] \in Hashes /\ dedupe[Kind[p]] = 0
                   /\ dedupe' = [dedupe EXCEPT ![Kind[p]] = p]
                   /\ shared' = [shared EXCEPT ![p] = "open"]
                   /\ task' = [task EXCEPT ![p] = "announce"]
            <4>1. /\ \A h \in Hashes : dedupe'[h] = IF h = Kind[p] THEN p ELSE dedupe[h]
                  /\ \A q \in Pages : q # p => task'[q] = task[q] /\ shared'[q] = shared[q]
                  /\ task'[p] = "announce" /\ shared'[p] = "open"
                BY <3>4
            <4>2. \A q \in Pages : dedupe[Kind[q]] = q /\ Kind[q] \in Hashes => Kind[q] # Kind[p]
                BY <3>4
            <4>3. \A q \in Pages : task[q] = "wait" => Kind[q] # Kind[p]
                BY <3>4
            <4>. QED  BY <3>1, <3>4, <4>1, <4>2, <4>3
        <3>. QED  BY <2>1, <3>2, <3>3, <3>4, ClassifyCases
    <2>2. CASE Copy(p)
        BY <2>2, ResultSteps
    <2>3. CASE Ocr(p)
        BY <2>3, ResultSteps
    <2>4. CASE Flush(p)
        BY <2>4, ResultSteps
    <2>5. CASE FlushRaising(p)
        BY <2>5, ResultSteps
    <2>6. CASE ~(Classify(p) \/ Copy(p) \/ Ocr(p) \/ Flush(p) \/ FlushRaising(p))
        <3>1. UNCHANGED <<dedupe, shared, answer>>
            BY <1>4, <2>6, OtherSteps
        <3>2. \A q \in Pages : q # p => task'[q] = task[q]
            BY <1>4, PageMoves DEF Moves
        <3>3. \/ task'[p] \in {"count", "report"} \cup Over
              \/ task[p] = "sem" /\ task'[p] = "prep"
              \/ task[p] = "announce" /\ task'[p] = "ocr"
              \/ task[p] = "ocr" /\ task'[p] = "flushExc"
            BY <1>4, <2>6, OtherMoves DEF Over
        <3>. QED  BY <3>1, <3>2, <3>3 DEF Over
    <2>. QED  BY <2>1, <2>2, <2>3, <2>4, <2>5, <2>6
<1>. QED  BY <1>1, <1>2, <1>3, <1>4, NextCases

\* A text in a future stays, and so do the results that are made of it.
LEMMA DeliveredStep ==
    ASSUME PageInv, [Next]_vars
    PROVE  Delivered'
<1>. USE Markers DEF PageInv, TypeOK, Delivered
<1>a. "missing" \notin Texts /\ "open" \notin Texts /\ "none" \notin Texts
    BY DEF Texts
<1>1. CASE UNCHANGED vars
    BY <1>1 DEF vars
<1>2. CASE Spawn
    <2>1. /\ \A q \in Pages : task'[q] # task[q] => task[q] = "none" /\ task'[q] = "sem"
          /\ UNCHANGED <<dedupe, shared, pages>>
        BY <1>2 DEF Spawn, results, Throttled, OnePlace
    <2>. QED  BY <2>1
<1>3. CASE MainAction
    BY <1>3, MainMoves DEF results
<1>4. ASSUME NEW p \in Pages, PageAction(p) PROVE Delivered'
    <2>1. CASE Classify(p)
        <3>1. task[p] = "prep" /\ pages[p] = "missing"
            BY <2>1, ClassifyCases
        <3>2. CASE /\ Kind[p] \notin Hashes
                   /\ \E text \in Texts : pages' = [pages EXCEPT ![p] = text]
                   /\ task' = [task EXCEPT ![p] = "count"]
                   /\ UNCHANGED <<dedupe, shared>>
            BY <1>a, <3>2
        <3>3. CASE /\ task' = [task EXCEPT ![p] = "wait"]
                   /\ UNCHANGED <<dedupe, shared, pages>>
            BY <3>1, <3>3
        <3>4. CASE /\ Kind[p] \in Hashes /\ dedupe[Kind[p]] = 0
                   /\ dedupe' = [dedupe EXCEPT ![Kind[p]] = p]
                   /\ shared' = [shared EXCEPT ![p] = "open"]
                   /\ task' = [task EXCEPT ![p] = "announce"]
                   /\ UNCHANGED pages
            <4>1. \A q \in Pages : pages[q] # "missing" /\ Kind[q] \in Hashes =>
                      /\ q # p /\ Kind[q] # Kind[p] /\ dedupe'[Kind[q]] = dedupe[Kind[q]]
                      /\ dedupe[Kind[q]] # p
                BY <3>1, <3>4 DEF Registered
            <4>2. \A q \in Pages : q # p => task'[q] = task[q] /\ shared'[q] = shared[q]
                BY <3>4
            <4>3. task'[p] = "announce"
                BY <3>4
            <4>. QED  BY <3>1, <3>4, <4>1, <4>2, <4>3
        <3>. QED  BY <2>1, <3>2, <3>3, <3>4, ClassifyCases
    <2>2. CASE Copy(p)
        <3>1. /\ Kind[p] \in Hashes /\ dedupe[Kind[p]] \notin {0, p}
              /\ shared[dedupe[Kind[p]]] \in Texts
              /\ task' = [task EXCEPT ![p] = "count"]
              /\ pages' = [pages EXCEPT ![p] = shared[dedupe[Kind[p]]]]
              /\ UNCHANGED <<dedupe, shared>>
            BY <2>2, ResultSteps DEF Registered
        <3>. QED  BY <1>a, <3>1
    <2>3. CASE Ocr(p)
        BY <2>3, ResultSteps
    <2>4. CASE Flush(p)
        <3>1. /\ Kind[p] \in Hashes /\ dedupe[Kind[p]] = p /\ shared[p] = "open"
              /\ answer[p] \in Texts /\ Filter(Kind[p], answer[p]) \in Texts
              /\ pages[p] = "missing"
            BY <2>4, ResultSteps DEF Registered, Filter, Texts
        <3>2. /\ task' = [task EXCEPT ![p] = "count"]
              /\ shared' = [shared EXCEPT ![p] = answer[p]]
              /\ pages' = [pages EXCEPT ![p] = Filter(Kind[p], answer[p])]
              /\ UNCHANGED dedupe
            BY <2>4, ResultSteps
        <3>3. /\ task'[p] = "count" /\ shared'[p] = answer[p]
              /\ pages'[p] = Filter(Kind[p], answer[p])
              /\ \A q \in Pages : q # p =>
                    task'[q] = task[q] /\ shared'[q] = shared[q] /\ pages'[q] = pages[q]
            BY <3>2
        <3>4. \A q \in Pages : pages[q] # "missing" /\ Kind[q] \in Hashes =>
                  dedupe[Kind[q]] \in Pages \ {p}
            BY <1>a, <3>1
        <3>. QED  BY <1>a, <3>1, <3>2, <3>3, <3>4 DEF Filter
    <2>5. CASE FlushRaising(p)
        <3>1. /\ shared[p] = "open" /\ pages[p] = "missing"
              /\ task'[p] \in {"gone", "lost"}
              /\ \A q \in Pages : q # p => task'[q] = task[q] /\ shared'[q] = shared[q]
              /\ UNCHANGED <<dedupe, pages>>
            BY <2>5, ResultSteps DEF Registered
        <3>2. \A q \in Pages : pages[q] # "missing" /\ Kind[q] \in Hashes =>
                  dedupe[Kind[q]] \in Pages \ {p}
            BY <1>a, <3>1
        <3>. QED  BY <3>1, <3>2
    <2>6. CASE ~(Classify(p) \/ Copy(p) \/ Ocr(p) \/ Flush(p) \/ FlushRaising(p))
        <3>1. UNCHANGED <<dedupe, shared, pages>>
            BY <1>4, <2>6, OtherSteps
        <3>2. \A q \in Pages : q # p => task'[q] = task[q]
            BY <1>4, PageMoves DEF Moves
        <3>3. \/ task'[p] \in {"lost", "gone"}
              \/ task[p] \in {"sem", "announce", "ocr"} /\ task'[p] \in {"prep", "ocr", "flushExc"}
              \/ task[p] \in {"count", "report"} /\ task'[p] \in {"report", "done"}
            BY <1>4, <2>6, OtherMoves
        <3>. QED  BY <3>1, <3>2, <3>3
    <2>. QED  BY <2>1, <2>2, <2>3, <2>4, <2>5, <2>6
<1>. QED  BY <1>1, <1>2, <1>3, <1>4, NextCases

----------------------------------------------------------------------------
(* No page is left out *)

\* The thread renders, and puts what it has rendered at the end of the queue.
LEMMA RendererSkipsNone ==
    ASSUME PageInv, Render \/ RenderFault \/ Put
    PROVE  NoneSkipped'
<1>. USE Markers, PagesAssumption DEF PageInv, TypeOK, NoneSkipped, Going, Coming
<1>0. UNCHANGED <<main, cur, doomed, task>>
    BY DEF Render, RenderFault, Put, control
<1>1. CASE Render \/ RenderFault
    <2>1. /\ held = Nothing /\ producer = "running" /\ UNCHANGED <<queue, producer>>
          /\ \/ made < NPages /\ made' = made + 1 /\ held' = made + 1
             \/ made = NPages /\ made' = made /\ held' = Done
             \/ made' = made /\ held' = Exc
        BY <1>1 DEF Render, RenderFault
    <2>2. main \in Coming \/ main \notin Going
        BY <2>1
    <2>3. \A p \in 1..made' : p \in 1..made \/ p = held'
        BY <2>1
    <2>4. \A p \in 1..made : p # held
        BY <2>1, Markers DEF Nothing
    <2>5. main \in Going => \A p \in 1..made' :
              task[p] # "none" \/ p \in {held', cur} \/ \E i \in DOMAIN queue : queue[i] = p
        BY <2>3, <2>4
    <2>6. held' = Done => made' = NPages
        BY <2>1
    <2>. QED  BY <1>0, <2>1, <2>2, <2>5, <2>6
<1>2. CASE Put
    <2>1. /\ held # Nothing /\ producer = "running" /\ UNCHANGED made
          /\ queue' = Append(queue, held)
          /\ held' = IF held = Exc THEN Done ELSE Nothing
          /\ producer' = IF held = Done THEN "ended" ELSE producer
        BY <1>2 DEF Put
    <2>2. /\ Len(queue') = Len(queue) + 1 /\ Len(queue) \in Nat
          /\ DOMAIN queue' = DOMAIN queue \cup {Len(queue')}
          /\ queue'[Len(queue')] = held
          /\ \A i \in DOMAIN queue : queue'[i] = queue[i]
        BY <2>1
    <2>3. \A i \in DOMAIN queue : queue[i] # Done
        BY <2>1
    <2>4. producer' = "ended" => held' = Nothing
        BY <2>1
    <2>5. \A i \in DOMAIN queue' : queue'[i] = Done => i = Len(queue') /\ producer' = "ended"
        BY <2>1, <2>2, <2>3
    <2>6. main \in Coming /\ (held' = Done \/ producer' = "ended") =>
              made = NPages \/ \E i \in DOMAIN queue' : queue'[i] = Exc
        <3>1. held = Exc => \E i \in DOMAIN queue' : queue'[i] = Exc
            BY <2>2
        <3>2. (\E i \in DOMAIN queue : queue[i] = Exc) => \E i \in DOMAIN queue' : queue'[i] = Exc
            BY <2>2
        <3>3. held' = Done \/ producer' = "ended" => held = Exc \/ held = Done
            BY <2>1
        <3>. QED  BY <3>1, <3>2, <3>3
    <2>7. main \in Going => \A p \in 1..made :
              task[p] # "none" \/ p \in {held', cur} \/ \E i \in DOMAIN queue' : queue'[i] = p
        <3>1. \A p \in 1..made : p = held => \E i \in DOMAIN queue' : queue'[i] = p
            BY <2>2
        <3>2. \A p \in 1..made : (\E i \in DOMAIN queue : queue[i] = p)
                                    => \E i \in DOMAIN queue' : queue'[i] = p
            BY <2>2
        <3>. QED  BY <3>1, <3>2
    <2>. QED  BY <1>0, <2>1, <2>4, <2>5, <2>6, <2>7
<1>. QED  BY <1>1, <1>2

\* Get takes the first item and no other.
LEMMA GetSkipsNone ==
    ASSUME PageInv, Get
    PROVE  NoneSkipped'
<1>. USE Markers, PagesAssumption DEF PageInv, TypeOK, NoneSkipped, Going, Coming
<1>1. /\ main = "get" /\ queue # <<>> /\ queue' = Tail(queue) /\ cur = 0
      /\ UNCHANGED <<made, held, producer, doomed, task>>
    BY DEF Get, Throttled
<1>2. \/ queue[1] = Done /\ main' = "closing" /\ cur' = 0
      \/ queue[1] = Exc /\ main' = "raising" /\ cur' = 0
      \/ queue[1] \in Pages /\ main' = "check" /\ cur' = queue[1]
    BY <1>1 DEF Get
<1>3. /\ Len(queue') = Len(queue) - 1 /\ Len(queue) \in Nat \ {0}
      /\ \A i \in DOMAIN queue' : i + 1 \in DOMAIN queue /\ queue'[i] = queue[i + 1]
      /\ \A i \in DOMAIN queue : i = 1 \/ (i - 1 \in DOMAIN queue' /\ queue'[i - 1] = queue[i])
    BY <1>1
<1>4. \A i \in DOMAIN queue' : queue'[i] = Done => i = Len(queue') /\ producer = "ended"
    BY <1>3
<1>5. \A x : x # queue[1] /\ (\E i \in DOMAIN queue : queue[i] = x)
                => \E i \in DOMAIN queue' : queue'[i] = x
    BY <1>3
<1>6. CASE queue[1] = Done
    <2>1. 1 = Len(queue) /\ producer = "ended" /\ held = Nothing
        BY <1>3, <1>6
    <2>2. queue' = <<>> /\ \A i \in DOMAIN queue : queue[i] = Done
        BY <1>1, <1>3, <1>6, <2>1
    <2>3. made = NPages
        BY <1>1, <2>1, <2>2
    <2>4. main' = "closing" /\ cur' = 0
        BY <1>2, <1>6
    <2>5. \A p \in 1..made : p \in Pages /\ p # Nothing /\ p # 0 /\ p # Done
        BY <2>3 DEF Pages
    <2>6. \A p \in 1..made : task[p] # "none"
        BY <1>1, <2>1, <2>2, <2>5
    <2>. QED  BY <1>1, <1>4, <2>1, <2>2, <2>3, <2>4, <2>6
<1>7. CASE queue[1] = Exc
    BY <1>1, <1>2, <1>4, <1>7
<1>8. CASE queue[1] \in Pages
    <2>1. main' = "check" /\ cur' = queue[1]
        BY <1>2, <1>8
    <2>2. \A p \in 1..made : p \in Pages /\ p # 0
        BY DEF Pages
    <2>3. \A p \in 1..made :
              task[p] # "none" \/ p \in {held, cur'} \/ \E i \in DOMAIN queue' : queue'[i] = p
        BY <1>1, <1>5, <2>1, <2>2
    <2>4. held = Done \/ producer = "ended" =>
              made = NPages \/ \E i \in DOMAIN queue' : queue'[i] = Exc
        BY <1>1, <1>5, <1>8
    <2>. QED  BY <1>1, <1>4, <2>1, <2>3, <2>4
<1>. QED  BY <1>2, <1>6, <1>7, <1>8

\* Only a cancelled task ends without having failed or delivered.
LEMMA GoneWhenDoomed ==
    ASSUME TypeOK, NEW p \in Pages, PageAction(p), task'[p] = "gone"
    PROVE  p \in doomed
<1>. USE DEF Active, InSem, Over
<1>1. CASE Acquire(p)
    BY <1>1, StepMoves DEF Acquire
<1>2. CASE Classify(p)
    <2>1. \E pc \in {"count", "wait", "announce"} : Step(p, pc)
        BY <1>2 DEF Classify
    <2>2. task[p] = "prep"
        BY <1>2 DEF Classify
    <2>. QED  BY <2>1, <2>2, StepMoves
<1>3. CASE Copy(p)
    BY <1>3, StepMoves DEF Copy
<1>4. CASE Announce(p)
    BY <1>4, StepMoves DEF Announce
<1>5. CASE Ocr(p)
    BY <1>5, StepMoves DEF Ocr
<1>6. CASE Flush(p)
    BY <1>6, StepMoves DEF Flush
<1>7. CASE FlushRaising(p)
    BY <1>7, StepMoves DEF FlushRaising
<1>8. CASE Count(p)
    BY <1>8, StepMoves DEF Count
<1>9. CASE Report(p)
    BY <1>9, StepMoves DEF Report
<1>10. CASE PageFault(p)
    <2>1. \E pc \in {"flushExc", "lost"} : Step(p, pc)
        BY <1>10 DEF PageFault
    <2>. QED  BY <1>10, <2>1, StepMoves DEF PageFault
<1>11. CASE Cancelled(p)
    BY <1>11 DEF Cancelled
<1>. QED
    BY <1>1, <1>2, <1>3, <1>4, <1>5, <1>6, <1>7, <1>8, <1>9, <1>10, <1>11
    DEF PageAction, PageStep

\* No step loses a page on its way to its task.
LEMMA SkipsNoneStep ==
    ASSUME PageInv, [Next]_vars
    PROVE  NoneSkipped'
<1>. USE Markers, PagesAssumption DEF PageInv, TypeOK, NoneSkipped, Going, Coming
<1>1. CASE UNCHANGED vars
    BY <1>1 DEF vars
<1>2. CASE Spawn
    <2>1. /\ main = "check" /\ cur \in Pages /\ main' \in {"get", "throttle"}
          /\ task' = [task EXCEPT ![cur] = "sem"] /\ cur' = 0
          /\ UNCHANGED <<made, held, producer, queue, doomed>>
        BY <1>2 DEF Spawn, Throttled, render
    <2>2. /\ task'[cur] = "sem"
          /\ \A p \in Pages : p # cur => task'[p] = task[p]
        BY <2>1
    <2>3. \A p \in 1..made : p \in Pages
        BY DEF Pages
    <2>4. \A p \in 1..made : task'[p] # "none" \/ p \in {held, cur'}
                                \/ \E i \in DOMAIN queue : queue[i] = p
        BY <2>1, <2>2, <2>3
    <2>5. \A p \in Pages : task'[p] = "gone" => p \in doomed
        BY <2>2
    <2>. QED  BY <2>1, <2>4, <2>5
<1>3. CASE MainAction
    <2>1. UNCHANGED task
        BY <1>3, MainMoves
    <2>2. CASE RequestCancel
        BY <2>1, <2>2 DEF RequestCancel, render, control
    <2>3. CASE Close
        BY <2>1, <2>3 DEF Close, render
    <2>4. CASE SeeCancel
        <3>1. \A p \in Pages : task[p] = "gone" => FALSE
            BY <2>4 DEF SeeCancel
        <3>. QED  BY <2>1, <2>4, <3>1 DEF SeeCancel, render
    <2>5. CASE Throttle \/ Gather
        BY <2>1, <2>5 DEF Throttle, Gather, render
    <2>6. CASE MarkCancelled \/ MainFault
        BY <2>1, <2>6 DEF MarkCancelled, MainFault, render
    <2>. QED
        BY <1>3, <2>2, <2>3, <2>4, <2>5, <2>6, RendererSkipsNone, GetSkipsNone DEF MainAction
<1>4. ASSUME NEW p \in Pages, PageAction(p) PROVE NoneSkipped'
    <2>1. UNCHANGED <<made, held, producer, queue, main, cur, doomed>>
        BY <1>4, PageMoves DEF render
    <2>2. \A q \in Pages : q # p => task'[q] = task[q]
        BY <1>4, PageMoves DEF Moves
    <2>3. task'[p] # "none"
        BY <1>4, PageMoves DEF Moves, Active, InSem, Over
    <2>4. task'[p] = "gone" => p \in doomed
        BY <1>4, GoneWhenDoomed
    <2>5. \A q \in 1..made : q \in Pages
        BY DEF Pages
    <2>6. \A q \in 1..made : task[q] # "none" => task'[q] # "none"
        BY <2>2, <2>3, <2>5
    <2>. QED  BY <2>1, <2>2, <2>4, <2>6
<1>. QED  BY <1>1, <1>2, <1>3, <1>4, NextCases

----------------------------------------------------------------------------
(* The theorems *)

\* Before the first page nothing is anywhere.
LEMMA PageInit == ASSUME Init PROVE PageInv
<1>. USE PagesAssumption, Markers DEF Init
<1>1. TypeOK
    <2>1. queue \in Seq({Exc, Done} \cup Pages) /\ Len(queue) <= QueueCap
        BY DEF QueueCap
    <2>2. live = {p \in Pages : task[p] \in Active}
        BY DEF Active, InSem
    <2>3. /\ made \in 0..NPages /\ cur \in 0..NPages /\ pagesDone \in 0..NPages
          /\ faults \in 0..MaxFaults
          /\ dedupe \in [Hashes -> 0..NPages]
        OBVIOUS
    <2>4. /\ task \in [Pages -> {"none"} \cup Active \cup Over]
          /\ shared \in [Pages -> {"none", "open"} \cup Texts]
          /\ answer \in [Pages -> {"none"} \cup Texts]
          /\ pages \in [Pages -> {"missing"} \cup Texts]
        OBVIOUS
    <2>. QED  BY <2>1, <2>2, <2>3, <2>4 DEF TypeOK
<1>2. OnePlace /\ Registered /\ Delivered
    BY DEF OnePlace, Registered, Delivered
<1>3. Throttled
    BY FS_EmptySet DEF Throttled
<1>4. pagesDone <= Cardinality(Counted)
    BY PagesFinite DEF Counted
<1>5. NoneSkipped
    BY DEF NoneSkipped, Going, Coming
<1>. QED  BY <1>1, <1>2, <1>3, <1>4, <1>5 DEF PageInv

\* The invariant of a run of _process_pages holds at every await.
THEOREM PageInductive == Spec => []PageInv
<1>1. ASSUME PageInv, [Next]_vars PROVE PageInv'
    BY <1>1, TypeStep, OnePlaceStep, CountedStep, ThrottledStep, RegisteredStep,
       DeliveredStep, SkipsNoneStep DEF PageInv
<1>. QED  BY PageInit, <1>1, PTL DEF Spec

\* Every variable keeps its type; the count of finished pages never exceeds the
\* document.
THEOREM PageTypes == Spec => []TypeOK
<1>1. PageInv => TypeOK
    BY DEF PageInv
<1>. QED  BY PageInductive, <1>1, PTL

\* README.md:149: two pages with the same hash never both go to the engine.
THEOREM OneCall == Spec => []OneEngineCallPerHash
<1>1. PageInv => OneEngineCallPerHash
    BY DEF PageInv, Registered, OneEngineCallPerHash
<1>. QED  BY PageInductive, <1>1, PTL

\* gather() leaves no page task behind when _process_pages returns.
THEOREM NothingLeft == Spec => []NothingLeftBehind
<1>1. PageInv => NothingLeftBehind
    BY DEF PageInv, Throttled, NothingLeftBehind
<1>. QED  BY PageInductive, <1>1, PTL

\* A page that waited for another one with its hash ends with that one's text,
\* unless filter_degenerate() cuts it.
THEOREM DuplicatesHold == Spec => []DuplicateCarriesText
<1>1. ASSUME PageInv PROVE DuplicateCarriesText
    <2>. SUFFICES ASSUME NEW p \in Pages, NEW o \in Pages,
                         Kind[p] \in Hashes \ Degenerate, dedupe[Kind[p]] = o,
                         task[p] = "done", pages[o] # "missing"
                  PROVE  pages[p] = pages[o]
        BY DEF DuplicateCarriesText
    <2>1. Kind[o] = Kind[p]
        BY <1>1, Markers DEF PageInv, Registered
    <2>2. pages[p] # "missing"
        BY <1>1 DEF PageInv, Delivered
    <2>3. pages[o] = shared[o]
        BY <1>1, <2>1 DEF PageInv, Delivered, Filter
    <2>4. p # o => pages[p] = shared[o]
        BY <1>1, <2>2 DEF PageInv, Delivered
    <2>. QED  BY <2>3, <2>4
<1>. QED  BY PageInductive, <1>1, PTL

\* cpu_worker.py:415, the part of ArtifactsInPlace that is about the page tasks:
\* when _process_pages returns, no page was skipped on its way from the renderer,
\* and being a duplicate, blank or native cost none its result; what is missing is
\* only pages whose task was lost to an error.
THEOREM OnlyLostAreMissing == Spec => [](main = "returned" => OnlyLostMissing)
<1>1. ASSUME PageInv, main = "returned" PROVE OnlyLostMissing
    <2>1. made = NPages /\ producer = "ended" /\ queue = <<>> /\ doomed = {} /\ cur = 0
        BY <1>1 DEF PageInv, NoneSkipped, Going, Coming, Throttled
    <2>2. ASSUME NEW p \in Pages PROVE task[p] # "none"
        <3>1. p \in 1..made /\ held = Nothing /\ p # Nothing /\ p # 0
            BY <1>1, <2>1, Markers DEF PageInv, NoneSkipped, Pages
        <3>2. DOMAIN queue = {}
            BY <2>1
        <3>. QED  BY <1>1, <2>1, <3>1, <3>2 DEF PageInv, NoneSkipped, Going, Coming
    <2>3. ASSUME NEW p \in Pages PROVE task[p] \in {"done", "lost"}
        <3>1. task[p] \notin Active /\ task[p] \in {"none"} \cup Active \cup Over
            BY <1>1 DEF PageInv, TypeOK, Throttled
        <3>2. task[p] # "gone"
            BY <1>1, <2>1 DEF PageInv, NoneSkipped
        <3>. QED  BY <2>2, <3>1, <3>2 DEF Over
    <2>. QED  BY <1>1, <2>3 DEF OnlyLostMissing, Reported, Lost, PageInv, Delivered
<1>. QED  BY PageInductive, <1>1, PTL

----------------------------------------------------------------------------
(* Sorting: what Ordered() gives for a finite set and a total order on it.  *)

\* The set of pairs R is a strict total order on S.
Orders(R, S) ==
    /\ \A x \in S : <<x, x>> \notin R
    /\ \A x, y, z \in S : <<x, y>> \in R /\ <<y, z>> \in R => <<x, z>> \in R
    /\ \A x, y \in S : x # y => <<x, y>> \in R \/ <<y, x>> \in R

\* A greater element has more below it.
LEMMA RankGrows ==
    ASSUME NEW S, IsFiniteSet(S), NEW R, Orders(R, S), NEW x \in S
    PROVE  /\ Cardinality(Below(R, S, x)) \in 0..(Cardinality(S) - 1)
           /\ \A y \in S : <<x, y>> \in R =>
                 Cardinality(Below(R, S, x)) < Cardinality(Below(R, S, y))
<1>1. ASSUME NEW T, T \subseteq S, x \in T, Below(R, S, x) \subseteq T
      PROVE  /\ Cardinality(Below(R, S, x)) \in Nat /\ Cardinality(T) \in Nat
             /\ Cardinality(Below(R, S, x)) < Cardinality(T)
    <2>1. IsFiniteSet(T) /\ IsFiniteSet(Below(R, S, x))
        BY <1>1, FS_Subset
    <2>2. x \notin Below(R, S, x)
        BY DEF Below, Orders
    <2>3. /\ Cardinality(Below(R, S, x)) \in Nat /\ Cardinality(T) \in Nat
          /\ Cardinality(Below(R, S, x)) <= Cardinality(T)
        BY <1>1, <2>1, FS_Subset, FS_CardinalityType
    <2>4. Cardinality(Below(R, S, x)) # Cardinality(T)
        BY <1>1, <2>1, <2>2, FS_Subset
    <2>. QED  BY <2>3, <2>4
<1>2. Cardinality(Below(R, S, x)) \in 0..(Cardinality(S) - 1)
    <2>1. Below(R, S, x) \subseteq S
        BY DEF Below
    <2>. QED  BY <1>1, <2>1
<1>3. ASSUME NEW y \in S, <<x, y>> \in R
      PROVE  Cardinality(Below(R, S, x)) < Cardinality(Below(R, S, y))
    <2>1. /\ Below(R, S, y) \subseteq S /\ x \in Below(R, S, y)
          /\ Below(R, S, x) \subseteq Below(R, S, y)
        BY <1>3 DEF Below, Orders
    <2>. QED  BY <1>1, <2>1
<1>. QED  BY <1>2, <1>3

\* So every place is taken, by the pigeonhole principle.
LEMMA EveryRank ==
    ASSUME NEW S, IsFiniteSet(S), NEW R, Orders(R, S), NEW k \in 0..(Cardinality(S) - 1)
    PROVE  \E x \in S : Cardinality(Below(R, S, x)) = k
<1>. DEFINE n == Cardinality(S)
            rank == [x \in S |-> Cardinality(Below(R, S, x))]
<1>1. n \in Nat /\ k \in 0..(n - 1)
    BY FS_CardinalityType
<1>2. /\ rank \in [S -> 0..(n - 1)]
      /\ \A x, y \in S : <<x, y>> \in R => rank[x] < rank[y]
    BY RankGrows
<1>3. \A x \in S : rank[x] = Cardinality(Below(R, S, x))
    OBVIOUS
<1>. HIDE DEF rank, n
<1>4. IsFiniteSet(0..(n - 1)) /\ Cardinality(0..(n - 1)) = n
    BY <1>1, FS_Interval
<1>5. ASSUME NEW x \in S, NEW y \in S, rank[x] = rank[y] PROVE x = y
    <2>1. \A i \in 0..(n - 1) : ~ (i < i)
        OBVIOUS
    <2>2. <<x, y>> \notin R /\ <<y, x>> \notin R
        BY <1>2, <1>5, <2>1
    <2>. QED  BY <2>2 DEF Orders
<1>6. rank \in Injection(S, 0..(n - 1))
    BY <1>2, <1>5 DEF Injection, IsInjective
<1>7. rank \in Surjection(S, 0..(n - 1))
    BY <1>4, <1>6, FS_Injection DEF n
<1>8. PICK x \in S : rank[x] = k
    BY <1>1, <1>7 DEF Surjection
<1>. QED  BY <1>3, <1>8

\* s lists the elements of S, each once, in the order R.
Enumerates(s, S, R) ==
    /\ s \in [1..Cardinality(S) -> S]
    /\ \A k, m \in 1..Cardinality(S) : k < m => <<s[k], s[m]>> \in R
    /\ \A x \in S : \E k \in 1..Cardinality(S) : s[k] = x

LEMMA Enumeration ==
    ASSUME NEW S, IsFiniteSet(S), NEW R, Orders(R, S),
           NEW s \in [1..Cardinality(S) -> S],
           \A k \in 1..Cardinality(S) : Cardinality(Below(R, S, s[k])) = k - 1
    PROVE  Enumerates(s, S, R)
<1>1. Cardinality(S) \in Nat
    BY FS_CardinalityType
<1>2. ASSUME NEW k \in 1..Cardinality(S), NEW m \in 1..Cardinality(S), k < m
      PROVE  <<s[k], s[m]>> \in R
    <2>1. s[k] \in S /\ s[m] \in S
        OBVIOUS
    <2>2. Cardinality(Below(R, S, s[k])) = k - 1 /\ Cardinality(Below(R, S, s[m])) = m - 1
        OBVIOUS
    <2>3. s[k] # s[m]
        BY <1>1, <1>2, <2>2
    <2>4. <<s[m], s[k]>> \in R => m - 1 < k - 1
        BY <2>1, <2>2, RankGrows
    <2>. QED  BY <1>1, <1>2, <2>1, <2>3, <2>4 DEF Orders
<1>3. ASSUME NEW x \in S PROVE \E k \in 1..Cardinality(S) : s[k] = x
    <2>. DEFINE n == Cardinality(S)
                h == Cardinality(Below(R, S, x))
    <2>1. h \in 0..(n - 1) /\ n \in Nat
        BY <1>1, RankGrows
    <2>2. h + 1 \in 1..n /\ (h + 1) - 1 = h
        <3>. HIDE DEF n, h
        <3>. QED  BY <2>1
    <2>3. s[h + 1] \in S /\ Cardinality(Below(R, S, s[h + 1])) = h
        BY <2>2
    <2>4. ~ (h < h)
        <3>. HIDE DEF n, h
        <3>. QED  BY <2>1
    <2>5. <<s[h + 1], x>> \notin R /\ <<x, s[h + 1]>> \notin R
        BY <2>3, <2>4, RankGrows
    <2>6. s[h + 1] = x
        BY <2>3, <2>5 DEF Orders
    <2>. QED  BY <2>2, <2>6
<1>. QED  BY <1>2, <1>3 DEF Enumerates

\* That is what Ordered() does.
LEMMA OrderedEnumerates ==
    ASSUME NEW S, IsFiniteSet(S), NEW R, Orders(R, S)
    PROVE  Enumerates(Ordered(S, R), S, R)
<1>1. ASSUME NEW k \in 1..Cardinality(S)
      PROVE  \E x \in S : Cardinality(Below(R, S, x)) = k - 1
    <2>1. k - 1 \in 0..(Cardinality(S) - 1)
        BY FS_CardinalityType
    <2>. QED  BY <2>1, EveryRank
<1>2. Ordered(S, R) \in [1..Cardinality(S) -> S]
    BY <1>1 DEF Ordered
<1>3. \A k \in 1..Cardinality(S) : Cardinality(Below(R, S, Ordered(S, R)[k])) = k - 1
    BY <1>1 DEF Ordered
<1>. QED  BY <1>2, <1>3, Enumeration

\* Kept() leaves out the other positions and keeps the order.
LEMMA KeptPositions ==
    ASSUME NEW S, IsFiniteSet(S), S \subseteq Int
    PROVE  Enumerates(Ordered(S, Ascending(S)), S, Ascending(S))
<1>1. Orders(Ascending(S), S)
    BY DEF Orders, Ascending
<1>2. ASSUME NEW K, IsFiniteSet(K), Orders(Ascending(K), K)
      PROVE  Enumerates(Ordered(K, Ascending(K)), K, Ascending(K))
    BY <1>2, OrderedEnumerates
<1>. QED  BY <1>1, <1>2

----------------------------------------------------------------------------
(* The list and what is made of it.                                         *)

\* There are n numbers up to n.
LEMMA UpTo ==
    ASSUME NEW n \in Nat
    PROVE  IsFiniteSet(1..n) /\ Cardinality(1..n) = n
<1>1. n \in Int /\ 1 \in Int
    OBVIOUS
<1>. QED  BY <1>1, FS_Interval

\* The pages of the list in the order of the document.
Increasing(s) == \A i, j \in DOMAIN s : i < j => s[i] < s[j]

\* A list of results has each page that is in it once.
LEMMA ListShape ==
    ASSUME NEW list \in SetToAllKPermutations(Pages)
    PROVE  \E n \in Nat :
              /\ list \in [1..n -> Pages]
              /\ \A i, j \in 1..n : i # j => list[i] # list[j]
<1>1. PICK S \in SUBSET Pages : list \in SetToSeqs(S)
    BY DEF SetToAllKPermutations
<1>2. Cardinality(S) \in Nat
    BY PagesFinite, FS_Subset, FS_CardinalityType
<1>3. /\ list \in [1..Cardinality(S) -> S]
      /\ \A i, j \in 1..Cardinality(S) : i # j => list[i] # list[j]
    BY <1>1 DEF SetToSeqs
<1>. QED  BY <1>1, <1>2, <1>3

\* pages.sort() puts the pages of the list in their order.
LEMMA SortedList ==
    ASSUME NEW list \in SetToAllKPermutations(Pages)
    PROVE  /\ Sorted(list) \in [1..Cardinality(ToSet(list)) -> ToSet(list)]
           /\ Increasing(Sorted(list))
           /\ \A p \in ToSet(list) : \E k \in DOMAIN Sorted(list) : Sorted(list)[k] = p
           /\ ToSet(list) \subseteq Pages
<1>1. PICK n \in Nat : /\ list \in [1..n -> Pages]
                       /\ \A i, j \in 1..n : i # j => list[i] # list[j]
    BY ListShape
<1>. DEFINE T == ToSet(list)
            R == {p \in (1..n) \X (1..n) : \/ list[p[1]] < list[p[2]]
                                           \/ list[p[1]] = list[p[2]] /\ p[1] < p[2]}
            at == Ordered(1..n, R)
<1>2. DOMAIN list = 1..n /\ T \subseteq Pages /\ \A i \in 1..n : list[i] \in T
    BY <1>1 DEF ToSet
<1>3. Sorted(list) = Picked(list, at)
    BY <1>2 DEF Sorted
<1>4. \A i, j \in 1..n : <<i, j>> \in R <=> \/ list[i] < list[j]
                                            \/ list[i] = list[j] /\ i < j
    OBVIOUS
<1>5. \A i \in 1..n : list[i] \in Int
    BY <1>1 DEF Pages
<1>. HIDE DEF R, at, T
<1>6. Orders(R, 1..n)
    <2>1. \A i \in 1..n : <<i, i>> \notin R
        BY <1>4, <1>5
    <2>2. \A i, j, k \in 1..n : <<i, j>> \in R /\ <<j, k>> \in R => <<i, k>> \in R
        BY <1>4, <1>5
    <2>3. \A i, j \in 1..n : i # j => <<i, j>> \in R \/ <<j, i>> \in R
        BY <1>4, <1>5
    <2>. QED  BY <2>1, <2>2, <2>3 DEF Orders
<1>7. IsFiniteSet(1..n) /\ Cardinality(1..n) = n
    BY UpTo
<1>8. Enumerates(at, 1..n, R)
    BY <1>6, <1>7, OrderedEnumerates DEF at
<1>9. /\ at \in [1..n -> 1..n]
      /\ \A k, m \in 1..n : k < m => <<at[k], at[m]>> \in R
      /\ \A i \in 1..n : \E k \in 1..n : at[k] = i
    BY <1>7, <1>8 DEF Enumerates
<1>10. Cardinality(T) = n
    <2>1. list \in [1..n -> T] /\ \A t \in T : \E i \in 1..n : list[i] = t
        BY <1>1, <1>2 DEF T, ToSet
    <2>2. list \in Injection(1..n, T) /\ list \in Surjection(1..n, T)
        BY <1>1, <2>1 DEF Injection, IsInjective, Surjection
    <2>. QED  BY <1>7, <2>2, FS_Surjection
<1>11. /\ Sorted(list) = [k \in 1..n |-> list[at[k]]]
       /\ Sorted(list) \in [1..n -> T]
    BY <1>2, <1>3, <1>9 DEF Picked
<1>12. ASSUME NEW k \in 1..n, NEW m \in 1..n, k < m
       PROVE  Sorted(list)[k] < Sorted(list)[m]
    <2>1. at[k] \in 1..n /\ at[m] \in 1..n /\ <<at[k], at[m]>> \in R
        BY <1>9, <1>12
    <2>2. \/ list[at[k]] < list[at[m]]
          \/ list[at[k]] = list[at[m]] /\ at[k] < at[m]
        BY <1>4, <2>1
    <2>3. list[at[k]] < list[at[m]]
        BY <1>1, <2>1, <2>2
    <2>. QED  BY <1>11, <2>3
<1>13. ASSUME NEW p \in T PROVE \E k \in 1..n : Sorted(list)[k] = p
    <2>1. PICK i \in 1..n : list[i] = p
        BY <1>2, <1>13 DEF T, ToSet
    <2>2. PICK k \in 1..n : at[k] = i
        BY <1>9
    <2>. QED  BY <1>11, <2>1, <2>2
<1>14. DOMAIN Sorted(list) = 1..n
    BY <1>11
<1>. QED  BY <1>2, <1>10, <1>11, <1>12, <1>13, <1>14 DEF Increasing, T

\* What is kept of an increasing list is increasing, and there is nothing else in it.
LEMMA KeptIncreasing ==
    ASSUME NEW n \in Nat, NEW list \in [1..n -> Pages], Increasing(list),
           NEW K \in SUBSET (1..n)
    PROVE  /\ Increasing(Kept(list, K))
           /\ ToSet(Kept(list, K)) = {list[i] : i \in K}
<1>. DEFINE at == Ordered(K, Ascending(K))
            c == Cardinality(K)
<1>1. IsFiniteSet(K) /\ K \subseteq Int /\ c \in Nat
    <2>1. IsFiniteSet(K)
        BY UpTo, FS_Subset
    <2>. QED  BY <2>1, FS_CardinalityType
<1>2. Enumerates(at, K, Ascending(K))
    BY <1>1, KeptPositions
<1>3. /\ at \in [1..c -> K]
      /\ \A k, m \in 1..c : k < m => at[k] < at[m]
      /\ \A i \in K : \E k \in 1..c : at[k] = i
    BY <1>2 DEF Enumerates, Ascending
<1>4. Kept(list, K) = [k \in DOMAIN at |-> list[at[k]]]
    BY DEF Kept, Picked
<1>. HIDE DEF at, c
<1>5. Kept(list, K) = [k \in 1..c |-> list[at[k]]]
    BY <1>3, <1>4
<1>6. \A k \in 1..c : at[k] \in K /\ at[k] \in 1..n
    BY <1>3
<1>7. Increasing(Kept(list, K))
    <2>. SUFFICES ASSUME NEW k \in 1..c, NEW m \in 1..c, k < m
                  PROVE  list[at[k]] < list[at[m]]
        BY <1>5 DEF Increasing
    <2>1. at[k] < at[m] /\ at[k] \in 1..n /\ at[m] \in 1..n
        BY <1>3, <1>6
    <2>. QED  BY <2>1 DEF Increasing
<1>8. ToSet(Kept(list, K)) = {list[at[k]] : k \in 1..c}
    BY <1>5 DEF ToSet
<1>. QED  BY <1>3, <1>6, <1>7, <1>8

\* A page below which none is missing is at its own position.
LEMMA OwnPosition ==
    ASSUME NEW n \in Nat, NEW list \in [1..n -> Pages], Increasing(list),
           NEW p \in Pages, \A q \in 1..p : \E k \in 1..n : list[k] = q
    PROVE  p \in 1..n /\ list[p] = p
<1>1. p \in Nat \ {0} /\ p \in 1..p
    BY DEF Pages
<1>2. PICK k \in 1..n : list[k] = p
    BY <1>1
<1>. DEFINE below == [i \in 1..(k - 1) |-> list[i]]
<1>3. \A i \in 1..n : list[i] \in Nat \ {0}
    BY DEF Pages
<1>4. \A i, j \in 1..n : i < j => list[i] < list[j]
    BY DEF Increasing
<1>5. \A i \in 1..(k - 1) : i \in 1..n /\ i < k
    OBVIOUS
<1>6. below \in [1..(k - 1) -> 1..(p - 1)]
    <2>1. ASSUME NEW i \in 1..(k - 1) PROVE list[i] \in 1..(p - 1)
        BY <1>1, <1>2, <1>3, <1>4, <1>5
    <2>. QED  BY <2>1
<1>7. below \in Injection(1..(k - 1), 1..(p - 1))
    <2>1. ASSUME NEW i \in 1..(k - 1), NEW j \in 1..(k - 1), list[i] = list[j] PROVE i = j
        <3>1. i \in 1..n /\ j \in 1..n /\ list[i] \in Nat
            BY <1>3, <1>5
        <3>2. ~ (i < j) /\ ~ (j < i)
            BY <1>4, <2>1, <3>1
        <3>. QED  BY <3>2
    <2>. QED  BY <1>6, <2>1 DEF Injection, IsInjective
<1>8. below \in Surjection(1..(k - 1), 1..(p - 1))
    <2>1. ASSUME NEW q \in 1..(p - 1) PROVE \E i \in 1..(k - 1) : below[i] = q
        <3>1. q \in 1..p /\ q < p
            BY <1>1
        <3>2. PICK i \in 1..n : list[i] = q
            BY <3>1
        <3>3. ~ (k < i) /\ k # i
            BY <1>1, <1>2, <1>4, <3>1, <3>2
        <3>4. i \in 1..(k - 1)
            BY <3>3
        <3>. QED  BY <3>2, <3>4
    <2>. QED  BY <1>6, <2>1 DEF Surjection
<1>9. /\ IsFiniteSet(1..(k - 1)) /\ Cardinality(1..(k - 1)) = k - 1
      /\ IsFiniteSet(1..(p - 1)) /\ Cardinality(1..(p - 1)) = p - 1
    <2>1. k - 1 \in Nat /\ p - 1 \in Nat
        BY <1>1
    <2>. QED  BY <2>1, UpTo
<1>. HIDE DEF below
<1>10. k - 1 = p - 1
    BY <1>7, <1>8, <1>9, FS_Injection
<1>. QED  BY <1>1, <1>2, <1>10

----------------------------------------------------------------------------
\* Whatever the order in which the pages end: every page that is missing was lost to
\* an error, the full text has each text once and in the order of the pages, and up
\* to the first missing page every text is in its own place.
THEOREM InPlace == Spec => []ArtifactsInPlace
<1>1. ASSUME PageInv, NEW l \in Lists, l.of = Reported
      PROVE  LET list == l.sorted
                 full == Merged(list)
             IN  /\ ToSet(full) = {p \in Reported : HasText(p)}
                 /\ \A i, j \in DOMAIN full : i < j => full[i] < full[j]
                 /\ \A p \in Reported :
                       HasText(p) /\ (\A q \in Pages \ Reported : p < q) =>
                           /\ [anchor |-> p, text |-> p] \in Markdown(list)
                           /\ Layers(list)[p] = p
    <2>. DEFINE list == l.sorted
                n == Cardinality(Reported)
                K == {i \in DOMAIN list : HasText(list[i])}
    <2>1. PICK ended \in SetToAllKPermutations(Pages) :
              ToSet(ended) = Reported /\ list = Sorted(ended)
        BY <1>1 DEF Lists
    <2>2. /\ list \in [1..n -> Reported] /\ Increasing(list)
          /\ \A p \in Reported : \E k \in 1..n : list[k] = p
        <3>1. /\ Sorted(ended) \in [1..Cardinality(ToSet(ended)) -> ToSet(ended)]
              /\ Increasing(Sorted(ended))
              /\ \A p \in ToSet(ended) : \E k \in DOMAIN Sorted(ended) : Sorted(ended)[k] = p
            BY SortedList
        <3>2. /\ Sorted(ended) \in [1..n -> Reported] /\ Increasing(Sorted(ended))
              /\ \A p \in Reported : \E k \in DOMAIN Sorted(ended) : Sorted(ended)[k] = p
            BY <2>1, <3>1
        <3>3. DOMAIN Sorted(ended) = 1..n
            BY <3>2
        <3>. QED  BY <2>1, <3>2, <3>3
    <2>3. n \in Nat /\ Reported \subseteq Pages
        <3>1. Reported \subseteq Pages
            BY DEF Reported
        <3>. QED  BY <3>1, PagesFinite, FS_Subset, FS_CardinalityType
    <2>. HIDE DEF n, list
    <2>4. list \in [1..n -> Pages] /\ DOMAIN list = 1..n
        BY <2>2, <2>3
    <2>5. Merged(list) = Kept(list, K) /\ K \in SUBSET (1..n)
        BY <2>4 DEF Merged
    <2>. HIDE DEF K
    <2>6. Increasing(Merged(list)) /\ ToSet(Merged(list)) = {list[i] : i \in K}
        BY <2>3, <2>4, <2>2, <2>5, KeptIncreasing
    <2>7. {list[i] : i \in K} = {p \in Reported : HasText(p)}
        BY <2>2, <2>4 DEF K
    <2>8. ASSUME NEW p \in Reported, HasText(p), \A q \in Pages \ Reported : p < q
          PROVE  /\ [anchor |-> p, text |-> p] \in Markdown(list)
                 /\ Layers(list)[p] = p
        <3>1. \A q \in 1..p : q \in Reported
            <4>1. p \in 1..NPages /\ NPages \in Nat
                BY <2>3, <2>8, PagesAssumption DEF Pages
            <4>2. \A q \in 1..p : q \in 1..NPages /\ ~ (p < q)
                BY <4>1
            <4>. QED  BY <2>8, <4>2 DEF Pages
        <3>2. p \in 1..n /\ list[p] = p
            BY <2>2, <2>3, <2>4, <3>1, OwnPosition
        <3>3. p \in DOMAIN list /\ HasText(list[p])
            BY <2>4, <2>8, <3>2
        <3>4. [anchor |-> p, text |-> p] \in Markdown(list)
            BY <3>2, <3>3 DEF Markdown
        <3>5. p \in Pages /\ Len(list) = n /\ p <= n
            BY <2>3, <2>4, <3>2
        <3>6. Layers(list)[p] = p
            BY <3>2, <3>3, <3>5 DEF Layers
        <3>. QED  BY <3>4, <3>6
    <2>. QED  BY <2>6, <2>7, <2>8 DEF list, Increasing
<1>2. ASSUME PageInv, main = "returned" => OnlyLostMissing PROVE ArtifactsInPlace
    BY <1>1, <1>2 DEF ArtifactsInPlace
<1>. QED  BY PageInductive, OnlyLostAreMissing, <1>2, PTL

\* However fast the renderer is: the queue, the page it is putting, the page just
\* taken and one task more than the throttle allows.
THEOREM MemoryBounded == Spec => []ResidentBounded
<1>1. ASSUME PageInv PROVE ResidentBounded
    <2>. DEFINE waiting == {i \in 1..Len(queue) : queue[i] \in Pages}
    <2>1. Len(queue) \in Nat /\ Len(queue) <= QueueCap /\ QueueCap \in Nat
        BY <1>1, PagesAssumption DEF PageInv, TypeOK, QueueCap
    <2>2. Cardinality(waiting) \in Nat /\ Cardinality(waiting) <= Len(queue)
        <3>1. \A n \in Nat : IsFiniteSet(1..n) /\ Cardinality(1..n) = n
            <4>. TAKE n \in Nat
            <4>1. n \in Int /\ 1 \in Int
                OBVIOUS
            <4>2. /\ IsFiniteSet(1..n)
                  /\ Cardinality(1..n) = IF 1 > n THEN 0 ELSE n - 1 + 1
                BY <4>1, FS_Interval
            <4>. QED  BY <4>2
        <3>2. waiting \subseteq 1..Len(queue)
            OBVIOUS
        <3>3. /\ IsFiniteSet(1..Len(queue))
              /\ Cardinality(1..Len(queue)) = Len(queue)
            BY <2>1, <3>1
        <3>. HIDE DEF waiting
        <3>4. IsFiniteSet(waiting) /\ Cardinality(waiting) <= Cardinality(1..Len(queue))
            BY <3>2, <3>3, FS_Subset
        <3>5. Cardinality(waiting) \in Nat
            BY <3>4, FS_CardinalityType
        <3>. QED  BY <3>3, <3>4, <3>5
    <2>3. /\ Cardinality(live) \in Nat
          /\ Cardinality(live) + (IF cur # 0 THEN 1 ELSE 0) <= PageConcurrency + Prefetch + 1
        BY <1>1, PagesFinite, PagesAssumption DEF PageInv, TypeOK, Throttled
    <2>. QED  BY <2>1, <2>2, <2>3, PagesAssumption DEF ResidentBounded, Resident
<1>. QED  BY PageInductive, <1>1, PTL
=============================================================================
