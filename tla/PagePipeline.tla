---------------------------- MODULE PagePipeline ----------------------------
(***************************************************************************)
(* One run of Worker._process_pages (workers/cpu_worker.py): a thread      *)
(* renders pages into a bounded queue (aiter_pages), the main coroutine    *)
(* takes them out and starts one task per page, and the tasks share a      *)
(* semaphore and a table of futures through which a duplicate page waits   *)
(* for the text of the page it repeats.                                    *)
(*                                                                         *)
(* A step ends where the code awaits.  What the engine answers for a page  *)
(* is "raw" text, or a "gap" when a region failed and left an error.       *)
(***************************************************************************)
EXTENDS Integers, Sequences, FiniteSets, SequencesExt, Ordering

CONSTANTS NPages,           \* pages of the document
          Kind,             \* Kind[p]: "native", "blank" or the page's hash
          Degenerate,       \* hashes whose text filter_degenerate() cuts
          PageConcurrency,  \* settings.page_concurrency
          Prefetch,         \* settings.worker_prefetch
          MayCancel,        \* the client may set the cancel flag
          MaxFaults         \* bound: Redis or image errors in this run

Pages    == 1..NPages

\* Items of the queue other than pages: none, the renderer's exception and the
\* end marker `done`.
Nothing  == 0
Exc      == -1
Done     == -2

Plain    == {"native", "blank"}
Hashes   == {Kind[p] : p \in Pages} \ Plain
QueueCap == IF Prefetch > 1 THEN Prefetch ELSE 1

ASSUME PagesAssumption ==
    /\ NPages \in Nat
    /\ DOMAIN Kind = Pages
    /\ PageConcurrency \in Nat \ {0}
    /\ Prefetch \in Nat
    /\ MaxFaults \in Nat
    /\ MayCancel \in BOOLEAN

VARIABLES
    made,       \* pages the thread has rendered
    held,       \* the item it is putting (a page number, or see below)
    producer,   \* "running" or "ended"
    queue,      \* aiter_pages' asyncio.Queue
    main,       \* where _process_pages is
    cur,        \* the page it has just taken from the queue (0: none)
    task,       \* task[p]: where handle(p) is
    live,       \* the set `tasks` (a finished task is discarded)
    watched,    \* the tasks gather() was given
    doomed,     \* tasks that task.cancel() was called on
    dedupe,     \* dedupe[h]: the page registered for hash h (0: none)
    shared,     \* shared[p]: p's future: "none", "open" or its text
    answer,     \* answer[p]: what the engine returned for p
    pages,      \* pages[p]: the text in p's PageResult ("missing": none)
    pagesDone,  \* the counter in the job hash
    cancelFlag, \* the client asked for cancellation
    faults      \* errors so far

vars == <<made, held, producer, queue, main, cur, task, live, watched, doomed,
          dedupe, shared, answer, pages, pagesDone, cancelFlag, faults>>
render  == <<made, held, producer, queue>>
control == <<main, cur, live, watched, doomed>>
results == <<dedupe, shared, answer, pages, pagesDone>>

Texts  == {"native", "", "raw", "cut", "gap"}
InSem  == {"prep", "wait", "announce", "ocr", "flush", "flushExc"}
Active == InSem \cup {"sem", "count", "report"}
Over   == {"done", "lost", "gone"}

TypeOK ==
    /\ made \in 0..NPages
    /\ held \in {Nothing, Exc, Done} \cup Pages
    /\ producer \in {"running", "ended"}
    /\ queue \in Seq({Exc, Done} \cup Pages) /\ Len(queue) <= QueueCap
    /\ main \in {"get", "check", "throttle", "closing", "raising", "gather",
                 "cancelling", "returned", "failed", "cancelled"}
    /\ cur \in 0..NPages
    /\ task \in [Pages -> {"none"} \cup Active \cup Over]
    /\ live = {p \in Pages : task[p] \in Active}
    /\ watched \subseteq Pages
    /\ doomed \subseteq Pages
    /\ dedupe \in [Hashes -> 0..NPages]
    /\ shared \in [Pages -> {"none", "open"} \cup Texts]
    /\ answer \in [Pages -> {"none"} \cup Texts]
    /\ pages \in [Pages -> {"missing"} \cup Texts]
    /\ pagesDone \in 0..NPages
    /\ cancelFlag \in BOOLEAN
    /\ faults \in 0..MaxFaults

Init ==
    /\ made = 0 /\ held = Nothing /\ producer = "running" /\ queue = <<>>
    /\ main = "get" /\ cur = 0
    /\ task = [p \in Pages |-> "none"]
    /\ live = {} /\ watched = {} /\ doomed = {}
    /\ dedupe = [h \in Hashes |-> 0]
    /\ shared = [p \in Pages |-> "none"]
    /\ answer = [p \in Pages |-> "none"]
    /\ pages = [p \in Pages |-> "missing"]
    /\ pagesDone = 0
    /\ cancelFlag = FALSE
    /\ faults = 0

Fault ==
    /\ faults < MaxFaults
    /\ faults' = faults + 1

----------------------------------------------------------------------------
(* The client and the rendering thread *)

RequestCancel ==
    /\ MayCancel /\ ~cancelFlag
    /\ cancelFlag' = TRUE
    /\ UNCHANGED <<render, control, task, results, faults>>

\* Document.iter_pages() yields the next page, ...
Render ==
    /\ producer = "running" /\ held = Nothing
    /\ IF made < NPages THEN made' = made + 1 /\ held' = made + 1
                        ELSE UNCHANGED made /\ held' = Done
    /\ UNCHANGED <<producer, queue, control, task, results, cancelFlag, faults>>

\* ... or raises; the exception travels through the queue.
RenderFault ==
    /\ producer = "running" /\ held = Nothing /\ made < NPages
    /\ Fault
    /\ held' = Exc
    /\ UNCHANGED <<made, producer, queue, control, task, results, cancelFlag>>

\* Mutant: an unbounded queue.
PutUnbounded ==
    /\ held # Nothing
    /\ queue' = Append(queue, held)
    /\ held' = IF held = Exc THEN Done ELSE Nothing
    /\ producer' = IF held = Done THEN "ended" ELSE producer
    /\ UNCHANGED <<made, control, task, results, cancelFlag, faults>>

\* run_coroutine_threadsafe(queue.put(...)).result(): blocks while it is full.
Put ==
    /\ held # Nothing
    /\ Len(queue) < QueueCap
    /\ queue' = Append(queue, held)
    /\ held' = IF held = Exc THEN Done ELSE Nothing
    /\ producer' = IF held = Done THEN "ended" ELSE producer
    /\ UNCHANGED <<made, control, task, results, cancelFlag, faults>>

----------------------------------------------------------------------------
(* The main coroutine *)

Get ==
    /\ main = "get" /\ queue # <<>>
    /\ queue' = Tail(queue)
    /\ LET item == Head(queue) IN
       \/ item = Done /\ main' = "closing" /\ cur' = 0
       \/ item = Exc /\ main' = "raising" /\ cur' = 0
       \/ item \in Pages /\ main' = "check" /\ cur' = item
    /\ UNCHANGED <<made, held, producer, live, watched, doomed, task, results,
                   cancelFlag, faults>>

\* Mutant: return without gathering what is still running.
CloseWithoutGather ==
    /\ main \in {"closing", "raising"}
    /\ producer = "ended"
    /\ main' = IF main = "closing" THEN "returned" ELSE "failed"
    /\ UNCHANGED <<render, cur, live, watched, doomed, task, results,
                   cancelFlag, faults>>

\* The generator's `finally` awaits the thread, then the loop is over: either
\* everything still running is gathered or the renderer's error propagates.
Close ==
    /\ main \in {"closing", "raising"}
    /\ producer = "ended"
    /\ main' = IF main = "closing" THEN "gather" ELSE "failed"
    /\ watched' = IF main = "closing" THEN live ELSE {}
    /\ UNCHANGED <<render, cur, live, doomed, task, results, cancelFlag, faults>>

\* Mutant: the throttle is missing.
SpawnUnthrottled ==
    /\ main = "check" /\ ~cancelFlag
    /\ task' = [task EXCEPT ![cur] = "sem"]
    /\ live' = live \cup {cur}
    /\ cur' = 0
    /\ main' = "get"
    /\ UNCHANGED <<render, watched, doomed, results, cancelFlag, faults>>

\* No cancel flag: start handle(cur), and take no further page while too many
\* are under way.
Spawn ==
    /\ main = "check" /\ ~cancelFlag
    /\ task' = [task EXCEPT ![cur] = "sem"]
    /\ live' = live \cup {cur}
    /\ cur' = 0
    /\ main' = IF Cardinality(live') > PageConcurrency + Prefetch
               THEN "throttle" ELSE "get"
    /\ UNCHANGED <<render, watched, doomed, results, cancelFlag, faults>>

Throttle ==
    /\ main = "throttle"
    /\ Cardinality(live) <= PageConcurrency + Prefetch
    /\ main' = "get"
    /\ UNCHANGED <<render, cur, live, watched, doomed, task, results,
                   cancelFlag, faults>>

\* The flag is up: JobCancelled.  Every task is told to stop, none is awaited,
\* and the generator is left alone with its thread.
SeeCancel ==
    /\ main = "check" /\ cancelFlag
    /\ main' = "cancelling"
    /\ cur' = 0
    /\ doomed' = live
    /\ UNCHANGED <<render, live, watched, task, results, cancelFlag, faults>>

\* _mark_cancelled() returns; JobCancelled propagates.
MarkCancelled ==
    /\ main = "cancelling"
    /\ main' = "cancelled"
    /\ UNCHANGED <<render, cur, live, watched, doomed, task, results,
                   cancelFlag, faults>>

\* A Redis error in is_cancelled() or _mark_cancelled().
MainFault ==
    /\ main \in {"check", "cancelling"}
    /\ Fault
    /\ main' = "failed"
    /\ cur' = 0
    /\ UNCHANGED <<render, live, watched, doomed, task, results, cancelFlag>>

\* gather(return_exceptions=True): wait for all, then raise the first error.
Gather ==
    /\ main = "gather"
    /\ \A p \in watched : task[p] \in Over
    /\ main' = IF \E p \in watched : task[p] = "lost" THEN "failed" ELSE "returned"
    /\ UNCHANGED <<render, cur, live, watched, doomed, task, results,
                   cancelFlag, faults>>

----------------------------------------------------------------------------
(* handle(p) and _process_page(p) *)

Step(p, pc) ==
    /\ task' = [task EXCEPT ![p] = pc]
    /\ live' = IF pc \in Over THEN live \ {p} ELSE live

\* The PageResult is built, the permit released and the result appended.
Deliver(p, text) == pages' = [pages EXCEPT ![p] = text]

Acquire(p) ==
    /\ task[p] = "sem"
    /\ Cardinality({o \in Pages : task[o] \in InSem}) < PageConcurrency
    /\ Step(p, "prep")
    /\ UNCHANGED <<render, main, cur, watched, doomed, results, cancelFlag, faults>>

\* Mutant: a new hash is not registered.
ClassifyUnregistered(p) ==
    /\ task[p] = "prep"
    /\ IF Kind[p] \in Plain
       THEN Deliver(p, "native") /\ Step(p, "count")
       ELSE UNCHANGED pages /\ Step(p, "announce")
    /\ UNCHANGED <<render, main, cur, watched, doomed, dedupe, shared, answer,
                   pagesDone, cancelFlag, faults>>

\* Native pages publish PAGE_STARTED and are done; the others are decoded and
\* prepared on a thread.  Between the lookup in dedupe and the registration
\* of a new future there is no await.
Classify(p) ==
    LET k == Kind[p] IN
    /\ task[p] = "prep"
    /\ \/ /\ k \in Plain
          /\ Deliver(p, IF k = "native" THEN "native" ELSE "")
          /\ Step(p, "count")
          /\ UNCHANGED <<dedupe, shared>>
       \/ /\ k \in Hashes /\ dedupe[k] # 0
          /\ Step(p, "wait")
          /\ UNCHANGED <<dedupe, shared, pages>>
       \/ /\ k \in Hashes /\ dedupe[k] = 0
          /\ dedupe' = [dedupe EXCEPT ![k] = p]
          /\ shared' = [shared EXCEPT ![p] = "open"]
          /\ Step(p, "announce")
          /\ UNCHANGED pages
    /\ UNCHANGED <<render, main, cur, watched, doomed, answer, pagesDone,
                   cancelFlag, faults>>

\* `text = await original`
Copy(p) ==
    /\ task[p] = "wait"
    /\ shared[dedupe[Kind[p]]] \in Texts
    /\ Deliver(p, shared[dedupe[Kind[p]]])
    /\ Step(p, "count")
    /\ UNCHANGED <<render, main, cur, watched, doomed, dedupe, shared, answer,
                   pagesDone, cancelFlag, faults>>

\* PAGE_STARTED is published.
Announce(p) ==
    /\ task[p] = "announce"
    /\ Step(p, "ocr")
    /\ UNCHANGED <<render, main, cur, watched, doomed, results, cancelFlag, faults>>

\* The regions have been recognised; an engine error is not an exception.
Ocr(p) ==
    /\ task[p] = "ocr"
    /\ \E text \in {"raw", "gap"} : answer' = [answer EXCEPT ![p] = text]
    /\ Step(p, "flush")
    /\ UNCHANGED <<render, main, cur, watched, doomed, dedupe, shared, pages,
                   pagesDone, cancelFlag, faults>>

\* filter_degenerate() on the stitched text.
Filter(h, text) == IF h \in Degenerate /\ text = "raw" THEN "cut" ELSE text

\* Mutant: the future is resolved without the text.
FlushEmpty(p) ==
    /\ task[p] = "flush"
    /\ shared' = [shared EXCEPT ![p] = ""]
    /\ Deliver(p, Filter(Kind[p], answer[p]))
    /\ Step(p, "count")
    /\ UNCHANGED <<render, main, cur, watched, doomed, dedupe, answer,
                   pagesDone, cancelFlag, faults>>

\* Mutant: the future is never resolved.
FlushUnresolved(p) ==
    /\ task[p] = "flush"
    /\ Deliver(p, Filter(Kind[p], answer[p]))
    /\ Step(p, "count")
    /\ UNCHANGED <<render, main, cur, watched, doomed, dedupe, shared, answer,
                   pagesDone, cancelFlag, faults>>

\* relay.flush() in `finally`, then the future is resolved with the stitched
\* text and the page's own result is filtered.
Flush(p) ==
    /\ task[p] = "flush"
    /\ shared' = [shared EXCEPT ![p] = answer[p]]
    /\ Deliver(p, Filter(Kind[p], answer[p]))
    /\ Step(p, "count")
    /\ UNCHANGED <<render, main, cur, watched, doomed, dedupe, answer,
                   pagesDone, cancelFlag, faults>>

\* The same `finally` with an exception on its way: the future gets what there
\* is, the task ends.
FlushRaising(p) ==
    /\ task[p] = "flushExc"
    /\ shared' = [shared EXCEPT ![p] = "gap"]
    /\ Step(p, IF p \in doomed THEN "gone" ELSE "lost")
    /\ UNCHANGED <<render, main, cur, watched, doomed, dedupe, answer, pages,
                   pagesDone, cancelFlag, faults>>

Count(p) ==
    /\ task[p] = "count"
    /\ pagesDone' = pagesDone + 1
    /\ Step(p, "report")
    /\ UNCHANGED <<render, main, cur, watched, doomed, dedupe, shared, answer,
                   pages, cancelFlag, faults>>

\* PAGE_COMPLETE and PROGRESS are published.
Report(p) ==
    /\ task[p] = "report"
    /\ Step(p, "done")
    /\ UNCHANGED <<render, main, cur, watched, doomed, results, cancelFlag, faults>>

\* An image or Redis error.  While the regions run it unwinds through the
\* `finally`; everywhere else the task ends at once.
PageFault(p) ==
    /\ task[p] \in {"prep", "announce", "ocr", "flush", "flushExc", "count", "report"}
    /\ Fault
    /\ Step(p, IF task[p] = "ocr" THEN "flushExc" ELSE "lost")
    /\ UNCHANGED <<render, main, cur, watched, doomed, results, cancelFlag>>

\* CancelledError is raised at the task's await.
Cancelled(p) ==
    /\ p \in doomed /\ task[p] \in Active \ {"flushExc"}
    /\ Step(p, IF task[p] = "ocr" THEN "flushExc" ELSE "gone")
    /\ UNCHANGED <<render, main, cur, watched, doomed, results, cancelFlag, faults>>

----------------------------------------------------------------------------
MainStep == \/ Get \/ Close \/ Spawn \/ Throttle \/ SeeCancel \/ MarkCancelled
            \/ Gather

PageStep(p) ==
    \/ Acquire(p) \/ Classify(p) \/ Copy(p) \/ Announce(p) \/ Ocr(p)
    \/ Flush(p) \/ FlushRaising(p) \/ Count(p) \/ Report(p)

Next ==
    \/ RequestCancel \/ Render \/ RenderFault \/ Put
    \/ MainStep \/ MainFault
    \/ \E p \in Pages : PageStep(p) \/ PageFault(p) \/ Cancelled(p)

Spec == Init /\ [][Next]_vars

----------------------------------------------------------------------------
(* The rest of _process(): what is made of the list _process_pages() returns. *)

Reported == {p \in Pages : pages[p] # "missing"}

\* pages.sort(key=index): sort() is stable.  What follows only sees the texts, by
\* their position.
Sorted(list) ==
    LET before == {p \in (DOMAIN list) \X (DOMAIN list) :
                      \/ list[p[1]] < list[p[2]]
                      \/ list[p[1]] = list[p[2]] /\ p[1] < p[2]}
    IN  Picked(list, Ordered(DOMAIN list, before))

\* The list: the results in the order in which the pages ended, whatever it was, and
\* what the sort makes of it.
Lists == {[of |-> ToSet(list), sorted |-> Sorted(list)] :
             list \in SetToAllKPermutations(Pages)}

HasText(p) == pages[p] # ""

\* merge_pages(), as to which texts are joined and in which order.
Merged(list) == Kept(list, {i \in DOMAIN list : HasText(list[i])})

\* Mutant: the anchors count the pages with text.
MarkdownRenumbered(list) ==
    {[anchor |-> i, text |-> Merged(list)[i]] : i \in DOMAIN Merged(list)}

\* to_markdown(): the anchors are the positions, and a page without text has none.
Markdown(list) ==
    {[anchor |-> i, text |-> list[i]] : i \in {k \in DOMAIN list : HasText(list[k])}}

\* build_searchable_pdf(): page i of the source gets the text at position i.
Layers(list) ==
    [i \in Pages |-> IF i <= Len(list) /\ HasText(list[i]) THEN list[i] ELSE Nothing]

----------------------------------------------------------------------------
(* Properties *)

\* Rendered pages that are somewhere in memory.
Resident ==
    (IF held \in Pages THEN 1 ELSE 0)
    + Cardinality({i \in 1..Len(queue) : queue[i] \in Pages})
    + (IF cur # 0 THEN 1 ELSE 0)
    + Cardinality(live)

\* What the code bounds: the tasks, one more that triggers the throttle, the
\* queue and the page the thread is waiting to put.
ResidentBounded == Resident <= PageConcurrency + Prefetch + QueueCap + 2

\* README.md:149: of the pages with one hash at most one is sent to the engine.
OneEngineCallPerHash ==
    \A p, q \in Pages :
        (p # q /\ Kind[p] = Kind[q] /\ Kind[p] \in Hashes) =>
            ~(answer[p] # "none" /\ answer[q] # "none")

\* cpu_worker.py:20, README.md:160: a job that completes has a result for
\* every page, with its error if need be.
EveryPageReported ==
    main = "returned" => \A p \in Pages : pages[p] # "missing"

\* When _process_pages returns, no page task is left running behind it.
NothingLeftBehind == main = "returned" => live = {}

Lost == {p \in Pages : task[p] = "lost"}

\* No page without a result, but for those whose task was lost to an error.
OnlyLostMissing == Pages \ Reported \subseteq Lost

\* cpu_worker.py:415, postprocess.py:118: a completed job misses only pages whose
\* task was lost to an error: being a duplicate, blank, native or late costs no
\* page its place.  In whatever order the pages ended, the full text has each
\* text once and in the order of the pages, and up to the first page that is
\* missing every text is under its own anchor and on its own page of the PDF.
ArtifactsInPlace ==
    main = "returned" =>
        /\ OnlyLostMissing
        /\ \A l \in {k \in Lists : k.of = Reported} :
              LET list == l.sorted
                  full == Merged(list) IN
              /\ ToSet(full) = {p \in Reported : HasText(p)}
              /\ \A i, j \in DOMAIN full : i < j => full[i] < full[j]
              /\ \A p \in Reported :
                    HasText(p) /\ (\A q \in Pages \ Reported : p < q) =>
                        /\ [anchor |-> p, text |-> p] \in Markdown(list)
                        /\ Layers(list)[p] = p

\* tests/test_worker_e2e.py:155: a duplicate carries its original's text.  Not
\* so for text that filter_degenerate() cuts: it cuts after it is shared.
DuplicateCarriesText ==
    \A p, o \in Pages :
        /\ Kind[p] \in Hashes \ Degenerate /\ dedupe[Kind[p]] = o
        /\ task[p] = "done" /\ pages[o] # "missing"
        => pages[p] = pages[o]

\* cpu_worker.py:590: "never leave a duplicate waiting on a failed page".  As
\* long as Redis and the images are sound, a run that has not ended can go on:
\* a duplicate holds a permit while it waits, but never the one its original
\* needs, and the renderer, the throttle and the permits never wait for each
\* other in a circle.  No step is ever undone, so the run then ends.
NoStall ==
    faults = 0 /\ main \notin {"returned", "failed", "cancelled"} =>
        ENABLED (Render \/ Put \/ MainStep \/ \E p \in Pages : PageStep(p) \/ Cancelled(p))
----------------------------------------------------------------------------
(* The inductive invariant behind ResidentBounded, OneEngineCallPerHash,     *)
(* NothingLeftBehind, DuplicateCarriesText and OnlyLostMissing               *)

\* A page is in one place at a time on its way from the renderer to its task, so
\* that no page gets two tasks.
OnePlace ==
    /\ \A p \in Pages : p > made =>
          p # held /\ p # cur /\ task[p] = "none" /\ \A i \in DOMAIN queue : queue[i] # p
    /\ held \in Pages =>
          held # cur /\ task[held] = "none" /\ \A i \in DOMAIN queue : queue[i] # held
    /\ cur # 0 => task[cur] = "none" /\ \A i \in DOMAIN queue : queue[i] # cur
    /\ \A i \in DOMAIN queue : queue[i] \in Pages =>
          task[queue[i]] = "none" /\ \A j \in DOMAIN queue : queue[j] = queue[i] => j = i

\* Of the pages that were counted, none is counted again.
Counted == {p \in Pages : task[p] \in Over \cup {"report"}}

\* What the main coroutine knows of the tasks.
Throttled ==
    /\ cur # 0 <=> main = "check"
    /\ Cardinality(live) <= PageConcurrency + Prefetch + 1
    /\ main \in {"get", "check"} => Cardinality(live) <= PageConcurrency + Prefetch
    /\ main = "gather" => live \subseteq watched
    /\ main = "returned" => live = {}

\* The page registered for a hash is the one that goes to the engine, and its
\* future is open until it comes back.
Registered ==
    /\ \A h \in Hashes : dedupe[h] # 0 => Kind[dedupe[h]] = h
    /\ \A p \in Pages :
          /\ task[p] \in {"announce", "ocr", "flush", "flushExc"} =>
                Kind[p] \in Hashes /\ dedupe[Kind[p]] = p /\ shared[p] = "open"
          /\ answer[p] # "none" => Kind[p] \in Hashes /\ dedupe[Kind[p]] = p
          /\ task[p] = "flush" => answer[p] \in Texts
          /\ task[p] = "wait" => Kind[p] \in Hashes /\ dedupe[Kind[p]] # 0
          /\ task[p] \in {"none", "sem", "prep", "wait"} /\ Kind[p] \in Hashes =>
                dedupe[Kind[p]] # p

\* A result is there once its page is counted, not before; that of a hash is the
\* text in the future of the page registered for it, which no longer changes.
Delivered ==
    \A p \in Pages :
        LET h == Kind[p] IN
        /\ task[p] \in {"none", "wait", "sem", "prep", "announce", "ocr", "flush", "flushExc"} =>
              pages[p] = "missing"
        /\ task[p] \in {"count", "report", "done"} => pages[p] # "missing"
        /\ pages[p] # "missing" /\ h \in Hashes =>
              /\ dedupe[h] # 0 /\ shared[dedupe[h]] \in Texts
              /\ pages[p] = IF dedupe[h] = p THEN Filter(h, shared[p]) ELSE shared[dedupe[h]]

\* Where the run may still return: no error and no cancellation has reached it.
Coming == {"get", "check", "throttle"}
Going  == Coming \cup {"closing", "gather", "returned"}

\* In such a run no page is left out between the renderer and its task: the end
\* marker is the last thing in the queue, and it is only reached without meeting
\* the renderer's exception once every page has been rendered and taken.  Only a
\* cancellation makes a task end with nothing.
NoneSkipped ==
    /\ producer = "ended" => held = Nothing
    /\ \A i \in DOMAIN queue : queue[i] = Done => i = Len(queue) /\ producer = "ended"
    /\ main \in Coming /\ (held = Done \/ producer = "ended") =>
          made = NPages \/ \E i \in DOMAIN queue : queue[i] = Exc
    /\ main \in Going \ Coming => made = NPages /\ producer = "ended" /\ queue = <<>>
    /\ main \in Going => \A p \in 1..made :
          task[p] # "none" \/ p \in {held, cur} \/ \E i \in DOMAIN queue : queue[i] = p
    /\ main \in Going => doomed = {}
    /\ \A p \in Pages : task[p] = "gone" => p \in doomed

PageInv ==
    /\ TypeOK
    /\ OnePlace
    /\ pagesDone <= Cardinality(Counted)
    /\ Throttled
    /\ Registered
    /\ Delivered
    /\ NoneSkipped
=============================================================================
