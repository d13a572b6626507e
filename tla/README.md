# ocr-serving in TLA+

A model of the OCR serving system in this repository: what happens to a document
from the `POST /v1/ocr` that uploads it to the day its last trace is deleted.
The modules are translated from the Python source under `src/ocr_serving/`; TLC
checks them on small instances, and TLAPS proves the central facts for every
number of jobs, workers, requests and gateways.  Paths below are relative to the
repository (`workers/…`, `gateway/…` and `common/…` are under
`src/ocr_serving/`).  `PROJECT.json` has the same information as data: the lines
each definition models, the runs, the hazards with the properties that watch
them, the mutants that show that each property can fail, and the theorems.

## 1. The system

A gateway (FastAPI) and any number of workers (asyncio processes) share a Redis,
a directory tree and, optionally, a PostgreSQL.  They never talk to each other
directly; an OpenAI-compatible engine does the recognition.

| Part | State | Operations | Who it interacts with |
|---|---|---|---|
| Submission (`gateway/main.py` `submit`) | idempotency keys, uploads, job hashes, queue | lookup, stream to disk, inspect, check quota, write hash, enqueue, remember key | blob store, Redis |
| Rate limiter, API keys (`common/ratelimit.py`, `gateway/auth.py`) | a bucket per key in Redis | atomic Lua script, `429` with Retry-After | every gateway, each with its own clock |
| Page quota (`common/ratelimit.py`) | a counter per tenant and day | check at submission, charge at completion | gateway and workers |
| Job queue (`common/queue.py`) | stream, consumer group, Pending Entries List, idle times, dead-letter stream | enqueue, reserve, reclaim, heartbeat, ack, dead-letter, stats | workers compete for entries |
| Worker (`workers/cpu_worker.py`) | semaphore, `_inflight`, task set, stop flag | main, heartbeat, reclaim and retention loops; run, fail, retry, cancel, drain | queue, job hash, engine |
| Job state (`common/events.py`) | hash with TTL, cancel flag with TTL, event stream | set status, publish, expire, request cancel | gateway reads, worker writes |
| Page pipeline (`Worker._process_pages`, `workers/documents.py`) | bounded queue, page tasks, semaphore, futures by image hash | render in a thread, spawn, throttle, deduplicate, gather | rendering thread, Redis |
| Regions and engine client (`run_region`, `common/engine.py`, `TokenRelay`) | two semaphores, attempt, text and counts, a shared buffer | stream, retry with backoff, batch and publish deltas | engine over HTTP, event stream |
| Stream readers (`_event_source`, `stream`, `websocket_stream`) | cursor, slot, a Redis connection per blocked read | connect, resume, read, send, poll, end | clients that drop and reconnect |
| Results and retention (`_write_artifacts`, `workers/pdf_writer.py`, `common/db.py`, `common/retention.py`, `GET /v1/ocr/{id}` and its downloads) | files with modification times, hash TTL, row | assemble, write, sweep by age, look in three places | every worker sweeps, gateways read |
| Layout and postprocessing (`workers/layout.py`, `workers/postprocess.py`) | none | detect, order, tile; stitch, filter loops | `_process_page` before and after the engine |
| Preprocessing | none | pure functions on images | page pipeline |

What is hard about it: workers die between any two commands and a job is then run
again; the same job may run in two places; every await is a place where other
coroutines step in; a command may take effect though its reply is lost; clients
drop in the middle of a batch; clocks of gateways differ; the traces of a job
expire one by one.  The properties that make each part correct are those of the
runs in section 4; the hazards, each at its line, are in `PROJECT.json`.

## 2. Modules

| Module | Models | Composed with |
|---|---|---|
| `JobPipeline` | queue, job hash, worker loops, every command of a run | implements `JobLifecycle` |
| `JobLifecycle` | the abstract promise: a job is owed until an outcome is recorded | instantiated by `JobPipeline` |
| `JobPipelineProofs` | theorems about `JobPipeline`, those about the queue behind those about the outcomes | |
| `PagePipeline` | one run of `_process_pages` and what is assembled from its pages, the `Work` step of `JobPipeline` in detail | |
| `PagePipelineProofs` | theorems about `PagePipeline` | |
| `RegionStream`, `RegionStreamProofs` | the OCR of one page, the `ocr` step of `PagePipeline` in detail | |
| `PageText`, `PageTextProofs` | the page before and after the engine: regions, reading order, tiles; stitched and filtered text | the data that `PagePipeline` and `RegionStream` leave out |
| `Ordering` | Python's stable sort and list filter, without recursion | used by `PagePipeline` and `PageText` |
| `EventStream`, `EventStreamProofs` | one job's events and those who tail them | the worker's side is what the first three show of it |
| `Submission`, `SubmissionProofs` | concurrent requests through `submit()`, the documents they send and the page quota | ends where `JobPipeline` begins |
| `RateLimiter`, `RateLimiterProofs` | the token bucket of one key | decides whether `Submission`'s `Arrive` goes on |
| `Retention`, `RetentionProofs` | files, hash, row, sweeps, the result endpoint and the downloads | a job's run as `JobPipeline` orders its writes |
| `MC…` | instances for TLC | |

### How the modules correspond to the code

**One step** is the code between two awaits, or between two system calls where
several processes or threads touch the same files.  A Redis `MULTI` or Lua script
is one step.  Every early return and handler of an exception is kept; payloads,
wording, logs and metrics are left out.

`JobPipeline`.  A job may have several queue entries: `retry_on_timeout`
(`common/redis_client.py:27`) makes the client repeat a command whose reply is late,
and the first execution may have taken effect.  That is the trouble "repeat": an
XADD gives a second entry (`EnqueueAgain`), an XREADGROUP leaves an entry pending in
nobody's hands (`ReserveRepeated`), an XAUTOCLAIM finds nothing the second time
(`ReclaimFault`), and a counter is incremented twice (`Executed`); the other commands
do the same twice as once.  `JobOf[e]` is the job an entry names.
`task[w][s].pc` is the command the `_run_job` coroutine will issue next, and
`.out` the outcome it is heading for.  `stale` stands for idle times: an entry is
fresh or has been idle for the visibility timeout.  `GoStale` may happen at any
moment to an entry in nobody's hands, and to one that a reclaim loop has claimed and
holds while no permit is free, because only `_run_job` enters `_inflight`: that is plain
load and no trouble.  `overdue` remembers such entries.  `MissBeats` (a blocked event
loop, heartbeats that fail) is the trouble that ages an entry which a live worker renews.
The whole of `_process_pages` is the step `Work`, which succeeds, fails for good, fails
transiently, or sees the cancellation; or `Hang`, when one of its commands fails in such a
way that a duplicate page waits for ever.  `stats()` is two commands: `ReadLength` keeps
in `counted` what XLEN counted, and `Depth` is what is returned when `ReadGroups`
comes, after any number of other steps.
`CommandFault` makes any command raise: inside `_process` that leads to `_fail()`,
inside `_fail()` it ends the coroutine.  `ExpireHash` keeps the fact that a hash
made anew by `HINCRBY` or `HSET` lacks what `submit()` wrote (`bare`).

`PagePipeline`.  `held` is the item the rendering thread is putting, `cur` the
page the main coroutine has just taken, `live` the set `tasks` from which a done
callback discards every finished task, with or without an exception, `watched`
what `gather()` was given, `shared` the futures.  The list of results is kept as the
function `pages`, without its order; `Lists` are all orders it may have, `Sorted`,
`Merged`, `Markdown` and `Layers` what `_process()` makes of one.  A text stands there
for its page, so that one in the wrong place is seen; what matters of a text is whether
it is blank.

`RegionStream`.  A delta is `<<region, attempt, position>>`, so that a text shows
which attempt each of its pieces comes from.  `wire[x]` is an event on its way to
Redis; two of them may arrive in either order.

`PageText`.  The operators keep the names of the functions (`Nms`, `XyCut`, `Tile`,
`Stitch`, …); `See` chooses what the layout model detects, in the order of its
scores, which is the order in which NMSBoxes and a v10 export list it, and `Read` what
the engine answers.  `MaxDepth` is how deep `_xy_cut()` goes, 16 in the code.  What is
printed on the page (`Scripts`) knows nothing of boxes: a line is `LineHeight` high, lies
where it lies, and says something that another line may say too.  A crop (with its
`Margin`) may therefore cut a line: one cut off above or below is skipped, garbled, or
guessed as if it were whole (`Fates`), one cut off at its side is read as far as it is in
view.  Characters are modelled by their number (`Letters`, `Size`), because
`_overlap_len()` wants more than 20 of them and looks at no more than 400, and the loop
filter leaves lines of 3 and fewer out (`Long`); no line ends as another one begins, but
for parts of one line.

`EventStream`.  The n-th event has id n; `trimmed` of the oldest are gone, and
`trimmed` may grow to keep the last `MaxLen`.  `Rerun` is a FAILED job that is
redelivered; abandoned page tasks may publish after the end.  `ExpireHash` may take the
hash of any job, one that still waits in the queue included, and `Recreate` is `_fail()`'s
HINCRBY making one anew; `closed` says that the job was ever decided or lost its hash.
`quiet[c]` is the newest event when c's last read came back empty.

`Submission`.  A request's number is also its job id.  `before[r]` remembers which
requests had been answered when r arrived.  A document is a record of what the checks
look at: the kind its name claims and its first bytes show, its size, whether pymupdf
opens it, whether it needs a password, its pages.  `Probe` is what the gateway counts,
`Opened` what the worker will find.  `Fail` is an error of any command, with or without
effect.  `used[t][d]` is the counter of a day, `Midnight` the change of its key.
Every run that has read a job's pages charges them: `Consume` is the first charge of a
job and `ConsumeAgain` any later one, which `again[t][d]` sums up;
`rushed` collects the tenants who submit while a job of theirs is not yet charged, or
whose counter could not be read.

`RateLimiter`.  Tokens are counted in the time it takes to earn them, so the
script's division disappears; `since`, `passed`, `waved` and `setback` belong to
an observer who starts to count whenever it likes.  `due` has the promised times of all
clients that were refused since the last grant.

`Retention`.  A job's run writes its files in the code's order, any number of
workers sweep (one of them step by step, the others as `SweptElsewhere`), and a
client asks.  A hash written anew after it expired has no tenant (`whole`), and
then `_load_job()` does not find it for its owner.  `LoadArtifact` is a download,
which looks for one of three files and never in PostgreSQL; `pdf` says whether the run
made a PDF.

## 3. Bounds

Named bounds are `MaxTroubles`, `MaxFaults`, `MaxEvents`, `MaxDrops`, `Horizon`,
`MaxBack`, `MaxFound`, `MaxRead`, `LoopLength`, `MaxAgain`, `MaxOverdue` and `Monitored`
(whether anybody calls `stats()`); everything else is a parameter of the system.

| Run | Instance | Distinct states | Why it is enough |
|---|---|---|---|
| `calm` | 2 jobs, 2 workers with 1 permit each, 2 attempts, 1 overdue entry, `stats()` at any time, symmetry | 0.5 million | two jobs compete, both workers are busy, a job fails, is reclaimed by the other worker and exhausts its attempts; a reclaim loop waits for the one permit until its entry is claimed and run by the other worker; all that may happen between the two commands of `stats()` |
| `settle` | 1 job, up to 2 entries, 2 workers, 1 permit, 2 attempts, 1 overdue entry, one trouble of any of six kinds | 0.4 million | the trouble may fall between any two commands of any run, retries and duplicate runs on the other worker included; a second entry may be appended before, during or after the run of the first |
| `pages` | 6 pages, concurrency 2, prefetch 0, one error, cancellation | 1.9 million | a duplicate and its original, both permits taken, a full queue and the throttle at the same time; a blank page in the middle of the document, a lost one anywhere, and each of the 720 orders of six results |
| `streams` | 2 regions of 2 and 1 deltas, 1 engine permit, 1 retry, 1 Redis error and another one in the last flush | 1.3 million | a batch with deltas of both regions, a retry after a broken stream, a region that fails while the other one runs on and the flush of the page failing too |
| `tail` | 2 clients, 1 slot, 1 connection, 3 events of which 1 is kept, batches of 2, 1 drop | 0.4 million | a waiting client, a resumed one, a partial batch, trimming under a reader, a hash that expires before and after the job is decided |
| `submit` | 3 requests of a tenant, 8 files, 2 pages at most, quota 3, 1 midnight, 1 error, 1 page charged again | 1.8 million | overlapping and repeated requests with a key and one without, a file for every exit, a PDF longer than the page limit, a charge repeated before and after midnight, a quota that runs out and is new the next day (tenants meet only in the proof of `KeysNameJobs`) |
| `rate` | 2 gateways a unit apart, bucket of 2 requests, 10 units, 1 failed call | 0.2 million | several windows, several refused clients, an expiry, setbacks of the clock in both directions of use |
| `retention` | window 1, horizon 3, 1 error | 1.3 million | a second run after an expiry, a sweep that was begun before and ends after a rewrite |
| `text` | 9 boxes, up to 3 detections (2 on pages that are read), 4 scripts, page of 6 by 13, lines of 3, tiles of 6 that share 3, cuts 2 deep, the code's limits of 20, 400, 3 characters and 6 lines | 0.2 million | with three regions there is nothing to cut any deeper; a title over two columns, a table across them, a column of several tiles, a box seen twice, one too small and one beyond the edge, a page without any; tiles that cut lines and tiles that fall between them, text that repeats, overlaps that are too short to be told from chance; the failing tile may be any |
| `poison`, `page_lost`, `repeated` | the smallest that shows the behaviour | | see section 5 |

Deadlock is not checked except in `retention`, because a queue without jobs, a
finished document, a decided job without clients, answered requests and the last
moment of a clock are proper ends; `NoStall`, `PageEnds`, `StreamsEnd`,
`EveryJobSettles` and `DrainEnds` say that nothing stops before them.

## 4. What the passing runs show

`calm` (no outside trouble): no job runs in two places (`SingleExecution`), charges
and burials happen once although transient errors repeat a job (`EffectsOnce`),
attempts stay within the limit (`AttemptsBounded`), a terminal status is
final (`TerminalIsFinal`).  All four exempt a job one of whose entries was overdue: plain
load is enough for a reclaim loop to wait for a permit until another worker claims the
same entry, and the job then runs twice (section 5).  The depth that `stats()` returns
counts every job that waits all the while between its two commands, whatever is
delivered, acknowledged or enqueued in between (`DepthNeverHides`).  None of the first
four survives every trouble: that is what the next run, and section 5, are about.  (`SingleExecution` survives killed workers and
expiring keys, as section 6 says.)

`settle` (a crash, a stop, a failing command, one executed twice, missed heartbeats or
an expired key):
an accepted job is owed or decided (`NoSilentLoss`); COMPLETED means that the
result is on disk (`CompletedIsDurable`); the pipeline implements `JobLifecycle`
(`AtLeastOnce`); every accepted job settles (`EveryJobSettles`) and a stopped worker ends
(`DrainEnds`), unless a run hangs: a job whose run does is kept fresh by the heartbeat and
never settles, its worker does not stop, and if every worker has such a run there is no
permit left for anything else (with one permit each, as here; section 5).

`pages`: memory is bounded (`ResidentBounded`), identical pages cost one engine call
(`OneEngineCallPerHash`), no task survives a run that returns (`NothingLeftBehind`),
a result misses at most the pages whose task an error killed, and whatever the order in
which the pages ended, the full text has them in order and each is under its own anchor
of the Markdown and on its own page of the PDF, up to the first one that is missing
(`ArtifactsInPlace`), a duplicate has the original's text (`DuplicateCarriesText`, for text that is not cut), and without
errors renderer, throttle, permits and futures never wait in a circle (`NoStall`).

`streams`: a region's text is that of one attempt (`TextOfOneAttempt`), `seq` orders the deltas of every region even
when events overtake each other (`SeqOrdersDeltas`), nothing stays in the relay
(`EverythingRelayed`), the page ends (`PageEnds`).

`tail`: over all its connections a client misses only what was trimmed and gets
nothing twice (`ResumeExact`); it is told the end after a terminal event, or after an
empty read at which it was up to date and of a job that was decided or had lost its hash
(`EndsUpToDate`); and no tail or slot is held for ever (`StreamsEnd`).

`submit`: what is queued has its hash and a document that the worker can open, with as
many pages as the quota was asked for (`QueuedIsRunnable`); a request that repeats a key after the
202 leaves nothing of its own and gets a queued job of that key, the original one unless
requests with the key overlapped (`RepeatReturnsOriginal`); a tenant whose jobs are charged before the next
one is submitted is charged beyond the limit of a day by no more than what later runs of
jobs already charged have added, also when a job is checked on one day and charged on the
next (`BudgetKept`).

`text`: tiles are proper parts of the page and within the encoder's height (`TypeOK`),
a region covers what was detected of it in spite of the rounding (`NoInkClipped`), the
reading order loses no region and never goes back up (`NeverUpwards`).  Wherever the
tiles cut, a line that one of them shows whole is in the page's text, unless the page is
taken for a loop; and on a page that is `Clean` every line is there once and in reading
order (`ReadOnce`).  A page never ships a loop of long lines, and a `Clean` one loses
nothing that was read before the engine began to loop (`LoopCut`).  `Clean` names what
the code relies on: regions do not overlap, no line is cut at its side in two ways, no two
lines say the same, the engine skips what is cut off, and what two tiles share is nothing
or long enough to be told from chance and no longer than is looked at.  Each of these is
needed (section 5), and TLC reaches `Clean` pages of several tiles with and without a loop.

`rate`: the limit holds over every window up to what failed open and what clocks
that disagree cost (`RateBounded`); whoever obeys its Retry-After is not refused again
unless a request granted meanwhile took its token, however many others are refused, at a
request a second or more (`HonestRetry`).

`retention`: nothing within the window is deleted, however the sweep interleaves
with writers and other sweeps (`FreshKept`); a completed job's result, Markdown and PDF
are served while they are young, and the job unknown only without a row or with a failing database
(`CompletedIsServed`); old files go although sweepers disturb each other
(`OldFilesGo`).  The first two assume, as `common/retention.py:12` does, that no job
is in flight for as long as the window.

### Fairness

* `JobPipeline`: weak fairness of each coroutine and loop, because a live asyncio
  loop runs what can run and a semaphore serves its waiters in order; of `GoStale`,
  because idle time passes; of `Restart`, because the deployment restarts workers
  (`restart: unless-stopped` in `docker-compose.yml`).  That `_process_pages` ends when
  none of its commands fails is what `NoStall` and `PageEnds` say; when one fails it may
  never end, and a coroutine that is "hung" has no step to be fair to.  Nothing is assumed
  of clients and trouble.
* `RegionStream`: weak fairness of each region's next step; the engine is covered by
  httpx's timeouts, which turn silence into an error.
* `EventStream`: weak fairness of the handler of each connection.  Nothing is
  assumed of the worker or of the clients.
* `Retention`: weak fairness of the sweep; its loop sleeps a fixed time and catches
  every exception.

## 5. Where the code and what is said of it differ

Three runs show a behaviour that contradicts the documentation:

* `poison`: attempts are compared with the limit only in `_fail()`, so a document
  that kills its worker is run for ever (`common/queue.py:9-10`).
* `page_lost`: a page task that fails before rendering is over has left the set that
  is gathered; the job completes without the page and without an error
  (`README.md:160`).
* `repeated`: a stream that breaks after its first token is retried and the client
  sees the beginning twice (`common/engine.py:12-13`).

Further disagreements that were met while modelling.  The models contain these
behaviours, and the properties are stated so that they hold of the code as it is:

| Code | Behaviour | Said in |
|---|---|---|
| `workers/cpu_worker.py:219` | a draining worker has stopped its heartbeat, so a peer reclaims and runs a job that it is still running: `SingleExecution` fails when a stop is among the troubles | `docs/operations.md:95` |
| `workers/cpu_worker.py:255` | under plain load: a reclaimed job that waits for a permit is not renewed, a peer claims it too, and both run it; the properties of `calm` exempt such jobs | `docker-compose.yml:82`, `docs/architecture.md:77-78` |
| `common/queue.py:116-119` | XLEN and XINFO GROUPS are two commands: a job enqueued between them may go uncounted (one that waited all the while does not) | `common/queue.py:120-121` |
| `common/queue.py:98` | a crash between XACK and XDEL leaves an entry that `stats()` counts for ever | `common/queue.py:120-121` |
| `workers/cpu_worker.py:371` | a crash between COMPLETED and `expire_events()` leaves the stream without a TTL | `docs/architecture.md:81` |
| `workers/cpu_worker.py:559`, `589` | an error in publishing PAGE_STARTED or in the last flush leaves the future of a page unresolved, and its duplicate waits for ever: the heartbeat keeps the entry fresh, the job never settles, and the worker does not stop when told to (`Hang`) | `workers/cpu_worker.py:590` |
| `workers/cpu_worker.py:443` | a job that fails or dies after the charge, or runs twice, is charged again by its next run (`ConsumeAgain`) | `common/ratelimit.py:94` |
| `workers/cpu_worker.py:591` | duplicates get the text before `filter_degenerate()` | `tests/test_worker_e2e.py:155` |
| `workers/cpu_worker.py:498` | the throttle counts tasks only; `Prefetch + QueueCap + 2` further pages may be in memory | `workers/cpu_worker.py:497` |
| `common/engine.py:172` | `prompt_tokens` survives a retry and switches off counting | `common/engine.py:14-15` |
| `common/events.py:40` | a client that resumes after trimming misses events without a sign | `README.md:50-52` |
| `gateway/main.py:82` | as many stream slots as pooled connections, and WebSockets take no slot | `gateway/main.py:81` |
| `gateway/main.py:391` | events published between the empty read and the status check are not delivered | `gateway/main.py:392` |
| `gateway/main.py:391` | a job that waits in the queue for longer than `result_ttl_days` loses its hash, and its streams end though it is still undecided | `gateway/main.py:392` |
| `gateway/main.py:197` | overlapping requests with one key create a job each, and a later repetition gets the one that was remembered last | `README.md:163` |
| `common/ratelimit.py:102` | the budget is that of a day in UTC, so within 24 hours around a midnight twice the limit may be charged; and jobs in flight are not counted | `common/ratelimit.py:94`, `common/config.py:55` |
| `workers/cpu_worker.py:416` | behind a page that was lost every text is under the anchor, and on the page of the PDF, of the page before it | `workers/postprocess.py:118`, `workers/pdf_writer.py:3-5` |
| `common/redis_client.py:27` | a repeated XADD gives a job a second entry, which runs it beside the first or, if it FAILED, once more; a repeated HINCRBY costs it an attempt | `common/queue.py:9-10` |
| `gateway/auth.py:64` | below a request a second Retry-After is rounded down too far | `gateway/auth.py:54` |
| `gateway/main.py:300` | with the hash still there and the file swept, the state without the text is returned though PostgreSQL has it | `gateway/main.py:291` |
| `workers/postprocess.py:85` | tiles cut lines: shared text that reads differently, of 20 characters or fewer, or of more than 400, is doubled; and equal text of neighbours that share no tile is dropped | `workers/postprocess.py:13-16` |
| `workers/postprocess.py:73` | of a page taken for a loop everything from the first line that repeats an earlier one is dropped, also good text behind a legitimate repetition | `workers/postprocess.py:61-65` |
| `workers/postprocess.py:48` | loops of lines of 3 characters and fewer are never seen, and ship | `workers/postprocess.py:9` |
| `common/storage.py:103` | a file that cannot be examined or deleted ends the purge of its directory, each time | `common/retention.py:51` |

## 6. What is proved

The assumptions are those named in the modules (`PipelineAssumption`,
`LimiterAssumption`, `PagesAssumption`, `SubmissionAssumption`, `RegionsAssumption`,
`EventsAssumption`, `RetentionAssumption`, `TextAssumption`: the typing of the constants and the little the
code relies on); the sets of jobs, workers, permits, requests, gateways, regions and
clients, and the numbers of pages and detections, are arbitrary.

**`JobPipelineProofs`.**  `NoSilentLoss` is not inductive: an acknowledgement removes
an entry, and that an outcome has been recorded by then is known only to the
coroutine.  `IndInv` adds what each coroutine knows at each of its commands
(`TaskKnows`): that its job was accepted, that the outcome it announces is recorded,
that its entry names its job, that an XACK comes after some outcome, that COMPLETED comes after the result was
written.  The knowledge only grows (`sent`, `recorded`, `published`, `durable` are
never taken back), so the steps of others preserve it (`KnowledgeLasts`,
`KnownStays`), and every step that establishes it is local to its coroutine
(`KnownStep`).  From `Inductive` follow `TypeCorrect`, `NothingLost`,
`OutcomesInOrder` (`CompletedIsDurable`; `EventAfterStatus`, an announced outcome was
written before; `BuriedAfterNotice`, a dead letter's client has been told) and, with one
lemma per kind of step, `Refinement`: every step of the pipeline accepts an entry, records an outcome, releases a decided job, or is a
stutter of `JobLifecycle`.

In the second half of the module `QueueInv` says where an entry can be: waiting entries are
distinct, pending ones no longer wait, nobody holds one that waits, and a coroutine that
has come to XDEL has an entry that is no longer pending.  So nothing leaves the stream
before it has left both the backlog and the PEL.  `CountInv` carries that from one command
of `stats()` to the other: what XLEN counted and still waits is a first part of the
backlog, and as long as any of it waits every pending entry was counted too, because the
group delivers in order; counting the two disjoint sets gives `DepthIsHonest`, whatever the
troubles.  `OneHolder` adds that an entry is in one pair of hands, a reclaim loop's or a
coroutine's, and that it has not gone stale there, unless it is in `overdue`.
It needs every worker to be running or dead: `NeverTwiceAtOnce` therefore assumes
`KillsOnly` (workers are killed, keys expire), and section 5 says how a stop breaks it.
Nothing is assumed of the load: a job one of whose entries was overdue is exempt, and
`RunOverdue` says that its runs leave the other jobs alone.
With no trouble at all (`Calm`) the runs of any other job follow each other, and
`OneRunAtATime` says what each of them has found and left (`Stage`, `Due`: a job owed
that nobody runs is open, uncharged and has attempts left); `EachEffectOnce`,
`RetriesBounded` and `TerminalStays` follow.  They cannot be had under kills: a worker
killed between charge and status has the job charged again by its next run.

**`SubmissionProofs`.**  `Stage(r)` says what a request has left in the stores when it
reaches a step; with it `RunnableJobs`, `CleanRefusals` (a refused request
leaves no blob, hash or entry) and `KeysNameJobs` (a key names a queued job of its
tenant) follow for any number of requests, documents and failing commands.
`KeysRemembered` says that the key of an answered request is in the store from then on,
and that a request which comes after the answer therefore never gets beyond the lookup
(`RepeatsDuplicateNothing`).  For `BudgetHolds`, `Patient(t)` says of a tenant who waits that one job at most is under way,
that there is room for it today, and that tomorrow's counter is still 0; it speaks of what
the first charges of the jobs took (`Once`), for a repeated charge counts in `used` and
`again` alike (`ChargedAgainIsPatient`).

**`RateLimiterProofs`.**  `Covered` compares grants and tokens left with a full bucket
and the time on the *bucket's* clock since the window began, counting every setback
of that clock; `ExpiresFull` says that a bucket that expires has had the time to fill
by any gateway's clock (this needs the grace that PEXPIRE adds to be no less than
the drift); `Promised` that each refused client's tokens arrive before its Retry-After is
over.  `RateHolds`, `RetryIsHonest` and `AgreedClocks` (the textbook bound when the
clocks agree) follow.

**`PagePipelineProofs`.**  `PageInv` (at the end of `PagePipeline`) says of a run of
`_process_pages` what its parts know of each other.  `OnePlace`: a page is with the
renderer, in the queue, with the main coroutine or in its task, never in two of these, so
it never gets two tasks.  `Throttled`: how many tasks there may be where the main
coroutine is; with the capacity of the queue it gives `MemoryBounded`, and what
`gather()` was given covers all that runs, which gives `NothingLeft`.  `Registered`: the
page in `dedupe` is the only one of its hash that goes to the engine (`OneCall`), and
its future is open until it comes back; it is never opened again, so the text a
duplicate took out of it is what stays there (`Delivered`, `DuplicatesHold`).
`NoneSkipped`: as long as the run may still return, a rendered page is held, queued, just
taken or has its task, the end marker is the last thing in the queue, and it is not
reached before all pages unless the renderer's exception is reached first; so when the run
returns every page has a task that is over, and only an error ends one without a result
(`OnlyLostAreMissing`, the first conjunct of `ArtifactsInPlace`).
The second conjunct is about data: in each order in which the results may lie, sorting
and filtering them gives the pages in order.  `Ordered` takes for the k-th element the
one that has k - 1 before it; that there is one for every k is the pigeonhole principle
(`EveryRank`), and that it lists the set in order then follows without an induction
(`OrderedEnumerates`).  So the k-th of the sorted pages is page k as long as none below
it is missing (`OwnPosition`), and a filtered list is still increasing
(`KeptIncreasing`), which gives `InPlace`.
`pagesDone <= Cardinality(Counted)` is there for `PageTypes` alone.  The sizes of the
sets rest on the library's `FiniteSetTheorems`.

**`RegionStreamProofs`.**  Two arguments meet in `RegionInv`.  `OneAttempt`: the text
being collected has the pieces of the current attempt, from the first on, because a
request backs off with an empty text (`OneAttemptReturned`).  `InOrder`: batches are
numbered in the order of their deltas, what is buffered comes after all of them, and
`NextDelta`, which a region will stream next, after that; so sorting by `seq` gives the
order back whichever XADD was executed first (`SortedBySeq`).  `InReach` follows a delta
from the engine to the stream: unless a publish failed it is in the buffer, in a flush
that is under way, or on the wire, so that nothing is left when the page returns
(`AllRelayed`).

**`EventStreamProofs`.**  `EventInv` follows a client through the awaits of its
connections.  `CursorAtLast`: a connection goes on behind the last event the client has
got over all connections.  `BatchNext`: what has been read starts there, or after what had
been trimmed by then, and has no gap, although the stream may be trimmed further before it
is sent.  With them each event that is sent extends what the client has got without a
repetition, and what it skips was trimmed before it was read (`ResumesExactly`).
`ClosedFirst`: only a job that was decided or has lost its hash has another status than
an active one.  `NothingMissed`: what a client has got reaches, but for what was trimmed,
without a gap to its last event, and a read that comes back empty started at the end of the
stream, so at that moment it was up to date.  `EndsAreUpToDate` follows.

**`RetentionProofs`.**  `FreshKept` is not inductive, because a sweep deletes by the age
it has read before.  `SweepsOld` says that the upload of the file it is about to delete
is older than the window, and so is the file itself unless it was written too late to be
promised anything (`InTime`): a file rewritten under the sweep is of the second kind.
`RunWrites` says what a run has written at each of its steps.  `FreshStays` and
`CompletedStays` (`CompletedIsServed`) follow.

**`PageTextProofs`.**  The steps of a page are a straight line, and `TextInv` only
says what each has left behind; the work is in lemmas about the operators.
`OnPageCovers`: near edges are rounded down and far ones up, and cutting at the page
leaves all of the detection that is on it (`InkCovered`).  `NearSide`: nothing reaches
into a gap, so a region is wholly on one side of it, and nothing on the far side is above
anything on the near side, whether the gap is vertical or horizontal.  `XyCutReads`
carries that through the cuts, for any depth: each region once, and none after one that
lies below it (`ReadDownwards`); `TopDownReads` is the case in which no cut is possible.
It holds although regions may overlap, because then no gap separates them.
`CutUpTiles` and `CutUpCovers`: tiles advance by at least one row and by no more than
their height, the last one ends with the region, so that they are proper parts of the
page of at most the encoder's height (`TextTypes`) and no row of any region is left
unsent (`NothingUnsent`).  The constants are almost free: a tile height of 1 is excluded,
with which the loop of `tile()` may not end.

Two of these lemmas need an induction (over the depth of the cuts and over the list that
`FlattenSeq` joins).  The library's induction theorems take an operator as a parameter;
`AllNumbers` states the same of a *set* of numbers, from the library's `WFMin` and
`NatLessThanWellFounded`, and a statement is proved by showing that the set of the
numbers for which it holds is all of them.  The lemmas about ranks stand in both
`PagePipelineProofs` and `PageTextProofs`, each for the order it needs.

### Only model-checked

Liveness (`EveryJobSettles`, `DrainEnds`, `PageEnds`, `StreamsEnd`, `OldFilesGo`) and
`NoStall`, which speaks of ENABLED, are out of the prover's reach.  The type invariant of
`JobPipeline` is only proved, no run checks it.  `ReadOnce`
and `LoopCut` in `PageText` compare texts: what `Stitch` makes of a page is a fold over its
tiles, and the facts about it need an induction over the texts they show;
TLC checks them on the instance of section 3.

## 7. Not modelled

Image preprocessing, rendering resolution and text extraction (numeric libraries);
how a text is fitted into a page of the searchable PDF; configuration, logging and metrics; the demo page; the
mock, Ray and BentoML engines (seen only through the client); the listing
of recent jobs; the characters of a text (Unicode forms, ligatures, hyphens across
lines and pages).  Commands that are executed twice are modelled for the job's path only
(`JobPipeline`), not for the events or the submission before its XADD.  An idempotency
key's expiry after a day is out of `Submission`'s two days.

## 8. Plan

The order was: job pipeline with its abstract specification and proofs, page pipeline,
regions, events, submission, rate limiter, retention, layout and text; then commands executed twice, documents
and the quota's days, the assembly of the artifacts and their downloads.  Next:

1. An abstract page source (`each page once, in some order, or an error`) that
   `PagePipeline` without errors implements, and an abstract relay for `RegionStream`.
2. A composition of `Submission` and `JobPipeline` with the idempotency key and the
   quota across both.
3. Proofs: `ReadOnce` on `Clean` pages, by way of what `Stitch` does to two neighbouring
   tiles.
