---------------------------- MODULE RegionStream ----------------------------
(***************************************************************************)
(* The OCR of one page: a task per region (run_region in _process_page,    *)
(* workers/cpu_worker.py) streams its crop through the engine client       *)
(* (OCRClient.ocr_page_stream, common/engine.py), which admits, retries    *)
(* and gives up requests, and passes every delta on to the page's          *)
(* TokenRelay, which batches deltas of all regions into TOKEN events.      *)
(*                                                                         *)
(* The k-th delta of a region's request is <<region, attempt, k>>.  A step *)
(* ends where the code awaits; XADDs of two tasks travel on two            *)
(* connections, so Redis may execute them in either order.                 *)
(***************************************************************************)
EXTENDS Integers, Sequences, FiniteSets, SequencesExt

CONSTANTS Regions,            \* the regions of the page
          Length,             \* Length[r]: deltas the engine streams for region r
          RegionConcurrency,  \* settings.region_concurrency
          MaxConcurrency,     \* OCRClient.max_concurrency
          MaxRetries,         \* OCRClient.max_retries
          MaxFaults           \* bound: Redis errors in this page

ASSUME RegionsAssumption ==
    /\ "page" \notin Regions
    /\ Length \in [Regions -> Nat]
    /\ RegionConcurrency \in Nat \ {0}
    /\ MaxConcurrency \in Nat \ {0}
    /\ MaxRetries \in Nat
    /\ MaxFaults \in Nat

VARIABLES
    pc,       \* where run_region is
    attempt,  \* stats.attempts
    text,     \* stats.text, as the deltas appended to it
    count,    \* stats.completion_tokens
    prompt,   \* stats.prompt_tokens is not 0
    error,    \* stats.error is set
    buf,      \* TokenRelay._buf
    seq,      \* TokenRelay._seq
    wire,     \* wire[x]: the event that x is publishing
    events,   \* the TOKEN events in the job's stream
    page,     \* where _process_page is
    faults    \* Redis errors so far, but for the one that ends the page

stats == <<attempt, text, count, prompt, error>>
relay == <<buf, seq, wire>>
vars  == <<pc, attempt, text, count, prompt, error, buf, seq, wire, events,
           page, faults>>

InEngine   == {"open", "stream", "push"}
InRegion   == InEngine \cup {"sem", "backoff"}
Publishers == Regions \cup {"page"}
Delta      == {d \in Regions \X (1..(MaxRetries + 1)) \X Nat : d[3] \in 1..Length[d[1]]}
Event      == [seq : Nat, data : Seq(Delta)]
NoEvent    == [seq |-> 0, data |-> <<>>]

TypeOK ==
    /\ pc \in [Regions -> InRegion \cup {"queued", "flush", "done", "raised"}]
    /\ attempt \in [Regions -> 1..(MaxRetries + 1)]
    /\ text \in [Regions -> Seq(Delta)]
    /\ \A r \in Regions : Len(text[r]) <= Length[r]
    /\ count \in [Regions -> Nat]
    /\ prompt \in [Regions -> BOOLEAN]
    /\ error \in [Regions -> BOOLEAN]
    /\ buf \in Seq(Delta)
    /\ seq \in Nat
    /\ wire \in [Publishers -> Event]
    /\ events \in Seq(Event)
    /\ page \in {"gather", "flush", "flushExc", "returned", "failed"}
    /\ faults \in 0..MaxFaults

Init ==
    /\ pc = [r \in Regions |-> "queued"]
    /\ attempt = [r \in Regions |-> 1]
    /\ text = [r \in Regions |-> <<>>]
    /\ count = [r \in Regions |-> 0]
    /\ prompt = [r \in Regions |-> FALSE]
    /\ error = [r \in Regions |-> FALSE]
    /\ buf = <<>>
    /\ seq = 0
    /\ wire = [x \in Publishers |-> NoEvent]
    /\ events = <<>>
    /\ page = "gather"
    /\ faults = 0

Fault ==
    /\ faults < MaxFaults
    /\ faults' = faults + 1

Goto(r, where) == pc' = [pc EXCEPT ![r] = where]

----------------------------------------------------------------------------
(* TokenRelay *)

\* Mutant: the buffer is cleared only after the publish.
TakeKept(x, pending) ==
    /\ buf' = pending
    /\ seq' = seq + 1
    /\ wire' = [wire EXCEPT ![x] = [seq |-> seq + 1, data |-> pending]]

\* Mutant: the buffer is cleared before it is joined.
TakeEmptied(x, pending) ==
    /\ buf' = <<>>
    /\ seq' = seq + 1
    /\ wire' = [wire EXCEPT ![x] = [seq |-> seq + 1, data |-> <<>>]]

\* flush() up to its await: x takes the whole buffer, of all regions.
Take(x, pending) ==
    /\ buf' = <<>>
    /\ seq' = seq + 1
    /\ wire' = [wire EXCEPT ![x] = [seq |-> seq + 1, data |-> pending]]

\* The XADD of x is executed.
Deliver(x) ==
    /\ events' = Append(events, wire[x])
    /\ wire' = [wire EXCEPT ![x] = NoEvent]

----------------------------------------------------------------------------
(* ocr_page_stream() *)

EnterRegion(r) ==
    /\ pc[r] = "queued"
    /\ Cardinality({o \in Regions : pc[o] \in InRegion}) < RegionConcurrency
    /\ Goto(r, "sem")
    /\ UNCHANGED <<stats, relay, events, page, faults>>

\* Mutant: off by one, the last permit is never given away.
AcquireNotLast(r) ==
    /\ pc[r] = "sem"
    /\ Cardinality({o \in Regions : pc[o] \in InEngine}) < MaxConcurrency - 1
    /\ Goto(r, "open")
    /\ UNCHANGED <<stats, relay, events, page, faults>>

Acquire(r) ==
    /\ pc[r] = "sem"
    /\ Cardinality({o \in Regions : pc[o] \in InEngine}) < MaxConcurrency
    /\ Goto(r, "open")
    /\ UNCHANGED <<stats, relay, events, page, faults>>

Respond(r) ==
    /\ pc[r] = "open"
    /\ Goto(r, "stream")
    /\ UNCHANGED <<stats, relay, events, page, faults>>

\* The request is over: run_region leaves region_sem and flushes the relay,
\* which does not await when the buffer is empty.
Leave(r, failed) ==
    /\ error' = [error EXCEPT ![r] = failed]
    /\ IF buf = <<>> THEN Goto(r, "done") /\ UNCHANGED relay
                     ELSE Goto(r, "flush") /\ Take(r, buf)

\* Mutant: a retry appends to the text of the broken attempt.
GiveUpOrRetryKeepsText(r, retryable) ==
    IF ~retryable \/ attempt[r] > MaxRetries
    THEN Leave(r, TRUE) /\ UNCHANGED <<text, count>>
    ELSE /\ Goto(r, "backoff")
         /\ error' = [error EXCEPT ![r] = TRUE]
         /\ count' = [count EXCEPT ![r] = 0]
         /\ UNCHANGED <<text, relay>>

\* Mutant: one retry too many.
GiveUpOrRetryLate(r, retryable) ==
    IF ~retryable \/ attempt[r] > MaxRetries + 1
    THEN Leave(r, TRUE) /\ UNCHANGED <<text, count>>
    ELSE /\ Goto(r, "backoff")
         /\ error' = [error EXCEPT ![r] = TRUE]
         /\ text' = [text EXCEPT ![r] = <<>>]
         /\ count' = [count EXCEPT ![r] = 0]
         /\ UNCHANGED relay

\* The except clause.  `emitted` is still False here, whatever has been
\* streamed: _consume_stream did not return.  A retry clears the text and the
\* count, but not prompt_tokens.
GiveUpOrRetry(r, retryable) ==
    IF ~retryable \/ attempt[r] > MaxRetries
    THEN Leave(r, TRUE) /\ UNCHANGED <<text, count>>
    ELSE /\ Goto(r, "backoff")
         /\ error' = [error EXCEPT ![r] = TRUE]
         /\ text' = [text EXCEPT ![r] = <<>>]
         /\ count' = [count EXCEPT ![r] = 0]
         /\ UNCHANGED relay

\* A status error, a transport error (also a read timeout) or a chunk that is
\* not JSON, before or amid the stream; _retryable() tells them apart.
EngineFault(r) ==
    /\ pc[r] \in {"open", "stream"}
    /\ \E retryable \in BOOLEAN : GiveUpOrRetry(r, retryable)
    /\ UNCHANGED <<attempt, prompt, events, page, faults>>

Retry(r) ==
    /\ pc[r] = "backoff"
    /\ attempt' = [attempt EXCEPT ![r] = @ + 1]
    /\ Goto(r, "sem")
    /\ UNCHANGED <<text, count, prompt, error, relay, events, page, faults>>

\* A content delta.  Deltas are counted only while no usage has been seen, and
\* on_delta either buffers or publishes: enough characters, or 50 ms.
ContentDelta(r) ==
    LET delta == <<r, attempt[r], Len(text[r]) + 1>> IN
    /\ pc[r] = "stream"
    /\ Len(text[r]) < Length[r]
    /\ text' = [text EXCEPT ![r] = Append(@, delta)]
    /\ count' = [count EXCEPT ![r] = IF prompt[r] THEN @ ELSE @ + 1]
    /\ \/ /\ buf' = Append(buf, delta)
          /\ UNCHANGED <<pc, seq, wire>>
       \/ /\ Take(r, Append(buf, delta))
          /\ Goto(r, "push")
    /\ UNCHANGED <<attempt, prompt, error, events, page, faults>>

Pushed(r) ==
    /\ pc[r] = "push"
    /\ Deliver(r)
    /\ Goto(r, "stream")
    /\ UNCHANGED <<stats, buf, seq, page, faults>>

\* on_delta raises: not an httpx error, so the request is given up.  The batch
\* is gone from the relay, whether it reached Redis or not.
PushFault(r) ==
    /\ pc[r] = "push"
    /\ Fault
    /\ GiveUpOrRetry(r, FALSE)
    /\ UNCHANGED events \/ events' = Append(events, wire[r])
    /\ UNCHANGED <<attempt, prompt, page>>

\* The usage chunk of a backend that supports include_usage.
Usage(r) ==
    /\ pc[r] = "stream"
    /\ ~(prompt[r] /\ count[r] = Len(text[r]))
    /\ count' = [count EXCEPT ![r] = Len(text[r])]
    /\ prompt' = [prompt EXCEPT ![r] = TRUE]
    /\ UNCHANGED <<pc, attempt, text, error, relay, events, page, faults>>

\* [DONE] or the end of the body.  An engine may stop early, at its token
\* limit or after an error chunk, which is skipped as one without choices.
StreamEnds(r) ==
    /\ pc[r] = "stream"
    /\ Leave(r, FALSE)
    /\ UNCHANGED <<attempt, text, count, prompt, events, page, faults>>

----------------------------------------------------------------------------
(* run_region() and _process_page() after the request *)

Flushed(r) ==
    /\ pc[r] = "flush"
    /\ Deliver(r)
    /\ Goto(r, "done")
    /\ UNCHANGED <<stats, buf, seq, page, faults>>

\* flush() raises out of run_region, and gather() out of _process_page; the
\* other regions run on without anybody waiting for them.
FlushFault(r) ==
    /\ pc[r] = "flush"
    /\ Fault
    /\ Goto(r, "raised")
    /\ UNCHANGED events \/ events' = Append(events, wire[r])
    /\ wire' = [wire EXCEPT ![r] = NoEvent]
    /\ UNCHANGED <<stats, buf, seq, page>>

\* gather() ends and `finally` flushes the relay.
Gathered ==
    /\ page = "gather"
    /\ LET raised == \E r \in Regions : pc[r] = "raised" IN
       /\ raised \/ \A r \in Regions : pc[r] = "done"
       /\ IF buf = <<>>
          THEN page' = (IF raised THEN "failed" ELSE "returned") /\ UNCHANGED relay
          ELSE page' = (IF raised THEN "flushExc" ELSE "flush") /\ Take("page", buf)
    /\ UNCHANGED <<pc, stats, events, faults>>

PageFlushed ==
    /\ page \in {"flush", "flushExc"}
    /\ Deliver("page")
    /\ page' = IF page = "flush" THEN "returned" ELSE "failed"
    /\ UNCHANGED <<pc, stats, buf, seq, faults>>

\* The flush in `finally` raises.  That ends the page, so it needs no bound.
PageFlushFault ==
    /\ page \in {"flush", "flushExc"}
    /\ UNCHANGED events \/ events' = Append(events, wire["page"])
    /\ wire' = [wire EXCEPT !["page"] = NoEvent]
    /\ page' = "failed"
    /\ UNCHANGED <<pc, stats, buf, seq, faults>>

----------------------------------------------------------------------------
RegionStep(r) ==
    \/ EnterRegion(r) \/ Acquire(r) \/ Respond(r) \/ EngineFault(r)
    \/ Retry(r) \/ ContentDelta(r) \/ Pushed(r) \/ Usage(r) \/ StreamEnds(r)
    \/ Flushed(r)

Next ==
    \/ \E r \in Regions : RegionStep(r) \/ PushFault(r) \/ FlushFault(r)
    \/ Gathered
    \/ PageFlushed
    \/ PageFlushFault

Spec == Init /\ [][Next]_vars

\* The event loop keeps running, permits go to those who wait, and httpx's
\* timeouts turn an engine that says nothing into a transport error.
FairSpec ==
    /\ Spec
    /\ WF_vars(Gathered) /\ WF_vars(PageFlushed)
    /\ \A r \in Regions : WF_vars(RegionStep(r))

----------------------------------------------------------------------------
(* Properties *)

Succeeded(r) == pc[r] = "done" /\ ~error[r]

\* What a request returns is the text of one attempt, whatever the engine did
\* to the earlier ones: no half of a broken stream stays in the page.
TextOfOneAttempt ==
    \A r \in Regions :
        Succeeded(r) => text[r] = [k \in 1..Len(text[r]) |-> <<r, attempt[r], k>>]

\* Of two deltas of one region, c was streamed before d.
Precedes(c, d) == c[1] = d[1] => c[2] < d[2] \/ (c[2] = d[2] /\ c[3] < d[3])

\* `seq` puts a page's TOKEN events in the order of the engine's deltas, even
\* when Redis has executed the XADDs of two regions in another order.
SeqOrdersDeltas ==
    \A i, j \in 1..Len(events) :
        events[i].seq < events[j].seq =>
            \A c \in ToSet(events[i].data), d \in ToSet(events[j].data) : Precedes(c, d)

Published == UNION {ToSet(events[i].data) : i \in 1..Len(events)}

\* When the page is done, and no publish failed, the client has been sent every
\* delta of its text: no delta is left in the relay.
EverythingRelayed ==
    page = "returned" /\ faults = 0 => \A r \in Regions : ToSet(text[r]) \subseteq Published

\* engine.py:12: retries happen "only while no token has been emitted yet (a
\* resumed stream would otherwise duplicate text)": the client is never sent a
\* piece of a region's text twice.
NothingRepeated ==
    \A c, d \in Published : c[1] = d[1] /\ c[3] = d[3] => c = d

\* Every request ends and the page with it: retries are bounded, and a request
\* that backs off or publishes never keeps others out for good.
PageEnds == <>(page \in {"returned", "failed"})

----------------------------------------------------------------------------
(* The inductive invariant behind TextOfOneAttempt, SeqOrdersDeltas and       *)
(* EverythingRelayed                                                          *)

\* The text is that of the attempt under way; a request backs off without any, and
\* only if it may try again.
OneAttempt ==
    \A r \in Regions :
        /\ \A k \in 1..Len(text[r]) : text[r][k] = <<r, attempt[r], k>>
        /\ pc[r] = "backoff" => text[r] = <<>> /\ attempt[r] <= MaxRetries

\* The batches taken from the relay that are on their way or in the stream.
Sent == {wire[x] : x \in Publishers} \cup {events[i] : i \in 1..Len(events)}

\* The delta that region r streams next.
NextDelta(r) == IF pc[r] = "backoff" THEN <<r, attempt[r] + 1, 1>>
                                     ELSE <<r, attempt[r], Len(text[r]) + 1>>

\* Batches are numbered in the order of their deltas, what is buffered comes after
\* them, and what will be streamed after that.
InOrder ==
    /\ \A a \in Sent : a.seq <= seq
    /\ \A a \in Sent, b \in Sent : a.seq < b.seq =>
          \A c \in ToSet(a.data), d \in ToSet(b.data) : Precedes(c, d)
    /\ \A a \in Sent : \A c \in ToSet(a.data) :
          /\ \A d \in ToSet(buf) : Precedes(c, d)
          /\ \A r \in Regions : Precedes(c, NextDelta(r))
    /\ \A c \in ToSet(buf) : \A r \in Regions : Precedes(c, NextDelta(r))

\* Without a fault nothing that was streamed is dropped: it is in the relay, on its
\* way, or in the job's stream; and nobody streams any more when the page ends.
InReach ==
    faults = 0 =>
        /\ \A r \in Regions : /\ pc[r] # "raised"
                              /\ wire[r].data # <<>> => pc[r] \in {"push", "flush"}
        /\ wire["page"].data # <<>> => page \in {"flush", "flushExc"}
        /\ page \in {"flush", "returned"} => buf = <<>> /\ \A r \in Regions : pc[r] = "done"
        /\ page # "failed" => \A r \in Regions : \A d \in ToSet(text[r]) :
              \/ d \in ToSet(buf) \cup Published
              \/ \E x \in Publishers : d \in ToSet(wire[x].data)

RegionInv ==
    /\ TypeOK
    /\ OneAttempt
    /\ InOrder
    /\ InReach
=============================================================================
