------------------------- MODULE RegionStreamProofs -------------------------
(***************************************************************************)
(* For any number and length of regions, of permits, retries and faults:   *)
(* the text of a region is that of one attempt, `seq` puts the TOKEN       *)
(* events in the order in which their deltas were streamed, and without a  *)
(* publish that fails every delta of a page is published before the page   *)
(* is returned.                                                            *)
(*                                                                         *)
(* RegionInv is inductive.  To the relay all steps look alike: they stream *)
(* at most one delta, and either buffer it or take the whole buffer as one *)
(* batch (RelayMoves).                                                     *)
(***************************************************************************)
EXTENDS RegionStream, SequenceTheorems, TLAPS

----------------------------------------------------------------------------
(* Deltas and sequences of them *)

\* A delta is a region, an attempt and a position.
LEMMA Deltas ==
    /\ \A r \in Regions, a \in 1..(MaxRetries + 1), k \in Nat :
          k \in 1..Length[r] => <<r, a, k>> \in Delta
    /\ \A d \in Delta : d[1] \in Regions /\ d[2] \in Nat /\ d[3] \in Nat
BY RegionsAssumption DEF Delta

\* Deltas of a region are streamed one after the other.
LEMMA PrecedesTransitive ==
    ASSUME NEW c \in Regions \X Nat \X Nat, NEW d \in Regions \X Nat \X Nat,
           NEW e \in Regions \X Nat \X Nat,
           Precedes(c, d), Precedes(d, e), d[1] = e[1]
    PROVE  Precedes(c, e)
BY DEF Precedes

\* Append adds one element.
LEMMA AppendSet ==
    ASSUME NEW S, NEW s \in Seq(S), NEW x \in S
    PROVE  ToSet(Append(s, x)) = ToSet(s) \cup {x}
<1>1. /\ Append(s, x) \in Seq(S) /\ Len(Append(s, x)) = Len(s) + 1
      /\ \A i \in 1..Len(s) : Append(s, x)[i] = s[i]
      /\ Append(s, x)[Len(s) + 1] = x
    BY AppendProperties
<1>2. /\ DOMAIN s = 1..Len(s) /\ DOMAIN Append(s, x) = 1..(Len(s) + 1)
      /\ Len(s) \in Nat
    BY <1>1, LenProperties
<1>. QED  BY <1>1, <1>2 DEF ToSet

\* The elements of a sequence over S are in S.
LEMMA SetOfSeq ==
    ASSUME NEW S, NEW s \in Seq(S)
    PROVE  ToSet(s) \subseteq S /\ (ToSet(s) = {} <=> s = <<>>)
<1>1. DOMAIN s = 1..Len(s) /\ Len(s) \in Nat /\ \A i \in 1..Len(s) : s[i] \in S
    BY LenProperties, ElementOfSeq
<1>2. s # <<>> => 1 \in 1..Len(s)
    BY <1>1, EmptySeq
<1>3. s = <<>> => DOMAIN s = {}
    BY <1>1
<1>. QED  BY <1>1, <1>2, <1>3 DEF ToSet

----------------------------------------------------------------------------
(* Types *)

\* A region starts without text, and so it does after every break.
LEMMA NextDeltaType ==
    ASSUME TypeOK, NEW r \in Regions
    PROVE  /\ NextDelta(r) \in Regions \X Nat \X Nat /\ NextDelta(r)[1] = r
           /\ pc[r] # "backoff" /\ Len(text[r]) < Length[r] => NextDelta(r) \in Delta
<1>1. /\ attempt[r] \in 1..(MaxRetries + 1) /\ Len(text[r]) \in Nat /\ Length[r] \in Nat
      /\ MaxRetries \in Nat
    BY RegionsAssumption DEF TypeOK
<1>2. NextDelta(r) \in Regions \X Nat \X Nat /\ NextDelta(r)[1] = r
    BY <1>1 DEF NextDelta
<1>. QED  BY <1>1, <1>2, Deltas DEF NextDelta

\* flush() takes what is pending as the next batch.
LEMMA TakeType ==
    ASSUME TypeOK, NEW x \in Publishers, NEW pending \in Seq(Delta), Take(x, pending)
    PROVE  /\ buf' = <<>> /\ buf' \in Seq(Delta)
           /\ seq' = seq + 1 /\ seq' \in Nat
           /\ wire' \in [Publishers -> Event]
           /\ wire'[x] = [seq |-> seq + 1, data |-> pending]
           /\ \A y \in Publishers \ {x} : wire'[y] = wire[y]
BY DEF TypeOK, Take, Event

\* A batch that arrives is the last event.
LEMMA DeliverType ==
    ASSUME TypeOK, NEW x \in Publishers, Deliver(x)
    PROVE  /\ events' \in Seq(Event) /\ events' = Append(events, wire[x])
           /\ wire' \in [Publishers -> Event] /\ wire'[x] = NoEvent
           /\ \A y \in Publishers \ {x} : wire'[y] = wire[y]
BY DEF TypeOK, Deliver, Event, NoEvent

\* A batch whose publish failed may have arrived or not.
LEMMA LostOrDelivered ==
    ASSUME TypeOK, NEW x \in Publishers, events' = events \/ events' = Append(events, wire[x])
    PROVE  events' \in Seq(Event)
<1>1. wire[x] \in Event /\ events \in Seq(Event)
    BY DEF TypeOK
<1>. QED  BY <1>1, AppendProperties

\* The batch in hand is dropped.
LEMMA DropType ==
    ASSUME TypeOK, NEW x \in Publishers, wire' = [wire EXCEPT ![x] = NoEvent]
    PROVE  /\ wire' \in [Publishers -> Event] /\ wire'[x] = NoEvent
           /\ \A y \in Publishers \ {x} : wire'[y] = wire[y]
<1>1. NoEvent \in Event
    BY DEF NoEvent, Event
<1>. QED  BY <1>1 DEF TypeOK

\* Every step keeps the types.
LEMMA TypeStep ==
    ASSUME TypeOK, OneAttempt, [Next]_vars
    PROVE  TypeOK'
<1>. USE RegionsAssumption DEF TypeOK, stats, relay, Goto, InRegion, InEngine
<1>1. ASSUME NEW r \in Regions, EnterRegion(r) \/ Acquire(r) \/ Respond(r) PROVE TypeOK'
    BY <1>1 DEF EnterRegion, Acquire, Respond
<1>2. ASSUME NEW r \in Regions, NEW failed \in BOOLEAN, Leave(r, failed)
      PROVE  /\ pc' \in [Regions -> InRegion \cup {"queued", "flush", "done", "raised"}]
             /\ error' \in [Regions -> BOOLEAN]
             /\ buf' \in Seq(Delta) /\ seq' \in Nat /\ wire' \in [Publishers -> Event]
    <2>1. r \in Publishers
        BY DEF Publishers
    <2>. QED  BY <1>2, <2>1, TakeType DEF Leave
<1>3. ASSUME NEW r \in Regions, NEW retryable \in BOOLEAN, GiveUpOrRetry(r, retryable)
      PROVE  /\ pc' \in [Regions -> InRegion \cup {"queued", "flush", "done", "raised"}]
             /\ text' \in [Regions -> Seq(Delta)]
             /\ \A o \in Regions : Len(text'[o]) <= Length[o]
             /\ count' \in [Regions -> Nat]
             /\ error' \in [Regions -> BOOLEAN]
             /\ buf' \in Seq(Delta) /\ seq' \in Nat /\ wire' \in [Publishers -> Event]
    <2>1. CASE ~retryable \/ attempt[r] > MaxRetries
        BY <1>2, <1>3, <2>1 DEF GiveUpOrRetry
    <2>2. CASE ~(~retryable \/ attempt[r] > MaxRetries)
        <3>1. /\ pc' = [pc EXCEPT ![r] = "backoff"]
              /\ error' = [error EXCEPT ![r] = TRUE]
              /\ text' = [text EXCEPT ![r] = <<>>]
              /\ count' = [count EXCEPT ![r] = 0]
              /\ UNCHANGED <<buf, seq, wire>>
            BY <1>3, <2>2 DEF GiveUpOrRetry
        <3>2. <<>> \in Seq(Delta) /\ Len(<<>>) = 0
            OBVIOUS
        <3>3. text' \in [Regions -> Seq(Delta)] /\ \A o \in Regions : Len(text'[o]) <= Length[o]
            BY <3>1, <3>2
        <3>. QED  BY <3>1, <3>3
    <2>. QED  BY <2>1, <2>2
<1>4. ASSUME NEW r \in Regions, EngineFault(r) PROVE TypeOK'
    BY <1>3, <1>4 DEF EngineFault
<1>5. ASSUME NEW r \in Regions, PushFault(r) PROVE TypeOK'
    <2>1. events' \in Seq(Event)
        BY <1>5, LostOrDelivered DEF PushFault, Publishers
    <2>2. GiveUpOrRetry(r, FALSE) /\ FALSE \in BOOLEAN
        BY <1>5 DEF PushFault
    <2>3. UNCHANGED <<attempt, prompt, page>> /\ faults' \in 0..MaxFaults
        BY <1>5 DEF PushFault, Fault
    <2>. QED  BY <1>3, <2>1, <2>2, <2>3
<1>6. ASSUME NEW r \in Regions, Retry(r) PROVE TypeOK'
    BY <1>6 DEF Retry, OneAttempt
<1>7. ASSUME NEW r \in Regions, ContentDelta(r) PROVE TypeOK'
    <2>. DEFINE delta == <<r, attempt[r], Len(text[r]) + 1>>
    <2>1. delta \in Delta
        <3>1. Len(text[r]) < Length[r] /\ pc[r] = "stream"
            BY <1>7 DEF ContentDelta
        <3>. QED  BY <3>1, NextDeltaType DEF NextDelta
    <2>2. text' \in [Regions -> Seq(Delta)] /\ \A o \in Regions : Len(text'[o]) <= Length[o]
        <3>1. /\ Append(text[r], delta) \in Seq(Delta)
              /\ Len(Append(text[r], delta)) = Len(text[r]) + 1
            BY <2>1, AppendProperties
        <3>2. Len(text[r]) < Length[r] /\ text' = [text EXCEPT ![r] = Append(text[r], delta)]
            BY <1>7 DEF ContentDelta
        <3>. HIDE DEF delta
        <3>. QED  BY <3>1, <3>2
    <2>3. count' \in [Regions -> Nat]
        BY <1>7 DEF ContentDelta
    <2>4. /\ pc' \in [Regions -> InRegion \cup {"queued", "flush", "done", "raised"}]
          /\ buf' \in Seq(Delta) /\ seq' \in Nat /\ wire' \in [Publishers -> Event]
        <3>1. r \in Publishers /\ Append(buf, delta) \in Seq(Delta)
            BY <2>1 DEF Publishers
        <3>. QED  BY <1>7, <3>1, TakeType DEF ContentDelta
    <2>. QED  BY <1>7, <2>2, <2>3, <2>4 DEF ContentDelta
<1>8. ASSUME NEW r \in Regions, Pushed(r) \/ Flushed(r) PROVE TypeOK'
    <2>1. r \in Publishers /\ Deliver(r)
        BY <1>8 DEF Publishers, Pushed, Flushed
    <2>. QED  BY <1>8, <2>1, DeliverType DEF Pushed, Flushed
<1>9. ASSUME NEW r \in Regions, Usage(r) PROVE TypeOK'
    BY <1>9 DEF Usage
<1>10. ASSUME NEW r \in Regions, StreamEnds(r) PROVE TypeOK'
    BY <1>2, <1>10 DEF StreamEnds
<1>11. ASSUME NEW r \in Regions, FlushFault(r) PROVE TypeOK'
    <2>1. events' \in Seq(Event) /\ wire' \in [Publishers -> Event]
        BY <1>11, LostOrDelivered, DropType DEF FlushFault, Publishers
    <2>. QED  BY <1>11, <2>1 DEF FlushFault, Fault
<1>12. CASE Gathered
    <2>1. "page" \in Publishers
        BY DEF Publishers
    <2>. QED  BY <1>12, <2>1, TakeType DEF Gathered
<1>13. CASE PageFlushed \/ PageFlushFault
    <2>1. events' \in Seq(Event) /\ wire' \in [Publishers -> Event]
        BY <1>13, LostOrDelivered, DropType, DeliverType
        DEF PageFlushed, PageFlushFault, Publishers
    <2>. QED  BY <1>13, <2>1 DEF PageFlushed, PageFlushFault
<1>14. CASE UNCHANGED vars
    BY <1>14 DEF vars
<1>. QED  BY <1>1, <1>4, <1>5, <1>6, <1>7, <1>8, <1>9, <1>10, <1>11, <1>12, <1>13, <1>14
          DEF Next, RegionStep

----------------------------------------------------------------------------
(* The text of a region *)

\* What ends or breaks a request keeps the text, or clears it before a retry.
LEMMA BreakKeeps ==
    ASSUME TypeOK, NEW r \in Regions, NEW retryable \in BOOLEAN, GiveUpOrRetry(r, retryable)
    PROVE  /\ \A o \in Regions \ {r} : pc'[o] = pc[o] /\ text'[o] = text[o]
           /\ \/ pc'[r] \in {"done", "flush"} /\ text'[r] = text[r] /\ Leave(r, TRUE)
              \/ /\ pc'[r] = "backoff" /\ text'[r] = <<>> /\ attempt[r] <= MaxRetries
                 /\ retryable /\ UNCHANGED relay
<1>1. CASE ~retryable \/ attempt[r] > MaxRetries
    BY <1>1 DEF GiveUpOrRetry, Leave, TypeOK, Goto
<1>2. CASE ~(~retryable \/ attempt[r] > MaxRetries)
    BY <1>2, RegionsAssumption DEF GiveUpOrRetry, TypeOK, Goto
<1>. QED  BY <1>1, <1>2

\* What a step does to the text of a region: nothing, the next delta, or all of it is
\* dropped before a retry.
LEMMA TextMoves ==
    ASSUME TypeOK, [Next]_vars, NEW r \in Regions
    PROVE  \/ /\ text'[r] = text[r] /\ attempt'[r] = attempt[r]
              /\ pc'[r] = "backoff" <=> pc[r] = "backoff"
           \/ /\ text'[r] = <<>> /\ attempt'[r] = attempt[r] /\ attempt[r] <= MaxRetries
              /\ pc[r] # "backoff" /\ pc'[r] = "backoff"
           \/ /\ text'[r] = text[r] /\ attempt'[r] = attempt[r] + 1
              /\ pc[r] = "backoff" /\ pc'[r] = "sem"
           \/ /\ pc[r] = "stream" /\ pc'[r] # "backoff" /\ attempt'[r] = attempt[r]
              /\ Len(text[r]) < Length[r] /\ text'[r] = Append(text[r], NextDelta(r))
<1>. USE DEF stats, relay, Goto
<1>1. ASSUME NEW o \in Regions, RegionStep(o) \/ PushFault(o) \/ FlushFault(o), o # r
      PROVE  text'[r] = text[r] /\ attempt'[r] = attempt[r] /\ pc'[r] = pc[r]
    <2>1. CASE EngineFault(o) \/ PushFault(o)
        <3>1. FALSE \in BOOLEAN
            OBVIOUS
        <3>2. PICK retryable \in BOOLEAN : GiveUpOrRetry(o, retryable)
            BY <2>1, <3>1 DEF EngineFault, PushFault
        <3>. QED  BY <1>1, <2>1, <3>2, BreakKeeps DEF EngineFault, PushFault
    <2>2. CASE StreamEnds(o)
        BY <1>1, <2>2 DEF StreamEnds, Leave, TypeOK
    <2>3. CASE ContentDelta(o)
        BY <1>1, <2>3 DEF ContentDelta, TypeOK
    <2>. QED  BY <1>1, <2>1, <2>2, <2>3 DEF RegionStep, EnterRegion, Acquire, Respond,
            Retry, Pushed, Usage, Flushed, FlushFault, TypeOK
<1>2. CASE EngineFault(r) \/ PushFault(r)
    <2>1. FALSE \in BOOLEAN
        OBVIOUS
    <2>2. PICK retryable \in BOOLEAN : GiveUpOrRetry(r, retryable)
        BY <1>2, <2>1 DEF EngineFault, PushFault
    <2>. QED  BY <1>2, <2>2, BreakKeeps DEF EngineFault, PushFault
<1>3. CASE Retry(r)
    BY <1>3 DEF Retry, TypeOK
<1>4. CASE ContentDelta(r)
    BY <1>4 DEF ContentDelta, NextDelta, TypeOK
<1>5. CASE StreamEnds(r)
    BY <1>5 DEF StreamEnds, Leave, TypeOK
<1>6. CASE EnterRegion(r) \/ Acquire(r) \/ Respond(r) \/ Pushed(r) \/ Usage(r) \/ Flushed(r)
           \/ FlushFault(r)
    BY <1>6 DEF EnterRegion, Acquire, Respond, Pushed, Usage, Flushed, FlushFault, TypeOK
<1>7. CASE Gathered \/ PageFlushed \/ PageFlushFault \/ UNCHANGED vars
    BY <1>7 DEF Gathered, PageFlushed, PageFlushFault, vars
<1>. QED  BY <1>1, <1>2, <1>3, <1>4, <1>5, <1>6, <1>7 DEF Next, RegionStep

\* A retry starts from nothing.
LEMMA OneAttemptStep ==
    ASSUME TypeOK, OneAttempt, [Next]_vars
    PROVE  OneAttempt'
<1>. SUFFICES ASSUME NEW r \in Regions
              PROVE  /\ \A k \in 1..Len(text'[r]) : text'[r][k] = <<r, attempt'[r], k>>
                     /\ pc'[r] = "backoff" => text'[r] = <<>> /\ attempt'[r] <= MaxRetries
    BY DEF OneAttempt
<1>1. CASE pc[r] = "stream" /\ text'[r] = Append(text[r], NextDelta(r)) /\ pc'[r] # "backoff"
           /\ attempt'[r] = attempt[r] /\ Len(text[r]) < Length[r]
    <2>1. NextDelta(r) = <<r, attempt[r], Len(text[r]) + 1>>
        BY <1>1 DEF NextDelta
    <2>2. NextDelta(r) \in Delta /\ text[r] \in Seq(Delta)
        BY <1>1, NextDeltaType DEF TypeOK
    <2>3. /\ Len(text'[r]) = Len(text[r]) + 1 /\ Len(text[r]) \in Nat
          /\ \A k \in 1..Len(text[r]) : text'[r][k] = text[r][k]
          /\ text'[r][Len(text[r]) + 1] = NextDelta(r)
        BY <1>1, <2>2, AppendProperties
    <2>4. \A k \in 1..Len(text[r]) : text[r][k] = <<r, attempt[r], k>>
        BY DEF OneAttempt
    <2>. QED  BY <1>1, <2>1, <2>3, <2>4
<1>2. CASE text'[r] = <<>> /\ attempt'[r] <= MaxRetries
    BY <1>2
<1>. QED  BY <1>1, <1>2, TextMoves DEF OneAttempt

\* The delta that a region streams next only moves on.
LEMMA NextDeltaMoves ==
    ASSUME TypeOK, OneAttempt, [Next]_vars, NEW r \in Regions
    PROVE  /\ NextDelta(r)' = NextDelta(r) \/ Precedes(NextDelta(r), NextDelta(r)')
           /\ text'[r] = Append(text[r], NextDelta(r)) => Precedes(NextDelta(r), NextDelta(r)')
<1>1. attempt[r] \in Nat /\ Len(text[r]) \in Nat /\ text[r] \in Seq(Delta)
    BY RegionsAssumption DEF TypeOK
<1>2. Len(Append(text[r], NextDelta(r))) = Len(text[r]) + 1
    BY <1>1
<1>3. text[r] # Append(text[r], NextDelta(r)) /\ <<>> # Append(text[r], NextDelta(r))
    BY <1>1, <1>2
<1>4. CASE text'[r] = text[r] /\ attempt'[r] = attempt[r] /\ (pc'[r] = "backoff" <=> pc[r] = "backoff")
    <2>1. NextDelta(r)' = NextDelta(r)
        BY <1>4 DEF NextDelta
    <2>. QED  BY <1>3, <1>4, <2>1
<1>5. CASE /\ text'[r] = <<>> /\ attempt'[r] = attempt[r]
           /\ pc[r] # "backoff" /\ pc'[r] = "backoff"
    <2>1. /\ NextDelta(r) = <<r, attempt[r], Len(text[r]) + 1>>
          /\ NextDelta(r)' = <<r, attempt[r] + 1, 1>>
        BY <1>5 DEF NextDelta
    <2>. QED  BY <1>1, <1>3, <1>5, <2>1 DEF Precedes
<1>6. CASE /\ text'[r] = text[r] /\ attempt'[r] = attempt[r] + 1
           /\ pc[r] = "backoff" /\ pc'[r] = "sem"
    <2>1. text[r] = <<>>
        BY <1>6 DEF OneAttempt
    <2>2. NextDelta(r) = <<r, attempt[r] + 1, 1>> /\ NextDelta(r)' = <<r, attempt[r] + 1, 1>>
        BY <1>6, <2>1 DEF NextDelta
    <2>. QED  BY <1>3, <1>6, <2>2
<1>7. CASE /\ pc[r] = "stream" /\ pc'[r] # "backoff" /\ attempt'[r] = attempt[r]
           /\ text'[r] = Append(text[r], NextDelta(r))
    <2>1. /\ NextDelta(r) = <<r, attempt[r], Len(text[r]) + 1>>
          /\ NextDelta(r)' = <<r, attempt[r], Len(text[r]) + 2>>
        BY <1>1, <1>2, <1>7 DEF NextDelta
    <2>. QED  BY <1>1, <1>7, <2>1 DEF Precedes
<1>. QED  BY <1>4, <1>5, <1>6, <1>7, TextMoves

----------------------------------------------------------------------------
(* The relay *)

\* An XADD executed or not, and what is in hand afterwards: of the batches sent only
\* the latter can be new.
LEMMA SentMoves ==
    ASSUME TypeOK, NEW x \in Publishers, NEW b \in Event,
           wire' = [wire EXCEPT ![x] = b] \/ wire' = wire,
           events' = events \/ events' = Append(events, wire[x])
    PROVE  Sent' \subseteq Sent \cup {b}
<1>1. \A y \in Publishers : wire'[y] = b \/ wire'[y] = wire[y]
    BY DEF TypeOK
<1>2. \A i \in 1..Len(events') : events'[i] = wire[x] \/ (i \in 1..Len(events) /\ events'[i] = events[i])
    <2>1. CASE events' = Append(events, wire[x])
        <3>1. wire[x] \in Event /\ events \in Seq(Event)
            BY DEF TypeOK
        <3>2. /\ Len(events') = Len(events) + 1 /\ Len(events) \in Nat
              /\ \A i \in 1..Len(events) : events'[i] = events[i]
              /\ events'[Len(events) + 1] = wire[x]
            BY <2>1, <3>1, AppendProperties
        <3>. QED  BY <3>2
    <2>2. CASE events' = events
        BY <2>2
    <2>. QED  BY <2>1, <2>2
<1>. QED  BY <1>1, <1>2 DEF Sent

\* The batch that flush() takes.
Batch(pending) == [seq |-> seq + 1, data |-> pending]

\* A step buffers what it streams, or takes all there is as one batch.
Buffers(new) ==
    /\ ToSet(buf') = ToSet(buf) \cup new /\ seq' = seq
    /\ Sent' \subseteq Sent \cup {NoEvent}

TakesAll(new) ==
    /\ buf' = <<>> /\ seq' = seq + 1
    /\ \E pending \in Seq(Delta) :
          /\ ToSet(pending) = ToSet(buf) \cup new
          /\ Sent' \subseteq Sent \cup {Batch(pending)}

\* What the end of a request does to the relay.
LEMMA LeaveMoves ==
    ASSUME TypeOK, NEW r \in Regions, NEW failed \in BOOLEAN, Leave(r, failed),
           events' = events \/ events' = Append(events, wire[r])
    PROVE  Buffers({}) \/ TakesAll({})
<1>1. r \in Publishers /\ NoEvent \in Event /\ buf \in Seq(Delta) /\ Batch(buf) \in Event
    BY DEF Publishers, NoEvent, Event, TypeOK, Batch
<1>2. CASE buf = <<>>
    <2>1. UNCHANGED <<buf, seq, wire>>
        BY <1>2 DEF Leave, relay
    <2>2. Sent' \subseteq Sent \cup {NoEvent}
        BY <1>1, <2>1, SentMoves
    <2>. QED  BY <2>1, <2>2 DEF Buffers
<1>3. CASE buf # <<>>
    <2>1. Take(r, buf)
        BY <1>3 DEF Leave
    <2>2. Sent' \subseteq Sent \cup {Batch(buf)}
        BY <1>1, <2>1, SentMoves DEF Take, Batch
    <2>. QED  BY <1>1, <2>1, <2>2 DEF TakesAll, Take
<1>. QED  BY <1>2, <1>3

\* Of all steps only ContentDelta streams anything.
LEMMA RelayMoves ==
    ASSUME TypeOK, [Next]_vars
    PROVE  \E new \in SUBSET Delta :
              /\ Buffers(new) \/ TakesAll(new)
              /\ \A d \in new : \E r \in Regions : /\ d = NextDelta(r)
                                                   /\ text'[r] = Append(text[r], d)
<1>. USE DEF stats, relay
<1>1. SUFFICES \/ Buffers({}) \/ TakesAll({})
               \/ \E r \in Regions : /\ NextDelta(r) \in Delta
                                     /\ Buffers({NextDelta(r)}) \/ TakesAll({NextDelta(r)})
                                     /\ text'[r] = Append(text[r], NextDelta(r))
    <2>1. CASE Buffers({}) \/ TakesAll({})
        <3>. WITNESS {} \in SUBSET Delta
        <3>. QED  BY <2>1
    <2>2. ASSUME NEW r \in Regions, NextDelta(r) \in Delta,
                 Buffers({NextDelta(r)}) \/ TakesAll({NextDelta(r)}),
                 text'[r] = Append(text[r], NextDelta(r))
          PROVE  \E new \in SUBSET Delta :
                    /\ Buffers(new) \/ TakesAll(new)
                    /\ \A d \in new : \E o \in Regions : /\ d = NextDelta(o)
                                                         /\ text'[o] = Append(text[o], d)
        <3>. USE <2>2
        <3>. WITNESS {NextDelta(r)} \in SUBSET Delta
        <3>. QED  OBVIOUS
    <2>. QED  BY <1>1, <2>1, <2>2
<1>2. "page" \in Publishers /\ NoEvent \in Event /\ buf \in Seq(Delta)
    BY DEF Publishers, NoEvent, Event, TypeOK
<1>3. ASSUME UNCHANGED <<buf, seq, wire, events>> PROVE Buffers({})
    <2>1. Sent' \subseteq Sent \cup {NoEvent}
        BY <1>2, <1>3, SentMoves
    <2>. QED  BY <1>3, <2>1 DEF Buffers
<1>4. ASSUME NEW x \in Publishers, wire' = [wire EXCEPT ![x] = NoEvent], UNCHANGED <<buf, seq>>,
             events' = events \/ events' = Append(events, wire[x])
      PROVE  Buffers({})
    BY <1>2, <1>4, SentMoves DEF Buffers
<1>5. ASSUME NEW r \in Regions, EngineFault(r) \/ PushFault(r)
      PROVE  Buffers({}) \/ TakesAll({})
    <2>1. TRUE \in BOOLEAN /\ FALSE \in BOOLEAN
        OBVIOUS
    <2>2. PICK retryable \in BOOLEAN : GiveUpOrRetry(r, retryable)
        BY <1>5, <2>1 DEF EngineFault, PushFault
    <2>3. events' = events \/ events' = Append(events, wire[r])
        BY <1>5 DEF EngineFault, PushFault
    <2>4. CASE Leave(r, TRUE)
        BY <2>1, <2>3, <2>4, LeaveMoves
    <2>5. CASE UNCHANGED relay
        BY <1>2, <2>3, <2>5, SentMoves DEF Buffers, Publishers
    <2>. QED  BY <2>2, <2>4, <2>5, BreakKeeps
<1>6. ASSUME NEW r \in Regions, StreamEnds(r) PROVE Buffers({}) \/ TakesAll({})
    <2>1. FALSE \in BOOLEAN
        OBVIOUS
    <2>. QED  BY <1>6, <2>1, LeaveMoves DEF StreamEnds
<1>7. ASSUME NEW r \in Regions, ContentDelta(r)
      PROVE  /\ NextDelta(r) \in Delta
             /\ Buffers({NextDelta(r)}) \/ TakesAll({NextDelta(r)})
             /\ text'[r] = Append(text[r], NextDelta(r))
    <2>. DEFINE delta == NextDelta(r)
    <2>1. /\ pc[r] = "stream" /\ delta = <<r, attempt[r], Len(text[r]) + 1>>
          /\ Len(text[r]) < Length[r]
        BY <1>7 DEF ContentDelta, NextDelta
    <2>2. delta \in Delta
        BY <2>1, NextDeltaType
    <2>3. text'[r] = Append(text[r], delta)
        BY <1>7, <2>1 DEF ContentDelta, TypeOK
    <2>4. /\ \/ buf' = Append(buf, delta) /\ UNCHANGED <<seq, wire>>
             \/ Take(r, Append(buf, delta))
          /\ UNCHANGED events
        BY <1>7, <2>1 DEF ContentDelta
    <2>. HIDE DEF delta
    <2>5. Append(buf, delta) \in Seq(Delta) /\ ToSet(Append(buf, delta)) = ToSet(buf) \cup {delta}
        BY <1>2, <2>2, AppendSet
    <2>6. ASSUME buf' = Append(buf, delta), UNCHANGED <<seq, wire>> PROVE Buffers({delta})
        <3>1. Sent' \subseteq Sent \cup {NoEvent}
            BY <1>2, <2>4, <2>6, SentMoves
        <3>. QED  BY <2>5, <2>6, <3>1 DEF Buffers
    <2>7. ASSUME Take(r, Append(buf, delta)) PROVE TakesAll({delta})
        <3>1. Batch(Append(buf, delta)) \in Event /\ r \in Publishers
            BY <2>5 DEF Batch, Event, Publishers, TypeOK
        <3>2. Sent' \subseteq Sent \cup {Batch(Append(buf, delta))}
            BY <2>4, <2>7, <3>1, SentMoves DEF Take, Batch
        <3>. QED  BY <2>5, <2>7, <3>2 DEF TakesAll, Take
    <2>. QED  BY <2>2, <2>3, <2>4, <2>6, <2>7 DEF delta
<1>8. CASE Gathered
    <2>1. CASE buf = <<>>
        BY <1>3, <1>8, <2>1 DEF Gathered
    <2>2. CASE buf # <<>>
        <3>1. Take("page", buf) /\ UNCHANGED events
            BY <1>8, <2>2 DEF Gathered
        <3>2. Batch(buf) \in Event
            BY DEF Batch, Event, TypeOK
        <3>3. Sent' \subseteq Sent \cup {Batch(buf)}
            BY <1>2, <3>1, <3>2, SentMoves DEF Take, Batch
        <3>. QED  BY <1>2, <3>1, <3>3 DEF TakesAll, Take
    <2>. QED  BY <2>1, <2>2
<1>9. CASE PageFlushed \/ PageFlushFault
    BY <1>2, <1>4, <1>9 DEF PageFlushed, PageFlushFault, Deliver
<1>10. ASSUME NEW r \in Regions, Pushed(r) \/ Flushed(r) \/ FlushFault(r)
       PROVE  Buffers({})
    BY <1>4, <1>10 DEF Pushed, Flushed, FlushFault, Deliver, Publishers
<1>11. ASSUME NEW r \in Regions,
              EnterRegion(r) \/ Acquire(r) \/ Respond(r) \/ Retry(r) \/ Usage(r)
       PROVE  Buffers({}) \/ TakesAll({})
    <2>1. UNCHANGED <<buf, seq, wire, events>>
        BY <1>11 DEF EnterRegion, Acquire, Respond, Retry, Usage
    <2>. QED  BY <1>3, <2>1
<1>12. CASE UNCHANGED vars
    BY <1>3, <1>12 DEF vars
<1>. QED  BY <1>5, <1>6, <1>7, <1>8, <1>9, <1>10, <1>11, <1>12 DEF Next, RegionStep

\* Batches and what they contain stay in the order in which deltas were streamed.
LEMMA InOrderStep ==
    ASSUME TypeOK, OneAttempt, InOrder, [Next]_vars
    PROVE  InOrder'
<1>1. PICK new \in SUBSET Delta :
         /\ Buffers(new) \/ TakesAll(new)
         /\ \A d \in new : \E r \in Regions : d = NextDelta(r) /\ text'[r] = Append(text[r], d)
    BY RelayMoves
<1>. DEFINE old == ToSet(buf) \cup UNION {ToSet(a.data) : a \in Sent}
<1>2. /\ ToSet(buf) \subseteq Delta /\ seq \in Nat
      /\ \A a \in Sent : a \in Event /\ ToSet(a.data) \subseteq Delta
    <2>1. \A a \in Sent : a \in Event
        BY ElementOfSeq DEF Sent, TypeOK
    <2>2. \A a \in Event : ToSet(a.data) \subseteq Delta
        BY SetOfSeq DEF Event
    <2>3. ToSet(buf) \subseteq Delta /\ seq \in Nat
        BY SetOfSeq DEF TypeOK
    <2>. QED  BY <2>1, <2>2, <2>3
<1>3. \A c \in old : c \in Delta
    BY <1>2
<1>4. \A r \in Regions : /\ NextDelta(r) \in Regions \X Nat \X Nat /\ NextDelta(r)[1] = r
                         /\ NextDelta(r)' \in Regions \X Nat \X Nat /\ NextDelta(r)'[1] = r
    <2>1. TypeOK'
        BY TypeStep
    <2>2. \A r \in Regions : NextDelta(r) \in Regions \X Nat \X Nat /\ NextDelta(r)[1] = r
        BY NextDeltaType
    <2>3. ASSUME TypeOK' , NEW r \in Regions
          PROVE  NextDelta(r)' \in Regions \X Nat \X Nat /\ NextDelta(r)'[1] = r
        <3>1. /\ attempt'[r] \in 1..(MaxRetries + 1) /\ Len(text'[r]) \in Nat
              /\ MaxRetries \in Nat
            BY <2>3, RegionsAssumption DEF TypeOK
        <3>. QED  BY <3>1 DEF NextDelta
    <2>. QED  BY <2>1, <2>2, <2>3
<1>5. \A c \in old : \A d \in new : Precedes(c, d)
    BY <1>1 DEF InOrder
<1>6. ASSUME NEW c \in old \cup new, NEW r \in Regions
      PROVE  Precedes(c, NextDelta(r)')
    <2>1. c \in Regions \X Nat \X Nat
        BY <1>3, <1>6 DEF Delta
    <2>2. CASE c \in old
        <3>1. Precedes(c, NextDelta(r))
            BY <2>2 DEF InOrder
        <3>. QED  BY <1>4, <2>1, <3>1, NextDeltaMoves, PrecedesTransitive
    <2>3. CASE c \in new
        <3>1. PICK o \in Regions : c = NextDelta(o) /\ text'[o] = Append(text[o], c)
            BY <1>1, <2>3
        <3>2. CASE o = r
            BY <3>1, <3>2, NextDeltaMoves
        <3>3. CASE o # r
            BY <1>4, <3>1, <3>3 DEF Precedes
        <3>. QED  BY <3>2, <3>3
    <2>. QED  BY <2>2, <2>3
<1>7. CASE Buffers(new)
    <2>0. ToSet(NoEvent.data) = {} /\ NoEvent.seq = 0
        BY DEF NoEvent, ToSet
    <2>1. /\ ToSet(buf') = ToSet(buf) \cup new /\ seq' = seq
          /\ \A a \in Sent' : a \in Sent \/ (ToSet(a.data) = {} /\ a.seq = 0)
        BY <1>7, <2>0 DEF Buffers
    <2>2. \A a \in Sent' : a.seq <= seq'
        BY <1>2, <2>1 DEF InOrder
    <2>3. ASSUME NEW a \in Sent', NEW b \in Sent', a.seq < b.seq
          PROVE  \A c \in ToSet(a.data), d \in ToSet(b.data) : Precedes(c, d)
        BY <2>1, <2>3 DEF InOrder
    <2>4. \A a \in Sent' : \A c \in ToSet(a.data) :
             /\ c \in old
             /\ \A d \in ToSet(buf') : Precedes(c, d)
        BY <1>5, <2>1 DEF InOrder
    <2>5. ToSet(buf') \subseteq old \cup new
        BY <2>1
    <2>. QED  BY <1>6, <2>2, <2>3, <2>4, <2>5 DEF InOrder
<1>8. CASE TakesAll(new)
    <2>1. PICK pending \in Seq(Delta) : /\ ToSet(pending) = ToSet(buf) \cup new
                                        /\ Sent' \subseteq Sent \cup {Batch(pending)}
        BY <1>8 DEF TakesAll
    <2>2. ToSet(buf') = {} /\ seq' = seq + 1
        BY <1>8 DEF TakesAll, ToSet
    <2>3. \A a \in Sent' : a \in Sent \/ (a.seq = seq + 1 /\ ToSet(a.data) = ToSet(buf) \cup new)
        BY <2>1 DEF Batch
    <2>4. \A a \in Sent : a.seq \in Nat /\ a.seq <= seq
        BY <1>2 DEF InOrder, Event
    <2>5. \A a \in Sent' : a.seq <= seq'
        BY <1>2, <2>2, <2>3, <2>4
    <2>6. ASSUME NEW a \in Sent', NEW b \in Sent', a.seq < b.seq
          PROVE  \A c \in ToSet(a.data), d \in ToSet(b.data) : Precedes(c, d)
        <3>1. a \in Sent
            BY <1>2, <2>3, <2>4, <2>6
        <3>2. CASE b \in Sent
            BY <2>6, <3>1, <3>2 DEF InOrder
        <3>3. CASE ToSet(b.data) = ToSet(buf) \cup new
            BY <1>5, <3>1, <3>3 DEF InOrder
        <3>. QED  BY <2>3, <3>2, <3>3
    <2>7. \A a \in Sent' : ToSet(a.data) \subseteq old \cup new
        BY <2>3
    <2>. QED  BY <1>6, <2>2, <2>5, <2>6, <2>7 DEF InOrder
<1>. QED  BY <1>1, <1>7, <1>8

----------------------------------------------------------------------------
(* Nothing is dropped *)

\* A delta is buffered, on its way or published.
Reached(d) ==
    \/ d \in ToSet(buf) \cup Published
    \/ \E x \in Publishers : d \in ToSet(wire[x].data)

\* An XADD publishes its batch.
LEMMA PublishedGrows ==
    ASSUME TypeOK, NEW b \in Event, events' = Append(events, b)
    PROVE  Published' = Published \cup ToSet(b.data)
<1>1. /\ Len(events') = Len(events) + 1 /\ Len(events) \in Nat
      /\ \A i \in 1..Len(events) : events'[i] = events[i]
      /\ events'[Len(events) + 1] = b
    BY AppendProperties DEF TypeOK
<1>. QED  BY <1>1 DEF Published

\* flush() moves what is pending from the buffer to its batch.
LEMMA TakeReaches ==
    ASSUME TypeOK, NEW x \in Publishers, NEW pending \in Seq(Delta),
           ToSet(buf) \subseteq ToSet(pending), wire[x].data = <<>>,
           Take(x, pending), UNCHANGED events
    PROVE  \A d : Reached(d) \/ d \in ToSet(pending) => Reached(d)'
<1>0. /\ wire'[x] = [seq |-> seq + 1, data |-> pending]
      /\ \A y \in Publishers \ {x} : wire'[y] = wire[y]
    BY TakeType
<1>1. /\ wire'[x].data = pending /\ \A y \in Publishers \ {x} : wire'[y] = wire[y]
    BY <1>0
<1>2. ToSet(wire[x].data) = {} /\ Published' = Published
    BY DEF ToSet, Published
<1>. QED  BY <1>1, <1>2 DEF Reached

\* An XADD moves its batch to the stream.
LEMMA DeliverReaches ==
    ASSUME TypeOK, NEW x \in Publishers, Deliver(x), UNCHANGED buf
    PROVE  \A d : Reached(d) => Reached(d)'
<1>1. /\ \A y \in Publishers \ {x} : wire'[y] = wire[y]
      /\ events' = Append(events, wire[x]) /\ wire[x] \in Event
    BY DeliverType DEF TypeOK
<1>2. Published' = Published \cup ToSet(wire[x].data)
    BY <1>1, PublishedGrows
<1>. QED  BY <1>1, <1>2 DEF Reached

\* The conjuncts of InReach: who may have a batch in hand, when the page may end, and
\* that all text is within reach.
InHand ==
    /\ \A r \in Regions : /\ pc[r] # "raised"
                          /\ wire[r].data # <<>> => pc[r] \in {"push", "flush"}
    /\ wire["page"].data # <<>> => page \in {"flush", "flushExc"}

AllDone == page \in {"flush", "returned"} => buf = <<>> /\ \A r \in Regions : pc[r] = "done"

AllReached == page # "failed" => \A r \in Regions : \A d \in ToSet(text[r]) : Reached(d)

\* The end of a request takes what is buffered, if anything is.
LEMMA LeaveReaches ==
    ASSUME TypeOK, InHand, NEW r \in Regions, NEW failed \in BOOLEAN, Leave(r, failed),
           pc[r] \in {"open", "stream"}, UNCHANGED events
    PROVE  /\ pc' = [pc EXCEPT ![r] = pc'[r]]
           /\ pc'[r] \in {"done", "flush"} /\ (wire'[r].data # <<>> => pc'[r] = "flush")
           /\ \A y \in Publishers \ {r} : wire'[y] = wire[y]
           /\ \A d : Reached(d) => Reached(d)'
<1>1. r \in Publishers /\ wire[r].data = <<>>
    BY DEF Publishers, InHand
<1>2. CASE buf = <<>>
    <2>1. UNCHANGED <<buf, seq, wire>> /\ pc' = [pc EXCEPT ![r] = "done"]
        BY <1>2 DEF Leave, relay, Goto
    <2>2. \A d : Reached(d) => Reached(d)'
        BY <2>1 DEF Reached, Published
    <2>. QED  BY <1>1, <2>1, <2>2 DEF TypeOK
<1>3. CASE buf # <<>>
    <2>1. Take(r, buf) /\ pc' = [pc EXCEPT ![r] = "flush"] /\ buf \in Seq(Delta)
        BY <1>3 DEF Leave, Goto, TypeOK
    <2>2. \A d : Reached(d) => Reached(d)'
        BY <1>1, <2>1, TakeReaches
    <2>3. \A y \in Publishers \ {r} : wire'[y] = wire[y]
        BY <1>1, <2>1, TakeType
    <2>. QED  BY <2>1, <2>2, <2>3 DEF TypeOK
<1>. QED  BY <1>2, <1>3

\* Without a fault nothing is dropped.
LEMMA InReachStep ==
    ASSUME TypeOK, InReach, [Next]_vars
    PROVE  InReach'
<1>1. SUFFICES ASSUME faults' = 0 PROVE InHand' /\ AllDone' /\ AllReached'
    BY DEF InReach, InHand, AllDone, AllReached, Reached
<1>2. /\ faults = 0
      /\ \A r \in Regions : ~PushFault(r) /\ ~FlushFault(r)
    <2>1. faults \in Nat /\ ~Fault
        BY <1>1, RegionsAssumption DEF TypeOK, Fault
    <2>2. \A r \in Regions : ~PushFault(r) /\ ~FlushFault(r)
        BY <2>1 DEF PushFault, FlushFault
    <2>3. faults' = faults
        BY <2>1, <2>2 DEF Next, RegionStep, EnterRegion, Acquire, Respond, EngineFault, Retry,
           ContentDelta, Pushed, Usage, StreamEnds, Flushed, Gathered, PageFlushed,
           PageFlushFault, vars
    <2>. QED  BY <1>1, <2>2, <2>3
<1>3. InHand /\ AllDone /\ AllReached
    BY <1>2 DEF InReach, InHand, AllDone, AllReached, Reached
<1>. USE DEF stats, relay
<1>4. /\ "page" \in Publishers /\ "page" \notin Regions
      /\ \A r \in Regions : r \in Publishers /\ r # "page"
    BY RegionsAssumption DEF Publishers
\* A region moves on while the page waits for it.
<1>5. ASSUME NEW r \in Regions, pc[r] # "done", UNCHANGED page,
             pc' = [pc EXCEPT ![r] = pc'[r]], pc'[r] # "raised",
             wire'[r].data # <<>> => pc'[r] \in {"push", "flush"},
             \A y \in Publishers \ {r} : wire'[y] = wire[y]
      PROVE  InHand' /\ AllDone'
    <2>1. \A o \in Regions \ {r} : pc'[o] = pc[o]
        BY <1>5 DEF TypeOK
    <2>2. AllDone'
        BY <1>3, <1>5 DEF AllDone
    <2>3. wire'["page"] = wire["page"]
        BY <1>4, <1>5
    <2>4. \A o \in Regions \ {r} : wire'[o] = wire[o]
        BY <1>4, <1>5
    <2>. QED  BY <1>3, <1>5, <2>1, <2>2, <2>3, <2>4 DEF InHand
\* Text that is kept stays within reach.
<1>6. ASSUME \A r \in Regions : text'[r] = text[r] \/ text'[r] = <<>>,
             \A d : Reached(d) => Reached(d)', page' # "failed" => page # "failed"
      PROVE  AllReached'
    <2>1. ToSet(<<>>) = {}
        BY DEF ToSet
    <2>2. \A r \in Regions : \A d \in ToSet(text'[r]) : d \in ToSet(text[r])
        BY <1>6, <2>1
    <2>. QED  BY <1>3, <1>6, <2>2 DEF AllReached
<1>7. ASSUME NEW r \in Regions, 
             EnterRegion(r) \/ Acquire(r) \/ Respond(r) \/ Retry(r) \/ Usage(r)
      PROVE  InHand' /\ AllDone' /\ AllReached'
    <2>1. /\ UNCHANGED <<text, buf, wire, events, page>>
          /\ pc' = [pc EXCEPT ![r] = pc'[r]]
          /\ pc[r] \notin {"done", "push", "flush"} /\ pc'[r] # "raised"
        BY <1>7 DEF EnterRegion, Acquire, Respond, Retry, Usage, Goto, TypeOK
    <2>2. wire[r].data = <<>> /\ wire' = wire
        BY <1>3, <2>1 DEF InHand
    <2>3. \A d : Reached(d) => Reached(d)'
        BY <2>1 DEF Reached, Published
    <2>4. InHand' /\ AllDone'
        BY <1>5, <2>1, <2>2
    <2>5. AllReached'
        BY <1>6, <2>1, <2>3
    <2>. QED  BY <2>4, <2>5
<1>8. ASSUME NEW r \in Regions, EngineFault(r)
      PROVE  InHand' /\ AllDone' /\ AllReached'
    <2>1. PICK retryable \in BOOLEAN : GiveUpOrRetry(r, retryable)
        BY <1>8 DEF EngineFault
    <2>2. /\ pc[r] \in {"open", "stream"} /\ UNCHANGED <<events, page>> /\ TRUE \in BOOLEAN
        BY <1>8 DEF EngineFault
    <2>3. /\ \A o \in Regions \ {r} : text'[o] = text[o]
          /\ text'[r] = text[r] \/ text'[r] = <<>>
        BY <2>1, BreakKeeps
    <2>4. CASE Leave(r, TRUE)
        <3>1. /\ pc' = [pc EXCEPT ![r] = pc'[r]] /\ pc'[r] \in {"done", "flush"}
              /\ wire'[r].data # <<>> => pc'[r] = "flush"
              /\ \A y \in Publishers \ {r} : wire'[y] = wire[y]
              /\ \A d : Reached(d) => Reached(d)'
            BY <1>3, <2>2, <2>4, LeaveReaches
        <3>2. InHand' /\ AllDone'
            BY <1>5, <2>2, <3>1
        <3>3. AllReached'
            BY <1>6, <2>2, <2>3, <3>1
        <3>. QED  BY <3>2, <3>3
    <2>5. CASE pc'[r] = "backoff" /\ UNCHANGED relay
        <3>1. pc' = [pc EXCEPT ![r] = pc'[r]]
            BY <2>1 DEF GiveUpOrRetry, Leave, Goto, TypeOK
        <3>2. wire'[r].data = <<>>
            BY <1>3, <2>2, <2>5 DEF InHand
        <3>3. \A d : Reached(d) => Reached(d)'
            BY <2>2, <2>5 DEF Reached, Published
        <3>4. InHand' /\ AllDone'
            BY <1>5, <2>2, <2>5, <3>1, <3>2
        <3>5. AllReached'
            BY <1>6, <2>2, <2>3, <3>3
        <3>. QED  BY <3>4, <3>5
    <2>. QED  BY <2>1, <2>4, <2>5, BreakKeeps
<1>9. ASSUME NEW r \in Regions, StreamEnds(r)
      PROVE  InHand' /\ AllDone' /\ AllReached'
    <2>1. /\ pc[r] \in {"open", "stream"} /\ UNCHANGED <<text, events, page>>
          /\ Leave(r, FALSE) /\ FALSE \in BOOLEAN
        BY <1>9 DEF StreamEnds
    <2>2. /\ pc' = [pc EXCEPT ![r] = pc'[r]] /\ pc'[r] \in {"done", "flush"}
          /\ wire'[r].data # <<>> => pc'[r] = "flush"
          /\ \A y \in Publishers \ {r} : wire'[y] = wire[y]
          /\ \A d : Reached(d) => Reached(d)'
        BY <1>3, <2>1, LeaveReaches
    <2>3. InHand' /\ AllDone'
        BY <1>5, <2>1, <2>2
    <2>4. AllReached'
        BY <1>6, <2>1, <2>2
    <2>. QED  BY <2>3, <2>4
<1>10. ASSUME NEW r \in Regions, Pushed(r) \/ Flushed(r)
       PROVE  InHand' /\ AllDone' /\ AllReached'
    <2>1. /\ Deliver(r) /\ UNCHANGED <<text, buf, page>>
          /\ pc' = [pc EXCEPT ![r] = pc'[r]] /\ pc[r] # "done" /\ pc'[r] # "raised"
        BY <1>10 DEF Pushed, Flushed, Goto, TypeOK
    <2>2. wire'[r] = NoEvent /\ \A y \in Publishers \ {r} : wire'[y] = wire[y]
        BY <1>4, <2>1, DeliverType
    <2>3. \A d : Reached(d) => Reached(d)'
        BY <1>4, <2>1, DeliverReaches
    <2>4. wire'[r].data = <<>>
        BY <2>2 DEF NoEvent
    <2>5. InHand' /\ AllDone'
        BY <1>5, <2>1, <2>2, <2>4
    <2>6. AllReached'
        BY <1>6, <2>1, <2>3
    <2>. QED  BY <2>5, <2>6
<1>11. ASSUME NEW r \in Regions, ContentDelta(r)
       PROVE  InHand' /\ AllDone' /\ AllReached'
    <2>. DEFINE delta == <<r, attempt[r], Len(text[r]) + 1>>
    <2>1. /\ pc[r] = "stream" /\ Len(text[r]) < Length[r] /\ UNCHANGED <<events, page>>
          /\ text' = [text EXCEPT ![r] = Append(text[r], delta)]
          /\ \/ buf' = Append(buf, delta) /\ UNCHANGED <<pc, seq, wire>>
             \/ Take(r, Append(buf, delta)) /\ pc' = [pc EXCEPT ![r] = "push"]
        BY <1>11 DEF ContentDelta, Goto
    <2>2. delta \in Delta
        BY <2>1, NextDeltaType DEF NextDelta
    <2>. HIDE DEF delta
    <2>3. /\ Append(buf, delta) \in Seq(Delta) /\ ToSet(Append(buf, delta)) = ToSet(buf) \cup {delta}
          /\ ToSet(Append(text[r], delta)) = ToSet(text[r]) \cup {delta}
        BY <2>2, AppendSet, AppendProperties DEF TypeOK
    <2>4. \A o \in Regions : ToSet(text'[o]) \subseteq ToSet(text[o]) \cup {delta}
        BY <2>1, <2>3 DEF TypeOK
    <2>5. wire[r].data = <<>>
        BY <1>3, <2>1 DEF InHand
    <2>6. CASE buf' = Append(buf, delta) /\ UNCHANGED <<pc, seq, wire>>
        <3>1. \A d : Reached(d) \/ d = delta => Reached(d)'
            BY <2>1, <2>3, <2>6 DEF Reached, Published
        <3>2. AllReached'
            BY <1>3, <2>1, <2>4, <3>1 DEF AllReached
        <3>3. InHand' /\ AllDone'
            BY <1>3, <2>1, <2>6 DEF InHand, AllDone
        <3>. QED  BY <3>2, <3>3
    <2>7. CASE Take(r, Append(buf, delta)) /\ pc' = [pc EXCEPT ![r] = "push"]
        <3>1. \A d : Reached(d) \/ d \in ToSet(Append(buf, delta)) => Reached(d)'
            BY <1>4, <2>1, <2>3, <2>5, <2>7, TakeReaches
        <3>2. AllReached'
            BY <1>3, <2>1, <2>3, <2>4, <3>1 DEF AllReached
        <3>3. \A y \in Publishers \ {r} : wire'[y] = wire[y]
            BY <1>4, <2>3, <2>7, TakeType
        <3>4. pc'[r] = "push" /\ pc' = [pc EXCEPT ![r] = pc'[r]]
            BY <2>7 DEF TypeOK
        <3>5. InHand' /\ AllDone'
            BY <1>5, <2>1, <3>3, <3>4
        <3>. QED  BY <3>2, <3>5
    <2>. QED  BY <2>1, <2>6, <2>7
<1>12. CASE Gathered
    <2>0. ~\E r \in Regions : pc[r] = "raised"
        BY <1>3 DEF InHand
    <2>1. /\ page = "gather" /\ \A r \in Regions : pc[r] = "done"
          /\ UNCHANGED <<pc, text, events>>
          /\ \/ buf = <<>> /\ page' = "returned" /\ UNCHANGED <<buf, seq, wire>>
             \/ buf # <<>> /\ page' = "flush" /\ Take("page", buf)
        BY <1>12, <2>0 DEF Gathered
    <2>2. wire["page"].data = <<>> /\ \A r \in Regions : wire[r].data = <<>>
        BY <1>3, <2>1 DEF InHand
    <2>3. CASE buf = <<>>
        <3>1. page' = "returned" /\ UNCHANGED <<buf, seq, wire>>
            BY <2>1, <2>3
        <3>2. \A d : Reached(d) => Reached(d)'
            BY <2>1, <3>1 DEF Reached, Published
        <3>3. AllReached'
            BY <1>6, <2>1, <3>2
        <3>4. InHand' /\ AllDone'
            BY <2>1, <2>2, <2>3, <3>1 DEF InHand, AllDone
        <3>. QED  BY <3>3, <3>4
    <2>4. CASE buf # <<>>
        <3>1. page' = "flush" /\ Take("page", buf) /\ buf \in Seq(Delta)
            BY <2>1, <2>4 DEF TypeOK
        <3>2. \A d : Reached(d) => Reached(d)'
            BY <1>4, <2>1, <2>2, <3>1, TakeReaches
        <3>3. AllReached'
            BY <1>6, <2>1, <3>2
        <3>4. buf' = <<>> /\ \A y \in Publishers \ {"page"} : wire'[y] = wire[y]
            BY <1>4, <3>1, TakeType
        <3>5. \A r \in Regions : wire'[r].data = <<>>
            BY <1>4, <2>2, <3>4
        <3>6. InHand' /\ AllDone'
            BY <2>1, <3>1, <3>4, <3>5 DEF InHand, AllDone
        <3>. QED  BY <3>3, <3>6
    <2>. QED  BY <2>3, <2>4
\* What the page publishes at its end is published, or the page fails.
<1>13. CASE PageFlushed \/ PageFlushFault
    <2>1. /\ UNCHANGED <<pc, text, buf>> /\ page \in {"flush", "flushExc"}
          /\ page' \in {"returned", "failed"} /\ (page' = "returned" => page = "flush")
          /\ page' = "returned" => Deliver("page")
          /\ wire' = [wire EXCEPT !["page"] = NoEvent]
        BY <1>13 DEF PageFlushed, PageFlushFault, Deliver
    <2>2. wire'["page"] = NoEvent /\ \A y \in Publishers \ {"page"} : wire'[y] = wire[y]
        BY <1>4, <2>1, DropType
    <2>3. wire'["page"].data = <<>>
        BY <2>2 DEF NoEvent
    <2>4. \A r \in Regions : wire'[r] = wire[r]
        BY <1>4, <2>2
    <2>5. InHand' /\ AllDone'
        BY <1>3, <2>1, <2>3, <2>4 DEF InHand, AllDone
    <2>6. page' = "returned" => \A d : Reached(d) => Reached(d)'
        BY <1>4, <2>1, DeliverReaches
    <2>7. CASE page' = "returned"
        BY <1>6, <2>1, <2>5, <2>6, <2>7
    <2>8. CASE page' = "failed"
        BY <2>5, <2>8 DEF AllReached
    <2>. QED  BY <2>1, <2>7, <2>8
<1>14. CASE UNCHANGED vars
    BY <1>3, <1>14 DEF vars, InHand, AllDone, AllReached, Reached, Published
<1>. QED  BY <1>2, <1>7, <1>8, <1>9, <1>10, <1>11, <1>12, <1>13, <1>14 DEF Next, RegionStep

----------------------------------------------------------------------------
(* The theorems *)

\* Nothing has been streamed when the page starts.
LEMMA RegionInit == Init => RegionInv
<1>. SUFFICES ASSUME Init PROVE RegionInv
    OBVIOUS
<1>. USE RegionsAssumption DEF Init
<1>1. NoEvent \in Event /\ NoEvent.data = <<>> /\ NoEvent.seq = 0 /\ ToSet(<<>>) = {}
    BY DEF NoEvent, Event, ToSet
<1>2. <<>> \in Seq(Delta) /\ <<>> \in Seq(Event) /\ Len(<<>>) = 0
    OBVIOUS
<1>3. TypeOK
    BY <1>1, <1>2 DEF TypeOK, InRegion, InEngine
<1>4. OneAttempt
    BY <1>2 DEF OneAttempt
<1>5. \A a \in Sent : a.seq = 0 /\ ToSet(a.data) = {}
    BY <1>1, <1>2 DEF Sent
<1>6. InOrder
    <2>1. ToSet(buf) = {} /\ seq = 0
        BY <1>1
    <2>2. \A a \in Sent : a.seq <= seq
        BY <1>5, <2>1
    <2>. QED  BY <1>5, <2>1, <2>2 DEF InOrder
<1>7. "page" \in Publishers /\ \A r \in Regions : r \in Publishers
    BY DEF Publishers
<1>8. InReach
    BY <1>1, <1>7 DEF InReach
<1>. QED  BY <1>3, <1>4, <1>6, <1>8 DEF RegionInv

\* RegionInv holds in every state of the page's OCR, for every set of regions and every
\* bound on permits, retries and faults.
THEOREM RegionInductive == Spec => []RegionInv
<1>1. RegionInv /\ [Next]_vars => RegionInv'
    BY TypeStep, OneAttemptStep, InOrderStep, InReachStep DEF RegionInv
<1>. QED  BY RegionInit, <1>1, PTL DEF Spec

\* Every variable of run_region, the engine client and the relay keeps its type.
THEOREM RegionTypes == Spec => []TypeOK
<1>1. RegionInv => TypeOK
    BY DEF RegionInv
<1>. QED  BY RegionInductive, <1>1, PTL

\* A request that succeeds returns the text of one attempt, however often the engine
\* broke the stream before.
THEOREM OneAttemptReturned == Spec => []TextOfOneAttempt
<1>1. ASSUME RegionInv PROVE TextOfOneAttempt
    <2>. SUFFICES ASSUME NEW r \in Regions
                  PROVE  text[r] = [k \in 1..Len(text[r]) |-> <<r, attempt[r], k>>]
        BY DEF TextOfOneAttempt
    <2>1. text[r] \in Seq(Delta)
        BY <1>1 DEF RegionInv, TypeOK
    <2>2. text[r] = [k \in 1..Len(text[r]) |-> text[r][k]]
        BY <2>1
    <2>3. \A k \in 1..Len(text[r]) : text[r][k] = <<r, attempt[r], k>>
        BY <1>1 DEF RegionInv, OneAttempt
    <2>. QED  BY <2>2, <2>3
<1>. QED  BY RegionInductive, <1>1, PTL

\* A reader that sorts the TOKEN events of a page by `seq` has each region's deltas in the
\* order in which the engine streamed them, in whatever order Redis executed the XADDs.
THEOREM SortedBySeq == Spec => []SeqOrdersDeltas
<1>1. ASSUME RegionInv PROVE SeqOrdersDeltas
    <2>1. \A i \in 1..Len(events) : events[i] \in Sent
        BY DEF Sent
    <2>. QED  BY <1>1, <2>1 DEF RegionInv, InOrder, SeqOrdersDeltas
<1>. QED  BY RegionInductive, <1>1, PTL

\* When _process_page returns and no publish failed, every delta of the page's text is in
\* the job's stream: the flushes of run_region and of `finally` leave none in the relay.
THEOREM AllRelayed == Spec => []EverythingRelayed
<1>1. ASSUME RegionInv PROVE EverythingRelayed
    <2>. SUFFICES ASSUME page = "returned", faults = 0, NEW r \in Regions,
                         NEW d \in ToSet(text[r])
                  PROVE  d \in Published
        BY DEF EverythingRelayed
    <2>1. ToSet(<<>>) = {}
        BY DEF ToSet
    <2>2. buf = <<>> /\ \A o \in Regions : pc[o] = "done"
        BY <1>1 DEF RegionInv, InReach
    <2>3. \A x \in Publishers : wire[x].data = <<>>
        BY <1>1, <2>2 DEF RegionInv, InReach, Publishers
    <2>4. \/ d \in ToSet(buf) \cup Published
          \/ \E x \in Publishers : d \in ToSet(wire[x].data)
        BY <1>1 DEF RegionInv, InReach
    <2>. QED  BY <2>1, <2>2, <2>3, <2>4
<1>. QED  BY RegionInductive, <1>1, PTL
=============================================================================
