---------------------------- MODULE EventStream ----------------------------
(***************************************************************************)
(* One job's event stream (common/events.py) and the clients that tail it  *)
(* through the gateway (gateway/main.py): SSE requests, which take one of  *)
(* MAX_STREAM_CLIENTS slots and resume from Last-Event-ID, and WebSockets, *)
(* which do neither by themselves.                                         *)
(*                                                                         *)
(* The n-th XADD has stream id n.  The worker's side is what JobPipeline   *)
(* and PagePipeline show of it: a terminal status is written before its    *)
(* event, a crash may come between the two, a FAILED job may run again,    *)
(* abandoned page tasks may publish after the end, and the job's hash may  *)
(* expire, also while the job still waits in the queue.                    *)
(***************************************************************************)
EXTENDS Integers, Sequences, FiniteSets, SequencesExt

CONSTANTS Clients,    \* viewers of the job
          Sockets,    \* those that may use the WebSocket endpoint as well
          FromNow,    \* those that connect with replay=false
          Slots,      \* MAX_STREAM_CLIENTS
          Pool,       \* max_connections of the Redis client
          MaxLen,     \* event_stream_maxlen
          Batch,      \* count of read_events()
          MaxEvents,  \* bound: events published
          MaxDrops    \* bound: connections lost

ASSUME EventsAssumption ==
    /\ Sockets \subseteq Clients /\ FromNow \subseteq Clients \ Sockets
    /\ Slots \in Nat \ {0} /\ Pool \in Nat \ {0}
    /\ MaxLen \in Nat \ {0} /\ Batch \in Nat \ {0}
    /\ MaxEvents \in Nat /\ MaxDrops \in Nat

VARIABLES
    log,      \* the kinds of the events published so far
    trimmed,  \* the oldest `trimmed` of them are gone
    status,   \* of the job: see Phase
    closed,   \* the job has had a terminal status, or its hash has expired
    socket,   \* clients whose connection is a WebSocket
    pc,       \* where the handler of a client's connection is
    cursor,   \* its `cursor` (Latest: "$")
    from,     \* the id its XREAD under way started after (0: none)
    batch,    \* ids read and not yet sent
    got,      \* got[c]: the ids the client has received, over all connections
    quiet,    \* quiet[c]: the newest id when c's last read came back empty (None: it
              \* was not, or c has been told to go on)
    drops     \* connections lost so far

vars == <<log, trimmed, status, closed, socket, pc, cursor, from, batch,
          got, quiet, drops>>
job  == <<log, trimmed, status, closed>>

view == <<socket, pc, cursor, from, batch, got, quiet, drops>>

\* "active": QUEUED, PROCESSING, or a hash without a status; "terminal";
\* "expired": terminal and its event stream has expired; "absent": no hash.
Phase     == {"active", "terminal", "expired", "absent"}
Latest    == -1
None      == -1
Streaming == {"read", "blocked", "send", "poll"}

TypeOK ==
    /\ log \in Seq({"data", "terminal"}) /\ Len(log) <= MaxEvents
    /\ trimmed \in 0..Len(log)
    /\ status \in Phase
    /\ closed \in BOOLEAN
    /\ socket \subseteq Sockets
    /\ pc \in [Clients -> Streaming \cup {"idle", "opening", "ended"}]
    /\ cursor \in [Clients -> {Latest} \cup 0..Len(log)]
    /\ from \in [Clients -> 0..Len(log)]
    /\ batch \in [Clients -> Seq(1..Len(log))]
    /\ got \in [Clients -> Seq(1..Len(log))]
    /\ quiet \in [Clients -> {None} \cup 0..Len(log)]
    /\ \A c \in Clients : Len(batch[c]) <= Batch /\ (batch[c] # <<>> => pc[c] = "send")
    /\ drops \in 0..MaxDrops

Init ==
    /\ log = <<>> /\ trimmed = 0
    /\ status = "active" /\ closed = FALSE
    /\ socket = {}
    /\ pc = [c \in Clients |-> "idle"]
    /\ cursor = [c \in Clients |-> 0]
    /\ from = [c \in Clients |-> 0]
    /\ batch = [c \in Clients |-> <<>>]
    /\ got = [c \in Clients |-> <<>>]
    /\ quiet = [c \in Clients |-> None]
    /\ drops = 0

----------------------------------------------------------------------------
(* The worker *)

\* publish(): XADD with an approximate MAXLEN, which trims when it likes and
\* never below the cap.
Publish(kind) ==
    /\ Len(log) < MaxEvents
    /\ log' = Append(log, kind)
    /\ \/ UNCHANGED trimmed
       \/ \E t \in (trimmed + 1)..(Len(log) + 1 - MaxLen) : trimmed' = t

Progress ==
    /\ status \in {"active", "terminal"}
    /\ Publish("data")
    /\ UNCHANGED <<status, closed, view>>

SetTerminal ==
    /\ status = "active"
    /\ status' = "terminal" /\ closed' = TRUE
    /\ UNCHANGED <<log, trimmed, view>>

PublishTerminal ==
    /\ status = "terminal"
    /\ Publish("terminal")
    /\ UNCHANGED <<status, closed, view>>

\* A job that had FAILED runs again.
Rerun ==
    /\ status = "terminal"
    /\ status' = "active"
    /\ UNCHANGED <<log, trimmed, closed, view>>

\* The stream's TTL, set after the terminal event and longer than any run of
\* the job goes on.
ExpireEvents ==
    /\ status = "terminal"
    /\ \E n \in 1..Len(log) : log[n] = "terminal"
    /\ status' = "expired" /\ trimmed' = Len(log)
    /\ UNCHANGED <<log, closed, view>>

\* Every set_status() renews the hash's TTL, the one of submit() first: a job
\* that waits in the queue for longer loses its hash undecided.
ExpireHash ==
    /\ status # "absent"
    /\ status' = "absent" /\ closed' = TRUE
    /\ UNCHANGED <<log, trimmed, view>>

\* The worker that is delivered such a job fails it; _fail()'s HINCRBY makes a
\* hash without a status first.
Recreate ==
    /\ status = "absent"
    /\ status' = "active"
    /\ UNCHANGED <<log, trimmed, closed, view>>

----------------------------------------------------------------------------
(* The gateway *)

Goto(c, where) == pc' = [pc EXCEPT ![c] = where]

\* Clients that hold a slot: SSE generators past slots.acquire().
Holding == {c \in Clients \ socket : pc[c] \in Streaming}

\* Connections of the pool that are kept busy by a blocking XREAD.
Busy == {c \in Clients : pc[c] = "blocked"}

\* stream(): an unknown job is a 404, no free slot a 503; otherwise the reply
\* starts, from the last event the client has seen.
Connect(c) ==
    /\ pc[c] = "idle" /\ status # "absent"
    /\ \/ c \in Sockets /\ socket' = socket \cup {c}
       \/ Cardinality(Holding) < Slots /\ UNCHANGED socket
    /\ cursor' = [cursor EXCEPT ![c] = IF got[c] # <<>> THEN Last(got[c])
                                       ELSE IF c \in FromNow THEN Latest ELSE 0]
    /\ Goto(c, "opening")
    /\ UNCHANGED <<job, from, batch, got, quiet, drops>>

\* The generator's slots.acquire(); others may have taken the slot meanwhile.
Open(c) ==
    /\ pc[c] = "opening"
    /\ c \in socket \/ Cardinality(Holding) < Slots
    /\ Goto(c, "read")
    /\ UNCHANGED <<job, socket, cursor, from, batch, got, quiet, drops>>

\* XREAD BLOCK reaches Redis.  "$" means the end of the stream at this moment.
BeginRead(c) ==
    /\ pc[c] = "read"
    /\ Cardinality(Busy) < Pool
    /\ from' = [from EXCEPT ![c] = IF cursor[c] = Latest THEN Len(log) ELSE cursor[c]]
    /\ Goto(c, "blocked")
    /\ UNCHANGED <<job, socket, cursor, batch, got, quiet, drops>>

\* XREAD finds the entries after this one.
After(c) == IF from[c] > trimmed THEN from[c] ELSE trimmed

\* Mutant: `count` is not passed on.
OldestUnlimited(after) == [i \in 1..(Len(log) - after) |-> after + i]

\* At most `count` entries, the oldest first.
Oldest(after) ==
    LET found == Len(log) - after
    IN  [i \in 1..(IF found < Batch THEN found ELSE Batch) |-> after + i]

\* Mutant: the read includes the event it should start after.
ReceiveInclusive(c) ==
    LET after == IF from[c] > trimmed THEN from[c] - 1 ELSE trimmed IN
    /\ pc[c] = "blocked"
    /\ after < Len(log)
    /\ batch' = [batch EXCEPT ![c] = Oldest(after)]
    /\ Goto(c, "send")
    /\ UNCHANGED <<job, socket, cursor, from, got, quiet, drops>>

Receive(c) ==
    /\ pc[c] = "blocked"
    /\ After(c) < Len(log)
    /\ batch' = [batch EXCEPT ![c] = Oldest(After(c))]
    /\ Goto(c, "send")
    /\ UNCHANGED <<job, socket, cursor, from, got, quiet, drops>>

\* The block time is over; "$" stays "$".
TimeOut(c) ==
    /\ pc[c] = "blocked"
    /\ After(c) >= Len(log)
    /\ from' = [from EXCEPT ![c] = 0]
    /\ quiet' = [quiet EXCEPT ![c] = Len(log)]
    /\ Goto(c, "poll")
    /\ UNCHANGED <<job, socket, cursor, batch, got, drops>>

\* Mutant: any silence ends the stream.
PollEager(c) ==
    /\ pc[c] = "poll"
    /\ Goto(c, "ended")
    /\ UNCHANGED <<job, socket, cursor, from, batch, got, quiet, drops>>

GoOn(c) == Goto(c, "read") /\ quiet' = [quiet EXCEPT ![c] = None]

\* Mutant: silence never ends it.
PollForever(c) ==
    /\ pc[c] = "poll"
    /\ GoOn(c)
    /\ UNCHANGED <<job, socket, cursor, from, batch, got, drops>>

\* get_job() after an empty read: gone or terminal ends the stream.
Poll(c) ==
    /\ pc[c] = "poll"
    /\ IF status = "active" THEN GoOn(c) ELSE Goto(c, "ended") /\ UNCHANGED quiet
    /\ UNCHANGED <<job, socket, cursor, from, batch, got, drops>>

\* The next event of the batch reaches the client.  SSE stops at a terminal
\* event, the WebSocket after the batch that has one.
Send(c) ==
    LET n    == Head(batch[c])
        rest == Tail(batch[c])
        over == \/ c \notin socket /\ log[n] = "terminal"
                \/ /\ c \in socket /\ rest = <<>>
                   /\ \E k \in ToSet(got[c]) \cup {n} :
                         k > from[c] /\ log[k] = "terminal"
    IN
    /\ pc[c] = "send"
    /\ got' = [got EXCEPT ![c] = Append(@, n)]
    /\ cursor' = [cursor EXCEPT ![c] = n]
    /\ batch' = [batch EXCEPT ![c] = IF over THEN <<>> ELSE rest]
    /\ from' = [from EXCEPT ![c] = IF over \/ rest = <<>> THEN 0 ELSE @]
    /\ Goto(c, IF over THEN "ended" ELSE IF rest = <<>> THEN "read" ELSE "send")
    /\ UNCHANGED <<job, socket, quiet, drops>>

\* The connection breaks, or no Redis connection is left for its XREAD; the
\* client connects again.
Drop(c) ==
    /\ pc[c] \in Streaming \cup {"opening"}
    /\ \/ drops < MaxDrops /\ drops' = drops + 1
       \/ pc[c] = "read" /\ Cardinality(Busy) >= Pool /\ UNCHANGED drops
    /\ batch' = [batch EXCEPT ![c] = <<>>]
    /\ cursor' = [cursor EXCEPT ![c] = 0]
    /\ from' = [from EXCEPT ![c] = 0]
    /\ quiet' = [quiet EXCEPT ![c] = None]
    /\ socket' = socket \ {c}
    /\ Goto(c, "idle")
    /\ UNCHANGED <<job, got>>

----------------------------------------------------------------------------
Serve(c) ==
    \/ Open(c) \/ BeginRead(c) \/ Receive(c) \/ TimeOut(c) \/ Poll(c) \/ Send(c)

Next ==
    \/ Progress \/ SetTerminal \/ PublishTerminal \/ Rerun
    \/ ExpireEvents \/ ExpireHash \/ Recreate
    \/ \E c \in Clients : Connect(c) \/ Serve(c) \/ Drop(c)

Spec == Init /\ [][Next]_vars

\* The gateway's event loop runs every handler that can run.  Nothing is
\* assumed of the worker or of the clients.
FairSpec == Spec /\ \A c \in Clients : WF_vars(Serve(c))

----------------------------------------------------------------------------
(* Properties *)

\* README.md:50, main.py:414, test_gateway.py:250: over all its connections a
\* client gets the events in order, none twice, and misses only what XADD has
\* trimmed; and from the first one unless it asked for new ones only.
ResumeExact ==
    \A c \in Clients :
        /\ \A i \in 1..(Len(got[c]) - 1) :
              /\ got[c][i] < got[c][i + 1]
              /\ got[c][i + 1] - 1 \in {got[c][i]} \cup (1..trimmed)
        /\ c \notin FromNow /\ got[c] # <<>> => got[c][1] - 1 \in 0..trimmed

Received(c, n) == \E i \in 1..Len(got[c]) : got[c][i] = n

\* What a client that was up to date at event k may lack: what XADD has trimmed
\* and, if it asked for new events only, what came before its first one.
UpToDate(c, k) ==
    \A n \in 1..k : \/ Received(c, n) \/ n <= trimmed
                    \/ c \in FromNow /\ (got[c] = <<>> \/ n < got[c][1])

\* main.py:391-393, README.md:50: a client is told the end after a terminal
\* event; or after an empty read, when it had everything published until then,
\* of a job that was decided or whose hash had expired.  (What is published
\* between that read and the look at the status it does not get.)
EndsUpToDate ==
    \A c \in Clients : pc[c] = "ended" =>
        \/ \E n \in 1..Len(log) : log[n] = "terminal" /\ Received(c, n)
        \/ quiet[c] # None /\ UpToDate(c, quiet[c]) /\ closed

\* Once the job stays decided, or without a hash, nobody is left tailing it: an
\* SSE generator ends and gives its slot to those that wait for one.
StreamsEnd ==
    \A c \in Clients :
        <>[](status # "active") => []<>(pc[c] \in {"idle", "ended"})

----------------------------------------------------------------------------
(* The inductive invariant behind ResumeExact and EndsUpToDate *)

Connected(c) == pc[c] \in Streaming \cup {"opening"}

\* Poll() sees no other status of a job that is neither decided nor without a hash.
ClosedFirst == status # "active" => closed

\* Where a connection goes on: after the last event its client has got, over all
\* connections; before the first one, if it has got none and did not ask for new ones.
CursorAtLast ==
    \A c \in Clients : Connected(c) =>
        IF got[c] # <<>> THEN cursor[c] = got[c][Len(got[c])]
                         ELSE cursor[c] = 0 \/ c \in FromNow

\* What has been read starts there, or after what had been trimmed by then, and has
\* no gap.
BatchNext ==
    \A c \in Clients :
        /\ pc[c] = "blocked" /\ cursor[c] # Latest => from[c] = cursor[c]
        /\ \A i \in 1..(Len(batch[c]) - 1) : batch[c][i + 1] = batch[c][i] + 1
        /\ pc[c] = "send" =>
              /\ batch[c] # <<>>
              /\ cursor[c] # Latest => /\ batch[c][1] > cursor[c]
                                       /\ batch[c][1] - 1 \in {cursor[c]} \cup (1..trimmed)

\* Whatever a client got, it has no gap; and what it knew at its last empty read.
NothingMissed ==
    \A c \in Clients :
        /\ got[c] # <<>> => UpToDate(c, got[c][Len(got[c])])
        /\ quiet[c] # None => pc[c] \in {"poll", "ended"} /\ UpToDate(c, quiet[c])
        /\ pc[c] = "poll" => quiet[c] # None

EventInv ==
    /\ TypeOK
    /\ ClosedFirst
    /\ CursorAtLast
    /\ BatchNext
    /\ ResumeExact
    /\ NothingMissed
    /\ EndsUpToDate
=============================================================================
