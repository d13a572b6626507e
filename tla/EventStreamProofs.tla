-------------------------- MODULE EventStreamProofs --------------------------
(***************************************************************************)
(* For any number of clients, of either kind, of events, trims, batches    *)
(* and lost connections: what a client gets over all its connections is    *)
(* the stream in its order, without repetitions, and without gaps but for  *)
(* what was trimmed; and whoever is told the end got a terminal event, or  *)
(* lacks nothing that was published before its last, empty read.           *)
(*                                                                         *)
(* EventInv is inductive.  The worker's steps leave the clients alone and  *)
(* only add to the log and to what is trimmed (JobMoves); a client's steps *)
(* leave the job and the other clients alone (ClientMoves).                *)
(***************************************************************************)
EXTENDS EventStream, SequenceTheorems, TLAPS

JobStep ==
    \/ Progress \/ SetTerminal \/ PublishTerminal \/ Rerun
    \/ ExpireEvents \/ ExpireHash \/ Recreate

ClientStep(c) == Connect(c) \/ Serve(c) \/ Drop(c)

\* The next-state relation, sorted in this way.
LEMMA NextCases ==
    ASSUME [Next]_vars
    PROVE  JobStep \/ (\E c \in Clients : ClientStep(c)) \/ UNCHANGED vars
BY DEF Next, JobStep, ClientStep

----------------------------------------------------------------------------
(* The worker *)

\* XADD adds one entry at the end and may trim others, none that is not there.
LEMMA PublishMoves ==
    ASSUME TypeOK, NEW kind \in {"data", "terminal"}, Publish(kind)
    PROVE  /\ log' \in Seq({"data", "terminal"}) /\ Len(log') <= MaxEvents
           /\ Len(log') = Len(log) + 1
           /\ \A n \in 1..Len(log) : log'[n] = log[n]
           /\ log'[Len(log) + 1] = kind
           /\ trimmed' \in trimmed..Len(log')
<1>1. /\ log' \in Seq({"data", "terminal"})
      /\ Len(log') = Len(log) + 1
      /\ \A n \in 1..Len(log) : log'[n] = log[n]
      /\ log'[Len(log) + 1] = kind
    BY AppendProperties DEF TypeOK, Publish
<1>2. trimmed' \in trimmed..Len(log') /\ Len(log') <= MaxEvents
    BY <1>1, EventsAssumption DEF TypeOK, Publish
<1>. QED  BY <1>1, <1>2

\* The log and what is trimmed of it only grow.
LEMMA JobMoves ==
    ASSUME TypeOK, JobStep
    PROVE  /\ log' \in Seq({"data", "terminal"}) /\ Len(log') <= MaxEvents
           /\ Len(log) <= Len(log')
           /\ \A n \in 1..Len(log) : log'[n] = log[n]
           /\ trimmed' \in trimmed..Len(log')
           /\ status' \in Phase /\ closed' \in BOOLEAN
           /\ UNCHANGED view
<1>1. CASE Progress
    BY <1>1, PublishMoves DEF Progress, TypeOK
<1>2. CASE PublishTerminal
    BY <1>2, PublishMoves DEF PublishTerminal, TypeOK
<1>3. CASE SetTerminal \/ Rerun \/ ExpireHash \/ Recreate
    <2>1. UNCHANGED <<log, trimmed, view>>
        BY <1>3 DEF SetTerminal, Rerun, ExpireHash, Recreate
    <2>2. status' \in Phase /\ closed' \in BOOLEAN
        BY <1>3 DEF SetTerminal, Rerun, ExpireHash, Recreate, TypeOK, Phase
    <2>3. trimmed \in trimmed..Len(log) /\ Len(log) <= Len(log)
        BY DEF TypeOK
    <2>. QED  BY <2>1, <2>2, <2>3 DEF TypeOK
<1>4. CASE ExpireEvents
    BY <1>4 DEF ExpireEvents, TypeOK, Phase
<1>. QED  BY <1>1, <1>2, <1>3, <1>4 DEF JobStep

\* A status other than "active" comes with a decision or the end of the hash, and
\* neither is taken back.
LEMMA JobCloses ==
    ASSUME ClosedFirst, JobStep
    PROVE  ClosedFirst' /\ (closed => closed')
BY DEF JobStep, Progress, PublishTerminal, SetTerminal, Rerun, ExpireHash, ExpireEvents,
    Recreate, ClosedFirst

\* What the clients have stays right when the log grows under them.
LEMMA JobKeeps ==
    ASSUME EventInv, JobStep
    PROVE  EventInv'
<1>. USE DEF EventInv, view
<1>1. /\ Len(log) \in Nat /\ Len(log') \in Nat /\ Len(log) <= Len(log')
      /\ trimmed \in Nat /\ trimmed' \in Nat /\ trimmed <= trimmed'
      /\ UNCHANGED view
    BY JobMoves DEF TypeOK
<1>2. TypeOK'
    <2>1. 1..Len(log) \subseteq 1..Len(log') /\ 0..Len(log) \subseteq 0..Len(log')
        BY <1>1
    <2>2. \A s \in Seq(1..Len(log)) : s \in Seq(1..Len(log'))
        BY <2>1, SeqMonotonic
    <2>3. batch \in [Clients -> Seq(1..Len(log'))] /\ got \in [Clients -> Seq(1..Len(log'))]
        BY <2>2 DEF TypeOK
    <2>4. cursor \in [Clients -> {Latest} \cup 0..Len(log')] /\ from \in [Clients -> 0..Len(log')]
        BY <2>1 DEF TypeOK
    <2>5. quiet \in [Clients -> {None} \cup 0..Len(log')]
        BY <2>1 DEF TypeOK
    <2>. QED  BY <1>1, <2>3, <2>4, <2>5, JobMoves DEF TypeOK
<1>3. CursorAtLast' /\ BatchNext' /\ ResumeExact'
    <2>1. CursorAtLast'
        BY <1>1 DEF CursorAtLast, Connected
    <2>2. 1..trimmed \subseteq 1..trimmed' /\ 0..trimmed \subseteq 0..trimmed'
        BY <1>1
    <2>3. BatchNext'
        BY <1>1, <2>2 DEF BatchNext
    <2>4. ResumeExact'
        BY <1>1, <2>2 DEF ResumeExact
    <2>. QED  BY <2>1, <2>3, <2>4
<1>4. /\ \A c \in Clients : /\ \A n : Received(c, n) => Received(c, n)'
                           /\ \A k : UpToDate(c, k) => UpToDate(c, k)'
      /\ \A n \in 1..Len(log) : n \in 1..Len(log') /\ log'[n] = log[n]
    <2>1. \A n : n <= trimmed /\ n \in Nat => n <= trimmed'
        BY <1>1
    <2>2. \A c \in Clients : \A n : Received(c, n) => Received(c, n)'
        BY <1>1 DEF Received
    <2>3. ASSUME NEW c \in Clients, NEW k, UpToDate(c, k), NEW n \in 1..k
          PROVE  \/ Received(c, n)' \/ n <= trimmed'
                 \/ c \in FromNow /\ (got'[c] = <<>> \/ n < got'[c][1])
        <3>1. \/ Received(c, n) \/ n <= trimmed
              \/ c \in FromNow /\ (got[c] = <<>> \/ n < got[c][1])
            BY <2>3 DEF UpToDate
        <3>2. n \in Nat
            OBVIOUS
        <3>. QED  BY <1>1, <2>1, <2>2, <3>1, <3>2
    <2>4. \A c \in Clients : \A k : UpToDate(c, k) => UpToDate(c, k)'
        BY <2>3 DEF UpToDate
    <2>5. \A n \in 1..Len(log) : n \in 1..Len(log') /\ log'[n] = log[n]
        BY <1>1, JobMoves
    <2>. QED  BY <2>2, <2>4, <2>5
<1>5. NothingMissed'
    BY <1>1, <1>4 DEF NothingMissed
<1>6. ClosedFirst' /\ EndsUpToDate'
    BY <1>1, <1>4, JobCloses DEF EndsUpToDate
<1>. QED  BY <1>2, <1>3, <1>5, <1>6

----------------------------------------------------------------------------
(* The clients *)

\* The other clients' handlers do not notice.
Others(c) ==
    \A d \in Clients \ {c} :
        /\ pc'[d] = pc[d] /\ cursor'[d] = cursor[d] /\ from'[d] = from[d]
        /\ batch'[d] = batch[d] /\ got'[d] = got[d] /\ quiet'[d] = quiet[d]

\* What a read returns: consecutive entries of the log, no more than `count`.
LEMMA OldestEntries ==
    ASSUME Len(log) \in Nat, NEW after \in Nat, after < Len(log)
    PROVE  /\ Oldest(after) \in Seq(1..Len(log))
           /\ Oldest(after) # <<>> /\ Len(Oldest(after)) <= Batch
           /\ \A i \in 1..Len(Oldest(after)) : Oldest(after)[i] = after + i
<1>. DEFINE k == IF Len(log) - after < Batch THEN Len(log) - after ELSE Batch
<1>1. k \in Nat \ {0} /\ k <= Batch /\ \A i \in 1..k : after + i \in 1..Len(log)
    BY EventsAssumption
<1>2. Oldest(after) = [i \in 1..k |-> after + i]
    BY DEF Oldest
<1>. HIDE DEF k
<1>3. Oldest(after) \in Seq(1..Len(log)) /\ Len(Oldest(after)) = k
    BY <1>1, <1>2
<1>. QED  BY <1>1, <1>2, <1>3

\* What Send(c) does: the first event of the batch is the client's, and the rest goes
\* on unless the stream is over, with a terminal event.
LEMMA SendMoves ==
    ASSUME TypeOK, BatchNext, NEW c \in Clients, Send(c)
    PROVE  /\ Head(batch[c]) = batch[c][1] /\ batch[c][1] \in 1..Len(log)
           /\ got' = [got EXCEPT ![c] = Append(@, batch[c][1])]
           /\ cursor' = [cursor EXCEPT ![c] = batch[c][1]]
           /\ \/ /\ pc' = [pc EXCEPT ![c] = "ended"]
                 /\ batch' = [batch EXCEPT ![c] = <<>>]
                 /\ \E n \in 1..Len(log) :
                       log[n] = "terminal" /\ (n = batch[c][1] \/ Received(c, n))
              \/ /\ pc' = [pc EXCEPT ![c] = "read"]
                 /\ batch' = [batch EXCEPT ![c] = <<>>]
              \/ /\ pc' = [pc EXCEPT ![c] = "send"]
                 /\ batch' = [batch EXCEPT ![c] = Tail(batch[c])]
                 /\ Tail(batch[c]) # <<>>
           /\ from' = [from EXCEPT ![c] = 0] \/ from' = from
           /\ UNCHANGED <<job, socket, quiet, drops>>
<1>. DEFINE n    == Head(batch[c])
            rest == Tail(batch[c])
            over == \/ c \notin socket /\ log[n] = "terminal"
                    \/ /\ c \in socket /\ rest = <<>>
                       /\ \E k \in ToSet(got[c]) \cup {n} :
                             k > from[c] /\ log[k] = "terminal"
<1>1. /\ pc[c] = "send"
      /\ got' = [got EXCEPT ![c] = Append(@, n)]
      /\ cursor' = [cursor EXCEPT ![c] = n]
      /\ batch' = [batch EXCEPT ![c] = IF over THEN <<>> ELSE rest]
      /\ from' = [from EXCEPT ![c] = IF over \/ rest = <<>> THEN 0 ELSE @]
      /\ pc' = [pc EXCEPT ![c] = IF over THEN "ended" ELSE IF rest = <<>> THEN "read" ELSE "send"]
      /\ UNCHANGED <<job, socket, quiet, drops>>
    BY DEF Send, Goto
<1>2. batch[c] \in Seq(1..Len(log)) /\ batch[c] # <<>>
    BY <1>1 DEF TypeOK, BatchNext
<1>3. n = batch[c][1] /\ n \in 1..Len(log)
    BY <1>2
<1>4. \A k \in ToSet(got[c]) : k \in 1..Len(log) /\ Received(c, k)
    <2>1. got[c] \in Seq(1..Len(log))
        BY DEF TypeOK
    <2>. QED  BY <2>1, ElementOfSeq, LenProperties DEF ToSet, Received
<1>5. over => \E k \in 1..Len(log) : log[k] = "terminal" /\ (k = batch[c][1] \/ Received(c, k))
    BY <1>3, <1>4
<1>6. from' = [from EXCEPT ![c] = 0] \/ from' = from
    BY <1>1 DEF TypeOK
<1>. HIDE DEF over, n, rest
<1>7. CASE over
    BY <1>1, <1>3, <1>5, <1>6, <1>7
<1>8. CASE ~over /\ rest = <<>>
    BY <1>1, <1>3, <1>6, <1>8
<1>9. CASE ~over /\ rest # <<>>
    BY <1>1, <1>3, <1>6, <1>9 DEF rest
<1>. QED  BY <1>7, <1>8, <1>9

\* A client's steps keep the types and touch nothing else.
LEMMA ClientTypes ==
    ASSUME TypeOK, BatchNext, NEW c \in Clients, ClientStep(c)
    PROVE  TypeOK' /\ Others(c) /\ UNCHANGED job
<1>. USE DEF TypeOK, Streaming, Goto, job
<1>1. CASE Connect(c)
    <2>1. got[c] # <<>> => Last(got[c]) \in 1..Len(log)
        <3>1. got[c] \in Seq(1..Len(log))
            OBVIOUS
        <3>. QED  BY <3>1 DEF Last
    <2>2. cursor' \in [Clients -> {Latest} \cup 0..Len(log)]
        BY <1>1, <2>1 DEF Connect
    <2>3. socket' \subseteq Sockets
        BY <1>1 DEF Connect
    <2>4. pc' \in [Clients -> Streaming \cup {"idle", "opening", "ended"}]
        BY <1>1 DEF Connect
    <2>5. \A d \in Clients : batch[d] # <<>> => pc'[d] = "send"
        BY <1>1 DEF Connect
    <2>. QED  BY <1>1, <2>2, <2>3, <2>4, <2>5 DEF Connect, Others
<1>2. CASE Open(c)
    BY <1>2 DEF Open, Others
<1>3. CASE BeginRead(c)
    BY <1>3 DEF BeginRead, Others, Latest
<1>4. CASE Receive(c)
    <2>1. After(c) \in Nat /\ After(c) < Len(log) /\ Len(log) \in Nat
        BY <1>4 DEF Receive, After
    <2>2. Oldest(After(c)) \in Seq(1..Len(log)) /\ Len(Oldest(After(c))) <= Batch
        BY <2>1, OldestEntries
    <2>. QED  BY <1>4, <2>2 DEF Receive, Others
<1>5. CASE TimeOut(c)
    BY <1>5 DEF TimeOut, Others, None
<1>6. CASE Poll(c)
    BY <1>6 DEF Poll, GoOn, Others, None
<1>7. CASE Send(c)
    <2>1. /\ batch[c][1] \in 1..Len(log) /\ batch[c] # <<>>
          /\ got' = [got EXCEPT ![c] = Append(@, batch[c][1])]
          /\ cursor' = [cursor EXCEPT ![c] = batch[c][1]]
          /\ \/ /\ \E x \in {"ended", "read"} : pc' = [pc EXCEPT ![c] = x]
                /\ batch' = [batch EXCEPT ![c] = <<>>]
             \/ /\ pc' = [pc EXCEPT ![c] = "send"]
                /\ batch' = [batch EXCEPT ![c] = Tail(batch[c])]
          /\ from' = [from EXCEPT ![c] = 0] \/ from' = from
          /\ UNCHANGED <<job, socket, quiet, drops>>
        BY <1>7, SendMoves DEF BatchNext, Send
    <2>2. /\ Append(got[c], batch[c][1]) \in Seq(1..Len(log))
          /\ Tail(batch[c]) \in Seq(1..Len(log)) /\ Len(Tail(batch[c])) <= Batch
        <3>1. got[c] \in Seq(1..Len(log)) /\ batch[c] \in Seq(1..Len(log))
            OBVIOUS
        <3>. QED  BY <2>1, <3>1, AppendProperties, HeadTailProperties, EventsAssumption
    <2>3. got' \in [Clients -> Seq(1..Len(log))]
        BY <2>1, <2>2
    <2>4. cursor' \in [Clients -> {Latest} \cup 0..Len(log)]
        BY <2>1
    <2>5. from' \in [Clients -> 0..Len(log)]
        BY <2>1
    <2>6. /\ batch' \in [Clients -> Seq(1..Len(log))]
          /\ pc' \in [Clients -> Streaming \cup {"idle", "opening", "ended"}]
          /\ \A d \in Clients : Len(batch'[d]) <= Batch /\ (batch'[d] # <<>> => pc'[d] = "send")
        <3>1. CASE batch' = [batch EXCEPT ![c] = <<>>]
            <4>1. Len(<<>>) <= Batch /\ <<>> \in Seq(1..Len(log))
                BY EventsAssumption
            <4>2. PICK x \in {"ended", "read", "send"} : pc' = [pc EXCEPT ![c] = x]
                BY <2>1
            <4>. QED  BY <3>1, <4>1, <4>2
        <3>2. CASE /\ pc' = [pc EXCEPT ![c] = "send"]
                   /\ batch' = [batch EXCEPT ![c] = Tail(batch[c])]
            BY <2>2, <3>2
        <3>. QED  BY <2>1, <3>1, <3>2
    <2>. QED  BY <2>1, <2>3, <2>4, <2>5, <2>6 DEF Others
<1>8. CASE Drop(c)
    BY <1>8, EventsAssumption DEF Drop, Others, None
<1>. QED  BY <1>1, <1>2, <1>3, <1>4, <1>5, <1>6, <1>7, <1>8 DEF ClientStep, Serve

\* A connection goes on where the last one of its client ended.
LEMMA ClientCursor ==
    ASSUME EventInv, NEW c \in Clients, ClientStep(c)
    PROVE  CursorAtLast'
<1>. USE DEF EventInv, Streaming, Goto
<1>1. TypeOK' /\ Others(c)
    BY ClientTypes
<1>2. ASSUME NEW d \in Clients \ {c}, Connected(d)'
      PROVE  IF got'[d] # <<>> THEN cursor'[d] = got'[d][Len(got'[d])]
                               ELSE cursor'[d] = 0 \/ d \in FromNow
    BY <1>1, <1>2 DEF CursorAtLast, Others, Connected
<1>3. ASSUME Connected(c)'
      PROVE  IF got'[c] # <<>> THEN cursor'[c] = got'[c][Len(got'[c])]
                               ELSE cursor'[c] = 0 \/ c \in FromNow
    <2>1. CASE Connect(c)
        BY <2>1 DEF Connect, TypeOK, Last
    <2>2. CASE Open(c) \/ BeginRead(c) \/ Receive(c) \/ TimeOut(c) \/ Poll(c)
        <3>1. Connected(c) /\ UNCHANGED <<got, cursor>>
            BY <2>2 DEF Open, BeginRead, Receive, TimeOut, Poll, GoOn, Connected
        <3>. QED  BY <3>1 DEF CursorAtLast
    <2>3. CASE Send(c)
        <3>1. /\ got' = [got EXCEPT ![c] = Append(@, batch[c][1])]
              /\ cursor' = [cursor EXCEPT ![c] = batch[c][1]]
              /\ batch[c][1] \in 1..Len(log)
            BY <2>3, SendMoves
        <3>2. got[c] \in Seq(Nat) /\ got'[c] = Append(got[c], batch[c][1])
            <4>1. got[c] \in Seq(1..Len(log)) /\ got \in [Clients -> Seq(1..Len(log))]
                BY DEF TypeOK
            <4>2. 1..Len(log) \subseteq Nat
                OBVIOUS
            <4>. QED  BY <3>1, <4>1, <4>2, SeqMonotonic
        <3>3. got'[c] # <<>> /\ got'[c][Len(got'[c])] = batch[c][1]
            <4>. DEFINE a == Append(got[c], batch[c][1])
            <4>1. a # <<>> /\ Len(a) = Len(got[c]) + 1 /\ a[Len(got[c]) + 1] = batch[c][1]
                <5>1. batch[c][1] \in Nat
                    BY <3>1
                <5>. QED  BY <3>2, <5>1, AppendProperties
            <4>. HIDE DEF a
            <4>2. got'[c] = a
                BY <3>2 DEF a
            <4>. QED  BY <4>1, <4>2
        <3>. QED  BY <3>1, <3>3 DEF TypeOK
    <2>4. CASE Drop(c)
        BY <1>3, <2>4 DEF Drop, Connected, TypeOK
    <2>. QED  BY <2>1, <2>2, <2>3, <2>4 DEF ClientStep, Serve
<1>. QED  BY <1>2, <1>3 DEF CursorAtLast

\* XREAD returns what comes next, and what is left of a batch still does.
LEMMA ClientBatch ==
    ASSUME EventInv, NEW c \in Clients, ClientStep(c)
    PROVE  BatchNext'
<1>. USE DEF EventInv, Streaming, Goto, job
<1>1. TypeOK' /\ Others(c) /\ UNCHANGED <<log, trimmed>>
    BY ClientTypes
<1>. DEFINE Reads(d) == pc[d] = "blocked" /\ cursor[d] # Latest => from[d] = cursor[d]
            Gapless(d) == \A i \in 1..(Len(batch[d]) - 1) : batch[d][i + 1] = batch[d][i] + 1
            Goes(d) == pc[d] = "send" =>
                 /\ batch[d] # <<>>
                 /\ cursor[d] # Latest => /\ batch[d][1] > cursor[d]
                                          /\ batch[d][1] - 1 \in {cursor[d]} \cup (1..trimmed)
<1>2. BatchNext <=> \A d \in Clients : Reads(d) /\ Gapless(d) /\ Goes(d)
    BY DEF BatchNext
<1>3. BatchNext' <=> \A d \in Clients : Reads(d)' /\ Gapless(d)' /\ Goes(d)'
    BY DEF BatchNext
<1>4. ASSUME NEW d \in Clients \ {c} PROVE Reads(d)' /\ Gapless(d)' /\ Goes(d)'
    <2>1. /\ pc'[d] = pc[d] /\ cursor'[d] = cursor[d] /\ from'[d] = from[d]
          /\ batch'[d] = batch[d] /\ trimmed' = trimmed
        BY <1>1 DEF Others
    <2>2. Reads(d) /\ Gapless(d) /\ Goes(d)
        BY <1>2
    <2>3. Reads(d)'
        BY <2>1, <2>2
    <2>4. Gapless(d)'
        <3>. HIDE DEF EventInv
        <3>. QED  BY <2>1, <2>2
    <2>5. Goes(d)'
        <3>. HIDE DEF EventInv
        <3>. QED  BY <2>1, <2>2
    <2>. QED  BY <2>3, <2>4, <2>5
<1>5. Reads(c)' /\ Gapless(c)' /\ Goes(c)'
    <2>1. CASE Connect(c) \/ Open(c) \/ TimeOut(c) \/ Poll(c) \/ Drop(c)
        <3>1. pc'[c] \notin {"blocked", "send"}
            BY <2>1 DEF Connect, Open, TimeOut, Poll, GoOn, Drop, TypeOK
        <3>2. batch'[c] = <<>> \/ batch'[c] = batch[c]
            BY <2>1 DEF Connect, Open, TimeOut, Poll, GoOn, Drop, TypeOK
        <3>3. Gapless(c)'
            BY <1>2, <3>2
        <3>. QED  BY <3>1, <3>3
    <2>2. CASE BeginRead(c)
        <3>1. /\ pc'[c] = "blocked" /\ batch'[c] = batch[c] /\ cursor'[c] = cursor[c]
              /\ from'[c] = IF cursor[c] = Latest THEN Len(log) ELSE cursor[c]
            BY <2>2 DEF BeginRead, TypeOK
        <3>. QED  BY <1>2, <3>1
    <2>3. CASE Receive(c)
        <3>1. /\ pc[c] = "blocked" /\ pc'[c] = "send" /\ cursor'[c] = cursor[c]
              /\ batch'[c] = Oldest(After(c)) /\ After(c) < Len(log)
            BY <2>3 DEF Receive, TypeOK
        <3>2. After(c) \in Nat /\ Len(log) \in Nat /\ trimmed \in Nat /\ from[c] \in Nat
            BY DEF After, TypeOK
        <3>3. /\ Oldest(After(c)) # <<>> /\ Oldest(After(c)) \in Seq(1..Len(log))
              /\ \A i \in 1..Len(Oldest(After(c))) : Oldest(After(c))[i] = After(c) + i
            BY <3>1, <3>2, OldestEntries
        <3>4. Gapless(c)'
            <4>. DEFINE o == Oldest(After(c))
            <4>1. Len(o) \in Nat /\ \A i \in 1..Len(o) : o[i] = After(c) + i
                BY <3>3
            <4>. HIDE DEF o
            <4>2. ASSUME NEW i \in 1..(Len(o) - 1) PROVE o[i + 1] = o[i] + 1
                <5>1. i \in 1..Len(o) /\ i + 1 \in 1..Len(o)
                    BY <4>1
                <5>2. o[i] = After(c) + i /\ o[i + 1] = After(c) + (i + 1)
                    BY <4>1, <5>1
                <5>. QED  BY <3>2, <4>1, <5>2
            <4>3. batch'[c] = o
                BY <3>1 DEF o
            <4>. QED  BY <4>2, <4>3
        <3>5. Len(batch'[c]) >= 1 /\ batch'[c][1] = After(c) + 1
            BY <3>1, <3>3
        <3>6. ASSUME cursor[c] # Latest
              PROVE  After(c) >= cursor[c] /\ After(c) \in {cursor[c]} \cup (1..trimmed)
            <4>1. from[c] = cursor[c]
                BY <1>2, <3>1, <3>6
            <4>. QED  BY <3>2, <4>1 DEF After
        <3>7. Goes(c)'
            <4>1. cursor[c] \in Int
                BY DEF TypeOK, Latest
            <4>2. cursor[c] # Latest => /\ After(c) + 1 > cursor[c]
                                        /\ (After(c) + 1) - 1 \in {cursor[c]} \cup (1..trimmed)
                BY <3>2, <3>6, <4>1
            <4>3. batch'[c] # <<>>
                BY <3>1, <3>3
            <4>. QED  BY <1>1, <3>1, <3>5, <4>2, <4>3
        <3>. QED  BY <3>1, <3>4, <3>7
    <2>4. CASE Send(c)
        <3>1. /\ batch[c][1] \in 1..Len(log) /\ batch[c] # <<>>
              /\ cursor' = [cursor EXCEPT ![c] = batch[c][1]]
              /\ \/ /\ \E x \in {"ended", "read"} : pc' = [pc EXCEPT ![c] = x]
                    /\ batch' = [batch EXCEPT ![c] = <<>>]
                 \/ /\ pc' = [pc EXCEPT ![c] = "send"]
                    /\ batch' = [batch EXCEPT ![c] = Tail(batch[c])]
                    /\ Tail(batch[c]) # <<>>
            BY <2>4, SendMoves DEF BatchNext, Send
        <3>2. CASE batch' = [batch EXCEPT ![c] = <<>>] /\ \E x \in {"ended", "read"} : pc' = [pc EXCEPT ![c] = x]
            <4>1. batch'[c] = <<>> /\ pc'[c] \in {"ended", "read"}
                BY <3>2 DEF TypeOK
            <4>. QED  BY <4>1
        <3>3. CASE /\ pc' = [pc EXCEPT ![c] = "send"]
                   /\ batch' = [batch EXCEPT ![c] = Tail(batch[c])]
                   /\ Tail(batch[c]) # <<>>
            <4>1. batch[c] \in Seq(1..Len(log)) /\ batch'[c] = Tail(batch[c]) /\ pc'[c] = "send"
                BY <3>3 DEF TypeOK
            <4>2. /\ Tail(batch[c]) \in Seq(1..Len(log)) /\ Len(Tail(batch[c])) = Len(batch[c]) - 1
                  /\ \A i \in 1..Len(Tail(batch[c])) : Tail(batch[c])[i] = batch[c][i + 1]
                BY <3>1, <4>1, HeadTailProperties
            <4>. DEFINE b == batch[c]
                        t == Tail(batch[c])
            <4>3. /\ Len(b) \in Nat /\ Len(t) = Len(b) - 1 /\ Len(t) >= 1
                  /\ \A i \in 1..Len(t) : t[i] = b[i + 1]
                  /\ \A i \in 1..(Len(b) - 1) : b[i + 1] = b[i] + 1
                  /\ b[1] \in 1..Len(log)
                <5>1. Len(t) \in Nat \ {0}
                    BY <3>3, <4>2, EmptySeq
                <5>2. Len(b) \in Nat
                    BY <4>1
                <5>3. \A i \in 1..(Len(b) - 1) : b[i + 1] = b[i] + 1
                    BY <1>2
                <5>4. Len(t) = Len(b) - 1 /\ \A i \in 1..Len(t) : t[i] = b[i + 1]
                    BY <4>2
                <5>5. b[1] \in 1..Len(log)
                    BY <3>1
                <5>. HIDE DEF b, t
                <5>6. Len(t) >= 1
                    BY <5>1
                <5>. QED  BY <5>2, <5>3, <5>4, <5>5, <5>6
            <4>4. batch'[c] = t
                BY <4>1
            <4>5. cursor'[c] = b[1]
                BY <3>1 DEF TypeOK
            <4>. HIDE DEF b, t
            <4>6. Gapless(c)'
                <5>1. ASSUME NEW i \in 1..(Len(t) - 1) PROVE t[i + 1] = t[i] + 1
                    <6>1. /\ i \in 1..Len(t) /\ i + 1 \in 1..Len(t)
                          /\ i + 1 \in 1..(Len(b) - 1)
                        BY <4>3
                    <6>. QED  BY <4>3, <6>1
                <5>. QED  BY <4>4, <5>1
            <4>7. t[1] = b[1] + 1
                <5>1. 1 \in 1..Len(t) /\ 1 \in 1..(Len(b) - 1)
                    BY <4>3
                <5>. QED  BY <4>3, <5>1
            <4>8. Goes(c)'
                <5>1. t[1] > b[1] /\ t[1] - 1 = b[1]
                    BY <4>3, <4>7
                <5>2. t # <<>>
                    BY <3>3 DEF t
                <5>. QED  BY <4>4, <4>5, <5>1, <5>2
            <4>. QED  BY <4>1, <4>6, <4>8
        <3>. QED  BY <3>1, <3>2, <3>3
    <2>. QED  BY <2>1, <2>2, <2>3, <2>4 DEF ClientStep, Serve
<1>. QED  BY <1>3, <1>4, <1>5

\* An event that is sent is the next one for its client.
LEMMA ClientResumes ==
    ASSUME EventInv, NEW c \in Clients, ClientStep(c)
    PROVE  ResumeExact'
<1>. USE DEF EventInv
<1>1. Others(c) /\ UNCHANGED trimmed
    BY ClientTypes DEF job
<1>2. CASE got'[c] = got[c]
    <2>1. \A d \in Clients : got'[d] = got[d]
        BY <1>1, <1>2 DEF Others
    <2>. QED  BY <1>1, <2>1 DEF ResumeExact
<1>3. CASE Send(c)
    <2>. DEFINE n == batch[c][1]
                g == got[c]
    <2>1. /\ n \in 1..Len(log) /\ g \in Seq(1..Len(log)) /\ got'[c] = Append(g, n)
        BY <1>3, SendMoves DEF TypeOK
    <2>2. /\ Len(got'[c]) = Len(g) + 1 /\ got'[c][Len(g) + 1] = n
          /\ \A i \in 1..Len(g) : got'[c][i] = g[i]
        BY <2>1, AppendProperties
    <2>3. /\ pc[c] = "send" /\ Connected(c)
          /\ cursor[c] # Latest => n > cursor[c] /\ n - 1 \in {cursor[c]} \cup (1..trimmed)
        BY <1>3 DEF Send, BatchNext, Connected, Streaming
    <2>4. g # <<>> => Len(g) >= 1 /\ n > g[Len(g)] /\ n - 1 \in {g[Len(g)]} \cup (1..trimmed)
        <3>1. ASSUME g # <<>> PROVE Len(g) \in Nat \ {0} /\ g[Len(g)] \in 1..Len(log)
            BY <2>1, <3>1
        <3>. QED  BY <2>3, <3>1 DEF CursorAtLast, Latest
    <2>5. g = <<>> /\ c \notin FromNow => n - 1 \in 0..trimmed
        <3>1. g = <<>> /\ c \notin FromNow => cursor[c] = 0
            BY <2>3 DEF CursorAtLast
        <3>. QED  BY <2>3, <3>1 DEF Latest, TypeOK
    <2>. HIDE DEF n, g
    <2>6. \A i \in 1..(Len(got'[c]) - 1) :
             /\ got'[c][i] < got'[c][i + 1]
             /\ got'[c][i + 1] - 1 \in {got'[c][i]} \cup (1..trimmed)
        <3>. TAKE i \in 1..(Len(got'[c]) - 1)
        <3>1. CASE i = Len(g)
            BY <2>1, <2>2, <2>4, <3>1
        <3>2. CASE i # Len(g)
            <4>1. i \in 1..(Len(g) - 1) /\ i \in 1..Len(g) /\ i + 1 \in 1..Len(g)
                BY <2>1, <2>2, <3>2
            <4>2. g[i] < g[i + 1] /\ g[i + 1] - 1 \in {g[i]} \cup (1..trimmed)
                BY <4>1 DEF ResumeExact, g
            <4>. QED  BY <2>2, <4>1, <4>2
        <3>. QED  BY <3>1, <3>2
    <2>7. c \notin FromNow => got'[c][1] - 1 \in 0..trimmed
        <3>1. CASE g = <<>>
            BY <2>2, <2>5, <3>1
        <3>2. CASE g # <<>>
            <4>1. 1 \in 1..Len(g)
                BY <2>1, <3>2
            <4>. QED  BY <2>2, <3>2, <4>1 DEF ResumeExact, g
        <3>. QED  BY <3>1, <3>2
    <2>8. \A d \in Clients \ {c} : got'[d] = got[d]
        BY <1>1 DEF Others
    <2>. QED  BY <1>1, <2>6, <2>7, <2>8 DEF ResumeExact
<1>. QED  BY <1>2, <1>3 DEF ClientStep, Serve, Connect, Open, BeginRead, Receive, TimeOut,
        Poll, Drop

\* What was there for a client stays there: it only gets more.
LEMMA SendAdds ==
    ASSUME EventInv, NEW c \in Clients, Send(c), NEW n, n = batch[c][1]
    PROVE  /\ Received(c, n)' /\ \A m : Received(c, m) => Received(c, m)'
           /\ got'[c] # <<>> /\ got'[c][Len(got'[c])] = n
           /\ got'[c][1] = IF got[c] = <<>> THEN n ELSE got[c][1]
<1>. DEFINE g == got[c]
            h == Append(g, n)
<1>1. /\ n \in 1..Len(log) /\ g \in Seq(1..Len(log)) /\ got'[c] = h
    BY SendMoves DEF TypeOK, EventInv
<1>2. /\ Len(g) \in Nat /\ Len(h) = Len(g) + 1 /\ h[Len(g) + 1] = n
      /\ \A i \in 1..Len(g) : h[i] = g[i]
    BY <1>1, AppendProperties
<1>3. g = <<>> <=> Len(g) = 0
    BY <1>1, EmptySeq
<1>4. h # <<>>
    BY <1>1, AppendProperties
<1>5. \A m : Received(c, m) <=> \E i \in 1..Len(g) : g[i] = m
    BY DEF Received
<1>6. \A m : Received(c, m)' <=> \E i \in 1..Len(h) : h[i] = m
    <2>. HIDE DEF h
    <2>. QED  BY <1>1 DEF Received
<1>. HIDE DEF g, h
<1>7. Len(g) + 1 \in 1..Len(h) /\ \A i \in 1..Len(g) : i \in 1..Len(h)
    BY <1>2
<1>8. Received(c, n)' /\ \A m : Received(c, m) => Received(c, m)'
    BY <1>2, <1>5, <1>6, <1>7
<1>9. h[1] = IF g = <<>> THEN n ELSE g[1]
    <2>1. CASE g = <<>>
        BY <1>2, <1>3, <2>1
    <2>2. CASE g # <<>>
        <3>1. 1 \in 1..Len(g)
            BY <1>2, <1>3, <2>2
        <3>. QED  BY <1>2, <2>2, <3>1
    <2>. QED  BY <2>1, <2>2
<1>10. h[Len(h)] = n
    BY <1>2
<1>. QED  BY <1>1, <1>4, <1>8, <1>9, <1>10 DEF g

\* A client whose connection does not move lacks as little as before.
LEMMA StillUpToDate ==
    ASSUME NEW d \in Clients, got'[d] = got[d], trimmed' = trimmed
    PROVE  /\ \A n : Received(d, n)' = Received(d, n)
           /\ \A k : UpToDate(d, k)' = UpToDate(d, k)
BY DEF Received, UpToDate

\* The read that comes back empty started at the end of the stream: its client has got
\* the newest event, and by ResumeExact all before it.
LEMMA EmptyReadIsUpToDate ==
    ASSUME EventInv, NEW c \in Clients, TimeOut(c)
    PROVE  UpToDate(c, Len(log))
<1>. USE DEF EventInv
<1>1. /\ pc[c] = "blocked" /\ After(c) >= Len(log)
      /\ Len(log) \in Nat /\ trimmed \in 0..Len(log) /\ from[c] \in 0..Len(log)
    BY DEF TimeOut, TypeOK
<1>2. CASE trimmed = Len(log)
    <2>. SUFFICES ASSUME NEW n \in 1..Len(log) PROVE n <= trimmed
        BY DEF UpToDate
    <2>. QED  BY <1>1, <1>2
<1>3. CASE from[c] = Len(log) /\ got[c] # <<>> /\ cursor[c] # Latest
    <2>1. from[c] = cursor[c] /\ Connected(c)
        BY <1>1, <1>3 DEF BatchNext, Connected, Streaming
    <2>2. cursor[c] = got[c][Len(got[c])]
        BY <1>3, <2>1 DEF CursorAtLast
    <2>. QED  BY <1>3, <2>1, <2>2 DEF NothingMissed
<1>4. CASE from[c] = Len(log) /\ got[c] = <<>>
    <2>1. CASE c \in FromNow
        BY <1>4, <2>1 DEF UpToDate
    <2>2. CASE c \notin FromNow
        <3>1. cursor[c] = 0 /\ from[c] = 0
            BY <1>1, <1>4, <2>2 DEF CursorAtLast, Connected, Streaming, BatchNext, Latest
        <3>2. \A n \in 1..Len(log) : FALSE
            BY <1>1, <1>4, <3>1
        <3>. QED  BY <3>2 DEF UpToDate
    <2>. QED  BY <2>1, <2>2
<1>5. CASE got[c] # <<>> /\ cursor[c] = Latest
    <2>1. cursor[c] = got[c][Len(got[c])]
        BY <1>1, <1>5 DEF CursorAtLast, Connected, Streaming
    <2>2. got[c][Len(got[c])] \in 1..Len(log)
        <3>1. got[c] \in Seq(1..Len(log)) /\ Len(got[c]) \in 1..Len(got[c])
            BY <1>5, EmptySeq DEF TypeOK
        <3>. QED  BY <3>1
    <2>. QED  BY <1>5, <2>1, <2>2 DEF Latest
<1>6. trimmed = Len(log) \/ from[c] = Len(log)
    BY <1>1 DEF After
<1>. QED  BY <1>2, <1>3, <1>4, <1>5, <1>6

\* Events are sent one after the other, and what a client knew at an empty read it
\* still has.
LEMMA ClientMisses ==
    ASSUME EventInv, NEW c \in Clients, ClientStep(c)
    PROVE  NothingMissed'
<1>. USE DEF EventInv
<1>1. TypeOK' /\ Others(c) /\ UNCHANGED job
    BY ClientTypes
<1>2. trimmed' = trimmed /\ log' = log
    BY <1>1 DEF job
<1>. DEFINE Fine(d) ==
                      /\ got[d] # <<>> => UpToDate(d, got[d][Len(got[d])])
                      /\ quiet[d] # None => pc[d] \in {"poll", "ended"} /\ UpToDate(d, quiet[d])
                      /\ pc[d] = "poll" => quiet[d] # None
<1>3. (NothingMissed <=> \A d \in Clients : Fine(d)) /\ (NothingMissed' <=> \A d \in Clients : Fine(d)')
    BY DEF NothingMissed
<1>4. ASSUME NEW d \in Clients \ {c} PROVE Fine(d)'
    <2>1. pc'[d] = pc[d] /\ got'[d] = got[d] /\ quiet'[d] = quiet[d]
        BY <1>1 DEF Others
    <2>2. Fine(d) /\ \A k : UpToDate(d, k)' = UpToDate(d, k)
        BY <1>2, <1>3, <2>1, StillUpToDate
    <2>. HIDE DEF EventInv
    <2>. QED  BY <2>1, <2>2
<1>. DEFINE Quiets == \/ quiet'[c] = None /\ pc'[c] # "poll"
                      \/ /\ quiet'[c] = quiet[c] /\ pc'[c] # "poll"
                         /\ pc[c] \in {"poll", "ended"} => pc'[c] = "ended"
                      \/ quiet'[c] = Len(log) /\ pc'[c] = "poll" /\ TimeOut(c)
<1>5. CASE got'[c] = got[c] /\ Quiets
    <2>1. Fine(c) /\ \A k : UpToDate(c, k)' = UpToDate(c, k)
        BY <1>2, <1>3, <1>5, StillUpToDate
    <2>2. TimeOut(c) => UpToDate(c, Len(log)) /\ Len(log) # None
        BY EmptyReadIsUpToDate DEF TypeOK, None
    <2>3. Fine(c)'
        <3>. HIDE DEF EventInv
        <3>. QED  BY <1>5, <2>1, <2>2
    <2>. QED  BY <1>3, <1>4, <2>3
<1>6. CASE Send(c)
    <2>. PICK n : n = batch[c][1]
        OBVIOUS
    <2>1. /\ n \in 1..Len(log) /\ quiet'[c] = quiet[c] /\ pc'[c] # "poll"
          /\ pc[c] = "send" /\ Connected(c)
        BY <1>6, SendMoves DEF TypeOK, Send, Connected, Streaming
    <2>2. /\ Received(c, n)' /\ \A m : Received(c, m) => Received(c, m)'
          /\ got'[c] # <<>> /\ got'[c][Len(got'[c])] = n
          /\ got'[c][1] = IF got[c] = <<>> THEN n ELSE got[c][1]
        BY <1>6, SendAdds
    <2>3. cursor[c] # Latest => n - 1 \in {cursor[c]} \cup (1..trimmed)
        BY <1>6 DEF Send, BatchNext
    <2>4. ASSUME got[c] # <<>>, NEW k, UpToDate(c, k) PROVE UpToDate(c, k)'
        <3>1. ASSUME NEW m \in 1..k
              PROVE  \/ Received(c, m)' \/ m <= trimmed'
                     \/ c \in FromNow /\ (got'[c] = <<>> \/ m < got'[c][1])
            <4>1. \/ Received(c, m) \/ m <= trimmed
                  \/ c \in FromNow /\ (got[c] = <<>> \/ m < got[c][1])
                BY <2>4, <3>1 DEF UpToDate
            <4>. HIDE DEF EventInv
            <4>. QED  BY <1>2, <2>2, <2>4, <4>1
        <3>. QED  BY <3>1 DEF UpToDate
    <2>5. UpToDate(c, n)'
        <3>1. ASSUME NEW m \in 1..n
              PROVE  \/ Received(c, m)' \/ m <= trimmed'
                     \/ c \in FromNow /\ (got'[c] = <<>> \/ m < got'[c][1])
            <4>1. CASE m = n
                BY <2>2, <4>1
            <4>2. CASE m # n /\ n - 1 \in 1..trimmed
                BY <1>2, <2>1, <3>1, <4>2 DEF TypeOK
            <4>3. CASE m # n /\ got[c] # <<>> /\ n - 1 = got[c][Len(got[c])]
                <5>1. m \in 1..(n - 1)
                    BY <2>1, <3>1, <4>3
                <5>2. UpToDate(c, n - 1)
                    BY <4>3 DEF NothingMissed
                <5>. HIDE DEF EventInv
                <5>3. UpToDate(c, n - 1)'
                    BY <2>4, <4>3, <5>2
                <5>. QED  BY <5>1, <5>3 DEF UpToDate
            <4>4. CASE m # n /\ got[c] = <<>> /\ c \in FromNow
                <5>1. got'[c][1] = n /\ m < n
                    BY <2>1, <2>2, <3>1, <4>4
                <5>. QED  BY <4>4, <5>1
            <4>5. CASE m # n /\ got[c] = <<>> /\ c \notin FromNow
                <5>1. cursor[c] = 0
                    BY <2>1, <4>5 DEF CursorAtLast
                <5>. QED  BY <1>2, <2>1, <2>3, <3>1, <4>5, <5>1 DEF Latest, TypeOK
            <4>6. CASE got[c] # <<>>
                <5>1. cursor[c] = got[c][Len(got[c])]
                    BY <2>1, <4>6 DEF CursorAtLast
                <5>2. got[c][Len(got[c])] \in 1..Len(log)
                    <6>1. got[c] \in Seq(1..Len(log)) /\ Len(got[c]) \in 1..Len(got[c])
                        BY <4>6, EmptySeq DEF TypeOK
                    <6>. QED  BY <6>1
                <5>3. cursor[c] # Latest
                    BY <5>1, <5>2 DEF Latest
                <5>. QED  BY <2>3, <4>1, <4>2, <4>3, <4>6, <5>1, <5>3
            <4>. QED  BY <4>1, <4>4, <4>5, <4>6
        <3>. QED  BY <3>1 DEF UpToDate
    <2>6. quiet[c] = None
        BY <2>1 DEF NothingMissed
    <2>7. Fine(c)'
        <3>. HIDE DEF EventInv
        <3>. QED  BY <2>1, <2>2, <2>5, <2>6
    <2>. QED  BY <1>3, <1>4, <2>7
<1>7. CASE ~Send(c)
    <2>. USE DEF TypeOK, Goto
    <2>1. got'[c] = got[c] /\ Quiets
        <3>1. CASE Connect(c) \/ Open(c) \/ BeginRead(c) \/ Receive(c)
            BY <3>1 DEF Connect, Open, BeginRead, Receive
        <3>2. CASE Poll(c)
            BY <3>2 DEF Poll, GoOn
        <3>3. CASE TimeOut(c) \/ Drop(c)
            BY <3>3 DEF TimeOut, Drop
        <3>. QED  BY <1>7, <3>1, <3>2, <3>3 DEF ClientStep, Serve
    <2>. QED  BY <1>5, <2>1
<1>. QED  BY <1>6, <1>7

\* A stream ends because of a terminal event that was sent, or after an empty read.
LEMMA ClientEnds ==
    ASSUME EventInv, NEW c \in Clients, ClientStep(c)
    PROVE  EndsUpToDate' /\ ClosedFirst'
<1>. USE DEF EventInv, Goto
<1>1. TypeOK' /\ Others(c) /\ UNCHANGED job
    BY ClientTypes
<1>2. UNCHANGED <<log, trimmed, status, closed>>
    BY <1>1 DEF job
<1>. DEFINE Told(d) ==
        pc[d] = "ended" =>
            \/ \E n \in 1..Len(log) : log[n] = "terminal" /\ Received(d, n)
            \/ quiet[d] # None /\ UpToDate(d, quiet[d]) /\ closed
<1>3. (EndsUpToDate <=> \A d \in Clients : Told(d)) /\ (EndsUpToDate' <=> \A d \in Clients : Told(d)')
    BY DEF EndsUpToDate
<1>4. ASSUME NEW d \in Clients \ {c} PROVE Told(d)'
    <2>1. pc'[d] = pc[d] /\ got'[d] = got[d] /\ quiet'[d] = quiet[d]
        BY <1>1 DEF Others
    <2>2. /\ Told(d) /\ \A k : UpToDate(d, k)' = UpToDate(d, k)
          /\ \A n : Received(d, n)' = Received(d, n)
        BY <1>2, <1>3, <2>1, StillUpToDate
    <2>. HIDE DEF EventInv
    <2>. QED  BY <1>2, <2>1, <2>2
<1>5. Told(c)'
    <2>. SUFFICES ASSUME pc'[c] = "ended"
                  PROVE  (\/ \E n \in 1..Len(log) : log[n] = "terminal" /\ Received(c, n)
                          \/ quiet[c] # None /\ UpToDate(c, quiet[c]) /\ closed)'
        OBVIOUS
    <2>1. CASE Send(c)
        <3>1. pc \in [Clients -> Streaming \cup {"idle", "opening", "ended"}]
            BY DEF TypeOK
        <3>2. \E n \in 1..Len(log) : log[n] = "terminal" /\ (n = batch[c][1] \/ Received(c, n))
            BY <2>1, <3>1, SendMoves
        <3>3. \A n : n = batch[c][1] \/ Received(c, n) => Received(c, n)'
            BY <2>1, SendAdds
        <3>. QED  BY <1>2, <3>2, <3>3
    <2>2. CASE Poll(c)
        <3>1. pc[c] = "poll" /\ status # "active" /\ quiet'[c] = quiet[c] /\ got'[c] = got[c]
            BY <2>2 DEF Poll, GoOn, TypeOK
        <3>2. closed /\ quiet[c] # None /\ UpToDate(c, quiet[c])
            BY <3>1 DEF ClosedFirst, NothingMissed
        <3>3. UpToDate(c, quiet[c])'
            BY <1>2, <3>1, <3>2, StillUpToDate DEF UpToDate, Received
        <3>. QED  BY <1>2, <3>1, <3>2, <3>3
    <2>3. CASE Connect(c) \/ Open(c) \/ BeginRead(c) \/ Receive(c) \/ TimeOut(c) \/ Drop(c)
        BY <2>3 DEF Connect, Open, BeginRead, Receive, TimeOut, Drop, TypeOK
    <2>. QED  BY <2>1, <2>2, <2>3 DEF ClientStep, Serve
<1>6. EndsUpToDate'
    BY <1>3, <1>4, <1>5
<1>. QED  BY <1>2, <1>6 DEF ClosedFirst

----------------------------------------------------------------------------
(* The theorems *)

\* Before anything is published and anybody connects.
LEMMA EventInit == Init => EventInv
<1>. SUFFICES ASSUME Init PROVE EventInv
    OBVIOUS
<1>. USE EventsAssumption DEF Init
<1>1. TypeOK
    <2>1. log \in Seq({"data", "terminal"}) /\ Len(log) = 0
        OBVIOUS
    <2>2. batch \in [Clients -> Seq(1..Len(log))] /\ got \in [Clients -> Seq(1..Len(log))]
        OBVIOUS
    <2>3. \A c \in Clients : Len(batch[c]) <= Batch /\ batch[c] = <<>>
        OBVIOUS
    <2>4. /\ pc \in [Clients -> Streaming \cup {"idle", "opening", "ended"}]
          /\ cursor \in [Clients -> {Latest} \cup 0..Len(log)]
          /\ from \in [Clients -> 0..Len(log)]
        BY <2>1
    <2>5. /\ status \in Phase /\ closed \in BOOLEAN
          /\ quiet \in [Clients -> {None} \cup 0..Len(log)]
        BY DEF Phase
    <2>. QED  BY <2>1, <2>2, <2>3, <2>4, <2>5 DEF TypeOK
<1>2. /\ ClosedFirst /\ CursorAtLast /\ BatchNext /\ ResumeExact
      /\ NothingMissed /\ EndsUpToDate
    BY DEF ClosedFirst, CursorAtLast, BatchNext, ResumeExact, NothingMissed, EndsUpToDate,
        Connected, Streaming
<1>. QED  BY <1>1, <1>2 DEF EventInv

\* What the clients have been sent is right in every reachable state.
THEOREM EventInductive == Spec => []EventInv
<1>1. ASSUME EventInv, [Next]_vars PROVE EventInv'
    <2>1. ASSUME NEW c \in Clients, ClientStep(c) PROVE EventInv'
        BY <1>1, <2>1, ClientTypes, ClientCursor, ClientBatch, ClientResumes, ClientMisses,
           ClientEnds
        DEF EventInv
    <2>2. CASE UNCHANGED vars
        BY <1>1, <2>2 DEF vars, EventInv, TypeOK, ClosedFirst, CursorAtLast, Connected,
            BatchNext, ResumeExact, NothingMissed, EndsUpToDate, UpToDate, Received
    <2>. QED  BY <1>1, <2>1, <2>2, JobKeeps, NextCases
<1>. QED  BY EventInit, <1>1, PTL DEF Spec

\* Every variable keeps its type: no client gets an event that was not published.
THEOREM EventTypes == Spec => []TypeOK
<1>1. EventInv => TypeOK
    BY DEF EventInv
<1>. QED  BY EventInductive, <1>1, PTL

\* README.md:50, main.py:414, test_gateway.py:250: over all its connections a client
\* gets the events in order, once, and misses only what XADD has trimmed.
THEOREM ResumesExactly == Spec => []ResumeExact
<1>1. EventInv => ResumeExact
    BY DEF EventInv
<1>. QED  BY EventInductive, <1>1, PTL

\* main.py:391-393: nobody is told the end but after a terminal event, or after an
\* empty read of a job that was decided or had no hash left; in that case nothing
\* published before that read is missing but what XADD had trimmed.
THEOREM EndsAreUpToDate == Spec => []EndsUpToDate
<1>1. EventInv => EndsUpToDate
    BY DEF EventInv
<1>. QED  BY EventInductive, <1>1, PTL
=============================================================================
