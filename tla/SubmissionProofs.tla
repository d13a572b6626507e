-------------------------- MODULE SubmissionProofs --------------------------
(***************************************************************************)
(* For any number of requests, tenants and keys, and any number of errors: *)
(* submit() never queues a job that lacks its hash or its upload, never    *)
(* leaves anything of a refused request, and never lets an idempotency key *)
(* name a job that is not queued.                                          *)
(***************************************************************************)
EXTENDS Submission, TLAPS

\* Before the first request nothing is stored.
LEMMA SubmitInit == Init => SubmitInv
  <1> SUFFICES ASSUME Init PROVE SubmitInv
    OBVIOUS
  <1> USE SubmissionAssumption DEF Init
  <1>1. TypeOK
    BY DEF TypeOK, CountersOK, Steps, None, Days
  <1>2. RefusedLeavesNothing /\ QueuedIsRunnable /\ KeyNamesQueuedJob
    BY DEF RefusedLeavesNothing, QueuedIsRunnable, KeyNamesQueuedJob, None, blobs
  <1>3. \A r \in Requests : Stage(r)
    BY DEF Stage, blobs
  <1> QED
    BY <1>1, <1>2, <1>3 DEF SubmitInv

\* A file that passes matches_extension() and whose pages can be counted is one
\* that the worker's Document() opens, with as many pages.
LEMMA InspectedIsReadable ==
  ASSUME NEW d \in Documents, Matches(d), Probe(d) # 0
  PROVE  Readable(d)
  BY SubmissionAssumption DEF Document, Kinds, Matches, Probe, Opened, Readable

\* Page counts are numbers, of at most MaxPages or 1.
LEMMA ProbeType ==
  ASSUME NEW d \in Documents
  PROVE  Probe(d) \in Nat /\ Opened(d) \in Nat
  BY SubmissionAssumption DEF Document, Probe, Opened, Capped

\* An upload on disk is one of the files clients send.
LEMMA BlobType ==
  ASSUME TypeOK
  PROVE  /\ \A r \in blobs : blob[r] \in Documents
         /\ \A d \in Documents : d # NoBlob
  <1>1. \A d \in Documents : d.suffix \in Kinds
    BY SubmissionAssumption DEF Document
  <1>2. \A d \in Documents : d # NoBlob
    BY <1>1 DEF Kinds, NoBlob
  <1> QED
    BY <1>2 DEF TypeOK, blobs

\* Every command of submit(), every error in it and every charge of the worker
\* keeps the invariant.
LEMMA SubmitNext == SubmitInv /\ [Next]_vars => SubmitInv'
  <1> SUFFICES ASSUME SubmitInv, [Next]_vars PROVE SubmitInv'
    OBVIOUS
  <1> USE SubmissionAssumption DEF SubmitInv, TypeOK, Steps, None, store, quota,
          RefusedLeavesNothing, QueuedIsRunnable, KeyNamesQueuedJob, Stage, blobs
  <1>a. ASSUME NEW r \in Requests
        PROVE  IdemKey(r) \in IdemKeys /\ IdemKey(r)[1] = Tenant[r] /\ Tenant[r] \in Tenants
    BY DEF IdemKey, IdemKeys, Tenants
  <1>b. (\A r \in Requests : blob[r] # NoBlob => blob[r] \in Documents) /\ NoBlob \notin Documents
    BY BlobType
  <1>c. UNCHANGED <<used, again>> => CountersOK'
    BY DEF CountersOK
  <1>1. ASSUME NEW r \in Requests, Arrive(r) PROVE SubmitInv'
    BY <1>c, <1>1 DEF Arrive, Answer, Goto
  <1>2. ASSUME NEW r \in Requests, Lookup(r) PROVE SubmitInv'
    <2>1. CASE Goto(r, "upload")
      BY <1>c, <1>2, <2>1 DEF Lookup, Goto
    <2>2. CASE Answer(r, idem[IdemKey(r)]) /\ idem[IdemKey(r)] # None
      <3>1. idem[IdemKey(r)] \in Requests
        BY <1>c, <1>a, <2>2
      <3> QED
        BY <1>c, <1>2, <2>2, <3>1 DEF Lookup, Answer
    <2> QED
      BY <1>c, <1>2, <2>1, <2>2 DEF Lookup
  <1>3. ASSUME NEW r \in Requests, Upload(r) PROVE SubmitInv'
    BY <1>c, <1>b, <1>3 DEF Upload, Refuse, Stored, Answer, Goto
  <1>4. ASSUME NEW r \in Requests, Inspect(r) PROVE SubmitInv'
    <2>1. CASE Refuse(r)
      BY <1>c, <1>4, <2>1 DEF Inspect, Refuse, Stored, Answer
    <2>2. CASE UNCHANGED blob /\ Goto(r, "quota") /\ Matches(blob[r]) /\ Probe(blob[r]) # 0
      <3>1. Readable(blob[r])
        BY <1>b, <1>4, <2>2, InspectedIsReadable DEF Inspect
      <3> QED
        BY <1>c, <1>4, <2>2, <3>1 DEF Inspect, Goto
    <2> QED
      BY <1>c, <1>4, <2>1, <2>2 DEF Inspect
  <1>5. ASSUME NEW r \in Requests, CheckQuota(r) PROVE SubmitInv'
    <2>1. CASE Refuse(r)
      BY <1>c, <1>a, <1>5, <2>1 DEF CheckQuota, Refuse, Stored, Answer
    <2>2. CASE UNCHANGED blob /\ Goto(r, "state")
      BY <1>c, <1>a, <1>5, <2>2 DEF CheckQuota, Goto
    <2> QED
      BY <1>c, <1>5, <2>1, <2>2 DEF CheckQuota, Decide
  <1>6. ASSUME NEW r \in Requests, SetQueued(r) PROVE SubmitInv'
    BY <1>c, <1>6 DEF SetQueued, Goto
  <1>7. ASSUME NEW r \in Requests, Enqueue(r) PROVE SubmitInv'
    BY <1>c, <1>7 DEF Enqueue, Answer, Goto
  <1>8. ASSUME NEW r \in Requests, Remember(r) PROVE SubmitInv'
    BY <1>c, <1>a, <1>8 DEF Remember, Answer
  <1>9. ASSUME NEW r \in Requests, Fail(r) PROVE SubmitInv'
    <2> USE <1>9 DEF Fail, Answer
    <2>1. CASE UNCHANGED <<blob, hashes, queue, idem>>
      BY <1>c, <2>1
    <2>2. CASE /\ pc[r] = "upload" /\ \E d \in Documents : Stored(r, d)
               /\ UNCHANGED <<hashes, queue, idem>>
      BY <1>c, <1>b, <2>2 DEF Stored
    <2>3. CASE pc[r] = "state" /\ hashes' = hashes \cup {r} /\ UNCHANGED <<blob, queue, idem>>
      BY <1>c, <2>3
    <2>4. CASE pc[r] = "enqueue" /\ queue' = queue \cup {r} /\ UNCHANGED <<blob, hashes, idem>>
      BY <1>c, <2>4
    <2>5. CASE /\ pc[r] = "remember" /\ idem' = [idem EXCEPT ![IdemKey(r)] = r]
               /\ UNCHANGED <<blob, hashes, queue>>
      BY <1>c, <1>a, <2>5
    <2> QED
      BY <1>c, <2>1, <2>2, <2>3, <2>4, <2>5
  <1>10. ASSUME NEW r \in Requests, Consume(r) PROVE SubmitInv'
    <2>1. CountersOK'
      <3>1. PICK n \in 0..Opened(blob[r]) :
                used' = IF Limit > 0 THEN [used EXCEPT ![Tenant[r]][day] = @ + n] ELSE used
        BY <1>10 DEF Consume
      <3>2. n \in Nat /\ used[Tenant[r]][day] + n \in Nat
        BY <1>a, <1>b, <1>10, ProbeType DEF Consume, CountersOK
      <3> QED
        BY <1>a, <1>10, <3>1, <3>2 DEF CountersOK, Consume
    <2> QED
      BY <1>10, <2>1 DEF Consume
  <1>14. ASSUME NEW r \in Requests, ConsumeAgain(r) PROVE SubmitInv'
    <2>1. CountersOK'
      <3>1. PICK n \in 0..Opened(blob[r]) :
                /\ used' = [used EXCEPT ![Tenant[r]][day] = @ + n]
                /\ again' = [again EXCEPT ![Tenant[r]][day] = @ + n]
        BY <1>14 DEF ConsumeAgain
      <3>2. n \in Nat /\ used[Tenant[r]][day] + n \in Nat /\ again[Tenant[r]][day] + n \in Nat
        BY <1>a, <1>b, <1>14, ProbeType DEF ConsumeAgain, CountersOK
      <3> QED
        BY <1>a, <3>1, <3>2 DEF CountersOK
    <2> QED
      BY <1>14, <2>1 DEF ConsumeAgain
  <1>11. ASSUME NEW r \in Requests, QuotaFault(r) PROVE SubmitInv'
    <2>1. CASE Refuse(r)
      BY <1>c, <1>a, <1>11, <2>1 DEF QuotaFault, Refuse, Stored, Answer
    <2>2. CASE UNCHANGED blob /\ Goto(r, "state")
      BY <1>c, <1>a, <1>11, <2>2 DEF QuotaFault, Goto
    <2> QED
      BY <1>c, <1>11, <2>1, <2>2 DEF QuotaFault, Decide
  <1>12. CASE Midnight
    BY <1>c, <1>12 DEF Midnight
  <1>13. CASE UNCHANGED vars
    BY <1>c, <1>13 DEF vars
  <1> QED
    BY <1>1, <1>2, <1>3, <1>4, <1>5, <1>6, <1>7, <1>8, <1>9, <1>10, <1>11,
       <1>12, <1>13, <1>14 DEF Next

\* The strengthened invariant of submit() holds in every reachable state.
THEOREM SubmitInductive == Spec => []SubmitInv
  BY SubmitInit, SubmitNext, PTL DEF Spec

\* Whatever command of submit() fails and however requests interleave, a queue
\* entry's job has its hash and its upload.
THEOREM RunnableJobs == Spec => []QueuedIsRunnable
  <1>1. SubmitInv => QueuedIsRunnable
    BY DEF SubmitInv
  <1> QED
    BY <1>1, SubmitInductive, PTL

\* A 4xx answer means that no blob, hash or queue entry of the request is left.
THEOREM CleanRefusals == Spec => []RefusedLeavesNothing
  <1>1. SubmitInv => RefusedLeavesNothing
    BY DEF SubmitInv
  <1> QED
    BY <1>1, SubmitInductive, PTL

\* The job an idempotency key returns is queued and the same tenant's.
THEOREM KeysNameJobs == Spec => []KeyNamesQueuedJob
  <1>1. SubmitInv => KeyNamesQueuedJob
    BY DEF SubmitInv
  <1> QED
    BY <1>1, SubmitInductive, PTL

----------------------------------------------------------------------------
(* Repeated requests *)

\* A request stores nothing before its upload and after its answer, and the queue keeps
\* every job.
LEMMA StoresStay ==
  ASSUME SubmitInv, [Next]_vars
  PROVE  /\ queue \subseteq queue'
         /\ \A r \in Requests :
               pc[r] \in {"idle", "lookup", "over"} /\ r \notin blobs \cup hashes \cup queue
               => (r \notin blobs \cup hashes \cup queue)'
  <1> USE DEF store, quota, blobs
  <1>1. ASSUME NEW a \in Requests,
               \A r \in Requests \ {a} : blob'[r] = blob[r],
               hashes' \subseteq hashes \cup {a}, queue \subseteq queue', queue' \subseteq queue \cup {a},
               pc[a] \notin {"idle", "lookup", "over"} \/ UNCHANGED <<blob, hashes, queue>>
        PROVE  \A r \in Requests :
                  pc[r] \in {"idle", "lookup", "over"} /\ r \notin blobs \cup hashes \cup queue
                  => (r \notin blobs \cup hashes \cup queue)'
    BY <1>1
  <1>2. blob \in [Requests -> Documents \cup {NoBlob}]
    BY DEF SubmitInv, TypeOK
  <1>3. ASSUME NEW r \in Requests, Upload(r) \/ Inspect(r) \/ CheckQuota(r) \/ QuotaFault(r)
        PROVE  /\ \A a \in Requests \ {r} : blob'[a] = blob[a]
               /\ UNCHANGED <<hashes, queue>> /\ pc[r] \notin {"idle", "lookup", "over"}
    BY <1>2, <1>3 DEF Upload, Inspect, CheckQuota, QuotaFault, Decide, Refuse, Stored
  <1>4. ASSUME NEW r \in Requests, SetQueued(r) \/ Enqueue(r)
        PROVE  /\ UNCHANGED blob /\ hashes' \subseteq hashes \cup {r}
               /\ queue \subseteq queue' /\ queue' \subseteq queue \cup {r}
               /\ pc[r] \notin {"idle", "lookup", "over"}
    BY <1>4 DEF SetQueued, Enqueue
  <1>5. ASSUME NEW r \in Requests, Fail(r)
        PROVE  /\ \A a \in Requests \ {r} : blob'[a] = blob[a]
               /\ hashes' \subseteq hashes \cup {r}
               /\ queue \subseteq queue' /\ queue' \subseteq queue \cup {r}
               /\ pc[r] \notin {"idle", "lookup", "over"} \/ UNCHANGED <<blob, hashes, queue>>
    BY <1>2, <1>5 DEF Fail, Stored
  <1>6. ASSUME NEW r \in Requests, Arrive(r) \/ Lookup(r) \/ Remember(r) \/ Consume(r)
                                     \/ ConsumeAgain(r)
        PROVE  UNCHANGED <<blob, hashes, queue>>
    BY <1>6 DEF Arrive, Lookup, Remember, Consume, ConsumeAgain
  <1>7. ASSUME UNCHANGED <<blob, hashes, queue>>
        PROVE  /\ queue \subseteq queue'
               /\ \A r \in Requests : r \notin blobs \cup hashes \cup queue
                                    => (r \notin blobs \cup hashes \cup queue)'
    BY <1>7
  <1>8. CASE Midnight \/ UNCHANGED vars
    BY <1>7, <1>8 DEF Midnight, vars
  <1> QED
    BY <1>1, <1>3, <1>4, <1>5, <1>6, <1>7, <1>8 DEF Next

\* Nobody gets a job, no request's predecessors and no key changes.
LEMMA KeysStay ==
  ASSUME SubmitInv, [Next]_vars, KeysRemembered, UNCHANGED <<before, idem>>,
         \A r \in Requests : \/ answer'[r] = answer[r]
                             \/ answer[r] = None /\ answer'[r] \notin Requests,
         \A r \in Requests : \/ pc[r] \in {"lookup", "over"} => pc'[r] \in {"lookup", "over"}
                             \/ Earlier(r) = {}
  PROVE  KeysRemembered'
  <1>1. /\ before \in [Requests -> SUBSET Requests] /\ None \notin Requests
        /\ \A r \in Requests : Earlier(r)' = Earlier(r)
    BY SubmissionAssumption DEF SubmitInv, TypeOK, Earlier, None
  <1>2. \A r \in Requests : answer'[r] \in Requests => answer'[r] = answer[r]
    OBVIOUS
  <1>3. \A r \in Requests : answer[r] \in Requests => answer'[r] = answer[r]
    BY <1>1
  <1>4. ASSUME NEW r \in Requests, Earlier(r) # {}
        PROVE  pc'[r] \in {"lookup", "over"} /\ (r \notin blobs \cup hashes \cup queue)'
    <2>1. pc[r] \in {"lookup", "over"} /\ r \notin blobs \cup hashes \cup queue
      BY <1>4 DEF KeysRemembered
    <2> QED
      BY <1>4, <2>1, StoresStay
  <1>5. queue \subseteq queue'
    BY StoresStay
  <1>6. \A r \in Requests : answer'[r] \in Requests =>
                /\ answer'[r] \in queue' /\ IdemKey(answer'[r]) = IdemKey(r)
                /\ Key[r] # NoKey => idem'[IdemKey(r)] # None
    BY <1>2, <1>5 DEF KeysRemembered
  <1>7. \A r \in Requests : \A a \in before'[r] : answer'[a] \in Requests
    BY <1>1, <1>3 DEF KeysRemembered
  <1> QED
    BY <1>1, <1>4, <1>6, <1>7 DEF KeysRemembered

\* A request that finds its key gets its job; one that queues a job stores the key with it
\* before it answers; and no key is ever deleted.
LEMMA KeysNext == SubmitInv /\ KeysRemembered /\ [Next]_vars => KeysRemembered'
  <1> SUFFICES ASSUME SubmitInv, KeysRemembered, [Next]_vars PROVE KeysRemembered'
    OBVIOUS
  <1>a. /\ pc \in [Requests -> Steps] /\ answer \in [Requests -> Requests \cup {None, "refused", "error"}]
        /\ \A r \in Requests : answer[r] # None <=> pc[r] = "over"
        /\ before \in [Requests -> SUBSET Requests]
        /\ idem \in [IdemKeys -> Requests \cup {None}]
        /\ \A r \in Requests : IdemKey(r) \in IdemKeys
    BY DEF SubmitInv, TypeOK, IdemKeys
  <1>b. "refused" \notin Requests /\ "error" \notin Requests /\ None \notin Requests
    BY SubmissionAssumption DEF None
  <1>c. queue \subseteq queue'
    BY StoresStay
  <1>1. ASSUME NEW r \in Requests, UNCHANGED <<before, idem>>, pc[r] # "over",
               \/ \E step \in Steps : Goto(r, step)
               \/ Answer(r, "refused") \/ Answer(r, "error"),
               pc[r] # "lookup" \/ answer' # answer \/ Earlier(r) = {}
        PROVE  KeysRemembered'
    <2>1. \A a \in Requests \ {r} : pc'[a] = pc[a] /\ answer'[a] = answer[a]
      BY <1>a, <1>1 DEF Goto, Answer
    <2>2. /\ answer[r] = None
          /\ \/ answer'[r] = answer[r] /\ (pc[r] # "lookup" \/ Earlier(r) = {})
             \/ answer'[r] \notin Requests /\ pc'[r] = "over"
      BY <1>a, <1>b, <1>1 DEF Goto, Answer
    <2> QED
      BY <1>1, <2>1, <2>2, KeysStay
  <1>2. ASSUME NEW r \in Requests, Arrive(r) PROVE KeysRemembered'
    <2>1. /\ idem' = idem /\ before'[r] = {a \in Requests : answer[a] \in Requests}
          /\ \A a \in Requests \ {r} : before'[a] = before[a]
      BY <1>a, <1>2 DEF Arrive
    <2>2. /\ \A a \in Requests \ {r} : pc'[a] = pc[a] /\ answer'[a] = answer[a]
          /\ Key[r] # NoKey => pc'[r] \in {"lookup", "over"}
          /\ answer[r] = None /\ answer'[r] \notin Requests /\ pc[r] = "idle"
      <3>1. CASE Answer(r, "refused")
        BY <1>a, <1>b, <1>2, <3>1 DEF Arrive, Answer
      <3>2. CASE Goto(r, IF Key[r] = NoKey THEN "upload" ELSE "lookup")
        BY <1>a, <1>b, <1>2, <3>2 DEF Arrive, Goto
      <3> QED
        BY <1>2, <3>1, <3>2 DEF Arrive
    <2>3. (r \notin blobs \cup hashes \cup queue)'
      <3>1. r \notin blobs \cup hashes \cup queue
        BY <2>2 DEF SubmitInv, Stage
      <3> QED
        BY <2>2, <3>1, StoresStay
    <2>4. \A a \in Requests : answer[a] \in Requests => answer'[a] = answer[a]
      BY <1>b, <2>2
    <2>5. \A a \in Requests \ {r} : Earlier(a)' = Earlier(a)
      BY <2>1 DEF Earlier
    <2>6. ASSUME NEW a \in Requests \ {r}, Earlier(a) # {}
          PROVE  pc'[a] \in {"lookup", "over"} /\ (a \notin blobs \cup hashes \cup queue)'
      <3>1. pc[a] \in {"lookup", "over"} /\ a \notin blobs \cup hashes \cup queue
        BY <2>6 DEF KeysRemembered
      <3> QED
        BY <2>2, <3>1, StoresStay
    <2>7. Earlier(r)' # {} => Key[r] # NoKey
      BY DEF Earlier
    <2>8. \A a \in Requests : \A o \in before'[a] : answer'[o] \in Requests
      BY <1>a, <2>1, <2>4 DEF KeysRemembered
    <2>9. \A a \in Requests : answer'[a] \in Requests =>
                /\ answer'[a] \in queue' /\ IdemKey(answer'[a]) = IdemKey(a)
                /\ Key[a] # NoKey => idem'[IdemKey(a)] # None
      BY <1>c, <2>1, <2>2 DEF KeysRemembered
    <2>10. \A k \in IdemKeys : idem'[k] # None => IdemKey(idem'[k]) = k
      BY <2>1 DEF KeysRemembered
    <2> QED
      BY <2>2, <2>3, <2>5, <2>6, <2>7, <2>8, <2>9, <2>10 DEF KeysRemembered
  \* What a request is given as its answer, it keeps.
  <1>3. ASSUME NEW r \in Requests, NEW j \in Requests, UNCHANGED before, Answer(r, j), pc[r] # "over",
               \A k \in IdemKeys : idem'[k] # None => IdemKey(idem'[k]) = k,
               \A k \in IdemKeys : idem[k] # None => idem'[k] # None,
               j \in queue', IdemKey(j) = IdemKey(r), Key[r] # NoKey => idem'[IdemKey(r)] # None
        PROVE  KeysRemembered'
    <2>1. /\ answer[r] = None /\ answer'[r] = j /\ pc'[r] = "over"
          /\ \A a \in Requests \ {r} : pc'[a] = pc[a] /\ answer'[a] = answer[a]
      BY <1>a, <1>3 DEF Answer
    <2>2. \A a \in Requests : Earlier(a)' = Earlier(a)
      BY <1>3 DEF Earlier
    <2>3. ASSUME NEW a \in Requests, Earlier(a) # {}
          PROVE  pc'[a] \in {"lookup", "over"} /\ (a \notin blobs \cup hashes \cup queue)'
      <3>1. pc[a] \in {"lookup", "over"} /\ a \notin blobs \cup hashes \cup queue
        BY <2>3 DEF KeysRemembered
      <3> QED
        BY <2>1, <3>1, StoresStay
    <2>4. \A a \in Requests : answer'[a] \in Requests =>
                /\ answer'[a] \in queue' /\ IdemKey(answer'[a]) = IdemKey(a)
                /\ Key[a] # NoKey => idem'[IdemKey(a)] # None
      BY <1>a, <1>c, <1>3, <2>1 DEF KeysRemembered
    <2>5. \A a \in Requests : \A o \in before'[a] : answer'[o] \in Requests
      BY <1>a, <1>b, <1>3, <2>1 DEF KeysRemembered
    <2> QED
      BY <1>3, <2>2, <2>3, <2>4, <2>5 DEF KeysRemembered
  <1>4. ASSUME NEW r \in Requests, Lookup(r) PROVE KeysRemembered'
    <2>1. CASE idem[IdemKey(r)] = None
      <3>1. Earlier(r) = {}
        <4> SUFFICES ASSUME NEW a \in Earlier(r) PROVE FALSE
          OBVIOUS
        <4>1. a \in before[r] /\ Key[r] # NoKey /\ IdemKey(a) = IdemKey(r)
          BY DEF Earlier
        <4>2. a \in Requests /\ Key[a] = Key[r] /\ answer[a] \in Requests
          BY <1>a, <4>1 DEF IdemKey, KeysRemembered
        <4> QED
          BY <2>1, <4>1, <4>2 DEF KeysRemembered
      <3>2. /\ Goto(r, "upload") /\ "upload" \in Steps
            /\ UNCHANGED <<before, idem>> /\ pc[r] # "over"
        BY <1>4, <2>1 DEF Lookup, Steps
      <3> QED
        BY <1>1, <3>1, <3>2
    <2>2. CASE idem[IdemKey(r)] # None
      <3>1. /\ UNCHANGED <<before, idem>> /\ Answer(r, idem[IdemKey(r)]) /\ pc[r] # "over"
        BY <1>4, <2>2 DEF Lookup
      <3>2. idem[IdemKey(r)] \in Requests /\ idem[IdemKey(r)] \in queue
        BY <1>a, <2>2 DEF SubmitInv, KeyNamesQueuedJob
      <3>3. IdemKey(idem[IdemKey(r)]) = IdemKey(r)
        BY <1>a, <2>2 DEF KeysRemembered
      <3>4. \A k \in IdemKeys : idem'[k] # None => IdemKey(idem'[k]) = k
        BY <3>1 DEF KeysRemembered
      <3> QED
        BY <1>c, <1>3, <2>2, <3>1, <3>2, <3>3, <3>4
    <2> QED
      BY <2>1, <2>2
  <1>5. ASSUME NEW r \in Requests, Enqueue(r) PROVE KeysRemembered'
    <2>1. UNCHANGED <<before, idem>> /\ pc[r] = "enqueue" /\ queue' = queue \cup {r}
      BY <1>5 DEF Enqueue
    <2>2. CASE Key[r] = NoKey
      <3>1. Answer(r, r)
        BY <1>5, <2>2 DEF Enqueue
      <3>2. \A k \in IdemKeys : idem'[k] # None => IdemKey(idem'[k]) = k
        BY <2>1 DEF KeysRemembered
      <3> QED
        BY <1>3, <2>1, <2>2, <3>1, <3>2
    <2>3. CASE Key[r] # NoKey
      <3>1. Goto(r, "remember") /\ "remember" \in Steps
        BY <1>5, <2>3 DEF Enqueue, Steps
      <3> QED
        BY <1>1, <2>1, <3>1
    <2> QED
      BY <2>2, <2>3
  \* The SETEX of a request that queued its job.
  <1>6. ASSUME NEW r \in Requests, idem' = [idem EXCEPT ![IdemKey(r)] = r]
        PROVE  /\ \A k \in IdemKeys : idem'[k] # None => IdemKey(idem'[k]) = k
               /\ \A k \in IdemKeys : idem[k] # None => idem'[k] # None
               /\ idem'[IdemKey(r)] # None
    BY <1>a, <1>b, <1>6 DEF KeysRemembered
  <1>7. ASSUME NEW r \in Requests, Remember(r) PROVE KeysRemembered'
    <2>1. /\ UNCHANGED <<before, queue>> /\ Answer(r, r) /\ pc[r] = "remember"
          /\ idem' = [idem EXCEPT ![IdemKey(r)] = r]
      BY <1>7 DEF Remember, store
    <2>2. r \in queue
      BY <2>1 DEF SubmitInv, Stage
    <2> QED
      BY <1>3, <1>6, <2>1, <2>2
  <1>8. ASSUME NEW r \in Requests,
               Upload(r) \/ Inspect(r) \/ CheckQuota(r) \/ QuotaFault(r) \/ SetQueued(r)
        PROVE  KeysRemembered'
    <2>1. /\ UNCHANGED <<before, idem>> /\ pc[r] \notin {"over", "lookup"}
          /\ \/ Goto(r, "inspect") \/ Goto(r, "quota") \/ Goto(r, "state") \/ Goto(r, "enqueue")
             \/ Answer(r, "refused")
      BY <1>8 DEF Upload, Inspect, CheckQuota, QuotaFault, SetQueued, Decide, Refuse
    <2> QED
      BY <1>1, <2>1 DEF Steps
  <1>9. ASSUME NEW r \in Requests, Fail(r) PROVE KeysRemembered'
    <2>1. /\ Answer(r, "error") /\ UNCHANGED before /\ pc[r] # "over"
          /\ \/ UNCHANGED idem
             \/ pc[r] = "remember" /\ idem' = [idem EXCEPT ![IdemKey(r)] = r]
      BY <1>9 DEF Fail
    <2>2. answer' # answer
      BY <1>a, <2>1 DEF Answer, None
    <2>3. CASE UNCHANGED idem
      BY <1>1, <2>1, <2>2, <2>3
    <2>4. CASE pc[r] = "remember" /\ idem' = [idem EXCEPT ![IdemKey(r)] = r]
      <3>1. /\ answer[r] = None /\ answer'[r] \notin Requests /\ pc'[r] = "over"
            /\ \A a \in Requests \ {r} : pc'[a] = pc[a] /\ answer'[a] = answer[a]
        BY <1>a, <1>b, <2>1 DEF Answer
      <3>2. \A a \in Requests : Earlier(a)' = Earlier(a)
        BY <2>1 DEF Earlier
      <3>3. ASSUME NEW a \in Requests, Earlier(a) # {}
            PROVE  pc'[a] \in {"lookup", "over"} /\ (a \notin blobs \cup hashes \cup queue)'
        <4>1. pc[a] \in {"lookup", "over"} /\ a \notin blobs \cup hashes \cup queue
          BY <3>3 DEF KeysRemembered
        <4> QED
          BY <3>1, <4>1, StoresStay
      <3>4. \A a \in Requests : answer'[a] \in Requests =>
                /\ answer'[a] \in queue' /\ IdemKey(answer'[a]) = IdemKey(a)
                /\ Key[a] # NoKey => idem'[IdemKey(a)] # None
        <4>1. \A k \in IdemKeys : idem[k] # None => idem'[k] # None
          BY <1>6, <2>4
        <4> QED
          BY <1>a, <1>c, <3>1, <4>1 DEF KeysRemembered
      <3>5. \A a \in Requests : \A o \in before'[a] : answer'[o] \in Requests
        BY <1>a, <1>b, <2>1, <3>1 DEF KeysRemembered
      <3> QED
        BY <1>6, <2>4, <3>2, <3>3, <3>4, <3>5 DEF KeysRemembered
    <2> QED
      BY <2>1, <2>3, <2>4
  <1>10. ASSUME UNCHANGED <<pc, answer, before, idem>> PROVE KeysRemembered'
    BY <1>10, KeysStay
  <1>11. ASSUME NEW r \in Requests, Consume(r) \/ ConsumeAgain(r) PROVE KeysRemembered'
    BY <1>10, <1>11 DEF Consume, ConsumeAgain
  <1>12. CASE Midnight \/ UNCHANGED vars
    BY <1>10, <1>12 DEF Midnight, vars
  <1> QED
    BY <1>2, <1>4, <1>5, <1>7, <1>8, <1>9, <1>11, <1>12 DEF Next

\* A client that repeats a request after its 202 duplicates no work, and gets a queued job
\* of its own key.
THEOREM RepeatsDuplicateNothing == Spec => []RepeatReturnsOriginal
  <1>1. Init => KeysRemembered
    BY SubmissionAssumption DEF Init, KeysRemembered, Earlier, None
  <1>2. ASSUME SubmitInv, KeysRemembered PROVE RepeatReturnsOriginal
    BY <1>2 DEF RepeatReturnsOriginal, KeysRemembered
  <1> QED
    BY <1>1, <1>2, KeysNext, SubmitInductive, PTL DEF Spec

----------------------------------------------------------------------------
(* The page budget *)

\* A tenant whose counters do not change and none of whose jobs comes under way
\* stays within the budget.
LEMMA StaysPatient ==
  ASSUME NEW t, Patient(t), UNCHANGED <<day, used, again>>,
         \A r \in Requests : UnderWay(r)' =>
             UnderWay(r) /\ blob'[r] = blob[r]
  PROVE  Patient(t)'
  <1>1. \A r \in Requests : UnderWay(r)' => Probe(blob'[r]) = Probe(blob[r])
    OBVIOUS
  <1> QED
    BY <1>1 DEF Patient, Once

\* The check lets a tenant's job pass only if there is room for it today.
LEMMA CheckedIsPatient ==
  ASSUME SubmitInv, NEW r \in Requests, CheckQuota(r), Limit > 0,
         NEW t \in Tenants, t \notin rushed', Patient(t)
  PROVE  Patient(t)'
  <1> USE DEF SubmitInv, TypeOK, CountersOK
  <1>1. \A a \in Requests : a # r => UnderWay(a)' = UnderWay(a) /\ blob'[a] = blob[a]
    BY DEF CheckQuota, Decide, Refuse, Stored, Answer, Goto, UnderWay
  <1>2. UNCHANGED <<day, used, again>>
    BY DEF CheckQuota
  <1>3. CASE ~UnderWay(r)'
    BY <1>1, <1>2, <1>3, StaysPatient
  <1>4. CASE UnderWay(r)' /\ Tenant[r] # t
    BY <1>1, <1>2, <1>4 DEF Patient, Once
  <1>5. CASE UnderWay(r)' /\ Tenant[r] = t
    <2>1. \A a \in Requests : Tenant[a] = t => ~UnderWay(a)
      BY <1>5 DEF CheckQuota
    <2>2. r \notin queue /\ pc[r] = "quota"
      BY DEF CheckQuota, Stage
    <2>3. Once(t, day) + Probe(blob[r]) <= Limit /\ blob'[r] = blob[r]
      <3>1. pc'[r] = "state"
        BY <1>5, <2>2 DEF UnderWay, CheckQuota, Decide, Refuse, Answer, Goto
      <3>2. CASE Refuse(r)
        BY <3>1, <3>2 DEF Refuse, Answer
      <3>3. CASE ~(used[t][day] + Probe(blob[r]) > Limit) /\ UNCHANGED blob
        <4>1. Probe(blob[r]) \in Nat
          BY <2>2, BlobType, ProbeType DEF Stage
        <4>2. used[t][day] \in Nat /\ again[t][day] \in Nat
          OBVIOUS
        <4>3. used[t][day] + Probe(blob[r]) <= Limit
          BY <1>5, <3>3, <4>1, <4>2, SubmissionAssumption
        <4>4. Once(t, day) = used[t][day] - again[t][day]
          BY DEF Once
        <4> HIDE DEF SubmitInv, TypeOK, CountersOK
        <4> QED
          BY <1>5, <3>3, <4>1, <4>2, <4>3, <4>4, SubmissionAssumption
      <3> QED
        BY <1>5, <3>2, <3>3 DEF CheckQuota, Decide
    <2> QED
      BY <1>1, <1>2, <2>1, <2>3 DEF Patient, Once
  <1> QED
    BY <1>3, <1>4, <1>5

\* A worker charges no more than the check left room for, and the job is then
\* no longer under way.
LEMMA ChargedIsPatient ==
  ASSUME SubmitInv, NEW j \in Requests, Consume(j), Limit > 0,
         NEW t \in Tenants, Patient(t)
  PROVE  Patient(t)'
  <1> USE DEF SubmitInv, TypeOK, CountersOK
  <1>1. /\ \A a \in Requests : UnderWay(a)' => UnderWay(a) /\ a # j
        /\ UnderWay(j)
        /\ UNCHANGED <<blob, day, again>>
    BY DEF Consume, UnderWay, Stage
  <1>2. PICK n \in 0..Opened(blob[j]) : used' = [used EXCEPT ![Tenant[j]][day] = @ + n]
    BY DEF Consume
  <1>3. CASE Tenant[j] # t
    <2>1. used'[t] = used[t]
      BY <1>2, <1>3
    <2> QED
      BY <1>1, <2>1 DEF Patient, Once
  <1>4. CASE Tenant[j] = t
    <2>1. blob[j] \in Documents /\ Opened(blob[j]) = Probe(blob[j])
      BY BlobType DEF Consume, QueuedIsRunnable, Readable
    <2>2. /\ Probe(blob[j]) \in Nat /\ n \in Nat /\ n <= Probe(blob[j])
          /\ \A d \in Days : used[t][d] \in Nat /\ again[t][d] \in Nat
      BY <2>1, ProbeType
    <2>3. Once(t, day) + n <= Limit
      BY <1>1, <1>4, <2>2, SubmissionAssumption DEF Patient, Once
    <2>4. \A d \in Days : used'[t][d] = IF d = day THEN used[t][d] + n ELSE used[t][d]
      BY <1>2, <1>4
    <2>5. \A a \in Requests : Tenant[a] = t => ~UnderWay(a)'
      BY <1>1, <1>4 DEF Patient
    <2>6. \A d \in Days : Once(t, d)' \in 0..Limit /\ (d > day' => used'[t][d] = 0)
      BY <1>1, <2>2, <2>3, <2>4 DEF Patient, Once, Days
    <2> QED
      BY <2>5, <2>6 DEF Patient
  <1> QED
    BY <1>3, <1>4

\* A charge repeated for a job counts on both sides.
LEMMA ChargedAgainIsPatient ==
  ASSUME SubmitInv, NEW j \in Requests, ConsumeAgain(j),
         NEW t \in Tenants, Patient(t)
  PROVE  Patient(t)'
  <1> USE DEF SubmitInv, TypeOK, CountersOK
  <1>1. /\ \A a \in Requests : UnderWay(a)' = UnderWay(a)
        /\ UNCHANGED <<blob, day>> /\ day \in Days
    BY DEF ConsumeAgain, UnderWay
  <1>2. PICK n \in 0..Opened(blob[j]) :
            /\ used' = [used EXCEPT ![Tenant[j]][day] = @ + n]
            /\ again' = [again EXCEPT ![Tenant[j]][day] = @ + n]
    BY DEF ConsumeAgain
  <1>3. blob[j] \in Documents /\ n \in Nat
    <2>1. j \in queue
      BY DEF ConsumeAgain
    <2>2. blob[j] \in Documents
      BY <2>1, BlobType DEF QueuedIsRunnable
    <2> QED
      BY <2>2, ProbeType
  <1>4. \A d \in Days : /\ used[t][d] \in Nat /\ again[t][d] \in Nat
                        /\ Once(t, d)' = Once(t, d)
                        /\ d # day => used'[t][d] = used[t][d]
    BY <1>1, <1>2, <1>3 DEF Once
  <1> QED
    BY <1>1, <1>4 DEF Patient, Days

\* At midnight a job under way finds an empty counter, and it fits into that.
LEMMA MidnightIsPatient ==
  ASSUME SubmitInv, Midnight, NEW t \in Tenants, Patient(t)
  PROVE  Patient(t)'
  <1> USE DEF SubmitInv, TypeOK, CountersOK
  <1>1. /\ UNCHANGED <<blob, used, again>> /\ day' = day + 1 /\ day' \in Days /\ day \in Days
        /\ \A a \in Requests : UnderWay(a)' = UnderWay(a)
    BY DEF Midnight, UnderWay
  <1>2. \A d \in Days : /\ Once(t, d) \in 0..Limit /\ (d > day' => used[t][d] = 0)
                        /\ used[t][d] \in Nat /\ again[t][d] \in Nat
                        /\ Once(t, d)' = Once(t, d)
    BY <1>1 DEF Patient, Once, Days
  <1>3. used[t][day'] = 0
    BY <1>1 DEF Patient, Days
  <1>4. ASSUME NEW r \in Requests, Tenant[r] = t, UnderWay(r)
        PROVE  /\ Once(t, day') + Probe(blob[r]) <= Limit
               /\ \A a \in Requests : Tenant[a] = t /\ UnderWay(a) => a = r
    <2>1. /\ \A a \in Requests : Tenant[a] = t /\ UnderWay(a) => a = r
          /\ Once(t, day) + Probe(blob[r]) <= Limit
      BY <1>4 DEF Patient
    <2>2. blob[r] \in Documents
      BY <1>4, BlobType DEF UnderWay, Stage, QueuedIsRunnable
    <2>3. Probe(blob[r]) \in Nat /\ Once(t, day) \in Nat
      BY <1>1, <1>2, <2>2, ProbeType, SubmissionAssumption
    <2>4. Once(t, day') = 0 - again[t][day'] /\ again[t][day'] \in Nat
      BY <1>1, <1>2, <1>3 DEF Once
    <2> QED
      BY <2>1, <2>3, <2>4, SubmissionAssumption
  <1> QED
    BY <1>1, <1>2, <1>4 DEF Patient

\* Every step keeps patient tenants within their budget.
LEMMA BudgetNext == SubmitInv /\ BudgetInv /\ [Next]_vars => BudgetInv'
  <1> SUFFICES ASSUME SubmitInv, BudgetInv, [Next]_vars, Limit > 0,
                      NEW t \in Tenants, t \notin rushed'
               PROVE  Patient(t)'
    BY DEF BudgetInv
  <1>1. rushed \subseteq rushed' /\ (t \notin rushed => Patient(t))
    BY DEF BudgetInv, Next, vars, quota, store, Arrive, Lookup, Upload, Inspect,
       CheckQuota, QuotaFault, SetQueued, Enqueue, Remember, Fail, Consume,
       ConsumeAgain, Midnight
  <1>2. Patient(t)
    BY <1>1
  <1>3. CASE \E r \in Requests : CheckQuota(r)
    BY <1>2, <1>3, CheckedIsPatient
  <1>4. CASE \E r \in Requests : Consume(r) \/ ConsumeAgain(r)
    BY <1>2, <1>4, ChargedIsPatient, ChargedAgainIsPatient
  <1>5. CASE Midnight
    BY <1>2, <1>5, MidnightIsPatient
  <1>6. ASSUME NEW r \in Requests,
               \/ Arrive(r) \/ Lookup(r) \/ Upload(r) \/ Inspect(r)
               \/ SetQueued(r) \/ Enqueue(r) \/ Remember(r) \/ Fail(r)
        PROVE  Patient(t)'
    <2> USE DEF SubmitInv, TypeOK, CountersOK
    <2>1. UNCHANGED <<day, used, again, charged>>
      BY <1>6 DEF quota, store, Arrive, Lookup, Upload, Inspect, SetQueued, Enqueue,
         Remember, Fail
    <2>2. \A a \in Requests : a # r => pc'[a] = pc[a] /\ blob'[a] = blob[a]
                                       /\ (a \in queue' <=> a \in queue)
      BY <1>6 DEF Goto, Answer, Refuse, Stored, store, Arrive, Lookup, Upload, Inspect,
         SetQueued, Enqueue, Remember, Fail
    <2>3. UnderWay(r)' => UnderWay(r) /\ blob'[r] = blob[r]
      BY <1>6, <2>1 DEF UnderWay, Goto, Answer, Refuse, Stored, store, Arrive,
         Lookup, Upload, Inspect, SetQueued, Enqueue, Remember, Fail, Stage
    <2>4. \A a \in Requests : UnderWay(a)' => UnderWay(a) /\ blob'[a] = blob[a]
      BY <2>1, <2>2, <2>3 DEF UnderWay
    <2> QED
      BY <1>2, <2>1, <2>4, StaysPatient
  <1>7. ASSUME NEW r \in Requests, QuotaFault(r) PROVE Patient(t)'
    <2>1. Tenant[r] # t /\ UNCHANGED <<day, used, again>>
      BY <1>7 DEF QuotaFault
    <2>2. \A a \in Requests : a # r => UnderWay(a)' = UnderWay(a) /\ blob'[a] = blob[a]
      BY <1>7 DEF QuotaFault, Decide, Refuse, Stored, Answer, Goto, UnderWay,
         SubmitInv, TypeOK
    <2> QED
      BY <1>2, <2>1, <2>2 DEF Patient, Once
  <1>8. CASE UNCHANGED vars
    <2>1. \A a \in Requests : UnderWay(a)' = UnderWay(a) /\ blob'[a] = blob[a]
      BY <1>8 DEF vars, quota, UnderWay
    <2> QED
      BY <1>2, <1>8, <2>1, StaysPatient DEF vars, quota
  <1> QED
    BY <1>3, <1>4, <1>5, <1>6, <1>7, <1>8 DEF Next

\* For any number of requests and any documents: a tenant who waits for each
\* charge is never charged more than the limit on a day, except for what runs
\* of jobs that were already charged charge again.
THEOREM BudgetHolds == Spec => []BudgetKept
  <1>1. Init => BudgetInv
    BY SubmissionAssumption DEF Init, BudgetInv, Patient, Once, UnderWay, Days
  <1>2. SubmitInv /\ BudgetInv => BudgetKept
    <2> SUFFICES ASSUME SubmitInv, BudgetInv, Limit > 0,
                        NEW t \in Tenants \ rushed, NEW d \in Days
                 PROVE  used[t][d] <= Limit + again[t][d]
      BY DEF BudgetKept
    <2>1. used[t][d] \in Nat /\ again[t][d] \in Nat
      BY DEF SubmitInv, TypeOK, CountersOK
    <2>2. Once(t, d) \in 0..Limit
      BY DEF BudgetInv, Patient
    <2> QED
      BY <2>1, <2>2, SubmissionAssumption DEF Once
  <1> QED
    BY <1>1, <1>2, SubmitInductive, BudgetNext, PTL DEF Spec
=============================================================================
