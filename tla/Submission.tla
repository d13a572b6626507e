----------------------------- MODULE Submission -----------------------------
(***************************************************************************)
(* POST /v1/ocr (submit() in gateway/main.py) up to its answer: the        *)
(* idempotency key, the upload into the blob store (common/storage.py),    *)
(* the checks of its content, the page quota (common/ratelimit.py), the    *)
(* job hash, the queue entry and the key's own entry.  Several requests    *)
(* run at once, on one gateway or on several; a step is one command.       *)
(*                                                                         *)
(* A request names its job after itself.  Midnight comes at most once, so  *)
(* no idempotency key (they live a day) expires.                           *)
(***************************************************************************)
EXTENDS Integers, FiniteSets

CONSTANTS Requests,
          Tenant,     \* Tenant[r]: who sends r
          Key,        \* Key[r]: its Idempotency-Key, or NoKey
          NoKey,
          Documents,  \* the files clients may send
          MaxBytes,   \* max_upload_bytes
          MaxPages,   \* max_pages
          Limit,      \* quota_pages_per_day
          MaxFaults,  \* bound: requests that an error ends
          MaxAgain    \* bound: pages charged again to a tenant on a day

\* A file: the kind its extension claims, the kind its first bytes show, its
\* size, whether pymupdf can open it, whether it needs a password, and the
\* pages it has.
Kinds    == {"pdf", "image", "other"}
Document == [suffix : Kinds, content : Kinds, bytes : Nat, sound : BOOLEAN,
             locked : BOOLEAN, pages : Nat]
NoBlob   == [suffix |-> "none"]

ASSUME SubmissionAssumption ==
    /\ DOMAIN Tenant = Requests /\ DOMAIN Key = Requests
    /\ Documents \subseteq Document
    /\ MaxBytes \in Nat /\ MaxPages \in Nat
    /\ Limit \in Nat /\ MaxFaults \in Nat /\ MaxAgain \in Nat
    /\ Requests \cap {"none", "refused", "error"} = {}

VARIABLES
    pc,       \* the command a request will issue next
    answer,   \* what the client got: a job, "refused" (4xx), "error" (5xx)
    before,   \* before[r]: requests answered with a job before r arrived
    idem,     \* idem[k]: the job remembered for an idempotency key
    blob,     \* blob[r]: the upload on disk
    hashes,   \* jobs with a hash
    queue,    \* jobs with a queue entry
    day,      \* the date in UTC
    used,     \* used[t][d]: the tenant's quota counter of day d
    charged,  \* jobs whose pages the worker has charged
    again,    \* again[t][d]: the part of used[t][d] charged for jobs in `charged`
    rushed,   \* tenants whose quota was checked with one of their jobs
              \* under way, or could not be read
    faults

quota == <<day, used, charged, again, rushed>>
vars  == <<pc, answer, before, idem, blob, hashes, queue, quota, faults>>
store == <<blob, hashes, queue, quota>>

Tenants == {Tenant[r] : r \in Requests}

\* f"idem:{tenant}:{key}"
IdemKey(r) == <<Tenant[r], Key[r]>>
IdemKeys   == {IdemKey(r) : r \in Requests}
None       == "none"
Days       == 0..1

blobs == {r \in Requests : blob[r] # NoBlob}

Steps == {"idle", "lookup", "upload", "inspect", "quota", "state", "enqueue",
          "remember", "over"}

CountersOK ==
    used \in [Tenants -> [Days -> Nat]] /\ again \in [Tenants -> [Days -> Nat]]

TypeOK ==
    /\ pc \in [Requests -> Steps]
    /\ answer \in [Requests -> Requests \cup {None, "refused", "error"}]
    /\ \A r \in Requests : answer[r] # None <=> pc[r] = "over"
    /\ before \in [Requests -> SUBSET Requests]
    /\ idem \in [IdemKeys -> Requests \cup {None}]
    /\ blob \in [Requests -> Documents \cup {NoBlob}] /\ hashes \subseteq Requests
    /\ queue \subseteq Requests /\ charged \subseteq queue
    /\ day \in Days /\ CountersOK /\ rushed \subseteq Tenants
    /\ faults \in 0..MaxFaults

Init ==
    /\ pc = [r \in Requests |-> "idle"]
    /\ answer = [r \in Requests |-> None]
    /\ before = [r \in Requests |-> {}]
    /\ idem = [k \in IdemKeys |-> None]
    /\ blob = [r \in Requests |-> NoBlob]
    /\ hashes = {} /\ queue = {} /\ charged = {}
    /\ day = 0 /\ used = [t \in Tenants |-> [d \in Days |-> 0]] /\ again = used
    /\ rushed = {}
    /\ faults = 0

Goto(r, step) ==
    /\ pc' = [pc EXCEPT ![r] = step]
    /\ UNCHANGED answer

Answer(r, what) ==
    /\ pc' = [pc EXCEPT ![r] = "over"]
    /\ answer' = [answer EXCEPT ![r] = what]

----------------------------------------------------------------------------
\* The rate limiter and the file's extension come before anything else.
Arrive(r) ==
    /\ pc[r] = "idle"
    /\ before' = [before EXCEPT ![r] = {a \in Requests : answer[a] \in Requests}]
    /\ \/ Answer(r, "refused")
       \/ Goto(r, IF Key[r] = NoKey THEN "upload" ELSE "lookup")
    /\ UNCHANGED <<idem, store, faults>>

\* Mutant: the key is looked up and its job ignored.
LookupIgnored(r) ==
    /\ pc[r] = "lookup"
    /\ Goto(r, "upload")
    /\ UNCHANGED <<before, idem, store, faults>>

Lookup(r) ==
    LET existing == idem[IdemKey(r)] IN
    /\ pc[r] = "lookup"
    /\ IF existing # None THEN Answer(r, existing) ELSE Goto(r, "upload")
    /\ UNCHANGED <<before, idem, store, faults>>

Stored(r, d) == blob' = [blob EXCEPT ![r] = d]

\* blobs.delete() and the HTTPException after it.
Refuse(r) == Stored(r, NoBlob) /\ Answer(r, "refused")

\* put_stream(): an upload that is too large, or breaks off, is unlinked.
Upload(r) ==
    /\ pc[r] = "upload"
    /\ \E d \in Documents :
          /\ d.suffix # "other"
          /\ IF d.bytes > MaxBytes THEN Refuse(r)
                                  ELSE Stored(r, d) /\ Goto(r, "inspect")
    /\ UNCHANGED <<before, idem, hashes, queue, quota, faults>>

\* matches_extension(): the magic bytes are of the kind the name claims.
Matches(d) == d.suffix # "other" /\ d.content = d.suffix

Capped(n) == IF n > MaxPages THEN MaxPages ELSE n

\* Mutant: a PDF that needs a password is counted like any other.
ProbeLocked(d) ==
    IF d.suffix # "pdf" THEN 1 ELSE IF d.sound THEN Capped(d.pages) ELSE 0

\* probe_page_count(): images are not looked into.
Probe(d) ==
    IF d.suffix # "pdf" THEN 1
    ELSE IF d.sound /\ ~d.locked THEN Capped(d.pages) ELSE 0

\* What the worker's Document() makes of the file: its page_count, or 0 for
\* UnreadableDocument.
Opened(d) ==
    CASE d.suffix = "image" -> 1
      [] d.suffix = "pdf" /\ d.sound /\ ~d.locked -> Capped(d.pages)
      [] OTHER -> 0

\* Empty, mislabelled or unreadable: the blob is deleted, the request refused.
Inspect(r) ==
    /\ pc[r] = "inspect"
    /\ IF blob[r].bytes = 0 \/ ~Matches(blob[r]) \/ Probe(blob[r]) = 0
       THEN Refuse(r)
       ELSE UNCHANGED blob /\ Goto(r, "quota")
    /\ UNCHANGED <<before, idem, hashes, queue, quota, faults>>

\* Mutant: what the request itself will use is not counted.
DecideWithoutRequest(r, seen) ==
    IF Limit > 0 /\ seen > Limit
    THEN Refuse(r)
    ELSE UNCHANGED blob /\ Goto(r, "state")

\* PageQuota.check() with the number of used pages it has seen.
Decide(r, seen) ==
    IF Limit > 0 /\ seen + Probe(blob[r]) > Limit
    THEN Refuse(r)
    ELSE UNCHANGED blob /\ Goto(r, "state")

\* Accepted by the quota, and not charged yet.
UnderWay(r) == pc[r] \in {"state", "enqueue"} \/ r \in queue \ charged

\* The counter of the day is read; nothing is reserved.
CheckQuota(r) ==
    LET t == Tenant[r] IN
    /\ pc[r] = "quota"
    /\ Decide(r, used[t][day])
    /\ rushed' = IF \E a \in Requests : Tenant[a] = t /\ UnderWay(a)
                 THEN rushed \cup {t} ELSE rushed
    /\ UNCHANGED <<before, idem, hashes, queue, day, used, charged, again, faults>>

\* used() turns a Redis error into 0.
QuotaFault(r) ==
    /\ pc[r] = "quota"
    /\ faults < MaxFaults /\ faults' = faults + 1
    /\ Decide(r, 0)
    /\ rushed' = rushed \cup {Tenant[r]}
    /\ UNCHANGED <<before, idem, hashes, queue, day, used, charged, again>>

SetQueued(r) ==
    /\ pc[r] = "state"
    /\ hashes' = hashes \cup {r}
    /\ Goto(r, "enqueue")
    /\ UNCHANGED <<before, idem, blob, queue, quota, faults>>

Enqueue(r) ==
    /\ pc[r] = "enqueue"
    /\ queue' = queue \cup {r}
    /\ IF Key[r] = NoKey THEN Answer(r, r) ELSE Goto(r, "remember")
    /\ UNCHANGED <<before, idem, blob, hashes, quota, faults>>

\* SETEX: the last writer wins.
Remember(r) ==
    /\ pc[r] = "remember"
    /\ idem' = [idem EXCEPT ![IdemKey(r)] = r]
    /\ Answer(r, r)
    /\ UNCHANGED <<before, store, faults>>

\* Redis, the client's connection or the gateway itself fails.  The command
\* may have been executed all the same; put_stream() unlinks unless the
\* gateway is killed.
Fail(r) ==
    /\ pc[r] \notin {"idle", "over"}
    /\ faults < MaxFaults /\ faults' = faults + 1
    /\ Answer(r, "error")
    /\ \/ UNCHANGED <<blob, hashes, queue, idem>>
       \/ /\ pc[r] = "upload" /\ \E d \in Documents : Stored(r, d)
          /\ UNCHANGED <<hashes, queue, idem>>
       \/ /\ pc[r] = "state" /\ hashes' = hashes \cup {r}
          /\ UNCHANGED <<blob, queue, idem>>
       \/ /\ pc[r] = "enqueue" /\ queue' = queue \cup {r}
          /\ UNCHANGED <<blob, hashes, idem>>
       \/ /\ pc[r] = "remember" /\ idem' = [idem EXCEPT ![IdemKey(r)] = r]
          /\ UNCHANGED <<blob, hashes, queue>>
    /\ UNCHANGED <<before, quota>>

\* A worker has read the job's pages and charges those the engine read: native,
\* blank and duplicate ones are free, and an error is swallowed.
Consume(j) ==
    /\ j \in queue \ charged
    /\ charged' = charged \cup {j}
    /\ \E n \in 0..Opened(blob[j]) :
          used' = IF Limit > 0 THEN [used EXCEPT ![Tenant[j]][day] = @ + n] ELSE used
    /\ UNCHANGED <<pc, answer, before, idem, blob, hashes, queue, day, again, rushed,
                   faults>>

\* Nothing remembers that a job was charged: its run may fail or die afterwards
\* and be repeated, or a second run of it may be under way, and each charges.
ConsumeAgain(j) ==
    /\ j \in charged /\ Limit > 0
    /\ \E n \in 0..Opened(blob[j]) :
          /\ again[Tenant[j]][day] + n <= MaxAgain
          /\ used' = [used EXCEPT ![Tenant[j]][day] = @ + n]
          /\ again' = [again EXCEPT ![Tenant[j]][day] = @ + n]
    /\ UNCHANGED <<pc, answer, before, idem, blob, hashes, queue, day, charged, rushed,
                   faults>>

\* The counters are keyed by the date: a job is checked against the day it is
\* submitted and charged to the day it completes.
Midnight ==
    /\ day + 1 \in Days
    /\ day' = day + 1
    /\ UNCHANGED <<pc, answer, before, idem, blob, hashes, queue, used, charged,
                   again, rushed, faults>>

----------------------------------------------------------------------------
Next ==
    \/ Midnight
    \/ \E r \in Requests :
        \/ Arrive(r) \/ Lookup(r) \/ Upload(r) \/ Inspect(r) \/ CheckQuota(r)
        \/ QuotaFault(r) \/ SetQueued(r) \/ Enqueue(r) \/ Remember(r) \/ Fail(r)
        \/ Consume(r) \/ ConsumeAgain(r)

Spec == Init /\ [][Next]_vars

----------------------------------------------------------------------------
(* Properties *)

\* A request that was refused leaves nothing behind: every early exit after
\* the upload deletes the blob.
RefusedLeavesNothing ==
    \A r \in Requests : answer[r] = "refused" => r \notin blobs \cup hashes \cup queue

Readable(d) == Opened(d) = Probe(d) /\ Opened(d) # 0

\* A worker that gets an entry finds the job's hash and its upload, whichever
\* command of submit() failed, can open it, and finds the pages the quota was
\* asked for.
QueuedIsRunnable == \A j \in queue : j \in hashes \cap blobs /\ Readable(blob[j])

\* What the first charge of each job has taken from the tenant's day.
Once(t, d) == used[t][d] - again[t][d]

\* config.py:55: a tenant who submits one document after the other, each after
\* the charge for the one before, is charged no more than the limit on any day,
\* whatever midnight separates, except for what later runs of a job already
\* charged have added: the quota's counter is above the limit by no more than
\* that.  (Checked by reading and charged after the fact, the quota promises
\* nothing to those who do not wait.)
BudgetKept ==
    \A t \in Tenants \ rushed : Limit > 0 =>
        \A d \in Days : used[t][d] <= Limit + again[t][d]

\* An idempotency key never names a job that was not queued, nor another
\* tenant's.
KeyNamesQueuedJob ==
    \A k \in IdemKeys : idem[k] # None => idem[k] \in queue /\ Tenant[idem[k]] = k[1]

\* What a request has left in the stores by the time it reaches a step; with
\* this the invariants above are inductive.
Stage(r) ==
    /\ pc[r] \in {"idle", "lookup", "upload"} => r \notin blobs \cup hashes \cup queue
    /\ pc[r] \in {"inspect", "quota", "state", "enqueue"} => r \in blobs \ queue
    /\ pc[r] \in {"inspect", "quota", "state"} => r \notin hashes
    /\ pc[r] \in {"quota", "state", "enqueue"} => Readable(blob[r])
    /\ pc[r] = "enqueue" => r \in hashes
    /\ pc[r] = "remember" => r \in queue

\* A tenant who waits has at most one job under way, there is room for it on
\* whichever day it completes, and the days to come are untouched.
Patient(t) ==
    /\ \A d \in Days : Once(t, d) \in 0..Limit /\ (d > day => used[t][d] = 0)
    /\ \A r \in Requests : Tenant[r] = t /\ UnderWay(r) =>
          /\ Once(t, day) + Probe(blob[r]) <= Limit
          /\ \A a \in Requests : Tenant[a] = t /\ UnderWay(a) => a = r

SubmitInv ==
    /\ TypeOK
    /\ RefusedLeavesNothing
    /\ QueuedIsRunnable
    /\ KeyNamesQueuedJob
    /\ \A r \in Requests : Stage(r)

BudgetInv == Limit > 0 => \A t \in Tenants \ rushed : Patient(t)

\* Requests with r's key that had their 202 before r arrived.
Earlier(r) == {a \in before[r] : Key[r] # NoKey /\ IdemKey(a) = IdemKey(r)}

\* README.md:163 for a client that retries after a 202: the request duplicates no work, and
\* gets a queued job of its own key.  That is the original, unless requests with the key
\* overlapped and queued a job each: then it is the last one remembered.
RepeatReturnsOriginal ==
    \A r \in Requests : Earlier(r) # {} =>
        /\ r \notin blobs \cup hashes \cup queue
        /\ answer[r] \in Requests => answer[r] \in queue /\ IdemKey(answer[r]) = IdemKey(r)

\* An answer names a queued job of the request's key, which stays remembered; so a
\* repeated request does not get beyond its lookup.
KeysRemembered ==
    /\ \A k \in IdemKeys : idem[k] # None => IdemKey(idem[k]) = k
    /\ \A r \in Requests :
          /\ answer[r] \in Requests =>
                /\ answer[r] \in queue /\ IdemKey(answer[r]) = IdemKey(r)
                /\ Key[r] # NoKey => idem[IdemKey(r)] # None
          /\ \A a \in before[r] : answer[a] \in Requests
          /\ Earlier(r) # {} => /\ pc[r] \in {"lookup", "over"}
                                /\ r \notin blobs \cup hashes \cup queue
=============================================================================
