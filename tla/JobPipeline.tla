---------------------------- MODULE JobPipeline ----------------------------
(***************************************************************************)
(* The life of a job between the gateway's 202 and its last trace in       *)
(* Redis: the queue stream and its consumer group (common/queue.py), the   *)
(* job hash and cancel flag (common/events.py) and the worker that         *)
(* reserves, runs, retries, cancels, dead-letters and acknowledges jobs    *)
(* (workers/cpu_worker.py).                                                *)
(*                                                                         *)
(* One step is one Redis command (or one MULTI), because every worker is   *)
(* an asyncio process that may lose control, or die, between two of them.  *)
(* A job may have several queue entries: the Redis client repeats an XADD  *)
(* whose reply was late (common/redis_client.py).  The owner of a pending  *)
(* entry is not kept: no command of the code reads it.                     *)
(***************************************************************************)
EXTENDS Integers, Sequences, FiniteSets

CONSTANTS Jobs,         \* the job ids the gateway may hand out
          Entries,      \* the ids XADD may give to queue entries
          JobOf,        \* JobOf[e]: the job_id field of entry e
          Workers,      \* worker processes (consumers of the group)
          Slots,        \* the permits of one worker's _sem (worker_concurrency)
          MaxAttempts,  \* settings.max_attempts
          Troubles,     \* the kinds of outside trouble that may happen
          MaxTroubles,  \* bound: how many of them, in all
          MaxOverdue,   \* bound: entries that go stale in a reclaim loop's hands
          Monitored     \* bound: whether anybody calls stats()

\* A worker is killed, a worker is told to stop, a command raises, heartbeats
\* are missed, a key with a TTL expires, a command is executed twice.
TroubleKinds == {"crash", "stop", "fault", "missed", "expiry", "repeat"}

ASSUME PipelineAssumption ==
    /\ JobOf \in [Entries -> Jobs]
    /\ MaxAttempts \in Nat \ {0}
    /\ Troubles \subseteq TroubleKinds
    /\ MaxTroubles \in Nat
    /\ MaxOverdue \in Nat
    /\ Monitored \in BOOLEAN

VARIABLES
    sent,       \* queue entries appended so far
    status,     \* job hash: "status" ("ABSENT": no hash, "BLANK": no field)
    attempts,   \* job hash: "attempts"
    bare,       \* jobs whose hash expired and lost the fields submit() wrote
    backlog,    \* queue entries the group has not delivered yet, in order
    stream,     \* queue entries that are in the stream (XADDed, not XDELed)
    pending,    \* the group's Pending Entries List
    stale,      \* pending entries idle for visibility_timeout_s or longer
    dead,       \* dead[j]: entries for j in the dead-letter stream
    cancelFlag, \* jobs whose cancel key exists
    durable,    \* jobs whose result JSON is on disk
    charged,    \* charged[j]: how often j's pages were added to the quota
    published,  \* published[j]: statuses whose terminal event was published
    recorded,   \* recorded[j]: terminal statuses ever written to j's hash
    mode,       \* lifecycle of a worker process
    inflight,   \* Worker._inflight: the entries the heartbeat renews
    claimed,    \* entries the reclaim loop holds while it waits for _sem
    task,       \* task[w][s]: the _run_job coroutine holding permit s
    counted,    \* stats(): what XLEN counted, until the groups are read
    overdue,    \* entries that went stale while a reclaim loop held them
    troubles    \* how much trouble there has been

hash   == <<sent, status, attempts, bare>>
queue  == <<backlog, stream, pending, stale, dead>>
effect == <<durable, charged, published, recorded>>
proc   == <<mode, inflight, claimed>>
watch  == <<counted, overdue>>
vars   == <<sent, status, attempts, bare, backlog, stream, pending,
            stale, dead, cancelFlag, durable, charged, published,
            recorded, mode, inflight, claimed, task, counted, overdue, troubles>>

----------------------------------------------------------------------------
(* Types and state predicates *)

Terminal == {"COMPLETED", "FAILED", "CANCELLED"}
Status   == {"ABSENT", "BLANK", "QUEUED", "PROCESSING"} \cup Terminal

\* After request_stop() run() is "finishing" a reserve under way or "blocked"
\* on _sem; "draining" is the wait for in-flight jobs in its `finally`.
Mode     == {"running", "finishing", "blocked", "draining", "down"}

\* Where a _run_job coroutine is: the command it will issue next ("hung": it
\* waits for something that will never come).
ProcessPc == {"meta", "flag", "incr", "start", "work", "persist", "charge"}
SettlePc  == {"settle", "publish", "expire"}
AckPc     == {"bury", "xack", "xdel"}
Pc        == {"fail", "hung"} \cup ProcessPc \cup SettlePc \cup AckPc

\* out: the terminal status being written ("NONE" before one is decided);
\* att: _process's local `attempts` while it matters; perm: _fail's `permanent`.
Task   == [pc : Pc, entry : Entries, job : Jobs,
           out : Terminal \cup {"NONE"}, att : Nat, perm : BOOLEAN]
NoTask == [pc |-> "idle"]
TaskTable == [Workers -> [Slots -> Task \cup {NoTask}]]

Fresh(e) ==
    [pc |-> "meta", entry |-> e, job |-> JobOf[e], out |-> "NONE", att |-> 0,
     perm |-> FALSE]

\* The jobs the gateway has taken responsibility for.
accepted == {JobOf[e] : e \in sent}

Free(w) == {s \in Slots : task[w][s].pc = "idle"}

\* The worker's heartbeat and reclaim loops are alive.
Housekeeping(w) == mode[w] \in {"running", "finishing", "blocked"}

Executing(j) ==
    {p \in Workers \X Slots :
        task[p[1]][p[2]].pc # "idle" /\ task[p[1]][p[2]].job = j}

Trouble(kind) ==
    /\ kind \in Troubles
    /\ troubles < MaxTroubles
    /\ troubles' = troubles + 1

\* The command is executed n times: once, or twice because its first reply
\* was late and the client repeats it (retry_on_timeout).
Executed(n) ==
    \/ n = 1 /\ UNCHANGED troubles
    \/ n = 2 /\ Trouble("repeat")

----------------------------------------------------------------------------
Init ==
    /\ sent = {}
    /\ status = [j \in Jobs |-> "ABSENT"]
    /\ attempts = [j \in Jobs |-> 0]
    /\ bare = {}
    /\ backlog = <<>>
    /\ stream = {}
    /\ pending = {}
    /\ stale = {}
    /\ dead = [j \in Jobs |-> 0]
    /\ cancelFlag = {}
    /\ durable = {}
    /\ charged = [j \in Jobs |-> 0]
    /\ published = [j \in Jobs |-> {}]
    /\ recorded = [j \in Jobs |-> {}]
    /\ mode = [w \in Workers |-> "running"]
    /\ inflight = [w \in Workers |-> {}]
    /\ claimed = [w \in Workers |-> {}]
    /\ task = [w \in Workers |-> [s \in Slots |-> NoTask]]
    /\ counted = {} /\ overdue = {}
    /\ troubles = 0

----------------------------------------------------------------------------
(* Gateway *)

\* submit(): the hash is written first ...
SubmitStatus(j) ==
    /\ status[j] = "ABSENT"
    /\ j \notin bare
    /\ status' = [status EXCEPT ![j] = "QUEUED"]
    /\ UNCHANGED <<sent, attempts, bare, queue, cancelFlag, watch, effect, proc,
                   task, troubles>>

\* ... then the entry is appended.  A gateway that dies in between never
\* takes this step; the client got no 202.
XAdd(e) ==
    /\ e \notin sent
    /\ sent' = sent \cup {e}
    /\ stream' = stream \cup {e}
    /\ backlog' = Append(backlog, e)
    /\ UNCHANGED <<status, attempts, bare, pending, stale, dead, cancelFlag, watch,
                   effect, proc, task>>

Enqueue(e) ==
    /\ status[JobOf[e]] = "QUEUED"
    /\ JobOf[e] \notin accepted
    /\ XAdd(e)
    /\ UNCHANGED troubles

\* The client repeats the XADD, whatever a worker has done with the first
\* entry meanwhile.
EnqueueAgain(e) ==
    /\ JobOf[e] \in accepted \ bare
    /\ XAdd(e)
    /\ Trouble("repeat")

\* cancel(): a flag for the worker, unless the job is already terminal.
RequestCancel(j) ==
    /\ status[j] \notin Terminal \cup {"ABSENT"}
    /\ j \in accepted \ bare
    /\ cancelFlag' = cancelFlag \cup {j}
    /\ UNCHANGED <<hash, queue, effect, proc, task, watch, troubles>>

----------------------------------------------------------------------------
(* Redis: time passing *)

\* A heartbeat every third of visibility_timeout_s keeps the in-flight
\* entries of a live worker young.  The others that it has are not renewed:
\* those its reclaim loop claimed start at once if a permit is free, and else
\* wait for one.
Held(e) ==
    \E w \in Workers :
        /\ Housekeeping(w)
        /\ e \in inflight[w] \/ (e \in claimed[w] /\ Free(w) # {})

\* The idle time of e reaches visibility_timeout_s.
Age(e) ==
    /\ e \in pending \ stale
    /\ stale' = stale \cup {e}
    /\ overdue' = overdue \cup {e : w \in {w \in Workers : e \in claimed[w]}}
    /\ Cardinality(overdue') <= MaxOverdue
    /\ UNCHANGED <<hash, backlog, stream, pending, dead, cancelFlag, effect,
                   proc, task, counted>>

\* The entry is in nobody's hands, or in those of a reclaim loop that waits for
\* a permit.
GoStale(e) == ~Held(e) /\ Age(e) /\ UNCHANGED troubles

\* The heartbeats of a live worker fail, or its event loop is blocked, for as
\* long as that.
MissBeats(e) == Held(e) /\ Age(e) /\ Trouble("missed")

\* The cancel key has its own TTL, an hour, whatever the job is doing.
ExpireCancel(j) ==
    /\ j \in cancelFlag
    /\ Trouble("expiry")
    /\ cancelFlag' = cancelFlag \ {j}
    /\ UNCHANGED <<hash, queue, effect, proc, task, watch>>

\* The hash expires result_ttl_days after its last set_status(); no task
\* stays that long between two of its commands.
ExpireHash(j) ==
    /\ status[j] # "ABSENT"
    /\ j \in accepted
    /\ Executing(j) = {}
    /\ Trouble("expiry")
    /\ status' = [status EXCEPT ![j] = "ABSENT"]
    /\ attempts' = [attempts EXCEPT ![j] = 0]
    /\ bare' = bare \cup {j}
    /\ UNCHANGED <<sent, queue, cancelFlag, watch, effect, proc, task>>

----------------------------------------------------------------------------
(* Worker: the main loop and its housekeeping *)

\* Mutant: the entry never enters _inflight, so nobody renews it.
LaunchUntracked(w, s, e) ==
    /\ task' = [task EXCEPT ![w][s] = Fresh(e)]
    /\ UNCHANGED inflight

\* create_task(_run_job(job)): the first thing it does is to enter _inflight.
Launch(w, s, e) ==
    /\ task' = [task EXCEPT ![w][s] = Fresh(e)]
    /\ inflight' = [inflight EXCEPT ![w] = @ \cup {e}]

\* XREADGROUP ">": the oldest undelivered entry moves to the PEL.
Deliver ==
    /\ backlog # <<>>
    /\ backlog' = Tail(backlog)
    /\ pending' = pending \cup {Head(backlog)}

\* run() leaves its loop: `finally` cancels heartbeat and reclaim first, and
\* with the reclaim loop go the jobs it held.
LeaveLoop(w) ==
    /\ mode' = [mode EXCEPT ![w] = "draining"]
    /\ claimed' = [claimed EXCEPT ![w] = {}]

\* One turn of run()'s loop.  A stop requested while the reserve is under
\* way lets it finish; the loop then ends.
Reserve(w, s) ==
    /\ mode[w] \in {"running", "finishing"}
    /\ s \in Free(w)
    /\ Deliver
    /\ Launch(w, s, Head(backlog))
    /\ IF mode[w] = "finishing" THEN LeaveLoop(w) ELSE UNCHANGED <<mode, claimed>>
    /\ UNCHANGED <<hash, stream, stale, dead, cancelFlag, watch, effect, troubles>>

\* reserve() raises, which ends the loop as well.  The command may or may
\* not have reached Redis before the connection broke.
ReserveFault(w) ==
    /\ mode[w] \in {"running", "finishing"}
    /\ Free(w) # {}
    /\ Trouble("fault")
    /\ Deliver \/ UNCHANGED <<backlog, pending>>
    /\ LeaveLoop(w)
    /\ UNCHANGED <<hash, stream, stale, dead, cancelFlag, watch, effect, inflight,
                   task>>

\* The XREADGROUP is repeated: what its first execution delivered is pending,
\* in nobody's hands, and the loop goes on.
ReserveRepeated(w) ==
    /\ mode[w] \in {"running", "finishing"}
    /\ Free(w) # {}
    /\ Trouble("repeat")
    /\ Deliver
    /\ UNCHANGED <<hash, stream, stale, dead, cancelFlag, watch, effect, proc, task>>

\* Mutant: the reclaim loop drops what it claimed.
ReclaimAndDrop(w) ==
    /\ mode[w] = "running"
    /\ claimed[w] = {}
    /\ stale # {}
    /\ stale' = {}
    /\ UNCHANGED <<hash, backlog, stream, pending, dead, cancelFlag, watch, effect,
                   proc, task, troubles>>

\* XAUTOCLAIM: the loop takes every stale entry and renews its idle time,
\* then waits for a permit for each of them; it does not reclaim again
\* before all of them have started.
Reclaim(w) ==
    /\ mode[w] = "running"
    /\ claimed[w] = {}
    /\ stale # {}
    /\ claimed' = [claimed EXCEPT ![w] = stale]
    /\ stale' = {}
    /\ UNCHANGED <<hash, backlog, stream, pending, dead, cancelFlag, watch, effect,
                   mode, inflight, task, troubles>>

\* The reply of XAUTOCLAIM is lost: idle times are renewed for nobody, and a
\* repeated one finds no stale entry.
ReclaimFault(w) ==
    /\ mode[w] = "running"
    /\ claimed[w] = {}
    /\ stale # {}
    /\ Trouble("fault") \/ Trouble("repeat")
    /\ stale' = {}
    /\ UNCHANGED <<hash, backlog, stream, pending, dead, cancelFlag, watch, effect,
                   proc, task>>

\* The reclaim loop got a permit.  A finishing loop keeps the one it holds.
StartClaimed(w, s, e) ==
    /\ Housekeeping(w)
    /\ mode[w] = "finishing" => Free(w) # {s}
    /\ s \in Free(w)
    /\ e \in claimed[w]
    /\ claimed' = [claimed EXCEPT ![w] = @ \ {e}]
    /\ Launch(w, s, e)
    /\ UNCHANGED <<hash, queue, cancelFlag, watch, effect, mode, troubles>>

\* XCLAIM with min_idle_time 0; ids no longer pending are ignored.
Heartbeat(w) ==
    /\ Housekeeping(w)
    /\ inflight[w] \cap stale # {}
    /\ stale' = stale \ inflight[w]
    /\ UNCHANGED <<hash, backlog, stream, pending, dead, cancelFlag, watch, effect,
                   proc, task, troubles>>

\* JobQueue.stats(): XLEN, then XINFO GROUPS; the depth it returns is the
\* difference, or 0.
ReadLength ==
    /\ Monitored
    /\ counted = {}
    /\ counted' = stream
    /\ UNCHANGED <<hash, queue, cancelFlag, effect, proc, task, overdue, troubles>>

ReadGroups ==
    /\ counted # {}
    /\ counted' = {}
    /\ UNCHANGED <<hash, queue, cancelFlag, effect, proc, task, overdue, troubles>>

Depth == IF Cardinality(counted) > Cardinality(pending)
         THEN Cardinality(counted) - Cardinality(pending) ELSE 0

RequestStop(w) ==
    /\ mode[w] = "running"
    /\ Trouble("stop")
    /\ mode' = [mode EXCEPT ![w] = IF Free(w) = {} THEN "blocked"
                                                  ELSE "finishing"]
    /\ UNCHANGED <<hash, queue, cancelFlag, watch, effect, inflight, claimed, task>>

\* Mutant: no second look at _stopping after the permit was acquired.
BeginDrainUnchecked(w) ==
    /\ mode[w] = "finishing"
    /\ LeaveLoop(w)
    /\ UNCHANGED <<hash, queue, cancelFlag, watch, effect, inflight, task, troubles>>

\* The loop sees the stop when its reserve comes back empty, or once it has
\* the permit it was blocked on.
BeginDrain(w) ==
    /\ \/ mode[w] = "finishing"
       \/ mode[w] = "blocked" /\ Free(w) # {}
    /\ LeaveLoop(w)
    /\ UNCHANGED <<hash, queue, cancelFlag, watch, effect, inflight, task, troubles>>

Stopped(w) ==
    /\ mode[w] = "draining"
    /\ Free(w) = Slots
    /\ mode' = [mode EXCEPT ![w] = "down"]
    /\ UNCHANGED <<hash, queue, cancelFlag, watch, effect, inflight, claimed, task,
                   troubles>>

\* The process is killed: everything in its memory is gone.
Crash(w) ==
    /\ mode[w] # "down"
    /\ Trouble("crash")
    /\ mode' = [mode EXCEPT ![w] = "down"]
    /\ inflight' = [inflight EXCEPT ![w] = {}]
    /\ claimed' = [claimed EXCEPT ![w] = {}]
    /\ task' = [task EXCEPT ![w] = [s \in Slots |-> NoTask]]
    /\ UNCHANGED <<hash, queue, cancelFlag, watch, effect>>

Restart(w) ==
    /\ mode[w] = "down"
    /\ mode' = [mode EXCEPT ![w] = "running"]
    /\ UNCHANGED <<hash, queue, cancelFlag, watch, effect, inflight, claimed, task,
                   troubles>>

----------------------------------------------------------------------------
(* One job: _run_job, _process, _mark_cancelled, _fail *)

\* Task p = <<w, s>> is about to issue the command named pc.
At(w, s, pc) == task[w][s].pc = pc

Goto(w, s, pc) == task' = [task EXCEPT ![w][s] = [@ EXCEPT !.pc = pc]]

\* A terminal status has been decided: write it, tell the client, ack.
Conclude(w, s, out, perm) ==
    task' = [task EXCEPT ![w][s] =
                [@ EXCEPT !.pc = "settle", !.out = out, !.perm = perm]]

\* An exception reaches _run_job's handlers, which call _fail().
Raise(w, s, perm) ==
    task' = [task EXCEPT ![w][s] =
                [@ EXCEPT !.pc = "fail", !.out = "NONE", !.perm = perm]]

\* The coroutine ends: its entry leaves _inflight, its permit is released.
\* _inflight is keyed by entry, so this also stops the heartbeat of another
\* task of the same worker on the same entry.
Finish(w, s) ==
    /\ task' = [task EXCEPT ![w][s] = NoTask]
    /\ inflight' = [inflight EXCEPT ![w] = @ \ {task[w][s].entry}]

\* Mutant: a job already marked PROCESSING is taken to be somebody else's.
ReadMetaSkipsRunning(w, s) ==
    LET j == task[w][s].job IN
    /\ At(w, s, "meta")
    /\ CASE status[j] = "ABSENT" -> Raise(w, s, TRUE)
         [] status[j] \in {"PROCESSING", "COMPLETED", "CANCELLED"} ->
                Goto(w, s, "xack")
         [] OTHER -> Goto(w, s, "flag")
    /\ UNCHANGED <<hash, queue, cancelFlag, watch, effect, proc, troubles>>

ReadMeta(w, s) ==
    LET j == task[w][s].job IN
    /\ At(w, s, "meta")
    /\ CASE status[j] = "ABSENT" -> Raise(w, s, TRUE)
         [] status[j] \in {"COMPLETED", "CANCELLED"} -> Goto(w, s, "xack")
         [] OTHER -> Goto(w, s, "flag")
    /\ UNCHANGED <<hash, queue, cancelFlag, watch, effect, proc, troubles>>

CheckCancel(w, s) ==
    /\ At(w, s, "flag")
    /\ IF task[w][s].job \in cancelFlag
       THEN Conclude(w, s, "CANCELLED", FALSE)
       ELSE Goto(w, s, "incr")
    /\ UNCHANGED <<hash, queue, cancelFlag, watch, effect, proc, troubles>>

IncrAttempts(w, s) ==
    LET j == task[w][s].job IN
    /\ At(w, s, "incr")
    /\ \E n \in 1..2 :
          /\ Executed(n)
          /\ attempts' = [attempts EXCEPT ![j] = @ + n]
          /\ task' = [task EXCEPT ![w][s] =
                         [@ EXCEPT !.pc = "start", !.att = attempts[j] + n]]
    /\ UNCHANGED <<sent, status, bare, queue, cancelFlag, watch, effect, proc>>

\* Mutant: the pages are charged when a run starts as well.
SetProcessingCharges(w, s) ==
    LET j == task[w][s].job IN
    /\ At(w, s, "start")
    /\ status' = [status EXCEPT ![j] = "PROCESSING"]
    /\ attempts' = [attempts EXCEPT ![j] = task[w][s].att]
    /\ charged' = [charged EXCEPT ![j] = @ + 1]
    /\ Goto(w, s, "work")
    /\ UNCHANGED <<sent, bare, queue, cancelFlag, watch, durable, published,
                   recorded, proc, troubles>>

\* set_status(PROCESSING, attempts=attempts): the local count overwrites
\* whatever a concurrent run has counted meanwhile, and is used up.
SetProcessing(w, s) ==
    LET j == task[w][s].job IN
    /\ At(w, s, "start")
    /\ status' = [status EXCEPT ![j] = "PROCESSING"]
    /\ attempts' = [attempts EXCEPT ![j] = task[w][s].att]
    /\ task' = [task EXCEPT ![w][s] = [@ EXCEPT !.pc = "work", !.att = 0]]
    /\ UNCHANGED <<sent, bare, queue, cancelFlag, watch, effect, proc, troubles>>

\* Mutant: the status is settled without writing the artifacts.
WorkUnsaved(w, s) ==
    /\ At(w, s, "work")
    /\ Goto(w, s, "charge")
    /\ UNCHANGED <<hash, queue, cancelFlag, watch, effect, proc, troubles>>

\* Open the document and run its pages.  A bare hash has no "path": KeyError.
Work(w, s) ==
    LET j == task[w][s].job IN
    /\ At(w, s, "work")
    /\ \/ j \notin bare /\ Goto(w, s, "persist")
       \/ j \notin bare /\ Raise(w, s, TRUE)      \* UnreadableDocument
       \/ Raise(w, s, FALSE)                      \* anything else
       \/ /\ j \in cancelFlag \ bare              \* seen between two pages
          /\ Conclude(w, s, "CANCELLED", FALSE)
    /\ UNCHANGED <<hash, queue, cancelFlag, watch, effect, proc, troubles>>

\* _write_artifacts() (the JSON last) and db.save_result().
WriteArtifacts(w, s) ==
    /\ At(w, s, "persist")
    /\ durable' = durable \cup {task[w][s].job}
    /\ Goto(w, s, "charge")
    /\ UNCHANGED <<hash, queue, cancelFlag, watch, charged, published, recorded,
                   proc, troubles>>

ConsumeQuota(w, s) ==
    LET j == task[w][s].job IN
    /\ At(w, s, "charge")
    /\ \E n \in 1..2 :
          Executed(n) /\ charged' = [charged EXCEPT ![j] = @ + n]
    /\ Conclude(w, s, "COMPLETED", FALSE)
    /\ UNCHANGED <<hash, queue, cancelFlag, watch, durable, published, recorded,
                   proc>>

\* set_status() with a terminal status.
SetTerminal(w, s) ==
    LET j == task[w][s].job IN
    /\ At(w, s, "settle")
    /\ status' = [status EXCEPT ![j] = task[w][s].out]
    /\ recorded' = [recorded EXCEPT ![j] = @ \cup {task[w][s].out}]
    /\ Goto(w, s, "publish")
    /\ UNCHANGED <<sent, attempts, bare, queue, cancelFlag, watch, durable,
                   charged, published, proc, troubles>>

PublishTerminal(w, s) ==
    LET j == task[w][s].job IN
    /\ At(w, s, "publish")
    /\ published' = [published EXCEPT ![j] = @ \cup {task[w][s].out}]
    /\ Goto(w, s, "expire")
    /\ UNCHANGED <<hash, queue, cancelFlag, watch, durable, charged, recorded,
                   proc, troubles>>

\* expire_events(): the stream's TTL matters to its readers (EventStream).
ExpireEvents(w, s) ==
    LET t == task[w][s] IN
    /\ At(w, s, "expire")
    /\ Goto(w, s, IF t.out = "FAILED" /\ ~t.perm THEN "bury" ELSE "xack")
    /\ UNCHANGED <<hash, queue, cancelFlag, watch, effect, proc, troubles>>

\* Mutant: one attempt too many.
ExhaustedLate(t) == t.perm \/ attempts[t.job] > MaxAttempts

\* _fail() reads the attempts with HINCRBY 0, which creates a missing hash.
Exhausted(t) ==
    \/ t.perm
    \/ (IF attempts[t.job] = 0 THEN 1 ELSE attempts[t.job]) >= MaxAttempts

\* Mutant: a failure that will be retried is reported as the job's end.
FailTooEarly(w, s) ==
    LET t == task[w][s] IN
    /\ At(w, s, "fail")
    /\ status' = [status EXCEPT ![t.job] = "FAILED"]
    /\ IF Exhausted(t)
       THEN Conclude(w, s, "FAILED", t.perm) /\ UNCHANGED inflight
       ELSE Finish(w, s)
    /\ UNCHANGED <<sent, attempts, bare, queue, cancelFlag, watch, effect, mode,
                   claimed, troubles>>

\* _fail(): retry by leaving the entry unacknowledged, or give up.
Fail(w, s) ==
    LET t == task[w][s] IN
    /\ At(w, s, "fail")
    /\ status' = [status EXCEPT ![t.job] = IF @ = "ABSENT" THEN "BLANK" ELSE @]
    /\ IF Exhausted(t)
       THEN Conclude(w, s, "FAILED", t.perm) /\ UNCHANGED inflight
       ELSE Finish(w, s)
    /\ UNCHANGED <<sent, attempts, bare, queue, cancelFlag, watch, effect, mode,
                   claimed, troubles>>

\* dead_letter(): XADD to the dead-letter stream, then ack.
DeadLetter(w, s) ==
    LET j == task[w][s].job IN
    /\ At(w, s, "bury")
    /\ \E n \in 1..2 : Executed(n) /\ dead' = [dead EXCEPT ![j] = @ + n]
    /\ Goto(w, s, "xack")
    /\ UNCHANGED <<hash, backlog, stream, pending, stale, cancelFlag, watch, effect,
                   proc>>

\* Mutant: XDEL before XACK.
XAckSwapped(w, s) ==
    /\ At(w, s, "xack")
    /\ stream' = stream \ {task[w][s].entry}
    /\ Goto(w, s, "xdel")
    /\ UNCHANGED <<hash, backlog, pending, stale, dead, cancelFlag, watch, effect,
                   proc, troubles>>

\* ack(): two commands.
XAck(w, s) ==
    LET e == task[w][s].entry IN
    /\ At(w, s, "xack")
    /\ pending' = pending \ {e}
    /\ stale' = stale \ {e}
    /\ Goto(w, s, "xdel")
    /\ UNCHANGED <<hash, backlog, stream, dead, cancelFlag, watch, effect, proc,
                   troubles>>

\* Mutant: a job that failed goes back into the queue once it is acknowledged.
XDelRequeues(w, s) ==
    LET t == task[w][s] IN
    /\ At(w, s, "xdel")
    /\ stream' = stream
    /\ backlog' = IF t.out = "FAILED" THEN Append(backlog, t.entry) ELSE backlog
    /\ Finish(w, s)
    /\ UNCHANGED <<hash, pending, stale, dead, cancelFlag, watch, effect, mode,
                   claimed, troubles>>

XDel(w, s) ==
    /\ At(w, s, "xdel")
    /\ stream' = stream \ {task[w][s].entry}
    /\ Finish(w, s)
    /\ UNCHANGED <<hash, backlog, pending, stale, dead, cancelFlag, watch, effect,
                   mode, claimed, troubles>>

\* A command (or a file or database write) raises.  Inside _process and in
\* the ack that follows it the generic handler calls _fail(); in _fail()
\* itself and in the handler of JobCancelled the coroutine just ends.
\* quota.consume() swallows its own errors.  A command that took effect but
\* whose reply was lost is a fault of the next one, except for the last.
CommandFault(w, s) ==
    LET t == task[w][s] IN
    /\ t.pc \notin {"idle", "hung"}
    /\ Trouble("fault")
    /\ CASE t.pc = "charge" ->
                Conclude(w, s, "COMPLETED", FALSE) /\ UNCHANGED inflight
         [] t.pc = "fail" \/ t.out = "FAILED" \/ (t.out = "CANCELLED" /\ t.pc \in AckPc) ->
                Finish(w, s)
         [] OTHER -> Raise(w, s, FALSE) /\ UNCHANGED inflight
    /\ \/ UNCHANGED stream
       \/ t.pc = "xdel" /\ stream' = stream \ {t.entry}
    /\ UNCHANGED <<hash, backlog, pending, stale, dead, cancelFlag, watch, effect,
                   mode, claimed>>

\* One command of _process_pages() fails, PAGE_STARTED of a page or its last
\* flush, before the page's text was handed on; and a duplicate of that page
\* waits for it for ever.
Hang(w, s) ==
    /\ At(w, s, "work")
    /\ Trouble("fault")
    /\ Goto(w, s, "hung")
    /\ UNCHANGED <<hash, queue, cancelFlag, watch, effect, proc>>

----------------------------------------------------------------------------
TaskStep(w, s) ==
    \/ ReadMeta(w, s)
    \/ CheckCancel(w, s)
    \/ IncrAttempts(w, s)
    \/ SetProcessing(w, s)
    \/ Work(w, s)
    \/ WriteArtifacts(w, s)
    \/ ConsumeQuota(w, s)
    \/ SetTerminal(w, s)
    \/ PublishTerminal(w, s)
    \/ ExpireEvents(w, s)
    \/ Fail(w, s)
    \/ DeadLetter(w, s)
    \/ XAck(w, s)
    \/ XDel(w, s)

Next ==
    \/ ReadLength \/ ReadGroups
    \/ \E j \in Jobs :
          \/ SubmitStatus(j)
          \/ RequestCancel(j)
          \/ ExpireCancel(j)
          \/ ExpireHash(j)
    \/ \E e \in Entries :
          \/ Enqueue(e)
          \/ EnqueueAgain(e)
          \/ GoStale(e)
          \/ MissBeats(e)
    \/ \E w \in Workers :
          \/ ReserveFault(w)
          \/ ReserveRepeated(w)
          \/ Reclaim(w)
          \/ ReclaimFault(w)
          \/ Heartbeat(w)
          \/ RequestStop(w)
          \/ BeginDrain(w)
          \/ Stopped(w)
          \/ Crash(w)
          \/ Restart(w)
    \/ \E w \in Workers, s \in Slots :
          \/ Reserve(w, s)
          \/ TaskStep(w, s)
          \/ CommandFault(w, s)
          \/ Hang(w, s)
          \/ \E e \in Entries : StartClaimed(w, s, e)

Spec == Init /\ [][Next]_vars

\* A live asyncio loop runs every coroutine that can run (a "hung" one
\* cannot), a permit or a reservation goes to whoever waits for it, idle time
\* passes, and the supervisor restarts a worker.  Trouble and clients owe nothing.
FairSpec ==
    /\ Spec
    /\ \A e \in Entries : WF_vars(GoStale(e))
    /\ \A w \in Workers :
          /\ WF_vars(\E s \in Slots : Reserve(w, s))
          /\ WF_vars(Reclaim(w))
          /\ WF_vars(Heartbeat(w))
          /\ WF_vars(\E s \in Slots, e \in Entries : StartClaimed(w, s, e))
          /\ WF_vars(BeginDrain(w))
          /\ WF_vars(Stopped(w))
          /\ WF_vars(Restart(w))
          /\ \A s \in Slots : WF_vars(TaskStep(w, s))

----------------------------------------------------------------------------
(* Properties *)

Undelivered == {backlog[i] : i \in 1..Len(backlog)}

Owed == Undelivered \cup pending

OwedJobs == {JobOf[e] : e \in Owed}

TypeOK ==
    /\ sent \subseteq Entries
    /\ status \in [Jobs -> Status]
    /\ attempts \in [Jobs -> Nat]
    /\ bare \subseteq Jobs
    /\ backlog \in Seq(Entries)
    /\ stream \subseteq Entries
    /\ pending \subseteq Entries
    /\ stale \subseteq pending
    /\ dead \in [Jobs -> Nat]
    /\ cancelFlag \subseteq Jobs
    /\ durable \subseteq Jobs
    /\ charged \in [Jobs -> Nat]
    /\ published \in [Jobs -> SUBSET Terminal]
    /\ recorded \in [Jobs -> SUBSET Terminal]
    /\ mode \in [Workers -> Mode]
    /\ inflight \in [Workers -> SUBSET Entries]
    /\ claimed \in [Workers -> SUBSET Entries]
    /\ task \in TaskTable
    /\ counted \subseteq Entries /\ overdue \subseteq Entries
    /\ troubles \in 0..MaxTroubles

\* README.md:156, docs/architecture.md:23.  Whatever crashes, drains, lost
\* replies and duplicate runs happen, an accepted job is in the queue, or in
\* the Pending Entries List, or some run of it has recorded an outcome:
\* nobody acknowledges an entry whose job is still undecided.
NoSilentLoss == \A j \in accepted : j \in OwedJobs \/ recorded[j] # {}

\* A job that any run ever reported COMPLETED has its result on disk: the
\* order "artifacts, then status" survives every interleaving.
CompletedIsDurable ==
    \A j \in Jobs : "COMPLETED" \in recorded[j] => j \in durable

\* A client that reacts to a terminal event by fetching the job finds the
\* status the event announced already written.
EventAfterStatus == \A j \in Jobs : published[j] \subseteq recorded[j]

\* A job reaches the dead-letter stream only after its client was told.
BuriedAfterNotice == \A j \in Jobs : dead[j] > 0 => "FAILED" \in published[j]

\* Jobs one of whose entries waited for a permit, claimed and not renewed, until
\* it could be claimed again (cpu_worker.py:255).  Plain load is enough for it,
\* and from then on such a job may run twice.
Overdue(j) == \E e \in overdue : JobOf[e] = j

\* docker-compose.yml:82, docs/architecture.md:78: no two coroutines run the
\* same job at the same time, unless it was overdue.
SingleExecution == \A j \in Jobs : Overdue(j) \/ Cardinality(Executing(j)) <= 1

\* Without outside trouble every effect of a job that was never overdue happens
\* at most once, however often transient errors make it run.
EffectsOnce ==
    \A j \in Jobs : Overdue(j) \/
        /\ Cardinality(recorded[j]) <= 1
        /\ charged[j] <= 1
        /\ dead[j] <= 1

\* queue.py:9, README.md:158: a job that keeps failing (and was never overdue)
\* is given up after MaxAttempts runs.
AttemptsBounded == \A j \in Jobs : Overdue(j) \/ attempts[j] <= MaxAttempts

\* The terminal status of a job that was never overdue is not replaced by
\* another status.
TerminalIsFinal ==
    [][\A j \in Jobs : status[j] \in Terminal =>
            status'[j] = status[j] \/ Overdue(j)]_vars

\* queue.py:120, the autoscaler's signal: the depth that stats() returns counts
\* every job that waited when it read XLEN and still waits when it reads the
\* groups, whatever was delivered, acknowledged or enqueued in between.  (A job
\* enqueued in between may go uncounted.)
DepthNeverHides == Cardinality(counted \cap Undelivered) <= Depth

\* What a coroutine at a given point may rely on (the inductive part of the
\* safety properties above): its job was accepted, the outcome it is about to
\* announce is recorded, an acknowledgement comes after some outcome, and
\* COMPLETED comes after the result was written.
TaskKnows(t) ==
    /\ t.entry \in sent /\ t.job = JobOf[t.entry]
    /\ t.pc \in SettlePc \cup {"bury"} => t.out # "NONE"
    /\ t.pc \in {"publish", "expire", "bury"} => t.out \in recorded[t.job]
    /\ t.pc \in {"expire", "bury"} => t.out \in published[t.job]
    /\ t.pc = "bury" => t.out = "FAILED"
    /\ t.pc \in {"xack", "xdel"} => recorded[t.job] # {}
    /\ t.pc = "charge" \/ t.out = "COMPLETED" => t.job \in durable

StatusIsRecorded ==
    \A j \in Jobs : status[j] \in Terminal => status[j] \in recorded[j]

QueueIsAccepted ==
    /\ Owed \subseteq sent
    /\ \A w \in Workers : claimed[w] \subseteq sent

IndInv ==
    /\ TypeOK
    /\ NoSilentLoss
    /\ CompletedIsDurable
    /\ EventAfterStatus
    /\ BuriedAfterNotice
    /\ StatusIsRecorded
    /\ QueueIsAccepted
    /\ \A w \in Workers, s \in Slots :
          task[w][s].pc # "idle" => TaskKnows(task[w][s])

Settled(j) == j \notin OwedJobs /\ recorded[j] # {}

Hung(w) == {s \in Slots : task[w][s].pc = "hung"}

\* Every accepted job is eventually decided and leaves the queue, unless a run of
\* it hangs, or every worker has a run that does.
EveryJobSettles ==
    \A j \in Jobs : j \in accepted ~>
        \/ Settled(j)
        \/ \E w \in Workers : \E s \in Hung(w) : task[w][s].job = j
        \/ \A w \in Workers : Hung(w) # {}

\* operations.md: a worker told to stop does stop, unless a run of it hangs.
DrainEnds ==
    \A w \in Workers : mode[w] \in {"finishing", "blocked"} ~>
        mode[w] = "down" \/ Hung(w) # {}

----------------------------------------------------------------------------
(* The promise this implements: see JobLifecycle. *)

Life == INSTANCE JobLifecycle WITH taken <- sent, owed <- Owed,
                                   outcome <- recorded, Outcomes <- Terminal

\* README.md:156: every step of the pipeline takes a new entry, records an
\* outcome of its job, or lets go for good of one whose job has an outcome;
\* the rest is invisible.
AtLeastOnce == Life!LifeSpec
=============================================================================
