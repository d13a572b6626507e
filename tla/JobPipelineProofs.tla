------------------------- MODULE JobPipelineProofs -------------------------
(***************************************************************************)
(* Proofs about JobPipeline, for any numbers of jobs, workers, permits,    *)
(* attempts and troubles: TypeOK, the safety invariants that are inductive *)
(* once one says what each coroutine may rely on (TaskKnows), and that     *)
(* JobPipeline implements JobLifecycle.                                    *)
(*                                                                         *)
(* The second part is about the queue: where an entry can be (waiting,     *)
(* pending, in the hands of a reclaim loop or of a coroutine), so that the *)
(* depth the gateway reports never hides a waiting job; and, where the     *)
(* troubles are few enough, that a job is run in one place at a time and   *)
(* that each of its effects happens once.                                  *)
(***************************************************************************)
EXTENDS JobPipeline, FiniteSetTheorems, TLAPS

\* Only the coroutine that holds permit s of worker w moves.
Others(w, s) ==
    \A v \in Workers, r \in Slots :
        v # w \/ r # s => task'[v][r] = task[v][r]

\* It moves to pc, on the same job, with outcome out.
MovesTo(w, s, pc, out) ==
    /\ task' \in TaskTable
    /\ task'[w][s] \in Task
    /\ task'[w][s].pc = pc
    /\ task'[w][s].job = task[w][s].job
    /\ task'[w][s].entry = task[w][s].entry
    /\ task'[w][s].out = out
    /\ Others(w, s)

\* A permit that is not idle is held by a coroutine (_run_job).
LEMMA ActiveTask ==
    ASSUME task \in TaskTable, NEW w \in Workers, NEW s \in Slots,
           task[w][s].pc # "idle"
    PROVE  task[w][s] \in Task
BY DEF TaskTable, NoTask

\* Replacing one coroutine's record keeps the table typed and the others as
\* they were.
LEMMA Update ==
    ASSUME task \in TaskTable, NEW w \in Workers, NEW s \in Slots,
           NEW t \in Task \cup {NoTask}, task' = [task EXCEPT ![w][s] = t]
    PROVE  task' \in TaskTable /\ task'[w][s] = t /\ Others(w, s)
BY DEF TaskTable, Others

\* A command of _run_job that goes on to the next keeps its job and outcome.
LEMMA GotoMoves ==
    ASSUME task \in TaskTable, NEW w \in Workers, NEW s \in Slots,
           task[w][s].pc # "idle", NEW pc \in Pc, Goto(w, s, pc)
    PROVE  MovesTo(w, s, pc, task[w][s].out)
<1> DEFINE t == [task[w][s] EXCEPT !.pc = pc]
<1>1. /\ t \in Task /\ t.pc = pc /\ t.out = task[w][s].out
      /\ t.job = task[w][s].job /\ t.entry = task[w][s].entry
    BY ActiveTask DEF Task
<1>2. task' = [task EXCEPT ![w][s] = t]
    BY DEF Goto
<1>. QED  BY <1>1, <1>2, Update DEF MovesTo

\* A command that decides the job goes on to write that outcome.
LEMMA ConcludeMoves ==
    ASSUME task \in TaskTable, NEW w \in Workers, NEW s \in Slots,
           task[w][s].pc # "idle", NEW out \in Terminal, NEW perm \in BOOLEAN,
           Conclude(w, s, out, perm)
    PROVE  MovesTo(w, s, "settle", out)
<1> DEFINE t == [task[w][s] EXCEPT !.pc = "settle", !.out = out, !.perm = perm]
<1>1. /\ t \in Task /\ t.pc = "settle" /\ t.out = out
      /\ t.job = task[w][s].job /\ t.entry = task[w][s].entry
    BY ActiveTask DEF Task, Pc, SettlePc
<1>2. task' = [task EXCEPT ![w][s] = t]
    BY DEF Conclude
<1>. QED  BY <1>1, <1>2, Update DEF MovesTo

\* An exception in _process leads to _fail(), with no outcome decided.
LEMMA RaiseMoves ==
    ASSUME task \in TaskTable, NEW w \in Workers, NEW s \in Slots,
           task[w][s].pc # "idle", NEW perm \in BOOLEAN, Raise(w, s, perm)
    PROVE  MovesTo(w, s, "fail", "NONE")
<1> DEFINE t == [task[w][s] EXCEPT !.pc = "fail", !.out = "NONE", !.perm = perm]
<1>1. /\ t \in Task /\ t.pc = "fail" /\ t.out = "NONE"
      /\ t.job = task[w][s].job /\ t.entry = task[w][s].entry
    BY ActiveTask DEF Task, Pc
<1>2. task' = [task EXCEPT ![w][s] = t]
    BY DEF Raise
<1>3. task' \in TaskTable /\ task'[w][s] = t /\ Others(w, s)
    BY <1>1, <1>2, Update
<1>. QED  BY <1>1, <1>3 DEF MovesTo

\* The coroutine ends and its permit is free again.
Ends(w, s) == task' \in TaskTable /\ task'[w][s] = NoTask /\ Others(w, s)

\* The `finally` of _run_job frees the permit and nothing else.
LEMMA FinishEnds ==
    ASSUME task \in TaskTable, inflight \in [Workers -> SUBSET Entries],
           NEW w \in Workers, NEW s \in Slots, Finish(w, s)
    PROVE  Ends(w, s) /\ inflight' \in [Workers -> SUBSET Entries]
BY Update DEF Finish, Ends

\* create_task(_run_job(job)) starts one coroutine, at its first command.
LEMMA LaunchStarts ==
    ASSUME task \in TaskTable, inflight \in [Workers -> SUBSET Entries],
           NEW w \in Workers, NEW s \in Slots, NEW e \in Entries, Launch(w, s, e)
    PROVE  /\ task' \in TaskTable /\ Others(w, s)
           /\ task'[w][s] = Fresh(e) /\ task'[w][s] \in Task
           /\ inflight' \in [Workers -> SUBSET Entries]
<1>1. Fresh(e) \in Task
    BY PipelineAssumption DEF Fresh, Task, Pc, ProcessPc
<1>. QED  BY <1>1, Update DEF Launch

\* XREADGROUP moves an entry from the backlog to the PEL.
LEMMA DeliverType ==
    ASSUME TypeOK, Deliver
    PROVE  /\ Head(backlog) \in Entries
           /\ backlog' \in Seq(Entries)
           /\ pending' \subseteq Entries
           /\ stale \subseteq pending'
BY DEF Deliver, TypeOK

\* The coroutine that takes a step was not idle, and its table stays typed.
LEMMA TaskStepType ==
    ASSUME TypeOK, NEW w \in Workers, NEW s \in Slots, TaskStep(w, s)
    PROVE  /\ task[w][s] \in Task
           /\ task' \in TaskTable
           /\ inflight' \in [Workers -> SUBSET Entries]
<1>. USE DEF At
<1>1. task \in TaskTable /\ inflight \in [Workers -> SUBSET Entries]
    BY DEF TypeOK
<1>2. task[w][s].pc # "idle"
    BY DEF TaskStep, ReadMeta, CheckCancel, IncrAttempts, SetProcessing, Work,
           WriteArtifacts, ConsumeQuota, SetTerminal, PublishTerminal,
           ExpireEvents, Fail, DeadLetter, XAck, XDel
<1>3. task[w][s] \in Task
    BY <1>1, <1>2, ActiveTask
<1>4. /\ task[w][s].perm \in BOOLEAN
      /\ "COMPLETED" \in Terminal /\ "FAILED" \in Terminal /\ "CANCELLED" \in Terminal
    BY <1>3 DEF Task, Terminal
<1>5. \A pc \in Pc : Goto(w, s, pc) => task' \in TaskTable
    BY <1>1, <1>2, GotoMoves DEF MovesTo
<1>6. \A out \in Terminal, perm \in BOOLEAN :
          Conclude(w, s, out, perm) => task' \in TaskTable
    BY <1>1, <1>2, ConcludeMoves DEF MovesTo
<1>7. \A perm \in BOOLEAN : Raise(w, s, perm) => task' \in TaskTable
    BY <1>1, <1>2, RaiseMoves DEF MovesTo
<1>8. Finish(w, s) => task' \in TaskTable /\ inflight' \in [Workers -> SUBSET Entries]
    BY <1>1, FinishEnds DEF Ends
<1>9. {"flag", "incr", "work", "persist", "charge", "publish", "expire",
       "bury", "xack", "xdel"} \subseteq Pc
    BY DEF Pc, ProcessPc, SettlePc, AckPc
<1>10. CASE ReadMeta(w, s)
    BY <1>1, <1>3, <1>5, <1>7, <1>9, <1>10 DEF ReadMeta, proc
<1>11. CASE CheckCancel(w, s)
    BY <1>1, <1>3, <1>4, <1>5, <1>6, <1>9, <1>11 DEF CheckCancel, proc
<1>12. CASE IncrAttempts(w, s)
    <2> DEFINE t(n) == [task[w][s] EXCEPT !.pc = "start",
                                          !.att = attempts[task[w][s].job] + n]
    <2>1. PICK n \in 1..2 : task' = [task EXCEPT ![w][s] = t(n)]
        BY <1>12 DEF IncrAttempts
    <2>2. attempts[task[w][s].job] + n \in Nat
        BY <1>3 DEF Task, TypeOK
    <2>3. t(n) \in Task
        BY <1>3, <2>2 DEF Task, Pc, ProcessPc
    <2>. QED  BY <1>1, <1>3, <1>12, <2>1, <2>3, Update DEF IncrAttempts, proc
<1>13. CASE SetProcessing(w, s)
    <2> DEFINE t == [task[w][s] EXCEPT !.pc = "work", !.att = 0]
    <2>1. t \in Task
        BY <1>3 DEF Task, Pc, ProcessPc
    <2>2. task' = [task EXCEPT ![w][s] = t]
        BY <1>13 DEF SetProcessing
    <2>. QED  BY <1>1, <1>3, <1>13, <2>1, <2>2, Update DEF SetProcessing, proc
<1>14. CASE Work(w, s)
    BY <1>1, <1>3, <1>4, <1>5, <1>6, <1>7, <1>9, <1>14 DEF Work, proc
<1>15. CASE WriteArtifacts(w, s)
    BY <1>1, <1>3, <1>5, <1>9, <1>15 DEF WriteArtifacts, proc
<1>16. CASE ConsumeQuota(w, s)
    BY <1>1, <1>3, <1>4, <1>6, <1>16 DEF ConsumeQuota, proc
<1>17. CASE SetTerminal(w, s)
    BY <1>1, <1>3, <1>5, <1>9, <1>17 DEF SetTerminal, proc
<1>18. CASE PublishTerminal(w, s)
    BY <1>1, <1>3, <1>5, <1>9, <1>18 DEF PublishTerminal, proc
<1>19. CASE ExpireEvents(w, s)
    BY <1>1, <1>3, <1>5, <1>9, <1>19 DEF ExpireEvents, proc
<1>20. CASE Fail(w, s)
    BY <1>1, <1>3, <1>4, <1>6, <1>8, <1>20 DEF Fail
<1>21. CASE DeadLetter(w, s)
    BY <1>1, <1>3, <1>5, <1>9, <1>21 DEF DeadLetter, proc
<1>22. CASE XAck(w, s)
    BY <1>1, <1>3, <1>5, <1>9, <1>22 DEF XAck, proc
<1>23. CASE XDel(w, s)
    BY <1>1, <1>3, <1>8, <1>23 DEF XDel
<1>. QED  BY <1>10, <1>11, <1>12, <1>13, <1>14, <1>15, <1>16, <1>17, <1>18,
             <1>19, <1>20, <1>21, <1>22, <1>23 DEF TaskStep

\* HINCRBY, INCRBY and another dead letter keep a counter a counter, once or
\* twice executed.
LEMMA CountUp ==
    ASSUME NEW f \in [Jobs -> Nat], NEW j \in Jobs, NEW n \in 1..2
    PROVE  [f EXCEPT ![j] = @ + n] \in [Jobs -> Nat]
OBVIOUS

\* Trouble is counted, up to its bound.
LEMMA TroubleCount ==
    ASSUME troubles \in 0..MaxTroubles
    PROVE  /\ \A kind : Trouble(kind) => troubles' \in 0..MaxTroubles
           /\ \A n : Executed(n) => troubles' \in 0..MaxTroubles
<1>1. \A kind : Trouble(kind) => troubles' \in 0..MaxTroubles
    BY PipelineAssumption DEF Trouble
<1>. QED  BY <1>1 DEF Executed

\* The empty system is well typed.
LEMMA TypeInit == ASSUME Init PROVE TypeOK
BY PipelineAssumption DEF Init, TypeOK, Status, Terminal, Mode, TaskTable

\* Every command, loop turn and trouble keeps the state well typed.
LEMMA TypeNext ==
    ASSUME IndInv, [Next]_vars
    PROVE  TypeOK'
<1>. USE PipelineAssumption
<1>. TypeOK
    BY DEF IndInv
<1>1. ASSUME NEW j \in Jobs, SubmitStatus(j) PROVE TypeOK'
    BY <1>1 DEF TypeOK, watch, SubmitStatus, queue, effect, proc, Status, Terminal
<1>2. ASSUME NEW e \in Entries, Enqueue(e) \/ EnqueueAgain(e) PROVE TypeOK'
    <2>1. XAdd(e) /\ troubles' \in 0..MaxTroubles
        BY <1>2, TroubleCount DEF Enqueue, EnqueueAgain, TypeOK
    <2>. QED  BY <2>1 DEF TypeOK, watch, XAdd, effect, proc
<1>3. ASSUME NEW j \in Jobs, RequestCancel(j) PROVE TypeOK'
    BY <1>3 DEF TypeOK, watch, RequestCancel, hash, queue, effect, proc
<1>4. ASSUME NEW e \in Entries, GoStale(e) PROVE TypeOK'
    BY <1>4 DEF TypeOK, GoStale, Age, hash, effect, proc
<1>5. ASSUME NEW e \in Entries, MissBeats(e) PROVE TypeOK'
    BY <1>5 DEF TypeOK, MissBeats, Age, hash, effect, proc, Trouble
<1>6. ASSUME NEW j \in Jobs, ExpireCancel(j) PROVE TypeOK'
    BY <1>6 DEF TypeOK, watch, ExpireCancel, hash, queue, effect, proc, Trouble
<1>7. ASSUME NEW j \in Jobs, ExpireHash(j) PROVE TypeOK'
    BY <1>7 DEF TypeOK, watch, ExpireHash, queue, effect, proc, Trouble, Status,
       Terminal
<1>8. ASSUME NEW w \in Workers, ReserveFault(w) \/ ReserveRepeated(w)
      PROVE  TypeOK'
    <2>1. troubles' \in 0..MaxTroubles
        BY <1>8, TroubleCount DEF ReserveFault, ReserveRepeated, TypeOK
    <2>2. CASE ReserveFault(w)
        BY <2>1, <2>2, DeliverType
        DEF TypeOK, watch, ReserveFault, hash, effect, LeaveLoop, Mode
    <2>3. CASE ReserveRepeated(w)
        BY <2>1, <2>3, DeliverType DEF TypeOK, watch, ReserveRepeated, hash, effect, proc
    <2>. QED  BY <1>8, <2>2, <2>3
<1>9. ASSUME NEW w \in Workers, Reclaim(w) PROVE TypeOK'
    BY <1>9 DEF TypeOK, watch, Reclaim, hash, effect
<1>10. ASSUME NEW w \in Workers, ReclaimFault(w) PROVE TypeOK'
    BY <1>10 DEF TypeOK, watch, ReclaimFault, hash, effect, proc, Trouble
<1>11. ASSUME NEW w \in Workers, Heartbeat(w) PROVE TypeOK'
    BY <1>11 DEF TypeOK, watch, Heartbeat, hash, effect, proc
<1>12. ASSUME NEW w \in Workers, RequestStop(w) PROVE TypeOK'
    BY <1>12 DEF TypeOK, watch, RequestStop, hash, queue, effect, Trouble, Mode
<1>13. ASSUME NEW w \in Workers, BeginDrain(w) PROVE TypeOK'
    BY <1>13 DEF TypeOK, watch, BeginDrain, hash, queue, effect, LeaveLoop, Mode
<1>14. ASSUME NEW w \in Workers, Stopped(w) PROVE TypeOK'
    BY <1>14 DEF TypeOK, watch, Stopped, hash, queue, effect, Mode
<1>15. ASSUME NEW w \in Workers, Crash(w) PROVE TypeOK'
    BY <1>15 DEF TypeOK, watch, Crash, hash, queue, effect, Trouble, Mode, TaskTable
<1>16. ASSUME NEW w \in Workers, Restart(w) PROVE TypeOK'
    BY <1>16 DEF TypeOK, watch, Restart, hash, queue, effect, Mode
<1>17. ASSUME NEW w \in Workers, NEW s \in Slots, Reserve(w, s) PROVE TypeOK'
    <2>1. Deliver /\ Launch(w, s, Head(backlog))
        BY <1>17 DEF Reserve
    <2>2. task' \in TaskTable /\ inflight' \in [Workers -> SUBSET Entries]
        BY <2>1, DeliverType, LaunchStarts DEF TypeOK
    <2>. QED
        BY <1>17, <2>1, <2>2, DeliverType
        DEF TypeOK, watch, Reserve, LeaveLoop, hash, effect, Mode
<1>18. ASSUME NEW w \in Workers, NEW s \in Slots, NEW e \in Entries,
              StartClaimed(w, s, e)
       PROVE  TypeOK'
    <2>1. task' \in TaskTable /\ inflight' \in [Workers -> SUBSET Entries]
        BY <1>18, LaunchStarts DEF TypeOK, watch, StartClaimed
    <2>. QED
        BY <1>18, <2>1 DEF TypeOK, watch, StartClaimed, hash, queue, effect
<1>19. ASSUME NEW w \in Workers, NEW s \in Slots, CommandFault(w, s) PROVE TypeOK'
    <2>1. task[w][s].pc # "idle" /\ task \in TaskTable
        BY <1>19 DEF CommandFault, TypeOK
    <2>2. task[w][s] \in Task /\ "COMPLETED" \in Terminal
        BY <2>1, ActiveTask DEF Terminal
    <2>3. /\ Conclude(w, s, "COMPLETED", FALSE) => task' \in TaskTable
          /\ Raise(w, s, FALSE) => task' \in TaskTable
          /\ Finish(w, s) => /\ task' \in TaskTable
                             /\ inflight' \in [Workers -> SUBSET Entries]
        BY <2>1, <2>2, ConcludeMoves, RaiseMoves, FinishEnds
        DEF MovesTo, Ends, TypeOK
    <2>4. task' \in TaskTable /\ inflight' \in [Workers -> SUBSET Entries]
        BY <1>19, <2>3 DEF CommandFault, TypeOK
    <2>. QED
        BY <1>19, <2>4 DEF TypeOK, watch, CommandFault, Trouble, hash, effect
<1>20. ASSUME NEW w \in Workers, NEW s \in Slots, TaskStep(w, s) PROVE TypeOK'
    <2>1. /\ task' \in TaskTable
          /\ inflight' \in [Workers -> SUBSET Entries]
          /\ task[w][s] \in Task
        BY <1>20, TaskStepType
    <2>2. /\ task[w][s].job \in Jobs
          /\ task[w][s].entry \in Entries
          /\ task[w][s].att \in Nat
        BY <2>1 DEF Task
    <2>3. At(w, s, "settle") \/ At(w, s, "publish") => task[w][s].out \in Terminal
        BY <2>1 DEF IndInv, TaskKnows, At, Task, SettlePc
    <2>4. CASE ReadMeta(w, s)
        BY <2>1, <2>2, <2>4 DEF TypeOK, watch, ReadMeta, hash, queue, effect, proc
    <2>5. CASE CheckCancel(w, s)
        BY <2>1, <2>2, <2>5 DEF TypeOK, watch, CheckCancel, hash, queue, effect, proc
    <2>6. CASE IncrAttempts(w, s)
        <3>1. PICK n \in 1..2 :
                  /\ Executed(n)
                  /\ attempts' = [attempts EXCEPT ![task[w][s].job] = @ + n]
            BY <2>6 DEF IncrAttempts
        <3>2. attempts' \in [Jobs -> Nat] /\ troubles' \in 0..MaxTroubles
            BY <2>2, <3>1, CountUp, TroubleCount DEF TypeOK
        <3>. QED  BY <2>1, <2>6, <3>2 DEF TypeOK, watch, IncrAttempts, queue, effect, proc
    <2>7. CASE SetProcessing(w, s)
        BY <2>1, <2>2, <2>7 DEF TypeOK, watch, SetProcessing, queue, effect, proc,
           Status, Terminal
    <2>8. CASE Work(w, s)
        BY <2>1, <2>2, <2>8 DEF TypeOK, watch, Work, hash, queue, effect, proc
    <2>9. CASE WriteArtifacts(w, s)
        BY <2>1, <2>2, <2>9 DEF TypeOK, watch, WriteArtifacts, hash, queue, proc
    <2>10. CASE ConsumeQuota(w, s)
        <3>1. PICK n \in 1..2 :
                  /\ Executed(n)
                  /\ charged' = [charged EXCEPT ![task[w][s].job] = @ + n]
            BY <2>10 DEF ConsumeQuota
        <3>2. charged' \in [Jobs -> Nat] /\ troubles' \in 0..MaxTroubles
            BY <2>2, <3>1, CountUp, TroubleCount DEF TypeOK
        <3>. QED  BY <2>1, <2>10, <3>2 DEF TypeOK, watch, ConsumeQuota, hash, queue, proc
    <2>11. CASE SetTerminal(w, s)
        BY <2>1, <2>2, <2>3, <2>11 DEF TypeOK, watch, SetTerminal, queue, proc,
           Status
    <2>12. CASE PublishTerminal(w, s)
        BY <2>1, <2>2, <2>3, <2>12 DEF TypeOK, watch, PublishTerminal, hash, queue,
           proc
    <2>13. CASE ExpireEvents(w, s)
        BY <2>1, <2>2, <2>13 DEF TypeOK, watch, ExpireEvents, hash, queue,
           effect, proc
    <2>14. CASE Fail(w, s)
        BY <2>1, <2>2, <2>14 DEF TypeOK, watch, Fail, queue, effect, Status, Terminal
    <2>15. CASE DeadLetter(w, s)
        <3>1. PICK n \in 1..2 :
                  /\ Executed(n)
                  /\ dead' = [dead EXCEPT ![task[w][s].job] = @ + n]
            BY <2>15 DEF DeadLetter
        <3>2. dead' \in [Jobs -> Nat] /\ troubles' \in 0..MaxTroubles
            BY <2>2, <3>1, CountUp, TroubleCount DEF TypeOK
        <3>. QED  BY <2>1, <2>15, <3>2 DEF TypeOK, watch, DeadLetter, hash, effect, proc
    <2>16. CASE XAck(w, s)
        BY <2>1, <2>2, <2>16 DEF TypeOK, watch, XAck, hash, effect, proc
    <2>17. CASE XDel(w, s)
        BY <2>1, <2>2, <2>17 DEF TypeOK, watch, XDel, hash, effect
    <2>. QED  BY <1>20, <2>4, <2>5, <2>6, <2>7, <2>8, <2>9, <2>10, <2>11, <2>12, <2>13,
       <2>14, <2>15, <2>16, <2>17 DEF TaskStep
<1>21. ASSUME NEW w \in Workers, NEW s \in Slots, Hang(w, s) PROVE TypeOK'
    <2>1. task \in TaskTable /\ task[w][s].pc # "idle" /\ "hung" \in Pc
        BY <1>21 DEF TypeOK, Hang, At, Pc
    <2>2. task' \in TaskTable
        BY <1>21, <2>1, GotoMoves DEF Hang, MovesTo
    <2>. QED  BY <1>21, <2>2 DEF TypeOK, watch, Hang, Trouble, hash, queue, effect, proc
<1>22. CASE ReadLength \/ ReadGroups
    BY <1>22 DEF TypeOK, ReadLength, ReadGroups, hash, queue, effect, proc
<1>23. CASE UNCHANGED vars
    BY <1>23 DEF vars, TypeOK
<1>. QED  BY <1>1, <1>2, <1>3, <1>4, <1>5, <1>6, <1>7, <1>8, <1>9, <1>10, <1>11, <1>12,
   <1>13, <1>14, <1>15, <1>16, <1>17, <1>18, <1>19, <1>20, <1>21, <1>22, <1>23 DEF Next

----------------------------------------------------------------------------
(* The inductive invariant *)

Known ==
    \A w \in Workers, s \in Slots :
        task[w][s].pc # "idle" => TaskKnows(task[w][s])

\* What has been accepted, written, recorded or published stays so.
Grows ==
    /\ sent \subseteq sent'
    /\ durable \subseteq durable'
    /\ \A j \in Jobs : recorded[j] \subseteq recorded'[j]
    /\ \A j \in Jobs : published[j] \subseteq published'[j]

\* What a coroutine relies on stays true while nothing recorded, written or
\* published is taken back, which no command does.
LEMMA KnowledgeLasts ==
    ASSUME NEW t \in Task, Grows, TaskKnows(t)
    PROVE  TaskKnows(t)'
<1>1. t.job \in Jobs
    BY DEF Task
<1>. QED  BY <1>1 DEF Grows, TaskKnows

\* A step of one coroutine leaves what the others know intact.
LEMMA KnownStep ==
    ASSUME TypeOK, Known, Grows, NEW w \in Workers, NEW s \in Slots,
           Others(w, s), task'[w][s].pc # "idle" => TaskKnows(task[w][s])'
    PROVE  Known'
<1>. SUFFICES ASSUME NEW v \in Workers, NEW r \in Slots, task'[v][r].pc # "idle"
              PROVE  TaskKnows(task[v][r])'
    BY DEF Known
<1>1. CASE v = w /\ r = s
    BY <1>1
<1>2. CASE v # w \/ r # s
    <2>1. task'[v][r] = task[v][r]
        BY <1>2 DEF Others
    <2>2. task[v][r] \in Task /\ TaskKnows(task[v][r])
        BY <2>1, ActiveTask DEF TypeOK, Known
    <2>3. PICK t \in Task : t = task[v][r]
        BY <2>2
    <2>4. TaskKnows(t)'
        BY <2>2, <2>3, KnowledgeLasts
    <2>. QED  BY <2>1, <2>3, <2>4 DEF TaskKnows
<1>. QED  BY <1>1, <1>2

\* A step that moves no coroutine leaves what all of them know intact.
LEMMA KnownStays ==
    ASSUME TypeOK, Known, Grows,
           \A v \in Workers, r \in Slots :
               task'[v][r] = task[v][r] \/ task'[v][r].pc = "idle"
    PROVE  Known'
<1>. SUFFICES ASSUME NEW v \in Workers, NEW r \in Slots, task'[v][r].pc # "idle"
              PROVE  TaskKnows(task[v][r])'
    BY DEF Known
<1>1. task'[v][r] = task[v][r]
    OBVIOUS
<1>2. task[v][r] \in Task /\ TaskKnows(task[v][r])
    BY <1>1, ActiveTask DEF TypeOK, Known
<1>3. PICK t \in Task : t = task[v][r]
    BY <1>2
<1>4. TaskKnows(t)'
    BY <1>2, <1>3, KnowledgeLasts
<1>. QED  BY <1>1, <1>3, <1>4 DEF TaskKnows

\* How the debt changes.
LEMMA XAddOwed ==
    ASSUME TypeOK, NEW e \in Entries, XAdd(e)
    PROVE  Owed' = Owed \cup {e}
<1>1. /\ Len(backlog) \in Nat
      /\ Len(backlog') = Len(backlog) + 1
      /\ backlog'[Len(backlog) + 1] = e
      /\ \A i \in 1..Len(backlog) : backlog'[i] = backlog[i]
    BY DEF TypeOK, XAdd
<1>2. Undelivered' \subseteq Undelivered \cup {e}
    BY <1>1 DEF Undelivered
<1>3. Undelivered \cup {e} \subseteq Undelivered'
    BY <1>1 DEF Undelivered
<1>. QED  BY <1>2, <1>3 DEF Owed, XAdd, Undelivered

\* A delivery moves an entry within the debt: backlog to PEL.
LEMMA DeliverOwed ==
    ASSUME TypeOK, Deliver
    PROVE  Owed' = Owed
<1>1. Undelivered = Undelivered' \cup {Head(backlog)}
    <2>1. backlog' \in Seq(Entries) /\ Len(backlog') = Len(backlog) - 1 /\ Len(backlog) \in Nat \ {0}
        BY DEF TypeOK, Deliver
    <2>2. \A i \in 1..Len(backlog') : backlog'[i] = backlog[i + 1]
        BY <2>1 DEF TypeOK, Deliver
    <2>3. Head(backlog) = backlog[1]
        BY DEF Deliver, TypeOK
    <2>4. \A i \in 1..Len(backlog) : i = 1 \/ (i - 1 \in 1..Len(backlog') /\ backlog[i] = backlog'[i - 1])
        BY <2>1, <2>2
    <2>5. Undelivered \subseteq Undelivered' \cup {Head(backlog)}
        BY <2>1, <2>3, <2>4 DEF Undelivered
    <2>6. Undelivered' \cup {Head(backlog)} \subseteq Undelivered
        BY <2>1, <2>2, <2>3 DEF Undelivered
    <2>. QED  BY <2>5, <2>6
<1>. QED  BY <1>1 DEF Owed, Deliver, Undelivered

Effects ==
    /\ CompletedIsDurable
    /\ EventAfterStatus
    /\ BuriedAfterNotice
    /\ StatusIsRecorded

Debts == NoSilentLoss /\ QueueIsAccepted

\* The inductive invariant in the four parts that the steps below treat one
\* by one.
LEMMA IndInvParts == IndInv <=> TypeOK /\ Effects /\ Debts /\ Known
BY DEF IndInv, Effects, Debts, Known

\* A step that decides nothing about any job.
Undecided ==
    /\ UNCHANGED <<durable, published, recorded, dead>>
    /\ \A j \in Jobs : status'[j] = status[j] \/ status'[j] \notin Terminal

\* A step that decides nothing keeps outcomes, results and notices in order.
LEMMA UndecidedEffects == ASSUME Effects, Undecided PROVE Effects'
BY DEF Undecided, Effects, CompletedIsDurable, EventAfterStatus,
       BuriedAfterNotice, StatusIsRecorded

\* A step that neither acknowledges nor forgets keeps every debt covered.
LEMMA SameDebts ==
    ASSUME TypeOK, Debts, Grows, sent' = sent, Owed' = Owed,
           \A w \in Workers : claimed'[w] \subseteq claimed[w] \cup Owed
    PROVE  Debts'
<1>1. accepted' = accepted /\ OwedJobs' = OwedJobs /\ accepted \subseteq Jobs
    BY PipelineAssumption DEF TypeOK, accepted, OwedJobs
<1>2. NoSilentLoss'
    BY <1>1 DEF Debts, Grows, NoSilentLoss
<1>. QED  BY <1>2 DEF Debts, QueueIsAccepted

LoopStep ==
    \/ \E j \in Jobs :
          \/ SubmitStatus(j) \/ RequestCancel(j)
          \/ ExpireCancel(j) \/ ExpireHash(j)
    \/ \E e \in Entries : GoStale(e) \/ MissBeats(e)
    \/ \E w \in Workers :
          \/ ReserveFault(w) \/ ReserveRepeated(w) \/ Reclaim(w) \/ ReclaimFault(w)
          \/ Heartbeat(w) \/ RequestStop(w) \/ BeginDrain(w)
          \/ Stopped(w) \/ Crash(w) \/ Restart(w)
    \/ ReadLength \/ ReadGroups
    \/ UNCHANGED vars

\* The gateway, the passing of time and the workers' loops decide nothing,
\* move no coroutine forward and owe at least what they owed.
LEMMA LoopSteps ==
    ASSUME TypeOK, LoopStep
    PROVE  /\ Undecided
           /\ Grows
           /\ sent' = sent
           /\ Owed' = Owed
           /\ \A w \in Workers : claimed'[w] \subseteq claimed[w] \cup Owed
           /\ \A v \in Workers, r \in Slots :
                 task'[v][r] = task[v][r] \/ task'[v][r].pc = "idle"
<1>1. sent' = sent /\ Undecided
    BY DEF LoopStep, TypeOK, SubmitStatus, RequestCancel, Age, GoStale, MissBeats,
           ExpireCancel, ExpireHash, ReserveFault, ReserveRepeated, Reclaim, ReclaimFault,
           Heartbeat, RequestStop, BeginDrain, Stopped, Crash, Restart, ReadLength, ReadGroups,
           LeaveLoop, Undecided, Terminal, hash, queue, effect, vars
<1>2. Grows
    BY <1>1 DEF Grows, Undecided
<1>3. Owed' = Owed
    <2>1. CASE Deliver
        BY <2>1, DeliverOwed
    <2>2. CASE UNCHANGED <<backlog, pending>>
        BY <2>2 DEF Owed, Undelivered
    <2>. QED
        BY <2>1, <2>2
        DEF LoopStep, SubmitStatus, RequestCancel, Age, GoStale, MissBeats, ExpireCancel,
            ExpireHash, ReserveFault, ReserveRepeated, Reclaim, ReclaimFault, Heartbeat,
            RequestStop, BeginDrain, Stopped, Crash, Restart, ReadLength, ReadGroups, queue, vars
<1>4. \A w \in Workers : claimed'[w] \subseteq claimed[w] \cup Owed
    BY DEF LoopStep, TypeOK, Owed, SubmitStatus, RequestCancel, Age, GoStale, MissBeats,
           ExpireCancel, ExpireHash, ReserveFault, ReserveRepeated, Reclaim, ReclaimFault,
           Heartbeat, RequestStop, BeginDrain, Stopped, Crash, Restart, ReadLength, ReadGroups,
           LeaveLoop, proc, vars
<1>5. \A v \in Workers, r \in Slots :
          task'[v][r] = task[v][r] \/ task'[v][r].pc = "idle"
    <2>1. ASSUME NEW w \in Workers, Crash(w)
          PROVE  \A v \in Workers, r \in Slots :
                     task'[v][r] = task[v][r] \/ task'[v][r].pc = "idle"
        <3>1. task' = [task EXCEPT ![w] = [s \in Slots |-> NoTask]]
            BY <2>1 DEF Crash
        <3>. QED  BY <3>1 DEF TypeOK, TaskTable, NoTask
    <2>2. task' = task \/ \E w \in Workers : Crash(w)
        BY DEF LoopStep, SubmitStatus, RequestCancel, Age, GoStale, MissBeats, ExpireCancel,
               ExpireHash, ReserveFault, ReserveRepeated, Reclaim, ReclaimFault, Heartbeat,
               RequestStop, BeginDrain, Stopped, Restart, ReadLength,
               ReadGroups, vars
    <2>. QED  BY <2>1, <2>2
<1>. QED  BY <1>1, <1>2, <1>3, <1>4, <1>5

\* A coroutine starts: it knows that its job was accepted.
LEMMA LaunchKnown ==
    ASSUME TypeOK, Known, Grows, NEW w \in Workers, NEW s \in Slots,
           NEW e \in sent, Launch(w, s, e)
    PROVE  Known'
<1>1. e \in Entries
    BY DEF TypeOK
<1>2. Others(w, s) /\ task'[w][s] = Fresh(e)
    BY <1>1, LaunchStarts DEF TypeOK
<1>3. TaskKnows(task[w][s])'
    BY <1>2 DEF TaskKnows, Fresh, Grows, SettlePc
<1>. QED  BY <1>2, <1>3, KnownStep

\* Steps of a coroutine that touch only its own record and the attempt count.
LEMMA LocalSteps ==
    ASSUME TypeOK, Effects, Debts, Known, NEW w \in Workers, NEW s \in Slots,
           task[w][s].pc # "idle", Undecided,
           UNCHANGED <<sent, backlog, pending, claimed>>,
           Others(w, s), task'[w][s].pc # "idle" => TaskKnows(task[w][s])'
    PROVE  Effects' /\ Debts' /\ Known'
<1>1. Grows
    BY DEF Grows, Undecided
<1>2. Owed' = Owed
    BY DEF Owed, Undelivered
<1>. QED  BY <1>1, <1>2, UndecidedEffects, SameDebts, KnownStep

\* Each command of _run_job, _process, _fail, ack and dead_letter preserves
\* the invariant; the acknowledgement does because an outcome is recorded.
LEMMA TaskSteps ==
    ASSUME TypeOK, Effects, Debts, Known, NEW w \in Workers, NEW s \in Slots,
           TaskStep(w, s)
    PROVE  Effects' /\ Debts' /\ Known'
<1>. USE DEF At
<1> DEFINE t == task[w][s]
           j == task[w][s].job
<1>1. /\ task \in TaskTable
      /\ t \in Task
      /\ inflight \in [Workers -> SUBSET Entries]
    BY TaskStepType DEF TypeOK
<1>2. t.pc # "idle"
    BY <1>1 DEF Task, Pc, ProcessPc, SettlePc, AckPc
<1>3. TaskKnows(t)
    BY <1>2 DEF Known
<1>4. /\ j \in Jobs
      /\ t.perm \in BOOLEAN
      /\ t.out \in Terminal \cup {"NONE"}
      /\ "COMPLETED" \in Terminal /\ "FAILED" \in Terminal /\ "CANCELLED" \in Terminal
    BY <1>1 DEF Task, Terminal
<1>5. {"flag", "incr", "work", "persist", "charge", "publish", "expire",
       "bury", "xack", "xdel"} \subseteq Pc
    BY DEF Pc, ProcessPc, SettlePc, AckPc
<1>6. \A pc \in Pc : Goto(w, s, pc) => MovesTo(w, s, pc, t.out)
    BY <1>1, <1>2, GotoMoves
<1>7. \A out \in Terminal, perm \in BOOLEAN :
          Conclude(w, s, out, perm) => MovesTo(w, s, "settle", out)
    BY <1>1, <1>2, ConcludeMoves
<1>8. \A perm \in BOOLEAN : Raise(w, s, perm) => MovesTo(w, s, "fail", "NONE")
    BY <1>1, <1>2, RaiseMoves
<1>9. Finish(w, s) => Ends(w, s)
    BY <1>1, FinishEnds
<1>10. ReadMeta(w, s) => Effects' /\ Debts' /\ Known'
    <2>. HAVE ReadMeta(w, s)
    <2>1. Undecided /\ UNCHANGED <<sent, backlog, pending, claimed>>
        BY DEF ReadMeta, Undecided, hash, queue, effect, proc
    <2>2. \/ MovesTo(w, s, "fail", "NONE")
          \/ MovesTo(w, s, "flag", t.out)
          \/ MovesTo(w, s, "xack", t.out) /\ recorded[j] # {}
        BY <1>4, <1>5, <1>6, <1>8 DEF ReadMeta, Effects, StatusIsRecorded
    <2>3. Others(w, s) /\ TaskKnows(task[w][s])'
        BY <1>3, <2>1, <2>2 DEF MovesTo, TaskKnows, Undecided, SettlePc
    <2>. QED  BY <1>2, <2>1, <2>3, LocalSteps
<1>11. CheckCancel(w, s) => Effects' /\ Debts' /\ Known'
    <2>. HAVE CheckCancel(w, s)
    <2>1. Undecided /\ UNCHANGED <<sent, backlog, pending, claimed>>
        BY DEF CheckCancel, Undecided, hash, queue, effect, proc
    <2>2. \/ MovesTo(w, s, "settle", "CANCELLED")
          \/ MovesTo(w, s, "incr", t.out)
        BY <1>4, <1>5, <1>6, <1>7 DEF CheckCancel
    <2>3. Others(w, s) /\ TaskKnows(task[w][s])'
        BY <1>3, <2>1, <2>2 DEF MovesTo, TaskKnows, Undecided, SettlePc
    <2>. QED  BY <1>2, <2>1, <2>3, LocalSteps
<1>12. IncrAttempts(w, s) => Effects' /\ Debts' /\ Known'
    <2>. HAVE IncrAttempts(w, s)
    <2> DEFINE f(n) == [t EXCEPT !.pc = "start", !.att = attempts[j] + n]
    <2>0. PICK n \in 1..2 : task' = [task EXCEPT ![w][s] = f(n)]
        BY DEF IncrAttempts
    <2> DEFINE u == f(n)
    <2>1. Undecided /\ UNCHANGED <<sent, backlog, pending, claimed>>
        BY DEF IncrAttempts, Undecided, queue, effect, proc
    <2>2. /\ u \in Task /\ u.pc = "start" /\ u.out = t.out
          /\ u.job = j /\ u.entry = t.entry
        <3>1. attempts[j] + n \in Nat
            BY <1>4 DEF TypeOK
        <3>. QED  BY <1>1, <3>1 DEF Task, Pc, ProcessPc
    <2>3. Others(w, s) /\ task'[w][s] = u
        BY <1>1, <2>0, <2>2, Update
    <2>4. TaskKnows(task[w][s])'
        BY <1>3, <2>1, <2>2, <2>3 DEF TaskKnows, Undecided, SettlePc
    <2>. QED  BY <1>2, <2>1, <2>3, <2>4, LocalSteps
<1>13. SetProcessing(w, s) => Effects' /\ Debts' /\ Known'
    <2>. HAVE SetProcessing(w, s)
    <2>1. Undecided /\ UNCHANGED <<sent, backlog, pending, claimed>>
        BY <1>4 DEF SetProcessing, Undecided, queue, effect, proc, TypeOK, Terminal
    <2> DEFINE u == [t EXCEPT !.pc = "work", !.att = 0]
    <2>2. /\ u \in Task /\ u.pc = "work" /\ u.out = t.out
          /\ u.job = j /\ u.entry = t.entry
          /\ task' = [task EXCEPT ![w][s] = u]
        BY <1>1 DEF SetProcessing, Task, Pc, ProcessPc
    <2>3. Others(w, s) /\ task'[w][s] = u
        BY <1>1, <2>2, Update
    <2>4. TaskKnows(task[w][s])'
        BY <1>3, <2>1, <2>2, <2>3 DEF TaskKnows, Undecided, SettlePc
    <2>. QED  BY <1>2, <2>1, <2>3, <2>4, LocalSteps
<1>14. Work(w, s) => Effects' /\ Debts' /\ Known'
    <2>. HAVE Work(w, s)
    <2>1. Undecided /\ UNCHANGED <<sent, backlog, pending, claimed>>
        BY DEF Work, Undecided, hash, queue, effect, proc
    <2>2. \/ MovesTo(w, s, "settle", "CANCELLED")
          \/ MovesTo(w, s, "fail", "NONE")
          \/ MovesTo(w, s, "persist", t.out)
        BY <1>4, <1>5, <1>6, <1>7, <1>8 DEF Work
    <2>3. Others(w, s) /\ TaskKnows(task[w][s])'
        BY <1>3, <2>1, <2>2 DEF MovesTo, TaskKnows, Undecided, SettlePc
    <2>. QED  BY <1>2, <2>1, <2>3, LocalSteps
<1>15. WriteArtifacts(w, s) => Effects' /\ Debts' /\ Known'
    <2>. HAVE WriteArtifacts(w, s)
    <2>1. /\ durable' = durable \cup {j}
          /\ UNCHANGED <<sent, status, backlog, pending, claimed, dead,
                         published, recorded>>
        BY DEF WriteArtifacts, hash, queue, proc
    <2>2. Grows /\ Owed' = Owed
        BY <2>1 DEF Grows, Owed, Undelivered
    <2>3. MovesTo(w, s, "charge", t.out)
        BY <1>5, <1>6 DEF WriteArtifacts
    <2>4. Others(w, s) /\ TaskKnows(task[w][s])'
        BY <1>3, <2>1, <2>3 DEF MovesTo, TaskKnows, SettlePc
    <2>5. Effects'
        BY <2>1 DEF Effects, CompletedIsDurable, EventAfterStatus,
                    BuriedAfterNotice, StatusIsRecorded
    <2>. QED  BY <2>1, <2>2, <2>4, <2>5, SameDebts, KnownStep
<1>16. ConsumeQuota(w, s) => Effects' /\ Debts' /\ Known'
    <2>. HAVE ConsumeQuota(w, s)
    <2>1. Undecided /\ UNCHANGED <<sent, backlog, pending, claimed>>
        BY DEF ConsumeQuota, Undecided, hash, queue, proc
    <2>2. MovesTo(w, s, "settle", "COMPLETED") /\ j \in durable
        BY <1>3, <1>4, <1>7 DEF ConsumeQuota, TaskKnows
    <2>3. Others(w, s) /\ TaskKnows(task[w][s])'
        BY <1>3, <2>1, <2>2 DEF MovesTo, TaskKnows, Undecided, SettlePc
    <2>. QED  BY <1>2, <2>1, <2>3, LocalSteps
<1>17. SetTerminal(w, s) => Effects' /\ Debts' /\ Known'
    <2>. HAVE SetTerminal(w, s)
    <2>1. /\ status' = [status EXCEPT ![j] = t.out]
          /\ recorded' = [recorded EXCEPT ![j] = @ \cup {t.out}]
          /\ UNCHANGED <<sent, backlog, pending, claimed, dead, durable,
                         published>>
        BY DEF SetTerminal, queue, proc
    <2>2. t.out = "COMPLETED" => j \in durable
        BY <1>3 DEF TaskKnows
    <2>3. Grows /\ Owed' = Owed
        BY <1>4, <2>1 DEF Grows, Owed, Undelivered, TypeOK
    <2>4. MovesTo(w, s, "publish", t.out) /\ t.out # "NONE"
        BY <1>3, <1>5, <1>6 DEF SetTerminal, TaskKnows, SettlePc
    <2>5. Others(w, s) /\ TaskKnows(task[w][s])'
        BY <1>3, <1>4, <2>1, <2>2, <2>4 DEF MovesTo, TaskKnows, SettlePc, TypeOK
    <2>6. CompletedIsDurable' /\ StatusIsRecorded'
        BY <1>4, <2>1, <2>2 DEF TypeOK, Effects, CompletedIsDurable,
                                StatusIsRecorded
    <2>7. EventAfterStatus' /\ BuriedAfterNotice'
        BY <1>4, <2>1 DEF TypeOK, Effects, EventAfterStatus, BuriedAfterNotice
    <2>. QED  BY <2>1, <2>3, <2>5, <2>6, <2>7, SameDebts, KnownStep DEF Effects
<1>18. PublishTerminal(w, s) => Effects' /\ Debts' /\ Known'
    <2>. HAVE PublishTerminal(w, s)
    <2>1. /\ published' = [published EXCEPT ![j] = @ \cup {t.out}]
          /\ UNCHANGED <<sent, status, backlog, pending, claimed, dead,
                         durable, recorded>>
        BY DEF PublishTerminal, hash, queue, proc
    <2>2. t.out \in recorded[j]
        BY <1>3 DEF PublishTerminal, TaskKnows
    <2>3. Grows /\ Owed' = Owed
        BY <1>4, <2>1 DEF Grows, Owed, Undelivered, TypeOK
    <2>4. MovesTo(w, s, "expire", t.out) /\ t.out # "NONE"
        BY <1>3, <1>5, <1>6 DEF PublishTerminal, TaskKnows, SettlePc
    <2>5. Others(w, s) /\ TaskKnows(task[w][s])'
        BY <1>3, <1>4, <2>1, <2>2, <2>4 DEF MovesTo, TaskKnows, SettlePc, TypeOK
    <2>6. Effects'
        BY <1>4, <2>1, <2>2 DEF TypeOK, Effects, CompletedIsDurable,
             StatusIsRecorded, EventAfterStatus, BuriedAfterNotice
    <2>. QED  BY <2>1, <2>3, <2>5, <2>6, SameDebts, KnownStep
<1>19. ExpireEvents(w, s) => Effects' /\ Debts' /\ Known'
    <2>. HAVE ExpireEvents(w, s)
    <2>1. Undecided /\ UNCHANGED <<sent, backlog, pending, claimed>>
        BY DEF ExpireEvents, Undecided, hash, queue, effect, proc
    <2>2. \/ MovesTo(w, s, "bury", t.out) /\ t.out = "FAILED"
          \/ MovesTo(w, s, "xack", t.out)
        BY <1>5, <1>6 DEF ExpireEvents
    <2>3. t.out \in recorded[j] /\ t.out \in published[j] /\ t.out # "NONE"
        BY <1>3 DEF ExpireEvents, TaskKnows, SettlePc
    <2>4. Others(w, s) /\ TaskKnows(task[w][s])'
        BY <1>3, <2>1, <2>2, <2>3 DEF MovesTo, TaskKnows, Undecided, SettlePc
    <2>. QED  BY <1>2, <2>1, <2>4, LocalSteps
<1>20. Fail(w, s) => Effects' /\ Debts' /\ Known'
    <2>. HAVE Fail(w, s)
    <2>1. Undecided /\ UNCHANGED <<sent, backlog, pending, claimed>>
        BY <1>4 DEF Fail, Undecided, queue, effect, TypeOK, Terminal
    <2>2. MovesTo(w, s, "settle", "FAILED") \/ Ends(w, s)
        BY <1>4, <1>7, <1>9 DEF Fail
    <2>3. Others(w, s)
        BY <2>2 DEF MovesTo, Ends
    <2>4. task'[w][s].pc # "idle" => TaskKnows(task[w][s])'
        BY <1>3, <2>1, <2>2 DEF MovesTo, Ends, NoTask, TaskKnows, Undecided,
                                SettlePc
    <2>. QED  BY <1>2, <2>1, <2>3, <2>4, LocalSteps
<1>21. DeadLetter(w, s) => Effects' /\ Debts' /\ Known'
    <2>. HAVE DeadLetter(w, s)
    <2>1. /\ \E n \in 1..2 : dead' = [dead EXCEPT ![j] = @ + n]
          /\ UNCHANGED <<sent, status, backlog, pending, claimed, durable,
                         published, recorded>>
        BY DEF DeadLetter, hash, effect, proc
    <2>2. t.out = "FAILED" /\ "FAILED" \in recorded[j] /\ "FAILED" \in published[j]
        BY <1>3 DEF DeadLetter, TaskKnows
    <2>3. Grows /\ Owed' = Owed
        BY <2>1 DEF Grows, Owed, Undelivered
    <2>4. MovesTo(w, s, "xack", t.out)
        BY <1>5, <1>6 DEF DeadLetter
    <2>5. Others(w, s) /\ TaskKnows(task[w][s])'
        BY <1>3, <2>1, <2>2, <2>4 DEF MovesTo, TaskKnows, SettlePc
    <2>6. BuriedAfterNotice'
        BY <1>4, <2>1, <2>2 DEF TypeOK, Effects, BuriedAfterNotice
    <2>7. CompletedIsDurable' /\ EventAfterStatus' /\ StatusIsRecorded'
        BY <2>1 DEF Effects, CompletedIsDurable, EventAfterStatus,
                    StatusIsRecorded
    <2>. QED  BY <2>1, <2>3, <2>5, <2>6, <2>7, SameDebts, KnownStep DEF Effects
<1>22. XAck(w, s) => Effects' /\ Debts' /\ Known'
    <2>. HAVE XAck(w, s)
    <2>1. /\ pending' = pending \ {t.entry}
          /\ UNCHANGED <<sent, status, backlog, claimed, dead, durable,
                         published, recorded>>
        BY DEF XAck, hash, effect, proc
    <2>2. recorded[j] # {} /\ j = JobOf[t.entry]
        BY <1>3 DEF XAck, TaskKnows
    <2>3. Grows /\ Undecided
        BY <2>1 DEF Grows, Undecided
    <2>4. MovesTo(w, s, "xdel", t.out)
        BY <1>5, <1>6 DEF XAck
    <2>5. Others(w, s) /\ TaskKnows(task[w][s])'
        BY <1>3, <2>1, <2>2, <2>4 DEF MovesTo, TaskKnows, SettlePc
    <2>6. Owed' \subseteq Owed /\ Owed \ {t.entry} \subseteq Owed'
        BY <2>1 DEF Owed, Undelivered
    <2>7. OwedJobs \ {j} \subseteq OwedJobs'
        BY <2>2, <2>6 DEF OwedJobs
    <2>8. NoSilentLoss'
        BY <2>1, <2>2, <2>7 DEF Debts, NoSilentLoss, accepted
    <2>9. Debts'
        BY <2>1, <2>6, <2>8 DEF Debts, QueueIsAccepted
    <2>. QED  BY <2>3, <2>5, <2>9, UndecidedEffects, KnownStep
<1>23. XDel(w, s) => Effects' /\ Debts' /\ Known'
    <2>. HAVE XDel(w, s)
    <2>1. Undecided /\ UNCHANGED <<sent, backlog, pending, claimed>>
        BY DEF XDel, Undecided, hash, effect
    <2>2. Others(w, s) /\ task'[w][s].pc = "idle"
        BY <1>9 DEF XDel, Ends, NoTask
    <2>. QED  BY <1>2, <2>1, <2>2, LocalSteps
<1>. QED  BY <1>10, <1>11, <1>12, <1>13, <1>14, <1>15, <1>16, <1>17, <1>18,
             <1>19, <1>20, <1>21, <1>22, <1>23 DEF TaskStep

\* A command that raises sends the coroutine to _fail(), ends it or leaves it
\* waiting for ever; none of them acknowledges anything.
LEMMA FaultSteps ==
    ASSUME TypeOK, Effects, Debts, Known, NEW w \in Workers, NEW s \in Slots,
           CommandFault(w, s) \/ Hang(w, s)
    PROVE  Effects' /\ Debts' /\ Known'
<1> DEFINE t == task[w][s]
<1>1. t.pc # "idle" /\ task \in TaskTable /\ inflight \in [Workers -> SUBSET Entries]
    BY DEF CommandFault, Hang, At, TypeOK
<1>2. t \in Task /\ TaskKnows(t) /\ "COMPLETED" \in Terminal /\ "hung" \in Pc
    BY <1>1, ActiveTask DEF Known, Terminal, Pc
<1>3. Undecided /\ UNCHANGED <<sent, backlog, pending, claimed>>
    BY DEF CommandFault, Hang, Undecided, hash, queue, effect, proc
<1>4. \/ t.pc = "charge" /\ MovesTo(w, s, "settle", "COMPLETED")
      \/ MovesTo(w, s, "fail", "NONE")
      \/ MovesTo(w, s, "hung", t.out)
      \/ Ends(w, s)
    <2>1. Hang(w, s) => MovesTo(w, s, "hung", t.out)
        BY <1>1, <1>2, GotoMoves DEF Hang
    <2>2. CommandFault(w, s) =>
              \/ t.pc = "charge" /\ MovesTo(w, s, "settle", "COMPLETED")
              \/ MovesTo(w, s, "fail", "NONE")
              \/ Ends(w, s)
        BY <1>1, <1>2, ConcludeMoves, RaiseMoves, FinishEnds DEF CommandFault
    <2>. QED  BY <2>1, <2>2
<1>5. Others(w, s)
    BY <1>4 DEF MovesTo, Ends
<1>6. task'[w][s].pc # "idle" => TaskKnows(task[w][s])'
    BY <1>2, <1>3, <1>4 DEF MovesTo, Ends, NoTask, TaskKnows, Undecided, SettlePc
<1>. QED  BY <1>1, <1>3, <1>5, <1>6, LocalSteps

\* The empty system satisfies the inductive invariant.
LEMMA IndInit == ASSUME Init PROVE IndInv
<1>1. TypeOK
    BY TypeInit
<1>2. Effects
    BY DEF Init, Effects, CompletedIsDurable, EventAfterStatus,
           BuriedAfterNotice, StatusIsRecorded, Terminal
<1>3. Debts
    BY DEF Init, Debts, NoSilentLoss, QueueIsAccepted, Owed, Undelivered, accepted
<1>4. Known
    BY DEF Init, Known, NoTask
<1>. QED  BY <1>1, <1>2, <1>3, <1>4, IndInvParts

\* Every step of the gateway, Redis and the workers preserves the inductive
\* invariant.
LEMMA IndNext == ASSUME IndInv, [Next]_vars PROVE IndInv'
<1>1. TypeOK'
    BY TypeNext
<1>2. TypeOK /\ Effects /\ Debts /\ Known
    BY IndInvParts
<1>3. ASSUME NEW e \in Entries, Enqueue(e) \/ EnqueueAgain(e)
      PROVE  Effects' /\ Debts' /\ Known'
    <2>1. Undecided /\ Grows /\ UNCHANGED <<claimed, task>>
        BY <1>3 DEF Enqueue, EnqueueAgain, XAdd, Undecided, Grows, effect, proc
    <2>2. sent' = sent \cup {e} /\ Owed' = Owed \cup {e}
        BY <1>2, <1>3, XAddOwed DEF Enqueue, EnqueueAgain, XAdd
    <2>3. /\ accepted' = accepted \cup {JobOf[e]}
          /\ OwedJobs' = OwedJobs \cup {JobOf[e]}
        BY <2>2 DEF accepted, OwedJobs
    <2>4. NoSilentLoss'
        BY <1>2, <2>1, <2>3 DEF Debts, NoSilentLoss, Undecided
    <2>5. Debts'
        BY <1>2, <2>1, <2>2, <2>4 DEF Debts, QueueIsAccepted
    <2>. QED  BY <1>2, <2>1, <2>5, UndecidedEffects, KnownStays
<1>4. ASSUME NEW w \in Workers, NEW s \in Slots, Reserve(w, s)
      PROVE  Effects' /\ Debts' /\ Known'
    <2>1. Deliver /\ Launch(w, s, Head(backlog))
        BY <1>4 DEF Reserve
    <2>2. Undecided /\ Grows /\ sent' = sent
        BY <1>4 DEF Reserve, Undecided, Grows, hash, effect
    <2>3. \A v \in Workers : claimed'[v] \subseteq claimed[v]
        BY <1>2, <1>4 DEF Reserve, LeaveLoop, TypeOK
    <2>4. Head(backlog) \in sent
        <3>1. Head(backlog) \in pending'
            BY <2>1 DEF Deliver
        <3>2. Owed' = Owed
            BY <1>2, <2>1, DeliverOwed
        <3>. QED  BY <1>2, <3>1, <3>2 DEF Owed, Debts, QueueIsAccepted
    <2>. QED
        BY <1>2, <2>1, <2>2, <2>3, <2>4, DeliverOwed, UndecidedEffects,
           SameDebts, LaunchKnown
<1>5. ASSUME NEW w \in Workers, NEW s \in Slots, NEW e \in Entries,
             StartClaimed(w, s, e)
      PROVE  Effects' /\ Debts' /\ Known'
    <2>1. Undecided /\ Grows /\ sent' = sent /\ Launch(w, s, e)
        BY <1>5 DEF StartClaimed, Undecided, Grows, hash, queue, effect
    <2>2. Owed' = Owed
        BY <1>5 DEF StartClaimed, queue, Owed, Undelivered
    <2>3. \A v \in Workers : claimed'[v] \subseteq claimed[v]
        BY <1>2, <1>5 DEF StartClaimed, TypeOK
    <2>4. e \in sent
        BY <1>2, <1>5 DEF StartClaimed, Debts, QueueIsAccepted
    <2>. QED
        BY <1>2, <2>1, <2>2, <2>3, <2>4, UndecidedEffects, SameDebts,
           LaunchKnown
<1>6. ASSUME NEW w \in Workers, NEW s \in Slots,
             TaskStep(w, s) \/ CommandFault(w, s) \/ Hang(w, s)
      PROVE  Effects' /\ Debts' /\ Known'
    BY <1>2, <1>6, TaskSteps, FaultSteps
<1>7. LoopStep => Effects' /\ Debts' /\ Known'
    BY <1>2, LoopSteps, UndecidedEffects, SameDebts, KnownStays
<1>8. Effects' /\ Debts' /\ Known'
    BY <1>3, <1>4, <1>5, <1>6, <1>7 DEF Next, LoopStep
<1>. QED  BY <1>1, <1>8, IndInvParts, PTL

\* Every reachable state satisfies the inductive invariant.
THEOREM Inductive == Spec => []IndInv
BY IndInit, IndNext, PTL DEF Spec

\* Every variable keeps its type in every run.
THEOREM TypeCorrect == Spec => []TypeOK
<1>1. IndInv => TypeOK
    BY DEF IndInv
<1>. QED  BY <1>1, Inductive, PTL

\* At-least-once delivery: no accepted job leaves the queue undecided.
THEOREM NothingLost == Spec => []NoSilentLoss
<1>1. IndInv => NoSilentLoss
    BY DEF IndInv
<1>. QED  BY <1>1, Inductive, PTL

\* A job reported COMPLETED has its result on disk, and events and dead
\* letters come only after what they announce.
THEOREM OutcomesInOrder ==
    Spec => [](CompletedIsDurable /\ EventAfterStatus /\ BuriedAfterNotice)
<1>1. IndInv => CompletedIsDurable /\ EventAfterStatus /\ BuriedAfterNotice
    BY DEF IndInv
<1>. QED  BY <1>1, Inductive, PTL

----------------------------------------------------------------------------
(* Refinement: JobPipeline implements JobLifecycle *)

\* A step of the system is, to its clients, an acceptance (XADD), a recorded
\* outcome (set_status), a release (XACK) or nothing.
LEMMA LifeStep ==
    ASSUME IndInv, [Next]_vars
    PROVE  [Life!LifeNext]_(Life!lifeVars)
<1>. USE DEF At
<1>1. TypeOK /\ Debts /\ Known
    BY IndInvParts
<1>2. ASSUME NEW e \in Entries, Enqueue(e) \/ EnqueueAgain(e)
      PROVE  Life!Accept(e)
    <2>1. XAdd(e)
        BY <1>2 DEF Enqueue, EnqueueAgain
    <2>2. Owed' = Owed \cup {e}
        BY <1>1, <2>1, XAddOwed
    <2>. QED  BY <2>1, <2>2 DEF XAdd, effect, Life!Accept
<1>3. ASSUME NEW w \in Workers, NEW s \in Slots, SetTerminal(w, s)
      PROVE  \E e \in Entries : Life!Record(e)
    <2> DEFINE t == task[w][s]
    <2>1. t \in Task /\ TaskKnows(t)
        BY <1>1, <1>3, ActiveTask DEF SetTerminal, TypeOK, Known
    <2>2. /\ t.entry \in Entries
          /\ t.entry \in sent
          /\ t.job = JobOf[t.entry]
          /\ t.out \in Terminal
        BY <1>3, <2>1 DEF SetTerminal, TaskKnows, SettlePc, Task
    <2>3. Owed' = Owed
        BY <1>3 DEF SetTerminal, queue, Owed, Undelivered
    <2>4. Life!Record(t.entry)
        BY <1>3, <2>2, <2>3 DEF SetTerminal, Life!Record
    <2>. QED  BY <2>2, <2>4
<1>4. ASSUME NEW w \in Workers, NEW s \in Slots, XAck(w, s)
      PROVE  UNCHANGED Life!lifeVars \/ \E e \in Entries : Life!Release(e)
    <2> DEFINE e == task[w][s].entry
    <2>1. task[w][s] \in Task /\ TaskKnows(task[w][s])
        BY <1>1, <1>4, ActiveTask DEF XAck, TypeOK, Known
    <2>2. e \in Entries /\ recorded[JobOf[e]] # {}
        BY <1>4, <2>1 DEF XAck, TaskKnows, Task
    <2>3. sent' = sent /\ recorded' = recorded
        BY <1>4 DEF XAck, hash, effect
    <2>4. Owed' = Undelivered \cup (pending \ {e})
        BY <1>4 DEF XAck, Owed, Undelivered
    <2>5. CASE e \in pending /\ e \notin Undelivered
        <3>1. e \in Owed /\ Owed' = Owed \ {e}
            BY <2>4, <2>5 DEF Owed
        <3>2. Life!Release(e)
            BY <2>2, <2>3, <3>1 DEF Life!Release
        <3>. QED  BY <2>2, <3>2
    <2>6. CASE ~(e \in pending /\ e \notin Undelivered)
        <3>1. Owed' = Owed
            BY <2>4, <2>6 DEF Owed
        <3>. QED  BY <2>3, <3>1 DEF Life!lifeVars
    <2>. QED  BY <2>5, <2>6
<1>5. ASSUME NEW w \in Workers, NEW s \in Slots, Reserve(w, s)
      PROVE  UNCHANGED Life!lifeVars
    BY <1>1, <1>5, DeliverOwed DEF Reserve, hash, effect, Life!lifeVars
<1>6. ASSUME LoopStep PROVE UNCHANGED Life!lifeVars
    BY <1>1, <1>6, LoopSteps DEF Undecided, Life!lifeVars
<1>7. ASSUME NEW w \in Workers, NEW s \in Slots,
             \/ \E e \in Entries : StartClaimed(w, s, e)
             \/ TaskStep(w, s) /\ ~SetTerminal(w, s) /\ ~XAck(w, s)
             \/ CommandFault(w, s) \/ Hang(w, s)
      PROVE  UNCHANGED Life!lifeVars
    <2>1. UNCHANGED <<sent, recorded, backlog, pending>>
        BY <1>7 DEF StartClaimed, TaskStep, CommandFault, Hang, ReadMeta,
             CheckCancel, IncrAttempts, SetProcessing, Work, WriteArtifacts,
             ConsumeQuota, PublishTerminal, ExpireEvents, Fail, DeadLetter,
             XDel, hash, queue, effect
    <2>. QED  BY <2>1 DEF Life!lifeVars, Owed, Undelivered
<1>. QED
    BY <1>2, <1>3, <1>4, <1>5, <1>6, <1>7
    DEF Next, LoopStep, TaskStep, Life!LifeNext

\* The queue and the workers keep the promise of JobLifecycle: a job is owed
\* from its acceptance until an outcome of it has been recorded.
THEOREM Refinement == Spec => AtLeastOnce
<1>1. Init => Life!LifeInit
    BY DEF Init, Life!LifeInit, Owed, Undelivered
<1>2. IndInv /\ [Next]_vars => [Life!LifeNext]_(Life!lifeVars)
    BY LifeStep
<1>. QED  BY <1>1, <1>2, Inductive, PTL DEF Spec, AtLeastOnce, Life!LifeSpec

----------------------------------------------------------------------------
(* The queue: where an entry can be                                         *)

\* Waiting entries are distinct and in nobody's hands; an entry leaves the
\* stream only after it has left both the backlog and the PEL.
QueueInv ==
    /\ IsFiniteSet(stream)
    /\ \A i, k \in 1..Len(backlog) : backlog[i] = backlog[k] => i = k
    /\ Undelivered \cap pending = {}
    /\ Owed \subseteq stream /\ stream \subseteq sent
    /\ \A w \in Workers : claimed[w] \cap Undelivered = {}
    /\ \A w \in Workers, s \in Slots :
          /\ task[w][s].pc # "idle" => task[w][s].entry \notin Undelivered
          /\ task[w][s].pc = "xdel" => task[w][s].entry \notin pending

\* A command of _run_job moves its own coroutine only, which keeps its entry
\* or ends; it reaches XDEL by way of XACK alone.
LEMMA TaskMoves ==
    ASSUME TypeOK, NEW w \in Workers, NEW s \in Slots,
           TaskStep(w, s) \/ CommandFault(w, s) \/ Hang(w, s)
    PROVE  /\ task[w][s].pc # "idle" /\ task[w][s] \in Task
           /\ Others(w, s)
           /\ \/ task'[w][s].pc = "idle"
              \/ task'[w][s].entry = task[w][s].entry
           /\ task'[w][s].pc = "xdel" => XAck(w, s)
<1>. USE DEF At
<1> DEFINE t == task[w][s]
<1>1. task \in TaskTable /\ inflight \in [Workers -> SUBSET Entries]
    BY DEF TypeOK
<1>2. t.pc # "idle"
    BY DEF TaskStep, ReadMeta, CheckCancel, IncrAttempts, SetProcessing, Work,
           WriteArtifacts, ConsumeQuota, SetTerminal, PublishTerminal,
           ExpireEvents, Fail, DeadLetter, XAck, XDel, CommandFault, Hang
<1>3. t \in Task
    BY <1>1, <1>2, ActiveTask
<1>4. /\ "COMPLETED" \in Terminal /\ "FAILED" \in Terminal /\ "CANCELLED" \in Terminal
      /\ t.perm \in BOOLEAN
      /\ {"flag", "incr", "work", "persist", "charge", "publish", "expire",
          "bury", "xack", "xdel", "hung"} \subseteq Pc
    BY <1>3 DEF Task, Terminal, Pc, ProcessPc, SettlePc, AckPc
<1> DEFINE Stays(pc) == /\ Others(w, s) /\ task'[w][s].entry = t.entry
                        /\ task'[w][s].pc = pc
<1>5. \A pc \in Pc : Goto(w, s, pc) => Stays(pc)
    BY <1>1, <1>2, GotoMoves DEF MovesTo
<1>6. \A out \in Terminal, perm \in BOOLEAN :
          Conclude(w, s, out, perm) => Stays("settle")
    BY <1>1, <1>2, ConcludeMoves DEF MovesTo
<1>7. \A perm \in BOOLEAN : Raise(w, s, perm) => Stays("fail")
    BY <1>1, <1>2, RaiseMoves DEF MovesTo
<1>8. Finish(w, s) => Others(w, s) /\ task'[w][s].pc = "idle"
    BY <1>1, FinishEnds DEF Ends, NoTask
<1> DEFINE Goal == /\ Others(w, s)
                   /\ task'[w][s].pc = "idle" \/ task'[w][s].entry = t.entry
                   /\ task'[w][s].pc = "xdel" => XAck(w, s)
<1>9. \A pc \in Pc \ {"xdel"} : Goto(w, s, pc) => Goal
    BY <1>5
<1>10. ReadMeta(w, s) => Goal
    BY <1>4, <1>7, <1>9 DEF ReadMeta
<1>11. CheckCancel(w, s) => Goal
    BY <1>4, <1>6, <1>9 DEF CheckCancel
<1>12. IncrAttempts(w, s) => Goal
    <2>. HAVE IncrAttempts(w, s)
    <2> DEFINE u(n) == [t EXCEPT !.pc = "start", !.att = attempts[t.job] + n]
    <2>1. PICK n \in 1..2 : task' = [task EXCEPT ![w][s] = u(n)]
        BY DEF IncrAttempts
    <2>2. attempts[t.job] + n \in Nat
        BY <1>3 DEF Task, TypeOK
    <2>3. u(n) \in Task /\ u(n).pc = "start" /\ u(n).entry = t.entry
        BY <1>3, <2>2 DEF Task, Pc, ProcessPc
    <2>. QED  BY <1>1, <2>1, <2>3, Update
<1>13. SetProcessing(w, s) => Goal
    <2>. HAVE SetProcessing(w, s)
    <2> DEFINE u == [t EXCEPT !.pc = "work", !.att = 0]
    <2>1. u \in Task /\ u.pc = "work" /\ u.entry = t.entry
        BY <1>3 DEF Task, Pc, ProcessPc
    <2>2. task' = [task EXCEPT ![w][s] = u]
        BY DEF SetProcessing
    <2>. QED  BY <1>1, <2>1, <2>2, Update
<1>14. Work(w, s) => Goal
    BY <1>4, <1>6, <1>7, <1>9 DEF Work
<1>15. WriteArtifacts(w, s) => Goal
    BY <1>4, <1>9 DEF WriteArtifacts
<1>16. ConsumeQuota(w, s) => Goal
    BY <1>4, <1>6 DEF ConsumeQuota
<1>17. SetTerminal(w, s) => Goal
    BY <1>4, <1>9 DEF SetTerminal
<1>18. PublishTerminal(w, s) => Goal
    BY <1>4, <1>9 DEF PublishTerminal
<1>19. ExpireEvents(w, s) => Goal
    BY <1>4, <1>9 DEF ExpireEvents
<1>20. Fail(w, s) => Goal
    BY <1>4, <1>6, <1>8 DEF Fail
<1>21. DeadLetter(w, s) => Goal
    BY <1>4, <1>9 DEF DeadLetter
<1>22. XAck(w, s) => Goal
    BY <1>4, <1>5 DEF XAck
<1>23. XDel(w, s) => Goal
    BY <1>8 DEF XDel
<1>24. CommandFault(w, s) => Goal
    BY <1>4, <1>6, <1>7, <1>8 DEF CommandFault
<1>25. Hang(w, s) => Goal
    BY <1>4, <1>9 DEF Hang
<1>. QED
    BY <1>2, <1>3, <1>10, <1>11, <1>12, <1>13, <1>14, <1>15, <1>16, <1>17,
       <1>18, <1>19, <1>20, <1>21, <1>22, <1>23, <1>24, <1>25 DEF TaskStep

\* Steps that append and deliver nothing.
LEMMA QueueKept ==
    ASSUME TypeOK, QueueInv, UNCHANGED <<sent, backlog>>,
           pending' \subseteq pending, stream' \subseteq stream, Owed' \subseteq stream',
           \A v \in Workers : claimed'[v] \subseteq claimed[v] \cup pending,
           \A v \in Workers, r \in Slots : task'[v][r].pc # "idle" =>
               /\ task'[v][r].entry \notin Undelivered
               /\ task'[v][r].pc = "xdel" => task'[v][r].entry \notin pending'
    PROVE  QueueInv'
<1>1. Undelivered' = Undelivered
    BY DEF Undelivered
<1>2. IsFiniteSet(stream)' /\ (stream \subseteq sent)'
    BY FS_Subset DEF QueueInv
<1>3. \A v \in Workers : claimed'[v] \cap Undelivered = {}
    BY DEF QueueInv
<1>. QED  BY <1>1, <1>2, <1>3 DEF QueueInv

\* XADD: the new entry has a fresh id, so nobody holds it.
LEMMA QueueAppends ==
    ASSUME IndInv, QueueInv, NEW e \in Entries, XAdd(e)
    PROVE  QueueInv'
<1>1. TypeOK /\ QueueIsAccepted
    BY DEF IndInv
<1>2. /\ backlog' = Append(backlog, e) /\ stream' = stream \cup {e}
      /\ sent' = sent \cup {e} /\ e \notin sent
      /\ pending' = pending /\ claimed' = claimed /\ task' = task
    BY DEF XAdd, proc
<1>3. /\ backlog \in Seq(Entries) /\ Len(backlog) \in Nat
      /\ Len(backlog') = Len(backlog) + 1 /\ backlog'[Len(backlog) + 1] = e
      /\ \A i \in 1..Len(backlog) : backlog'[i] = backlog[i]
    BY <1>1, <1>2 DEF TypeOK
<1>4. Undelivered' = Undelivered \cup {e}
    <2>1. \A i \in 1..Len(backlog') : i = Len(backlog) + 1 \/ i \in 1..Len(backlog)
        BY <1>3
    <2>2. /\ Len(backlog) + 1 \in 1..Len(backlog')
          /\ \A i \in 1..Len(backlog) : i \in 1..Len(backlog')
        BY <1>3
    <2>3. Undelivered' \subseteq Undelivered \cup {e}
        BY <1>3, <2>1 DEF Undelivered
    <2>4. Undelivered \cup {e} \subseteq Undelivered'
        BY <1>3, <2>2 DEF Undelivered
    <2>. QED  BY <2>3, <2>4
<1>5. Undelivered \subseteq sent /\ pending \subseteq sent
    BY <1>1 DEF QueueIsAccepted, Owed
<1>6. IsFiniteSet(stream')
    BY <1>2, FS_AddElement DEF QueueInv
<1>7. \A i, k \in 1..Len(backlog') : backlog'[i] = backlog'[k] => i = k
    <2>1. \A i \in 1..Len(backlog) : backlog[i] # e
        BY <1>2, <1>5 DEF Undelivered
    <2>. QED  BY <1>3, <2>1 DEF QueueInv
<1>8. (Undelivered \cap pending = {})'
    BY <1>2, <1>4, <1>5 DEF QueueInv
<1>9. Owed' \subseteq stream' /\ stream' \subseteq sent'
    BY <1>2, <1>4 DEF QueueInv, Owed
<1>10. \A w \in Workers : claimed'[w] \cap Undelivered' = {}
    BY <1>1, <1>2, <1>4 DEF QueueInv, QueueIsAccepted
<1>11. ASSUME NEW w \in Workers, NEW s \in Slots, task[w][s].pc # "idle"
       PROVE  task[w][s].entry \notin Undelivered'
    BY <1>2, <1>4, <1>11 DEF QueueInv, IndInv, TaskKnows
<1>. QED  BY <1>2, <1>6, <1>7, <1>8, <1>9, <1>10, <1>11 DEF QueueInv

\* XREADGROUP takes the oldest entry out of the backlog for good.
LEMMA DeliverTakes ==
    ASSUME TypeOK, QueueInv, Deliver
    PROVE  /\ Head(backlog) \in Undelivered
           /\ Undelivered' = Undelivered \ {Head(backlog)}
           /\ \A i, k \in 1..Len(backlog') : backlog'[i] = backlog'[k] => i = k
<1>1. /\ backlog \in Seq(Entries) /\ Len(backlog) \in Nat \ {0}
      /\ Len(backlog') = Len(backlog) - 1 /\ Head(backlog) = backlog[1]
      /\ \A i \in 1..Len(backlog') : backlog'[i] = backlog[i + 1]
    BY DEF TypeOK, Deliver
<1>2. 1 \in 1..Len(backlog) /\ Head(backlog) \in Undelivered
    BY <1>1 DEF Undelivered
<1>3. \A i \in 1..Len(backlog') : i + 1 \in 1..Len(backlog) /\ i + 1 # 1
    BY <1>1
<1>4. \A i \in 1..Len(backlog) :
          i = 1 \/ (i - 1 \in 1..Len(backlog') /\ backlog[i] = backlog'[i - 1])
    BY <1>1
<1>5. Undelivered' \subseteq Undelivered \ {Head(backlog)}
    BY <1>1, <1>2, <1>3 DEF Undelivered, QueueInv
<1>6. Undelivered \ {Head(backlog)} \subseteq Undelivered'
    BY <1>1, <1>4 DEF Undelivered
<1>7. \A i, k \in 1..Len(backlog') : backlog'[i] = backlog'[k] => i = k
    <2>. SUFFICES ASSUME NEW i \in 1..Len(backlog'), NEW k \in 1..Len(backlog'),
                         backlog'[i] = backlog'[k]
                  PROVE  i = k
        OBVIOUS
    <2>1. i + 1 = k + 1
        BY <1>1, <1>3 DEF QueueInv
    <2>. QED  BY <1>1, <2>1
<1>. QED  BY <1>2, <1>5, <1>6, <1>7

\* Steps that deliver an entry, to one coroutine or to nobody.
LEMMA QueueDelivers ==
    ASSUME TypeOK, QueueInv, Deliver, UNCHANGED <<sent, stream>>,
           \A v \in Workers : claimed'[v] \subseteq claimed[v],
           \A v \in Workers, r \in Slots :
               \/ task'[v][r] = task[v][r]
               \/ /\ task'[v][r].entry = Head(backlog)
                  /\ task'[v][r].pc # "xdel"
    PROVE  QueueInv'
<1>1. /\ Head(backlog) \in Undelivered
      /\ Undelivered' = Undelivered \ {Head(backlog)}
      /\ \A i, k \in 1..Len(backlog') : backlog'[i] = backlog'[k] => i = k
    BY DeliverTakes
<1>2. pending' = pending \cup {Head(backlog)} /\ Owed' = Owed
    BY DeliverOwed DEF Deliver
<1>3. Undelivered' \cap pending' = {}
    BY <1>1, <1>2 DEF QueueInv
<1>4. \A v \in Workers : claimed'[v] \cap Undelivered' = {}
    BY <1>1 DEF QueueInv
<1>5. ASSUME NEW v \in Workers, NEW r \in Slots
      PROVE  /\ task'[v][r].pc # "idle" => task'[v][r].entry \notin Undelivered'
             /\ task'[v][r].pc = "xdel" => task'[v][r].entry \notin pending'
    <2>1. CASE task'[v][r] = task[v][r]
        BY <1>1, <1>2, <2>1 DEF QueueInv
    <2>2. CASE task'[v][r].entry = Head(backlog) /\ task'[v][r].pc # "xdel"
        BY <1>1, <2>2
    <2>. QED  BY <2>1, <2>2
<1>. QED  BY <1>1, <1>2, <1>3, <1>4, <1>5 DEF QueueInv

\* The empty queue.
LEMMA QueueInit == ASSUME Init PROVE QueueInv
<1>1. Len(backlog) = 0 /\ Undelivered = {} /\ Owed = {}
    BY DEF Init, Undelivered, Owed
<1>. QED  BY <1>1, FS_EmptySet DEF Init, QueueInv, NoTask

\* Every step keeps the entries where they may be.
LEMMA QueueNext ==
    ASSUME IndInv, QueueInv, [Next]_vars
    PROVE  QueueInv'
<1>. TypeOK
    BY DEF IndInv
<1>1. ASSUME NEW e \in Entries, Enqueue(e) \/ EnqueueAgain(e) PROVE QueueInv'
    BY <1>1, QueueAppends DEF Enqueue, EnqueueAgain
<1>2. ASSUME NEW w \in Workers, NEW s \in Slots, Reserve(w, s) PROVE QueueInv'
    <2>1. /\ Deliver /\ Launch(w, s, Head(backlog)) /\ UNCHANGED <<sent, stream>>
          /\ \A v \in Workers : claimed'[v] \subseteq claimed[v]
        BY <1>2 DEF Reserve, hash, LeaveLoop, TypeOK
    <2>2. Others(w, s) /\ task'[w][s] = Fresh(Head(backlog))
        BY <2>1, DeliverType, LaunchStarts DEF TypeOK
    <2>3. /\ task'[w][s].entry = Head(backlog)
          /\ task'[w][s].pc # "xdel"
        BY <2>2 DEF Fresh
    <2>. QED  BY <2>1, <2>2, <2>3, QueueDelivers DEF Others
<1>3. ASSUME NEW w \in Workers, NEW s \in Slots, NEW e \in Entries,
             StartClaimed(w, s, e)
      PROVE  QueueInv'
    <2>1. /\ UNCHANGED <<sent, backlog, stream, pending>> /\ e \in claimed[w]
          /\ \A v \in Workers : claimed'[v] \subseteq claimed[v]
        BY <1>3 DEF StartClaimed, hash, queue, TypeOK
    <2>2. Others(w, s) /\ task'[w][s] = Fresh(e)
        BY <1>3, LaunchStarts DEF StartClaimed, TypeOK
    <2>3. /\ task'[w][s].entry = e /\ e \notin Undelivered
          /\ task'[w][s].pc # "xdel"
        BY <2>1, <2>2 DEF Fresh, QueueInv
    <2>4. Owed' = Owed
        BY <2>1 DEF Owed, Undelivered
    <2>. QED  BY <2>1, <2>2, <2>3, <2>4, QueueKept DEF Others, QueueInv
<1>4. ASSUME NEW w \in Workers, NEW s \in Slots,
             TaskStep(w, s) \/ CommandFault(w, s) \/ Hang(w, s)
      PROVE  QueueInv'
    <2> DEFINE t == task[w][s]
    <2>1. /\ t.pc # "idle" /\ Others(w, s)
          /\ task'[w][s].pc = "idle" \/ task'[w][s].entry = t.entry
          /\ task'[w][s].pc = "xdel" => XAck(w, s)
        BY <1>4, TaskMoves
    <2>2. /\ UNCHANGED <<sent, backlog, claimed>>
          /\ pending' = pending \/ XAck(w, s)
          /\ stream' = stream \/ (At(w, s, "xdel") /\ stream' = stream \ {t.entry})
        BY <1>4 DEF TaskStep, ReadMeta, CheckCancel, IncrAttempts,
           SetProcessing, Work, WriteArtifacts, ConsumeQuota, SetTerminal,
           PublishTerminal, ExpireEvents, Fail, DeadLetter, XAck, XDel,
           CommandFault, Hang, At, hash, queue, effect, proc
    <2>3. XAck(w, s) => pending' = pending \ {t.entry}
        BY DEF XAck
    <2>4. Undelivered' = Undelivered /\ Owed' \subseteq Owed
        BY <2>2, <2>3 DEF Undelivered, Owed
    <2>5. Owed' \subseteq stream'
        BY <2>2, <2>3, <2>4 DEF QueueInv, At, Owed
    <2>6. ASSUME NEW v \in Workers, NEW r \in Slots, task'[v][r].pc # "idle"
          PROVE  /\ task'[v][r].entry \notin Undelivered
                 /\ task'[v][r].pc = "xdel" => task'[v][r].entry \notin pending'
        <3>1. CASE v = w /\ r = s
            BY <2>1, <2>3, <2>6, <3>1 DEF QueueInv
        <3>2. CASE ~(v = w /\ r = s)
            BY <2>1, <2>2, <2>3, <2>6, <3>2 DEF Others, QueueInv
        <3>. QED  BY <3>1, <3>2
    <2>. QED  BY <2>2, <2>3, <2>5, <2>6, QueueKept
<1>5. ASSUME LoopStep PROVE QueueInv'
    <2>1. /\ sent' = sent /\ Owed' = Owed
          /\ \A v \in Workers, r \in Slots :
                task'[v][r] = task[v][r] \/ task'[v][r].pc = "idle"
        BY <1>5, LoopSteps
    <2>2. stream' = stream
        BY <1>5 DEF LoopStep, SubmitStatus, RequestCancel, Age, GoStale, MissBeats,
           ExpireCancel, ExpireHash, ReserveFault, ReserveRepeated, Reclaim,
           ReclaimFault, Heartbeat, RequestStop, BeginDrain, Stopped, Crash,
           Restart, ReadLength, ReadGroups, queue, vars
    <2>3. CASE UNCHANGED <<backlog, pending>>
        <3>1. \A v \in Workers : claimed'[v] \subseteq claimed[v] \cup pending
            BY <1>5 DEF LoopStep, TypeOK, SubmitStatus, RequestCancel, Age, GoStale,
               MissBeats, ExpireCancel, ExpireHash, ReserveFault,
               ReserveRepeated, Reclaim, ReclaimFault, Heartbeat, RequestStop,
               BeginDrain, Stopped, Crash, Restart, ReadLength, ReadGroups, LeaveLoop, proc, vars
        <3>. QED  BY <2>1, <2>2, <2>3, <3>1, QueueKept DEF QueueInv
    <2>4. CASE ~UNCHANGED <<backlog, pending>>
        <3>1. PICK w \in Workers : ReserveFault(w) \/ ReserveRepeated(w)
            BY <1>5, <2>4 DEF LoopStep, SubmitStatus, RequestCancel, Age, GoStale,
               MissBeats, ExpireCancel, ExpireHash, Reclaim, ReclaimFault,
               Heartbeat, RequestStop, BeginDrain, Stopped, Crash, Restart, ReadLength, ReadGroups,
               queue, vars
        <3>2. Deliver /\ task' = task
            BY <2>4, <3>1 DEF ReserveFault, ReserveRepeated
        <3>3. \A v \in Workers : claimed'[v] \subseteq claimed[v]
            BY <3>1 DEF ReserveFault, ReserveRepeated, LeaveLoop, TypeOK, proc
        <3>. QED  BY <2>1, <2>2, <3>2, <3>3, QueueDelivers
    <2>. QED  BY <2>3, <2>4
<1>. QED  BY <1>1, <1>2, <1>3, <1>4, <1>5 DEF Next, LoopStep

\* The queue's bookkeeping is right in every reachable state.
LEMMA QueueInductive == Spec => []QueueInv
<1>1. IndInv /\ QueueInv /\ [Next]_vars => QueueInv'
    BY QueueNext
<1>. QED  BY <1>1, QueueInit, Inductive, PTL DEF Spec

\* stats() between its two commands: once XLEN was read, what was counted is a
\* first part of what still waits; and while any of that waits, every pending
\* entry was counted too, for the group delivers in order.
CountInv ==
    /\ IsFiniteSet(counted) /\ counted \subseteq sent
    /\ \A i, k \in 1..Len(backlog) :
          i < k /\ backlog[k] \in counted => backlog[i] \in counted
    /\ counted \cap Undelivered # {} => pending \subseteq counted

\* Steps that leave the backlog and the count alone.
LEMMA CountKept ==
    ASSUME CountInv, UNCHANGED <<backlog, counted>>, pending' \subseteq pending,
           sent' = sent
    PROVE  CountInv'
<1>1. Undelivered' = Undelivered
    BY DEF Undelivered
<1>. QED  BY <1>1 DEF CountInv

\* What is enqueued after XLEN was read was not counted.
LEMMA CountAppends ==
    ASSUME TypeOK, CountInv, NEW e \in Entries, XAdd(e)
    PROVE  CountInv'
<1>1. /\ backlog' = Append(backlog, e) /\ e \notin sent /\ sent' = sent \cup {e}
      /\ UNCHANGED <<pending, counted>>
    BY DEF XAdd, watch
<1>2. /\ Len(backlog) \in Nat
      /\ Len(backlog') = Len(backlog) + 1 /\ backlog'[Len(backlog) + 1] = e
      /\ \A i \in 1..Len(backlog) : backlog'[i] = backlog[i]
    BY <1>1 DEF TypeOK
<1>3. e \notin counted
    BY <1>1 DEF CountInv
<1>4. \A i \in 1..Len(backlog') : i = Len(backlog) + 1 \/ i \in 1..Len(backlog)
    BY <1>2
<1>5. counted \cap Undelivered' \subseteq counted \cap Undelivered
    BY <1>2, <1>3, <1>4 DEF Undelivered
<1>6. ASSUME NEW i \in 1..Len(backlog'), NEW k \in 1..Len(backlog'),
             i < k, backlog'[k] \in counted
      PROVE  backlog'[i] \in counted
    <2>1. k \in 1..Len(backlog)
        BY <1>2, <1>3, <1>4, <1>6
    <2>2. i \in 1..Len(backlog)
        BY <1>2, <1>6, <2>1
    <2>. QED  BY <1>2, <1>6, <2>1, <2>2 DEF CountInv
<1>. QED  BY <1>1, <1>5, <1>6 DEF CountInv

\* XREADGROUP takes the first of what waits: if any that was counted stays, the
\* one it takes was counted.
LEMMA CountDelivers ==
    ASSUME TypeOK, CountInv, Deliver, UNCHANGED <<sent, counted>>
    PROVE  CountInv'
<1>1. /\ backlog \in Seq(Entries) /\ Len(backlog) \in Nat \ {0}
      /\ Len(backlog') = Len(backlog) - 1 /\ Head(backlog) = backlog[1]
      /\ \A i \in 1..Len(backlog') : backlog'[i] = backlog[i + 1]
      /\ pending' = pending \cup {Head(backlog)}
    BY DEF TypeOK, Deliver
<1>2. \A i \in 1..Len(backlog') : i + 1 \in 1..Len(backlog) /\ 1 < i + 1
    BY <1>1
<1>3. ASSUME NEW i \in 1..Len(backlog'), NEW k \in 1..Len(backlog'),
             i < k, backlog'[k] \in counted
      PROVE  backlog'[i] \in counted
    <2>1. i + 1 < k + 1 /\ backlog[k + 1] \in counted
        BY <1>1, <1>3
    <2>2. backlog[i + 1] \in counted
        BY <1>2, <2>1 DEF CountInv
    <2>. QED  BY <1>1, <2>2
<1>4. ASSUME NEW k \in 1..Len(backlog'), backlog'[k] \in counted
      PROVE  pending' \subseteq counted
    <2>1. backlog[k + 1] \in counted /\ 1 \in 1..Len(backlog)
        BY <1>1, <1>4
    <2>2. backlog[1] \in counted
        BY <1>2, <2>1 DEF CountInv
    <2>3. counted \cap Undelivered # {}
        BY <2>1, <2>2 DEF Undelivered
    <2>. QED  BY <1>1, <2>2, <2>3 DEF CountInv
<1>5. counted \cap Undelivered' # {} => pending' \subseteq counted
    BY <1>4 DEF Undelivered
<1>. QED  BY <1>3, <1>5 DEF CountInv

\* Every step keeps what stats() has counted so far meaningful.
LEMMA CountNext ==
    ASSUME IndInv, QueueInv, CountInv, [Next]_vars
    PROVE  CountInv'
<1>. TypeOK
    BY DEF IndInv
<1>1. ASSUME NEW e \in Entries, Enqueue(e) \/ EnqueueAgain(e) PROVE CountInv'
    BY <1>1, CountAppends DEF Enqueue, EnqueueAgain
<1>2. ASSUME NEW w \in Workers, NEW s \in Slots, Reserve(w, s) PROVE CountInv'
    BY <1>2, CountDelivers DEF Reserve, hash, watch
<1>3. ASSUME NEW w \in Workers, NEW s \in Slots,
             \/ \E e \in Entries : StartClaimed(w, s, e)
             \/ TaskStep(w, s) \/ CommandFault(w, s) \/ Hang(w, s)
      PROVE  CountInv'
    <2>1. UNCHANGED <<sent, backlog, counted>> /\ pending' \subseteq pending
        BY <1>3 DEF StartClaimed, TaskStep, CommandFault, Hang, ReadMeta,
           CheckCancel, IncrAttempts, SetProcessing, Work, WriteArtifacts,
           ConsumeQuota, SetTerminal, PublishTerminal, ExpireEvents, Fail,
           DeadLetter, XAck, XDel, hash, queue, effect, watch
    <2>. QED  BY <2>1, CountKept
<1>4. ASSUME ReadLength PROVE CountInv'
    <2>1. counted' = stream /\ UNCHANGED <<sent, backlog, pending>>
        BY <1>4 DEF ReadLength, hash, queue
    <2>2. Undelivered' \subseteq stream /\ \A i \in 1..Len(backlog) : backlog[i] \in stream
        BY <2>1 DEF QueueInv, Owed, Undelivered
    <2>3. IsFiniteSet(stream) /\ stream \subseteq sent /\ pending \subseteq stream
        BY DEF QueueInv, Owed
    <2>. QED  BY <2>1, <2>2, <2>3 DEF CountInv
<1>5. ASSUME ReadGroups PROVE CountInv'
    <2>1. counted' = {}
        BY <1>5 DEF ReadGroups
    <2>. QED  BY <2>1, FS_EmptySet DEF CountInv
<1>6. ASSUME LoopStep, ~ReadLength, ~ReadGroups PROVE CountInv'
    <2>1. sent' = sent /\ counted' = counted
        BY <1>6, LoopSteps DEF LoopStep, SubmitStatus, RequestCancel, Age, GoStale,
           MissBeats, ExpireCancel, ExpireHash, ReserveFault, ReserveRepeated,
           Reclaim, ReclaimFault, Heartbeat, RequestStop, BeginDrain, Stopped,
           Crash, Restart, watch, vars
    <2>2. CASE Deliver
        BY <2>1, <2>2, CountDelivers
    <2>3. CASE ~Deliver
        <3>1. UNCHANGED <<backlog, pending>>
            BY <1>6, <2>3 DEF LoopStep, SubmitStatus, RequestCancel, Age, GoStale,
               MissBeats, ExpireCancel, ExpireHash, ReserveFault,
               ReserveRepeated, Reclaim, ReclaimFault, Heartbeat, RequestStop,
               BeginDrain, Stopped, Crash, Restart, queue, vars
        <3>. QED  BY <2>1, <3>1, CountKept
    <2>. QED  BY <2>2, <2>3
<1>. QED  BY <1>1, <1>2, <1>3, <1>4, <1>5, <1>6 DEF Next, LoopStep

\* What stats() has counted is meaningful in every reachable state.
LEMMA CountInductive == Spec => []CountInv
<1>1. IndInv /\ QueueInv /\ CountInv /\ [Next]_vars => CountInv'
    BY CountNext
<1>2. Init => CountInv
    <2>1. ASSUME Init PROVE Undelivered = {} /\ counted = {} /\ Len(backlog) = 0
        BY <2>1 DEF Init, Undelivered
    <2>. QED  BY <2>1, FS_EmptySet DEF CountInv
<1>. QED  BY <1>1, <1>2, Inductive, QueueInductive, PTL DEF Spec

\* What waits since XLEN was read and what is pending now were counted apart.
LEMMA DepthCounts ==
    ASSUME QueueInv, CountInv
    PROVE  DepthNeverHides
<1> DEFINE waits == counted \cap Undelivered
<1>1. IsFiniteSet(counted) /\ Cardinality(counted) \in Nat
    BY FS_CardinalityType DEF CountInv
<1>2. CASE waits = {}
    <2>1. Cardinality(waits) = 0
        BY <1>2, FS_EmptySet
    <2>2. CASE Cardinality(counted) > Cardinality(pending)
        <3>1. pending \subseteq stream /\ IsFiniteSet(stream)
            BY DEF QueueInv, Owed
        <3>2. Cardinality(pending) \in Nat
            BY <3>1, FS_Subset, FS_CardinalityType
        <3>. QED  BY <1>1, <2>1, <2>2, <3>2 DEF Depth, DepthNeverHides
    <2>3. CASE ~(Cardinality(counted) > Cardinality(pending))
        BY <2>1, <2>3 DEF Depth, DepthNeverHides
    <2>. QED  BY <2>2, <2>3
<1>3. CASE waits # {}
    <2>1. pending \subseteq counted /\ waits \subseteq counted /\ waits \cap pending = {}
        BY <1>3 DEF CountInv, QueueInv
    <2>2. /\ IsFiniteSet(pending) /\ Cardinality(pending) \in Nat
          /\ IsFiniteSet(waits) /\ Cardinality(waits) \in Nat
        BY <1>1, <2>1, FS_Subset, FS_CardinalityType
    <2>3. Cardinality(waits \cup pending) <= Cardinality(counted)
        BY <1>1, <2>1, FS_Subset
    <2>4. Cardinality(waits \cup pending) = Cardinality(waits) + Cardinality(pending)
        <3>1. Cardinality(waits \cup pending) =
                  Cardinality(waits) + Cardinality(pending) - Cardinality(waits \cap pending)
            BY <2>2, FS_Union
        <3>2. Cardinality(waits \cap pending) = 0
            BY <2>1, FS_EmptySet
        <3>. QED  BY <2>2, <3>1, <3>2
    <2>. QED  BY <1>1, <2>2, <2>3, <2>4 DEF Depth, DepthNeverHides
<1>. QED  BY <1>2, <1>3

\* stats(): whatever is delivered, acknowledged, enqueued, repeated or lost
\* between its two commands, the depth it returns is at least the number of the
\* jobs that wait all the while.
THEOREM DepthIsHonest == Spec => []DepthNeverHides
<1>1. QueueInv /\ CountInv => DepthNeverHides
    BY DepthCounts
<1>. QED  BY <1>1, QueueInductive, CountInductive, PTL

----------------------------------------------------------------------------
(* One coroutine per job that was never overdue, as long as nothing worse  *)
(* happens than workers being killed and keys expiring.                    *)

KillsOnly == Troubles \subseteq {"crash", "expiry"}

\* An accepted job has one queue entry: no XADD was repeated.
OneEntryEach == \A e, f \in sent : JobOf[e] = JobOf[f] => e = f

\* The coroutine with permit s of worker w is about entry e.
RunBy(e, w, s) == task[w][s].pc # "idle" /\ task[w][s].entry = e

\* A dead worker holds nothing.  An entry that never was overdue is held by one
\* reclaim loop or run by one coroutine, and has not gone stale in its hands.
OneHolder ==
    /\ \A w \in Workers : /\ mode[w] \in {"running", "down"}
                          /\ mode[w] = "down" => claimed[w] = {} /\ Free(w) = Slots
    /\ \A e \in Entries \ overdue, w \in Workers : e \in claimed[w] =>
          /\ e \in pending \ stale
          /\ \A v \in Workers : e \in claimed[v] => v = w
    /\ \A e \in Entries \ overdue, w \in Workers, s \in Slots : RunBy(e, w, s) =>
          /\ e \in inflight[w] \ stale
          /\ \A v \in Workers : e \notin claimed[v]
          /\ \A v \in Workers, r \in Slots : RunBy(e, v, r) => v = w /\ r = s

\* What cannot happen then.
LEMMA NoOtherTrouble ==
    ASSUME KillsOnly
    PROVE  /\ \A n : Executed(n) => n = 1 /\ UNCHANGED troubles
           /\ \A e \in Entries : ~EnqueueAgain(e) /\ ~MissBeats(e)
           /\ \A w \in Workers : /\ ~ReserveFault(w) /\ ~ReserveRepeated(w)
                                 /\ ~ReclaimFault(w) /\ ~RequestStop(w)
           /\ \A w \in Workers, s \in Slots : ~CommandFault(w, s) /\ ~Hang(w, s)
BY DEF KillsOnly, Trouble, Executed, EnqueueAgain, MissBeats, ReserveFault,
       ReserveRepeated, ReclaimFault, RequestStop, CommandFault, Hang

\* A job is enqueued once.
LEMMA EntriesNext ==
    ASSUME KillsOnly, IndInv, OneEntryEach, [Next]_vars
    PROVE  OneEntryEach'
<1>1. CASE sent' = sent
    BY <1>1 DEF OneEntryEach
<1>2. ASSUME NEW e \in Entries, Enqueue(e) PROVE OneEntryEach'
    <2>1. sent' = sent \cup {e} /\ JobOf[e] \notin {JobOf[f] : f \in sent}
        BY <1>2 DEF Enqueue, XAdd, accepted
    <2>. QED  BY <2>1 DEF OneEntryEach
<1>3. ASSUME NEW w \in Workers, NEW s \in Slots,
             \/ Reserve(w, s) \/ TaskStep(w, s)
             \/ \E e \in Entries : StartClaimed(w, s, e)
      PROVE  sent' = sent
    BY <1>3 DEF Reserve, StartClaimed, TaskStep, ReadMeta, CheckCancel,
       IncrAttempts, SetProcessing, Work, WriteArtifacts, ConsumeQuota,
       SetTerminal, PublishTerminal, ExpireEvents, Fail, DeadLetter, XAck,
       XDel, hash
<1>4. LoopStep => sent' = sent
    BY LoopSteps DEF IndInv
<1>. QED  BY <1>1, <1>2, <1>3, <1>4, NoOtherTrouble DEF Next, LoopStep

\* Steps that take no entry into new hands.
LEMMA HoldersKept ==
    ASSUME TypeOK, OneHolder, mode' \in [Workers -> {"running", "down"}],
           overdue \subseteq overdue',
           \A v \in Workers :
               /\ claimed'[v] \subseteq claimed[v]
               /\ claimed'[v] \ overdue' \subseteq pending' \ stale',
           \A v \in Workers, r \in Slots :
               \/ task'[v][r].pc = "idle"
               \/ /\ task[v][r].pc # "idle" /\ task'[v][r].entry = task[v][r].entry
                  /\ \/ task[v][r].entry \in overdue'
                     \/ task[v][r].entry \in inflight'[v] \ stale',
           \A v \in Workers : mode'[v] = "down" =>
               /\ claimed'[v] = {}
               /\ \A r \in Slots : task'[v][r].pc = "idle"
    PROVE  OneHolder'
<1>1. \A e \in Entries \ overdue', v \in Workers, r \in Slots :
          RunBy(e, v, r)' => RunBy(e, v, r) /\ e \in inflight'[v] \ stale'
    BY DEF RunBy
<1>2. \A v \in Workers : mode'[v] = "down" => Free(v)' = Slots
    BY DEF Free
<1>3. \A v \in Workers : mode'[v] \in {"running", "down"}
    OBVIOUS
<1>4. ASSUME NEW e \in Entries \ overdue', NEW w \in Workers, e \in claimed'[w]
      PROVE  /\ e \in pending' \ stale'
             /\ \A v \in Workers : e \in claimed'[v] => v = w
    <2>1. e \in Entries \ overdue /\ e \in claimed[w]
        BY <1>4
    <2>. QED  BY <1>4, <2>1 DEF OneHolder
<1>5. ASSUME NEW e \in Entries \ overdue', NEW w \in Workers, NEW s \in Slots,
             RunBy(e, w, s)'
      PROVE  /\ e \in inflight'[w] \ stale'
             /\ \A v \in Workers : e \notin claimed'[v]
             /\ \A v \in Workers, r \in Slots : RunBy(e, v, r)' => v = w /\ r = s
    <2>1. e \in Entries \ overdue /\ RunBy(e, w, s)
        BY <1>1, <1>5
    <2>. QED  BY <1>1, <1>5, <2>1 DEF OneHolder
<1>. QED  BY <1>2, <1>3, <1>4, <1>5 DEF OneHolder

\* A running worker starts a coroutine on an entry that was overdue, or that
\* nobody runs and no reclaim loop is left with.
LEMMA HoldersLaunch ==
    ASSUME TypeOK, OneHolder, NEW w \in Workers, NEW s \in Slots, NEW e \in Entries,
           Launch(w, s, e), mode[w] = "running", mode' = mode, stale' = stale,
           overdue' = overdue, pending \subseteq pending',
           \A v \in Workers : claimed'[v] \subseteq claimed[v],
           e \notin overdue =>
               /\ e \notin stale
               /\ \A v \in Workers : e \notin claimed'[v]
               /\ \A v \in Workers, r \in Slots : ~RunBy(e, v, r)
    PROVE  OneHolder'
<1>1. Others(w, s) /\ task'[w][s].pc = "meta" /\ task'[w][s].entry = e
    <2>1. Others(w, s) /\ task'[w][s] = Fresh(e)
        BY LaunchStarts DEF TypeOK
    <2>. QED  BY <2>1 DEF Fresh
<1>2. \A v \in Workers : inflight'[v] = inflight[v] \cup IF v = w THEN {e} ELSE {}
    BY DEF Launch, TypeOK
<1>3. \A f \in Entries, v \in Workers, r \in Slots :
          RunBy(f, v, r)' => (f = e /\ v = w /\ r = s) \/ RunBy(f, v, r)
    BY <1>1 DEF RunBy, Others
<1>4. \A v \in Workers : mode'[v] = "down" => claimed'[v] = {} /\ Free(v)' = Slots
    BY <1>1 DEF OneHolder, Others, Free
<1>5. ASSUME NEW f \in Entries \ overdue, NEW v \in Workers, NEW r \in Slots,
             RunBy(f, v, r)'
      PROVE  /\ f \in inflight'[v] \ stale'
             /\ \A u \in Workers : f \notin claimed'[u]
             /\ \A u \in Workers, q \in Slots : RunBy(f, u, q)' => u = v /\ q = r
    <2>1. CASE f = e
        <3>1. v = w /\ r = s
            BY <1>3, <1>5, <2>1
        <3>. QED  BY <1>2, <1>3, <2>1, <3>1
    <2>2. CASE f # e
        <3>1. RunBy(f, v, r)
            BY <1>3, <1>5, <2>2
        <3>. QED  BY <1>2, <1>3, <2>2, <3>1 DEF OneHolder
    <2>. QED  BY <2>1, <2>2
<1>6. \A v \in Workers : mode'[v] \in {"running", "down"}
    BY DEF OneHolder
<1>7. ASSUME NEW f \in Entries \ overdue, NEW v \in Workers, f \in claimed'[v]
      PROVE  /\ f \in pending' \ stale'
             /\ \A u \in Workers : f \in claimed'[u] => u = v
    <2>1. f \in claimed[v]
        BY <1>7
    <2>. QED  BY <1>7, <2>1 DEF OneHolder
<1>. QED  BY <1>4, <1>5, <1>6, <1>7 DEF OneHolder

\* Nobody holds anything at the start.
LEMMA HoldersInit == ASSUME Init PROVE OneEntryEach /\ OneHolder
BY DEF Init, OneEntryEach, OneHolder, RunBy, NoTask

\* Every command of _run_job keeps its hold on the entry until it ends, and
\* the heartbeat keeps renewing the entries of the others.
LEMMA HoldersTask ==
    ASSUME KillsOnly, TypeOK, OneHolder, NEW w \in Workers, NEW s \in Slots,
           TaskStep(w, s)
    PROVE  OneHolder'
<1> DEFINE t == task[w][s]
<1>1. /\ t.pc # "idle" /\ t \in Task /\ Others(w, s)
      /\ task'[w][s].pc = "idle" \/ task'[w][s].entry = t.entry
    BY TaskMoves
<1>2. RunBy(t.entry, w, s) /\ t.entry \in Entries
    BY <1>1 DEF RunBy, Task
<1>3. /\ mode' = mode /\ claimed' = claimed /\ overdue' = overdue
      /\ \/ pending' = pending /\ stale' = stale
         \/ pending' = pending \ {t.entry} /\ stale' = stale \ {t.entry}
      /\ inflight' = inflight \/ Finish(w, s)
    BY DEF TaskStep, ReadMeta, CheckCancel, IncrAttempts, SetProcessing, Work,
           WriteArtifacts, ConsumeQuota, SetTerminal, PublishTerminal,
           ExpireEvents, Fail, DeadLetter, XAck, XDel, queue, effect, proc, watch
<1>4. mode \in [Workers -> {"running", "down"}]
    BY DEF TypeOK, OneHolder
<1>5. \A v \in Workers : claimed'[v] \ overdue \subseteq pending' \ stale'
    <2>. SUFFICES ASSUME NEW v \in Workers, NEW e \in claimed[v] \ overdue
                  PROVE  e \in pending' \ stale'
        BY <1>3
    <2>1. e \in Entries \ overdue
        BY DEF TypeOK
    <2>2. e \in pending \ stale /\ e # t.entry
        BY <1>2, <2>1 DEF OneHolder
    <2>. QED  BY <1>3, <2>2
<1>6. ASSUME NEW v \in Workers, NEW r \in Slots, task'[v][r].pc # "idle"
      PROVE  /\ task[v][r].pc # "idle" /\ task'[v][r].entry = task[v][r].entry
             /\ \/ task[v][r].entry \in overdue
                \/ task[v][r].entry \in inflight'[v] \ stale'
    <2>1. task[v][r].pc # "idle" /\ task'[v][r].entry = task[v][r].entry
        BY <1>1, <1>6 DEF Others
    <2>. SUFFICES ASSUME task[v][r].entry \notin overdue
                  PROVE  task[v][r].entry \in inflight'[v] \ stale'
        BY <2>1
    <2>2. task[v][r].entry \in Entries \ overdue
        BY <2>1, ActiveTask DEF TypeOK, Task
    <2>3. task[v][r].entry \in inflight[v] \ stale
        BY <2>1, <2>2 DEF OneHolder, RunBy
    <2>4. CASE inflight' = inflight
        BY <1>3, <2>1, <2>3, <2>4
    <2>5. CASE Finish(w, s)
        <3>1. task'[w][s].pc = "idle" /\ inflight' = [inflight EXCEPT ![w] = @ \ {t.entry}]
            <4>1. Ends(w, s)
                BY <2>5, FinishEnds DEF TypeOK
            <4>. QED  BY <2>5, <4>1 DEF Finish, Ends, NoTask
        <3>2. v # w \/ r # s
            BY <1>6, <3>1
        <3>3. v = w => task[v][r].entry # t.entry
            BY <1>2, <2>1, <2>2, <3>2 DEF OneHolder, RunBy
        <3>4. task[v][r].entry \in inflight'[v]
            BY <2>3, <3>1, <3>3 DEF TypeOK
        <3>. QED  BY <1>3, <2>1, <2>3, <3>4
    <2>. QED  BY <1>3, <2>4, <2>5
<1>7. \A v \in Workers : mode'[v] = "down" =>
          /\ claimed'[v] = {}
          /\ \A r \in Slots : task'[v][r].pc = "idle"
    BY <1>3, <1>6 DEF OneHolder, Free
<1>. QED  BY <1>3, <1>4, <1>5, <1>6, <1>7, HoldersKept

\* Idle time, the loops and kills put no entry into a second pair of hands.
LEMMA HoldersLoop ==
    ASSUME KillsOnly, TypeOK, OneHolder, LoopStep
    PROVE  OneHolder'
<1>1. mode \in [Workers -> {"running", "down"}]
    BY DEF TypeOK, OneHolder
<1>2. ASSUME NEW v \in Workers, NEW r \in Slots, task[v][r].pc # "idle"
      PROVE  /\ task[v][r].entry \in Entries
             /\ mode[v] = "running"
             /\ task[v][r].entry \notin overdue =>
                   /\ task[v][r].entry \in inflight[v] \ stale
                   /\ \A u \in Workers : task[v][r].entry \notin claimed[u]
    <2>1. task[v][r].entry \in Entries
        BY <1>2, ActiveTask DEF TypeOK, Task
    <2>. QED  BY <1>2, <2>1 DEF OneHolder, RunBy, Free
<1>3. \A v \in Workers : mode[v] = "down" =>
          claimed[v] = {} /\ \A r \in Slots : task[v][r].pc = "idle"
    BY DEF OneHolder, Free
<1>0. \A v \in Workers : claimed[v] \ overdue \subseteq pending \ stale
    BY DEF OneHolder, TypeOK
<1>4. CASE /\ UNCHANGED <<mode, claimed, pending, inflight, task, overdue>>
           /\ stale' \subseteq stale
    BY <1>0, <1>1, <1>2, <1>3, <1>4, HoldersKept
<1>5. ASSUME NEW e \in Entries, GoStale(e) PROVE OneHolder'
    <2>1. /\ UNCHANGED <<mode, claimed, pending, inflight, task>>
          /\ stale' = stale \cup {e} /\ ~Held(e) /\ overdue \subseteq overdue'
          /\ (\E w \in Workers : e \in claimed[w]) => e \in overdue'
        BY <1>5 DEF GoStale, Age, proc
    <2>2. ASSUME NEW v \in Workers, NEW r \in Slots, task[v][r].pc # "idle",
                 task[v][r].entry \notin overdue
          PROVE  task[v][r].entry # e
        BY <1>2, <2>1, <2>2 DEF Held, Housekeeping
    <2>3. \A v \in Workers : claimed'[v] \ overdue' \subseteq pending' \ stale'
        BY <1>0, <2>1
    <2>4. ASSUME NEW v \in Workers, NEW r \in Slots, task[v][r].pc # "idle"
          PROVE  \/ task[v][r].entry \in overdue'
                 \/ task[v][r].entry \in inflight'[v] \ stale'
        BY <1>2, <2>1, <2>2, <2>4
    <2>. QED  BY <1>1, <1>3, <2>1, <2>3, <2>4, HoldersKept
<1>6. ASSUME NEW w \in Workers, Reclaim(w) PROVE OneHolder'
    <2>1. /\ UNCHANGED <<mode, pending, inflight, task, overdue>> /\ stale' = {}
          /\ mode[w] = "running"
          /\ \A v \in Workers : claimed'[v] = IF v = w THEN stale ELSE claimed[v]
        BY <1>6 DEF Reclaim, watch, TypeOK
    <2>2. \A e \in Entries, v \in Workers, r \in Slots : RunBy(e, v, r)' = RunBy(e, v, r)
        BY <2>1 DEF RunBy
    <2>3. /\ Free(w)' = Free(w)
          /\ \A v \in Workers : Free(v)' = Free(v)
        BY <2>1 DEF Free
    <2>4. ASSUME NEW e \in Entries \ overdue, NEW v \in Workers, e \in claimed'[v]
          PROVE  /\ e \in pending' \ stale'
                 /\ \A u \in Workers : e \in claimed'[u] => u = v
        BY <2>1, <2>4 DEF OneHolder, TypeOK
    <2>5. \A v \in Workers : /\ mode'[v] \in {"running", "down"}
                             /\ mode'[v] = "down" => claimed'[v] = {} /\ Free(v)' = Slots
        BY <2>1, <2>3 DEF OneHolder
    <2>6. ASSUME NEW e \in Entries \ overdue, NEW v \in Workers, NEW r \in Slots,
                 RunBy(e, v, r)
          PROVE  /\ e \in inflight'[v] \ stale'
                 /\ \A u \in Workers : e \notin claimed'[u]
                 /\ \A u \in Workers, q \in Slots : RunBy(e, u, q) => u = v /\ q = r
        BY <2>1, <2>6 DEF OneHolder
    <2>. QED  BY <2>1, <2>2, <2>4, <2>5, <2>6 DEF OneHolder
<1>7. ASSUME NEW w \in Workers, Crash(w) PROVE OneHolder'
    <2>1. /\ UNCHANGED <<pending, stale, overdue>>
          /\ mode' = [mode EXCEPT ![w] = "down"]
          /\ \A v \in Workers : claimed'[v] = IF v = w THEN {} ELSE claimed[v]
          /\ \A v \in Workers : v # w => inflight'[v] = inflight[v]
        BY <1>7 DEF Crash, queue, watch, TypeOK
    <2>2. \A v \in Workers, r \in Slots :
              task'[v][r] = IF v = w THEN NoTask ELSE task[v][r]
        BY <1>7 DEF Crash, TypeOK, TaskTable
    <2>3. \A r \in Slots : task'[w][r].pc = "idle"
        BY <2>2 DEF NoTask
    <2>4. mode' \in [Workers -> {"running", "down"}]
        BY <1>1, <2>1
    <2>5. \A v \in Workers : /\ claimed'[v] \subseteq claimed[v]
                             /\ claimed'[v] \ overdue' \subseteq pending' \ stale'
        BY <1>0, <2>1
    <2>6. \A v \in Workers : v # w => mode'[v] = mode[v]
        BY <1>1, <2>1
    <2>7. \A v \in Workers : mode'[v] = "down" =>
              claimed'[v] = {} /\ \A r \in Slots : task'[v][r].pc = "idle"
        BY <1>3, <2>1, <2>2, <2>3, <2>6
    <2>8. ASSUME NEW v \in Workers, NEW r \in Slots, task'[v][r].pc # "idle"
          PROVE  /\ task[v][r].pc # "idle" /\ task'[v][r].entry = task[v][r].entry
                 /\ \/ task[v][r].entry \in overdue'
                    \/ task[v][r].entry \in inflight'[v] \ stale'
        <3>1. v # w /\ task'[v][r] = task[v][r]
            BY <2>2, <2>3, <2>8
        <3>. QED  BY <1>2, <2>1, <2>8, <3>1
    <2>. QED  BY <2>1, <2>4, <2>5, <2>7, <2>8, HoldersKept
<1>8. ASSUME NEW w \in Workers, Restart(w) PROVE OneHolder'
    <2>1. /\ UNCHANGED <<claimed, pending, stale, inflight, task, overdue>>
          /\ mode' = [mode EXCEPT ![w] = "running"]
        BY <1>8 DEF Restart, queue, watch
    <2>2. /\ mode' \in [Workers -> {"running", "down"}]
          /\ \A v \in Workers : mode'[v] = "down" => mode[v] = "down"
        BY <1>1, <2>1
    <2>. QED  BY <1>0, <1>2, <1>3, <2>1, <2>2, HoldersKept
<1>9. \A w \in Workers : ~BeginDrain(w) /\ ~Stopped(w)
    BY <1>1 DEF BeginDrain, Stopped
<1>10. \A j \in Jobs : SubmitStatus(j) \/ RequestCancel(j) \/ ExpireCancel(j) \/ ExpireHash(j) =>
          UNCHANGED <<mode, claimed, pending, stale, inflight, task, overdue>>
    BY DEF SubmitStatus, RequestCancel, ExpireCancel, ExpireHash, queue, proc, watch
<1>11. \A w \in Workers : Heartbeat(w) =>
          UNCHANGED <<mode, claimed, pending, inflight, task, overdue>> /\ stale' \subseteq stale
    BY DEF Heartbeat, proc, watch
<1>12. UNCHANGED vars \/ ReadLength \/ ReadGroups =>
           UNCHANGED <<mode, claimed, pending, stale, inflight, task, overdue>>
    BY DEF vars, ReadLength, ReadGroups, queue, proc
<1>. QED
    BY <1>4, <1>5, <1>6, <1>7, <1>8, <1>9, <1>10, <1>11, <1>12, NoOtherTrouble
    DEF LoopStep

\* Every step keeps one pair of hands on an entry.
LEMMA HoldersNext ==
    ASSUME KillsOnly, IndInv, QueueInv, OneHolder, [Next]_vars
    PROVE  OneHolder'
<1>. TypeOK
    BY DEF IndInv
<1>1. mode \in [Workers -> {"running", "down"}]
    BY DEF TypeOK, OneHolder
<1>2. ASSUME NEW e \in Entries, Enqueue(e) PROVE OneHolder'
    <2>1. UNCHANGED <<mode, claimed, pending, stale, inflight, task, overdue>>
        BY <1>2 DEF Enqueue, XAdd, proc, watch
    <2>. QED  BY <2>1 DEF OneHolder, RunBy, Free
<1>3. ASSUME NEW w \in Workers, NEW s \in Slots, Reserve(w, s) PROVE OneHolder'
    <2> DEFINE e == Head(backlog)
    <2>1. mode[w] = "running" /\ UNCHANGED <<mode, claimed, stale, overdue>>
        BY <1>1, <1>3 DEF Reserve, watch
    <2>2. Deliver /\ Launch(w, s, e)
        BY <1>3 DEF Reserve
    <2>3. e \in Entries /\ pending \subseteq pending' /\ e \in Undelivered
        BY <2>2, DeliverType, DeliverTakes DEF Deliver
    <2>4. e \notin stale
        BY <2>3 DEF QueueInv, TypeOK
    <2>5. \A v \in Workers : claimed'[v] \subseteq claimed[v] /\ e \notin claimed'[v]
        BY <2>1, <2>3 DEF QueueInv
    <2>6. \A v \in Workers, r \in Slots : ~RunBy(e, v, r)
        BY <2>3 DEF QueueInv, RunBy
    <2>. QED  BY <2>1, <2>2, <2>3, <2>4, <2>5, <2>6, HoldersLaunch
<1>4. ASSUME NEW w \in Workers, NEW s \in Slots, NEW e \in Entries,
             StartClaimed(w, s, e)
      PROVE  OneHolder'
    <2>1. /\ Launch(w, s, e) /\ e \in claimed[w]
          /\ UNCHANGED <<mode, pending, stale, overdue>>
          /\ \A v \in Workers : claimed'[v] = claimed[v] \ IF v = w THEN {e} ELSE {}
        BY <1>4 DEF StartClaimed, queue, watch, TypeOK
    <2>2. mode[w] = "running"
        BY <1>1, <1>4 DEF StartClaimed, Housekeeping
    <2>3. e \notin overdue =>
              /\ e \notin stale
              /\ \A v \in Workers : e \notin claimed'[v]
              /\ \A v \in Workers, r \in Slots : ~RunBy(e, v, r)
        BY <2>1 DEF OneHolder
    <2>4. \A v \in Workers : claimed'[v] \subseteq claimed[v]
        BY <2>1
    <2>. QED  BY <2>1, <2>2, <2>3, <2>4, HoldersLaunch
<1>. QED
    BY <1>2, <1>3, <1>4, HoldersTask, HoldersLoop, NoOtherTrouble
    DEF Next, LoopStep

\* An accepted job has one entry, and an entry one pair of hands.
LEMMA HoldersInductive ==
    ASSUME KillsOnly
    PROVE  Spec => [](OneEntryEach /\ OneHolder)
<1>1. IndInv /\ QueueInv /\ OneEntryEach /\ OneHolder /\ [Next]_vars
          => (OneEntryEach /\ OneHolder)'
    BY EntriesNext, HoldersNext
<1>2. Init => OneEntryEach /\ OneHolder
    BY HoldersInit
<1>. QED  BY <1>1, <1>2, Inductive, QueueInductive, PTL DEF Spec

\* Two coroutines on the same job would be on the same entry.
LEMMA OneCoroutine ==
    ASSUME IndInv, OneEntryEach, OneHolder
    PROVE  SingleExecution
<1>. SUFFICES ASSUME NEW j \in Jobs, ~Overdue(j)
              PROVE  Cardinality(Executing(j)) <= 1
    BY DEF SingleExecution
<1>1. ASSUME NEW p \in Executing(j), NEW q \in Executing(j) PROVE p = q
    <2>1. /\ p \in Workers \X Slots /\ q \in Workers \X Slots
          /\ task[p[1]][p[2]].pc # "idle" /\ task[q[1]][q[2]].pc # "idle"
          /\ task[p[1]][p[2]].job = j /\ task[q[1]][q[2]].job = j
        BY DEF Executing
    <2>2. task[p[1]][p[2]].entry = task[q[1]][q[2]].entry
        BY <2>1 DEF IndInv, TaskKnows, OneEntryEach
    <2>3. task[p[1]][p[2]].entry \in Entries \ overdue
        <3>1. task[p[1]][p[2]].entry \in Entries
            BY <2>1, ActiveTask DEF IndInv, TypeOK, Task
        <3>2. JobOf[task[p[1]][p[2]].entry] = j
            BY <2>1 DEF IndInv, TaskKnows
        <3>. QED  BY <3>1, <3>2 DEF Overdue
    <2>4. p[1] = q[1] /\ p[2] = q[2]
        BY <2>1, <2>2, <2>3 DEF OneHolder, RunBy
    <2>. QED  BY <2>1, <2>4
<1>2. CASE Executing(j) = {}
    BY <1>2, FS_EmptySet
<1>3. ASSUME NEW p \in Executing(j) PROVE Cardinality(Executing(j)) <= 1
    <2>1. Executing(j) = {p}
        BY <1>1
    <2>2. Cardinality({p}) = 1
        BY FS_Singleton
    <2>. QED  BY <2>1, <2>2
<1>. QED  BY <1>2, <1>3

\* No two coroutines run the same job at the same time, however many workers
\* are killed and keys expire: it takes a stop, a fault, a missed heartbeat or a
\* repeated command for a job to be run twice at once, or an entry of it that
\* went stale in a reclaim loop which waited for a permit (cpu_worker.py:255).
THEOREM NeverTwiceAtOnce ==
    ASSUME KillsOnly
    PROVE  Spec => []SingleExecution
<1>1. IndInv /\ OneEntryEach /\ OneHolder => SingleExecution
    BY OneCoroutine
<1>. QED  BY <1>1, Inductive, HoldersInductive, PTL

----------------------------------------------------------------------------
(* Each effect once: without outside trouble the runs of a job that never  *)
(* was overdue follow each other, and each knows what the ones before it   *)
(* have left.                                                              *)

Calm == Troubles = {}

\* No outcome was recorded and the dead-letter stream does not have the job.
Open(j) == recorded[j] = {} /\ dead[j] = 0 /\ status[j] \in {"QUEUED", "PROCESSING"}

\* The job may run (again).
Due(j) == Open(j) /\ charged[j] = 0 /\ attempts[j] < MaxAttempts

\* What _run_job may rely on before each command when it is alone on its job.
Stage(t) ==
    /\ t.pc \in {"meta", "flag", "incr"} => Due(t.job)
    /\ t.pc \in {"start", "work", "persist", "charge", "fail"} =>
          Open(t.job) /\ charged[t.job] = 0
    /\ t.pc = "start" => t.att = attempts[t.job]
    /\ t.pc = "settle" => Open(t.job)
    /\ t.pc \in {"publish", "expire", "bury"} => dead[t.job] = 0

AtMostOnce(j) ==
    /\ attempts[j] <= MaxAttempts /\ charged[j] <= 1 /\ dead[j] <= 1
    /\ recorded[j] = {} \/ \E out \in Terminal : recorded[j] = {out}

\* A job the gateway has not enqueued yet.
Untouched(j) ==
    /\ recorded[j] = {} /\ dead[j] = 0 /\ charged[j] = 0
    /\ attempts[j] = 0 /\ status[j] \in {"ABSENT", "QUEUED"}

\* ... for the jobs whose entry never was overdue.
OneRunAtATime ==
    /\ \A e \in sent \ overdue : AtMostOnce(JobOf[e])
    /\ \A j \in Jobs \ accepted : Untouched(j)
    /\ \A e \in Owed \ overdue :
          (\A w \in Workers, s \in Slots : ~RunBy(e, w, s)) => Due(JobOf[e])
    /\ \A w \in Workers, s \in Slots :
          task[w][s].pc # "idle" /\ task[w][s].entry \notin overdue => Stage(task[w][s])

\* The step is about job j at most.
OnlyAbout(j) ==
    \A i \in Jobs \ {j} :
        /\ recorded'[i] = recorded[i] /\ dead'[i] = dead[i]
        /\ charged'[i] = charged[i] /\ attempts'[i] = attempts[i]
        /\ status'[i] = status[i]

\* Nothing that the predicates above look at changes for job i.
LEMMA SameJob ==
    ASSUME NEW i \in Jobs, recorded'[i] = recorded[i], dead'[i] = dead[i],
           charged'[i] = charged[i], attempts'[i] = attempts[i],
           status'[i] = status[i]
    PROVE  /\ AtMostOnce(i)' <=> AtMostOnce(i)
           /\ Untouched(i)' <=> Untouched(i)
           /\ Due(i)' <=> Due(i)
           /\ Open(i)' <=> Open(i)
BY DEF AtMostOnce, Untouched, Due, Open

\* A step of a coroutine concerns its own job, of which it has the only entry.
LEMMA RunStep ==
    ASSUME IndInv, OneEntryEach, OneHolder, OneRunAtATime,
           NEW w \in Workers, NEW s \in Slots, NEW j \in Jobs,
           task[w][s].pc # "idle", task[w][s].job = j, Others(w, s),
           sent' = sent, overdue' = overdue, Owed' \subseteq Owed, OnlyAbout(j),
           task'[w][s].pc = "idle" \/ task'[w][s].entry = task[w][s].entry,
           task[w][s].entry \notin overdue =>
               /\ AtMostOnce(j)'
               /\ \/ task'[w][s].pc # "idle" /\ Stage(task[w][s])'
                  \/ /\ task'[w][s].pc = "idle"
                     /\ task[w][s].entry \notin Owed' \/ Due(j)'
    PROVE  OneRunAtATime'
<1> DEFINE t == task[w][s]
<1>1. t \in Task /\ TaskKnows(t)
    BY ActiveTask DEF IndInv, TypeOK
<1>2. t.entry \in Entries /\ t.entry \in sent /\ j = JobOf[t.entry]
    BY <1>1 DEF Task, TaskKnows
<1>3. accepted' = accepted /\ j \in accepted
    BY <1>2 DEF accepted
<1>4. \A i \in Jobs \ {j} : /\ AtMostOnce(i)' <=> AtMostOnce(i)
                            /\ Untouched(i)' <=> Untouched(i)
                            /\ Due(i)' <=> Due(i)
                            /\ Open(i)' <=> Open(i)
    BY SameJob DEF OnlyAbout
<1>5. \A e \in sent : JobOf[e] = j => e = t.entry
    BY <1>2 DEF OneEntryEach
<1>6. Owed \subseteq sent /\ sent \subseteq Entries
    BY DEF IndInv, QueueIsAccepted, TypeOK
<1>7. ASSUME NEW e \in Owed' \ overdue, \A v \in Workers, r \in Slots : ~RunBy(e, v, r)'
      PROVE  Due(JobOf[e])'
    <2>1. CASE e = t.entry
        <3>1. task'[w][s].pc = "idle"
            BY <1>7, <2>1 DEF RunBy
        <3>. QED  BY <1>2, <1>7, <2>1, <3>1
    <2>2. CASE e # t.entry
        <3>1. \A v \in Workers, r \in Slots : ~RunBy(e, v, r)
            BY <1>7, <2>2 DEF RunBy, Others
        <3>2. e \in Owed \ overdue /\ JobOf[e] \in Jobs /\ JobOf[e] # j
            BY <1>5, <1>6, <2>2, PipelineAssumption
        <3>. QED  BY <1>4, <3>1, <3>2 DEF OneRunAtATime
    <2>. QED  BY <2>1, <2>2
<1>8. ASSUME NEW v \in Workers, NEW r \in Slots, task'[v][r].pc # "idle",
             task'[v][r].entry \notin overdue
      PROVE  Stage(task[v][r])'
    <2>1. CASE v = w /\ r = s
        BY <1>8, <2>1
    <2>2. CASE ~(v = w /\ r = s)
        <3>1. task'[v][r] = task[v][r]
            BY <2>2 DEF Others
        <3>2. task[v][r] \in Task /\ TaskKnows(task[v][r]) /\ Stage(task[v][r])
            BY <1>8, <3>1, ActiveTask DEF IndInv, TypeOK, OneRunAtATime
        <3>3. task[v][r].entry # t.entry
            BY <1>2, <1>8, <2>2, <3>1 DEF OneHolder, RunBy
        <3>4. task[v][r].job \in Jobs \ {j}
            BY <1>5, <3>2, <3>3 DEF Task, TaskKnows
        <3>5. /\ Due(task[v][r].job)' <=> Due(task[v][r].job)
              /\ Open(task[v][r].job)' <=> Open(task[v][r].job)
            BY <1>4, <3>1, <3>4
        <3>. QED  BY <3>1, <3>2, <3>4, <3>5 DEF Stage, OnlyAbout
    <2>. QED  BY <2>1, <2>2
<1>9. ASSUME NEW e \in sent \ overdue PROVE AtMostOnce(JobOf[e])'
    <2>1. CASE e = t.entry
        BY <1>2, <1>9, <2>1
    <2>2. CASE e # t.entry
        <3>1. JobOf[e] \in Jobs \ {j}
            BY <1>5, <1>6, <2>2, PipelineAssumption
        <3>. QED  BY <1>4, <3>1 DEF OneRunAtATime
    <2>. QED  BY <2>1, <2>2
<1>10. \A i \in Jobs \ accepted' : Untouched(i)'
    BY <1>3, <1>4 DEF OneRunAtATime
<1>. QED  BY <1>7, <1>8, <1>9, <1>10 DEF OneRunAtATime

\* Whatever state a coroutine finds its job in, it touches no other.
LEMMA TaskOnlyAbout ==
    ASSUME TypeOK, NEW w \in Workers, NEW s \in Slots, TaskStep(w, s)
    PROVE  OnlyAbout(task[w][s].job)
<1> DEFINE j == task[w][s].job
           Writes(f, g) == g = f \/ \E x : g = [f EXCEPT ![j] = x]
<1>1. /\ Writes(status, status') /\ Writes(attempts, attempts')
      /\ Writes(recorded, recorded')
    BY DEF TaskStep, ReadMeta, CheckCancel, IncrAttempts, SetProcessing, Work,
           WriteArtifacts, ConsumeQuota, SetTerminal, PublishTerminal,
           ExpireEvents, Fail, DeadLetter, XAck, XDel, hash, queue, effect
<1>2. Writes(dead, dead') /\ Writes(charged, charged')
    BY DEF TaskStep, ReadMeta, CheckCancel, IncrAttempts, SetProcessing, Work,
           WriteArtifacts, ConsumeQuota, SetTerminal, PublishTerminal,
           ExpireEvents, Fail, DeadLetter, XAck, XDel, hash, queue, effect
<1>. QED  BY <1>1, <1>2 DEF OnlyAbout, TypeOK

\* A run of an overdue job leaves the other jobs as they were.
LEMMA RunOverdue ==
    ASSUME IndInv, OneEntryEach, OneHolder, OneRunAtATime,
           NEW w \in Workers, NEW s \in Slots, TaskStep(w, s),
           task[w][s].entry \in overdue
    PROVE  OneRunAtATime'
<1> DEFINE t == task[w][s]
<1>1. /\ t.pc # "idle" /\ t \in Task /\ Others(w, s)
      /\ task'[w][s].pc = "idle" \/ task'[w][s].entry = t.entry
    BY TaskMoves DEF IndInv
<1>2. t.job \in Jobs /\ OnlyAbout(t.job)
    BY <1>1, TaskOnlyAbout DEF IndInv, Task
<1>3. /\ UNCHANGED <<sent, backlog, overdue>> /\ pending' \subseteq pending
    BY DEF TaskStep, ReadMeta, CheckCancel, IncrAttempts, SetProcessing, Work,
           WriteArtifacts, ConsumeQuota, SetTerminal, PublishTerminal,
           ExpireEvents, Fail, DeadLetter, XAck, XDel, hash, queue, effect, watch
<1>4. Owed' \subseteq Owed
    BY <1>3 DEF Owed, Undelivered
<1>. QED  BY <1>1, <1>2, <1>3, <1>4, RunStep

\* Each command of _run_job, _process and _fail leaves its job in the stage
\* that the next command, or the next run, relies on.
LEMMA RunTask ==
    ASSUME Calm, IndInv, QueueInv, OneEntryEach, OneHolder, OneRunAtATime,
           NEW w \in Workers, NEW s \in Slots, TaskStep(w, s),
           task[w][s].entry \notin overdue
    PROVE  OneRunAtATime'
<1>. USE DEF At
<1> DEFINE t == task[w][s]
<1>1. /\ t.pc # "idle" /\ t \in Task /\ Others(w, s) /\ Stage(t)
      /\ task \in TaskTable /\ inflight \in [Workers -> SUBSET Entries]
    BY TaskMoves DEF IndInv, TypeOK, OneRunAtATime
<1>2. PICK j \in Jobs : j = t.job
    BY <1>1 DEF Task
<1>3. /\ AtMostOnce(j) /\ attempts \in [Jobs -> Nat] /\ charged \in [Jobs -> Nat]
      /\ dead \in [Jobs -> Nat] /\ recorded \in [Jobs -> SUBSET Terminal]
      /\ status \in [Jobs -> Status] /\ MaxAttempts \in Nat \ {0}
    <2>1. t.entry \in sent /\ j = JobOf[t.entry]
        BY <1>1, <1>2 DEF IndInv, TaskKnows
    <2>. QED  BY <2>1, PipelineAssumption DEF IndInv, TypeOK, OneRunAtATime
<1>4. /\ "COMPLETED" \in Terminal /\ "FAILED" \in Terminal /\ "CANCELLED" \in Terminal
      /\ t.perm \in BOOLEAN
      /\ {"flag", "incr", "work", "persist", "charge", "publish", "expire",
          "bury", "xack", "xdel"} \subseteq Pc
    BY <1>1 DEF Task, Terminal, Pc, ProcessPc, SettlePc, AckPc
<1> DEFINE MovedTo(pc) == /\ task'[w][s].pc = pc /\ task'[w][s].job = j
                          /\ task'[w][s].entry = t.entry
<1>5. \A pc \in Pc : Goto(w, s, pc) => MovedTo(pc)
    BY <1>1, <1>2, GotoMoves DEF MovesTo
<1>6. \A out \in Terminal, perm \in BOOLEAN :
          Conclude(w, s, out, perm) => MovedTo("settle")
    BY <1>1, <1>2, ConcludeMoves DEF MovesTo
<1>7. \A perm \in BOOLEAN : Raise(w, s, perm) => MovedTo("fail")
    BY <1>1, <1>2, RaiseMoves DEF MovesTo
<1>8. Finish(w, s) => task'[w][s].pc = "idle"
    BY <1>1, FinishEnds DEF Ends, NoTask
<1>9. \A n : Executed(n) => n = 1
    BY NoOtherTrouble DEF Calm, KillsOnly
<1>10. sent' = sent /\ overdue' = overdue /\ Owed' \subseteq Owed
    <2>1. UNCHANGED <<sent, backlog, overdue>> /\ pending' \subseteq pending
        BY DEF TaskStep, ReadMeta, CheckCancel, IncrAttempts, SetProcessing,
           Work, WriteArtifacts, ConsumeQuota, SetTerminal, PublishTerminal,
           ExpireEvents, Fail, DeadLetter, XAck, XDel, hash, queue, effect, watch
    <2>. QED  BY <2>1 DEF Owed, Undelivered
<1> DEFINE Quiet == UNCHANGED <<status, attempts, recorded, dead, charged>>
<1>11. Quiet => OnlyAbout(j) /\ AtMostOnce(j)' /\ (Due(j)' <=> Due(j)) /\ (Open(j)' <=> Open(j))
    BY <1>3, SameJob DEF OnlyAbout
<1> DEFINE Fine == /\ OnlyAbout(j) /\ AtMostOnce(j)'
                   /\ \/ /\ task'[w][s].pc # "idle" /\ task'[w][s].entry = t.entry
                         /\ Stage(task[w][s])'
                      \/ task'[w][s].pc = "idle" /\ (t.entry \notin Owed' \/ Due(j)')
<1>12. Fine => OneRunAtATime'
    BY <1>1, <1>2, <1>10, RunStep
<1>13. MovedTo("xack") \/ MovedTo("xdel") => Stage(task[w][s])'
    BY DEF Stage
<1>14. ReadMeta(w, s) => Fine
    <2>. HAVE ReadMeta(w, s)
    <2>1. Due(j) /\ status[j] \in {"QUEUED", "PROCESSING"}
        BY <1>1, <1>2 DEF ReadMeta, Stage, Due, Open
    <2>2. MovedTo("flag") /\ Quiet
        BY <1>2, <1>4, <1>5, <2>1 DEF ReadMeta, hash, queue, effect
    <2>. QED  BY <1>11, <2>1, <2>2 DEF Stage
<1>15. CheckCancel(w, s) => Fine
    <2>. HAVE CheckCancel(w, s)
    <2>1. Due(j) /\ Open(j) /\ Quiet
        BY <1>1, <1>2 DEF CheckCancel, Stage, Due, hash, queue, effect
    <2>2. MovedTo("incr") \/ MovedTo("settle")
        BY <1>4, <1>5, <1>6 DEF CheckCancel
    <2>. QED  BY <1>11, <2>1, <2>2 DEF Stage
<1>16. IncrAttempts(w, s) => Fine
    <2>. HAVE IncrAttempts(w, s)
    <2> DEFINE u == [t EXCEPT !.pc = "start", !.att = attempts[j] + 1]
    <2>1. /\ attempts' = [attempts EXCEPT ![j] = @ + 1]
          /\ task' = [task EXCEPT ![w][s] = u]
          /\ UNCHANGED <<status, recorded, dead, charged>>
        BY <1>2, <1>9 DEF IncrAttempts, queue, effect
    <2>2. Due(j)
        BY <1>1, <1>2 DEF IncrAttempts, Stage
    <2>3. attempts[j] + 1 \in Nat /\ attempts'[j] = attempts[j] + 1
        BY <1>3, <2>1
    <2>4. /\ u \in Task /\ u.pc = "start" /\ u.entry = t.entry /\ u.job = j
          /\ u.att = attempts[j] + 1
        BY <1>1, <1>2, <2>3 DEF Task, Pc, ProcessPc
    <2>5. task'[w][s] = u
        <3>. HIDE DEF u
        <3>. QED  BY <1>1, <2>1, <2>4, Update
    <2>6. OnlyAbout(j) /\ AtMostOnce(j)' /\ Open(j)' /\ charged'[j] = 0
        BY <1>3, <2>1, <2>2 DEF OnlyAbout, AtMostOnce, Due, Open
    <2>. QED  BY <2>3, <2>4, <2>5, <2>6 DEF Stage
<1>17. SetProcessing(w, s) => Fine
    <2>. HAVE SetProcessing(w, s)
    <2> DEFINE u == [t EXCEPT !.pc = "work", !.att = 0]
    <2>1. /\ status' = [status EXCEPT ![j] = "PROCESSING"]
          /\ attempts' = [attempts EXCEPT ![j] = t.att]
          /\ task' = [task EXCEPT ![w][s] = u]
          /\ UNCHANGED <<recorded, dead, charged>>
        BY <1>2 DEF SetProcessing, queue, effect
    <2>2. Open(j) /\ charged[j] = 0 /\ t.att = attempts[j]
        BY <1>1, <1>2 DEF SetProcessing, Stage
    <2>3. u \in Task /\ u.pc = "work" /\ u.entry = t.entry /\ u.job = j
        BY <1>1, <1>2 DEF Task, Pc, ProcessPc
    <2>4. task'[w][s] = u
        BY <1>1, <2>1, <2>3, Update
    <2>5. OnlyAbout(j) /\ AtMostOnce(j)' /\ Open(j)' /\ charged'[j] = 0
        BY <1>3, <2>1, <2>2 DEF OnlyAbout, AtMostOnce, Open
    <2>. QED  BY <2>3, <2>4, <2>5 DEF Stage
<1>18. Work(w, s) => Fine
    <2>. HAVE Work(w, s)
    <2>1. Open(j) /\ charged[j] = 0 /\ Quiet
        BY <1>1, <1>2 DEF Work, Stage, hash, queue, effect
    <2>2. MovedTo("persist") \/ MovedTo("fail") \/ MovedTo("settle")
        BY <1>4, <1>5, <1>6, <1>7 DEF Work
    <2>. QED  BY <1>11, <2>1, <2>2 DEF Stage
<1>19. WriteArtifacts(w, s) => Fine
    <2>. HAVE WriteArtifacts(w, s)
    <2>1. Open(j) /\ charged[j] = 0 /\ Quiet
        BY <1>1, <1>2 DEF WriteArtifacts, Stage, hash, queue
    <2>2. MovedTo("charge")
        BY <1>4, <1>5 DEF WriteArtifacts
    <2>. QED  BY <1>11, <2>1, <2>2 DEF Stage
<1>20. ConsumeQuota(w, s) => Fine
    <2>. HAVE ConsumeQuota(w, s)
    <2>1. /\ charged' = [charged EXCEPT ![j] = @ + 1]
          /\ UNCHANGED <<status, attempts, recorded, dead>>
        BY <1>2, <1>9 DEF ConsumeQuota, hash, queue
    <2>2. Open(j) /\ charged[j] = 0
        BY <1>1, <1>2 DEF ConsumeQuota, Stage
    <2>3. OnlyAbout(j) /\ AtMostOnce(j)' /\ Open(j)'
        BY <1>3, <2>1, <2>2 DEF OnlyAbout, AtMostOnce, Open
    <2>4. MovedTo("settle")
        BY <1>4, <1>6 DEF ConsumeQuota
    <2>. QED  BY <2>3, <2>4 DEF Stage
<1>21. SetTerminal(w, s) => Fine
    <2>. HAVE SetTerminal(w, s)
    <2>1. /\ status' = [status EXCEPT ![j] = t.out]
          /\ recorded' = [recorded EXCEPT ![j] = @ \cup {t.out}]
          /\ UNCHANGED <<attempts, dead, charged>>
        BY <1>2 DEF SetTerminal, queue
    <2>2. Open(j)
        BY <1>1, <1>2 DEF SetTerminal, Stage
    <2>3. t.out \in Terminal
        <3>1. TaskKnows(t)
            BY <1>1 DEF IndInv
        <3>. QED  BY <1>1, <3>1 DEF SetTerminal, TaskKnows, SettlePc, Task
    <2>4. recorded'[j] = {t.out} /\ dead'[j] = 0
        BY <1>3, <2>1, <2>2 DEF Open
    <2>5. OnlyAbout(j) /\ AtMostOnce(j)'
        BY <1>3, <2>1, <2>3, <2>4 DEF OnlyAbout, AtMostOnce
    <2>6. MovedTo("publish")
        BY <1>4, <1>5 DEF SetTerminal
    <2>. QED  BY <2>4, <2>5, <2>6 DEF Stage
<1>22. PublishTerminal(w, s) => Fine
    <2>. HAVE PublishTerminal(w, s)
    <2>1. dead[j] = 0 /\ Quiet
        BY <1>1, <1>2 DEF PublishTerminal, Stage, hash, queue
    <2>2. MovedTo("expire")
        BY <1>4, <1>5 DEF PublishTerminal
    <2>. QED  BY <1>11, <2>1, <2>2 DEF Stage
<1>23. ExpireEvents(w, s) => Fine
    <2>. HAVE ExpireEvents(w, s)
    <2>1. dead[j] = 0 /\ Quiet
        BY <1>1, <1>2 DEF ExpireEvents, Stage, hash, queue, effect
    <2>2. MovedTo("bury") \/ MovedTo("xack")
        BY <1>4, <1>5 DEF ExpireEvents
    <2>. QED  BY <1>11, <2>1, <2>2 DEF Stage
<1>24. Fail(w, s) => Fine
    <2>. HAVE Fail(w, s)
    <2>1. Open(j) /\ charged[j] = 0
        BY <1>1, <1>2 DEF Fail, Stage
    <2>2. status' = status /\ Quiet
        BY <1>2, <1>3, <2>1 DEF Fail, Open, queue, effect
    <2>3. CASE Exhausted(t)
        <3>1. MovedTo("settle")
            BY <1>4, <1>6, <2>3 DEF Fail
        <3>. QED  BY <1>11, <2>1, <2>2, <3>1 DEF Stage
    <2>4. CASE ~Exhausted(t)
        <3>1. task'[w][s].pc = "idle"
            BY <1>8, <2>4 DEF Fail
        <3>2. attempts[j] < MaxAttempts
            BY <1>2, <1>3, <2>4 DEF Exhausted
        <3>. QED  BY <1>11, <2>1, <2>2, <3>1, <3>2 DEF Due
    <2>. QED  BY <2>3, <2>4
<1>25. DeadLetter(w, s) => Fine
    <2>. HAVE DeadLetter(w, s)
    <2>1. /\ dead' = [dead EXCEPT ![j] = @ + 1] /\ dead[j] = 0
          /\ UNCHANGED <<status, attempts, recorded, charged>>
        BY <1>1, <1>2, <1>9 DEF DeadLetter, Stage, hash, effect
    <2>2. OnlyAbout(j) /\ AtMostOnce(j)'
        BY <1>3, <2>1 DEF OnlyAbout, AtMostOnce
    <2>3. MovedTo("xack")
        BY <1>4, <1>5 DEF DeadLetter
    <2>. QED  BY <1>13, <2>2, <2>3
<1>26. XAck(w, s) => Fine
    <2>. HAVE XAck(w, s)
    <2>1. Quiet /\ MovedTo("xdel")
        BY <1>4, <1>5 DEF XAck, hash, effect
    <2>. QED  BY <1>11, <1>13, <2>1
<1>27. XDel(w, s) => Fine
    <2>. HAVE XDel(w, s)
    <2>1. Quiet /\ task'[w][s].pc = "idle"
        BY <1>8 DEF XDel, hash, effect
    <2>2. t.entry \notin Undelivered /\ t.entry \notin pending
        BY <1>1 DEF XDel, QueueInv
    <2>3. t.entry \notin Owed'
        BY <1>10, <2>2 DEF Owed
    <2>. QED  BY <1>11, <2>1, <2>3
<1>. QED
    BY <1>12, <1>14, <1>15, <1>16, <1>17, <1>18, <1>19, <1>20, <1>21, <1>22,
       <1>23, <1>24, <1>25, <1>26, <1>27 DEF TaskStep

\* A step that at most writes the hash of a new job.
LEMMA RunSame ==
    ASSUME TypeOK, UNCHANGED <<attempts, recorded, dead, charged>>,
           \A i \in Jobs : \/ status'[i] = status[i]
                           \/ status[i] = "ABSENT" /\ status'[i] = "QUEUED"
    PROVE  \A i \in Jobs : /\ AtMostOnce(i) => AtMostOnce(i)'
                           /\ Untouched(i) => Untouched(i)'
                           /\ Due(i) => Due(i)'
                           /\ Open(i) => Open(i)'
BY DEF AtMostOnce, Untouched, Due, Open

\* ... and moves no coroutine.
LEMMA RunStays ==
    ASSUME IndInv, OneRunAtATime,
           UNCHANGED <<sent, attempts, recorded, dead, charged, task>>, Owed' = Owed,
           overdue \subseteq overdue',
           \A i \in Jobs : \/ status'[i] = status[i]
                           \/ status[i] = "ABSENT" /\ status'[i] = "QUEUED"
    PROVE  OneRunAtATime'
<1>1. \A i \in Jobs : /\ AtMostOnce(i) => AtMostOnce(i)'
                      /\ Untouched(i) => Untouched(i)'
                      /\ Due(i) => Due(i)'
                      /\ Open(i) => Open(i)'
    BY RunSame DEF IndInv
<1>2. accepted' = accepted
    BY DEF accepted
<1>3. \A e \in Owed' : JobOf[e] \in Jobs
    BY PipelineAssumption DEF IndInv, TypeOK, QueueIsAccepted
<1>4. \A e \in Owed' \ overdue' :
          (\A w \in Workers, s \in Slots : ~RunBy(e, w, s)') => Due(JobOf[e])'
    BY <1>1, <1>3 DEF OneRunAtATime, RunBy
<1>5. ASSUME NEW w \in Workers, NEW s \in Slots, task[w][s].pc # "idle",
             task[w][s].entry \notin overdue'
      PROVE  Stage(task[w][s])'
    <2>1. task[w][s].job \in Jobs /\ Stage(task[w][s])
        BY <1>5, ActiveTask DEF IndInv, TypeOK, Task, OneRunAtATime
    <2>. QED  BY <1>1, <2>1 DEF Stage
<1>6. ASSUME NEW e \in sent \ overdue' PROVE AtMostOnce(JobOf[e])'
    <2>1. JobOf[e] \in Jobs /\ AtMostOnce(JobOf[e])
        BY <1>6, PipelineAssumption DEF OneRunAtATime, IndInv, TypeOK
    <2>. QED  BY <1>1, <2>1
<1>. QED  BY <1>1, <1>2, <1>4, <1>5, <1>6 DEF OneRunAtATime

\* _run_job starts on an entry that was overdue, or that nobody runs: then its
\* job is due.
LEMMA RunLaunch ==
    ASSUME IndInv, OneRunAtATime, NEW w \in Workers, NEW s \in Slots,
           NEW e \in Entries, Launch(w, s, e), s \in Free(w),
           e \notin overdue =>
               e \in Owed /\ \A v \in Workers, r \in Slots : ~RunBy(e, v, r),
           UNCHANGED <<sent, status, attempts, recorded, dead, charged, overdue>>,
           Owed' = Owed
    PROVE  OneRunAtATime'
<1>1. e \in Entries /\ JobOf[e] \in Jobs /\ \A f \in Owed : JobOf[f] \in Jobs
    BY PipelineAssumption DEF IndInv, TypeOK, QueueIsAccepted
<1>2. Others(w, s) /\ task'[w][s] = Fresh(e)
    BY <1>1, LaunchStarts DEF IndInv, TypeOK
<1>3. \A i \in Jobs : /\ AtMostOnce(i) => AtMostOnce(i)'
                      /\ Untouched(i) => Untouched(i)'
                      /\ Due(i) => Due(i)'
                      /\ Open(i) => Open(i)'
    BY RunSame DEF IndInv
<1>4. accepted' = accepted
    BY DEF accepted
<1>5. e \notin overdue => Due(JobOf[e])
    BY DEF OneRunAtATime
<1>6. ASSUME e \notin overdue PROVE Stage(task[w][s])'
    <2>1. task'[w][s].pc = "meta" /\ task'[w][s].job = JobOf[e]
        BY <1>2 DEF Fresh
    <2>2. Due(JobOf[e])'
        BY <1>1, <1>3, <1>5, <1>6
    <2>. QED  BY <2>1, <2>2 DEF Stage
<1>7. ASSUME NEW f \in Owed \ overdue, \A v \in Workers, r \in Slots : ~RunBy(f, v, r)'
      PROVE  Due(JobOf[f])'
    <2>1. \A v \in Workers, r \in Slots : ~RunBy(f, v, r)
        BY <1>2, <1>7 DEF RunBy, Others, Free
    <2>. QED  BY <1>1, <1>3, <2>1 DEF OneRunAtATime
<1>8. ASSUME NEW v \in Workers, NEW r \in Slots, task'[v][r].pc # "idle",
             task'[v][r].entry \notin overdue
      PROVE  Stage(task[v][r])'
    <2>1. CASE v = w /\ r = s
        <3>1. task'[w][s].entry = e
            BY <1>2 DEF Fresh
        <3>. QED  BY <1>6, <1>8, <2>1, <3>1
    <2>2. CASE ~(v = w /\ r = s)
        <3>1. task'[v][r] = task[v][r]
            BY <1>2, <2>2 DEF Others
        <3>2. task[v][r].job \in Jobs /\ Stage(task[v][r])
            BY <1>8, <3>1, ActiveTask DEF IndInv, TypeOK, Task, OneRunAtATime
        <3>. QED  BY <1>3, <3>1, <3>2 DEF Stage
    <2>. QED  BY <2>1, <2>2
<1>9. ASSUME NEW f \in sent \ overdue PROVE AtMostOnce(JobOf[f])'
    <2>1. JobOf[f] \in Jobs /\ AtMostOnce(JobOf[f])
        BY <1>9, PipelineAssumption DEF OneRunAtATime, IndInv, TypeOK
    <2>. QED  BY <1>3, <2>1
<1>. QED  BY <1>3, <1>4, <1>7, <1>8, <1>9 DEF OneRunAtATime

\* No run has touched a job at the start.
LEMMA RunInit == ASSUME Init PROVE OneRunAtATime
<1>1. Owed = {} /\ MaxAttempts \in Nat \ {0}
    BY PipelineAssumption DEF Init, Owed, Undelivered
<1>. QED  BY <1>1 DEF Init, OneRunAtATime, AtMostOnce, Untouched, NoTask

\* Every step keeps each run's knowledge of its job.
LEMMA RunNext ==
    ASSUME Calm, IndInv, QueueInv, OneEntryEach, OneHolder, OneRunAtATime, [Next]_vars
    PROVE  OneRunAtATime'
<1>. TypeOK /\ KillsOnly
    BY DEF IndInv, Calm, KillsOnly
<1>1. ASSUME NEW e \in Entries, Enqueue(e) PROVE OneRunAtATime'
    <2>1. XAdd(e) /\ status[JobOf[e]] = "QUEUED" /\ JobOf[e] \in Jobs \ accepted
        BY <1>1, PipelineAssumption DEF Enqueue
    <2>2. /\ UNCHANGED <<status, attempts, recorded, dead, charged, task, overdue>>
          /\ sent' = sent \cup {e} /\ Owed' = Owed \cup {e}
        BY <2>1, XAddOwed DEF XAdd, effect, watch
    <2>3. \A i \in Jobs : /\ AtMostOnce(i) => AtMostOnce(i)'
                          /\ Untouched(i) => Untouched(i)'
                          /\ Due(i) => Due(i)'
                          /\ Open(i) => Open(i)'
        BY <2>2, RunSame
    <2>4. Due(JobOf[e]) /\ AtMostOnce(JobOf[e])
        BY <2>1, PipelineAssumption DEF OneRunAtATime, Untouched, Due, Open, AtMostOnce
    <2>5. accepted \subseteq accepted'
        BY <2>2 DEF accepted
    <2>6. ASSUME NEW f \in Owed' \ overdue, \A w \in Workers, s \in Slots : ~RunBy(f, w, s)'
          PROVE  Due(JobOf[f])'
        <3>1. JobOf[f] \in Jobs
            BY <2>1, <2>2, PipelineAssumption DEF IndInv, TypeOK, QueueIsAccepted
        <3>2. Due(JobOf[f])
            BY <2>2, <2>4, <2>6 DEF OneRunAtATime, RunBy
        <3>. QED  BY <2>3, <3>1, <3>2
    <2>7. ASSUME NEW w \in Workers, NEW s \in Slots, task'[w][s].pc # "idle",
                 task'[w][s].entry \notin overdue
          PROVE  Stage(task[w][s])'
        <3>1. task[w][s].job \in Jobs /\ Stage(task[w][s])
            BY <2>2, <2>7, ActiveTask DEF IndInv, TypeOK, Task, OneRunAtATime
        <3>. QED  BY <2>2, <2>3, <3>1 DEF Stage
    <2>8. ASSUME NEW f \in sent' \ overdue PROVE AtMostOnce(JobOf[f])'
        <3>1. JobOf[f] \in Jobs
            BY <2>2, <2>8, PipelineAssumption DEF TypeOK
        <3>2. AtMostOnce(JobOf[f])
            BY <2>2, <2>4, <2>8 DEF OneRunAtATime
        <3>. QED  BY <2>3, <3>1, <3>2
    <2>. QED  BY <2>2, <2>3, <2>5, <2>6, <2>7, <2>8 DEF OneRunAtATime
<1>2. ASSUME NEW w \in Workers, NEW s \in Slots, Reserve(w, s) PROVE OneRunAtATime'
    <2> DEFINE e == Head(backlog)
    <2>1. Deliver /\ Launch(w, s, e) /\ s \in Free(w)
        BY <1>2 DEF Reserve
    <2>2. Owed' = Owed /\ e \in Undelivered
        BY <2>1, DeliverOwed, DeliverTakes
    <2>3. e \in Entries /\ e \in Owed /\ \A v \in Workers, r \in Slots : ~RunBy(e, v, r)
        BY <2>1, <2>2, DeliverType DEF Owed, QueueInv, RunBy
    <2>4. UNCHANGED <<sent, status, attempts, recorded, dead, charged, overdue>>
        BY <1>2 DEF Reserve, hash, effect, watch
    <2>. QED  BY <2>1, <2>2, <2>3, <2>4, RunLaunch
<1>3. ASSUME NEW w \in Workers, NEW s \in Slots, NEW e \in Entries,
             StartClaimed(w, s, e)
      PROVE  OneRunAtATime'
    <2>1. Launch(w, s, e) /\ s \in Free(w) /\ e \in claimed[w]
        BY <1>3 DEF StartClaimed
    <2>2. UNCHANGED <<sent, status, attempts, recorded, dead, charged, overdue>> /\ Owed' = Owed
        BY <1>3 DEF StartClaimed, hash, queue, effect, watch, Owed, Undelivered
    <2>3. e \notin overdue =>
              e \in Owed /\ \A v \in Workers, r \in Slots : ~RunBy(e, v, r)
        BY <2>1 DEF OneHolder, Owed
    <2>. QED  BY <2>1, <2>2, <2>3, RunLaunch
<1>4. ASSUME LoopStep PROVE OneRunAtATime'
    <2>1. sent' = sent /\ Owed' = Owed /\ Undecided
        BY <1>4, LoopSteps
    <2>2. /\ \A j \in Jobs : ~ExpireHash(j)
          /\ \A w \in Workers : ~Crash(w)
        BY DEF Calm, ExpireHash, Crash, Trouble
    <2>3. UNCHANGED <<attempts, charged, task>> /\ overdue \subseteq overdue'
        BY <1>4, <2>2, NoOtherTrouble
        DEF LoopStep, SubmitStatus, RequestCancel, ExpireCancel, GoStale, Age,
            Reclaim, Heartbeat, BeginDrain, Stopped, Restart, ReadLength,
            ReadGroups, hash, effect, proc, watch, vars
    <2>4. \A i \in Jobs : \/ status'[i] = status[i]
                          \/ status[i] = "ABSENT" /\ status'[i] = "QUEUED"
        BY <1>4, <2>2, NoOtherTrouble
        DEF LoopStep, SubmitStatus, RequestCancel, ExpireCancel, GoStale, Age,
            Reclaim, Heartbeat, BeginDrain, Stopped, Restart, ReadLength,
            ReadGroups, hash, vars, TypeOK
    <2>. QED  BY <2>1, <2>3, <2>4, RunStays DEF Undecided
<1>. QED
    BY <1>1, <1>2, <1>3, <1>4, RunTask, RunOverdue, NoOtherTrouble DEF Next, LoopStep

\* Without trouble every run finds its job as the runs before it left it.
LEMMA RunInductive ==
    ASSUME Calm
    PROVE  Spec => [](OneEntryEach /\ OneHolder /\ OneRunAtATime)
<1>1. KillsOnly
    BY DEF Calm, KillsOnly
<1>2. IndInv /\ QueueInv /\ OneEntryEach /\ OneHolder /\ OneRunAtATime
      /\ [Next]_vars => OneRunAtATime'
    BY RunNext
<1>3. Init => OneRunAtATime
    BY RunInit
<1>4. Spec => [](OneEntryEach /\ OneHolder)
    BY <1>1, HoldersInductive
<1>. QED  BY <1>2, <1>3, <1>4, Inductive, QueueInductive, PTL DEF Spec

\* A job that was not overdue has had one outcome at most, and so on.
LEMMA OneOutcome ==
    ASSUME TypeOK, OneRunAtATime
    PROVE  EffectsOnce /\ AttemptsBounded
<1>1. ASSUME NEW j \in Jobs, ~Overdue(j) PROVE AtMostOnce(j)
    <2>1. CASE j \in accepted
        BY <1>1, <2>1 DEF accepted, Overdue, OneRunAtATime
    <2>2. CASE j \notin accepted
        BY <2>2, PipelineAssumption DEF OneRunAtATime, Untouched, AtMostOnce
    <2>. QED  BY <2>1, <2>2
<1>2. ASSUME NEW j \in Jobs, AtMostOnce(j) PROVE Cardinality(recorded[j]) <= 1
    <2>1. CASE recorded[j] = {}
        <3>1. Cardinality({}) = 0
            BY FS_EmptySet
        <3>. QED  BY <2>1, <3>1
    <2>2. ASSUME NEW out, recorded[j] = {out} PROVE Cardinality(recorded[j]) <= 1
        <3>1. Cardinality({out}) = 1
            BY FS_Singleton
        <3>. QED  BY <2>2, <3>1
    <2>. QED  BY <1>2, <2>1, <2>2 DEF AtMostOnce
<1>. QED  BY <1>1, <1>2 DEF AtMostOnce, EffectsOnce, AttemptsBounded

\* However often transient errors make a job run, it gets one outcome, its
\* pages are charged once and it is dead-lettered once, at most, unless an entry
\* of it was overdue.
THEOREM EachEffectOnce ==
    ASSUME Calm
    PROVE  Spec => []EffectsOnce
<1>1. TypeOK /\ OneRunAtATime => EffectsOnce
    BY OneOutcome
<1>. QED  BY <1>1, TypeCorrect, RunInductive, PTL

\* queue.py:9: a job that keeps failing runs MaxAttempts times, no more, unless
\* an entry of it was overdue.
THEOREM RetriesBounded ==
    ASSUME Calm
    PROVE  Spec => []AttemptsBounded
<1>1. TypeOK /\ OneRunAtATime => AttemptsBounded
    BY OneOutcome
<1>. QED  BY <1>1, TypeCorrect, RunInductive, PTL

\* Only a coroutine whose job is still open, or was overdue, writes its status.
LEMMA StatusStep ==
    ASSUME Calm, IndInv, QueueInv, OneEntryEach, OneHolder, OneRunAtATime, [Next]_vars,
           NEW j \in Jobs, status[j] \in Terminal, ~Overdue(j)
    PROVE  status'[j] = status[j]
<1>. TypeOK /\ KillsOnly
    BY DEF IndInv, Calm, KillsOnly
<1>1. ASSUME NEW w \in Workers, NEW s \in Slots, TaskStep(w, s)
      PROVE  status'[j] = status[j]
    <2> DEFINE t == task[w][s]
    <2>1. /\ t.pc # "idle" /\ t \in Task /\ t.job \in Jobs
          /\ t.job = JobOf[t.entry]
        BY <1>1, TaskMoves DEF Task, IndInv, TaskKnows
    <2>2. t.pc \in {"start", "settle", "fail"} => t.job # j
        <3>. SUFFICES ASSUME t.pc \in {"start", "settle", "fail"}, t.job = j
                      PROVE  FALSE
            OBVIOUS
        <3>1. t.entry \notin overdue
            BY <2>1 DEF Overdue
        <3>2. Open(j)
            BY <2>1, <3>1 DEF OneRunAtATime, Stage
        <3>. QED  BY <3>2 DEF Open, Terminal
    <2>3. \/ status' = status
          \/ /\ t.pc \in {"start", "settle", "fail"}
             /\ \E x : status' = [status EXCEPT ![t.job] = x]
        BY <1>1 DEF TaskStep, ReadMeta, CheckCancel, IncrAttempts,
           SetProcessing, Work, WriteArtifacts, ConsumeQuota, SetTerminal,
           PublishTerminal, ExpireEvents, Fail, DeadLetter, XAck, XDel, At, hash
    <2>. QED  BY <2>2, <2>3 DEF TypeOK
<1>2. ASSUME LoopStep PROVE status'[j] = status[j]
    <2>1. \A i \in Jobs : ~ExpireHash(i)
        BY DEF Calm, ExpireHash, Trouble
    <2>. QED
        BY <1>2, <2>1, NoOtherTrouble
        DEF LoopStep, SubmitStatus, RequestCancel, ExpireCancel, GoStale, Age,
            Reclaim, Heartbeat, BeginDrain, Stopped, Crash, Restart, ReadLength,
            ReadGroups, hash, vars, TypeOK, Terminal
<1>3. ASSUME NEW e \in Entries, NEW w \in Workers, NEW s \in Slots,
             StartClaimed(w, s, e)
      PROVE  status'[j] = status[j]
    BY <1>3 DEF StartClaimed, hash
<1>4. ASSUME NEW e \in Entries, Enqueue(e) PROVE status'[j] = status[j]
    BY <1>4 DEF Enqueue, XAdd
<1>5. ASSUME NEW w \in Workers, NEW s \in Slots, Reserve(w, s)
      PROVE  status'[j] = status[j]
    BY <1>5 DEF Reserve, hash
<1>. QED
    BY <1>1, <1>2, <1>3, <1>4, <1>5, NoOtherTrouble DEF Next, LoopStep

\* A terminal status stands: no later run, late command or retry replaces it,
\* unless an entry of the job was overdue.
THEOREM TerminalStays ==
    ASSUME Calm
    PROVE  Spec => TerminalIsFinal
<1>1. /\ IndInv /\ QueueInv /\ OneEntryEach /\ OneHolder /\ OneRunAtATime
      /\ [Next]_vars
      => [\A j \in Jobs : status[j] \in Terminal =>
              status'[j] = status[j] \/ Overdue(j)]_vars
    BY StatusStep
<1>. QED
    BY <1>1, Inductive, QueueInductive, RunInductive, PTL DEF Spec, TerminalIsFinal
=============================================================================
