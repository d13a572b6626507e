---------------------------- MODULE JobLifecycle ----------------------------
(***************************************************************************)
(* What the queue and the workers promise about a job, without saying how: *)
(* "at-least-once delivery" (workers/cpu_worker.py) in three steps.  A     *)
(* request to run a job (a queue entry; a job may have more than one) is   *)
(* owed to the client until some outcome of the job has been recorded;     *)
(* then, and only then, the debt may be struck off, and for good.          *)
(***************************************************************************)
CONSTANTS Jobs, Entries, JobOf, Outcomes

VARIABLES taken,     \* requests the system has taken responsibility for
          owed,      \* requests on which it will still run the job (again)
          outcome    \* outcome[j]: the outcomes recorded for j so far

lifeVars == <<taken, owed, outcome>>

LifeInit ==
    /\ taken = {}
    /\ owed = {}
    /\ outcome = [j \in Jobs |-> {}]

Accept(e) ==
    /\ e \notin taken
    /\ taken' = taken \cup {e}
    /\ owed' = owed \cup {e}
    /\ UNCHANGED outcome

\* Running a job again may record the same or another outcome.
Record(e) ==
    /\ e \in taken
    /\ \E o \in Outcomes :
          outcome' = [outcome EXCEPT ![JobOf[e]] = @ \cup {o}]
    /\ UNCHANGED <<taken, owed>>

Release(e) ==
    /\ e \in owed
    /\ outcome[JobOf[e]] # {}
    /\ owed' = owed \ {e}
    /\ UNCHANGED <<taken, outcome>>

LifeNext == \E e \in Entries : Accept(e) \/ Record(e) \/ Release(e)

LifeSpec == LifeInit /\ [][LifeNext]_lifeVars
=============================================================================
