--------------------------- MODULE RetentionProofs ---------------------------
(***************************************************************************)
(* For any retention window, length of time and number of errors, and with *)
(* the database or without: no sweep deletes a file within its window, and *)
(* a COMPLETED job's result and artifacts are served until they are as old *)
(* as the window.                                                          *)
(*                                                                         *)
(* RetentionInv is inductive.  A sweep looks at a file, and deletes it     *)
(* later; the worker may write it in between.  What makes that harmless is *)
(* the order of the writes: a file that is old enough to be deleted was    *)
(* written after the upload, so one that replaces it is too late.          *)
(***************************************************************************)
EXTENDS Retention, TLAPS

----------------------------------------------------------------------------
(* The sweep and the request as records *)

\* The fields a sweep has where it is.
LEMMA SweepFields ==
    ASSUME sweep \in {Asleep} \cup Sweep
    PROVE  /\ sweep.at \in {"asleep", "scan", "stat", "unlink"}
           /\ ~At("asleep") => /\ sweep \in Sweep /\ sweep.dir \in 1..3
                               /\ sweep.cutoff \in Int /\ sweep.todo \in SUBSET Files
           /\ At("stat") \/ At("unlink") => sweep.cur \in Files
BY DEF Asleep, Sweep, At

\* A directory that is entered is listed, with a cutoff a whole window ago; after the
\* last one the sweep is over.
LEMMA EnterEffect ==
    ASSUME TypeOK, NEW d \in 1..4, Enter(d)
    PROVE  /\ sweep' \in {Asleep} \cup Sweep
           /\ sweep'.at \in {"asleep", "scan"}
           /\ ~At("asleep")' => sweep'.cutoff = now - TTL
<1>1. now - TTL \in Int
    BY RetentionAssumption DEF TypeOK
<1>2. files \cap Directory(d) \in SUBSET Files
    BY DEF TypeOK
<1>3. CASE d <= 3
    <2>1. /\ sweep' \in Sweep /\ sweep'.at = "scan" /\ sweep'.cutoff = now - TTL
        BY <1>1, <1>2, <1>3 DEF Enter, Scan, Sweep
    <2>. QED  BY <2>1
<1>4. CASE ~(d <= 3)
    BY <1>4 DEF Enter, Asleep, At
<1>. QED  BY <1>3, <1>4

\* What the steps of a sweep do to it.
LEMMA SweepMoves ==
    ASSUME TypeOK, SweepStep \/ SweepFault
    PROVE  /\ sweep' \in {Asleep} \cup Sweep
           /\ ~At("asleep")' => \/ sweep'.cutoff = now - TTL
                                \/ ~At("asleep") /\ sweep'.cutoff = sweep.cutoff
           /\ At("unlink")' => /\ At("stat") /\ sweep.cur \in files
                               /\ sweep'.cur = sweep.cur
                               /\ mtime[sweep.cur] < sweep.cutoff
<1>. USE DEF TypeOK
<1>0. /\ sweep.at \in {"asleep", "scan", "stat", "unlink"}
      /\ ~At("asleep") => /\ sweep \in Sweep /\ sweep.dir \in 1..3
                          /\ sweep.cutoff \in Int /\ sweep.todo \in SUBSET Files
      /\ At("stat") \/ At("unlink") => sweep.cur \in Files
    BY SweepFields
<1>1. CASE Wake \/ NextDirectory \/ (At("stat") /\ Enter(sweep.dir + 1))
    <2>1. PICK d \in 1..4 : Enter(d)
        BY <1>0, <1>1 DEF Wake, NextDirectory, At
    <2>. QED  BY <2>1, EnterEffect DEF At
<1>2. CASE Look
    <2>1. PICK f \in sweep.todo :
             IF f \in files
             THEN sweep' = [at |-> "stat", dir |-> sweep.dir, cutoff |-> sweep.cutoff,
                            todo |-> sweep.todo \ {f}, cur |-> f]
             ELSE Scan(sweep.dir, sweep.cutoff, sweep.todo \ {f})
        BY <1>2 DEF Look
    <2>2. ~At("asleep") /\ f \in Files /\ sweep.todo \ {f} \in SUBSET Files
        BY <1>0, <1>2, <2>1 DEF Look, At
    <2>3. /\ sweep' \in Sweep /\ sweep'.at \in {"scan", "stat"}
          /\ sweep'.cutoff = sweep.cutoff
        BY <1>0, <2>1, <2>2 DEF Scan, Sweep
    <2>. QED  BY <2>2, <2>3 DEF At
<1>3. CASE Stat /\ ~Enter(sweep.dir + 1)
    <2>1. At("stat") /\ ~At("asleep")
        BY <1>3 DEF Stat, At
    <2>2. CASE sweep' = [sweep EXCEPT !.at = "unlink"] /\ sweep.cur \in files
               /\ mtime[sweep.cur] < sweep.cutoff
        <3>1. /\ sweep' \in Sweep /\ sweep'.at = "unlink"
              /\ sweep'.cutoff = sweep.cutoff /\ sweep'.cur = sweep.cur
            BY <1>0, <2>1, <2>2 DEF Sweep, At
        <3>. QED  BY <2>1, <2>2, <3>1 DEF At
    <2>3. CASE Scan(sweep.dir, sweep.cutoff, sweep.todo)
        <3>1. /\ sweep' \in Sweep /\ sweep'.at = "scan" /\ sweep'.cutoff = sweep.cutoff
            BY <1>0, <2>1, <2>3 DEF Scan, Sweep
        <3>. QED  BY <2>1, <3>1 DEF At
    <2>. QED  BY <1>3, <2>2, <2>3 DEF Stat
<1>4. CASE Unlink
    <2>1. At("unlink") /\ ~At("asleep")
        BY <1>4 DEF Unlink, At
    <2>2. /\ sweep' \in Sweep /\ sweep'.at = "scan" /\ sweep'.cutoff = sweep.cutoff
        BY <1>0, <1>4, <2>1 DEF Unlink, Scan, Sweep
    <2>. QED  BY <2>1, <2>2 DEF At
<1>5. CASE SweepFault
    BY <1>5 DEF SweepFault, Asleep, At
<1>. QED  BY <1>1, <1>2, <1>3, <1>4, <1>5 DEF SweepStep, Stat

GetStep == Load \/ LoadFault \/ LoadArtifact \/ Exists \/ Read

\* What a client is told: bare or an error because a file is not there, unknown
\* because the hash is not.
LEMMA GetMoves ==
    ASSUME TypeOK, GetStep
    PROVE  /\ get' \in Gets
           /\ get'.at \in {"bare", "error"} =>
                 /\ get.of \in Artifacts
                 /\ get.of \notin files \/ (get.of = "pdf" /\ ~pdf)
           /\ get'.at = "unknown" => ~Found /\ (~row \/ LoadFault \/ LoadArtifact)
<1>1. /\ get.at \in {"exists", "read"} => get \in [at : {"exists", "read"}, of : Artifacts]
      /\ \A what \in {"served", "bare", "unknown", "error"} :
            Got(what) \in Gets /\ Got(what).at = what
      /\ \A f \in Artifacts : [at |-> "exists", of |-> f] \in Gets
    BY DEF TypeOK, Gets, Got
<1>2. CASE Load \/ LoadFault
    BY <1>1, <1>2 DEF Load, LoadFault, Artifacts
<1>3. CASE LoadArtifact
    BY <1>1, <1>3 DEF LoadArtifact
<1>4. CASE Exists
    <2>1. get \in [at : {"exists", "read"}, of : Artifacts]
        BY <1>1, <1>4 DEF Exists
    <2>2. [get EXCEPT !.at = "read"] \in Gets /\ [get EXCEPT !.at = "read"].at = "read"
        BY <2>1 DEF Gets
    <2>. QED  BY <1>1, <1>4, <2>1, <2>2 DEF Exists
<1>5. CASE Read
    BY <1>1, <1>5 DEF Read
<1>. QED  BY <1>2, <1>3, <1>4, <1>5 DEF GetStep

----------------------------------------------------------------------------
(* Types *)

\* Every step keeps the types.
LEMMA TypeStep ==
    ASSUME RetentionInv, [Next]_vars
    PROVE  TypeOK'
<1>. USE RetentionAssumption DEF RetentionInv, TypeOK, disk, hash
<1>1. CASE Tick
    BY <1>1 DEF Tick
<1>2. CASE RunStep \/ BreakOff
    <2>1. UNCHANGED <<now, sweep, get>>
        BY <1>2 DEF RunStep, BreakOff, Upload, Submit, Start, Open, Markdown, Pdf, Result,
                    Save, Complete, Fail
    <2>2. /\ files' \subseteq Files
          /\ mtime' \in [Files -> {Never} \cup 0..now]
          /\ \A f \in files' : mtime'[f] # Never
        <3>1. CASE UNCHANGED <<files, mtime>>
            BY <3>1
        <3>2. CASE \E f \in Files : Write(f)
            BY <3>2 DEF Write, Never
        <3>. QED  BY <1>2, <3>1, <3>2 DEF RunStep, BreakOff, Upload, Submit, Start, Open,
                    Markdown, Pdf, Result, Save, Complete, Fail, Files
    <2>3. /\ status' \in {"NONE", "QUEUED", "PROCESSING", "COMPLETED", "FAILED"}
          /\ until' \in 0..(now + TTL) /\ whole' \in BOOLEAN
        <3>1. CASE UNCHANGED <<status, until, whole>>
            BY <3>1
        <3>2. CASE \E s \in {"QUEUED", "PROCESSING", "COMPLETED", "FAILED"} : SetStatus(s)
            BY <3>2 DEF SetStatus
        <3>. QED  BY <1>2, <3>1, <3>2 DEF RunStep, BreakOff, Upload, Submit, Start, Open,
                    Markdown, Pdf, Result, Save, Complete, Fail
    <2>4. row' \in BOOLEAN /\ (row' => Database) /\ pdf' \in BOOLEAN
        <3>1. row' = row \/ (Database /\ row' = TRUE)
            BY <1>2 DEF RunStep, BreakOff, Upload, Submit, Start, Open, Markdown, Pdf, Result,
                    Save, Complete, Fail
        <3>2. pdf' = pdf \/ pdf' = TRUE \/ pdf' = FALSE
            BY <1>2 DEF RunStep, BreakOff, Upload, Submit, Start, Open, Markdown, Pdf, Result,
                    Save, Complete, Fail
        <3>3. row' \in BOOLEAN /\ pdf' \in BOOLEAN
            BY <3>1, <3>2
        <3>4. CASE row' = row
            BY <3>3, <3>4
        <3>5. CASE Database
            BY <3>3, <3>5
        <3>. QED  BY <3>1, <3>4, <3>5
    <2>5. run' \in Runs
        BY <1>2 DEF RunStep, BreakOff, Upload, Submit, Start, Open, Markdown, Pdf, Result,
                    Save, Complete, Fail, Runs
    <2>6. faults' \in 0..MaxFaults
        BY <1>2 DEF RunStep, BreakOff, Upload, Submit, Start, Open, Markdown, Pdf, Result,
                    Save, Complete, Fail, Fault
    <2>. QED  BY <2>1, <2>2, <2>3, <2>4, <2>5, <2>6
<1>3. CASE SweepStep \/ SweepFault
    <2>1. sweep' \in {Asleep} \cup Sweep
        BY <1>3, SweepMoves
    <2>2. UNCHANGED <<now, mtime, hash, row, run, pdf, get>> /\ files' \subseteq files
        BY <1>3 DEF SweepStep, SweepFault, Wake, Look, Stat, Unlink, NextDirectory
    <2>3. faults' \in 0..MaxFaults
        BY <1>3 DEF SweepStep, SweepFault, Wake, Look, Stat, Unlink, NextDirectory, Fault
    <2>. QED  BY <2>1, <2>2, <2>3
<1>4. CASE SweptElsewhere
    BY <1>4 DEF SweptElsewhere
<1>5. CASE GetStep
    <2>1. get' \in Gets
        BY <1>5, GetMoves
    <2>. QED  BY <1>5, <2>1 DEF GetStep, Load, LoadFault, LoadArtifact, Exists, Read, Fault
<1>6. CASE UNCHANGED vars
    BY <1>6 DEF vars
<1>. QED  BY <1>1, <1>2, <1>3, <1>4, <1>5, <1>6 DEF Next, GetStep

----------------------------------------------------------------------------
(* Files *)

\* Writing a file, or anything else a run does.
LEMMA RunWritesStep ==
    ASSUME RetentionInv, [Next]_vars
    PROVE  RunWrites'
<1>. USE RetentionAssumption DEF RetentionInv, TypeOK, Written, Never, Artifacts, disk, hash
<1>1. CASE UNCHANGED <<mtime, run, pdf, status, until>>
    BY <1>1 DEF RunWrites
<1>2. CASE RunStep
    <2>1. CASE Upload
        BY <2>1 DEF RunWrites, Upload, Write, Files
    <2>2. CASE Submit \/ Start \/ Fail
        BY <2>2 DEF RunWrites, Submit, Start, Fail, SetStatus, Files
    <2>3. CASE Open \/ Save
        BY <2>3 DEF RunWrites, Open, Save, Files
    <2>4. CASE Markdown
        BY <2>4 DEF RunWrites, Markdown, Write, Files
    <2>5. CASE Pdf
        BY <2>5 DEF RunWrites, Pdf, Write, Files
    <2>6. CASE Result
        BY <2>6 DEF RunWrites, Result, Write, Files
    <2>7. CASE Complete
        BY <2>7 DEF RunWrites, Complete, SetStatus, Files
    <2>. QED  BY <1>2, <2>1, <2>2, <2>3, <2>4, <2>5, <2>6, <2>7 DEF RunStep
<1>3. CASE BreakOff
    BY <1>3 DEF RunWrites, BreakOff
<1>4. CASE ~RunStep /\ ~BreakOff
    BY <1>1, <1>4 DEF Next, SweepStep, Tick, SweepFault, Wake, Look, Stat, Unlink,
        NextDirectory, SweptElsewhere, Load, LoadFault, LoadArtifact, Exists, Read, vars
<1>. QED  BY <1>2, <1>3, <1>4

\* A file that is written while a sweep is about to delete it is late.
LEMMA SweepsOldStep ==
    ASSUME RetentionInv, [Next]_vars
    PROVE  SweepsOld'
<1>. USE RetentionAssumption DEF RetentionInv, TypeOK
<1>1. /\ ~At("asleep") => sweep.cutoff \in Int
      /\ At("stat") \/ At("unlink") => sweep.cur \in Files
    BY SweepFields
<1>2. CASE SweepStep \/ SweepFault
    <2>1. UNCHANGED <<now, mtime, run>>
        BY <1>2 DEF SweepStep, SweepFault, Wake, Look, Stat, Unlink, NextDirectory, disk
    <2>2. ~At("asleep")' => sweep'.cutoff <= now - TTL
        BY <1>1, <1>2, SweepMoves DEF SweepsOld
    <2>3. ASSUME At("unlink")'
          PROVE  /\ run # "upload"
                 /\ now - mtime["upload"] > TTL
                 /\ now - mtime[sweep.cur] > TTL
                 /\ sweep'.cur = sweep.cur
        <3>1. /\ At("stat") /\ sweep.cur \in files /\ sweep'.cur = sweep.cur
              /\ mtime[sweep.cur] < sweep.cutoff
            BY <1>2, <2>3, SweepMoves
        <3>2. sweep.cur \in Files /\ Written(sweep.cur) /\ sweep.cutoff <= now - TTL
            BY <1>1, <3>1 DEF Written, SweepsOld, At
        <3>3. run # "upload" /\ Written("upload") /\ mtime["upload"] <= mtime[sweep.cur]
            BY <3>2 DEF RunWrites
        <3>. QED  BY <1>1, <3>1, <3>2, <3>3 DEF At, Written, Never, Files
    <2>. QED  BY <2>1, <2>2, <2>3 DEF SweepsOld, InTime
<1>3. CASE Tick
    <2>1. At("unlink") => sweep.cur \in Files /\ mtime[sweep.cur] \in Int
        BY <1>1 DEF Never
    <2>2. mtime["upload"] \in Int
        BY DEF Files, Never
    <2>. QED  BY <1>1, <1>3, <2>1, <2>2 DEF SweepsOld, Tick, At, InTime, disk
<1>4. ASSUME NEW f \in Files, Write(f), now' = now, UNCHANGED sweep,
             f = "upload" <=> run = "upload", run' # "upload"
      PROVE  SweepsOld'
    BY <1>1, <1>4 DEF SweepsOld, Write, At, InTime, Never, Files
<1>5. CASE RunStep
    <2>1. CASE UNCHANGED <<mtime, now, sweep>> /\ (run # "upload" => run' # "upload")
        BY <2>1 DEF SweepsOld, At, InTime
    <2>. QED  BY <1>4, <1>5, <2>1 DEF RunStep, Upload, Submit, Start, Open, Markdown, Pdf,
            Result, Save, Complete, Fail, disk, Files
<1>6. CASE ~RunStep /\ ~SweepStep /\ ~SweepFault /\ ~Tick
    <2>1. UNCHANGED <<mtime, now, sweep>> /\ (run # "upload" => run' # "upload")
        BY <1>6 DEF Next, BreakOff, SweptElsewhere, Load, LoadFault, LoadArtifact, Exists,
            Read, vars, disk
    <2>. QED  BY <2>1 DEF SweepsOld, At, InTime
<1>. QED  BY <1>2, <1>3, <1>5, <1>6

\* No deletion is early.
LEMMA FreshKeptStep ==
    ASSUME RetentionInv, [Next]_vars
    PROVE  FreshKept'
<1>. USE RetentionAssumption DEF RetentionInv, TypeOK, FreshKept, InTime
<1>1. \A f \in Files : mtime[f] \in Int
    BY DEF Never
<1>2. CASE Unlink
    BY <1>1, <1>2 DEF Unlink, SweepsOld, At
<1>3. CASE SweptElsewhere
    BY <1>1, <1>3 DEF SweptElsewhere
<1>4. CASE Tick
    BY <1>1, <1>4 DEF Tick, disk, Files
<1>5. ASSUME NEW f \in Files, Write(f), now' = now, f = "upload" <=> run = "upload"
      PROVE  FreshKept'
    BY <1>1, <1>5 DEF Write, RunWrites, Written, Files
<1>6. CASE UNCHANGED <<files, mtime, now>>
    BY <1>6
<1>7. CASE RunStep
    BY <1>5, <1>6, <1>7 DEF RunStep, Upload, Submit, Start, Open, Markdown, Pdf, Result,
        Save, Complete, Fail, disk, Files
<1>8. CASE ~RunStep /\ ~Unlink /\ ~SweptElsewhere /\ ~Tick
    BY <1>6, <1>8 DEF Next, BreakOff, SweepStep, SweepFault, Wake, Look, Stat,
        NextDirectory, Load, LoadFault, LoadArtifact, Exists, Read, vars, disk
<1>. QED  BY <1>2, <1>3, <1>4, <1>7, <1>8

----------------------------------------------------------------------------
(* The theorems *)

\* Before the upload there is nothing.
LEMMA RetentionInit == Init => RetentionInv
<1>. SUFFICES ASSUME Init PROVE RetentionInv
    OBVIOUS
<1>. USE RetentionAssumption DEF Init
<1>1. get \in Gets /\ sweep = Asleep /\ At("asleep")
    BY DEF Gets, Got, Asleep, At
<1>2. TypeOK
    <2>1. now \in 0..Horizon /\ until \in 0..(now + TTL) /\ faults \in 0..MaxFaults
        OBVIOUS
    <2>2. whole \in BOOLEAN /\ row \in BOOLEAN /\ (row => Database) /\ pdf \in BOOLEAN
        OBVIOUS
    <2>3. /\ files \subseteq Files /\ mtime \in [Files -> {Never} \cup 0..now]
          /\ \A f \in files : mtime[f] # Never
        OBVIOUS
    <2>4. /\ status \in {"NONE", "QUEUED", "PROCESSING", "COMPLETED", "FAILED"}
          /\ run \in Runs
        BY DEF Runs
    <2>. QED  BY <1>1, <2>1, <2>2, <2>3, <2>4 DEF TypeOK
<1>3. RunWrites /\ SweepsOld /\ FreshKept
    BY <1>1 DEF RunWrites, SweepsOld, FreshKept, Written, At
<1>. QED  BY <1>2, <1>3 DEF RetentionInv

\* The invariant of a job's traces holds in every reachable state.
THEOREM RetentionInductive == Spec => []RetentionInv
<1>1. ASSUME RetentionInv, [Next]_vars PROVE RetentionInv'
    BY <1>1, TypeStep, RunWritesStep, SweepsOldStep, FreshKeptStep DEF RetentionInv
<1>. QED  BY RetentionInit, <1>1, PTL DEF Spec

\* Every variable keeps its type: no file exists that was never written.
THEOREM RetentionTypes == Spec => []TypeOK
<1>1. RetentionInv => TypeOK
    BY DEF RetentionInv
<1>. QED  BY RetentionInductive, <1>1, PTL

\* retention.py:9: no sweep deletes a file within the retention window.
THEOREM FreshStays == Spec => []FreshKept
<1>1. RetentionInv => FreshKept
    BY DEF RetentionInv
<1>. QED  BY RetentionInductive, <1>1, PTL

\* main.py:291, main.py:337: a client of a COMPLETED job gets what its run made until
\* that is as old as the window, and the row knows the job after the hash.
THEOREM CompletedStays == Spec => CompletedIsServed
<1> DEFINE Served ==
      status = "COMPLETED" /\ get' # get =>
          /\ get'.at \in {"bare", "error"} /\ whole =>
                \/ get.of = "pdf" /\ ~pdf
                \/ InTime(get.of) => now - mtime[get.of] >= TTL
          /\ get'.at = "unknown" =>
                /\ whole => now - mtime["result"] >= TTL
                /\ ~row \/ LoadFault \/ LoadArtifact
<1>1. ASSUME RetentionInv, [Next]_vars PROVE Served
    <2>. SUFFICES ASSUME status = "COMPLETED", get' # get PROVE Served
        OBVIOUS
    <2>1. GetStep
        BY <1>1 DEF Next, vars, GetStep, RunStep, SweepStep, Tick, Upload, Submit, Start,
            Open, Markdown, Pdf, Result, Save, Complete, Fail, BreakOff, Wake, Look, Stat,
            Unlink, NextDirectory, SweepFault, SweptElsewhere
    <2>2. ASSUME get'.at \in {"bare", "error"}, ~(get.of = "pdf" /\ ~pdf), InTime(get.of)
          PROVE  now - mtime[get.of] >= TTL
        <3>1. get.of \in Artifacts /\ get.of \notin files
            BY <1>1, <2>1, <2>2, GetMoves DEF RetentionInv
        <3>2. mtime[get.of] # Never /\ get.of \in Files
            BY <1>1, <2>2, <3>1 DEF RetentionInv, RunWrites, Written, Artifacts, Files
        <3>3. now - mtime[get.of] > TTL
            BY <1>1, <2>2, <3>1, <3>2 DEF RetentionInv, FreshKept
        <3>. QED  BY <1>1, <3>2, <3>3, RetentionAssumption DEF RetentionInv, TypeOK, Never
    <2>3. ASSUME get'.at = "unknown"
          PROVE  now - mtime["result"] >= TTL \/ ~whole
        <3>1. ~Found
            BY <1>1, <2>1, <2>3, GetMoves DEF RetentionInv
        <3>2. until >= mtime["result"] + TTL /\ mtime["result"] \in Int
            BY <1>1 DEF RetentionInv, RunWrites, TypeOK, Never, Files
        <3>. QED  BY <1>1, <3>1, <3>2, RetentionAssumption
                  DEF Found, HashGone, RetentionInv, TypeOK
    <2>4. get'.at = "unknown" => ~row \/ LoadFault \/ LoadArtifact
        BY <1>1, <2>1, GetMoves DEF RetentionInv
    <2>. QED  BY <2>2, <2>3, <2>4
<1>2. CompletedIsServed <=> [][Served]_vars
    BY DEF CompletedIsServed
<1>. QED  BY RetentionInductive, <1>1, <1>2, PTL DEF Spec
=============================================================================
