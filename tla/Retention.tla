------------------------------ MODULE Retention ------------------------------
(***************************************************************************)
(* A job's traces and how long they last: the files the gateway and the    *)
(* worker write (common/storage.py, Worker._write_artifacts), the sweep of *)
(* every worker that deletes them by age (common/retention.py), the job    *)
(* hash with its TTL, the row in PostgreSQL (common/db.py), GET            *)
(* /v1/ocr/{job_id}, which looks for the result in three of them, and the  *)
(* downloads of the artifacts, which look in two.                          *)
(*                                                                         *)
(* Time passes in units of which the retention window has TTL.  One run of *)
(* the job goes on at a time; it may break off and start again.            *)
(***************************************************************************)
EXTENDS Integers, FiniteSets

CONSTANTS TTL,        \* result_ttl_days
          Database,   \* PostgreSQL is configured
          Horizon,    \* bound: the last moment
          MaxFaults   \* bound: runs that break off, sweeps and reads that raise

ASSUME RetentionAssumption ==
    /\ TTL \in Nat \ {0}
    /\ Database \in BOOLEAN
    /\ Horizon \in Nat /\ MaxFaults \in Nat

VARIABLES
    now,
    files,    \* the job's files that exist
    mtime,    \* when each was last written (Never: it was not)
    status,   \* the job hash: "status" ("NONE": submit() has not written it)
    until,    \* when the hash expires
    whole,    \* it names the job's tenant, as submit() wrote it
    row,      \* the job has a row in PostgreSQL
    run,      \* what the worker's run of the job does next
    pdf,      \* it has a PDF, whose path the hash will name
    sweep,    \* where a worker's sweep is
    get,      \* where the GET of a client is, or what it got
    faults

vars == <<now, files, mtime, status, until, whole, row, run, pdf, sweep, get, faults>>
disk == <<files, mtime>>
hash == <<status, until, whole>>

Files == {"upload", "result", "markdown", "pdf"}
Never == -1

\* The three directories, in the order sweep() visits them.
Directory(d) ==
    CASE d = 1 -> {"upload"} [] d = 2 -> {"result"} [] d = 3 -> {"markdown", "pdf"}

Runs    == {"upload", "submit", "queued", "open", "markdown", "pdf", "result",
            "save", "complete", "fail", "over"}
Asleep  == [at |-> "asleep"]
Sweep   == [at : {"scan"}, dir : 1..3, cutoff : Int, todo : SUBSET Files]
           \cup [at : {"stat", "unlink"}, dir : 1..3, cutoff : Int,
                 todo : SUBSET Files, cur : Files]

\* "served": the client has no request under way and got all there is to know from
\* the last one; "bare": the state of a COMPLETED job but no result; "unknown" is a
\* 404, "error" a 500.
Artifacts == {"result", "markdown", "pdf"}
Got(what) == [at |-> what]
Gets      == [at : {"exists", "read"}, of : Artifacts]
             \cup [at : {"served", "bare", "unknown", "error"}]

TypeOK ==
    /\ now \in 0..Horizon
    /\ files \subseteq Files
    /\ mtime \in [Files -> {Never} \cup 0..now]
    /\ \A f \in files : mtime[f] # Never
    /\ status \in {"NONE", "QUEUED", "PROCESSING", "COMPLETED", "FAILED"}
    /\ until \in 0..(now + TTL) /\ whole \in BOOLEAN
    /\ row \in BOOLEAN /\ (row => Database)
    /\ run \in Runs
    /\ sweep \in {Asleep} \cup Sweep
    /\ pdf \in BOOLEAN
    /\ get \in Gets
    /\ faults \in 0..MaxFaults

Init ==
    /\ now = 0
    /\ files = {} /\ mtime = [f \in Files |-> Never]
    /\ status = "NONE" /\ until = 0 /\ whole = FALSE
    /\ row = FALSE
    /\ run = "upload"
    /\ sweep = Asleep
    /\ pdf = FALSE
    /\ get = Got("served")
    /\ faults = 0

\* Time is counted from the upload.
Tick ==
    /\ now < Horizon /\ run # "upload"
    /\ now' = now + 1
    /\ UNCHANGED <<disk, hash, row, run, pdf, sweep, get, faults>>

Fault ==
    /\ faults < MaxFaults
    /\ faults' = faults + 1

----------------------------------------------------------------------------
(* The gateway's submit() and the worker's run *)

Write(f) ==
    /\ files' = files \cup {f}
    /\ mtime' = [mtime EXCEPT ![f] = now]

HashGone == now >= until

\* Mutant: the TTL is added to what is left of it.
SetStatusExtends(s) ==
    /\ status' = s
    /\ whole' = (s = "QUEUED" \/ (whole /\ ~HashGone))
    /\ until' = until + TTL

\* set_status(): the fields, and the TTL from now on.  A hash that has expired is
\* made anew, with no more than these fields.
SetStatus(s) ==
    /\ status' = s
    /\ whole' = (s = "QUEUED" \/ (whole /\ ~HashGone))
    /\ until' = now + TTL

Upload ==
    /\ run = "upload"
    /\ Write("upload")
    /\ run' = "submit"
    /\ UNCHANGED <<now, hash, row, pdf, sweep, get, faults>>

Submit ==
    /\ run = "submit"
    /\ SetStatus("QUEUED")
    /\ run' = "queued"
    /\ UNCHANGED <<now, disk, row, pdf, sweep, get, faults>>

\* _process() gets the job, for the first time or again.
Start ==
    /\ run = "queued"
    /\ IF HashGone THEN run' = "fail" /\ UNCHANGED hash
                   ELSE run' = "open" /\ SetStatus("PROCESSING")
    /\ UNCHANGED <<now, disk, row, pdf, sweep, get, faults>>

\* The document is opened and its pages recognised.
Open ==
    /\ run = "open"
    /\ run' = IF "upload" \in files THEN "markdown" ELSE "fail"
    /\ UNCHANGED <<now, disk, hash, row, pdf, sweep, get, faults>>

\* Mutant: the job is COMPLETED before its artifacts are written.
MarkdownLate ==
    /\ run = "markdown"
    /\ SetStatus("COMPLETED")
    /\ run' = "pdf"
    /\ UNCHANGED <<now, disk, row, pdf, sweep, get, faults>>

Markdown ==
    /\ run = "markdown"
    /\ Write("markdown")
    /\ run' = "pdf"
    /\ UNCHANGED <<now, hash, row, pdf, sweep, get, faults>>

\* build_searchable_pdf() reads the upload again; its errors are swallowed, and
\* a document without text has no PDF.
Pdf ==
    /\ run = "pdf"
    /\ \/ "upload" \in files /\ Write("pdf") /\ pdf' = TRUE
       \/ UNCHANGED disk /\ pdf' = FALSE
    /\ run' = "result"
    /\ UNCHANGED <<now, hash, row, sweep, get, faults>>

Result ==
    /\ run = "result"
    /\ Write("result")
    /\ run' = "save"
    /\ UNCHANGED <<now, hash, row, pdf, sweep, get, faults>>

\* save_result(): one transaction, whose errors are swallowed.
Save ==
    /\ run = "save"
    /\ \/ Database /\ row' = TRUE
       \/ UNCHANGED row
    /\ run' = "complete"
    /\ UNCHANGED <<now, disk, hash, pdf, sweep, get, faults>>

Complete ==
    /\ run = "complete"
    /\ SetStatus("COMPLETED")
    /\ run' = "over"
    /\ UNCHANGED <<now, disk, row, pdf, sweep, get, faults>>

Fail ==
    /\ run = "fail"
    /\ SetStatus("FAILED")
    /\ run' = "over"
    /\ UNCHANGED <<now, disk, row, pdf, sweep, get, faults>>

\* The worker dies or an error makes _fail() leave the job for a retry.
BreakOff ==
    /\ run \in {"open", "markdown", "pdf", "result", "save", "complete"}
    /\ Fault
    /\ run' = "queued"
    /\ UNCHANGED <<now, disk, hash, row, pdf, sweep, get>>

----------------------------------------------------------------------------
(* sweep() and purge_older_than() *)

At(where) == sweep.at = where

Scan(dir, cutoff, todo) ==
    sweep' = [at |-> "scan", dir |-> dir, cutoff |-> cutoff, todo |-> todo]

\* Mutant: the last directory is left out.
EnterTwo(d) == IF d <= 2 THEN Scan(d, now - TTL, files \cap Directory(d)) ELSE sweep' = Asleep

\* Mutant: the cutoff is the present moment.
EnterNow(d) == IF d <= 3 THEN Scan(d, now, files \cap Directory(d)) ELSE sweep' = Asleep

\* The cutoff and the listing of the next directory; after the last one the loop
\* sleeps.
Enter(d) == IF d <= 3 THEN Scan(d, now - TTL, files \cap Directory(d)) ELSE sweep' = Asleep

\* retention_sweep_hours are over.
Wake ==
    /\ At("asleep")
    /\ Enter(1)
    /\ UNCHANGED <<now, disk, hash, row, run, pdf, get, faults>>

\* path.is_file()
Look ==
    /\ At("scan")
    /\ \E f \in sweep.todo :
          LET rest == sweep.todo \ {f} IN
          IF f \in files
          THEN sweep' = [at |-> "stat", dir |-> sweep.dir, cutoff |-> sweep.cutoff,
                         todo |-> rest, cur |-> f]
          ELSE Scan(sweep.dir, sweep.cutoff, rest)
    /\ UNCHANGED <<now, disk, hash, row, run, pdf, get, faults>>

\* path.stat() raises when another worker's sweep was faster; the rest of the
\* directory is then left for the next time.
Stat ==
    /\ At("stat")
    /\ \/ sweep.cur \notin files /\ Enter(sweep.dir + 1)
       \/ /\ sweep.cur \in files /\ mtime[sweep.cur] < sweep.cutoff
          /\ sweep' = [sweep EXCEPT !.at = "unlink"]
       \/ /\ sweep.cur \in files /\ mtime[sweep.cur] >= sweep.cutoff
          /\ Scan(sweep.dir, sweep.cutoff, sweep.todo)
    /\ UNCHANGED <<now, disk, hash, row, run, pdf, get, faults>>

\* unlink(missing_ok=True)
Unlink ==
    /\ At("unlink")
    /\ files' = files \ {sweep.cur}
    /\ Scan(sweep.dir, sweep.cutoff, sweep.todo)
    /\ UNCHANGED <<now, mtime, hash, row, run, pdf, get, faults>>

NextDirectory ==
    /\ At("scan") /\ sweep.todo = {}
    /\ Enter(sweep.dir + 1)
    /\ UNCHANGED <<now, disk, hash, row, run, pdf, get, faults>>

\* usage_bytes(), before and after a directory's purge, is outside the try: when a
\* file vanishes under it, all of the sweep is over.
SweepFault ==
    /\ At("scan") /\ sweep.todo = {}
    /\ Fault
    /\ sweep' = Asleep
    /\ UNCHANGED <<now, disk, hash, row, run, pdf, get>>

\* The sweep of another worker deletes a file.
SweptElsewhere ==
    /\ \E f \in files : now - mtime[f] > TTL /\ files' = files \ {f}
    /\ UNCHANGED <<now, mtime, hash, row, run, pdf, sweep, get, faults>>

----------------------------------------------------------------------------
(* GET /v1/ocr/{job_id} *)

Reading == get.at \in {"exists", "read"}

\* _load_job() finds the hash with the client's tenant.  (The tenant is not
\* "default", which a hash without one is taken for.)
Found == ~HashGone /\ whole

\* Without the hash PostgreSQL is asked; a COMPLETED job's file is looked for.
Load ==
    /\ ~Reading
    /\ status # "NONE"
    /\ get' = CASE ~Found /\ ~row                -> Got("unknown")
                [] Found /\ status = "COMPLETED" -> [at |-> "exists", of |-> "result"]
                [] OTHER                         -> Got("served")
    /\ UNCHANGED <<now, disk, hash, row, run, pdf, sweep, faults>>

\* get_result() swallows the errors of a read, too.
LoadFault ==
    /\ ~Reading
    /\ status # "NONE" /\ ~Found
    /\ Fault
    /\ get' = Got("unknown")
    /\ UNCHANGED <<now, disk, hash, row, run, pdf, sweep>>

\* _artifact(): GET .../text, .../markdown and .../pdf do without PostgreSQL, and
\* tell the status of a job that is not COMPLETED.
LoadArtifact ==
    /\ ~Reading
    /\ status # "NONE"
    /\ \/ ~Found /\ get' = Got("unknown")
       \/ Found /\ status # "COMPLETED" /\ get' = Got("served")
       \/ /\ Found /\ status = "COMPLETED"
          /\ \E f \in Artifacts : get' = [at |-> "exists", of |-> f]
    /\ UNCHANGED <<now, disk, hash, row, run, pdf, sweep, faults>>

\* path.exists(), of a path that the hash names.  Without the file the client gets
\* the state and no text, or a 404.
Exists ==
    /\ get.at = "exists"
    /\ get' = IF get.of \in files /\ (get.of = "pdf" => pdf)
              THEN [get EXCEPT !.at = "read"] ELSE Got("bare")
    /\ UNCHANGED <<now, disk, hash, row, run, pdf, sweep, faults>>

\* path.read_text() or FileResponse; the file may have gone since.
Read ==
    /\ get.at = "read"
    /\ get' = Got(IF get.of \in files THEN "served" ELSE "error")
    /\ UNCHANGED <<now, disk, hash, row, run, pdf, sweep, faults>>

----------------------------------------------------------------------------
RunStep == \/ Upload \/ Submit \/ Start \/ Open \/ Markdown \/ Pdf \/ Result
           \/ Save \/ Complete \/ Fail

SweepStep == Wake \/ Look \/ Stat \/ Unlink \/ NextDirectory

Next ==
    \/ Tick \/ RunStep \/ BreakOff
    \/ SweepStep \/ SweepFault \/ SweptElsewhere
    \/ Load \/ LoadFault \/ LoadArtifact \/ Exists \/ Read

Spec == Init /\ [][Next]_vars

\* The worker's retention loop goes on and wakes up again and again.
FairSpec == Spec /\ WF_vars(SweepStep)

----------------------------------------------------------------------------
(* Properties *)

\* retention.py:12: "nothing in flight is that old".  The file was written while
\* its job was no older than the window.
InTime(f) == mtime[f] - mtime["upload"] <= TTL

\* retention.py:9: no sweep deletes a file within the retention window, however
\* long it takes and whatever is written under its hands.
FreshKept ==
    \A f \in Files :
        mtime[f] # Never /\ f \notin files /\ InTime(f) => now - mtime[f] > TTL

\* main.py:291, main.py:337: the files, the hash and the row expire apart.  If a
\* job is COMPLETED before its hash expires, a client gets the result and whatever
\* else the run made until it is as old as the window; and the job itself is
\* unknown only if no row was saved or the read failed.
CompletedIsServed ==
    [][status = "COMPLETED" /\ get' # get =>
          /\ get'.at \in {"bare", "error"} /\ whole =>
                \/ get.of = "pdf" /\ ~pdf
                \/ InTime(get.of) => now - mtime[get.of] >= TTL
          /\ get'.at = "unknown" =>
                /\ whole => now - mtime["result"] >= TTL
                /\ ~row \/ LoadFault \/ LoadArtifact]_vars

\* retention.py:1: "keeps the blob store from growing forever": files that have
\* outlived the window go, though sweepers make each other fail.
OldFilesGo ==
    []<>(run = "over" => \A f \in files : now - mtime[f] <= TTL)

----------------------------------------------------------------------------
(* The inductive invariant behind FreshKept and CompletedIsServed *)

Written(f) == mtime[f] # Never

\* A run writes its files one after the other, all of them after the upload, and
\* is over once it has made the job COMPLETED; then the hash outlives the result.
RunWrites ==
    /\ run = "upload" => \A f \in Files : ~Written(f)
    /\ run # "upload" =>
          Written("upload") /\ \A f \in Files : Written(f) => mtime["upload"] <= mtime[f]
    /\ run \in {"pdf", "result", "save", "complete"} => Written("markdown")
    /\ run \in {"result", "save", "complete"} => (pdf => Written("pdf"))
    /\ run \in {"save", "complete"} => Written("result")
    /\ status = "COMPLETED" =>
          /\ run = "over"
          /\ \A f \in Artifacts : Written(f) \/ (f = "pdf" /\ ~pdf)
          /\ until >= mtime["result"] + TTL

\* What a sweep is about to delete was older than the window when it was looked at.
\* If it has been written since, that was too late to count as in time.
SweepsOld ==
    /\ ~At("asleep") => sweep.cutoff <= now - TTL
    /\ At("unlink") => /\ run # "upload"
                       /\ now - mtime["upload"] > TTL
                       /\ InTime(sweep.cur) => now - mtime[sweep.cur] > TTL

RetentionInv ==
    /\ TypeOK
    /\ RunWrites
    /\ SweepsOld
    /\ FreshKept
==============================================================================
