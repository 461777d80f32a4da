----------------------------- MODULE ExportJobs -----------------------------
(***************************************************************************)
(* The file exports of one employee (employee/exports/): a request that    *)
(* counts and inserts, a detached worker per job, and the hourly cleanup,  *)
(* which is the only recovery from a crash.  Every statement stands alone. *)
(* What is exported, and the notification itself, are left out.            *)
(***************************************************************************)
EXTENDS Integers, FiniteSets

CONSTANTS Jobs,      \* the rows' ids
          Creators,  \* concurrent create requests
          MaxActive  \* MAX_ACTIVE_JOBS_PER_EMPLOYEE

ASSUME ExportAssumption == MaxActive \in Nat /\ IsFiniteSet(Jobs)

VARIABLES row,      \* export_jobs
          stored,   \* the objects in the bucket
          worker,   \* the detached promise of each job
          told,     \* what its employee was last notified of
          creator,  \* where each create request is
          sweep,    \* the expired rows the cleanup found, and its step
          trouble   \* history: overlapping creates, late workers, faults

exportVars == <<row, stored, worker, told, creator, sweep, trouble>>

Active == {"pending", "processing"}
Statuses == Active \cup {"ready", "failed", "expired"}

Absent == [status |-> "absent", key |-> FALSE, stale |-> FALSE, due |-> FALSE, old |-> FALSE]
Asleep == [step |-> "asleep", found |-> {}]

ExportTypeOK ==
  /\ row \in [Jobs -> [status : Statuses \cup {"absent", "purged"}, key : BOOLEAN, stale : BOOLEAN,
                       due : BOOLEAN, old : BOOLEAN]]
  /\ \A j \in Jobs : row[j].status = "ready" => row[j].key
  /\ stored \subseteq Jobs
  /\ worker \in [Jobs -> {"none", "begin", "generate", "upload", "finish", "fail"}]
  /\ told \in [Jobs -> {"nothing", "ready", "failed"}]
  /\ creator \in [Creators -> {"count", "insert"}]
  /\ sweep \in [step : {"asleep", "expire", "recover", "purge"}, found : SUBSET Jobs]
  /\ trouble \subseteq {"creates", "late", "crash", "write", "delete"}

ExportInit ==
  /\ row = [j \in Jobs |-> Absent] /\ stored = {} /\ worker = [j \in Jobs |-> "none"]
  /\ told = [j \in Jobs |-> "nothing"] /\ creator = [c \in Creators |-> "count"]
  /\ sweep = Asleep /\ trouble = {}

-----------------------------------------------------------------------------
In(statuses) == {j \in Jobs : row[j].status \in statuses}

\* Every UPDATE of a row renews updated_at; one of a purged row finds nothing.
Update(j, fields) ==
  row' = IF row[j].status \in Statuses THEN [row EXCEPT ![j] = fields] ELSE row

Work(j, step) == worker' = [worker EXCEPT ![j] = step]

\* create counts ...  Mutant: one more is let through.
RoomForOneMore == Cardinality(In(Active)) <= MaxActive
Room == Cardinality(In(Active)) < MaxActive

CountActive(c) ==
  /\ creator[c] = "count" /\ Room
  /\ creator' = [creator EXCEPT ![c] = "insert"]
  /\ trouble' = IF \E d \in Creators : creator[d] = "insert" THEN trouble \cup {"creates"} ELSE trouble
  /\ UNCHANGED <<row, stored, worker, told, sweep>>

\* ... inserts, and lets the worker go.
InsertJob(c, j) ==
  /\ creator[c] = "insert" /\ row[j] = Absent
  /\ row' = [row EXCEPT ![j] = [Absent EXCEPT !.status = "pending"]]
  /\ Work(j, "begin") /\ creator' = [creator EXCEPT ![c] = "count"]
  /\ UNCHANGED <<stored, told, sweep, trouble>>

-----------------------------------------------------------------------------
(* run *)

MarkProcessing(j) ==
  /\ worker[j] = "begin"
  /\ Update(j, [row[j] EXCEPT !.status = "processing", !.stale = FALSE])
  /\ Work(j, "generate")
  /\ UNCHANGED <<stored, told, creator, sweep, trouble>>

Generate(j) ==
  /\ worker[j] = "generate"
  /\ \/ Work(j, "upload") \/ Work(j, "fail")
  /\ UNCHANGED <<row, stored, told, creator, sweep, trouble>>

Upload(j) ==
  /\ worker[j] = "upload"
  /\ \/ stored' = stored \cup {j} /\ Work(j, "finish")
     \/ stored' = stored /\ Work(j, "fail")
  /\ UNCHANGED <<row, told, creator, sweep, trouble>>

\* The row becomes ready whatever it is now.
ReadyFields(j) == [row[j] EXCEPT !.status = "ready", !.key = TRUE, !.due = FALSE, !.stale = FALSE]

MarkReady(j) ==
  /\ worker[j] = "finish"
  /\ Update(j, ReadyFields(j)) /\ Work(j, "none")
  /\ told' = [told EXCEPT ![j] = "ready"]
  /\ UNCHANGED <<stored, creator, sweep, trouble>>

\* The write of a ready row fails, and the catch block runs.
MissReady(j) ==
  /\ worker[j] = "finish" /\ Work(j, "fail")
  /\ trouble' = trouble \cup {"write"}
  /\ UNCHANGED <<row, stored, told, creator, sweep>>

MarkFailed(j) ==
  /\ worker[j] = "fail"
  /\ Update(j, [row[j] EXCEPT !.status = "failed", !.stale = FALSE]) /\ Work(j, "none")
  /\ told' = [told EXCEPT ![j] = "failed"]
  /\ UNCHANGED <<stored, creator, sweep, trouble>>

\* The first write and the one of the catch block are outside the try: one that
\* fails ends the worker.
LoseWorker(j) ==
  /\ worker[j] \in {"begin", "fail"} /\ Work(j, "none")
  /\ trouble' = trouble \cup {"write"}
  /\ UNCHANGED <<row, stored, told, creator, sweep>>

\* The server restarts: every detached promise is gone, and so is the sweep.
Crash ==
  /\ \E j \in Jobs : worker[j] # "none"
  /\ worker' = [j \in Jobs |-> "none"] /\ sweep' = Asleep
  /\ creator' = [c \in Creators |-> "count"] /\ trouble' = trouble \cup {"crash"}
  /\ UNCHANGED <<row, stored, told>>

-----------------------------------------------------------------------------
(* ExportCleanupService.sweep *)

\* What the first step may touch.  Mutant: a file not yet expired.
OverdueOrReady(j) == row[j].status = "ready"
Overdue(j) == row[j].status = "ready" /\ row[j].due

StartSweep ==
  /\ sweep.step = "asleep"
  /\ sweep' = [step |-> "expire", found |-> {j \in Jobs : Overdue(j)}]
  /\ UNCHANGED <<row, stored, worker, told, creator, trouble>>

\* deleteObject swallows its errors.
DeleteObject(j) ==
  /\ sweep.step = "expire" /\ j \in sweep.found /\ j \in stored
  /\ \/ stored' = stored \ {j} /\ UNCHANGED <<sweep, row, trouble>>
     \/ /\ trouble' = trouble \cup {"delete"} /\ UNCHANGED stored
        /\ Update(j, [row[j] EXCEPT !.status = "expired", !.stale = FALSE])
        /\ sweep' = [sweep EXCEPT !.found = @ \ {j}]
  /\ UNCHANGED <<worker, told, creator>>

MarkExpired(j) ==
  /\ sweep.step = "expire" /\ j \in sweep.found /\ j \notin stored
  /\ Update(j, [row[j] EXCEPT !.status = "expired", !.stale = FALSE])
  /\ sweep' = [sweep EXCEPT !.found = @ \ {j}]
  /\ UNCHANGED <<stored, worker, told, creator, trouble>>

ExpiredAll ==
  /\ sweep.step = "expire" /\ sweep.found = {}
  /\ sweep' = [sweep EXCEPT !.step = "recover"]
  /\ UNCHANGED <<row, stored, worker, told, creator, trouble>>

\* Mutants: only a job that began; whatever its status.
OrphansBegun == {j \in In({"processing"}) : row[j].stale}
OrphansAny == {j \in In(Statuses) : row[j].stale}
Orphans == {j \in In(Active) : row[j].stale}

FailOrphans ==
  /\ sweep.step = "recover"
  /\ row' = [j \in Jobs |-> IF j \in Orphans
                            THEN [row[j] EXCEPT !.status = "failed", !.stale = FALSE] ELSE row[j]]
  /\ sweep' = [sweep EXCEPT !.step = "purge"]
  /\ UNCHANGED <<stored, worker, told, creator, trouble>>

Purgeable(j) == row[j].status \in {"expired", "failed"} /\ row[j].old

Purge ==
  /\ sweep.step = "purge"
  /\ row' = [j \in Jobs |-> IF Purgeable(j) THEN [Absent EXCEPT !.status = "purged"] ELSE row[j]]
  /\ sweep' = Asleep
  /\ UNCHANGED <<stored, worker, told, creator, trouble>>

-----------------------------------------------------------------------------
(* Time: a job untouched for 30 minutes, a file past its day, a row of a month *)

GrowStale(j) ==
  /\ row[j].status \in Statuses /\ ~row[j].stale
  /\ row' = [row EXCEPT ![j].stale = TRUE]
  /\ trouble' = IF worker[j] = "none" THEN trouble ELSE trouble \cup {"late"}
  /\ UNCHANGED <<stored, worker, told, creator, sweep>>

FallDue(j) ==
  /\ row[j].status = "ready" /\ ~row[j].due
  /\ row' = [row EXCEPT ![j].due = TRUE]
  /\ UNCHANGED <<stored, worker, told, creator, sweep, trouble>>

\* No worker runs for a month, and no file is kept for one.
GrowOld(j) ==
  /\ row[j].status \in Statuses /\ ~row[j].old /\ worker[j] = "none"
  /\ row[j].status = "ready" => row[j].due
  /\ row' = [row EXCEPT ![j].old = TRUE]
  /\ UNCHANGED <<stored, worker, told, creator, sweep, trouble>>

\* A download request changes nothing; this is when it gets its link.
Downloadable(j) == row[j].status = "ready" /\ row[j].key /\ ~row[j].due

Cleanup == \/ StartSweep \/ ExpiredAll \/ FailOrphans \/ Purge
           \/ \E j \in Jobs : DeleteObject(j) \/ MarkExpired(j)

Run(j) == MarkProcessing(j) \/ Generate(j) \/ Upload(j) \/ MarkReady(j) \/ MissReady(j)
          \/ MarkFailed(j) \/ LoseWorker(j)

ExportNext ==
  \/ \E c \in Creators : CountActive(c) \/ \E j \in Jobs : InsertJob(c, j)
  \/ \E j \in Jobs : Run(j) \/ GrowStale(j) \/ FallDue(j) \/ GrowOld(j)
  \/ Cleanup \/ Crash

\* Time passes and the cron fires: nothing is asked of the workers, which a
\* restart may kill.
ExportSpec ==
  /\ ExportInit /\ [][ExportNext]_exportVars
  /\ WF_exportVars(Cleanup) /\ \A j \in Jobs : WF_exportVars(GrowStale(j)) /\ WF_exportVars(FallDue(j))

-----------------------------------------------------------------------------
(* Properties *)

\* Whoever gets a download link gets a file, whatever the sweep is doing.
DownloadsFindTheirFile == \A j \in Jobs : Downloadable(j) => j \in stored

\* An employee never has more than MaxActive exports under way, unless two
\* requests counted before either inserted, or a worker comes back to a job the
\* sweep had given up.
WithinActiveLimit ==
  trouble \cap {"creates", "late"} = {} => Cardinality(In(Active)) <= MaxActive

\* What the employee was told of a job stands: nothing later makes a finished
\* export fail or a failed one anything else.
ToldStands ==
  \A j \in Jobs : told[j] # "nothing" =>
    row[j].status \in IF told[j] = "ready" THEN {"ready", "expired", "purged"} ELSE {"failed", "purged"}

\* No file outlives its row: one in the bucket belongs to a worker or to a row
\* that the sweep will still clean up, faults aside.
NoFileLeaks ==
  trouble \cap {"late", "crash", "write", "delete"} = {} =>
    \A j \in stored : worker[j] = "finish" \/ (row[j].status = "ready" /\ row[j].key)

\* The invariant of rows and bucket: well formed, no link without its file and no
\* file without its row.
ExportInv == ExportTypeOK /\ DownloadsFindTheirFile /\ NoFileLeaks

\* A job whose worker a restart has killed does not stay under way for ever.
JobsSettle == \A j \in Jobs : row[j].status \in Active ~> row[j].status \notin Active
=============================================================================
