---------------------------- MODULE CronService ----------------------------
(***************************************************************************)
(* The cron service: its jobs, their timers, their executions and the file *)
(* they are kept in (src/cron/service.ts, executor.ts, persistence.ts).    *)
(*                                                                         *)
(* Once the jobs file is in memory the persistence methods await nothing   *)
(* that takes time, so each operation of the service is one step.  What    *)
(* takes time is an execution, which races a timeout, and a save, which    *)
(* runs some time after the change and lets other changes in between.      *)
(*                                                                         *)
(* Of a job's data the model keeps whether it is enabled, a version that   *)
(* stands for every other field, whether JobDataSchema accepts it when it  *)
(* is read back, and whether nodeCron.schedule() does: addJob() and        *)
(* updateJob() take any time zone, node-cron throws on one it does not     *)
(* know, and the schema has a list of its own.                             *)
(***************************************************************************)
EXTENDS Naturals, FiniteSets

CONSTANTS Job,         \* job ids
          Run,         \* executions that may be going on at once
          Writer,      \* writes of the file that may be going on at once
          MaxVersion,  \* bound: versions of a job's data
          MaxRestarts  \* bound: restarts of the process

ASSUME BoundsAssumption == MaxVersion \in Nat /\ MaxRestarts \in Nat

VARIABLES
  up,       \* is the service "up", "stopping", "stopped" or "down"
  jobs,     \* the cached jobs
  used,     \* job ids given out; an id is drawn once
  tasks,    \* the node-cron task of a job: the data its callback captured
  running,  \* jobs with an entry in runningJobs
  run,      \* the executions
  dirty,    \* the cache has changes to write
  timer,    \* the debounced save is pending
  write,    \* the writes of the file going on
  disk,     \* the file
  restarts

service  == <<up, jobs, used, tasks, restarts>>
executor == <<running, run>>
storage  == <<dirty, timer, write, disk>>
vars     == <<service, executor, storage>>

JobData == [enabled : BOOLEAN, version : 0..MaxVersion,
            loadable : BOOLEAN, schedulable : BOOLEAN]
NoJob   == [enabled |-> FALSE, loadable |-> FALSE]
NoJobs  == [j \in Job |-> NoJob]
Jobs    == [Job -> JobData \cup {NoJob}]

Idle == [state |-> "idle", by |-> "none", jobs |-> NoJobs]

TypeOK ==
  /\ up \in {"up", "stopping", "stopped", "down"}
  /\ jobs \in Jobs /\ tasks \in Jobs /\ disk \in Jobs
  /\ used \subseteq Job /\ running \subseteq Job
  /\ run \in [Run -> [state : {"working", "late"}, job : Job] \cup {[state |-> "idle"]}]
  /\ dirty \in BOOLEAN /\ timer \in BOOLEAN
  /\ write \in [Writer -> [state : {"idle", "preparing", "writing"},
                       by : {"none", "timer", "stop"}, jobs : Jobs]]
  /\ restarts \in 0..MaxRestarts

Exists(j) == jobs[j] # NoJob
EnabledIn(data) == [j \in Job |-> IF data[j].enabled THEN data[j] ELSE NoJob]

-----------------------------------------------------------------------------
\* A first start: initialize() finds no file and saves an empty one.
Init ==
  /\ up = "up"
  /\ jobs = NoJobs /\ used = {} /\ tasks = NoJobs
  /\ running = {} /\ run = [r \in Run |-> [state |-> "idle"]]
  /\ dirty = TRUE /\ timer = TRUE
  /\ write = [w \in Writer |-> Idle]
  /\ disk = NoJobs
  /\ restarts = 0

\* persistence.save(): the cache is dirty and the debounce timer starts anew.
Save(data) ==
  /\ jobs' = data
  /\ dirty' = TRUE /\ timer' = TRUE

\* scheduleJob(): the old task goes first; when nodeCron.schedule() throws there
\* is no new one, and the operation throws to its caller with the job saved.
Schedule(j, data) ==
  tasks' = [tasks EXCEPT ![j] = IF data.schedulable THEN data ELSE NoJob]

\* Another version is another time zone or schedule; without one only the
\* enabled flag differs.
Edited(old) == {data \in JobData :
  \/ data.version = old.version + 1
  \/ data = [old EXCEPT !.enabled = data.enabled]}

AddJob(j) ==
  /\ up = "up" /\ j \notin used
  /\ used' = used \cup {j}
  /\ \E data \in JobData :
       /\ data.enabled /\ data.version = 0
       /\ Save([jobs EXCEPT ![j] = data])
       /\ Schedule(j, data)
  /\ UNCHANGED <<up, restarts, executor, write, disk>>

\* Faulty variant: the task of an enabled job is left as it was.
UpdateJobKeepingTask(j) ==
  /\ up = "up" /\ Exists(j)
  /\ \E data \in Edited(jobs[j]) : Save([jobs EXCEPT ![j] = data])
  /\ UNCHANGED <<up, used, tasks, restarts, executor, write, disk>>

\* updateJob(): a new schedule cancels the task, an enabled job gets a new one.
\* A job that the update disables keeps its task.
UpdateJob(j) ==
  /\ up = "up" /\ Exists(j)
  /\ \E data \in Edited(jobs[j]), reschedule \in BOOLEAN :
       /\ reschedule => data.version > jobs[j].version
       /\ Save([jobs EXCEPT ![j] = data])
       /\ \/ data.enabled /\ Schedule(j, data)
          \/ ~data.enabled /\ reschedule /\ tasks' = [tasks EXCEPT ![j] = NoJob]
          \/ ~data.enabled /\ ~reschedule /\ UNCHANGED tasks
  /\ UNCHANGED <<up, used, restarts, executor, write, disk>>

RemoveJob(j) ==
  /\ up = "up" /\ Exists(j)
  /\ tasks' = [tasks EXCEPT ![j] = NoJob]
  /\ Save([jobs EXCEPT ![j] = NoJob])
  /\ UNCHANGED <<up, used, restarts, executor, write, disk>>

\* toggleJob(): a disabled job loses its task, an enabled one gets a new one.
ToggleJob(j) ==
  /\ up = "up" /\ Exists(j)
  /\ \E enabled \in BOOLEAN :
       LET data == [jobs[j] EXCEPT !.enabled = enabled]
       IN  /\ Save([jobs EXCEPT ![j] = data])
           /\ \/ enabled /\ Schedule(j, data)
              \/ ~enabled /\ tasks' = [tasks EXCEPT ![j] = NoJob]
  /\ UNCHANGED <<up, used, restarts, executor, write, disk>>

-----------------------------------------------------------------------------
(* Executions.                                                             *)

\* executeJob(): a job with an entry in runningJobs is skipped.
Execute(j) ==
  /\ j \notin running
  /\ running' = running \cup {j}
  /\ \E r \in Run :
       /\ run[r].state = "idle"
       /\ run' = [run EXCEPT ![r] = [state |-> "working", job |-> j]]
  /\ UNCHANGED <<service, storage>>

\* The task of j fires.
Tick(j) == up = "up" /\ tasks[j] # NoJob /\ Execute(j)

RunJobNow(j) == up = "up" /\ jobs[j].enabled /\ Execute(j)

\* Faulty variant: the entry in runningJobs is not deleted in the finally block.
CompleteRegistered(r) ==
  /\ run[r].state = "working"
  /\ run' = [run EXCEPT ![r] = [state |-> "idle"]]
  /\ UNCHANGED <<running, service, storage>>

\* The work ends, well or badly, before its timeout.
Complete(r) ==
  /\ run[r].state = "working"
  /\ run' = [run EXCEPT ![r] = [state |-> "idle"]]
  /\ running' = running \ {run[r].job}
  /\ UNCHANGED <<service, storage>>

\* Faulty variant: no timeout is set.
NoTimeout(r) == run[r].state = "working" /\ UNCHANGED vars

\* The timeout wins the race: the execution has failed; the work goes on.
Timeout(r) ==
  /\ run[r].state = "working"
  /\ run' = [run EXCEPT ![r].state = "late"]
  /\ running' = running \ {run[r].job}
  /\ UNCHANGED <<service, storage>>

LateEnd(r) ==
  /\ run[r].state = "late"
  /\ run' = [run EXCEPT ![r] = [state |-> "idle"]]
  /\ UNCHANGED <<running, service, storage>>

-----------------------------------------------------------------------------
(* Saving.                                                                 *)

\* flush(), when something is dirty: writeToDisk() first awaits mkdir().
StartWrite(w, by) ==
  /\ write[w] = Idle
  /\ write' = [write EXCEPT ![w].state = "preparing", ![w].by = by]
  /\ timer' = FALSE

\* The debounced save: a clean cache is left alone.
TimerFires ==
  /\ timer /\ up \in {"up", "stopping"}
  /\ \/ dirty /\ \E w \in Writer : StartWrite(w, "timer")
     \/ ~dirty /\ timer' = FALSE /\ UNCHANGED write
  /\ UNCHANGED <<service, executor, dirty, disk>>

\* The jobs are serialized and written to a temporary file.
Serialize(w) ==
  /\ write[w].state = "preparing"
  /\ write' = [write EXCEPT ![w].state = "writing", ![w].jobs = jobs]
  /\ UNCHANGED <<service, executor, dirty, timer, disk>>

\* The file is renamed: the cache is clean, whatever has changed meanwhile.
Rename(w) ==
  /\ write[w].state = "writing"
  /\ disk' = write[w].jobs
  /\ dirty' = FALSE
  /\ write' = [write EXCEPT ![w] = Idle]
  /\ UNCHANGED <<service, executor, timer>>

\* mkdir, write or rename fails: logged, and left dirty.
WriteFails(w) ==
  /\ write[w] # Idle
  /\ write' = [write EXCEPT ![w] = Idle]
  /\ UNCHANGED <<service, executor, dirty, timer, disk>>

\* stop(): no more tasks; entries in runningJobs are deleted, but the work is not
\* told; then "Flush any pending writes".
Stop ==
  /\ up = "up"
  /\ up' = "stopping"
  /\ tasks' = NoJobs
  /\ running' = {j \in running : tasks[j] = NoJob}
  /\ \/ dirty /\ \E w \in Writer : StartWrite(w, "stop")
     \/ ~dirty /\ UNCHANGED <<timer, write>>
  /\ UNCHANGED <<jobs, used, restarts, run, dirty, disk>>

\* The flush has returned (others need not have).
Stopped ==
  /\ up = "stopping" /\ \A w \in Writer : write[w].by # "stop"
  /\ up' = "stopped"
  /\ UNCHANGED <<jobs, used, tasks, restarts, executor, storage>>

\* The process ends, by itself after stop() or at any time.
Exit ==
  /\ up # "down"
  /\ up' = "down"
  /\ jobs' = NoJobs /\ tasks' = NoJobs
  /\ running' = {} /\ run' = [r \in Run |-> [state |-> "idle"]]
  /\ dirty' = FALSE /\ timer' = FALSE
  /\ write' = [w \in Writer |-> Idle]
  /\ UNCHANGED <<used, restarts, disk>>

\* initialize() and loadAllJobs(): jobs the schema refuses are dropped and the
\* file rewritten; when it cannot be read or rewritten the service starts empty.
\* At an enabled job that node-cron refuses it throws, and the gateway exits.
Start ==
  LET valid == [j \in Job |-> IF disk[j].loadable THEN disk[j] ELSE NoJob]
  IN  /\ up = "down" /\ restarts < MaxRestarts
      /\ restarts' = restarts + 1
      /\ \/ /\ \A j \in Job : valid[j].enabled => valid[j].schedulable
            /\ up' = "up" /\ jobs' = valid /\ disk' = valid
         \/ up' = "up" /\ jobs' = NoJobs /\ UNCHANGED disk
         \/ /\ \E j \in Job : valid[j].enabled /\ ~valid[j].schedulable
            /\ disk' = valid
            /\ UNCHANGED <<up, jobs>>
      /\ tasks' = EnabledIn(jobs')
      /\ UNCHANGED <<used, executor, dirty, timer, write>>

Next ==
  \/ \E j \in Job : \/ AddJob(j) \/ UpdateJob(j) \/ RemoveJob(j) \/ ToggleJob(j)
                    \/ Tick(j) \/ RunJobNow(j)
  \/ \E r \in Run : Complete(r) \/ Timeout(r) \/ LateEnd(r)
  \/ TimerFires \/ Stop \/ Stopped \/ Exit \/ Start
  \/ \E w \in Writer : Serialize(w) \/ Rename(w) \/ WriteFails(w)

\* Timers fire.  Work may hang, and nobody need call, stop or restart.
Fairness == \A r \in Run : WF_vars(Timeout(r))

Spec == Init /\ [][Next]_vars /\ Fairness

-----------------------------------------------------------------------------
\* What fires is what is stored: while the service is up an enabled job has a
\* task with its current data, or, when node-cron refuses that, none, so that it
\* never fires with data it had before; and no task outlives its job.
EnabledJobsAreScheduled == up = "up" => \A j \in Job :
  /\ jobs[j].enabled => tasks[j] = IF jobs[j].schedulable THEN jobs[j] ELSE NoJob
  /\ tasks[j] # NoJob => Exists(j)

\* What a caller sees of an enabled job ("next_run"): it will fire.
EnabledJobsFire == up = "up" => \A j \in Job : jobs[j].enabled => tasks[j] # NoJob

\* The entry that makes the next tick skip belongs to exactly one execution,
\* and an execution that has not been given up has its entry.
RegisteredRunIsWorking == up = "up" => \A j \in Job :
  LET working == {r \in Run : run[r] = [state |-> "working", job |-> j]}
  IN  Cardinality(working) = IF j \in running THEN 1 ELSE 0

\* However an execution hangs, its job does not stay "already running" forever.
RunsEnd == \A j \in Job : j \in running ~> j \notin running

\* "Prevent overlapping executions": the work of a job is never done twice at
\* the same time.
NoOverlap == \A q, r \in Run :
  run[q].state # "idle" /\ run[r].state # "idle" /\ run[q].job = run[r].job => q = r

\* "Flush any pending writes": after stop() the file holds the jobs, unless a
\* write has failed.
StopFlushes == up = "stopped" => disk = jobs \/ dirty
=============================================================================
