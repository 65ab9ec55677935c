-------------------------- MODULE CronServiceProofs --------------------------
(***************************************************************************)
(* What CronService promises, for any jobs, any number of executions and   *)
(* writes at once and any bounds: its types, that what fires is what is    *)
(* stored, and that an entry in runningJobs is one execution.              *)
(*                                                                         *)
(* The last speaks of a service that is up, and is not inductive by itself:*)
(* a start finds nothing running, because the process that ended took its  *)
(* executions with it.                                                     *)
(***************************************************************************)
EXTENDS CronService, FiniteSetTheorems, TLAPS

Works(r, j) == run[r].state = "working" /\ run[r].job = j

\* RegisteredRunIsWorking, without counting.
EntryIsOneRun == up = "up" => \A j \in Job :
  /\ j \in running => \E r \in Run : Works(r, j)
  /\ \A q \in Run : Works(q, j) => j \in running /\ \A r \in Run : Works(r, j) => q = r

\* Nothing outlives the process.
DownIsQuiet == up = "down" => running = {} /\ \A r \in Run : run[r].state = "idle"

IInv == TypeOK /\ EnabledJobsAreScheduled /\ EntryIsOneRun /\ DownIsQuiet

-----------------------------------------------------------------------------
LEMMA JobsAreSomething ==
  /\ \A data \in JobData : data # NoJob
  /\ ~NoJob.enabled
  /\ NoJobs \in Jobs
<1>1. ASSUME NEW data \in JobData PROVE data # NoJob
  <2>1. "version" \in DOMAIN data BY DEF JobData
  <2>2. "version" \notin DOMAIN NoJob BY DEF NoJob
  <2> QED BY <2>1, <2>2
<1> QED BY <1>1 DEF NoJob, NoJobs, Jobs

\* What loadAllJobs() schedules: the enabled jobs, and nothing else.
LEMMA EnabledInIsScheduled ==
  ASSUME NEW data \in Jobs
  PROVE  /\ EnabledIn(data) \in Jobs
         /\ \A j \in Job : /\ data[j].enabled => EnabledIn(data)[j] = data[j]
                           /\ data[j] = NoJob => EnabledIn(data)[j] = NoJob
                           /\ EnabledIn(data)[j] # NoJob => data[j] # NoJob
BY JobsAreSomething DEF EnabledIn, Jobs

\* What scheduleJob() leaves is the job's data, or nothing.
LEMMA ScheduleType ==
  ASSUME TypeOK, NEW j \in Job, NEW data \in JobData, Schedule(j, data)
  PROVE  /\ tasks' \in Jobs
         /\ tasks'[j] = IF data.schedulable THEN data ELSE NoJob
         /\ \A k \in Job \ {j} : tasks'[k] = tasks[k]
BY DEF TypeOK, Schedule, Jobs

LEMMA EditedType == \A old : Edited(old) \subseteq JobData
BY DEF Edited

LEMMA InitEstablishes == Init => IInv
BY BoundsAssumption, JobsAreSomething
DEF Init, IInv, TypeOK, EnabledJobsAreScheduled, EntryIsOneRun, DownIsQuiet, Idle, Works,
    NoJobs, Exists

\* An idle write, and one step of a write.
LEMMA WriteType ==
  ASSUME TypeOK
  PROVE  /\ Idle \in [state : {"idle", "preparing", "writing"}, by : {"none", "timer", "stop"},
                      jobs : Jobs]
         /\ \A w \in Writer : \A by \in {"timer", "stop"} : StartWrite(w, by) =>
              write' \in [Writer -> [state : {"idle", "preparing", "writing"},
                                     by : {"none", "timer", "stop"}, jobs : Jobs]]
BY JobsAreSomething DEF TypeOK, Idle, StartWrite

-----------------------------------------------------------------------------
LEMMA TypeStep == TypeOK /\ [Next]_vars => TypeOK'
<1> SUFFICES ASSUME TypeOK, [Next]_vars PROVE TypeOK'
  OBVIOUS
<1> USE BoundsAssumption, JobsAreSomething, WriteType DEF TypeOK, service, executor, storage
<1>1. ASSUME NEW j \in Job, AddJob(j) PROVE TypeOK'
  BY <1>1, ScheduleType DEF AddJob, Save, Jobs
<1>2. ASSUME NEW j \in Job, UpdateJob(j) PROVE TypeOK'
  <2>1. PICK data \in Edited(jobs[j]), reschedule \in BOOLEAN :
          /\ Save([jobs EXCEPT ![j] = data])
          /\ \/ data.enabled /\ Schedule(j, data)
             \/ ~data.enabled /\ reschedule /\ tasks' = [tasks EXCEPT ![j] = NoJob]
             \/ ~data.enabled /\ ~reschedule /\ UNCHANGED tasks
    BY <1>2 DEF UpdateJob
  <2>2. data \in JobData BY <2>1, EditedType
  <2>3. tasks' \in Jobs BY <2>1, <2>2, ScheduleType DEF Jobs
  <2> QED BY <1>2, <2>1, <2>2, <2>3 DEF UpdateJob, Save, Jobs
<1>3. ASSUME NEW j \in Job, RemoveJob(j) PROVE TypeOK'
  BY <1>3 DEF RemoveJob, Save, Jobs
<1>4. ASSUME NEW j \in Job, ToggleJob(j) PROVE TypeOK'
  <2>1. PICK enabled \in BOOLEAN :
          LET data == [jobs[j] EXCEPT !.enabled = enabled]
          IN  /\ Save([jobs EXCEPT ![j] = data])
              /\ \/ enabled /\ Schedule(j, data)
                 \/ ~enabled /\ tasks' = [tasks EXCEPT ![j] = NoJob]
    BY <1>4 DEF ToggleJob
  <2>2. [jobs[j] EXCEPT !.enabled = enabled] \in JobData
    BY <1>4 DEF ToggleJob, Exists, Jobs, JobData
  <2>3. tasks' \in Jobs BY <2>1, <2>2, ScheduleType DEF Jobs
  <2> QED BY <1>4, <2>1, <2>2, <2>3 DEF ToggleJob, Save, Jobs
<1>5. ASSUME NEW j \in Job, Tick(j) \/ RunJobNow(j) PROVE TypeOK'
  BY <1>5 DEF Tick, RunJobNow, Execute
<1>6. ASSUME NEW r \in Run, Complete(r) \/ LateEnd(r) PROVE TypeOK'
  BY <1>6 DEF Complete, LateEnd
<1>7. ASSUME NEW r \in Run, Timeout(r) PROVE TypeOK'
  <2>1. run[r] \in [state : {"working", "late"}, job : Job] BY <1>7 DEF Timeout
  <2> QED BY <1>7, <2>1 DEF Timeout
<1>8. CASE TimerFires BY <1>8 DEF TimerFires, StartWrite
<1>9. CASE Stop
  <2>1. write' \in [Writer -> [state : {"idle", "preparing", "writing"},
                               by : {"none", "timer", "stop"}, jobs : Jobs]]
        /\ timer' \in BOOLEAN
    BY <1>9 DEF Stop, StartWrite
  <2> QED BY <1>9, <2>1 DEF Stop
<1>10. CASE Stopped BY <1>10 DEF Stopped
<1>11. CASE Exit BY <1>11 DEF Exit
<1>12. CASE Start
  <2> DEFINE valid == [j \in Job |-> IF disk[j].loadable THEN disk[j] ELSE NoJob]
  <2>1. valid \in Jobs BY DEF Jobs
  <2>2. jobs' \in Jobs /\ disk' \in Jobs BY <1>12, <2>1 DEF Start
  <2>3. tasks' \in Jobs BY <1>12, <2>2, EnabledInIsScheduled DEF Start
  <2> QED BY <1>12, <2>2, <2>3 DEF Start
<1>13. ASSUME NEW w \in Writer, Serialize(w) PROVE TypeOK'
  BY <1>13 DEF Serialize
<1>14. ASSUME NEW w \in Writer, Rename(w) \/ WriteFails(w) PROVE TypeOK'
  <2>1. write' = [write EXCEPT ![w] = Idle] BY <1>14 DEF Rename, WriteFails
  <2>2. write[w].jobs \in Jobs OBVIOUS
  <2>3. disk' \in Jobs /\ dirty' \in BOOLEAN BY <1>14, <2>2 DEF Rename, WriteFails
  <2>4. UNCHANGED <<service, executor, timer>> BY <1>14 DEF Rename, WriteFails
  <2> QED BY <2>1, <2>3, <2>4
<1>15. CASE UNCHANGED vars BY <1>15 DEF vars
<1> QED
  BY <1>1, <1>2, <1>3, <1>4, <1>5, <1>6, <1>7, <1>8, <1>9, <1>10, <1>11, <1>12, <1>13, <1>14,
     <1>15
  DEF Next

-----------------------------------------------------------------------------
\* Every change of a job changes its task, and nothing else does.
LEMMA ScheduledStep == TypeOK /\ EnabledJobsAreScheduled /\ [Next]_vars => EnabledJobsAreScheduled'
<1> SUFFICES ASSUME TypeOK, EnabledJobsAreScheduled, [Next]_vars PROVE EnabledJobsAreScheduled'
  OBVIOUS
<1> USE BoundsAssumption, JobsAreSomething
    DEF TypeOK, EnabledJobsAreScheduled, Exists, service, executor, storage, Jobs
<1>1. ASSUME NEW j \in Job, AddJob(j) PROVE EnabledJobsAreScheduled'
  <2>1. PICK data \in JobData :
          data.enabled /\ Save([jobs EXCEPT ![j] = data]) /\ Schedule(j, data)
    BY <1>1 DEF AddJob
  <2> QED BY <1>1, <2>1, ScheduleType DEF AddJob, Save
<1>2. ASSUME NEW j \in Job, UpdateJob(j) PROVE EnabledJobsAreScheduled'
  <2>1. PICK data \in Edited(jobs[j]), reschedule \in BOOLEAN :
          /\ Save([jobs EXCEPT ![j] = data])
          /\ \/ data.enabled /\ Schedule(j, data)
             \/ ~data.enabled /\ reschedule /\ tasks' = [tasks EXCEPT ![j] = NoJob]
             \/ ~data.enabled /\ ~reschedule /\ UNCHANGED tasks
    BY <1>2 DEF UpdateJob
  <2>2. data \in JobData BY <2>1, EditedType
  <2>3. up' = up /\ jobs' = [jobs EXCEPT ![j] = data] BY <1>2, <2>1 DEF UpdateJob, Save
  <2>4. CASE data.enabled BY <2>1, <2>2, <2>3, <2>4, ScheduleType
  <2>5. CASE ~data.enabled BY <2>1, <2>2, <2>3, <2>5
  <2> QED BY <2>4, <2>5
<1>3. ASSUME NEW j \in Job, RemoveJob(j) PROVE EnabledJobsAreScheduled'
  BY <1>3 DEF RemoveJob, Save
<1>4. ASSUME NEW j \in Job, ToggleJob(j) PROVE EnabledJobsAreScheduled'
  <2>1. PICK enabled \in BOOLEAN :
          LET data == [jobs[j] EXCEPT !.enabled = enabled]
          IN  /\ Save([jobs EXCEPT ![j] = data])
              /\ \/ enabled /\ Schedule(j, data)
                 \/ ~enabled /\ tasks' = [tasks EXCEPT ![j] = NoJob]
    BY <1>4 DEF ToggleJob
  <2> DEFINE data == [jobs[j] EXCEPT !.enabled = enabled]
  <2>2. data \in JobData /\ data.enabled = enabled
    BY <1>4 DEF ToggleJob, JobData
  <2>3. up' = up /\ jobs' = [jobs EXCEPT ![j] = data]
    BY <1>4, <2>1 DEF ToggleJob, Save
  <2>4. \/ enabled /\ Schedule(j, data)
        \/ ~enabled /\ tasks' = [tasks EXCEPT ![j] = NoJob]
    BY <2>1
  <2> HIDE DEF data
  <2>5. CASE enabled BY <2>2, <2>3, <2>4, <2>5, ScheduleType
  <2>6. CASE ~enabled BY <2>2, <2>3, <2>4, <2>6
  <2> QED BY <2>5, <2>6
<1>5. ASSUME NEW j \in Job, Tick(j) \/ RunJobNow(j) PROVE EnabledJobsAreScheduled'
  BY <1>5 DEF Tick, RunJobNow, Execute
<1>6. ASSUME NEW r \in Run, Complete(r) \/ Timeout(r) \/ LateEnd(r)
      PROVE  EnabledJobsAreScheduled'
  BY <1>6 DEF Complete, Timeout, LateEnd
<1>7. CASE TimerFires \/ Stop \/ Stopped \/ Exit
  BY <1>7 DEF TimerFires, Stop, Stopped, Exit
<1>8. CASE Start
  <2> DEFINE valid == [j \in Job |-> IF disk[j].loadable THEN disk[j] ELSE NoJob]
  <2>1. valid \in Jobs OBVIOUS
  <2>2. jobs' \in Jobs BY <1>8, <2>1 DEF Start
  <2>3. tasks' = EnabledIn(jobs') BY <1>8 DEF Start
  <2>4. up' = "up" => \A j \in Job : jobs'[j].enabled => jobs'[j].schedulable
    BY <1>8 DEF Start, NoJobs
  <2> QED BY <2>2, <2>3, <2>4, EnabledInIsScheduled
<1>9. ASSUME NEW w \in Writer, Serialize(w) \/ Rename(w) \/ WriteFails(w)
      PROVE  EnabledJobsAreScheduled'
  BY <1>9 DEF Serialize, Rename, WriteFails
<1>10. CASE UNCHANGED vars BY <1>10 DEF vars
<1> QED BY <1>1, <1>2, <1>3, <1>4, <1>5, <1>6, <1>7, <1>8, <1>9, <1>10 DEF Next

-----------------------------------------------------------------------------
\* An execution and its entry come and go together.
LEMMA EntryStep == TypeOK /\ EntryIsOneRun /\ DownIsQuiet /\ [Next]_vars => EntryIsOneRun'
<1> SUFFICES ASSUME TypeOK, EntryIsOneRun, DownIsQuiet, [Next]_vars PROVE EntryIsOneRun'
  OBVIOUS
<1> USE DEF TypeOK, EntryIsOneRun, Works, service, executor, storage
<1>1. ASSUME NEW j \in Job, AddJob(j) \/ UpdateJob(j) \/ RemoveJob(j) \/ ToggleJob(j)
      PROVE  EntryIsOneRun'
  BY <1>1 DEF AddJob, UpdateJob, RemoveJob, ToggleJob
<1>2. ASSUME NEW j \in Job, Tick(j) \/ RunJobNow(j) PROVE EntryIsOneRun'
  <2>1. up = "up" /\ up' = up /\ j \notin running /\ running' = running \cup {j}
    BY <1>2 DEF Tick, RunJobNow, Execute
  <2>2. PICK r \in Run : /\ run[r].state = "idle"
                         /\ run' = [run EXCEPT ![r] = [state |-> "working", job |-> j]]
    BY <1>2 DEF Tick, RunJobNow, Execute
  <2>3. \A q \in Run : run'[q] = IF q = r THEN [state |-> "working", job |-> j] ELSE run[q]
    BY <2>2
  <2> QED BY <2>1, <2>2, <2>3
<1>3. ASSUME NEW r \in Run, Complete(r) \/ Timeout(r) PROVE EntryIsOneRun'
  <2>1. /\ run[r].state = "working" /\ run'[r].state # "working"
        /\ \A q \in Run \ {r} : run'[q] = run[q]
        /\ running' = running \ {run[r].job} /\ up' = up
    BY <1>3 DEF Complete, Timeout
  <2> QED BY <2>1
<1>4. ASSUME NEW r \in Run, LateEnd(r) PROVE EntryIsOneRun'
  BY <1>4 DEF LateEnd
<1>5. CASE TimerFires \/ Stop \/ Stopped \/ Exit
  BY <1>5 DEF TimerFires, Stop, Stopped, Exit
<1>6. CASE Start BY <1>6 DEF Start, DownIsQuiet
<1>7. ASSUME NEW w \in Writer, Serialize(w) \/ Rename(w) \/ WriteFails(w) PROVE EntryIsOneRun'
  BY <1>7 DEF Serialize, Rename, WriteFails
<1>8. CASE UNCHANGED vars BY <1>8 DEF vars
<1> QED BY <1>1, <1>2, <1>3, <1>4, <1>5, <1>6, <1>7, <1>8 DEF Next

LEMMA QuietStep == TypeOK /\ DownIsQuiet /\ [Next]_vars => DownIsQuiet'
<1> SUFFICES ASSUME TypeOK, DownIsQuiet, [Next]_vars PROVE DownIsQuiet'
  OBVIOUS
<1> USE DEF TypeOK, DownIsQuiet, service, executor, storage
<1>1. ASSUME NEW j \in Job, AddJob(j) \/ UpdateJob(j) \/ RemoveJob(j) \/ ToggleJob(j)
                              \/ Tick(j) \/ RunJobNow(j)
      PROVE  DownIsQuiet'
  BY <1>1 DEF AddJob, UpdateJob, RemoveJob, ToggleJob, Tick, RunJobNow, Execute
<1>2. ASSUME NEW r \in Run, Complete(r) \/ Timeout(r) \/ LateEnd(r) PROVE DownIsQuiet'
  BY <1>2 DEF Complete, Timeout, LateEnd
<1>3. CASE TimerFires \/ Stop \/ Stopped \/ Exit \/ Start
  BY <1>3 DEF TimerFires, Stop, Stopped, Exit, Start
<1>4. ASSUME NEW w \in Writer, Serialize(w) \/ Rename(w) \/ WriteFails(w) PROVE DownIsQuiet'
  BY <1>4 DEF Serialize, Rename, WriteFails
<1>5. CASE UNCHANGED vars BY <1>5 DEF vars
<1> QED BY <1>1, <1>2, <1>3, <1>4, <1>5 DEF Next

-----------------------------------------------------------------------------
\* Whatever is called, fires, times out, fails or dies, the invariant holds.
THEOREM Inductive == Spec => []IInv
<1>1. IInv /\ [Next]_vars => IInv'
  BY TypeStep, ScheduledStep, EntryStep, QuietStep DEF IInv
<1> QED BY InitEstablishes, <1>1, PTL DEF Spec

\* Every variable keeps its type: a job in memory, in a task or in the file has
\* all of its fields, or is not there.
THEOREM TypeCorrect == Spec => []TypeOK
<1>1. IInv => TypeOK BY DEF IInv
<1> QED BY Inductive, <1>1, PTL

\* While the service is up, every enabled job has a task with its current data,
\* or none if node-cron refuses that, and no task outlives its job, however many
\* jobs are added, updated, toggled, removed and loaded.
THEOREM WhatFiresIsStored == Spec => []EnabledJobsAreScheduled
<1>1. IInv => EnabledJobsAreScheduled BY DEF IInv
<1> QED BY Inductive, <1>1, PTL

\* The entry in runningJobs that makes executeJob() skip a tick belongs to
\* exactly one execution, for any number of jobs and executions.
THEOREM EntryBelongsToRun == Spec => []RegisteredRunIsWorking
<1>1. IInv => RegisteredRunIsWorking
  <2> SUFFICES ASSUME IInv, up = "up", NEW j \in Job
               PROVE  Cardinality({r \in Run : run[r] = [state |-> "working", job |-> j]})
                        = IF j \in running THEN 1 ELSE 0
    BY DEF RegisteredRunIsWorking
  <2> DEFINE working == {r \in Run : run[r] = [state |-> "working", job |-> j]}
  <2>1. \A r \in Run : r \in working <=> Works(r, j)
    BY DEF IInv, TypeOK, Works
  <2>2. CASE j \in running
    <3>1. PICK r \in Run : Works(r, j) BY <2>2 DEF IInv, EntryIsOneRun
    <3>2. working = {r} BY <2>1, <3>1 DEF IInv, EntryIsOneRun
    <3> QED BY <2>2, <3>2, FS_Singleton
  <2>3. CASE j \notin running
    <3>1. working = {} BY <2>1, <2>3 DEF IInv, EntryIsOneRun
    <3> QED BY <2>3, <3>1, FS_EmptySet
  <2> QED BY <2>2, <2>3
<1> QED BY Inductive, <1>1, PTL
=============================================================================
