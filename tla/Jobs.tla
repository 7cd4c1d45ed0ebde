-------------------------------- MODULE Jobs --------------------------------
(***************************************************************************)
(* The jobs of the dashboard: rows of the table jobs                        *)
(* (backend/app/repositories/jobs.py), written by API requests that start,  *)
(* list and cancel jobs (services/jobs.py), by the Celery workers that run   *)
(* them (workers/tasks/common.py) and by the reconciliation of rows whose    *)
(* heartbeat is too old.  Nobody locks a row: every write is an update of    *)
(* the whole status, whatever the status is by then.                        *)
(*                                                                          *)
(* Two kinds of jobs stand for all types: "heavy" ones on the queue default *)
(* (a pool of processes, hard time limit) and "detail" ones, the refresh of *)
(* one stock on the queue interactive (a solo worker: one at a time, no time *)
(* limit).  All detail jobs here are about the same stock.                  *)
(*                                                                          *)
(* The broker is external: a message waits, is unacknowledged from its      *)
(* delivery until the task ends (acks_late), is put back when the process   *)
(* that ran it is lost or when it stays unacknowledged for longer than the  *)
(* visibility timeout, and is thrown away at delivery once it has expired.   *)
(*                                                                          *)
(* A tick is far longer than the short sections of the code (an API request, *)
(* taking a message, ending a task), so no tick passes inside of them.      *)
(***************************************************************************)
EXTENDS Naturals

CONSTANTS
  Jobs,          \* the job rows that may come to exist
  KindOf,        \* "heavy" or "detail", by job
  Callers,       \* API requests served at the same time
  NoJob, NoCaller,
  DeadCaller,    \* owner of a lock whose request died
  Batches,       \* bound: the rows that may exist together, as sets of jobs
  Slots,         \* deliveries of one message that may be running at once
  QueuedLimit,   \* ticks a queued row may be silent (QUEUED_JOB_STALE_AFTER)
  Expiry,        \* ticks until a message expires (queued_expiry_seconds)
  RunningLimit,  \* ticks a running row may be silent (RUNNING_JOB_STALE_AFTER)
  TimeLimit,     \* hard time limit of a pool process
  Visibility,    \* visibility timeout of the broker
  MaxFaults      \* bound: requests that find Redis down, workers and API processes that die

\* "over" stands for done, skipped and failed.
Statuses == {"none", "queued", "running", "over", "cancelled"}
Active   == {"queued", "running"}
Terminal == {"over", "cancelled"}
Requests == {"list", "heavy", "detail", "beta"}
Larger(m, n) == IF m > n THEN m ELSE n
SilentCap == Larger(QueuedLimit, RunningLimit) + 1
AgeCap    == Larger(TimeLimit, Visibility)

ASSUME JobsAssumption ==
  /\ KindOf \in [Jobs -> {"heavy", "detail"}]
  /\ NoJob \notin Jobs
  /\ {NoCaller, DeadCaller} \cap Callers = {} /\ NoCaller # DeadCaller
  /\ Slots # {}
  /\ {QueuedLimit, Expiry, RunningLimit, TimeLimit, Visibility} \subseteq Nat
  /\ Expiry = QueuedLimit       \* both are queued_expiry_seconds
  /\ TimeLimit < Visibility     \* celery_app.py adds an hour at least
  /\ Batches \subseteq SUBSET Jobs
  /\ MaxFaults \in Nat

VARIABLES
  status,   \* the status of the row
  silent,   \* ticks since its heartbeat_at
  known,    \* jobs whose celery_task_id is recorded
  msg,      \* the message of a job: "none", "waiting" or "unacked"
  sent,     \* ticks since it was sent
  held,     \* ticks since it was delivered
  holder,   \* the delivery that may acknowledge it
  exec,     \* job -> delivery -> where its task is
  age,      \* job -> delivery -> ticks since its pool process began
  call,     \* what an API request is doing
  mutex,    \* owner of the admission lock of the stock
  outages, losses,
  ended,    \* history: jobs that were over at some time
  dropped   \* history: jobs failed by reconciliation while they were queued

rows    == <<status, silent, known>>
broker  == <<msg, sent, held, holder>>
tasks   == <<exec, age>>
history == <<ended, dropped>>
jobVars == <<rows, broker, tasks, call, mutex, outages, losses, history>>

Idle == [pc |-> "idle", what |-> "list", job |-> NoJob, stale |-> {}]

JobsInit ==
  /\ status = [j \in Jobs |-> "none"]
  /\ silent = [j \in Jobs |-> 0]
  /\ known = {}
  /\ msg = [j \in Jobs |-> "none"]
  /\ sent = [j \in Jobs |-> 0]
  /\ held = [j \in Jobs |-> 0]
  /\ holder = [j \in Jobs |-> CHOOSE s \in Slots : TRUE]
  /\ exec = [j \in Jobs |-> [s \in Slots |-> "idle"]]
  /\ age = [j \in Jobs |-> [s \in Slots |-> 0]]
  /\ call = [c \in Callers |-> Idle]
  /\ mutex = NoCaller
  /\ outages = 0 /\ losses = 0
  /\ ended = {} /\ dropped = {}

-----------------------------------------------------------------------------
(* Rows.                                                                    *)

\* update_job: whatever the row says now, it gets the new status and a heartbeat.
Write(J, st) ==
  /\ status' = [j \in Jobs |-> IF j \in J THEN st ELSE status[j]]
  /\ silent' = [j \in Jobs |-> IF j \in J THEN 0 ELSE silent[j]]
  /\ ended' = IF st \in Terminal THEN ended \cup J ELSE ended
  /\ UNCHANGED known

\* Mutant: only rows that wait for a worker are reconciled.
StaleQueued(j) == status[j] = "queued" /\ silent[j] > QueuedLimit

\* _job_is_stale
Stale(j) == \/ status[j] = "queued" /\ silent[j] > QueuedLimit
            \/ status[j] = "running" /\ silent[j] > RunningLimit

\* Rows a request may still create, within the bound.
Unused(kind) == {j \in Jobs : /\ KindOf[j] = kind /\ status[j] = "none"
                             /\ \E B \in Batches : {j} \cup {k \in Jobs : status[k] # "none"} \subseteq B}
Asked(what) == IF what = "beta" THEN "detail" ELSE what

ActiveOf(kind) == {j \in Jobs : KindOf[j] = kind /\ status[j] \in Active}

-----------------------------------------------------------------------------
(* API requests.  A request is between two of its transactions; what it does  *)
(* before the first of them is part of the first step.                        *)

Goto(c, pc) == call' = [call EXCEPT ![c] = [Idle EXCEPT !.pc = pc, !.job = call[c].job]]
Leave(c) ==
  /\ call' = [call EXCEPT ![c] = Idle]
  /\ mutex' = IF mutex = c THEN NoCaller ELSE mutex

\* A request for the list of jobs or for a start.  start_job of a detail refresh
\* takes the admission lock of the stock (somebody else holds it: rejected, no
\* step); Redis is down: it goes on without, unless it is a beta user's.  Then
\* reconcile_stale_jobs reads the active rows without locking them; requests of
\* beta users do not reconcile.
Ask(c, what) ==
  /\ call[c].pc = "idle"
  /\ what # "list" => Unused(Asked(what)) # {}
  /\ \/ what \in {"list", "heavy"} /\ UNCHANGED <<mutex, outages>>
     \/ /\ what \in {"detail", "beta"} /\ mutex = NoCaller /\ mutex' = c
        /\ UNCHANGED outages
     \/ /\ what = "detail" /\ outages + losses < MaxFaults /\ outages' = outages + 1
        /\ UNCHANGED mutex
  /\ call' = [call EXCEPT ![c] = [Idle EXCEPT !.pc = "reconcile", !.what = Asked(what),
       !.stale = {j \in Jobs : what # "beta" /\ Stale(j)}]]
  /\ UNCHANGED <<rows, broker, tasks, losses, history>>

\* Mutant: the admission lock covers the check and not the creation.
ReconcileUnlocked(c) ==
  /\ call[c].pc = "reconcile"
  /\ Write(call[c].stale, "over")
  /\ dropped' = dropped \cup {j \in call[c].stale : status[j] = "queued"}
  /\ mutex' = IF mutex = c THEN NoCaller ELSE mutex
  /\ LET active(kind) == ActiveOf(kind) \ call[c].stale
         refused == \/ call[c].what = "list"
                    \/ call[c].what = "heavy" /\ active("heavy") # {}
                    \/ mutex = c /\ active("detail") # {}
     IN call' = [call EXCEPT ![c] = IF refused THEN Idle
                                    ELSE [@ EXCEPT !.pc = "create", !.stale = {}]]
  /\ UNCHANGED <<broker, tasks, outages, losses>>

\* ... and fails those it found stale, then the active jobs are listed: a heavy
\* job is refused while another is active, a detail refresh joins the one that
\* is active if it holds the lock.
Reconcile(c) ==
  /\ call[c].pc = "reconcile"
  /\ Write(call[c].stale, "over")
  /\ dropped' = dropped \cup {j \in call[c].stale : status[j] = "queued"}
  /\ LET active(kind) == ActiveOf(kind) \ call[c].stale
         refused == \/ call[c].what = "list"
                    \/ call[c].what = "heavy" /\ active("heavy") # {}
                    \/ mutex = c /\ active("detail") # {}
     IN IF refused THEN Leave(c)
        ELSE /\ call' = [call EXCEPT ![c].pc = "create", ![c].stale = {}]
             /\ UNCHANGED mutex
  /\ UNCHANGED <<broker, tasks, outages, losses>>

\* create_job commits a queued row under a new id (at the bound: no more rows).
CreateJob(c) ==
  LET unused == Unused(call[c].what)
      j == CHOOSE k \in unused : TRUE
  IN /\ call[c].pc = "create"
     /\ IF unused = {} THEN Leave(c) /\ UNCHANGED <<rows, ended>>
        ELSE /\ Write({j}, "queued")
             /\ call' = [call EXCEPT ![c] = [Idle EXCEPT !.pc = "send", !.job = j]]
             /\ UNCHANGED mutex
     /\ UNCHANGED <<broker, tasks, outages, losses, dropped>>

\* send_task hands the job to the broker with its expiry.  When Redis is down the
\* row is failed; a request that found it down for its lock may find it so again.
SendTask(c) ==
  LET j == call[c].job IN
  /\ call[c].pc = "send"
  /\ \/ /\ msg' = [msg EXCEPT ![j] = "waiting"]
        /\ sent' = [sent EXCEPT ![j] = 0]
        /\ Goto(c, "note")
        /\ UNCHANGED <<rows, ended, mutex, held, holder, outages>>
     \/ /\ \/ KindOf[j] = "detail" /\ mutex # c /\ UNCHANGED outages
           \/ outages + losses < MaxFaults /\ outages' = outages + 1
        /\ Write({j}, "over")
        /\ Leave(c)
        /\ UNCHANGED broker
  /\ UNCHANGED <<tasks, losses, dropped>>

\* set_celery_task_id: update_job without a status, so only the heartbeat moves.
NoteTaskId(c) ==
  /\ call[c].pc = "note"
  /\ known' = known \cup {call[c].job}
  /\ silent' = [silent EXCEPT ![call[c].job] = 0]
  /\ Leave(c)
  /\ UNCHANGED <<status, broker, tasks, outages, losses, history>>

\* cancel_job of a job that is not over asks the workers to revoke its task.  A
\* worker that hears it drops the message; a pool process that runs it is ended.
Cancel(c, j) ==
  /\ call[c].pc = "idle"
  /\ status[j] \in Active
  /\ call' = [call EXCEPT ![c] = [Idle EXCEPT !.pc = "mark", !.job = j]]
  /\ \/ /\ j \in known
        /\ KindOf[j] = "heavy" \/ \A s \in Slots : exec[j][s] = "idle"
        /\ msg' = [msg EXCEPT ![j] = "none"]
        /\ sent' = [sent EXCEPT ![j] = 0]
        /\ held' = [held EXCEPT ![j] = 0]
        /\ exec' = [exec EXCEPT ![j] = [s \in Slots |-> "idle"]]
        /\ age' = [age EXCEPT ![j] = [s \in Slots |-> 0]]
        /\ UNCHANGED holder
     \/ UNCHANGED <<broker, tasks>>
  /\ UNCHANGED <<rows, mutex, outages, losses, history>>

\* ... and marks the row, whatever became of it in the meantime.
MarkCancelled(c) ==
  /\ call[c].pc = "mark"
  /\ Write({call[c].job}, "cancelled")
  /\ Leave(c)
  /\ UNCHANGED <<broker, tasks, outages, losses, dropped>>

\* The API process dies within a request; a lock it holds runs out by itself.
CallerDies(c) ==
  /\ call[c].pc # "idle"
  /\ outages + losses < MaxFaults /\ losses' = losses + 1
  /\ call' = [call EXCEPT ![c] = Idle]
  /\ mutex' = IF mutex = c THEN DeadCaller ELSE mutex
  /\ UNCHANGED <<rows, broker, tasks, outages, history>>

-----------------------------------------------------------------------------
(* The broker and the workers.                                              *)

ExpiredNever(j) == FALSE     \* mutant: messages are sent without an expiry
Expired(j) == sent[j] > Expiry
Busy == \E j \in Jobs, s \in Slots : KindOf[j] = "detail" /\ exec[j][s] # "idle"
FreeSlots(j) == {s \in Slots : exec[j][s] = "idle"}

\* A worker takes a message that has expired and throws it away.
Discard(j) ==
  /\ msg[j] = "waiting" /\ Expired(j)
  /\ msg' = [msg EXCEPT ![j] = "none"]
  /\ sent' = [sent EXCEPT ![j] = 0]
  /\ UNCHANGED <<rows, held, holder, tasks, call, mutex, outages, losses, history>>

\* A worker takes a message and starts the task; the solo worker has one at a time.
Deliver(j) ==
  LET s == CHOOSE x \in FreeSlots(j) : TRUE IN
  /\ msg[j] = "waiting" /\ ~ Expired(j)
  /\ KindOf[j] = "detail" => ~ Busy
  /\ FreeSlots(j) # {}
  /\ msg' = [msg EXCEPT ![j] = "unacked"]
  /\ held' = [held EXCEPT ![j] = 0]
  /\ holder' = [holder EXCEPT ![j] = s]
  /\ exec' = [exec EXCEPT ![j][s] = "taken"]
  /\ age' = [age EXCEPT ![j][s] = 0]
  /\ UNCHANGED <<rows, sent, call, mutex, outages, losses, history>>

\* mark_running: the row exists, and nobody asks in which status.
Begin(j, s) ==
  /\ exec[j][s] = "taken"
  /\ exec' = [exec EXCEPT ![j][s] = "body"]
  /\ Write({j}, "running")
  /\ UNCHANGED <<broker, age, call, mutex, outages, losses, dropped>>

\* raise_if_cancelled: a cancelled job is marked so again and ends.
CheckCancelled(j, s) ==
  /\ exec[j][s] = "body"
  /\ IF status[j] = "cancelled"
     THEN /\ exec' = [exec EXCEPT ![j][s] = "over"]
          /\ Write({j}, "cancelled")
     ELSE /\ exec' = [exec EXCEPT ![j][s] = "clear"]
          /\ UNCHANGED <<rows, ended>>
  /\ UNCHANGED <<broker, age, call, mutex, outages, losses, dropped>>

\* update_progress after the check: the row is running, also if it was cancelled
\* or reconciled in between.
Progress(j, s) ==
  /\ exec[j][s] = "clear"
  /\ exec' = [exec EXCEPT ![j][s] = "body"]
  /\ Write({j}, "running")
  /\ UNCHANGED <<broker, age, call, mutex, outages, losses, dropped>>

\* mark_done (or mark_skipped) after the check, mark_failed at any exception.
EndTask(j, s) ==
  /\ exec[j][s] \in {"body", "clear"}
  /\ Write({j}, "over")
  /\ exec' = [exec EXCEPT ![j][s] = "over"]
  /\ UNCHANGED <<broker, age, call, mutex, outages, losses, dropped>>

\* The delivery s of j is no longer running; it acknowledges if the message is its own.
Release(j, s) ==
  /\ exec' = [exec EXCEPT ![j][s] = "idle"]
  /\ age' = [age EXCEPT ![j][s] = 0]
Acknowledge(j, s) ==
  LET mine == msg[j] = "unacked" /\ holder[j] = s IN
  /\ msg' = IF mine THEN [msg EXCEPT ![j] = "none"] ELSE msg
  /\ sent' = IF mine THEN [sent EXCEPT ![j] = 0] ELSE sent
  /\ held' = IF mine THEN [held EXCEPT ![j] = 0] ELSE held
  /\ UNCHANGED holder

\* The task returns or raises: the worker acknowledges the message.
Return(j, s) ==
  /\ exec[j][s] = "over"
  /\ Release(j, s) /\ Acknowledge(j, s)
  /\ UNCHANGED <<rows, call, mutex, outages, losses, history>>

\* The hard time limit ends a pool process; its message is acknowledged.
TimeOut(j, s) ==
  /\ KindOf[j] = "heavy" /\ exec[j][s] # "idle" /\ age[j][s] >= TimeLimit
  /\ Release(j, s) /\ Acknowledge(j, s)
  /\ UNCHANGED <<rows, call, mutex, outages, losses, history>>

\* A worker is lost at any point.  A lost pool process has its message rejected
\* and queued again (reject_on_worker_lost); when the whole worker is gone (always
\* so for the solo worker) the message stays unacknowledged.
WorkerLost(j, s) ==
  /\ exec[j][s] # "idle"
  /\ outages + losses < MaxFaults /\ losses' = losses + 1
  /\ Release(j, s)
  /\ \/ /\ KindOf[j] = "heavy" /\ msg[j] = "unacked" /\ holder[j] = s
        /\ msg' = [msg EXCEPT ![j] = "waiting"]
        /\ held' = [held EXCEPT ![j] = 0]
        /\ UNCHANGED <<sent, holder>>
     \/ UNCHANGED broker
  /\ UNCHANGED <<rows, call, mutex, outages, history>>

\* Mutant: the visibility timeout is not longer than a task may run.
RestoreEarly(j) ==
  /\ msg[j] = "unacked" /\ held[j] >= TimeLimit
  /\ msg' = [msg EXCEPT ![j] = "waiting"]
  /\ held' = [held EXCEPT ![j] = 0]
  /\ UNCHANGED <<rows, sent, holder, tasks, call, mutex, outages, losses, history>>

\* A message that was not acknowledged in time is queued again.
Restore(j) ==
  /\ msg[j] = "unacked" /\ held[j] >= Visibility
  /\ msg' = [msg EXCEPT ![j] = "waiting"]
  /\ held' = [held EXCEPT ![j] = 0]
  /\ UNCHANGED <<rows, sent, holder, tasks, call, mutex, outages, losses, history>>

\* Time passes outside the short sections; a process does not outlive its limit.
Later(n, cap) == IF n < cap THEN n + 1 ELSE n
Quiet ==
  /\ \A c \in Callers : call[c].pc = "idle"
  /\ \A j \in Jobs, s \in Slots :
       /\ exec[j][s] \notin {"taken", "over"}
       /\ KindOf[j] = "heavy" /\ exec[j][s] # "idle" => age[j][s] < TimeLimit
Tick ==
  /\ Quiet
  /\ silent' = [j \in Jobs |-> IF status[j] \in Active
                               THEN Later(silent[j], SilentCap) ELSE silent[j]]
  /\ sent' = [j \in Jobs |-> IF msg[j] # "none" THEN Later(sent[j], Expiry + 1) ELSE sent[j]]
  /\ held' = [j \in Jobs |-> IF msg[j] = "unacked" THEN Later(held[j], AgeCap) ELSE held[j]]
  /\ age' = [j \in Jobs |-> [s \in Slots |->
               IF KindOf[j] = "heavy" /\ exec[j][s] # "idle" THEN Later(age[j][s], AgeCap) ELSE age[j][s]]]
  /\ mutex' = NoCaller            \* two minutes end the lock of a dead request
  /\ UNCHANGED <<status, known, msg, holder, exec, call, outages, losses, history>>

-----------------------------------------------------------------------------
JobsNext ==
  \/ \E c \in Callers :
       \/ \E what \in Requests : Ask(c, what)
       \/ Reconcile(c)
       \/ \E j \in Jobs : Cancel(c, j)
       \/ CreateJob(c) \/ SendTask(c) \/ NoteTaskId(c) \/ MarkCancelled(c) \/ CallerDies(c)
  \/ \E j \in Jobs : Discard(j) \/ Deliver(j) \/ Restore(j)
  \/ \E j \in Jobs, s \in Slots :
       \/ Begin(j, s) \/ CheckCancelled(j, s) \/ Progress(j, s) \/ EndTask(j, s)
       \/ Return(j, s) \/ TimeOut(j, s) \/ WorkerLost(j, s)
  \/ Tick

JobsSpec == JobsInit /\ [][JobsNext]_jobVars
-----------------------------------------------------------------------------
(* Fairness.  Time passes: again and again requests are answered, workers have *)
(* begun and released what they took and processes are gone at their limit     *)
(* (Quiet), and a tick that is possible then comes.  The task *)
(* of a detail refresh ends (each of its requests has a timeout).  Somebody    *)
(* keeps looking at the list of jobs (the page polls it).  Nothing is assumed  *)
(* of the broker.                                                              *)

ListJobs == \E c \in Callers : Ask(c, "list")
DetailEnds == \E j \in Jobs, s \in Slots : KindOf[j] = "detail" /\ EndTask(j, s)

JobsFairness ==
  []<>Quiet /\ SF_jobVars(Tick) /\ SF_jobVars(ListJobs) /\ WF_jobVars(DetailEnds)

-----------------------------------------------------------------------------
JobsTypeOK ==
  /\ status \in [Jobs -> Statuses]
  /\ silent \in [Jobs -> 0 .. SilentCap]
  /\ known \subseteq Jobs
  /\ msg \in [Jobs -> {"none", "waiting", "unacked"}]
  /\ sent \in [Jobs -> 0 .. Expiry + 1]
  /\ held \in [Jobs -> 0 .. AgeCap]
  /\ holder \in [Jobs -> Slots]
  /\ exec \in [Jobs -> [Slots -> {"idle", "taken", "body", "clear", "over"}]]
  /\ age \in [Jobs -> [Slots -> 0 .. AgeCap]]
  /\ call \in [Callers -> [pc : {"idle", "reconcile", "create", "send", "note", "mark"},
                           what : {"list", "heavy", "detail"}, job : Jobs \cup {NoJob}, stale : SUBSET Jobs]]
  /\ mutex \in Callers \cup {NoCaller, DeadCaller}
  /\ outages \in Nat /\ losses \in Nat /\ outages + losses <= MaxFaults
  /\ ended \subseteq Jobs /\ dropped \subseteq Jobs

\* Tasks are redelivered when a worker is lost or does not acknowledge in time, yet
\* no job is ever executed twice at the same time: the time limit ends a pool
\* process before its message is visible again, and the solo worker is busy.
OneExecution ==
  \A i, j \in Jobs : \A s, t \in Slots :
    /\ exec[i][s] # "idle" /\ exec[j][t] # "idle"
    /\ i = j \/ (KindOf[i] = "detail" /\ KindOf[j] = "detail")
    => i = j /\ s = t

\* A job that reconciliation gave up while it was queued never starts afterwards,
\* whenever its worker comes back: its message has expired by then.
DroppedNeverRuns == \A j \in dropped, s \in Slots : exec[j][s] = "idle"

\* As long as Redis answers there is one refresh of a stock at a time: a second row
\* is created only when every earlier one was over, also when a request died with
\* the admission lock in its hands.
OneRefreshPerStock ==
  outages = 0 =>
    \A i, j \in Jobs :
      /\ KindOf[i] = "detail" /\ KindOf[j] = "detail"
      /\ status[i] # "none" /\ status[j] # "none"
      => i = j \/ i \in ended \/ j \in ended

\* Every job that was accepted is over in the end and stays so, whoever dies in
\* between and however late workers overwrite what others wrote (Jobs is finite, so
\* this says it of each of them).
EveryJobEnds == <>[](\A j \in Jobs : status[j] \notin Active)
=============================================================================
