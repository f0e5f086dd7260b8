---------------------------- MODULE JobRegistry ----------------------------
(***************************************************************************)
(* The in-process job tracker, backend/jobs.py.  The registry is a value:  *)
(* a function from the ids of the jobs created so far to Job records (the  *)
(* dict _jobs).  Every function of jobs.py holds the module's lock for its *)
(* whole body, so each is one operator and is applied atomically by the    *)
(* modules that use it.                                                    *)
(*                                                                         *)
(* Texts are abstracted to what a toast would say: "result" and "amended"  *)
(* for the two messages a runner may leave with mark_done, "failed" and    *)
(* "cancelled" for the errors of mark_failed, "none" for None.  Labels,    *)
(* progress and times are left out.                                        *)
(***************************************************************************)
EXTENDS FiniteSets

CONSTANTS Jobs,    \* the job ids (uuids) a run of the model may hand out
          Users,   \* the accounts
          Kinds    \* the job kinds in use

Statuses == {"queued", "running", "done", "failed"}
Messages == {"none", "result", "amended"}
Errors   == {"none", "failed", "cancelled"}

Job == [user : Users, kind : Kinds, status : Statuses,
        message : Messages, error : Errors,
        notified : BOOLEAN, cancel_requested : BOOLEAN]

\* A registry in which the ids of some jobs are in use.
IsRegistry(reg) == /\ DOMAIN reg \subseteq Jobs
                   /\ reg \in [DOMAIN reg -> Job]

EmptyRegistry == [j \in {} |-> {}]

is_terminal(job) == job.status \in {"done", "failed"}
IsActive(job)    == job.status \in {"queued", "running"}

\* The default field values of a Job just constructed.
NewJob(u, k) == [user |-> u, kind |-> k, status |-> "queued",
                 message |-> "none", error |-> "none",
                 notified |-> FALSE, cancel_requested |-> FALSE]

create(reg, j, u, k) ==
    [i \in DOMAIN reg \cup {j} |-> IF i = j THEN NewJob(u, k) ELSE reg[i]]

\* update(job_id, status=RUNNING), the first thing each runner does.
set_running(reg, j) == [reg EXCEPT ![j].status = "running"]

\* Neither mark looks at the status it replaces, and neither clears what the
\* other left: a job marked done and then failed keeps its message.
mark_done(reg, j, m)   == [reg EXCEPT ![j].status = "done", ![j].message = m]
mark_failed(reg, j, e) == [reg EXCEPT ![j].status = "failed", ![j].error = e]

OnlyRunningJobsFor(reg, u) ==
    {j \in DOMAIN reg : reg[j].user = u /\ reg[j].status = "running"}
active_jobs_for(reg, u) ==
    {j \in DOMAIN reg : reg[j].user = u /\ IsActive(reg[j])}

PendingFor(reg, u) ==
    {j \in DOMAIN reg : /\ reg[j].user = u
                        /\ is_terminal(reg[j])
                        /\ ~reg[j].notified}

\* pending_notifications_for returns PendingFor and leaves them notified.
SelectedButNotStamped(reg, u) == reg
pending_notifications_for(reg, u) ==
    [j \in DOMAIN reg |-> [reg[j] EXCEPT !.notified = @ \/ j \in PendingFor(reg, u)]]

\* Flags the job unless it is already terminal.
request_cancel(reg, S) ==
    [j \in DOMAIN reg |->
        [reg[j] EXCEPT !.cancel_requested = @ \/ (j \in S /\ ~is_terminal(reg[j]))]]

\* What the toast of a reported job shows (partials/job_poller.html): its
\* colour comes from the status, its text is "job.message or job.error".
Toast(job) == [colour |-> IF job.status = "done" THEN "success" ELSE "danger",
               body   |-> IF job.message # "none" THEN job.message ELSE job.error]
=============================================================================
