------------------------------ MODULE SyncJobs ------------------------------
(***************************************************************************)
(* Background jobs of backend/integrations.py with the two ambient workers *)
(* of backend/main.py and the pause counter of backend/worker_state.py.    *)
(*                                                                         *)
(* Everything here but the poll runs on one asyncio loop: an action is the *)
(* code a coroutine runs between two awaits that really suspend it, so the *)
(* end of one follow-up and the start of the next are one action, while    *)
(* the thread that does a job's work leaves room for every other actor.    *)
(* The poll is a plain function that FastAPI runs in a thread; it touches  *)
(* the registry under its lock only.                                       *)
(***************************************************************************)
EXTENDS Sequences, Integers, JobRegistry

CONSTANTS Chains,    \* ids of the follow-up coroutines alive at one time
          NoJob,     \* what a chain that has not begun a step awaits
          Offered,   \* the kinds whose buttons are pressed
          SpareIds,  \* ids a request leaves to the chains (see Fresh)
          Workers    \* the ambient workers of the server

ASSUME NoJobAssumption == NoJob \notin Jobs /\ IsFiniteSet(Jobs)
ASSUME SpareIdsAssumption == SpareIds \in Nat

PrimaryKinds == {"steam_sync_full", "steam_sync_games", "steam_sync_dlc",
                 "steam_refresh_catalog", "psn_sync"}
FollowupKinds == {"psn_store_refresh", "psn_igdb_titles", "psn_igdb_link",
                  "psn_trophies", "sgdb_fill_all", "psn_review_art",
                  "steam_achievements"}
\* Kinds of which a button starts a job only while the user has no other.
LoneKinds == {"match_scan", "sgdb_fill", "sgdb_fill_all"}

ASSUME KindsAssumption ==
    /\ Kinds = PrimaryKinds \cup FollowupKinds \cup LoneKinds
    /\ Offered \subseteq Kinds

\* A sync that succeeds starts a chain of follow-ups of these kinds.
SteamGameKinds == {"steam_sync_full", "steam_sync_games"}
ChainingKinds  == SteamGameKinds \cup {"psn_sync"}

\* The runners of these two kinds leave the ambient workers alone.
Pauses(kind) == kind \notin {"match_scan", "sgdb_fill"}

VARIABLES jobs,       \* the registry
          task,       \* what the runner coroutine of each job is doing
          chains,     \* the follow-up coroutines alive: id -> what is left to do
          pauseDepth, \* worker_state._pause_depth
          worker,     \* what each ambient worker is doing
          told        \* per job, the toasts the polls delivered (history)

vars == <<jobs, task, chains, pauseDepth, worker, told>>

TaskStates   == {"none", "scheduled", "working", "rescanning"}
WorkerStates == {"asleep", "batch", "requeue"}
ChainRecords == [user : Users, steps : Seq(FollowupKinds), job : Jobs \cup {NoJob}]
Toasts       == [colour : {"success", "danger"}, body : Messages \cup Errors]

TypeOK == /\ IsRegistry(jobs)
          /\ task \in [Jobs -> TaskStates]
          /\ DOMAIN chains \subseteq Chains
          /\ chains \in [DOMAIN chains -> ChainRecords]
          /\ pauseDepth \in Nat
          /\ worker \in [Workers -> WorkerStates]
          /\ told \in [Jobs -> Seq(Toasts)]

NoChains == [c \in {} |-> {}]

Init == /\ jobs = EmptyRegistry
        /\ task = [j \in Jobs |-> "none"]
        /\ chains = NoChains
        /\ pauseDepth = 0
        /\ worker = [w \in Workers |-> "asleep"]
        /\ told = [j \in Jobs |-> <<>>]

-----------------------------------------------------------------------------
(* backend/worker_state.py *)

Pause(d) == d + 1
ResumeFlag(d) == 0
Resume(d) == IF d = 0 THEN 0 ELSE d - 1

-----------------------------------------------------------------------------
(* Ids.  A uuid is never used twice, and no entry ever leaves the registry.  *)
(* A job that has ended, been reported and lost its runner is read by nobody *)
(* any more, so its id stands for a fresh one: a bound on the ids, and not   *)
(* on how many jobs a behaviour starts.  A request may be made to leave some *)
(* ids (SpareIds), so that buttons cannot starve a chain of them.            *)

Settled(reg, tsk, j) == is_terminal(reg[j]) /\ reg[j].notified /\ tsk[j] = "none"
Fresh(reg, tsk) == {j \in Jobs : j \in DOMAIN reg => Settled(reg, tsk, j)}

-----------------------------------------------------------------------------
(* Follow-up chains *)

\* Helpers on the chain table.
WithChain(c, u, steps) ==
    [x \in DOMAIN chains \cup {c} |->
        IF x = c THEN [user |-> u, steps |-> steps, job |-> NoJob] ELSE chains[x]]
WithoutChain(c) == [x \in DOMAIN chains \ {c} |-> chains[x]]

If(b, kind) == IF b THEN <<kind>> ELSE <<>>

\* The steps of _run_psn_followups, in the order it appends them.
PsnSteps(added, needsReview, hasKey) ==
    <<"psn_store_refresh">> \o If(needsReview, "psn_igdb_titles")
      \o If(added, "psn_igdb_link") \o <<"psn_trophies">>
      \o If(hasKey, "sgdb_fill_all") \o If(hasKey /\ needsReview, "psn_review_art")

\* What a sync of the kind chains when it succeeds; what it found and whether
\* the user has a SteamGridDB key are inputs.
FollowupsOf(kind) ==
    IF kind \in SteamGameKinds
    THEN {<<"steam_achievements">>}
    ELSE {PsnSteps(a, r, k) : a \in BOOLEAN, r \in BOOLEAN, k \in BOOLEAN}

\* asyncio.create_task of a chain: it begins on a later turn of the loop.
SpawnChain(u, steps) ==
    \E c \in Chains \ DOMAIN chains : chains' = WithChain(c, u, steps)

\* The chain is over, or its next step's job is created and runs: reg, tsk and
\* d are the registry, the tasks and the pause depth the turn has reached.
ChainOver(c, reg, tsk, d) ==
    /\ chains' = WithoutChain(c)
    /\ jobs' = reg
    /\ task' = tsk
    /\ pauseDepth' = d
    /\ UNCHANGED told

BeginStep(c, reg, tsk, d) ==
    \E j \in Fresh(reg, tsk) :
        /\ jobs' = set_running(create(reg, j, chains[c].user, Head(chains[c].steps)), j)
        /\ task' = [tsk EXCEPT ![j] = "working"]
        /\ pauseDepth' = Pause(d)
        /\ chains' = [chains EXCEPT ![c].steps = Tail(@), ![c].job = j]
        /\ told' = [told EXCEPT ![j] = <<>>]

\* One turn of the for loop.  A step that failed does not end it.
StopAtFailure(c, reg, tsk, d) ==
    LET failed == chains[c].job # NoJob /\ reg[chains[c].job].status = "failed"
    IN  \/ (failed \/ chains[c].steps = <<>>) /\ ChainOver(c, reg, tsk, d)
        \/ ~failed /\ chains[c].steps # <<>> /\ BeginStep(c, reg, tsk, d)
NextStep(c, reg, tsk, d) ==
    \/ chains[c].steps = <<>> /\ ChainOver(c, reg, tsk, d)
    \/ chains[c].steps # <<>> /\ BeginStep(c, reg, tsk, d)

StartChain(c) == /\ chains[c].job = NoJob
                 /\ NextStep(c, jobs, task, pauseDepth)
                 /\ UNCHANGED worker

-----------------------------------------------------------------------------
(* Runners *)

\* The runner of j returns, leaving registry reg: its finally clause releases
\* the pause, and a chain that awaited it goes on in the same turn.
DepthUnbalanced(j) == pauseDepth - 1
DepthAfter(j) == IF Pauses(jobs[j].kind) THEN Resume(pauseDepth) ELSE pauseDepth
TasksAfter(j) == [task EXCEPT ![j] = "none"]

RunnerReturns(j, reg) ==
    /\ \/ \E c \in DOMAIN chains :
            /\ chains[c].job = j
            /\ NextStep(c, reg, TasksAfter(j), DepthAfter(j))
       \/ /\ \A c \in DOMAIN chains : chains[c].job # j
          /\ jobs' = reg
          /\ task' = TasksAfter(j)
          /\ pauseDepth' = DepthAfter(j)
          /\ UNCHANGED <<chains, told>>
    /\ UNCHANGED worker

\* A task created by a request begins: RUNNING, pause, and off to the thread.
RunnerBegins(j) ==
    /\ task[j] = "scheduled"
    /\ jobs' = set_running(jobs, j)
    /\ task' = [task EXCEPT ![j] = "working"]
    /\ pauseDepth' = IF Pauses(jobs[j].kind) THEN Pause(pauseDepth) ELSE pauseDepth
    /\ UNCHANGED <<chains, worker, told>>

\* The work succeeds and nothing follows it.
WorkDone(j) ==
    /\ task[j] = "working"
    /\ jobs[j].kind \notin ChainingKinds
    /\ RunnerReturns(j, mark_done(jobs, j, "result"))

\* A sync succeeds: done, and its follow-ups are scheduled.
SyncDone(j) ==
    /\ task[j] = "working"
    /\ jobs[j].kind \in ChainingKinds
    /\ jobs' = mark_done(jobs, j, "result")
    /\ task' = TasksAfter(j)
    /\ pauseDepth' = DepthAfter(j)
    /\ \E steps \in FollowupsOf(jobs[j].kind) : SpawnChain(jobs[j].user, steps)
    /\ UNCHANGED <<worker, told>>

\* The store refresh retitled something: the job is done, and the duplicate
\* scan runs again, in a thread, before the runner returns.
StoreRetitled(j) ==
    /\ task[j] = "working"
    /\ jobs[j].kind = "psn_store_refresh"
    /\ jobs' = mark_done(jobs, j, "result")
    /\ task' = [task EXCEPT ![j] = "rescanning"]
    /\ UNCHANGED <<chains, pauseDepth, worker, told>>

\* The second scan ends; finding candidates, it marks the job done once more.
RescanDone(j) ==
    /\ task[j] = "rescanning"
    /\ \/ RunnerReturns(j, jobs)
       \/ RunnerReturns(j, mark_done(jobs, j, "amended"))

\* An exception anywhere in the work, the user having been deleted included.
FailUnmarked(reg, j) == reg
Failure(reg, j) == mark_failed(reg, j, "failed")

WorkFails(j) ==
    /\ task[j] \in {"working", "rescanning"}
    /\ RunnerReturns(j, Failure(jobs, j))

-----------------------------------------------------------------------------
(* Requests *)

\* A request handler creates a job and schedules its runner.
Launch(u, kind) ==
    /\ Cardinality(Fresh(jobs, task)) > SpareIds
    /\ \E j \in Fresh(jobs, task) :
         /\ jobs' = create(jobs, j, u, kind)
         /\ task' = [task EXCEPT ![j] = "scheduled"]
         /\ told' = [told EXCEPT ![j] = <<>>]
    /\ UNCHANGED <<chains, pauseDepth, worker>>

\* _kick_off_sync, the credentials being present.
Blocking(u) == {j \in active_jobs_for(jobs, u) : jobs[j].kind \in PrimaryKinds}

KickOffSync(u, kind) ==
    /\ kind \in PrimaryKinds
    /\ Blocking(u) = {}
    /\ Launch(u, kind)

\* match_review_scan, steamgriddb_fill_missing and steamgriddb_fill_all.
StartLone(u, kind) ==
    /\ kind \in LoneKinds
    /\ active_jobs_for(jobs, u) = {}
    /\ Launch(u, kind)

\* kick_psn_enrichment: the PSN review queue has just been emptied.
KickEnrichment(u) ==
    /\ "psn_sync" \in Offered
    /\ \E key \in BOOLEAN : SpawnChain(u, PsnSteps(TRUE, FALSE, key))
    /\ UNCHANGED <<jobs, task, pauseDepth, worker, told>>

\* jobs_poll, when there is something to report.
Poll(u) ==
    /\ PendingFor(jobs, u) # {}
    /\ jobs' = pending_notifications_for(jobs, u)
    /\ told' = [j \in Jobs |-> IF j \in PendingFor(jobs, u)
                               THEN Append(told[j], Toast(jobs[j])) ELSE told[j]]
    /\ UNCHANGED <<task, chains, pauseDepth, worker>>

-----------------------------------------------------------------------------
(* Ambient workers *)

Become(w, s) == /\ worker' = [worker EXCEPT ![w] = s]
                /\ UNCHANGED <<jobs, task, chains, pauseDepth, told>>

\* A cycle begins unless the workers are paused; a paused one sleeps on.
WorkerWakes(w) == worker[w] = "asleep" /\ pauseDepth = 0 /\ Become(w, "batch")

\* The batch ends, or raises, and the worker sleeps...
BatchEnds(w) == worker[w] = "batch" /\ Become(w, "asleep")

\* ...or the enrichment worker, finding nothing left, queues stale entries.
RequeueBegins(w) == /\ w = "enrichment"
                    /\ worker[w] = "batch"
                    /\ Become(w, "requeue")
RequeueEnds(w) == worker[w] = "requeue" /\ Become(w, "asleep")

-----------------------------------------------------------------------------
\* The server process ends and comes back: all of this state is memory.
Restart == /\ jobs' = EmptyRegistry
           /\ task' = [j \in Jobs |-> "none"]
           /\ chains' = NoChains
           /\ pauseDepth' = 0
           /\ worker' = [w \in Workers |-> "asleep"]
           /\ told' = [j \in Jobs |-> <<>>]

RunnerStep(j) == \/ RunnerBegins(j) \/ WorkDone(j) \/ SyncDone(j)
                 \/ StoreRetitled(j) \/ RescanDone(j) \/ WorkFails(j)
WorkerStep(w) == WorkerWakes(w) \/ BatchEnds(w) \/ RequeueBegins(w) \/ RequeueEnds(w)

Serve == \/ \E u \in Users : \/ \E k \in Offered : KickOffSync(u, k) \/ StartLone(u, k)
                             \/ KickEnrichment(u)
                             \/ Poll(u)
         \/ \E j \in Jobs : RunnerStep(j)
         \/ \E c \in DOMAIN chains : StartChain(c)
         \/ \E w \in Workers : WorkerStep(w)

Next == Serve \/ Restart

Spec == Init /\ [][Next]_vars

(***************************************************************************)
(* Fairness.  The loop runs every task that is ready and the threads' work *)
(* ends (each HTTP call has a timeout, each list is finite); a page that   *)
(* is open polls every five seconds.  Nothing makes the user press a       *)
(* button, the server restart, or the workers find work.                   *)
(***************************************************************************)
Fairness == /\ \A j \in Jobs : WF_vars(RunnerStep(j))
            /\ \A c \in Chains : WF_vars(c \in DOMAIN chains /\ StartChain(c))
            /\ \A u \in Users : WF_vars(Poll(u))
            /\ \A w \in Workers : WF_vars(BatchEnds(w) \/ RequeueBegins(w) \/ RequeueEnds(w))

\* What a server that stays up promises.
FairSpec == Init /\ [][Serve]_vars /\ Fairness

-----------------------------------------------------------------------------
(* Properties *)

Live(j)     == task[j] # "none"
Pausing(j)  == task[j] \in {"working", "rescanning"} /\ Pauses(jobs[j].kind)

\* Two crawls of one user never have a live runner at the same time, from the
\* click on (integrations.py:932-936, the 409 of _kick_off_sync): counting the
\* window between create and the first turn of the runner, failures and the
\* syncs that chains delay.
OneCrawlPerUser ==
    \A i, j \in Jobs :
        /\ Live(i) /\ Live(j)
        /\ jobs[i].kind \in PrimaryKinds /\ jobs[j].kind \in PrimaryKinds
        /\ jobs[i].user = jobs[j].user
        => i = j

\* A job the registry shows as queued or running has a live runner, so nothing
\* keeps refusing a user's buttons (integrations.py:967, 1026, 1684, 1773)
\* after the work ended; and a job that is still working is never shown as over.
ActiveHasRunner ==
    \A j \in DOMAIN jobs : IsActive(jobs[j]) <=> task[j] \in {"scheduled", "working"}

\* The pause counter is the number of runners inside their paused section, so
\* it neither wakes the workers early nor keeps them paused for ever
\* (worker_state.py:3-9 and the clamp of :21-24 never acts).
PauseBalanced == pauseDepth = Cardinality({j \in Jobs : Pausing(j)})

\* No worker cycle begins while a pausing job works, nor in the gap between two
\* steps of a chain (main.py:51 and 89, integrations.py:823-829, worker_state.py:8-9).
ChainUnderWay(c) == c \in DOMAIN chains /\ chains[c].job # NoJob
WorkersStayAsleep ==
    [][ \A w \in Workers :
          worker[w] = "asleep" /\ worker'[w] = "batch"
            => /\ \A j \in Jobs : ~Pausing(j)
               /\ \A c \in DOMAIN chains : ~ChainUnderWay(c) ]_vars

\* A job is reported by one toast, however many pages poll and whatever its
\* runner does afterwards (jobs_poll's docstring, integrations.py:1098-1101).
ToldOnce == \A j \in Jobs : Len(told[j]) <= 1

\* Every job a button or a chain creates ends and is reported to a user whose
\* pages poll, while the server stays up (integrations.py:1095-1101).
Reported(j) == j \in DOMAIN jobs /\ jobs[j].notified
EveryJobReported == \A j \in Jobs : j \in DOMAIN jobs ~> Reported(j)

\* Every follow-up of a chain gets its turn, though the steps before it fail
\* (test_psn.py:1466), while the server stays up.
RunsStep(c, kind) == ChainUnderWay(c) /\ jobs[chains[c].job].kind = kind
HasStep(c, kind) == /\ c \in DOMAIN chains
                    /\ \E i \in DOMAIN chains[c].steps : chains[c].steps[i] = kind
FollowupsAllRun ==
    \A c \in Chains, kind \in FollowupKinds :
        HasStep(c, kind) ~> RunsStep(c, kind)
=============================================================================
