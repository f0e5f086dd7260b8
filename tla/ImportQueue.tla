----------------------------- MODULE ImportQueue -----------------------------
(***************************************************************************)
(* Spreadsheet imports: the staged uploads and the per-user queue of       *)
(* backend/jobs.py, and the handlers and coroutines of                     *)
(* backend/pages_import.py that feed and drain it.                         *)
(*                                                                         *)
(* The upload and process handlers and the drains run on the asyncio loop, *)
(* so each is one action between two suspensions (the form that process    *)
(* awaits was parsed before it was called).  The cancel handlers are plain *)
(* functions that run in threads: between two calls into jobs.py anything  *)
(* may happen.  The two phases of an import also run in a thread.          *)
(***************************************************************************)
EXTENDS Sequences, Integers, SequencesExt, JobRegistry

CONSTANTS Tokens,         \* tokens of staged uploads; one names one file
          Drains,         \* ids of the drain coroutines alive at one time
          NoJob,          \* what a drain awaits before its first turn
          MaxCandidates,  \* bound on the candidates one file yields
          LookupFails     \* may the query after an import raise?

ASSUME ImportKindsAssumption == Kinds = {"import_xlsx", "steam_sync_full"}
ASSUME ImportBoundsAssumption == /\ MaxCandidates \in Nat
                                 /\ LookupFails \in BOOLEAN
                                 /\ NoJob \notin Jobs

VARIABLES jobs,      \* the registry
          staged,    \* jobs._staged: token -> the user who uploaded it
          queue,     \* jobs._import_queue: per user, [job, file] entries
          drains,    \* the _drain_import_queue coroutines alive
          flagging,  \* per user, the jobs a cancel request has yet to flag
          fileOf,    \* the file each job imports (history)
          late       \* candidates a job added after it was flagged (history)

vars == <<jobs, staged, queue, drains, flagging, fileOf, late>>

Phases == {"scheduled", "parsing", "writing"}
\* A drain: its job and the candidates of the file still to write.
DrainRecords == [user : Users, phase : Phases, job : Jobs \cup {NoJob},
                 left : 0..MaxCandidates]

TypeOK == /\ IsRegistry(jobs)
          /\ DOMAIN staged \subseteq Tokens
          /\ staged \in [DOMAIN staged -> Users]
          /\ queue \in [Users -> Seq([job : DOMAIN jobs, file : Tokens])]
          /\ DOMAIN drains \subseteq Drains
          /\ drains \in [DOMAIN drains -> DrainRecords]
          /\ flagging \in [Users -> SUBSET Jobs]
          /\ DOMAIN fileOf \subseteq DOMAIN jobs
          /\ fileOf \in [DOMAIN fileOf -> Tokens]
          /\ late \in [Jobs -> 0..MaxCandidates]

Nothing == [x \in {} |-> {}]

Init == /\ jobs = EmptyRegistry
        /\ staged = Nothing
        /\ queue = [u \in Users |-> <<>>]
        /\ drains = Nothing
        /\ flagging = [u \in Users |-> {}]
        /\ fileOf = Nothing
        /\ late = [j \in Jobs |-> 0]

With(f, x, y) == [z \in DOMAIN f \cup {x} |-> IF z = x THEN y ELSE f[z]]
Without(f, x) == [z \in DOMAIN f \ {x} |-> f[z]]

Unused == Jobs \ DOMAIN jobs
IsImport(j) == jobs[j].kind = "import_xlsx"

-----------------------------------------------------------------------------
(* backend/jobs.py *)

\* A second upload of the user replaces the first.
stage_upload(t, u) ==
    [x \in {y \in DOMAIN staged : staged[y] # u} \cup {t} |->
        IF x = t THEN u ELSE staged[x]]

KeepStaged(t) == staged
drop_staged_upload(t) == Without(staged, t)

EnqueueUnregistered(reg, j, u) == reg
enqueue_import(reg, j, u) == create(reg, j, u, "import_xlsx")

\* cancel_queued_import: out of the queue and failed, under one lock.  The list is
\* filtered by id, and the id of a job, new in enqueue_import, is in one entry.
StillQueued(q, j) == q
WithoutJob(q, j) == RemoveAt(q, CHOOSE i \in DOMAIN q : q[i].job = j)

\* next_queued_import: an entry is popped from the front.
PopsNewest(q) == [item |-> q[Len(q)], rest |-> SubSeq(q, 1, Len(q) - 1)]
next_queued_import(q) == [item |-> Head(q), rest |-> Tail(q)]

-----------------------------------------------------------------------------
(* Uploads *)

\* import_upload; the file could be read.
Upload(u) ==
    /\ \E t \in Tokens \ DOMAIN staged :
         /\ \A j \in DOMAIN fileOf : fileOf[j] # t
         /\ staged' = stage_upload(t, u)
    /\ UNCHANGED <<jobs, queue, drains, flagging, fileOf, late>>

\* import_process: the file joins the queue, and a drain is scheduled unless an
\* import of the user is running.  A drain begins on the loop's next pass, and a
\* user has one staged upload at a time: the token of another one would first
\* have to travel to the browser and back, so no process of the user comes
\* between the scheduling of a drain and its first turn.
RunsAnyJob(reg, u) == active_jobs_for(reg, u) # {}
ImportRunning(reg, u) ==
    \E i \in active_jobs_for(reg, u) : reg[i].kind = "import_xlsx" /\ reg[i].status = "running"

DrainScheduled(u) == \E d \in DOMAIN drains : drains[d].user = u /\ drains[d].phase = "scheduled"

Process(u, t) ==
    /\ t \in DOMAIN staged /\ staged[t] = u
    /\ ~DrainScheduled(u)
    /\ staged' = drop_staged_upload(t)
    /\ \E j \in Unused :
         /\ jobs' = enqueue_import(jobs, j, u)
         /\ queue' = [queue EXCEPT ![u] = Append(@, [job |-> j, file |-> t])]
         /\ fileOf' = With(fileOf, j, t)
    /\ IF ImportRunning(jobs', u)
       THEN UNCHANGED drains
       ELSE \E d \in Drains \ DOMAIN drains :
              drains' = With(drains, d, [user |-> u, phase |-> "scheduled",
                                         job |-> NoJob, left |-> 0])
    /\ UNCHANGED <<flagging, late>>

-----------------------------------------------------------------------------
(* Drains *)

\* The rest of a drain's turn, the registry being reg: it takes the next entry
\* of its user's queue and begins that import, or it is over.
DrainOn(d, reg) ==
    LET u == drains[d].user
    IN  /\ \/ /\ queue[u] = <<>>
              /\ drains' = Without(drains, d)
              /\ jobs' = reg
              /\ UNCHANGED queue
           \/ /\ queue[u] # <<>>
              /\ queue' = [queue EXCEPT ![u] = next_queued_import(@).rest]
              /\ LET j == next_queued_import(queue[u]).item.job
                 IN  /\ jobs' = set_running(reg, j)
                     /\ drains' = [drains EXCEPT ![d].phase = "parsing", ![d].job = j]
        /\ UNCHANGED <<staged, flagging, fileOf>>

\* The import of d ends, leaving registry reg; the user is looked up (for the
\* thumbnails their key pays for) and the loop goes on, unless the query raises.
ImportEnds(d, reg) ==
    \/ DrainOn(d, reg)
    \/ /\ LookupFails
       /\ jobs' = reg
       /\ drains' = Without(drains, d)
       /\ UNCHANGED <<staged, queue, flagging, fileOf>>

DrainBegins(d) ==
    /\ drains[d].phase = "scheduled"
    /\ DrainOn(d, jobs)
    /\ UNCHANGED late

\* parse_upload returns the groups that write_candidates will turn into rows.
Parsed(d) ==
    /\ drains[d].phase = "parsing"
    /\ \E n \in 0..MaxCandidates :
         drains' = [drains EXCEPT ![d].phase = "writing", ![d].left = n]
    /\ UNCHANGED <<jobs, staged, queue, flagging, fileOf, late>>

\* write_candidates adds one candidate and calls on_progress, which raises if
\* the job was flagged by then; groups it skips add nothing and call nothing.
NeverRaises(j) == FALSE
on_progress_raises(j) == jobs[j].cancel_requested

WriteOne(d) ==
    LET j == drains[d].job
    IN  /\ drains[d].phase = "writing"
        /\ drains[d].left > 0
        /\ late' = [late EXCEPT ![j] = @ + (IF jobs[j].cancel_requested THEN 1 ELSE 0)]
        /\ \/ /\ on_progress_raises(j)
              /\ ImportEnds(d, mark_failed(jobs, j, "cancelled"))
           \/ /\ ~on_progress_raises(j)
              /\ drains' = [drains EXCEPT ![d].left = @ - 1]
              /\ UNCHANGED <<jobs, staged, queue, flagging, fileOf>>

\* What is left of the last batch is committed and the job is done.
AllWritten(d) ==
    /\ drains[d].phase = "writing"
    /\ drains[d].left = 0
    /\ ImportEnds(d, mark_done(jobs, drains[d].job, "result"))
    /\ UNCHANGED late

\* Any other exception of either phase.
FailUnmarked(reg, j) == reg
Failure(reg, j) == mark_failed(reg, j, "failed")

ImportFails(d) ==
    /\ drains[d].phase \in {"parsing", "writing"}
    /\ ImportEnds(d, Failure(jobs, drains[d].job))
    /\ UNCHANGED late

-----------------------------------------------------------------------------
(* Cancelling *)

\* import_cancel_job: the handler lists the user's active imports, queued ones
\* included, then flags them one by one.
CancelLists(u) ==
    /\ flagging[u] = {}
    /\ flagging' = [flagging EXCEPT ![u] = {j \in active_jobs_for(jobs, u) : IsImport(j)}]
    /\ UNCHANGED <<jobs, staged, queue, drains, fileOf, late>>

CancelFlags(u, j) ==
    /\ j \in flagging[u]
    /\ jobs' = request_cancel(jobs, {j})
    /\ flagging' = [flagging EXCEPT ![u] = @ \ {j}]
    /\ UNCHANGED <<staged, queue, drains, fileOf, late>>

\* import_cancel_queued, the job being in the user's queue.
CancelQueued(u, j) ==
    /\ \E i \in DOMAIN queue[u] : queue[u][i].job = j
    /\ queue' = [queue EXCEPT ![u] = WithoutJob(@, j)]
    /\ jobs' = mark_failed(jobs, j, "cancelled")
    /\ UNCHANGED <<staged, drains, flagging, fileOf, late>>

-----------------------------------------------------------------------------
(* Another job of the user: a library sync runs and ends. *)

SyncBegins(u) ==
    /\ \A j \in DOMAIN jobs : IsImport(j)
    /\ \E j \in Unused : jobs' = set_running(create(jobs, j, u, "steam_sync_full"), j)
    /\ UNCHANGED <<staged, queue, drains, flagging, fileOf, late>>

SyncEnds(j) ==
    /\ ~IsImport(j) /\ IsActive(jobs[j])
    /\ jobs' = mark_done(jobs, j, "result")
    /\ UNCHANGED <<staged, queue, drains, flagging, fileOf, late>>

-----------------------------------------------------------------------------
\* The server process restarts; only the committed candidates survive.
Restart == /\ jobs' = EmptyRegistry
           /\ staged' = Nothing
           /\ queue' = [u \in Users |-> <<>>]
           /\ drains' = Nothing
           /\ flagging' = [u \in Users |-> {}]
           /\ fileOf' = Nothing
           /\ late' = [j \in Jobs |-> 0]

DrainStep(d) == DrainBegins(d) \/ Parsed(d) \/ WriteOne(d) \/ AllWritten(d) \/ ImportFails(d)

Serve == \/ \E u \in Users : \/ Upload(u) \/ CancelLists(u) \/ SyncBegins(u)
                             \/ \E t \in Tokens : Process(u, t)
                             \/ \E j \in Jobs : CancelFlags(u, j) \/ CancelQueued(u, j)
         \/ \E d \in DOMAIN drains : DrainStep(d)
         \/ \E j \in DOMAIN jobs : SyncEnds(j)

Next == Serve \/ Restart

Spec == Init /\ [][Next]_vars

\* The loop runs every ready task and the work of a phase ends: a file is
\* finite.  No user need do anything, and a sync may last.
FairSpec == Spec /\ \A d \in Drains : WF_vars(d \in DOMAIN drains /\ DrainStep(d))

-----------------------------------------------------------------------------
(* Properties *)

\* A file the user confirmed once is imported by one job, however often its
\* wizard is submitted and whatever was cancelled or replaced meanwhile
\* (jobs.py:57-61, pages_import.py:117-129).
UploadImportedOnce ==
    \A i, j \in DOMAIN fileOf : fileOf[i] = fileOf[j] => i = j

\* The queue of a user holds each of their queued imports exactly once and
\* nothing else, so none is lost, run twice or shown as queued for ever
\* (jobs.py:92-133), between any two turns of the loop.
QueuedExactly ==
    \A u \in Users :
        LET Entries(j) == {i \in DOMAIN queue[u] : queue[u][i].job = j}
            Waiting(j) == jobs[j].user = u /\ IsImport(j) /\ jobs[j].status = "queued"
        IN  \A j \in DOMAIN jobs : Cardinality(Entries(j)) = IF Waiting(j) THEN 1 ELSE 0

\* An import shown as running is the one a live drain works on, so no dead
\* import keeps process from scheduling a drain (pages_import.py:130-132): a
\* queue stranded by a drain that died is drained after the next upload.
RunningHasDrain ==
    \A j \in DOMAIN jobs :
        IsImport(j) => (jobs[j].status = "running" <=> \E d \in DOMAIN drains : drains[d].job = j)

\* After a job was flagged it adds one more candidate at most, wherever it was
\* (pages_import.py:188-192, importer.py:1384-1388).
CancelStopsWriting == \A j \in Jobs : late[j] <= 1

\* Seen from the browser the registry, the queue and the drains are a line in
\* which each user's imports wait: first come, first served, one at a time, and
\* an import that is over, or was cancelled while it waited, stays over and is
\* never begun (jobs.py:92-133, pages_import.py:167-179).
JobsOf(q) == [i \in DOMAIN q |-> q[i].job]
Imports(u, statuses) == {j \in DOMAIN jobs : IsImport(j) /\ jobs[j].user = u /\ jobs[j].status \in statuses}
Requests == INSTANCE ImportRequests WITH
    line <- [u \in Users |-> JobsOf(queue[u])],
    turn <- [u \in Users |-> Imports(u, {"running"})],
    over <- UNION {Imports(u, {"done", "failed"}) : u \in Users}
ServedInTurn == Requests!Spec

\* While the server stays up and the lookup between two imports succeeds, every
\* import that was queued comes to an end, with a sync running beside it or not
\* (pages_import.py:171, "until the queue is empty").
Over(j) == j \in DOMAIN jobs => is_terminal(jobs[j])
EveryImportEnds == \A j \in Jobs : (j \in DOMAIN jobs /\ IsImport(j)) ~> Over(j)
=============================================================================
