--------------------------- MODULE SyncJobsProofs ---------------------------
(***************************************************************************)
(* Proofs about SyncJobs for every set of jobs, users, chains and workers. *)
(* IInv is inductive: the registry and the runners agree (RunnersMatch),   *)
(* a chain under way awaits a runner that holds a pause and no other chain *)
(* awaits it (ChainsAwaitRunners), and the pause counter counts (Balanced).*)
(***************************************************************************)
EXTENDS SyncJobs, TLAPS, FiniteSetTheorems

-----------------------------------------------------------------------------
(* What the functions of jobs.py do to a registry *)

\* A call that touches the entry of j only, and neither its owner, its kind
\* nor whether it was reported.
TouchesOnly(reg, new, j) ==
    /\ IsRegistry(new)
    /\ DOMAIN new = DOMAIN reg
    /\ \A i \in DOMAIN reg \ {j} : new[i] = reg[i]
    /\ new[j].user = reg[j].user
    /\ new[j].kind = reg[j].kind
    /\ new[j].notified = reg[j].notified

\* A call that adds j, queued and unreported, and changes no other entry.
AddsJob(reg, new, j, u, k) ==
    /\ IsRegistry(new)
    /\ DOMAIN new = DOMAIN reg \cup {j}
    /\ \A i \in DOMAIN reg \ {j} : new[i] = reg[i]
    /\ new[j] = NewJob(u, k)

\* A call that sets the notified flag of the jobs in S and changes nothing else.
NotifiesOnly(reg, new, S) ==
    /\ IsRegistry(new)
    /\ DOMAIN new = DOMAIN reg
    /\ \A i \in DOMAIN reg :
         /\ new[i].user = reg[i].user
         /\ new[i].kind = reg[i].kind
         /\ new[i].status = reg[i].status
         /\ new[i].notified = (reg[i].notified \/ i \in S)

\* The registry starts out empty (jobs.py:50) and well formed.
LEMMA EmptyIsRegistry == IsRegistry(EmptyRegistry) /\ DOMAIN EmptyRegistry = {}
BY DEF EmptyRegistry, IsRegistry

\* jobs.create (jobs.py:136-140) adds a queued, unreported job under a fresh id
\* and changes no other entry.
LEMMA CreateAdds ==
    ASSUME NEW reg, IsRegistry(reg), NEW j \in Jobs, NEW u \in Users, NEW k \in Kinds
    PROVE  AddsJob(reg, create(reg, j, u, k), j, u, k)
  <1> DEFINE new == create(reg, j, u, k)
  <1>1. NewJob(u, k) \in Job
    BY DEF NewJob, Job, Statuses, Messages, Errors
  <1>2. DOMAIN new = DOMAIN reg \cup {j}
    BY DEF create
  <1>3. new[j] = NewJob(u, k) /\ \A i \in DOMAIN reg \ {j} : new[i] = reg[i]
    BY DEF create
  <1>4. \A i \in DOMAIN new : new[i] \in Job
    BY <1>1, <1>2, <1>3 DEF IsRegistry
  <1>5. new \in [DOMAIN new -> Job]
    BY <1>2, <1>4 DEF create
  <1> QED BY <1>2, <1>3, <1>5 DEF IsRegistry, AddsJob

\* update(job_id, status=RUNNING) as every runner begins (integrations.py:860).
LEMMA SetRunningTouches ==
    ASSUME NEW reg, IsRegistry(reg), NEW j \in DOMAIN reg
    PROVE  /\ TouchesOnly(reg, set_running(reg, j), j)
           /\ set_running(reg, j)[j].status = "running"
  <1>1. reg[j] \in Job /\ reg \in [DOMAIN reg -> Job]
    BY DEF IsRegistry
  <1>2. [reg[j] EXCEPT !.status = "running"] \in Job
    BY <1>1 DEF Job, Statuses
  <1> QED BY <1>1, <1>2 DEF set_running, TouchesOnly, IsRegistry, Job

\* mark_done and mark_failed (jobs.py:158-174) leave the job over, whatever it
\* was before.
LEMMA MarkDoneTouches ==
    ASSUME NEW reg, IsRegistry(reg), NEW j \in DOMAIN reg, NEW m \in Messages
    PROVE  /\ TouchesOnly(reg, mark_done(reg, j, m), j)
           /\ mark_done(reg, j, m)[j].status = "done"
  <1>1. reg[j] \in Job /\ reg \in [DOMAIN reg -> Job]
    BY DEF IsRegistry
  <1>2. [reg[j] EXCEPT !.status = "done", !.message = m] \in Job
    BY <1>1 DEF Job, Statuses
  <1> QED BY <1>1, <1>2 DEF mark_done, TouchesOnly, IsRegistry, Job

LEMMA MarkFailedTouches ==
    ASSUME NEW reg, IsRegistry(reg), NEW j \in DOMAIN reg, NEW e \in Errors
    PROVE  /\ TouchesOnly(reg, mark_failed(reg, j, e), j)
           /\ mark_failed(reg, j, e)[j].status = "failed"
  <1>1. reg[j] \in Job /\ reg \in [DOMAIN reg -> Job]
    BY DEF IsRegistry
  <1>2. [reg[j] EXCEPT !.status = "failed", !.error = e] \in Job
    BY <1>1 DEF Job, Statuses
  <1> QED BY <1>1, <1>2 DEF mark_failed, TouchesOnly, IsRegistry, Job

\* pending_notifications_for (jobs.py:183-189) changes nothing but the notified
\* flag, which it sets on exactly the jobs it returns.
LEMMA NotifyStamps ==
    ASSUME NEW reg, IsRegistry(reg), NEW u
    PROVE  NotifiesOnly(reg, pending_notifications_for(reg, u), PendingFor(reg, u))
  <1> DEFINE new == pending_notifications_for(reg, u)
  <1>1. DOMAIN new = DOMAIN reg
    BY DEF pending_notifications_for
  <1>2. ASSUME NEW i \in DOMAIN reg
        PROVE  /\ new[i] \in Job
               /\ new[i].user = reg[i].user
               /\ new[i].kind = reg[i].kind
               /\ new[i].status = reg[i].status
               /\ new[i].notified = (reg[i].notified \/ i \in PendingFor(reg, u))
    <2>1. reg[i] \in Job
      BY DEF IsRegistry
    <2>2. new[i] = [reg[i] EXCEPT !.notified = @ \/ i \in PendingFor(reg, u)]
      BY DEF pending_notifications_for
    <2> QED BY <2>1, <2>2 DEF Job
  <1>3. new \in [DOMAIN new -> Job]
    BY <1>1, <1>2 DEF pending_notifications_for
  <1> QED BY <1>1, <1>2, <1>3 DEF IsRegistry, NotifiesOnly

-----------------------------------------------------------------------------
Holds(reg, tsk, j) == tsk[j] \in {"working", "rescanning"} /\ Pauses(reg[j].kind)
Holders(reg, tsk) == {j \in Jobs : Holds(reg, tsk, j)}

Matches(reg, tsk) ==
    /\ \A j \in Jobs : tsk[j] # "none" => j \in DOMAIN reg
    /\ \A j \in DOMAIN reg :
         /\ reg[j].status = "queued" <=> tsk[j] = "scheduled"
         /\ reg[j].status = "running" <=> tsk[j] = "working"
         /\ tsk[j] = "rescanning" => reg[j].kind = "psn_store_refresh"

OneCrawl(reg, tsk) ==
    \A i, j \in Jobs :
        /\ tsk[i] # "none" /\ tsk[j] # "none"
        /\ reg[i].kind \in PrimaryKinds /\ reg[j].kind \in PrimaryKinds
        /\ reg[i].user = reg[j].user
        => i = j

\* Of the chains in C, each that has begun awaits a holder of a pause, which is
\* one of its follow-ups and awaited by no other.
Await(chs, C, reg, tsk) ==
    /\ \A c \in C : chs[c].job # NoJob =>
                      /\ chs[c].job \in Jobs
                      /\ Holds(reg, tsk, chs[c].job)
                      /\ reg[chs[c].job].kind \in FollowupKinds
    /\ \A c, d \in C : chs[c].job # NoJob /\ chs[c].job = chs[d].job => c = d

RunnersMatch       == Matches(jobs, task)
ChainsAwaitRunners == Await(chains, DOMAIN chains, jobs, task)
Balanced           == pauseDepth = Cardinality(Holders(jobs, task))

IInv == /\ TypeOK
        /\ RunnersMatch
        /\ ChainsAwaitRunners
        /\ OneCrawl(jobs, task)
        /\ Balanced

\* A registry, the tasks and a pause depth that a turn of the loop may reach.
Consistent(reg, tsk, d) == /\ IsRegistry(reg)
                           /\ tsk \in [Jobs -> TaskStates]
                           /\ Matches(reg, tsk)
                           /\ OneCrawl(reg, tsk)
                           /\ d = Cardinality(Holders(reg, tsk))

-----------------------------------------------------------------------------
(* Counting the runners that hold a pause *)

\* One more or one fewer element changes the count by one, as pause_enrichment
\* and resume_enrichment change the depth (worker_state.py:16-24).
LEMMA CountAdd ==
    ASSUME NEW S \in SUBSET Jobs, NEW j \in Jobs, j \notin S
    PROVE  Pause(Cardinality(S)) = Cardinality(S \cup {j})
  <1>1. IsFiniteSet(S)
    BY NoJobAssumption, FS_Subset
  <1> QED BY <1>1, FS_AddElement DEF Pause

LEMMA CountRemove ==
    ASSUME NEW S \in SUBSET Jobs, NEW j \in S
    PROVE  Resume(Cardinality(S)) = Cardinality(S \ {j})
  <1>1. IsFiniteSet(S) /\ IsFiniteSet(S \ {j})
    BY NoJobAssumption, FS_Subset
  <1>2. Cardinality(S \ {j}) = Cardinality(S) - 1 /\ Cardinality(S) \in Nat
        /\ Cardinality(S \ {j}) \in Nat
    BY <1>1, FS_RemoveElement, FS_CardinalityType
  <1> QED BY <1>2 DEF Resume

LEMMA CountNat ==
    ASSUME NEW S \in SUBSET Jobs
    PROVE  Cardinality(S) \in Nat
  BY NoJobAssumption, FS_Subset, FS_CardinalityType

-----------------------------------------------------------------------------
(* Chains *)

\* The kinds a chain creates jobs of all hold a pause, none is a crawl.
LEMMA FollowupsPause ==
    ASSUME NEW k \in FollowupKinds
    PROVE  Pauses(k) /\ k \in Kinds /\ k \notin PrimaryKinds
  BY KindsAssumption DEF FollowupKinds, PrimaryKinds, LoneKinds, Pauses

\* What _run_psn_followups appends is a sequence of follow-up kinds.
LEMMA IfType ==
    ASSUME NEW b \in BOOLEAN, NEW k \in FollowupKinds
    PROVE  If(b, k) \in Seq(FollowupKinds)
  BY DEF If

LEMMA StepsType ==
    ASSUME NEW a \in BOOLEAN, NEW r \in BOOLEAN, NEW key \in BOOLEAN
    PROVE  PsnSteps(a, r, key) \in Seq(FollowupKinds)
  <1>1. <<"psn_store_refresh">> \in Seq(FollowupKinds) /\ <<"psn_trophies">> \in Seq(FollowupKinds)
    BY DEF FollowupKinds
  <1>2. /\ If(r, "psn_igdb_titles") \in Seq(FollowupKinds)
        /\ If(a, "psn_igdb_link") \in Seq(FollowupKinds)
        /\ If(key, "sgdb_fill_all") \in Seq(FollowupKinds)
        /\ If(key /\ r, "psn_review_art") \in Seq(FollowupKinds)
    BY IfType DEF FollowupKinds
  <1>3. \A s, t \in Seq(FollowupKinds) : s \o t \in Seq(FollowupKinds)
    OBVIOUS
  <1> QED BY <1>1, <1>2, <1>3 DEF PsnSteps

LEMMA FollowupsType ==
    ASSUME NEW kind, NEW steps \in FollowupsOf(kind)
    PROVE  steps \in Seq(FollowupKinds)
  <1>1. CASE kind \in SteamGameKinds
    <2>1. steps = <<"steam_achievements">> /\ "steam_achievements" \in FollowupKinds
      BY <1>1 DEF FollowupsOf, FollowupKinds
    <2> QED BY <2>1
  <1>2. CASE kind \notin SteamGameKinds
    <2>1. PICK a \in BOOLEAN, r \in BOOLEAN, key \in BOOLEAN : steps = PsnSteps(a, r, key)
      BY <1>2 DEF FollowupsOf
    <2> QED BY <2>1, StepsType
  <1> QED BY <1>1, <1>2

-----------------------------------------------------------------------------
(* Turns of the loop *)

\* A job created under a fresh id and not started (Launch) or begun at once
\* (BeginStep): nothing that was awaited, matched or counted is disturbed.
LEMMA FreshIsIdle ==
    ASSUME NEW reg, NEW tsk, IsRegistry(reg), tsk \in [Jobs -> TaskStates],
           Matches(reg, tsk), NEW j \in Fresh(reg, tsk)
    PROVE  j \in Jobs /\ tsk[j] = "none"
  BY DEF Fresh, Settled, Matches

LEMMA LaunchConsistent ==
    ASSUME NEW reg, NEW tsk, NEW d, Consistent(reg, tsk, d),
           NEW j \in Fresh(reg, tsk), NEW u \in Users, NEW k \in Kinds,
           k \in PrimaryKinds =>
             \A i \in DOMAIN reg : reg[i].user = u /\ IsActive(reg[i])
                                   => reg[i].kind \notin PrimaryKinds
    PROVE  /\ Consistent(create(reg, j, u, k), [tsk EXCEPT ![j] = "scheduled"], d)
           /\ \A C \in SUBSET DOMAIN chains : Await(chains, C, reg, tsk)
                 => Await(chains, C, create(reg, j, u, k), [tsk EXCEPT ![j] = "scheduled"])
  <1> DEFINE new == create(reg, j, u, k)
             tnew == [tsk EXCEPT ![j] = "scheduled"]
  <1>1. /\ j \in Jobs /\ tsk[j] = "none"
        /\ tsk \in [Jobs -> TaskStates]
        /\ IsRegistry(reg)
    BY FreshIsIdle DEF Consistent
  <1>2. /\ IsRegistry(new)
        /\ DOMAIN new = DOMAIN reg \cup {j}
        /\ \A i \in DOMAIN reg \ {j} : new[i] = reg[i]
        /\ new[j].user = u /\ new[j].kind = k /\ new[j].status = "queued"
    <2>1. AddsJob(reg, new, j, u, k)
      BY <1>1, CreateAdds
    <2> QED BY <2>1 DEF AddsJob, NewJob
  <1> HIDE DEF new
  <1>3. /\ tnew \in [Jobs -> TaskStates]
        /\ tnew[j] = "scheduled"
        /\ \A i \in Jobs \ {j} : tnew[i] = tsk[i]
    BY <1>1 DEF TaskStates
  <1> HIDE DEF tnew
  <1>4. DOMAIN reg \subseteq Jobs
    BY <1>1 DEF IsRegistry
  <1>5. Matches(new, tnew)
    BY <1>1, <1>2, <1>3, <1>4 DEF Consistent, Matches
  <1>6. \A i \in Jobs : Holds(new, tnew, i) <=> Holds(reg, tsk, i)
    BY <1>1, <1>2, <1>3, <1>4 DEF Holds, Consistent, Matches
  <1>7. Holders(new, tnew) = Holders(reg, tsk)
    BY <1>6 DEF Holders
  <1>8. OneCrawl(new, tnew)
    <2> SUFFICES ASSUME NEW i \in Jobs, NEW h \in Jobs,
                        tnew[i] # "none", tnew[h] # "none",
                        new[i].kind \in PrimaryKinds, new[h].kind \in PrimaryKinds,
                        new[i].user = new[h].user
                 PROVE  i = h
      BY DEF OneCrawl
    <2>1. \A x \in Jobs \ {j} : tnew[x] # "none" =>
            /\ x \in DOMAIN reg /\ new[x] = reg[x] /\ tsk[x] = tnew[x]
            /\ reg[x].kind \in PrimaryKinds => IsActive(reg[x])
      BY <1>2, <1>3 DEF Consistent, Matches, IsActive, TaskStates, PrimaryKinds
    <2>2. CASE i # j /\ h # j
      BY <2>1, <2>2 DEF Consistent, OneCrawl
    <2>3. CASE i = j /\ h # j
      BY <1>2, <2>1, <2>3
    <2>4. CASE i # j /\ h = j
      BY <1>2, <2>1, <2>4
    <2> QED BY <2>2, <2>3, <2>4
  <1>9. ASSUME NEW C \in SUBSET DOMAIN chains, Await(chains, C, reg, tsk)
        PROVE  Await(chains, C, new, tnew)
    BY <1>1, <1>2, <1>6, <1>9 DEF Await, Holds, Consistent, Matches
  <1> QED BY <1>2, <1>3, <1>5, <1>7, <1>8, <1>9 DEF Consistent, new, tnew

\* From reg and tsk, a job of kind k has begun under j: the rest is as it was,
\* and no chain that awaited a runner awaits j.
Begun(reg, tsk, new, tnew, dnew, j, k) ==
    /\ Consistent(new, tnew, dnew)
    /\ Holds(new, tnew, j) /\ new[j].kind = k
    /\ \A C \in SUBSET DOMAIN chains :
          Await(chains, C, reg, tsk) => /\ Await(chains, C, new, tnew)
                                        /\ \A c \in C : chains[c].job # j

\* A chain creates its next job and enters its runner (integrations.py:823-829).
LEMMA BeginConsistent ==
    ASSUME NEW reg, NEW tsk, NEW d, Consistent(reg, tsk, d),
           NEW j \in Fresh(reg, tsk), NEW u \in Users, NEW k \in FollowupKinds
    PROVE  Begun(reg, tsk, set_running(create(reg, j, u, k), j),
                 [tsk EXCEPT ![j] = "working"], Pause(d), j, k)
  <1> DEFINE mid  == create(reg, j, u, k)
             new  == set_running(mid, j)
             tnew == [tsk EXCEPT ![j] = "working"]
  <1>1. /\ j \in Jobs /\ tsk[j] = "none"
        /\ tsk \in [Jobs -> TaskStates]
        /\ IsRegistry(reg)
        /\ k \in Kinds /\ Pauses(k) /\ k \notin PrimaryKinds
    BY FreshIsIdle, FollowupsPause DEF Consistent
  <1>2. AddsJob(reg, mid, j, u, k)
    BY <1>1, CreateAdds
  <1>3. j \in DOMAIN mid /\ IsRegistry(mid)
    BY <1>2 DEF AddsJob
  <1> HIDE DEF mid
  <1>4. TouchesOnly(mid, new, j) /\ new[j].status = "running"
    BY <1>3, SetRunningTouches
  <1> HIDE DEF new
  <1>5. /\ IsRegistry(new)
        /\ DOMAIN new = DOMAIN reg \cup {j}
        /\ \A i \in DOMAIN reg \ {j} : new[i] = reg[i]
        /\ new[j].user = u /\ new[j].kind = k /\ new[j].status = "running"
    BY <1>2, <1>4 DEF AddsJob, TouchesOnly, NewJob
  <1>6. /\ tnew \in [Jobs -> TaskStates]
        /\ tnew[j] = "working"
        /\ \A i \in Jobs \ {j} : tnew[i] = tsk[i]
    BY <1>1 DEF TaskStates
  <1> HIDE DEF tnew
  <1>7. DOMAIN reg \subseteq Jobs
    BY <1>1 DEF IsRegistry
  <1>8. Matches(new, tnew)
    BY <1>1, <1>5, <1>6, <1>7 DEF Consistent, Matches
  <1>9. \A i \in Jobs \ {j} : Holds(new, tnew, i) <=> Holds(reg, tsk, i)
    BY <1>1, <1>5, <1>6, <1>7 DEF Holds, Consistent, Matches
  <1>10. Holds(new, tnew, j) /\ ~Holds(reg, tsk, j)
    BY <1>1, <1>5, <1>6 DEF Holds
  <1>11. Pause(d) = Cardinality(Holders(new, tnew))
    <2>1. Holders(new, tnew) = Holders(reg, tsk) \cup {j}
      BY <1>1, <1>9, <1>10 DEF Holders
    <2>2. Holders(reg, tsk) \in SUBSET Jobs /\ j \notin Holders(reg, tsk)
      BY <1>10 DEF Holders
    <2>3. d = Cardinality(Holders(reg, tsk))
      BY DEF Consistent
    <2> QED BY <1>1, <2>1, <2>2, <2>3, CountAdd
  <1>12. OneCrawl(new, tnew)
    <2>1. \A x \in Jobs : tnew[x] # "none" /\ new[x].kind \in PrimaryKinds =>
            x # j /\ x \in DOMAIN reg /\ new[x] = reg[x] /\ tsk[x] = tnew[x]
      BY <1>1, <1>5, <1>6 DEF Consistent, Matches
    <2> QED BY <2>1 DEF Consistent, OneCrawl
  <1>13. ASSUME NEW C \in SUBSET DOMAIN chains, Await(chains, C, reg, tsk)
         PROVE  Await(chains, C, new, tnew) /\ \A c \in C : chains[c].job # j
    <2>1. \A c \in C : chains[c].job # j
      BY <1>1, <1>10, <1>13, NoJobAssumption DEF Await
    <2>2. \A x \in Jobs : x # j /\ Holds(reg, tsk, x) => Holds(new, tnew, x) /\ new[x] = reg[x]
      BY <1>5, <1>9 DEF Holds, Consistent, Matches
    <2> QED BY <1>13, <2>1, <2>2 DEF Await
  <1> QED BY <1>5, <1>6, <1>8, <1>10, <1>11, <1>12, <1>13 DEF Begun, Consistent, mid, new, tnew

\* A runner that returns after marking its job over leaves the rest alone and
\* gives back its pause (the finally of _run_sync_job, integrations.py:928-929).
LEMMA ReturnConsistent ==
    ASSUME IInv, NEW j \in Jobs, task[j] \in {"working", "rescanning"},
           NEW reg, TouchesOnly(jobs, reg, j), is_terminal(reg[j])
    PROVE  /\ Consistent(reg, TasksAfter(j), DepthAfter(j))
           /\ \A C \in SUBSET DOMAIN chains :
                Await(chains, C, jobs, task) /\ (\A c \in C : chains[c].job # j)
                  => Await(chains, C, reg, TasksAfter(j))
  <1> DEFINE tnew == TasksAfter(j)
  <1>1. /\ task \in [Jobs -> TaskStates]
        /\ IsRegistry(jobs) /\ DOMAIN jobs \subseteq Jobs
        /\ Matches(jobs, task)
        /\ OneCrawl(jobs, task)
        /\ pauseDepth = Cardinality(Holders(jobs, task))
    BY DEF IInv, TypeOK, RunnersMatch, Balanced, IsRegistry
  <1>2. /\ IsRegistry(reg)
        /\ DOMAIN reg = DOMAIN jobs
        /\ \A i \in DOMAIN jobs \ {j} : reg[i] = jobs[i]
        /\ reg[j].status \in {"done", "failed"}
    BY DEF TouchesOnly, is_terminal
  <1>3. /\ tnew \in [Jobs -> TaskStates]
        /\ tnew[j] = "none"
        /\ \A i \in Jobs \ {j} : tnew[i] = task[i]
    BY <1>1 DEF TaskStates, TasksAfter
  <1> HIDE DEF tnew
  <1>4. Matches(reg, tnew)
    BY <1>1, <1>2, <1>3 DEF Matches
  <1>5. \A i \in Jobs \ {j} : Holds(reg, tnew, i) <=> Holds(jobs, task, i)
    BY <1>1, <1>2, <1>3 DEF Holds, Matches
  <1>6. ~Holds(reg, tnew, j) /\ (Holds(jobs, task, j) <=> Pauses(jobs[j].kind))
    BY <1>3 DEF Holds
  <1>7. DepthAfter(j) = Cardinality(Holders(reg, tnew))
    <2>1. CASE Pauses(jobs[j].kind)
      <3>1. j \in Holders(jobs, task) /\ Holders(jobs, task) \in SUBSET Jobs
        BY <1>6, <2>1 DEF Holders
      <3>2. Holders(reg, tnew) = Holders(jobs, task) \ {j}
        BY <1>5, <1>6 DEF Holders
      <3> QED BY <1>1, <2>1, <3>1, <3>2, CountRemove DEF DepthAfter
    <2>2. CASE ~Pauses(jobs[j].kind)
      <3>1. Holders(reg, tnew) = Holders(jobs, task)
        BY <1>5, <1>6, <2>2 DEF Holders
      <3> QED BY <1>1, <2>2, <3>1 DEF DepthAfter
    <2> QED BY <2>1, <2>2
  <1>8. OneCrawl(reg, tnew)
    <2>1. \A x \in Jobs : tnew[x] # "none" => x # j /\ reg[x] = jobs[x] /\ task[x] = tnew[x]
      BY <1>1, <1>2, <1>3 DEF Matches
    <2> QED BY <1>1, <2>1 DEF OneCrawl
  <1>9. ASSUME NEW C \in SUBSET DOMAIN chains, Await(chains, C, jobs, task),
               \A c \in C : chains[c].job # j
        PROVE  Await(chains, C, reg, tnew)
    <2>1. \A x \in Jobs : x # j /\ Holds(jobs, task, x) => Holds(reg, tnew, x) /\ reg[x] = jobs[x]
      BY <1>1, <1>2, <1>5 DEF Holds, Matches
    <2> QED BY <1>9, <2>1 DEF Await
  <1> QED BY <1>2, <1>3, <1>4, <1>7, <1>8, <1>9 DEF Consistent, tnew

\* The rest of a chain's turn, from a consistent point at which no other chain
\* is disturbed.
LEMMA NextStepInv ==
    ASSUME TypeOK, NEW c \in DOMAIN chains, NEW reg, NEW tsk, NEW d,
           Consistent(reg, tsk, d), Await(chains, DOMAIN chains \ {c}, reg, tsk),
           NextStep(c, reg, tsk, d), UNCHANGED worker
    PROVE  IInv'
  <1> DEFINE Others == DOMAIN chains \ {c}
  <1>1. /\ DOMAIN chains \subseteq Chains
        /\ chains \in [DOMAIN chains -> ChainRecords]
        /\ told \in [Jobs -> Seq(Toasts)] /\ worker \in [Workers -> WorkerStates]
    BY DEF TypeOK
  <1>2. d \in Nat
    BY CountNat DEF Consistent, Holders
  <1>3. CASE ChainOver(c, reg, tsk, d)
    <2>1. /\ jobs' = reg /\ task' = tsk /\ pauseDepth' = d /\ told' = told
          /\ chains' = [x \in Others |-> chains[x]]
      BY <1>3 DEF ChainOver, WithoutChain
    <2>2. TypeOK'
      BY <1>1, <1>2, <2>1 DEF TypeOK, Consistent
    <2>3. Await(chains', DOMAIN chains', jobs', task')
      BY <2>1 DEF Await
    <2> QED BY <2>1, <2>2, <2>3
         DEF Consistent, IInv, RunnersMatch, ChainsAwaitRunners, Balanced
  <1>4. CASE chains[c].steps # <<>> /\ BeginStep(c, reg, tsk, d)
    <2> DEFINE u == chains[c].user
               k == Head(chains[c].steps)
    <2>1. PICK j \in Fresh(reg, tsk) :
            /\ jobs' = set_running(create(reg, j, u, k), j)
            /\ task' = [tsk EXCEPT ![j] = "working"]
            /\ pauseDepth' = Pause(d)
            /\ chains' = [chains EXCEPT ![c].steps = Tail(@), ![c].job = j]
            /\ told' = [told EXCEPT ![j] = <<>>]
      BY <1>4 DEF BeginStep
    <2>2. /\ u \in Users /\ k \in FollowupKinds
          /\ Tail(chains[c].steps) \in Seq(FollowupKinds)
      <3>1. chains[c] \in ChainRecords /\ chains[c].steps # <<>>
        BY <1>1, <1>4
      <3>2. chains[c].steps \in Seq(FollowupKinds) /\ chains[c].user \in Users
        BY <3>1 DEF ChainRecords
      <3>3. \A s \in Seq(FollowupKinds) :
              s # <<>> => Head(s) \in FollowupKinds /\ Tail(s) \in Seq(FollowupKinds)
        OBVIOUS
      <3> QED BY <3>1, <3>2, <3>3
    <2>3. j \in Jobs
      BY DEF Fresh
    <2> HIDE DEF u, k
    <2>4. /\ Consistent(jobs', task', pauseDepth')
          /\ Holds(jobs', task', j) /\ jobs'[j].kind = k
          /\ Await(chains, Others, jobs', task') /\ \A x \in Others : chains[x].job # j
      <3>1. Begun(reg, tsk, jobs', task', pauseDepth', j, k)
        BY <2>1, <2>2, BeginConsistent
      <3> QED BY <3>1 DEF Begun
    <2>5. /\ DOMAIN chains' = DOMAIN chains
          /\ \A x \in Others : chains'[x] = chains[x]
          /\ chains'[c].job = j
          /\ chains'[c] \in ChainRecords
      <3>1. chains'[c] = [chains[c] EXCEPT !.steps = Tail(chains[c].steps), !.job = j]
        BY <1>1, <2>1
      <3>2. chains[c] \in ChainRecords
        BY <1>1
      <3>3. chains'[c].job = j /\ chains'[c] \in ChainRecords
        BY <2>2, <2>3, <3>1, <3>2 DEF ChainRecords
      <3> QED BY <1>1, <2>1, <3>3
    <2>6. TypeOK'
      <3>1. chains' \in [DOMAIN chains' -> ChainRecords]
        BY <1>1, <2>1, <2>5
      <3>2. told' \in [Jobs -> Seq(Toasts)]
        <4>1. <<>> \in Seq(Toasts)
          OBVIOUS
        <4> QED BY <1>1, <2>1, <4>1
      <3>3. Pause(d) \in Nat
        BY <1>2 DEF Pause
      <3> QED BY <1>1, <2>1, <2>4, <2>5, <3>1, <3>2, <3>3 DEF TypeOK, Consistent
    <2>7. Await(chains', DOMAIN chains', jobs', task')
      BY <2>2, <2>3, <2>4, <2>5 DEF Await
    <2> QED BY <2>4, <2>6, <2>7
         DEF Consistent, IInv, RunnersMatch, ChainsAwaitRunners, Balanced
  <1> QED BY <1>3, <1>4 DEF NextStep

\* The whole end of a runner, with or without a chain that awaited it.
LEMMA RunnerReturnsInv ==
    ASSUME IInv, NEW j \in Jobs, task[j] \in {"working", "rescanning"},
           NEW reg, TouchesOnly(jobs, reg, j), is_terminal(reg[j]),
           RunnerReturns(j, reg)
    PROVE  IInv'
  <1>1. TypeOK /\ Await(chains, DOMAIN chains, jobs, task)
    BY DEF IInv, ChainsAwaitRunners
  <1>2. Consistent(reg, TasksAfter(j), DepthAfter(j))
    BY ReturnConsistent
  <1>3. \A C \in SUBSET DOMAIN chains :
           Await(chains, C, jobs, task) /\ (\A c \in C : chains[c].job # j)
             => Await(chains, C, reg, TasksAfter(j))
    BY ReturnConsistent
  <1>4. \A C \in SUBSET DOMAIN chains : Await(chains, C, jobs, task)
    BY <1>1 DEF Await
  <1>5. UNCHANGED worker
    BY DEF RunnerReturns
  <1>6. ASSUME NEW c \in DOMAIN chains, chains[c].job = j,
               NextStep(c, reg, TasksAfter(j), DepthAfter(j))
        PROVE  IInv'
    <2>1. \A x \in DOMAIN chains \ {c} : chains[x].job # j
      BY <1>1, <1>6, NoJobAssumption DEF Await
    <2>2. Await(chains, DOMAIN chains \ {c}, reg, TasksAfter(j))
      BY <1>3, <1>4, <2>1
    <2> QED BY <1>1, <1>2, <1>5, <1>6, <2>2, NextStepInv
  <1>7. CASE /\ \A c \in DOMAIN chains : chains[c].job # j
             /\ jobs' = reg /\ task' = TasksAfter(j) /\ pauseDepth' = DepthAfter(j)
             /\ UNCHANGED <<chains, told>>
    <2>1. Await(chains, DOMAIN chains, reg, TasksAfter(j))
      BY <1>3, <1>4, <1>7
    <2>2. DepthAfter(j) \in Nat
      BY <1>2, CountNat DEF Consistent, Holders
    <2>3. TypeOK'
      BY <1>1, <1>2, <1>5, <1>7, <2>2 DEF TypeOK, Consistent
    <2> QED BY <1>2, <1>7, <2>1, <2>3
         DEF Consistent, IInv, RunnersMatch, ChainsAwaitRunners, Balanced
  <1> QED BY <1>6, <1>7 DEF RunnerReturns

\* asyncio.create_task of a chain adds one that awaits nothing yet.
LEMMA SpawnAwaits ==
    ASSUME TypeOK, NEW u \in Users, NEW steps \in Seq(FollowupKinds),
           SpawnChain(u, steps), NEW reg, NEW tsk, Await(chains, DOMAIN chains, reg, tsk)
    PROVE  /\ DOMAIN chains' \subseteq Chains
           /\ chains' \in [DOMAIN chains' -> ChainRecords]
           /\ Await(chains', DOMAIN chains', reg, tsk)
  <1>1. PICK c \in Chains \ DOMAIN chains : chains' = WithChain(c, u, steps)
    BY DEF SpawnChain
  <1>2. /\ DOMAIN chains' = DOMAIN chains \cup {c}
        /\ chains'[c] = [user |-> u, steps |-> steps, job |-> NoJob]
        /\ \A x \in DOMAIN chains : chains'[x] = chains[x]
    BY <1>1 DEF WithChain
  <1>3. chains'[c] \in ChainRecords /\ chains'[c].job = NoJob
    BY <1>2 DEF ChainRecords
  <1>4. chains' \in [DOMAIN chains' -> ChainRecords]
    BY <1>1, <1>2, <1>3 DEF TypeOK, WithChain
  <1> QED BY <1>1, <1>2, <1>3, <1>4 DEF TypeOK, Await

\* A request's new job (integrations.py:972-973, 1033-1034, 1693-1694, 1780-1781).
LEMMA LaunchInv ==
    ASSUME IInv, NEW u \in Users, NEW k \in Kinds, Launch(u, k),
           k \in PrimaryKinds =>
             \A i \in DOMAIN jobs : jobs[i].user = u /\ IsActive(jobs[i])
                                   => jobs[i].kind \notin PrimaryKinds
    PROVE  IInv'
  <1>1. PICK j \in Fresh(jobs, task) :
          /\ jobs' = create(jobs, j, u, k)
          /\ task' = [task EXCEPT ![j] = "scheduled"]
          /\ told' = [told EXCEPT ![j] = <<>>]
          /\ UNCHANGED <<chains, pauseDepth, worker>>
    BY DEF Launch
  <1>2. Consistent(jobs, task, pauseDepth) /\ TypeOK /\ Await(chains, DOMAIN chains, jobs, task)
    BY DEF IInv, TypeOK, RunnersMatch, Balanced, Consistent, ChainsAwaitRunners
  <1>3. /\ Consistent(jobs', task', pauseDepth)
        /\ Await(chains, DOMAIN chains, jobs', task')
    BY <1>1, <1>2, LaunchConsistent
  <1>4. told' \in [Jobs -> Seq(Toasts)]
    <2>1. <<>> \in Seq(Toasts)
      OBVIOUS
    <2> QED BY <1>1, <1>2, <2>1 DEF TypeOK
  <1>5. TypeOK'
    BY <1>1, <1>2, <1>3, <1>4 DEF TypeOK, Consistent
  <1> QED BY <1>1, <1>3, <1>5 DEF IInv, RunnersMatch, Balanced, Consistent, ChainsAwaitRunners

\* Each action of a runner: begin, end well, end well and chain, scan again, fail.
LEMMA RunnerInv ==
    ASSUME IInv, NEW j \in Jobs, RunnerStep(j)
    PROVE  IInv'
  <1>1. /\ TypeOK /\ Await(chains, DOMAIN chains, jobs, task)
        /\ IsRegistry(jobs) /\ jobs \in [DOMAIN jobs -> Job] /\ DOMAIN jobs \subseteq Jobs
        /\ task \in [Jobs -> TaskStates]
        /\ Matches(jobs, task) /\ OneCrawl(jobs, task)
        /\ pauseDepth = Cardinality(Holders(jobs, task))
    BY DEF IInv, TypeOK, RunnersMatch, Balanced, ChainsAwaitRunners, IsRegistry
  <1>2. Live(j) => j \in DOMAIN jobs /\ jobs[j] \in Job
    BY <1>1 DEF Matches, Live
  <1>3. CASE RunnerBegins(j)
    <2>1. j \in DOMAIN jobs /\ task[j] = "scheduled"
      BY <1>2, <1>3 DEF RunnerBegins, Live
    <2>2. TouchesOnly(jobs, jobs', j) /\ jobs'[j].status = "running"
      BY <1>1, <1>3, <2>1, SetRunningTouches DEF RunnerBegins
    <2>3. /\ IsRegistry(jobs') /\ DOMAIN jobs' = DOMAIN jobs
          /\ \A i \in DOMAIN jobs \ {j} : jobs'[i] = jobs[i]
          /\ jobs'[j].user = jobs[j].user /\ jobs'[j].kind = jobs[j].kind
      BY <2>2 DEF TouchesOnly
    <2>4. /\ task' \in [Jobs -> TaskStates] /\ task'[j] = "working"
          /\ \A i \in Jobs \ {j} : task'[i] = task[i]
      BY <1>1, <1>3 DEF RunnerBegins, TaskStates
    <2>5. Matches(jobs', task')
      BY <1>1, <2>1, <2>2, <2>3, <2>4 DEF Matches
    <2>6. \A i \in Jobs \ {j} : Holds(jobs', task', i) <=> Holds(jobs, task, i)
      BY <1>1, <2>3, <2>4 DEF Holds, Matches
    <2>7. ~Holds(jobs, task, j) /\ (Holds(jobs', task', j) <=> Pauses(jobs[j].kind))
      BY <2>1, <2>3, <2>4 DEF Holds
    <2>8. pauseDepth' = Cardinality(Holders(jobs', task'))
      <3>1. CASE Pauses(jobs[j].kind)
        <4>1. Holders(jobs', task') = Holders(jobs, task) \cup {j}
          BY <2>6, <2>7, <3>1 DEF Holders
        <4>2. Holders(jobs, task) \in SUBSET Jobs /\ j \notin Holders(jobs, task)
          BY <2>7 DEF Holders
        <4> QED BY <1>1, <1>3, <3>1, <4>1, <4>2, CountAdd DEF RunnerBegins
      <3>2. CASE ~Pauses(jobs[j].kind)
        <4>1. Holders(jobs', task') = Holders(jobs, task)
          BY <2>6, <2>7, <3>2 DEF Holders
        <4> QED BY <1>1, <1>3, <3>2, <4>1 DEF RunnerBegins
      <3> QED BY <3>1, <3>2
    <2>9. OneCrawl(jobs', task')
      <3>1. \A x \in Jobs : task'[x] # "none" =>
              /\ task[x] # "none"
              /\ jobs'[x].kind = jobs[x].kind /\ jobs'[x].user = jobs[x].user
        BY <1>1, <2>1, <2>3, <2>4 DEF Matches
      <3> QED BY <1>1, <3>1 DEF OneCrawl
    <2>10. Await(chains', DOMAIN chains', jobs', task')
      <3>1. \A x \in Jobs : Holds(jobs, task, x) => Holds(jobs', task', x) /\ jobs'[x].kind = jobs[x].kind
        BY <1>1, <2>3, <2>6, <2>7 DEF Holds, Matches
      <3> QED BY <1>1, <1>3, <3>1 DEF Await, RunnerBegins
    <2>11. TypeOK'
      <3>1. pauseDepth' \in Nat
        BY <2>8, CountNat DEF Holders
      <3> QED BY <1>1, <1>3, <2>3, <2>4, <3>1 DEF TypeOK, RunnerBegins
    <2> QED BY <2>5, <2>8, <2>9, <2>10, <2>11
         DEF IInv, RunnersMatch, Balanced, ChainsAwaitRunners
  <1>4. CASE WorkDone(j)
    <2>1. j \in DOMAIN jobs /\ task[j] \in {"working", "rescanning"}
      BY <1>2, <1>4 DEF WorkDone, Live
    <2> DEFINE reg == mark_done(jobs, j, "result")
    <2>2. TouchesOnly(jobs, reg, j) /\ reg[j].status = "done"
      BY <1>1, <2>1, MarkDoneTouches DEF Messages
    <2> HIDE DEF reg
    <2>3. RunnerReturns(j, reg)
      BY <1>4 DEF WorkDone, reg
    <2> QED BY <2>1, <2>2, <2>3, RunnerReturnsInv DEF is_terminal
  <1>5. CASE SyncDone(j)
    <2>1. j \in DOMAIN jobs /\ task[j] \in {"working", "rescanning"}
      BY <1>2, <1>5 DEF SyncDone, Live
    <2>2. TouchesOnly(jobs, jobs', j) /\ jobs'[j].status = "done"
      BY <1>1, <1>5, <2>1, MarkDoneTouches DEF Messages, SyncDone
    <2>3. \A c \in DOMAIN chains : chains[c].job # j
      <3>1. jobs[j].kind \notin FollowupKinds
        BY <1>5 DEF SyncDone, ChainingKinds, SteamGameKinds, FollowupKinds
      <3> QED BY <1>1, <3>1, NoJobAssumption DEF Await
    <2>4. /\ Consistent(jobs', TasksAfter(j), DepthAfter(j))
          /\ Await(chains, DOMAIN chains, jobs', TasksAfter(j))
      BY <1>1, <2>1, <2>2, <2>3, ReturnConsistent DEF is_terminal
    <2>5. task' = TasksAfter(j) /\ pauseDepth' = DepthAfter(j) /\ UNCHANGED <<worker, told>>
      BY <1>5 DEF SyncDone
    <2>6. PICK steps \in FollowupsOf(jobs[j].kind) : SpawnChain(jobs[j].user, steps)
      BY <1>5 DEF SyncDone
    <2>7. jobs[j].user \in Users /\ steps \in Seq(FollowupKinds)
      BY <1>1, <2>1, FollowupsType DEF Job
    <2>8. /\ DOMAIN chains' \subseteq Chains
          /\ chains' \in [DOMAIN chains' -> ChainRecords]
          /\ Await(chains', DOMAIN chains', jobs', task')
      BY <1>1, <2>4, <2>5, <2>6, <2>7, SpawnAwaits
    <2>9. TypeOK'
      <3>1. pauseDepth' \in Nat
        BY <2>4, <2>5, CountNat DEF Consistent, Holders
      <3> QED BY <1>1, <2>4, <2>5, <2>8, <3>1 DEF TypeOK, Consistent
    <2> QED BY <2>4, <2>5, <2>8, <2>9
         DEF Consistent, IInv, RunnersMatch, Balanced, ChainsAwaitRunners
  <1>6. CASE StoreRetitled(j)
    <2>1. j \in DOMAIN jobs /\ task[j] = "working" /\ jobs[j].kind = "psn_store_refresh"
      BY <1>2, <1>6 DEF StoreRetitled, Live
    <2>2. TouchesOnly(jobs, jobs', j) /\ jobs'[j].status = "done"
      BY <1>1, <1>6, <2>1, MarkDoneTouches DEF Messages, StoreRetitled
    <2>3. /\ IsRegistry(jobs') /\ DOMAIN jobs' = DOMAIN jobs
          /\ \A i \in DOMAIN jobs \ {j} : jobs'[i] = jobs[i]
          /\ jobs'[j].user = jobs[j].user /\ jobs'[j].kind = jobs[j].kind
      BY <2>2 DEF TouchesOnly
    <2>4. /\ task' \in [Jobs -> TaskStates] /\ task'[j] = "rescanning"
          /\ \A i \in Jobs \ {j} : task'[i] = task[i]
      BY <1>1, <1>6 DEF StoreRetitled, TaskStates
    <2>5. Matches(jobs', task')
      BY <1>1, <2>1, <2>2, <2>3, <2>4 DEF Matches
    <2>6. \A i \in Jobs : Holds(jobs', task', i) <=> Holds(jobs, task, i)
      BY <1>1, <2>1, <2>3, <2>4 DEF Holds, Matches
    <2>7. \A x \in Jobs : task'[x] # "none" =>
            /\ task[x] # "none"
            /\ jobs'[x].kind = jobs[x].kind /\ jobs'[x].user = jobs[x].user
      BY <1>1, <2>1, <2>3, <2>4 DEF Matches
    <2>8. OneCrawl(jobs', task')
      BY <1>1, <2>7 DEF OneCrawl
    <2>9. Holders(jobs', task') = Holders(jobs, task)
      BY <2>6 DEF Holders
    <2>10. Await(chains', DOMAIN chains', jobs', task')
      <3>1. \A x \in Jobs : Holds(jobs, task, x) => Holds(jobs', task', x) /\ jobs'[x].kind = jobs[x].kind
        BY <2>4, <2>6, <2>7 DEF Holds
      <3> QED BY <1>1, <1>6, <3>1 DEF Await, StoreRetitled
    <2>11. TypeOK'
      BY <1>1, <1>6, <2>3, <2>4 DEF TypeOK, StoreRetitled
    <2> QED BY <1>1, <1>6, <2>5, <2>8, <2>9, <2>10, <2>11
         DEF IInv, RunnersMatch, Balanced, ChainsAwaitRunners, StoreRetitled
  <1>7. CASE RescanDone(j)
    <2>1. j \in DOMAIN jobs /\ task[j] \in {"working", "rescanning"} /\ task[j] = "rescanning"
      BY <1>2, <1>7 DEF RescanDone, Live
    <2>2. CASE RunnerReturns(j, jobs)
      <3>1. TouchesOnly(jobs, jobs, j)
        BY <1>1 DEF TouchesOnly
      <3>2. is_terminal(jobs[j])
        BY <1>1, <1>2, <2>1 DEF Matches, is_terminal, Job, Statuses, Live
      <3> QED BY <2>1, <2>2, <3>1, <3>2, RunnerReturnsInv
    <2>3. CASE RunnerReturns(j, mark_done(jobs, j, "amended"))
      <3> DEFINE reg == mark_done(jobs, j, "amended")
      <3>1. TouchesOnly(jobs, reg, j) /\ reg[j].status = "done"
        BY <1>1, <2>1, MarkDoneTouches DEF Messages
      <3> HIDE DEF reg
      <3>2. RunnerReturns(j, reg)
        BY <2>3 DEF reg
      <3> QED BY <2>1, <3>1, <3>2, RunnerReturnsInv DEF is_terminal
    <2> QED BY <1>7, <2>2, <2>3 DEF RescanDone
  <1>8. CASE WorkFails(j)
    <2>1. j \in DOMAIN jobs /\ task[j] \in {"working", "rescanning"}
      BY <1>2, <1>8 DEF WorkFails, Live
    <2> DEFINE reg == mark_failed(jobs, j, "failed")
    <2>2. TouchesOnly(jobs, reg, j) /\ reg[j].status = "failed"
      BY <1>1, <2>1, MarkFailedTouches DEF Errors
    <2> HIDE DEF reg
    <2>3. RunnerReturns(j, reg)
      BY <1>8 DEF WorkFails, Failure, reg
    <2> QED BY <2>1, <2>2, <2>3, RunnerReturnsInv DEF is_terminal
  <1> QED BY <1>3, <1>4, <1>5, <1>6, <1>7, <1>8 DEF RunnerStep

\* The buttons: the 409 of each handler is what LaunchInv asks.
LEMMA RequestInv ==
    ASSUME IInv, NEW u \in Users, NEW k \in Offered, KickOffSync(u, k) \/ StartLone(u, k)
    PROVE  IInv'
  <1>1. k \in Kinds /\ Launch(u, k)
    BY KindsAssumption DEF KickOffSync, StartLone
  <1>2. \A i \in DOMAIN jobs : jobs[i].user = u /\ IsActive(jobs[i])
                               => jobs[i].kind \notin PrimaryKinds
    BY DEF KickOffSync, StartLone, Blocking, active_jobs_for
  <1> QED BY <1>1, <1>2, LaunchInv

LEMMA KickEnrichmentInv ==
    ASSUME IInv, NEW u \in Users, KickEnrichment(u)
    PROVE  IInv'
  <1>1. PICK key \in BOOLEAN : SpawnChain(u, PsnSteps(TRUE, FALSE, key))
    BY DEF KickEnrichment
  <1>2. TypeOK /\ Await(chains, DOMAIN chains, jobs, task)
    BY DEF IInv, ChainsAwaitRunners
  <1>3. PsnSteps(TRUE, FALSE, key) \in Seq(FollowupKinds)
    BY StepsType
  <1>4. /\ DOMAIN chains' \subseteq Chains
        /\ chains' \in [DOMAIN chains' -> ChainRecords]
        /\ Await(chains', DOMAIN chains', jobs, task)
    BY <1>1, <1>2, <1>3, SpawnAwaits
  <1>5. UNCHANGED <<jobs, task, pauseDepth, worker, told>>
    BY DEF KickEnrichment
  <1>6. TypeOK'
    BY <1>2, <1>4, <1>5 DEF TypeOK
  <1> QED BY <1>4, <1>5, <1>6
       DEF IInv, RunnersMatch, Matches, Balanced, Holders, Holds, ChainsAwaitRunners, OneCrawl

\* A poll stamps what it reports and touches nothing the invariant reads.
LEMMA PollInv ==
    ASSUME IInv, NEW u \in Users, Poll(u)
    PROVE  IInv'
  <1>1. /\ TypeOK /\ Await(chains, DOMAIN chains, jobs, task)
        /\ IsRegistry(jobs) /\ jobs \in [DOMAIN jobs -> Job] /\ DOMAIN jobs \subseteq Jobs
        /\ Matches(jobs, task) /\ OneCrawl(jobs, task)
        /\ pauseDepth = Cardinality(Holders(jobs, task))
        /\ told \in [Jobs -> Seq(Toasts)]
    BY DEF IInv, TypeOK, RunnersMatch, Balanced, ChainsAwaitRunners, IsRegistry
  <1>2. UNCHANGED <<task, chains, pauseDepth, worker>>
    BY DEF Poll
  <1>3. NotifiesOnly(jobs, jobs', PendingFor(jobs, u))
    BY <1>1, NotifyStamps DEF Poll
  <1>4. /\ IsRegistry(jobs') /\ DOMAIN jobs' = DOMAIN jobs
        /\ \A i \in DOMAIN jobs : /\ jobs'[i].user = jobs[i].user
                                  /\ jobs'[i].kind = jobs[i].kind
                                  /\ jobs'[i].status = jobs[i].status
    BY <1>3 DEF NotifiesOnly
  <1>5. told' \in [Jobs -> Seq(Toasts)]
    <2>1. ASSUME NEW j \in Jobs, j \in PendingFor(jobs, u)
          PROVE  Append(told[j], Toast(jobs[j])) \in Seq(Toasts)
      <3>1. j \in DOMAIN jobs /\ jobs[j] \in Job
        BY <1>1, <2>1 DEF PendingFor
      <3>2. Toast(jobs[j]) \in Toasts
        BY <3>1 DEF Toast, Toasts, Job
      <3> QED BY <1>1, <3>2
    <2> QED BY <1>1, <2>1 DEF Poll
  <1>6. TypeOK'
    BY <1>1, <1>2, <1>4, <1>5 DEF TypeOK
  <1>7. Matches(jobs', task')
    BY <1>1, <1>2, <1>4 DEF Matches
  <1>8. \A j \in Jobs : task[j] # "none" =>
           jobs'[j].user = jobs[j].user /\ jobs'[j].kind = jobs[j].kind
    BY <1>1, <1>4 DEF Matches
  <1>9. OneCrawl(jobs', task')
    BY <1>1, <1>2, <1>8 DEF OneCrawl
  <1>10. \A j \in Jobs : Holds(jobs', task', j) <=> Holds(jobs, task, j)
    BY <1>2, <1>8 DEF Holds
  <1>11. Holders(jobs', task') = Holders(jobs, task)
    BY <1>10 DEF Holders
  <1>12. Await(chains', DOMAIN chains', jobs', task')
    <2>1. \A j \in Jobs : Holds(jobs, task, j) => jobs'[j].kind = jobs[j].kind
      BY <1>8 DEF Holds
    <2> QED BY <1>1, <1>2, <1>10, <2>1 DEF Await
  <1> QED BY <1>1, <1>2, <1>6, <1>7, <1>9, <1>11, <1>12
       DEF IInv, RunnersMatch, Balanced, ChainsAwaitRunners

LEMMA WorkerInv ==
    ASSUME IInv, NEW w \in Workers, WorkerStep(w)
    PROVE  IInv'
  <1>1. /\ UNCHANGED <<jobs, task, chains, pauseDepth, told>>
        /\ \E s \in WorkerStates : worker' = [worker EXCEPT ![w] = s]
    BY DEF WorkerStep, WorkerWakes, BatchEnds, RequeueBegins, RequeueEnds, Become, WorkerStates
  <1>2. TypeOK'
    BY <1>1 DEF IInv, TypeOK
  <1> QED BY <1>1, <1>2
       DEF IInv, RunnersMatch, Matches, Balanced, Holders, Holds, ChainsAwaitRunners, Await, OneCrawl

\* A server that has just started satisfies it, so a restart re-establishes it.
Started(reg, tsk, chs, d, wk, td) ==
    /\ reg = EmptyRegistry
    /\ tsk = [j \in Jobs |-> "none"]
    /\ chs = NoChains
    /\ d = 0
    /\ wk = [w \in Workers |-> "asleep"]
    /\ td = [j \in Jobs |-> <<>>]

LEMMA StartedConsistent ==
    ASSUME NEW reg, NEW tsk, NEW chs, NEW d, NEW wk, NEW td,
           Started(reg, tsk, chs, d, wk, td)
    PROVE  /\ Consistent(reg, tsk, d)
           /\ DOMAIN chs = {} /\ chs \in [DOMAIN chs -> ChainRecords]
           /\ d \in Nat
           /\ wk \in [Workers -> WorkerStates]
           /\ td \in [Jobs -> Seq(Toasts)]
  <1>1. IsRegistry(reg) /\ DOMAIN reg = {}
    BY EmptyIsRegistry DEF Started
  <1>2. tsk \in [Jobs -> TaskStates] /\ \A j \in Jobs : tsk[j] = "none"
    BY DEF Started, TaskStates
  <1>3. Holders(reg, tsk) = {}
    BY <1>2 DEF Holders, Holds
  <1>4. Cardinality(Holders(reg, tsk)) = 0
    BY <1>3, FS_EmptySet
  <1>5. Matches(reg, tsk) /\ OneCrawl(reg, tsk)
    BY <1>1, <1>2 DEF Matches, OneCrawl
  <1>6. td \in [Jobs -> Seq(Toasts)]
    <2>1. <<>> \in Seq(Toasts)
      OBVIOUS
    <2> QED BY <2>1 DEF Started
  <1> QED BY <1>1, <1>2, <1>4, <1>5, <1>6 DEF Started, Consistent, NoChains, WorkerStates

LEMMA InitInv == Init => IInv
  <1> SUFFICES ASSUME Init PROVE IInv
    OBVIOUS
  <1>1. Started(jobs, task, chains, pauseDepth, worker, told)
    BY DEF Init, Started
  <1>2. /\ Consistent(jobs, task, pauseDepth)
        /\ DOMAIN chains = {} /\ chains \in [DOMAIN chains -> ChainRecords]
        /\ pauseDepth \in Nat
        /\ worker \in [Workers -> WorkerStates]
        /\ told \in [Jobs -> Seq(Toasts)]
    BY <1>1, StartedConsistent
  <1> QED BY <1>2 DEF IInv, TypeOK, RunnersMatch, Balanced, Consistent, ChainsAwaitRunners, Await

LEMMA RestartInv == Restart => IInv'
  <1> SUFFICES ASSUME Restart PROVE IInv'
    OBVIOUS
  <1>1. Started(jobs', task', chains', pauseDepth', worker', told')
    BY DEF Restart, Started
  <1>2. /\ Consistent(jobs', task', pauseDepth')
        /\ DOMAIN chains' = {} /\ chains' \in [DOMAIN chains' -> ChainRecords]
        /\ pauseDepth' \in Nat
        /\ worker' \in [Workers -> WorkerStates]
        /\ told' \in [Jobs -> Seq(Toasts)]
    BY <1>1, StartedConsistent
  <1> QED BY <1>2 DEF IInv, TypeOK, RunnersMatch, Balanced, Consistent, ChainsAwaitRunners, Await

-----------------------------------------------------------------------------
(* The invariant and what it gives *)

LEMMA StepInv == IInv /\ [Next]_vars => IInv'
  <1> SUFFICES ASSUME IInv, [Next]_vars PROVE IInv'
    OBVIOUS
  <1>1. ASSUME NEW u \in Users, NEW k \in Offered, KickOffSync(u, k) \/ StartLone(u, k)
        PROVE  IInv'
    BY <1>1, RequestInv
  <1>2. ASSUME NEW u \in Users, KickEnrichment(u) PROVE IInv'
    BY <1>2, KickEnrichmentInv
  <1>3. ASSUME NEW u \in Users, Poll(u) PROVE IInv'
    BY <1>3, PollInv
  <1>4. ASSUME NEW j \in Jobs, RunnerStep(j) PROVE IInv'
    BY <1>4, RunnerInv
  <1>5. ASSUME NEW c \in DOMAIN chains, StartChain(c) PROVE IInv'
    <2>1. /\ TypeOK /\ Consistent(jobs, task, pauseDepth)
          /\ Await(chains, DOMAIN chains \ {c}, jobs, task)
      BY DEF IInv, TypeOK, RunnersMatch, Balanced, Consistent, ChainsAwaitRunners, Await
    <2>2. NextStep(c, jobs, task, pauseDepth) /\ UNCHANGED worker
      BY <1>5 DEF StartChain
    <2> QED BY <2>1, <2>2, NextStepInv
  <1>6. ASSUME NEW w \in Workers, WorkerStep(w) PROVE IInv'
    BY <1>6, WorkerInv
  <1>7. CASE Restart
    BY <1>7, RestartInv
  <1>8. CASE UNCHANGED vars
    BY <1>8 DEF vars, IInv, TypeOK, RunnersMatch, Matches, Balanced, Holders, Holds,
                ChainsAwaitRunners, Await, OneCrawl
  <1> QED BY <1>1, <1>2, <1>3, <1>4, <1>5, <1>6, <1>7, <1>8 DEF Next, Serve

LEMMA AlwaysIInv == Spec => []IInv
BY InitInv, StepInv, PTL DEF Spec

\* Type correctness, for any number of jobs, users, chains and workers; that
\* the counter stays a natural number rests on the whole invariant.
THEOREM TypeCorrect == Spec => []TypeOK
  <1>1. IInv => TypeOK
    BY DEF IInv
  <1> QED BY <1>1, AlwaysIInv, PTL

\* No user ever has two crawls under way (integrations.py:932-936, 967).
THEOREM NoTwoCrawls == Spec => []OneCrawlPerUser
  <1>1. IInv => OneCrawlPerUser
    BY DEF IInv, OneCrawl, OneCrawlPerUser, Live
  <1> QED BY <1>1, AlwaysIInv, PTL

\* A job is shown as queued or running exactly while its runner has work to do,
\* so a handler's 409 always ends (integrations.py:967, 1026, 1684, 1773).
THEOREM ActiveJobsHaveRunners == Spec => []ActiveHasRunner
  <1>1. IInv => ActiveHasRunner
    <2> SUFFICES ASSUME IInv, NEW j \in DOMAIN jobs
                 PROVE  IsActive(jobs[j]) <=> task[j] \in {"scheduled", "working"}
      BY DEF ActiveHasRunner
    <2> QED BY DEF IInv, RunnersMatch, Matches, IsActive
  <1> QED BY <1>1, AlwaysIInv, PTL

\* The pause counter counts the runners inside their paused section, so
\* the clamp of resume_enrichment never acts (worker_state.py:16-24).
THEOREM PausesBalance == Spec => []PauseBalanced
  <1>1. IInv => PauseBalanced
    BY DEF IInv, Balanced, Holders, Holds, PauseBalanced, Pausing
  <1> QED BY <1>1, AlwaysIInv, PTL

\* No worker cycle begins beside a pausing job or between two steps of a chain
\* (main.py:51 and 89, integrations.py:823-829).
THEOREM WorkersAsleep == Spec => WorkersStayAsleep
  <1> DEFINE Quiet == /\ \A j \in Jobs : ~Pausing(j)
                      /\ \A c \in DOMAIN chains : ~ChainUnderWay(c)
             Wakes(w) == worker[w] = "asleep" /\ worker'[w] = "batch"
             Good == \A w \in Workers : Wakes(w) => Quiet
  <1>1. ASSUME IInv, pauseDepth = 0 PROVE Quiet
    <2>1. Holders(jobs, task) = {}
      <3>1. Cardinality(Holders(jobs, task)) = 0
        BY <1>1 DEF IInv, Balanced
      <3>2. IsFiniteSet(Holders(jobs, task))
        BY NoJobAssumption, FS_Subset DEF Holders
      <3> QED BY <3>1, <3>2, FS_EmptySet
    <2>2. \A j \in Jobs : ~Pausing(j)
      BY <2>1 DEF Holders, Holds, Pausing
    <2>3. \A c \in DOMAIN chains : ~ChainUnderWay(c)
      BY <1>1, <2>1 DEF IInv, ChainsAwaitRunners, Await, Holders, ChainUnderWay
    <2> QED BY <2>2, <2>3
  <1>2. IInv /\ [Next]_vars => [Good]_vars
    <2> SUFFICES ASSUME IInv, [Next]_vars PROVE [Good]_vars
      OBVIOUS
    <2>1. ASSUME NEW w \in Workers, Wakes(w) PROVE pauseDepth = 0
      <3>1. worker' # worker
        BY <2>1
      <3>2. ~Restart
        BY <2>1 DEF Restart
      <3>3. PICK v \in Workers : WorkerStep(v)
        <4>1. ASSUME NEW u \in Users, NEW k \in Offered PROVE ~KickOffSync(u, k) /\ ~StartLone(u, k)
          BY <3>1 DEF KickOffSync, StartLone, Launch
        <4>2. ASSUME NEW u \in Users PROVE ~KickEnrichment(u) /\ ~Poll(u)
          BY <3>1 DEF KickEnrichment, Poll
        <4>3. ASSUME NEW j \in Jobs PROVE ~RunnerStep(j)
          BY <3>1 DEF RunnerStep, RunnerBegins, WorkDone, SyncDone, StoreRetitled, RescanDone,
                      WorkFails, RunnerReturns
        <4>4. ASSUME NEW c \in DOMAIN chains PROVE ~StartChain(c)
          BY <3>1 DEF StartChain
        <4>5. Next
          BY <3>1 DEF vars
        <4> QED BY <3>2, <4>1, <4>2, <4>3, <4>4, <4>5 DEF Next, Serve
      <3>4. worker \in [Workers -> WorkerStates]
        BY DEF IInv, TypeOK
      <3>5. WorkerWakes(v)
        BY <2>1, <3>3, <3>4 DEF WorkerStep, BatchEnds, RequeueBegins, RequeueEnds, Become
      <3> QED BY <3>5 DEF WorkerWakes
    <2> QED BY <1>1, <2>1
  <1>3. Spec => [][Good]_vars
    BY <1>2, AlwaysIInv, PTL DEF Spec
  <1> QED BY <1>3 DEF WorkersStayAsleep

-----------------------------------------------------------------------------
(* Reporting *)

\* A job that was told of is stamped, so that no poll selects it again.
StampedIfTold == \A j \in Jobs : \/ told[j] = <<>>
                                 \/ /\ Len(told[j]) = 1
                                    /\ j \in DOMAIN jobs /\ jobs[j].notified

\* The entries of the registry stay in reg with the stamp they have.
KeepsStamps(reg) == \A i \in DOMAIN jobs : i \in DOMAIN reg /\ reg[i].notified = jobs[i].notified

\* A turn that tells nobody: what it forgets is a job whose id it gives to another.
TellsNobody == \E gone \in SUBSET Jobs :
                   /\ \A j \in Jobs : told'[j] = IF j \in gone THEN <<>> ELSE told[j]
                   /\ \A i \in DOMAIN jobs \ gone : /\ i \in DOMAIN jobs'
                                                    /\ jobs'[i].notified = jobs[i].notified

LEMMA NobodyTold ==
    ASSUME StampedIfTold, TellsNobody
    PROVE  StampedIfTold'
  BY DEF StampedIfTold, TellsNobody

LEMMA SilentRegistry ==
    ASSUME IInv, KeepsStamps(jobs'), told' = told
    PROVE  TellsNobody
  BY DEF KeepsStamps, TellsNobody

LEMMA TouchKeepsStamps ==
    ASSUME IInv, NEW j \in DOMAIN jobs, NEW reg, TouchesOnly(jobs, reg, j)
    PROVE  KeepsStamps(reg)
  BY DEF TouchesOnly, KeepsStamps

\* A new job has a fresh id, and whoever had it is forgotten.
LEMMA CreateTellsNobody ==
    ASSUME IInv, NEW reg, KeepsStamps(reg), NEW j \in Jobs,
           \A i \in DOMAIN reg \ {j} : i \in DOMAIN jobs' /\ jobs'[i] = reg[i],
           told' = [told EXCEPT ![j] = <<>>]
    PROVE  TellsNobody
  <1>1. told \in [Jobs -> Seq(Toasts)]
    BY DEF IInv, TypeOK
  <1>2. \A i \in Jobs : told'[i] = IF i \in {j} THEN <<>> ELSE told[i]
    BY <1>1
  <1>3. \A i \in DOMAIN jobs \ {j} : i \in DOMAIN jobs' /\ jobs'[i].notified = jobs[i].notified
    BY DEF KeepsStamps
  <1> QED BY <1>2, <1>3 DEF TellsNobody

LEMMA NextStepTellsNobody ==
    ASSUME IInv, NEW c \in DOMAIN chains, NEW reg, NEW tsk, NEW d,
           IsRegistry(reg), tsk \in [Jobs -> TaskStates], Matches(reg, tsk), KeepsStamps(reg),
           NextStep(c, reg, tsk, d)
    PROVE  TellsNobody
  <1>1. CASE ChainOver(c, reg, tsk, d)
    BY <1>1, SilentRegistry DEF ChainOver
  <1>2. CASE chains[c].steps # <<>> /\ BeginStep(c, reg, tsk, d)
    <2> DEFINE u == chains[c].user
               k == Head(chains[c].steps)
    <2>1. PICK j \in Fresh(reg, tsk) :
            /\ jobs' = set_running(create(reg, j, u, k), j)
            /\ told' = [told EXCEPT ![j] = <<>>]
      BY <1>2 DEF BeginStep
    <2>2. j \in Jobs /\ u \in Users /\ k \in Kinds
      <3>1. chains[c].user \in Users /\ chains[c].steps \in Seq(FollowupKinds)
        BY DEF IInv, TypeOK, ChainRecords
      <3>2. Head(chains[c].steps) \in FollowupKinds
        BY <1>2, <3>1
      <3> QED BY <3>1, <3>2, FreshIsIdle, FollowupsPause
    <2> DEFINE mid == create(reg, j, u, k)
    <2>3. AddsJob(reg, mid, j, u, k)
      BY <2>2, CreateAdds
    <2>4. TouchesOnly(mid, set_running(mid, j), j)
      BY <2>3, SetRunningTouches DEF AddsJob
    <2>5. jobs' = set_running(mid, j)
      BY <2>1
    <2> HIDE DEF mid
    <2>6. \A i \in DOMAIN reg \ {j} : i \in DOMAIN jobs' /\ jobs'[i] = reg[i]
      BY <2>3, <2>4, <2>5 DEF AddsJob, TouchesOnly
    <2> QED BY <2>1, <2>2, <2>6, CreateTellsNobody
  <1> QED BY <1>1, <1>2 DEF NextStep

LEMMA ReturnsTellsNobody ==
    ASSUME IInv, NEW j \in Jobs, task[j] \in {"working", "rescanning"},
           NEW reg, TouchesOnly(jobs, reg, j), is_terminal(reg[j]),
           RunnerReturns(j, reg)
    PROVE  TellsNobody
  <1>1. j \in DOMAIN jobs
    BY DEF IInv, RunnersMatch, Matches
  <1>2. KeepsStamps(reg) /\ Consistent(reg, TasksAfter(j), DepthAfter(j))
    BY <1>1, TouchKeepsStamps, ReturnConsistent
  <1>3. CASE jobs' = reg /\ UNCHANGED told
    BY <1>2, <1>3, SilentRegistry
  <1>4. ASSUME NEW c \in DOMAIN chains, NextStep(c, reg, TasksAfter(j), DepthAfter(j))
        PROVE  TellsNobody
    BY <1>2, <1>4, NextStepTellsNobody DEF Consistent
  <1> QED BY <1>3, <1>4 DEF RunnerReturns

LEMMA RunnerTellsNobody ==
    ASSUME IInv, NEW j \in Jobs, RunnerStep(j)
    PROVE  TellsNobody
  <1>1. task[j] # "none" /\ j \in DOMAIN jobs /\ IsRegistry(jobs)
    BY DEF RunnerStep, RunnerBegins, WorkDone, SyncDone, StoreRetitled, RescanDone, WorkFails,
           IInv, RunnersMatch, Matches, TypeOK
  <1>2. TouchesOnly(jobs, jobs, j)
    BY <1>1 DEF TouchesOnly
  <1>3. ASSUME NEW reg, TouchesOnly(jobs, reg, j), jobs' = reg, UNCHANGED told
        PROVE  TellsNobody
    BY <1>1, <1>3, TouchKeepsStamps, SilentRegistry
  <1>4. CASE RunnerBegins(j)
    BY <1>1, <1>3, <1>4, SetRunningTouches DEF RunnerBegins
  <1>5. CASE SyncDone(j) \/ StoreRetitled(j)
    BY <1>1, <1>3, <1>5, MarkDoneTouches DEF SyncDone, StoreRetitled, Messages
  <1>6. CASE WorkDone(j)
    BY <1>1, <1>6, MarkDoneTouches, ReturnsTellsNobody DEF WorkDone, Messages, is_terminal
  <1>7. CASE WorkFails(j)
    BY <1>1, <1>7, MarkFailedTouches, ReturnsTellsNobody DEF WorkFails, Failure, Errors, is_terminal
  <1>8. CASE RescanDone(j)
    <2>1. task[j] = "rescanning"
      BY <1>8 DEF RescanDone
    <2>2. is_terminal(jobs[j])
      BY <1>1, <2>1 DEF IInv, RunnersMatch, Matches, TypeOK, IsRegistry, Job, Statuses, is_terminal
    <2>3. CASE RunnerReturns(j, jobs)
      BY <1>2, <2>1, <2>2, <2>3, ReturnsTellsNobody
    <2>4. CASE RunnerReturns(j, mark_done(jobs, j, "amended"))
      BY <1>1, <2>1, <2>4, MarkDoneTouches, ReturnsTellsNobody DEF Messages, is_terminal
    <2> QED BY <1>8, <2>3, <2>4 DEF RescanDone
  <1> QED BY <1>4, <1>5, <1>6, <1>7, <1>8 DEF RunnerStep

LEMMA LaunchTellsNobody ==
    ASSUME IInv, NEW u \in Users, NEW k \in Kinds, Launch(u, k)
    PROVE  TellsNobody
  <1>1. PICK j \in Fresh(jobs, task) : /\ jobs' = create(jobs, j, u, k)
                                       /\ told' = [told EXCEPT ![j] = <<>>]
    BY DEF Launch
  <1>2. j \in Jobs /\ IsRegistry(jobs)
    BY DEF Fresh, IInv, TypeOK
  <1>3. AddsJob(jobs, jobs', j, u, k)
    BY <1>1, <1>2, CreateAdds
  <1>4. KeepsStamps(jobs) /\ \A i \in DOMAIN jobs \ {j} : i \in DOMAIN jobs' /\ jobs'[i] = jobs[i]
    BY <1>3 DEF AddsJob, KeepsStamps
  <1> QED BY <1>1, <1>2, <1>4, CreateTellsNobody

\* The poll selects the unstamped and stamps them (jobs.py:183-189).
LEMMA PollStamps ==
    ASSUME IInv, StampedIfTold, NEW u \in Users, Poll(u)
    PROVE  StampedIfTold'
  <1>1. NotifiesOnly(jobs, jobs', PendingFor(jobs, u)) /\ told \in [Jobs -> Seq(Toasts)]
    BY NotifyStamps DEF Poll, IInv, TypeOK
  <1>2. ASSUME NEW j \in Jobs, j \in PendingFor(jobs, u)
        PROVE  Len(told'[j]) = 1 /\ j \in DOMAIN jobs' /\ jobs'[j].notified
    <2>1. told[j] = <<>>
      BY <1>2 DEF StampedIfTold, PendingFor
    <2>2. Len(told'[j]) = 1
      BY <1>2, <2>1 DEF Poll
    <2> QED BY <1>1, <1>2, <2>2 DEF NotifiesOnly, PendingFor
  <1>3. ASSUME NEW j \in Jobs, j \notin PendingFor(jobs, u)
        PROVE  /\ told'[j] = told[j]
               /\ j \in DOMAIN jobs => j \in DOMAIN jobs' /\ (jobs[j].notified => jobs'[j].notified)
    BY <1>1, <1>3 DEF Poll, NotifiesOnly
  <1> QED BY <1>2, <1>3 DEF StampedIfTold

\* One job, one toast, whatever its runner marks and however many polls there are
\* (integrations.py:1098-1101).
THEOREM ToldOnceOnly == Spec => []ToldOnce
  <1>1. Init => StampedIfTold
    BY DEF Init, StampedIfTold
  <1>2. IInv /\ StampedIfTold /\ [Next]_vars => StampedIfTold'
    <2> SUFFICES ASSUME IInv, StampedIfTold, [Next]_vars
                 PROVE  StampedIfTold'
      OBVIOUS
    <2>1. ASSUME NEW u \in Users, NEW k \in Offered, KickOffSync(u, k) \/ StartLone(u, k)
          PROVE  TellsNobody
      BY <2>1, LaunchTellsNobody, KindsAssumption DEF KickOffSync, StartLone
    <2>2. ASSUME NEW j \in Jobs, RunnerStep(j)
          PROVE  TellsNobody
      BY <2>2, RunnerTellsNobody
    <2>3. ASSUME NEW c \in DOMAIN chains, StartChain(c)
          PROVE  TellsNobody
      BY <2>3, NextStepTellsNobody DEF StartChain, IInv, RunnersMatch, TypeOK, KeepsStamps
    <2>4. CASE \/ \E u \in Users : KickEnrichment(u)
               \/ \E w \in Workers : WorkerStep(w)
               \/ UNCHANGED vars
      <3>1. jobs' = jobs /\ told' = told
        BY <2>4 DEF KickEnrichment, WorkerStep, WorkerWakes, BatchEnds, RequeueBegins,
                    RequeueEnds, Become, vars
      <3> QED BY <3>1 DEF StampedIfTold
    <2>5. ASSUME NEW u \in Users, Poll(u)
          PROVE  StampedIfTold'
      BY <2>5, PollStamps
    <2>6. CASE Restart
      BY <2>6 DEF Restart, StampedIfTold
    <2> QED BY <2>1, <2>2, <2>3, <2>4, <2>5, <2>6, NobodyTold DEF Next, Serve
  <1>3. StampedIfTold => ToldOnce
    <2> SUFFICES ASSUME StampedIfTold, NEW j \in Jobs
                 PROVE  Len(told[j]) <= 1
      BY DEF ToldOnce
    <2>1. CASE told[j] = <<>>
      BY <2>1
    <2>2. CASE Len(told[j]) = 1
      BY <2>2
    <2> QED BY <2>1, <2>2 DEF StampedIfTold
  <1> QED BY <1>1, <1>2, <1>3, AlwaysIInv, PTL DEF Spec
=============================================================================
