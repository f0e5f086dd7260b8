-------------------------- MODULE ImportQueueProofs --------------------------
(***************************************************************************)
(* Proofs about ImportQueue for every set of jobs, users, tokens, drains   *)
(* and every bound.  IInv is inductive: the entries of a user's queue are  *)
(* the user's queued imports (QueuesHold), a user has one drain at most    *)
(* and it works on the user's running import (OneDrain, DrainsWork,        *)
(* RunningHaveDrain), a file is one job's or staged (FilesApart), and a    *)
(* job that wrote after it was flagged has ended (LateIsOver).             *)
(***************************************************************************)
EXTENDS ImportQueue, TLAPS, SequenceTheorems, FiniteSetTheorems

-----------------------------------------------------------------------------
(* What the functions of jobs.py do to a registry *)

\* A call that touches the entry of j only, and neither its owner, its kind
\* nor whether it was reported.
TouchesOnly(reg, new, j) ==
    /\ IsRegistry(new)
    /\ DOMAIN new = DOMAIN reg
    /\ \A i \in DOMAIN reg \ {j} : new[i] = reg[i]
    /\ new[j].user = reg[j].user
    /\ new[j].kind = reg[j].kind
    /\ new[j].notified = reg[j].notified

\* A call that adds j, queued and unreported, and changes no other entry.
AddsJob(reg, new, j, u, k) ==
    /\ IsRegistry(new)
    /\ DOMAIN new = DOMAIN reg \cup {j}
    /\ \A i \in DOMAIN reg \ {j} : new[i] = reg[i]
    /\ new[j] = NewJob(u, k)

\* The registry starts out empty (jobs.py:50) and well formed.
LEMMA EmptyIsRegistry == IsRegistry(EmptyRegistry) /\ DOMAIN EmptyRegistry = {}
BY DEF EmptyRegistry, IsRegistry

\* jobs.create (jobs.py:136-140) adds a queued, unreported job under a fresh id
\* and changes no other entry.
LEMMA CreateAdds ==
    ASSUME NEW reg, IsRegistry(reg), NEW j \in Jobs, NEW u \in Users, NEW k \in Kinds
    PROVE  AddsJob(reg, create(reg, j, u, k), j, u, k)
  <1> DEFINE new == create(reg, j, u, k)
  <1>1. NewJob(u, k) \in Job
    BY DEF NewJob, Job, Statuses, Messages, Errors
  <1>2. DOMAIN new = DOMAIN reg \cup {j}
    BY DEF create
  <1>3. new[j] = NewJob(u, k) /\ \A i \in DOMAIN reg \ {j} : new[i] = reg[i]
    BY DEF create
  <1>4. \A i \in DOMAIN new : new[i] \in Job
    BY <1>1, <1>2, <1>3 DEF IsRegistry
  <1>5. new \in [DOMAIN new -> Job]
    BY <1>2, <1>4 DEF create
  <1> QED BY <1>2, <1>3, <1>5 DEF IsRegistry, AddsJob

\* update(job_id, status=RUNNING) as every runner begins (integrations.py:860).
LEMMA SetRunningTouches ==
    ASSUME NEW reg, IsRegistry(reg), NEW j \in DOMAIN reg
    PROVE  /\ TouchesOnly(reg, set_running(reg, j), j)
           /\ set_running(reg, j)[j].status = "running"
  <1>1. reg[j] \in Job /\ reg \in [DOMAIN reg -> Job]
    BY DEF IsRegistry
  <1>2. [reg[j] EXCEPT !.status = "running"] \in Job
    BY <1>1 DEF Job, Statuses
  <1> QED BY <1>1, <1>2 DEF set_running, TouchesOnly, IsRegistry, Job

\* mark_done and mark_failed (jobs.py:158-174) leave the job over, whatever it
\* was before.
LEMMA MarkDoneTouches ==
    ASSUME NEW reg, IsRegistry(reg), NEW j \in DOMAIN reg, NEW m \in Messages
    PROVE  /\ TouchesOnly(reg, mark_done(reg, j, m), j)
           /\ mark_done(reg, j, m)[j].status = "done"
  <1>1. reg[j] \in Job /\ reg \in [DOMAIN reg -> Job]
    BY DEF IsRegistry
  <1>2. [reg[j] EXCEPT !.status = "done", !.message = m] \in Job
    BY <1>1 DEF Job, Statuses
  <1> QED BY <1>1, <1>2 DEF mark_done, TouchesOnly, IsRegistry, Job

LEMMA MarkFailedTouches ==
    ASSUME NEW reg, IsRegistry(reg), NEW j \in DOMAIN reg, NEW e \in Errors
    PROVE  /\ TouchesOnly(reg, mark_failed(reg, j, e), j)
           /\ mark_failed(reg, j, e)[j].status = "failed"
  <1>1. reg[j] \in Job /\ reg \in [DOMAIN reg -> Job]
    BY DEF IsRegistry
  <1>2. [reg[j] EXCEPT !.status = "failed", !.error = e] \in Job
    BY <1>1 DEF Job, Statuses
  <1> QED BY <1>1, <1>2 DEF mark_failed, TouchesOnly, IsRegistry, Job

\* request_cancel (jobs.py:192-203) touches nothing but the cancel_requested flag.
LEMMA RequestCancelFlags ==
    ASSUME NEW reg, IsRegistry(reg), NEW S
    PROVE  /\ IsRegistry(request_cancel(reg, S))
           /\ DOMAIN request_cancel(reg, S) = DOMAIN reg
           /\ \A i \in DOMAIN reg : /\ request_cancel(reg, S)[i].user = reg[i].user
                                    /\ request_cancel(reg, S)[i].kind = reg[i].kind
                                    /\ request_cancel(reg, S)[i].status = reg[i].status
  <1> DEFINE new == request_cancel(reg, S)
  <1>1. DOMAIN new = DOMAIN reg
    BY DEF request_cancel
  <1>2. ASSUME NEW i \in DOMAIN reg
        PROVE  /\ new[i] \in Job
               /\ new[i].user = reg[i].user
               /\ new[i].kind = reg[i].kind
               /\ new[i].status = reg[i].status
    <2> DEFINE b == reg[i].cancel_requested \/ (i \in S /\ ~is_terminal(reg[i]))
    <2>1. reg[i] \in Job
      BY DEF IsRegistry
    <2>2. new[i] = [reg[i] EXCEPT !.cancel_requested = b]
      BY DEF request_cancel
    <2>3. b \in BOOLEAN
      BY <2>1 DEF Job, is_terminal
    <2> HIDE DEF b, new
    <2> QED BY <2>1, <2>2, <2>3 DEF Job
  <1>3. new \in [DOMAIN new -> Job]
    BY <1>1, <1>2 DEF request_cancel
  <1> QED BY <1>1, <1>2, <1>3 DEF IsRegistry

-----------------------------------------------------------------------------
Entry(reg)      == [job : DOMAIN reg, file : Tokens]
JobIds(q)       == {q[i].job : i \in DOMAIN q}
Distinct(q)     == \A i, k \in DOMAIN q : q[i].job = q[k].job => i = k

Queued(reg, j)  == reg[j].kind = "import_xlsx" /\ reg[j].status = "queued"
Running(reg, j) == reg[j].kind = "import_xlsx" /\ reg[j].status = "running"
Waiting(reg, u) == {j \in DOMAIN reg : reg[j].user = u /\ Queued(reg, j)}

\* q holds the queued imports of u, each once.
Holds(reg, u, q) == Distinct(q) /\ JobIds(q) = Waiting(reg, u)
QueuesHold == \A u \in Users : Holds(jobs, u, queue[u])

OneDrain == \A c, d \in DOMAIN drains : drains[c].user = drains[d].user => c = d

\* A drain that had its first turn works on a running import of its user.
WorksOn(reg, d) == IF d.phase = "scheduled" THEN d.job = NoJob
                   ELSE d.job \in DOMAIN reg /\ Running(reg, d.job) /\ reg[d.job].user = d.user
DrainsWork == \A d \in DOMAIN drains : WorksOn(jobs, drains[d])
RunningHaveDrain ==
    \A j \in DOMAIN jobs : Running(jobs, j) => \E d \in DOMAIN drains : drains[d].job = j

FilesApart == /\ UploadImportedOnce
              /\ \A t \in DOMAIN staged : \A j \in DOMAIN fileOf : fileOf[j] # t

\* A job that added a candidate after it was flagged added one, and has failed.
OverIfLate(reg, n, j) ==
    n = 0 \/ (n = 1 /\ j \in DOMAIN reg /\ reg[j].kind = "import_xlsx" /\ reg[j].status = "failed")
LateIsOver == \A j \in Jobs : OverIfLate(jobs, late[j], j)

IInv == /\ TypeOK
        /\ QueuesHold
        /\ OneDrain
        /\ DrainsWork
        /\ RunningHaveDrain
        /\ FilesApart
        /\ LateIsOver

-----------------------------------------------------------------------------
(* The line, the turns and the past of ImportRequests, and its steps *)

RunningOf(reg, u) == {j \in DOMAIN reg : reg[j].user = u /\ Running(reg, j)}
Ended(reg) == {j \in DOMAIN reg : reg[j].kind = "import_xlsx" /\ is_terminal(reg[j])}

\* What the abstract line, turns and past are here.
Line == [u \in Users |-> JobsOf(queue[u])]
Turn == [u \in Users |-> RunningOf(jobs, u)]
Seen == /\ Turn = [u \in Users |-> Imports(u, {"running"})]
        /\ Ended(jobs) = UNION {Imports(u, {"done", "failed"}) : u \in Users}

\* The steps of ImportRequests in these terms.
Asks(u, j) == /\ j \notin DOMAIN jobs
              /\ Line' = [Line EXCEPT ![u] = Append(@, j)]
              /\ Turn' = Turn /\ Ended(jobs)' = Ended(jobs)
Proceeds(u) == /\ Ended(jobs)' = Ended(jobs) \cup Turn[u]
               /\ \/ Turn' = [Turn EXCEPT ![u] = {}] /\ Line' = Line
                  \/ /\ Line[u] # <<>>
                     /\ Turn' = [Turn EXCEPT ![u] = {Head(Line[u])}]
                     /\ Line' = [Line EXCEPT ![u] = Tail(@)]
Withdraws(u, j) == /\ \E i \in DOMAIN Line[u] :
                        Line[u][i] = j /\ Line' = [Line EXCEPT ![u] = RemoveAt(@, i)]
                   /\ Ended(jobs)' = Ended(jobs) \cup {j}
                   /\ Turn' = Turn
Stutters == Line' = Line /\ Turn' = Turn /\ Ended(jobs)' = Ended(jobs)

-----------------------------------------------------------------------------
(* The list of entries *)

\* What a filter by the id of one entry leaves (jobs.py:124): one entry less, in
\* the old order.
LEMMA RemoveAtIs ==
    ASSUME NEW S, NEW q \in Seq(S), NEW i \in 1..Len(q)
    PROVE  /\ RemoveAt(q, i) \in Seq(S)
           /\ Len(RemoveAt(q, i)) = Len(q) - 1
           /\ \A n \in 1..Len(q) - 1 : RemoveAt(q, i)[n] = IF n < i THEN q[n] ELSE q[n + 1]
  <1> DEFINE a == SubSeq(q, 1, i - 1)
             b == SubSeq(q, i + 1, Len(q))
  <1>1. /\ Len(q) \in Nat /\ \A n \in 1..Len(q) : q[n] \in S
        /\ 1 \in Int /\ i - 1 \in Int /\ i + 1 \in Int /\ Len(q) \in Int
    BY LenProperties, ElementOfSeq
  <1>2. /\ a \in Seq(S) /\ Len(a) = i - 1
        /\ \A n \in 1..i - 1 : a[n] = q[n]
    <2>1. \A n \in 1..(i - 1) : q[n] \in S
      BY <1>1
    <2>2. /\ a \in Seq(S)
          /\ Len(a) = IF 1 <= i - 1 THEN i - 1 - 1 + 1 ELSE 0
          /\ \A n \in 1..(i - 1 - 1 + 1) : a[n] = q[1 + n - 1]
      BY <1>1, <2>1, SubSeqProperties
    <2> HIDE DEF a
    <2> QED BY <1>1, <2>2
  <1>3. /\ b \in Seq(S) /\ Len(b) = Len(q) - i
        /\ \A n \in 1..Len(q) - i : b[n] = q[n + i]
    <2>1. \A n \in (i + 1)..Len(q) : q[n] \in S
      BY <1>1
    <2>2. /\ b \in Seq(S)
          /\ Len(b) = IF i + 1 <= Len(q) THEN Len(q) - (i + 1) + 1 ELSE 0
          /\ \A n \in 1..(Len(q) - (i + 1) + 1) : b[n] = q[(i + 1) + n - 1]
      BY <1>1, <2>1, SubSeqProperties
    <2> HIDE DEF b
    <2> QED BY <1>1, <2>2
  <1> HIDE DEF a, b
  <1>4. /\ a \o b \in Seq(S)
        /\ Len(a \o b) = Len(a) + Len(b)
        /\ \A n \in 1..Len(a) + Len(b) : (a \o b)[n] = IF n <= Len(a) THEN a[n] ELSE b[n - Len(a)]
    BY <1>2, <1>3, ConcatProperties
  <1>5. RemoveAt(q, i) = a \o b
    BY DEF RemoveAt, a, b
  <1>6. Len(a \o b) = Len(q) - 1
    BY <1>1, <1>2, <1>3, <1>4
  <1>7. ASSUME NEW n \in 1..Len(q) - 1
        PROVE  (a \o b)[n] = IF n < i THEN q[n] ELSE q[n + 1]
    <2>1. CASE n < i
      BY <1>1, <1>2, <1>3, <1>4, <2>1
    <2>2. CASE ~(n < i)
      <3>1. n - (i - 1) \in 1..Len(q) - i /\ (n - (i - 1)) + i = n + 1
        BY <1>1, <2>2
      <3>2. n \in 1..Len(a) + Len(b) /\ ~(n <= Len(a)) /\ n - Len(a) = n - (i - 1)
        BY <1>1, <1>2, <1>3, <2>2
      <3>3. (a \o b)[n] = b[n - (i - 1)]
        BY <1>4, <3>2
      <3> QED BY <1>3, <2>2, <3>1, <3>3
    <2> QED BY <2>1, <2>2
  <1> QED BY <1>4, <1>5, <1>6, <1>7

\* enqueue_import appends an entry, next_queued_import pops the first,
\* cancel_queued_import drops one: what that makes of the ids that wait
\* (jobs.py:92-124).
LEMMA AppendIds ==
    ASSUME NEW S, NEW q \in Seq(S), NEW e \in S, Distinct(q), e.job \notin JobIds(q)
    PROVE  /\ JobIds(Append(q, e)) = JobIds(q) \cup {e.job}
           /\ Distinct(Append(q, e))
           /\ JobsOf(Append(q, e)) = Append(JobsOf(q), e.job)
  <1>1. /\ Append(q, e) \in Seq(S) /\ Len(Append(q, e)) = Len(q) + 1 /\ Len(q) \in Nat
        /\ DOMAIN q = 1..Len(q) /\ DOMAIN Append(q, e) = 1..Len(q) + 1
        /\ \A i \in 1..Len(q) : Append(q, e)[i] = q[i]
        /\ Append(q, e)[Len(q) + 1] = e
    BY AppendProperties, LenProperties
  <1>2. JobIds(Append(q, e)) = JobIds(q) \cup {e.job}
    BY <1>1 DEF JobIds
  <1>3. Distinct(Append(q, e))
    BY <1>1 DEF JobIds, Distinct
  <1>4. JobsOf(Append(q, e)) = Append(JobsOf(q), e.job)
    BY DEF JobsOf
  <1> QED BY <1>2, <1>3, <1>4

LEMMA TailIds ==
    ASSUME NEW S, NEW q \in Seq(S), q # <<>>, Distinct(q)
    PROVE  /\ Head(q) \in S /\ Tail(q) \in Seq(S)
           /\ Head(q).job \in JobIds(q)
           /\ JobIds(Tail(q)) = JobIds(q) \ {Head(q).job}
           /\ Distinct(Tail(q))
           /\ JobsOf(q) # <<>> /\ Head(JobsOf(q)) = Head(q).job
           /\ JobsOf(Tail(q)) = Tail(JobsOf(q))
  <1>1. /\ Head(q) \in S /\ Tail(q) \in Seq(S)
        /\ Len(q) \in Nat \ {0} /\ Len(Tail(q)) = Len(q) - 1
        /\ DOMAIN q = 1..Len(q) /\ DOMAIN Tail(q) = 1..Len(q) - 1
        /\ \A i \in 1..Len(q) - 1 : Tail(q)[i] = q[i + 1]
        /\ Head(q) = q[1]
    BY HeadTailProperties, LenProperties, EmptySeq
  <1>2. Head(q).job \in JobIds(q)
    BY <1>1 DEF JobIds
  <1>3. JobIds(Tail(q)) \subseteq JobIds(q) \ {Head(q).job}
    BY <1>1 DEF JobIds, Distinct
  <1>4. ASSUME NEW j \in JobIds(q) \ {Head(q).job}
        PROVE  j \in JobIds(Tail(q))
    <2>1. PICK i \in 1..Len(q) : q[i].job = j
      BY <1>1 DEF JobIds
    <2>2. i - 1 \in 1..Len(q) - 1 /\ (i - 1) + 1 = i
      BY <1>1, <2>1
    <2>3. i - 1 \in DOMAIN Tail(q) /\ Tail(q)[i - 1].job = j
      BY <1>1, <2>1, <2>2
    <2> QED BY <2>3 DEF JobIds
  <1>5. Distinct(Tail(q))
    BY <1>1 DEF Distinct
  <1>6. /\ JobsOf(q) # <<>> /\ Head(JobsOf(q)) = Head(q).job
        /\ JobsOf(Tail(q)) = Tail(JobsOf(q))
    BY <1>1 DEF JobsOf
  <1> QED BY <1>1, <1>2, <1>3, <1>4, <1>5, <1>6

LEMMA RemoveIds ==
    ASSUME NEW S, NEW q \in Seq(S), Distinct(q), NEW i \in DOMAIN q
    PROVE  /\ RemoveAt(q, i) \in Seq(S)
           /\ JobIds(RemoveAt(q, i)) = JobIds(q) \ {q[i].job}
           /\ Distinct(RemoveAt(q, i))
           /\ i \in DOMAIN JobsOf(q) /\ JobsOf(q)[i] = q[i].job
           /\ JobsOf(RemoveAt(q, i)) = RemoveAt(JobsOf(q), i)
  <1> DEFINE r == RemoveAt(q, i)
  <1>1. Len(q) \in Nat /\ DOMAIN q = 1..Len(q) /\ i \in 1..Len(q)
    BY LenProperties
  <1>2. /\ r \in Seq(S) /\ Len(r) = Len(q) - 1 /\ DOMAIN r = 1..Len(q) - 1
        /\ \A n \in 1..Len(q) - 1 : r[n] = IF n < i THEN q[n] ELSE q[n + 1]
    BY <1>1, RemoveAtIs, LenProperties
  <1> HIDE DEF r
  <1>3. JobIds(r) \subseteq JobIds(q) \ {q[i].job}
    BY <1>1, <1>2 DEF JobIds, Distinct
  <1>4. ASSUME NEW j \in JobIds(q) \ {q[i].job}
        PROVE  j \in JobIds(r)
    <2>1. PICK k \in 1..Len(q) : q[k].job = j
      BY <1>1 DEF JobIds
    <2>2. CASE k < i
      <3>1. k \in DOMAIN r /\ r[k].job = j
        BY <1>1, <1>2, <2>1, <2>2
      <3> QED BY <3>1 DEF JobIds
    <2>3. CASE k > i
      <3>1. k - 1 \in 1..Len(q) - 1 /\ ~(k - 1 < i) /\ (k - 1) + 1 = k
        BY <1>1, <2>1, <2>3
      <3>2. k - 1 \in DOMAIN r /\ r[k - 1].job = j
        BY <1>2, <2>1, <3>1
      <3> QED BY <3>2 DEF JobIds
    <2> QED BY <1>1, <2>1, <2>2, <2>3
  <1>5. Distinct(r)
    <2> SUFFICES ASSUME NEW m \in DOMAIN r, NEW n \in DOMAIN r, r[m].job = r[n].job
                 PROVE  m = n
      BY DEF Distinct
    <2> DEFINE old(k) == IF k < i THEN k ELSE k + 1
    <2>1. \A k \in DOMAIN r : k \in Int /\ old(k) \in DOMAIN q /\ r[k] = q[old(k)]
      BY <1>1, <1>2
    <2>2. old(m) = old(n)
      BY <2>1 DEF Distinct
    <2> QED BY <1>1, <2>1, <2>2
  <1>6. JobsOf(r) = RemoveAt(JobsOf(q), i)
    <2> DEFINE p == JobsOf(q)
               J == {q[n].job : n \in 1..Len(q)}
    <2>1. p = [n \in 1..Len(q) |-> q[n].job]
      BY <1>1 DEF JobsOf
    <2>2. p \in Seq(J) /\ Len(p) = Len(q) /\ \A n \in 1..Len(q) : p[n] = q[n].job
      BY <1>1, <2>1
    <2> HIDE DEF p, J
    <2>3. /\ RemoveAt(p, i) \in Seq(J) /\ Len(RemoveAt(p, i)) = Len(q) - 1
          /\ \A n \in 1..Len(q) - 1 : RemoveAt(p, i)[n] = IF n < i THEN p[n] ELSE p[n + 1]
      BY <1>1, <2>2, RemoveAtIs
    <2>4. JobsOf(r) = [n \in 1..Len(q) - 1 |-> r[n].job]
      BY <1>2 DEF JobsOf
    <2>5. \A n \in 1..Len(q) - 1 : r[n].job = RemoveAt(p, i)[n]
      BY <1>1, <1>2, <2>2, <2>3
    <2>6. RemoveAt(p, i) = [n \in 1..Len(q) - 1 |-> RemoveAt(p, i)[n]]
      BY <2>3, LenProperties
    <2> QED BY <2>4, <2>5, <2>6 DEF p
  <1>7. i \in DOMAIN JobsOf(q) /\ JobsOf(q)[i] = q[i].job
    BY DEF JobsOf
  <1> QED BY <1>2, <1>3, <1>4, <1>5, <1>6, <1>7 DEF r

-----------------------------------------------------------------------------
(* The turns of a drain.  What a lemma proves of an action is that IInv holds  *)
(* after it and which step of ImportRequests it is.                            *)

\* reg is the registry when the import of d, if it has one, is over.
Freed(reg, d) ==
    /\ IsRegistry(reg)
    /\ DOMAIN reg = DOMAIN jobs
    /\ \A i \in DOMAIN jobs : /\ reg[i].kind = jobs[i].kind
                              /\ reg[i].user = jobs[i].user
                              /\ i # drains[d].job => reg[i] = jobs[i]
                              /\ i = drains[d].job => is_terminal(reg[i])

\* The end of one import changes nothing for those that wait or are worked on by others.
LEMMA FreedKeeps ==
    ASSUME IInv, NEW d \in DOMAIN drains, NEW reg, Freed(reg, d)
    PROVE  /\ \A u \in Users : Waiting(reg, u) = Waiting(jobs, u)
           /\ \A j \in DOMAIN reg : Running(reg, j) <=> Running(jobs, j) /\ j # drains[d].job
           /\ \A e \in DOMAIN drains \ {d} : WorksOn(reg, drains[e])
           /\ \A e \in DOMAIN drains \ {d} : drains[e].user # drains[d].user
  <1>1. WorksOn(jobs, drains[d])
    BY DEF IInv, DrainsWork
  <1>2. drains[d].job \in DOMAIN jobs => Running(jobs, drains[d].job)
    <2>1. NoJob \notin DOMAIN jobs
      BY ImportBoundsAssumption DEF IInv, TypeOK, IsRegistry
    <2> QED BY <1>1, <2>1 DEF WorksOn
  <1>3. \A u \in Users : Waiting(reg, u) = Waiting(jobs, u)
    BY <1>2 DEF Freed, Waiting, Queued, Running, is_terminal
  <1>4. \A j \in DOMAIN reg : Running(reg, j) <=> Running(jobs, j) /\ j # drains[d].job
    BY DEF Freed, Running, is_terminal
  <1>5. \A e \in DOMAIN drains \ {d} : drains[e].user # drains[d].user
    BY DEF IInv, OneDrain
  <1>6. ASSUME NEW e \in DOMAIN drains \ {d}
        PROVE  WorksOn(reg, drains[e])
    <2>1. WorksOn(jobs, drains[e])
      BY DEF IInv, DrainsWork
    <2>2. CASE drains[e].phase = "scheduled"
      BY <2>1, <2>2 DEF WorksOn
    <2>3. CASE drains[e].phase # "scheduled"
      <3>1. drains[e].job \in DOMAIN jobs /\ jobs[drains[e].job].user = drains[e].user
        BY <2>1, <2>3 DEF WorksOn
      <3>2. drains[e].job # drains[d].job
        <4>1. CASE drains[d].phase = "scheduled"
          BY <1>1, <3>1, <4>1, ImportBoundsAssumption DEF WorksOn, IInv, TypeOK, IsRegistry
        <4>2. CASE drains[d].phase # "scheduled"
          BY <1>1, <1>5, <3>1, <4>2 DEF WorksOn
        <4> QED BY <4>1, <4>2
      <3> QED BY <2>1, <2>3, <3>1, <3>2 DEF WorksOn, Freed, Running
    <2> QED BY <2>2, <2>3
  <1> QED BY <1>3, <1>4, <1>5, <1>6

\* The end of the import of d, seen from outside: the turn of its user is over.
LEMMA FreedSeen ==
    ASSUME IInv, NEW d \in DOMAIN drains, NEW reg, Freed(reg, d)
    PROVE  /\ drains[d].user \in Users
           /\ \A u \in Users : RunningOf(reg, u) = IF u = drains[d].user THEN {} ELSE RunningOf(jobs, u)
           /\ Ended(reg) = Ended(jobs) \cup RunningOf(jobs, drains[d].user)
  <1> DEFINE u == drains[d].user
             x == drains[d].job
  <1>1. WorksOn(jobs, drains[d]) /\ u \in Users /\ NoJob \notin DOMAIN jobs
    BY ImportBoundsAssumption DEF IInv, DrainsWork, TypeOK, DrainRecords, IsRegistry
  <1>2. x \in DOMAIN jobs => x \in RunningOf(jobs, u)
    BY <1>1 DEF WorksOn, RunningOf
  <1>3. ASSUME NEW j \in RunningOf(jobs, u)
        PROVE  j = x
    <2>1. PICK e \in DOMAIN drains : drains[e].job = j
      BY <1>3 DEF IInv, RunningHaveDrain, RunningOf
    <2>2. drains[e].user = u
      BY <1>1, <1>3, <2>1 DEF IInv, DrainsWork, WorksOn, RunningOf
    <2> QED BY <2>1, <2>2 DEF IInv, OneDrain
  <1>4. \A v \in Users : RunningOf(reg, v) = IF v = u THEN {} ELSE RunningOf(jobs, v)
    <2>1. \A j \in DOMAIN reg : Running(reg, j) <=> Running(jobs, j) /\ j # x
      BY FreedKeeps
    <2> QED BY <1>2, <1>3, <2>1 DEF RunningOf, Freed
  <1>5. Ended(reg) = Ended(jobs) \cup RunningOf(jobs, u)
    <2>1. \A j \in DOMAIN jobs : j # x => (j \in Ended(reg) <=> j \in Ended(jobs))
      BY DEF Freed, Ended
    <2>2. x \in DOMAIN jobs => x \in Ended(reg)
      BY <1>2 DEF Freed, Ended, RunningOf, Running
    <2>3. DOMAIN reg = DOMAIN jobs
      BY DEF Freed
    <2> QED BY <1>2, <1>3, <2>1, <2>2, <2>3 DEF Ended, RunningOf
  <1> QED BY <1>1, <1>4, <1>5

\* A drain is over: its queue is empty, or the lookup raised (pages_import.py:171-179).
LEMMA DrainGoneInv ==
    ASSUME IInv, NEW d \in DOMAIN drains, NEW reg, Freed(reg, d),
           late' \in [Jobs -> 0..MaxCandidates], \A j \in Jobs : OverIfLate(reg, late'[j], j),
           jobs' = reg, drains' = Without(drains, d),
           UNCHANGED <<staged, queue, flagging, fileOf>>
    PROVE  IInv' /\ Proceeds(drains[d].user)
  <1>1. /\ DOMAIN drains' = DOMAIN drains \ {d}
        /\ \A e \in DOMAIN drains' : drains'[e] = drains[e]
        /\ drains' = [e \in DOMAIN drains \ {d} |-> drains[e]]
    BY DEF Without
  <1>2. TypeOK'
    <2>1. drains' \in [DOMAIN drains' -> DrainRecords]
      BY <1>1 DEF IInv, TypeOK
    <2> QED BY <1>1, <2>1 DEF IInv, TypeOK, Freed
  <1>3. QueuesHold'
    BY FreedKeeps DEF IInv, QueuesHold, Holds
  <1>4. OneDrain'
    BY <1>1 DEF IInv, OneDrain
  <1>5. DrainsWork'
    BY <1>1, FreedKeeps DEF DrainsWork
  <1>6. RunningHaveDrain'
    BY <1>1, FreedKeeps DEF IInv, RunningHaveDrain, Freed
  <1>7. FilesApart'
    BY DEF IInv, FilesApart, UploadImportedOnce
  <1>8. LateIsOver'
    BY DEF LateIsOver
  <1>9. Proceeds(drains[d].user)
    <2>1. Line' = Line
      BY DEF Line
    <2>2. Turn' = [Turn EXCEPT ![drains[d].user] = {}] /\ Ended(jobs') = Ended(jobs) \cup Turn[drains[d].user]
      BY FreedSeen DEF Turn
    <2> QED BY <2>1, <2>2 DEF Proceeds
  <1> QED BY <1>2, <1>3, <1>4, <1>5, <1>6, <1>7, <1>8, <1>9 DEF IInv

\* A drain takes the next entry and begins that import (pages_import.py:171-185).
TakesUp(d, reg, u, x) ==
    /\ u = drains[d].user /\ queue[u] # <<>> /\ x = Head(queue[u]).job
    /\ queue' = [queue EXCEPT ![u] = Tail(@)]
    /\ jobs' = set_running(reg, x)
    /\ drains' = [drains EXCEPT ![d].phase = "parsing", ![d].job = x]
    /\ UNCHANGED <<staged, flagging, fileOf>>

LEMMA DrainTakesInv ==
    ASSUME IInv, NEW d \in DOMAIN drains, NEW reg, Freed(reg, d),
           late' \in [Jobs -> 0..MaxCandidates], \A j \in Jobs : OverIfLate(reg, late'[j], j),
           NEW u, NEW x, TakesUp(d, reg, u, x)
    PROVE  IInv' /\ Proceeds(u)
  <1>1. /\ u \in Users
        /\ queue \in [Users -> Seq(Entry(jobs))]
        /\ drains \in [DOMAIN drains -> DrainRecords]
        /\ DOMAIN jobs \subseteq Jobs
    BY DEF IInv, TypeOK, Entry, DrainRecords, IsRegistry, TakesUp
  <1>2. Distinct(queue[u]) /\ JobIds(queue[u]) = Waiting(reg, u)
    BY <1>1, FreedKeeps DEF IInv, QueuesHold, Holds
  <1>3. /\ Tail(queue[u]) \in Seq(Entry(jobs))
        /\ x \in Waiting(reg, u)
        /\ JobIds(Tail(queue[u])) = Waiting(reg, u) \ {x}
        /\ Distinct(Tail(queue[u]))
    <2>1. queue[u] \in Seq(Entry(jobs))
      BY <1>1
    <2> QED BY <1>2, <2>1, TailIds DEF TakesUp
  <1>4. x \in DOMAIN reg /\ reg[x].user = u /\ Queued(reg, x) /\ x \in Jobs
    BY <1>1, <1>3 DEF Waiting, Freed
  <1>5. /\ IsRegistry(jobs') /\ DOMAIN jobs' = DOMAIN jobs
        /\ \A i \in DOMAIN jobs \ {x} : jobs'[i] = reg[i]
        /\ jobs'[x].user = u /\ Running(jobs', x)
    <2>1. TouchesOnly(reg, jobs', x) /\ jobs'[x].status = "running"
      BY <1>4, SetRunningTouches DEF Freed, TakesUp
    <2> QED BY <1>4, <2>1 DEF TouchesOnly, Freed, Queued, Running
  <1>6. /\ DOMAIN drains' = DOMAIN drains
        /\ \A e \in DOMAIN drains \ {d} : drains'[e] = drains[e]
        /\ drains'[d].user = u /\ drains'[d].job = x /\ drains'[d].phase = "parsing"
        /\ drains'[d] \in DrainRecords
    <2>1. drains'[d] = [drains[d] EXCEPT !.phase = "parsing", !.job = x] /\ drains[d] \in DrainRecords
      BY <1>1 DEF TakesUp
    <2> QED BY <1>1, <1>4, <2>1 DEF DrainRecords, Phases, TakesUp
  <1>7. TypeOK'
    <2>1. drains' \in [DOMAIN drains' -> DrainRecords]
      BY <1>1, <1>6 DEF TakesUp
    <2>2. queue' \in [Users -> Seq(Entry(jobs'))]
      BY <1>1, <1>3, <1>5 DEF Entry, TakesUp
    <2> QED BY <1>5, <1>6, <2>1, <2>2 DEF IInv, TypeOK, Entry, TakesUp
  <1>8. QueuesHold'
    <2> SUFFICES ASSUME NEW v \in Users
                 PROVE  Distinct(queue'[v]) /\ JobIds(queue'[v]) = Waiting(jobs', v)
      BY DEF QueuesHold, Holds
    <2>1. Waiting(jobs', v) = Waiting(reg, v) \ {x}
      BY <1>5 DEF Waiting, Queued, Running, Freed
    <2>2. CASE v = u
      BY <1>1, <1>3, <2>1, <2>2 DEF TakesUp
    <2>3. CASE v # u
      <3>1. queue'[v] = queue[v] /\ x \notin Waiting(reg, v)
        BY <1>1, <1>4, <2>3 DEF Waiting, TakesUp
      <3> QED BY <2>1, <3>1, FreedKeeps DEF IInv, QueuesHold, Holds
    <2> QED BY <2>2, <2>3
  <1>9. OneDrain'
    BY <1>6 DEF IInv, OneDrain, TakesUp
  <1>10. DrainsWork'
    <2>1. \A e \in DOMAIN drains \ {d} : WorksOn(jobs', drains[e])
      <3> SUFFICES ASSUME NEW e \in DOMAIN drains \ {d}
                   PROVE  WorksOn(jobs', drains[e])
        OBVIOUS
      <3>1. WorksOn(reg, drains[e]) /\ drains[e].user # u
        BY FreedKeeps DEF TakesUp
      <3> QED BY <1>4, <1>5, <3>1 DEF WorksOn, Running, Freed
    <2>2. WorksOn(jobs', drains'[d])
      BY <1>4, <1>5, <1>6 DEF WorksOn, Freed
    <2> QED BY <1>6, <2>1, <2>2 DEF DrainsWork
  <1>11. RunningHaveDrain'
    <2> SUFFICES ASSUME NEW j \in DOMAIN jobs', Running(jobs', j)
                 PROVE  \E e \in DOMAIN drains' : drains'[e].job = j
      BY DEF RunningHaveDrain
    <2>1. CASE j = x
      BY <1>6, <2>1
    <2>2. CASE j # x
      <3>1. j \in DOMAIN jobs /\ Running(jobs, j) /\ j # drains[d].job
        BY <1>5, <2>2, FreedKeeps DEF Running, Freed
      <3>2. PICK e \in DOMAIN drains : drains[e].job = j
        BY <3>1 DEF IInv, RunningHaveDrain
      <3> QED BY <1>6, <3>1, <3>2
    <2> QED BY <2>1, <2>2
  <1>12. FilesApart'
    BY DEF IInv, FilesApart, UploadImportedOnce, TakesUp
  <1>13. LateIsOver'
    BY <1>1, <1>4, <1>5 DEF LateIsOver, OverIfLate, Queued, Freed
  <1>14. Line[u] # <<>> /\ Line' = [Line EXCEPT ![u] = Tail(@)] /\ Head(Line[u]) = x
    <2>1. /\ JobsOf(queue[u]) # <<>> /\ Head(JobsOf(queue[u])) = x
          /\ JobsOf(Tail(queue[u])) = Tail(JobsOf(queue[u]))
      BY <1>1, <1>2, TailIds DEF TakesUp
    <2>2. queue' = [queue EXCEPT ![u] = Tail(@)]
      BY DEF TakesUp
    <2> QED BY <1>1, <2>1, <2>2 DEF Line
  <1>15. Turn' = [Turn EXCEPT ![u] = {x}] /\ Ended(jobs') = Ended(jobs) \cup Turn[u]
    <2>1. /\ \A v \in Users : RunningOf(reg, v) = IF v = u THEN {} ELSE RunningOf(jobs, v)
          /\ Ended(reg) = Ended(jobs) \cup RunningOf(jobs, u)
      BY FreedSeen DEF TakesUp
    <2>2. \A v \in Users : RunningOf(jobs', v) = RunningOf(reg, v) \cup (IF v = u THEN {x} ELSE {})
      BY <1>4, <1>5 DEF RunningOf, Running, Queued, Freed
    <2>3. Ended(jobs') = Ended(reg)
      BY <1>4, <1>5 DEF Ended, is_terminal, Running, Queued, Freed
    <2>4. \A v \in Users : RunningOf(jobs', v) = IF v = u THEN {x} ELSE RunningOf(jobs, v)
      BY <2>1, <2>2
    <2>5. Turn' = [Turn EXCEPT ![u] = {x}]
      BY <1>1, <2>4 DEF Turn
    <2>6. Turn[u] = RunningOf(jobs, u)
      BY <1>1 DEF Turn
    <2> QED BY <2>1, <2>3, <2>5, <2>6
  <1>16. Proceeds(u)
    BY <1>14, <1>15 DEF Proceeds
  <1> QED BY <1>7, <1>8, <1>9, <1>10, <1>11, <1>12, <1>13, <1>16 DEF IInv

\* The rest of a drain's turn, with or without the lookup.
LEMMA ImportEndsInv ==
    ASSUME IInv, NEW d \in DOMAIN drains, NEW reg, Freed(reg, d),
           late' \in [Jobs -> 0..MaxCandidates], \A j \in Jobs : OverIfLate(reg, late'[j], j),
           ImportEnds(d, reg) \/ DrainOn(d, reg)
    PROVE  IInv' /\ Proceeds(drains[d].user)
  <1>1. CASE /\ jobs' = reg /\ drains' = Without(drains, d)
             /\ UNCHANGED <<staged, queue, flagging, fileOf>>
    BY <1>1, DrainGoneInv
  <1>2. CASE TakesUp(d, reg, drains[d].user, Head(queue[drains[d].user]).job)
    BY <1>2, DrainTakesInv
  <1> QED BY <1>1, <1>2 DEF ImportEnds, DrainOn, TakesUp, next_queued_import

\* The job of a drain at work is over: done or failed (pages_import.py:200-233).
LEMMA WorkerFreed ==
    ASSUME IInv, NEW d \in DOMAIN drains, drains[d].phase # "scheduled", NEW reg,
           TouchesOnly(jobs, reg, drains[d].job), is_terminal(reg[drains[d].job])
    PROVE  Freed(reg, d)
  <1>1. drains[d].job \in DOMAIN jobs
    BY DEF IInv, DrainsWork, WorksOn
  <1> QED BY <1>1 DEF Freed, TouchesOnly

\* Before its first turn a drain has no job.
LEMMA BeginnerFreed ==
    ASSUME IInv, NEW d \in DOMAIN drains, drains[d].phase = "scheduled"
    PROVE  Freed(jobs, d)
  <1>1. drains[d].job \notin DOMAIN jobs
    BY ImportBoundsAssumption DEF IInv, DrainsWork, WorksOn, TypeOK, IsRegistry
  <1> QED BY <1>1 DEF Freed, IInv, TypeOK

-----------------------------------------------------------------------------
(* The actions *)

\* What is done to the registry beside the imports: a sync begins or ends, a cancel
\* request lists or flags.
LEMMA SameImportsInv ==
    ASSUME IInv, IsRegistry(jobs'), DOMAIN jobs \subseteq DOMAIN jobs',
           \A j \in DOMAIN jobs : /\ jobs'[j].kind = jobs[j].kind /\ jobs'[j].user = jobs[j].user
                                  /\ IsImport(j) => jobs'[j].status = jobs[j].status,
           \A j \in DOMAIN jobs' \ DOMAIN jobs : jobs'[j].kind # "import_xlsx",
           flagging' \in [Users -> SUBSET Jobs],
           UNCHANGED <<staged, queue, drains, fileOf, late>>
    PROVE  IInv' /\ Stutters
  <1>1. \A j \in DOMAIN jobs' : (Queued(jobs', j) \/ Running(jobs', j)) => j \in DOMAIN jobs
    BY DEF Queued, Running
  <1>2. \A j \in DOMAIN jobs : /\ Queued(jobs', j) <=> Queued(jobs, j)
                               /\ Running(jobs', j) <=> Running(jobs, j)
    BY DEF Queued, Running, IsImport
  <1>3. \A u \in Users : Waiting(jobs', u) = Waiting(jobs, u)
    BY <1>1, <1>2 DEF Waiting
  <1>4. TypeOK'
    <2>1. Seq(Entry(jobs)) \subseteq Seq(Entry(jobs'))
      <3>1. Entry(jobs) \subseteq Entry(jobs')
        BY DEF Entry
      <3> QED BY <3>1, SeqMonotonic
    <2>2. queue' \in [Users -> Seq(Entry(jobs'))]
      BY <2>1 DEF IInv, TypeOK, Entry
    <2> QED BY <2>2 DEF IInv, TypeOK, Entry
  <1>5. QueuesHold'
    BY <1>3 DEF IInv, QueuesHold, Holds
  <1>6. OneDrain'
    BY DEF IInv, OneDrain
  <1>7. DrainsWork'
    BY <1>2 DEF IInv, DrainsWork, WorksOn
  <1>8. RunningHaveDrain'
    BY <1>1, <1>2 DEF IInv, RunningHaveDrain
  <1>9. FilesApart'
    BY DEF IInv, FilesApart, UploadImportedOnce
  <1>10. LateIsOver'
    BY DEF IInv, LateIsOver, OverIfLate, IsImport
  <1>11. Stutters
    <2>1. \A u \in Users : RunningOf(jobs', u) = RunningOf(jobs, u)
      BY <1>1, <1>2 DEF RunningOf
    <2>2. Ended(jobs') = Ended(jobs)
      BY DEF Ended, is_terminal, IsImport
    <2> QED BY <2>1, <2>2 DEF Stutters, Line, Turn
  <1> QED BY <1>4, <1>5, <1>6, <1>7, <1>8, <1>9, <1>10, <1>11 DEF IInv

\* import_upload (pages_import.py:62-102)
LEMMA UploadInv ==
    ASSUME IInv, NEW u \in Users, Upload(u)
    PROVE  IInv' /\ Stutters
  <1>1. PICK t \in Tokens \ DOMAIN staged :
          /\ \A j \in DOMAIN fileOf : fileOf[j] # t
          /\ staged' = stage_upload(t, u)
    BY DEF Upload
  <1>2. UNCHANGED <<jobs, queue, drains, flagging, fileOf, late>>
    BY DEF Upload
  <1>3. /\ DOMAIN staged' \subseteq DOMAIN staged \cup {t}
        /\ staged' \in [DOMAIN staged' -> Users]
    BY <1>1 DEF stage_upload, IInv, TypeOK
  <1>4. TypeOK'
    BY <1>2, <1>3 DEF IInv, TypeOK
  <1>5. FilesApart'
    BY <1>1, <1>2, <1>3 DEF IInv, FilesApart, UploadImportedOnce
  <1>6. IInv'
    BY <1>2, <1>4, <1>5
    DEF IInv, QueuesHold, OneDrain, DrainsWork, RunningHaveDrain, LateIsOver
  <1>7. Stutters
    BY <1>2 DEF Stutters, Line, Turn
  <1> QED BY <1>6, <1>7

\* A user none of whose imports runs and who has no drain scheduled has no drain
\* (pages_import.py:130-134): the one that process schedules is the only one.
LEMMA NoDrainYet ==
    ASSUME IInv, NEW u \in Users, NEW reg, \A j \in DOMAIN jobs : j \in DOMAIN reg /\ reg[j] = jobs[j],
           ~ImportRunning(reg, u), ~DrainScheduled(u)
    PROVE  \A d \in DOMAIN drains : drains[d].user # u
  <1> SUFFICES ASSUME NEW d \in DOMAIN drains, drains[d].user = u
               PROVE  FALSE
    OBVIOUS
  <1>1. drains[d].phase # "scheduled"
    BY DEF DrainScheduled
  <1>2. drains[d].job \in DOMAIN jobs /\ Running(jobs, drains[d].job) /\ jobs[drains[d].job].user = u
    BY <1>1 DEF IInv, DrainsWork, WorksOn
  <1> QED BY <1>2 DEF ImportRunning, active_jobs_for, IsActive, Running

\* import_process (pages_import.py:105-138)
LEMMA ProcessInv ==
    ASSUME IInv, NEW u \in Users, NEW t \in Tokens, Process(u, t)
    PROVE  IInv' /\ \E j \in Jobs : Asks(u, j)
  <1>1. PICK j \in Unused : /\ jobs' = enqueue_import(jobs, j, u)
                            /\ queue' = [queue EXCEPT ![u] = Append(@, [job |-> j, file |-> t])]
                            /\ fileOf' = With(fileOf, j, t)
    BY DEF Process
  <1>2. /\ IsRegistry(jobs') /\ DOMAIN jobs' = DOMAIN jobs \cup {j}
        /\ \A i \in DOMAIN jobs : jobs'[i] = jobs[i]
        /\ j \in Jobs \ DOMAIN jobs
        /\ jobs'[j].user = u /\ Queued(jobs', j)
    <2>1. j \in Jobs \ DOMAIN jobs /\ IsRegistry(jobs) /\ "import_xlsx" \in Kinds
      BY ImportKindsAssumption DEF Unused, IInv, TypeOK
    <2>2. AddsJob(jobs, jobs', j, u, "import_xlsx")
      BY <1>1, <2>1, CreateAdds DEF enqueue_import
    <2> QED BY <2>1, <2>2 DEF AddsJob, NewJob, Queued
  <1>3. UNCHANGED <<flagging, late>> /\ staged' = Without(staged, t) /\ t \in DOMAIN staged
    BY DEF Process, drop_staged_upload
  <1>4. \/ UNCHANGED drains
        \/ /\ \A e \in DOMAIN drains : drains[e].user # u
           /\ \E d \in Drains \ DOMAIN drains :
                drains' = With(drains, d, [user |-> u, phase |-> "scheduled", job |-> NoJob, left |-> 0])
    <2>1. ~DrainScheduled(u)
      BY DEF Process
    <2>2. ~ImportRunning(jobs', u) => \A e \in DOMAIN drains : drains[e].user # u
      BY <1>2, <2>1, NoDrainYet
    <2> QED BY <2>2 DEF Process
  <1>5. /\ DOMAIN drains \subseteq DOMAIN drains' /\ DOMAIN drains' \subseteq Drains
        /\ \A e \in DOMAIN drains : drains'[e] = drains[e]
        /\ \A e \in DOMAIN drains' \ DOMAIN drains :
              /\ drains'[e] = [user |-> u, phase |-> "scheduled", job |-> NoJob, left |-> 0]
              /\ \A c \in DOMAIN drains : drains[c].user # u
        /\ \A c, e \in DOMAIN drains' \ DOMAIN drains : c = e
        /\ drains' = [e \in DOMAIN drains' |-> drains'[e]]
    <2>1. drains = [e \in DOMAIN drains |-> drains[e]] /\ DOMAIN drains \subseteq Drains
      BY DEF IInv, TypeOK
    <2> QED BY <1>4, <2>1 DEF With
  <1>6. /\ DOMAIN fileOf' = DOMAIN fileOf \cup {j} /\ fileOf'[j] = t
        /\ \A i \in DOMAIN fileOf : fileOf'[i] = fileOf[i]
        /\ fileOf' \in [DOMAIN fileOf' -> Tokens]
        /\ j \notin DOMAIN fileOf
    BY <1>1, <1>2 DEF With, IInv, TypeOK
  <1>7. /\ DOMAIN staged' = DOMAIN staged \ {t}
        /\ staged' \in [DOMAIN staged' -> Users]
    BY <1>3 DEF Without, IInv, TypeOK
  <1>8. /\ queue'[u] = Append(queue[u], [job |-> j, file |-> t])
        /\ \A v \in Users \ {u} : queue'[v] = queue[v]
        /\ queue' \in [Users -> Seq(Entry(jobs'))]
    <2>1. queue \in [Users -> Seq(Entry(jobs))] /\ Entry(jobs) \subseteq Entry(jobs')
      BY <1>2 DEF IInv, TypeOK, Entry
    <2>2. Seq(Entry(jobs)) \subseteq Seq(Entry(jobs'))
      BY <2>1, SeqMonotonic
    <2>3. [job |-> j, file |-> t] \in Entry(jobs')
      BY <1>2 DEF Entry
    <2>4. Append(queue[u], [job |-> j, file |-> t]) \in Seq(Entry(jobs'))
      BY <2>1, <2>2, <2>3, AppendProperties
    <2> QED BY <1>1, <2>1, <2>2, <2>4
  <1>9. TypeOK'
    <2>1. drains' \in [DOMAIN drains' -> DrainRecords]
      <3>1. [user |-> u, phase |-> "scheduled", job |-> NoJob, left |-> 0] \in DrainRecords
        BY ImportBoundsAssumption DEF DrainRecords, Phases
      <3>2. \A e \in DOMAIN drains : drains[e] \in DrainRecords
        BY DEF IInv, TypeOK
      <3>3. \A e \in DOMAIN drains' : drains'[e] \in DrainRecords
        BY <1>5, <3>1, <3>2
      <3> QED BY <1>5, <3>3
    <2>2. DOMAIN fileOf' \subseteq DOMAIN jobs'
      BY <1>2, <1>6 DEF IInv, TypeOK
    <2> QED BY <1>2, <1>3, <1>5, <1>6, <1>7, <1>8, <2>1, <2>2 DEF IInv, TypeOK, Entry
  <1>10. QueuesHold'
    <2> SUFFICES ASSUME NEW v \in Users
                 PROVE  Distinct(queue'[v]) /\ JobIds(queue'[v]) = Waiting(jobs', v)
      BY DEF QueuesHold, Holds
    <2>1. Distinct(queue[v]) /\ JobIds(queue[v]) = Waiting(jobs, v) /\ queue[v] \in Seq(Entry(jobs'))
      <3>1. Seq(Entry(jobs)) \subseteq Seq(Entry(jobs'))
        <4>1. Entry(jobs) \subseteq Entry(jobs')
          BY <1>2 DEF Entry
        <4> QED BY <4>1, SeqMonotonic
      <3> QED BY <3>1 DEF IInv, QueuesHold, Holds, TypeOK, Entry
    <2>2. Waiting(jobs', v) = Waiting(jobs, v) \cup (IF v = u THEN {j} ELSE {})
      BY <1>2 DEF Waiting, Queued
    <2>3. CASE v = u
      <3> DEFINE e == [job |-> j, file |-> t]
      <3>1. e \in Entry(jobs') /\ e.job = j /\ j \notin JobIds(queue[u])
        BY <1>2, <2>1, <2>3 DEF Entry, Waiting
      <3> HIDE DEF e
      <3>2. /\ JobIds(Append(queue[u], e)) = JobIds(queue[u]) \cup {j}
            /\ Distinct(Append(queue[u], e))
        BY <2>1, <2>3, <3>1, AppendIds
      <3> QED BY <1>8, <2>1, <2>2, <2>3, <3>2 DEF e
    <2>4. CASE v # u
      BY <1>8, <2>1, <2>2, <2>4
    <2> QED BY <2>3, <2>4
  <1>11. OneDrain'
    BY <1>5 DEF IInv, OneDrain
  <1>12. DrainsWork'
    BY <1>2, <1>5 DEF IInv, DrainsWork, WorksOn, Running
  <1>13. RunningHaveDrain'
    BY <1>2, <1>5 DEF IInv, RunningHaveDrain, Running, Queued
  <1>14. FilesApart'
    BY <1>3, <1>6, <1>7 DEF IInv, FilesApart, UploadImportedOnce
  <1>15. LateIsOver'
    BY <1>2, <1>3 DEF IInv, LateIsOver, OverIfLate
  <1>16. Asks(u, j)
    <2>1. Line' = [Line EXCEPT ![u] = Append(@, j)]
      <3> DEFINE e == [job |-> j, file |-> t]
      <3>1. queue[u] \in Seq(Entry(jobs')) /\ e \in Entry(jobs') /\ e.job = j /\ queue' = [queue EXCEPT ![u] = Append(@, e)]
        <4>1. Entry(jobs) \subseteq Entry(jobs')
          BY <1>2 DEF Entry
        <4>2. Seq(Entry(jobs)) \subseteq Seq(Entry(jobs'))
          BY <4>1, SeqMonotonic
        <4>3. queue[u] \in Seq(Entry(jobs'))
          BY <4>2 DEF IInv, TypeOK, Entry
        <4> QED BY <1>1, <1>2, <4>3 DEF Entry
      <3>2. Distinct(queue[u]) /\ j \notin JobIds(queue[u])
        BY <1>2 DEF IInv, QueuesHold, Holds, Waiting
      <3> HIDE DEF e
      <3>3. JobsOf(Append(queue[u], e)) = Append(JobsOf(queue[u]), j)
        BY <3>1, <3>2, AppendIds
      <3>4. queue \in [Users -> Seq(Entry(jobs))]
        BY DEF IInv, TypeOK, Entry
      <3> QED BY <3>1, <3>3, <3>4 DEF Line
    <2>2. \A v \in Users : RunningOf(jobs', v) = RunningOf(jobs, v)
      BY <1>2 DEF RunningOf, Running, Queued
    <2>3. Ended(jobs') = Ended(jobs)
      BY <1>2 DEF Ended, is_terminal, Queued
    <2> QED BY <1>2, <2>1, <2>2, <2>3 DEF Asks, Turn
  <1> QED BY <1>2, <1>9, <1>10, <1>11, <1>12, <1>13, <1>14, <1>15, <1>16 DEF IInv

\* import_cancel_queued (pages_import.py:355-364)
LEMMA CancelQueuedInv ==
    ASSUME IInv, NEW u \in Users, NEW j \in Jobs, CancelQueued(u, j)
    PROVE  IInv' /\ Withdraws(u, j)
  <1> DEFINE i == CHOOSE k \in DOMAIN queue[u] : queue[u][k].job = j
             q == RemoveAt(queue[u], i)
  <1>1. /\ queue[u] \in Seq(Entry(jobs)) /\ queue \in [Users -> Seq(Entry(jobs))]
        /\ Distinct(queue[u]) /\ JobIds(queue[u]) = Waiting(jobs, u)
    BY DEF IInv, TypeOK, Entry, QueuesHold, Holds
  <1>2. i \in DOMAIN queue[u] /\ queue[u][i].job = j
    BY DEF CancelQueued
  <1>3. j \in DOMAIN jobs /\ jobs[j].user = u /\ Queued(jobs, j)
    BY <1>1, <1>2 DEF JobIds, Waiting
  <1>4. /\ UNCHANGED <<staged, drains, flagging, fileOf, late>>
        /\ queue' = [queue EXCEPT ![u] = q]
    BY DEF CancelQueued, WithoutJob
  <1> HIDE DEF i
  <1>5. /\ q \in Seq(Entry(jobs)) /\ Distinct(q)
        /\ JobIds(q) = Waiting(jobs, u) \ {j}
        /\ i \in DOMAIN JobsOf(queue[u]) /\ JobsOf(queue[u])[i] = j
        /\ JobsOf(q) = RemoveAt(JobsOf(queue[u]), i)
    BY <1>1, <1>2, RemoveIds
  <1> HIDE DEF q
  <1>6. /\ IsRegistry(jobs') /\ DOMAIN jobs' = DOMAIN jobs
        /\ \A k \in DOMAIN jobs \ {j} : jobs'[k] = jobs[k]
        /\ jobs'[j].user = u /\ jobs'[j].kind = "import_xlsx" /\ jobs'[j].status = "failed"
    <2>1. TouchesOnly(jobs, jobs', j) /\ jobs'[j].status = "failed"
      BY <1>3, MarkFailedTouches DEF CancelQueued, IInv, TypeOK, Errors
    <2> QED BY <1>3, <2>1 DEF TouchesOnly, Queued
  <1>7. TypeOK'
    <2>1. queue' \in [Users -> Seq(Entry(jobs'))]
      BY <1>1, <1>4, <1>5, <1>6 DEF Entry
    <2> QED BY <1>4, <1>6, <2>1 DEF IInv, TypeOK, Entry
  <1>8. QueuesHold'
    <2> SUFFICES ASSUME NEW v \in Users
                 PROVE  Distinct(queue'[v]) /\ JobIds(queue'[v]) = Waiting(jobs', v)
      BY DEF QueuesHold, Holds
    <2>1. Waiting(jobs', v) = Waiting(jobs, v) \ {j}
      BY <1>6 DEF Waiting, Queued
    <2>2. CASE v = u
      BY <1>1, <1>4, <1>5, <2>1, <2>2
    <2>3. CASE v # u
      <3>1. queue'[v] = queue[v] /\ j \notin Waiting(jobs, v)
        BY <1>1, <1>3, <1>4, <2>3 DEF Waiting
      <3> QED BY <2>1, <3>1 DEF IInv, QueuesHold, Holds
    <2> QED BY <2>2, <2>3
  <1>9. OneDrain'
    BY <1>4 DEF IInv, OneDrain
  <1>10. DrainsWork'
    BY <1>3, <1>4, <1>6 DEF IInv, DrainsWork, WorksOn, Running, Queued
  <1>11. RunningHaveDrain'
    BY <1>3, <1>4, <1>6 DEF IInv, RunningHaveDrain, Running, Queued
  <1>12. FilesApart'
    BY <1>4 DEF IInv, FilesApart, UploadImportedOnce
  <1>13. LateIsOver'
    BY <1>3, <1>4, <1>6 DEF IInv, LateIsOver, OverIfLate
  <1>14. Withdraws(u, j)
    <2>1. i \in DOMAIN Line[u] /\ Line[u][i] = j
      BY <1>5 DEF Line
    <2>2. Line' = [Line EXCEPT ![u] = RemoveAt(@, i)]
      BY <1>1, <1>4, <1>5 DEF Line
    <2>3. \A v \in Users : RunningOf(jobs', v) = RunningOf(jobs, v)
      BY <1>3, <1>6 DEF RunningOf, Running, Queued
    <2>4. Ended(jobs') = Ended(jobs) \cup {j}
      BY <1>3, <1>6 DEF Ended, is_terminal
    <2> QED BY <2>1, <2>2, <2>3, <2>4 DEF Withdraws, Turn
  <1> QED BY <1>7, <1>8, <1>9, <1>10, <1>11, <1>12, <1>13, <1>14 DEF IInv

\* The actions that leave the imports as they are.
LEMMA BesideInv ==
    ASSUME IInv,
           \/ \E u \in Users : \/ CancelLists(u) \/ SyncBegins(u)
                               \/ \E j \in Jobs : CancelFlags(u, j)
           \/ \E j \in DOMAIN jobs : SyncEnds(j)
           \/ UNCHANGED vars
    PROVE  IInv' /\ Stutters
  <1>1. IsRegistry(jobs) /\ flagging \in [Users -> SUBSET Jobs] /\ DOMAIN jobs \subseteq Jobs
    BY DEF IInv, TypeOK, IsRegistry
  <1>2. ASSUME NEW u \in Users, CancelLists(u)
        PROVE  IInv' /\ Stutters
    <2>1. UNCHANGED <<jobs, staged, queue, drains, fileOf, late>>
      BY <1>2 DEF CancelLists
    <2>2. flagging' \in [Users -> SUBSET Jobs]
      BY <1>1, <1>2 DEF CancelLists, active_jobs_for
    <2> QED BY <1>1, <2>1, <2>2, SameImportsInv
  <1>3. ASSUME NEW u \in Users, SyncBegins(u)
        PROVE  IInv' /\ Stutters
    <2>1. UNCHANGED <<staged, queue, drains, flagging, fileOf, late>>
      BY <1>3 DEF SyncBegins
    <2>2. PICK j \in Unused : jobs' = set_running(create(jobs, j, u, "steam_sync_full"), j)
      BY <1>3 DEF SyncBegins
    <2> DEFINE reg == create(jobs, j, u, "steam_sync_full")
    <2>3. j \in Jobs \ DOMAIN jobs /\ "steam_sync_full" \in Kinds
      BY ImportKindsAssumption DEF Unused
    <2>4. AddsJob(jobs, reg, j, u, "steam_sync_full")
      BY <1>1, <2>3, CreateAdds
    <2> HIDE DEF reg
    <2>5. TouchesOnly(reg, set_running(reg, j), j)
      BY <2>4, SetRunningTouches DEF AddsJob
    <2>6. /\ IsRegistry(jobs') /\ DOMAIN jobs' = DOMAIN jobs \cup {j}
          /\ \A k \in DOMAIN jobs : jobs'[k] = jobs[k]
          /\ jobs'[j].kind # "import_xlsx"
      <3>1. jobs' = set_running(reg, j)
        BY <2>2 DEF reg
      <3> QED BY <2>3, <2>4, <2>5, <3>1 DEF AddsJob, TouchesOnly, NewJob
    <2> QED BY <1>1, <2>1, <2>6, SameImportsInv
  <1>4. ASSUME NEW u \in Users, NEW j \in Jobs, CancelFlags(u, j)
        PROVE  IInv' /\ Stutters
    <2>1. UNCHANGED <<staged, queue, drains, fileOf, late>>
      BY <1>4 DEF CancelFlags
    <2>2. flagging' \in [Users -> SUBSET Jobs]
      BY <1>1, <1>4 DEF CancelFlags
    <2>3. /\ IsRegistry(jobs') /\ DOMAIN jobs' = DOMAIN jobs
          /\ \A i \in DOMAIN jobs : /\ jobs'[i].user = jobs[i].user
                                    /\ jobs'[i].kind = jobs[i].kind
                                    /\ jobs'[i].status = jobs[i].status
      BY <1>1, <1>4, RequestCancelFlags DEF CancelFlags
    <2> QED BY <2>1, <2>2, <2>3, SameImportsInv
  <1>5. ASSUME NEW j \in DOMAIN jobs, SyncEnds(j)
        PROVE  IInv' /\ Stutters
    <2>1. UNCHANGED <<staged, queue, drains, flagging, fileOf, late>> /\ ~IsImport(j)
      BY <1>5 DEF SyncEnds
    <2>2. TouchesOnly(jobs, jobs', j)
      BY <1>1, <1>5, MarkDoneTouches DEF SyncEnds, Messages
    <2> QED BY <1>1, <2>1, <2>2, SameImportsInv DEF TouchesOnly
  <1>6. CASE UNCHANGED vars
    BY <1>1, <1>6, SameImportsInv DEF vars
  <1> QED BY <1>2, <1>3, <1>4, <1>5, <1>6

\* A turn of a drain, or the end of a phase of its import.
LEMMA DrainStepInv ==
    ASSUME IInv, NEW d \in DOMAIN drains, DrainStep(d)
    PROVE  IInv' /\ (Stutters \/ Proceeds(drains[d].user))
  <1> DEFINE j == drains[d].job
  <1>1. /\ IsRegistry(jobs) /\ late \in [Jobs -> 0..MaxCandidates]
        /\ drains \in [DOMAIN drains -> DrainRecords]
        /\ \A i \in Jobs : OverIfLate(jobs, late[i], i)
    BY DEF IInv, TypeOK, LateIsOver
  <1>2. drains[d].phase # "scheduled" =>
          j \in DOMAIN jobs /\ Running(jobs, j) /\ late[j] = 0 /\ j \in Jobs
    <2>1. drains[d].phase # "scheduled" => j \in DOMAIN jobs /\ Running(jobs, j)
      BY DEF IInv, DrainsWork, WorksOn
    <2> QED BY <1>1, <2>1 DEF OverIfLate, Running, IsRegistry
  <1>3. CASE DrainBegins(d)
    <2>1. drains[d].phase = "scheduled" /\ DrainOn(d, jobs) /\ UNCHANGED late
      BY <1>3 DEF DrainBegins
    <2>2. Freed(jobs, d)
      BY <2>1, BeginnerFreed
    <2> QED BY <1>1, <2>1, <2>2, ImportEndsInv
  <1>4. CASE \/ Parsed(d)
             \/ /\ drains[d].phase = "writing" /\ drains[d].left > 0
                /\ drains' = [drains EXCEPT ![d].left = @ - 1]
                /\ UNCHANGED <<jobs, staged, queue, flagging, fileOf, late>>
    <2>1. UNCHANGED <<jobs, staged, queue, flagging, fileOf, late>>
      BY <1>4 DEF Parsed
    <2>2. /\ DOMAIN drains' = DOMAIN drains
          /\ \A e \in DOMAIN drains \ {d} : drains'[e] = drains[e]
          /\ drains'[d] \in DrainRecords
          /\ drains'[d].user = drains[d].user /\ drains'[d].job = drains[d].job
          /\ drains[d].phase # "scheduled" /\ drains'[d].phase # "scheduled"
      <3>1. drains[d] \in DrainRecords
        BY <1>1
      <3>2. CASE Parsed(d)
        <4>1. PICK n \in 0..MaxCandidates :
                drains' = [drains EXCEPT ![d].phase = "writing", ![d].left = n]
          BY <3>2 DEF Parsed
        <4>2. drains'[d] = [drains[d] EXCEPT !.phase = "writing", !.left = n]
          BY <4>1
        <4> QED BY <3>1, <3>2, <4>1, <4>2 DEF Parsed, DrainRecords, Phases
      <3>3. CASE /\ drains[d].phase = "writing" /\ drains[d].left > 0
                 /\ drains' = [drains EXCEPT ![d].left = @ - 1]
        <4>1. drains'[d] = [drains[d] EXCEPT !.left = drains[d].left - 1]
          BY <3>3
        <4>2. drains[d].left - 1 \in 0..MaxCandidates
          BY <3>1, <3>3, ImportBoundsAssumption DEF DrainRecords
        <4> QED BY <3>1, <3>3, <4>1, <4>2 DEF DrainRecords, Phases
      <3> QED BY <1>4, <3>2, <3>3
    <2>3. TypeOK'
      <3>1. drains' = [e \in DOMAIN drains |-> drains'[e]]
        BY <1>1, <1>4 DEF Parsed
      <3>2. \A e \in DOMAIN drains : drains'[e] \in DrainRecords
        BY <1>1, <2>2
      <3>3. drains' \in [DOMAIN drains' -> DrainRecords]
        BY <3>1, <3>2
      <3> QED BY <2>1, <2>2, <3>3 DEF IInv, TypeOK
    <2>4. OneDrain'
      BY <2>2 DEF IInv, OneDrain
    <2>5. DrainsWork'
      BY <2>1, <2>2 DEF IInv, DrainsWork, WorksOn
    <2>6. RunningHaveDrain'
      BY <2>1, <2>2 DEF IInv, RunningHaveDrain
    <2> QED BY <2>1, <2>3, <2>4, <2>5, <2>6
         DEF IInv, QueuesHold, FilesApart, UploadImportedOnce, LateIsOver, Stutters, Line, Turn
  <1>5. CASE WriteOne(d) /\ jobs[j].cancel_requested
    <2> DEFINE reg == mark_failed(jobs, j, "cancelled")
    <2>1. /\ drains[d].phase = "writing" /\ drains[d].left > 0
          /\ late' = [late EXCEPT ![j] = @ + 1]
          /\ ImportEnds(d, reg)
      BY <1>5 DEF WriteOne, on_progress_raises
    <2>2. TouchesOnly(jobs, reg, j) /\ reg[j].status = "failed"
      BY <1>1, <1>2, <2>1, MarkFailedTouches DEF Errors
    <2> HIDE DEF reg
    <2>3. Freed(reg, d)
      BY <2>1, <2>2, WorkerFreed DEF is_terminal
    <2>4. late' \in [Jobs -> 0..MaxCandidates]
      <3>1. drains[d].left \in 0..MaxCandidates
        BY <1>1 DEF DrainRecords
      <3>2. late[j] + 1 \in 0..MaxCandidates
        BY <1>2, <2>1, <3>1, ImportBoundsAssumption
      <3> QED BY <1>1, <2>1, <3>2
    <2>5. \A i \in Jobs : OverIfLate(reg, late'[i], i)
      <3>1. OverIfLate(reg, late'[j], j)
        BY <1>1, <1>2, <2>1, <2>2 DEF OverIfLate, TouchesOnly, Running
      <3>2. \A i \in Jobs \ {j} : OverIfLate(reg, late'[i], i)
        BY <1>1, <2>1, <2>2 DEF OverIfLate, TouchesOnly
      <3> QED BY <3>1, <3>2
    <2> QED BY <2>1, <2>3, <2>4, <2>5, ImportEndsInv
  <1>6. CASE WriteOne(d) /\ ~jobs[j].cancel_requested
    <2>1. late' = late
      <3>1. late' = [late EXCEPT ![j] = @ + 0] /\ drains[d].phase # "scheduled"
        BY <1>6 DEF WriteOne
      <3> QED BY <1>1, <1>2, <3>1
    <2> QED BY <1>4, <1>6, <2>1 DEF WriteOne, on_progress_raises
  <1>7. CASE AllWritten(d) \/ ImportFails(d)
    <2>1. PICK reg : /\ reg = mark_done(jobs, j, "result") \/ reg = mark_failed(jobs, j, "failed")
                     /\ ImportEnds(d, reg)
                     /\ drains[d].phase # "scheduled" /\ UNCHANGED late
      BY <1>7 DEF AllWritten, ImportFails, Failure
    <2>2. TouchesOnly(jobs, reg, j) /\ is_terminal(reg[j])
      BY <1>1, <1>2, <2>1, MarkDoneTouches, MarkFailedTouches DEF Messages, Errors, is_terminal
    <2>3. Freed(reg, d)
      BY <2>1, <2>2, WorkerFreed
    <2>4. \A i \in Jobs : OverIfLate(reg, late[i], i)
      BY <1>1, <1>2, <2>1, <2>2 DEF OverIfLate, TouchesOnly
    <2> QED BY <1>1, <2>1, <2>3, <2>4, ImportEndsInv
  <1> QED BY <1>3, <1>4, <1>5, <1>6, <1>7 DEF DrainStep

-----------------------------------------------------------------------------
(* The invariant *)

LEMMA InitInv == Init => IInv
  <1> SUFFICES ASSUME Init
               PROVE  IInv
    OBVIOUS
  <1>1. /\ IsRegistry(jobs) /\ DOMAIN jobs = {} /\ DOMAIN staged = {}
        /\ DOMAIN drains = {} /\ DOMAIN fileOf = {}
    BY EmptyIsRegistry DEF Init, Nothing
  <1>2. TypeOK
    <2>1. /\ queue \in [Users -> Seq([job : DOMAIN jobs, file : Tokens])]
          /\ flagging \in [Users -> SUBSET Jobs]
          /\ late \in [Jobs -> 0..MaxCandidates]
      BY ImportBoundsAssumption DEF Init
    <2>2. /\ staged \in [DOMAIN staged -> Users]
          /\ drains \in [DOMAIN drains -> DrainRecords]
          /\ fileOf \in [DOMAIN fileOf -> Tokens]
      BY <1>1 DEF Init, Nothing
    <2> QED BY <1>1, <2>1, <2>2 DEF TypeOK
  <1>3. QueuesHold
    BY <1>1 DEF Init, QueuesHold, Holds, Distinct, JobIds, Waiting
  <1>4. OneDrain /\ DrainsWork /\ RunningHaveDrain /\ FilesApart
    BY <1>1 DEF OneDrain, DrainsWork, RunningHaveDrain, FilesApart, UploadImportedOnce
  <1>5. LateIsOver
    BY DEF Init, LateIsOver, OverIfLate
  <1> QED BY <1>2, <1>3, <1>4, <1>5 DEF IInv

\* A restart leaves what the server began with.
LEMMA RestartInv == Restart => IInv'
  <1>1. Restart => Init'
    BY DEF Restart, Init
  <1> QED BY <1>1, InitInv, PTL

LEMMA NextInv == IInv /\ [Next]_vars => IInv'
  <1> SUFFICES ASSUME IInv, [Next]_vars
               PROVE  IInv'
    OBVIOUS
  <1>1. ASSUME NEW u \in Users, Upload(u) PROVE IInv'
    BY <1>1, UploadInv
  <1>2. ASSUME NEW u \in Users, NEW t \in Tokens, Process(u, t) PROVE IInv'
    BY <1>2, ProcessInv
  <1>3. ASSUME NEW u \in Users, NEW j \in Jobs, CancelQueued(u, j) PROVE IInv'
    BY <1>3, CancelQueuedInv
  <1>4. CASE \/ \E u \in Users : \/ CancelLists(u) \/ SyncBegins(u)
                                 \/ \E j \in Jobs : CancelFlags(u, j)
             \/ \E j \in DOMAIN jobs : SyncEnds(j)
             \/ UNCHANGED vars
    BY <1>4, BesideInv
  <1>5. ASSUME NEW d \in DOMAIN drains, DrainStep(d) PROVE IInv'
    BY <1>5, DrainStepInv
  <1>6. CASE Restart
    BY <1>6, RestartInv
  <1> QED BY <1>1, <1>2, <1>3, <1>4, <1>5, <1>6 DEF Next, Serve

LEMMA InductiveInvariant == Spec => []IInv
  BY InitInv, NextInv, PTL DEF Spec

-----------------------------------------------------------------------------
(* What it gives *)

\* The registry, the staged uploads, the queues and the drains keep their types
\* through every upload, cancel, failure and restart.
THEOREM TypeCorrect == Spec => []TypeOK
  <1>1. IInv => TypeOK
    BY DEF IInv
  <1> QED BY <1>1, InductiveInvariant, PTL

\* However many files, users and jobs there are, a confirmed file is one job's
\* (jobs.py:57-61): a token leaves the staged uploads when it gets a job.
THEOREM ImportedOnce == Spec => []UploadImportedOnce
  <1>1. IInv => UploadImportedOnce
    BY DEF IInv, FilesApart
  <1> QED BY <1>1, InductiveInvariant, PTL

\* Each queued import is in one entry of its user's queue, and a queue has no
\* other entries (jobs.py:92-133).
THEOREM QueueIsExact == Spec => []QueuedExactly
  <1>1. ASSUME IInv, NEW u \in Users, NEW j \in DOMAIN jobs
        PROVE  Cardinality({i \in DOMAIN queue[u] : queue[u][i].job = j})
                 = IF jobs[j].user = u /\ IsImport(j) /\ jobs[j].status = "queued" THEN 1 ELSE 0
    <2> DEFINE E == {i \in DOMAIN queue[u] : queue[u][i].job = j}
    <2>1. Distinct(queue[u]) /\ JobIds(queue[u]) = Waiting(jobs, u)
      BY <1>1 DEF IInv, QueuesHold, Holds
    <2>2. CASE jobs[j].user = u /\ IsImport(j) /\ jobs[j].status = "queued"
      <3>1. j \in JobIds(queue[u])
        BY <2>1, <2>2 DEF Waiting, Queued, IsImport
      <3>2. PICK i \in DOMAIN queue[u] : queue[u][i].job = j
        BY <3>1 DEF JobIds
      <3>3. E = {i}
        BY <2>1, <3>2 DEF Distinct
      <3> QED BY <2>2, <3>3, FS_Singleton
    <2>3. CASE ~(jobs[j].user = u /\ IsImport(j) /\ jobs[j].status = "queued")
      <3>1. E = {}
        BY <2>1, <2>3 DEF Waiting, Queued, IsImport, JobIds
      <3> QED BY <2>3, <3>1, FS_EmptySet
    <2> QED BY <2>2, <2>3
  <1>2. IInv => QueuedExactly
    BY <1>1 DEF QueuedExactly
  <1> QED BY <1>2, InductiveInvariant, PTL

\* An import shown as running is worked on by a drain, and a drain works on no
\* other (pages_import.py:130-132, 171-185).
THEOREM RunningIsWorkedOn == Spec => []RunningHasDrain
  <1>1. ASSUME IInv, NEW j \in DOMAIN jobs, NEW d \in DOMAIN drains, drains[d].job = j
        PROVE  Running(jobs, j)
    <2>1. WorksOn(jobs, drains[d])
      BY <1>1 DEF IInv, DrainsWork
    <2> QED BY <1>1, <2>1, ImportBoundsAssumption DEF WorksOn, IInv, TypeOK, IsRegistry
  <1>2. IInv => RunningHasDrain
    BY <1>1 DEF RunningHasDrain, IInv, RunningHaveDrain, Running, IsImport
  <1> QED BY <1>2, InductiveInvariant, PTL

\* A flagged import adds one more candidate at most (importer.py:1384-1388): the
\* one that made it late ended it, so no job is late twice.
THEOREM CancelStops == Spec => []CancelStopsWriting
  <1>1. IInv => CancelStopsWriting
    BY DEF IInv, LateIsOver, OverIfLate, CancelStopsWriting
  <1> QED BY <1>1, InductiveInvariant, PTL

-----------------------------------------------------------------------------
(* The queue serves in turn *)

LEMMA ImportsSeen == IInv => Seen
  <1> SUFFICES ASSUME IInv
               PROVE  Seen
    OBVIOUS
  <1>1. \A u \in Users : RunningOf(jobs, u) = Imports(u, {"running"})
    BY DEF RunningOf, Running, Imports, IsImport
  <1>2. \A j \in DOMAIN jobs : jobs[j].user \in Users
    BY DEF IInv, TypeOK, IsRegistry, Job
  <1>3. Ended(jobs) = UNION {Imports(u, {"done", "failed"}) : u \in Users}
    BY <1>2 DEF Ended, is_terminal, Imports, IsImport
  <1> QED BY <1>1, <1>3 DEF Seen, Turn

LEMMA AskMaps ==
    ASSUME IInv, Seen, Seen', NEW u \in Users, NEW j \in Jobs, Asks(u, j)
    PROVE  Requests!Next
  <1>1. ~Requests!Known(j)
    <2>1. \A v \in Users : JobIds(queue[v]) = Waiting(jobs, v)
      BY DEF IInv, QueuesHold, Holds
    <2>2. \A v \in Users : \A i \in DOMAIN Line[v] : Line[v][i] \in JobIds(queue[v])
      BY DEF Line, JobsOf, JobIds
    <2>3. ~Requests!Waiting(j)
      BY <2>1, <2>2 DEF Requests!Waiting, Line, Asks, Waiting
    <2>4. j \notin Ended(jobs) /\ \A v \in Users : j \notin Turn[v]
      BY DEF Asks, Ended, Turn, RunningOf
    <2> QED BY <2>3, <2>4 DEF Requests!Known, Seen
  <1>2. Requests!Ask(u, j)
    BY <1>1 DEF Requests!Ask, Asks, Seen, Line
  <1> QED BY <1>2 DEF Requests!Next

LEMMA ProceedMaps ==
    ASSUME Seen, Seen', NEW u \in Users, Proceeds(u)
    PROVE  Requests!Next
  <1>1. Requests!Proceed(u)
    BY DEF Requests!Proceed, Proceeds, Seen, Line
  <1> QED BY <1>1 DEF Requests!Next

LEMMA WithdrawMaps ==
    ASSUME Seen, Seen', NEW u \in Users, NEW j \in Jobs, Withdraws(u, j)
    PROVE  Requests!Next
  <1>1. Requests!Withdraw(u, j)
    BY DEF Requests!Withdraw, Withdraws, Seen, Line, RemoveAt, Requests!RemoveAt
  <1> QED BY <1>1 DEF Requests!Next

LEMMA StutterMaps ==
    ASSUME Seen, Seen', Stutters
    PROVE  UNCHANGED Requests!requests
  BY DEF Requests!requests, Stutters, Seen, Line

\* Line by line, turn by turn, what the registry, the queue and the drains do is
\* what ImportRequests allows (jobs.py:92-133, pages_import.py:167-233): nobody is
\* overtaken, served twice or begun after a cancel, through every failure.
THEOREM QueueServesInTurn == Spec => ServedInTurn
  <1>1. ASSUME Init
        PROVE  Requests!Init
    <2>1. IInv /\ DOMAIN jobs = {}
      BY <1>1, InitInv, EmptyIsRegistry DEF Init
    <2>2. Line = [u \in Users |-> <<>>]
      BY <1>1 DEF Init, Line, JobsOf
    <2>3. Turn = [u \in Users |-> {}] /\ Ended(jobs) = {}
      BY <2>1 DEF Turn, RunningOf, Ended
    <2> QED BY <2>1, <2>2, <2>3, ImportsSeen DEF Requests!Init, Line, Seen
  <1>2. ASSUME IInv, [Next]_vars, Seen'
        PROVE  [Requests!Next]_Requests!requests
    <2>1. Seen
      BY <1>2, ImportsSeen
    <2>2. CASE Stutters
      BY <1>2, <2>1, <2>2, StutterMaps
    <2>3. ASSUME NEW u \in Users, Upload(u)
          PROVE  Stutters
      BY <1>2, <2>3, UploadInv
    <2>4. ASSUME NEW u \in Users, NEW t \in Tokens, Process(u, t)
          PROVE  Requests!Next
      BY <1>2, <2>1, <2>4, ProcessInv, AskMaps
    <2>5. ASSUME NEW u \in Users, NEW j \in Jobs, CancelQueued(u, j)
          PROVE  Requests!Next
      BY <1>2, <2>1, <2>5, CancelQueuedInv, WithdrawMaps
    <2>6. CASE \/ \E u \in Users : \/ CancelLists(u) \/ SyncBegins(u)
                                   \/ \E j \in Jobs : CancelFlags(u, j)
               \/ \E j \in DOMAIN jobs : SyncEnds(j)
               \/ UNCHANGED vars
      BY <1>2, <2>2, <2>6, BesideInv
    <2>7. ASSUME NEW d \in DOMAIN drains, DrainStep(d)
          PROVE  Stutters \/ Requests!Next
      <3>1. drains[d].user \in Users
        BY <1>2 DEF IInv, TypeOK, DrainRecords
      <3> QED BY <1>2, <2>1, <2>7, <3>1, DrainStepInv, ProceedMaps
    <2>8. CASE Restart
      <3>1. /\ DOMAIN jobs' = {} /\ queue' = [u \in Users |-> <<>>]
        BY <2>8, EmptyIsRegistry DEF Restart
      <3>2. Line' = [u \in Users |-> <<>>] /\ Turn' = [u \in Users |-> {}] /\ Ended(jobs') = {}
        BY <3>1 DEF Line, JobsOf, Turn, RunningOf, Ended
      <3>3. Requests!Forget
        BY <1>2, <3>2 DEF Requests!Forget, Line, Seen
      <3> QED BY <3>3 DEF Requests!Next
    <2> QED BY <1>2, <2>2, <2>3, <2>4, <2>5, <2>6, <2>7, <2>8 DEF Next, Serve
  <1>3. IInv' => Seen'
    BY ImportsSeen, PTL
  <1> QED BY <1>1, <1>2, <1>3, InductiveInvariant, PTL DEF Spec, ServedInTurn, Requests!Spec
=============================================================================
