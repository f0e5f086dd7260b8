----------------------------- MODULE MCSyncJobs -----------------------------
(* TLC instances of SyncJobs. *)
EXTENDS SyncJobs, TLC

AllKinds == PrimaryKinds \cup FollowupKinds \cup LoneKinds

\* Job ids, users and chain ids are interchangeable (used by safety runs only).
Symmetry == Permutations(Jobs) \cup Permutations(Users) \cup Permutations(Chains)

\* A settled job is read by no action and its id may be handed out again, so two
\* states that differ only in settled jobs behave alike; they are still told
\* apart when a toast came twice, which ToldOnce is about.
Unsettled == {j \in DOMAIN jobs : ~Settled(jobs, task, j)}
View == <<[j \in Unsettled |-> <<jobs[j], told[j]>>], {j \in Jobs : Len(told[j]) > 1},
          task, chains, pauseDepth, worker>>

Enrichment == {"enrichment"}
NoWorkers  == {}

Syncs      == {"psn_sync", "steam_sync_full", "match_scan"}
PsnAndScan == {"psn_sync", "match_scan"}
PsnOnly    == {"psn_sync"}
=============================================================================
