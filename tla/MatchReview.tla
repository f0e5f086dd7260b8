------------------------------ MODULE MatchReview ------------------------------
(***************************************************************************)
(* Duplicate review: backend/match_review.py (scan_for_matches, merge,     *)
(* dismiss) and its handlers in backend/pages_match_review.py, over the    *)
(* tables sync_match_candidates, user_library and completions.             *)
(*                                                                         *)
(* A scan reads the library and the candidates, scores for seconds, and    *)
(* commits rows by what it read.  Two scans may run: one a job of its own, *)
(* one at the end of a sync, or after a store refresh.  Title comparison   *)
(* (_score, the platform and collection tests) is the constant Score.      *)
(***************************************************************************)
EXTENDS Integers, FiniteSets, FiniteSetsExt

CONSTANTS Users, NoUser,
          Manual,      \* ids of entries added by hand
          Owners,      \* whose they may be: a set of functions
          Synced,      \* ids of Steam and PSN releases, in the order a query lists them
          Completions,
          Titles,      \* titles the user gives a manual entry
          Score,       \* [Titles \X Synced -> 0..100], 0 where platform or collection differ
          Yearly,      \* pairs that match exactly but for a trailing (YYYY)
          SameId,      \* pairs of a manual entry and a release with its external id
          MIN, HIGH,
          Scanners,
          MaxActs      \* bound: what users and syncs do to the library and the candidates

ASSUME MatchAssumption ==
    /\ NoUser \notin Users /\ Owners \subseteq [Manual -> Users] /\ Synced \subseteq Nat
    /\ Score \in [Titles \X Synced -> 0..100]
    /\ Yearly \subseteq Titles \X Synced /\ SameId \subseteq Manual \X Synced
    /\ MIN \in 1..100 /\ HIGH \in MIN..100 /\ MaxActs \in Nat

VARIABLES owner,   \* manual entries there are -> whose they are
          title,   \* manual entries there are -> title
          held,    \* entries a sync made: pairs of a user and a release
          cand,    \* sync_match_candidates: (manual entry, release) -> status
          at,      \* completions -> entry: a manual id, or a pair of held
          scan,    \* scanners -> scan under way: whose, what it read, what it found
          merging, \* a merge that has read its candidate: a pair, or <<>>
          acts

vars == <<owner, title, held, cand, at, scan, merging, acts>>

Live  == DOMAIN owner
Pairs == Manual \X Synced
Idle  == [user |-> NoUser]

TypeOK ==
    /\ Live \subseteq Manual /\ owner \in [Live -> Users] /\ title \in [Live -> Titles]
    /\ held \subseteq Users \X Synced
    /\ DOMAIN cand \subseteq Live \X Synced
    /\ \A p \in DOMAIN cand : cand[p] \in {"pending", "dismissed"}
    /\ at \in [Completions -> Live \cup held]
    /\ \A k \in Scanners : scan[k] # Idle =>
          scan[k].user \in Users /\ scan[k].known \subseteq Pairs /\ scan[k].found \subseteq Pairs
    /\ merging \in Pairs \cup {<<>>} /\ acts \in 0..MaxActs

\* Every manual entry may have been completed, and no release was synced yet.
Init ==
    /\ owner \in Owners /\ title \in [Manual -> Titles]
    /\ held = {} /\ cand = [p \in {} |-> "pending"]
    /\ at \in [Completions -> Manual]
    /\ scan = [k \in Scanners |-> Idle] /\ merging = <<>> /\ acts = 0

Act == acts < MaxActs /\ acts' = acts + 1

-----------------------------------------------------------------------------
(* scan_for_matches *)

\* The releases of S that a manual entry m with title t is proposed as.
First(S) == CHOOSE s \in S : \A x \in S : s <= x
Best(t, S) == {s \in S : \A x \in S : \/ Score[t, s] > Score[t, x]
                                     \/ (Score[t, s] = Score[t, x] /\ s <= x)}
Proposed(m, t, S) ==
    LET exact  == {s \in S : <<m, s>> \in SameId}
        scored == {s \in S : Score[t, s] >= MIN}
        high   == {s \in scored : Score[t, s] >= HIGH}
        several == IF Cardinality(high) # 1 THEN high
                   ELSE high \cup {s \in scored : <<t, s>> \in Yearly}
    IN  CASE exact # {} -> {First(exact)}
          [] exact = {} /\ Cardinality(several) >= 2 -> several
          [] OTHER -> Best(t, scored)

Mine(u)    == {m \in Live : owner[m] = u}
HeldBy(u)  == {s \in Synced : <<u, s>> \in held}
Wanted(u)  == {p \in Pairs : p[1] \in Mine(u) /\ p[2] \in Proposed(p[1], title[p[1]], HeldBy(u))}
PendingOf(M) == {p \in DOMAIN cand : p[1] \in M /\ cand[p] = "pending"}

ScanBegins(k, u) ==
    /\ scan[k] = Idle /\ Mine(u) # {}
    /\ scan' = [scan EXCEPT ![k] = [user |-> u, known |-> {p \in DOMAIN cand : p[1] \in Mine(u)},
                                    pending |-> PendingOf(Mine(u)), found |-> Wanted(u)]]
    /\ UNCHANGED <<owner, title, held, cand, at, merging, acts>>

\* Rows are added for what is new, and the pending ones that no longer qualify
\* deleted, by id: also one that was dismissed since.
New(k)   == scan[k].found \ scan[k].known

\* Mutant: what no longer qualifies stays.
StaleKept(k) == {}

Stale(k) == scan[k].pending \ scan[k].found

\* Mutant: everything found is pending, also what was refused.
ScanAsksAgain(k) ==
    /\ scan[k] # Idle
    /\ \A p \in scan[k].found : p[1] \in Live
    /\ cand' = [p \in (DOMAIN cand \ Stale(k)) \cup scan[k].found |->
                   IF p \in scan[k].found THEN "pending" ELSE cand[p]]
    /\ scan' = [scan EXCEPT ![k] = Idle]
    /\ UNCHANGED <<owner, title, held, at, merging, acts>>

\* A row that is there already, or whose entry is gone, is refused by the database.
ScanCommits(k) ==
    /\ scan[k] # Idle
    /\ New(k) \cap DOMAIN cand = {} /\ \A p \in New(k) : p[1] \in Live
    /\ cand' = [p \in (DOMAIN cand \ Stale(k)) \cup New(k) |->
                   IF p \in New(k) THEN "pending" ELSE cand[p]]
    /\ scan' = [scan EXCEPT ![k] = Idle]
    /\ UNCHANGED <<owner, title, held, at, merging, acts>>

ScanFails(k) ==
    /\ scan[k] # Idle
    /\ scan' = [scan EXCEPT ![k] = Idle]
    /\ UNCHANGED <<owner, title, held, cand, at, merging, acts>>

-----------------------------------------------------------------------------
(* The review page *)

\* merge_candidate.  The status is not asked for: a page may be old.
MergeReads(p) ==
    /\ merging = <<>> /\ p \in DOMAIN cand /\ Act
    /\ <<owner[p[1]], p[2]>> \in held
    /\ merging' = p
    /\ UNCHANGED <<owner, title, held, cand, at, scan>>

\* Mutant: completions go to any synced entry of the release.
MovedToFirst(m, e) == [c \in Completions |->
    IF at[c] = m THEN CHOOSE x \in held : x[2] = e[2] ELSE at[c]]

Moved(m, e) == [c \in Completions |-> IF at[c] = m THEN e ELSE at[c]]

\* Mutant: rows of the merged entry are left.
WithoutSiblings(m, s) ==
    [p \in DOMAIN cand |-> IF p[2] = s /\ cand[p] = "pending" THEN "dismissed" ELSE cand[p]]

\* Rows of the entry go with it; those of other entries for the same release,
\* whoever owns them, are dismissed.
WithoutEntry(m, s) ==
    [p \in {q \in DOMAIN cand : q[1] # m} |->
        IF p[2] = s /\ cand[p] = "pending" THEN "dismissed" ELSE cand[p]]

Without(f, m) == [x \in DOMAIN f \ {m} |-> f[x]]

MergeCommits ==
    /\ merging # <<>> /\ merging \in DOMAIN cand
    /\ LET m == merging[1]
           e == <<owner[m], merging[2]>>
       IN  /\ e \in held
           /\ at' = Moved(m, e)
           /\ cand' = WithoutEntry(m, merging[2])
           /\ owner' = Without(owner, m) /\ title' = Without(title, m)
    /\ merging' = <<>>
    /\ UNCHANGED <<held, scan, acts>>

\* The candidate or an entry is gone, or the database is locked.
MergeFails == /\ merging # <<>>
              /\ merging' = <<>>
              /\ UNCHANGED <<owner, title, held, cand, at, scan, acts>>

\* match_review_skip, whatever the status
Skip(p) == /\ p \in DOMAIN cand /\ Act
           /\ cand' = [cand EXCEPT ![p] = "dismissed"]
           /\ UNCHANGED <<owner, title, held, at, scan, merging>>

\* match_review_clear
Clear(p) == /\ p \in DOMAIN cand /\ cand[p] = "dismissed" /\ Act
            /\ cand' = Without(cand, p)
            /\ UNCHANGED <<owner, title, held, at, scan, merging>>

-----------------------------------------------------------------------------
(* The library beside it: a sync brings an entry; an entry without completions is *)
(* removed; a manual entry gets another title.                                    *)

SyncBrings(u, s) == /\ <<u, s>> \notin held /\ Act
                    /\ held' = held \cup {<<u, s>>}
                    /\ UNCHANGED <<owner, title, cand, at, scan, merging>>

Free(e) == \A c \in Completions : at[c] # e
RemoveSynced(e) == /\ e \in held /\ Free(e) /\ Act
                   /\ held' = held \ {e}
                   /\ UNCHANGED <<owner, title, cand, at, scan, merging>>
RemoveManual(m) == /\ m \in Live /\ Free(m) /\ Act
                   /\ owner' = Without(owner, m) /\ title' = Without(title, m)
                   /\ cand' = [p \in {q \in DOMAIN cand : q[1] # m} |-> cand[p]]
                   /\ UNCHANGED <<held, at, scan, merging>>

Retitle(m, t) == /\ m \in Live /\ t # title[m] /\ Act
                 /\ title' = [title EXCEPT ![m] = t]
                 /\ UNCHANGED <<owner, held, cand, at, scan, merging>>

Restart == /\ \/ merging # <<>>
              \/ \E k \in Scanners : scan[k] # Idle
           /\ Act
           /\ scan' = [k \in Scanners |-> Idle] /\ merging' = <<>>
           /\ UNCHANGED <<owner, title, held, cand, at>>

ScanEnds(k) == ScanCommits(k) \/ ScanFails(k)

Next ==
    \/ \E k \in Scanners : ScanEnds(k) \/ \E u \in Users : ScanBegins(k, u)
    \/ \E p \in DOMAIN cand : MergeReads(p) \/ Skip(p) \/ Clear(p)
    \/ MergeCommits \/ MergeFails
    \/ \E u \in Users, s \in Synced : SyncBrings(u, s)
    \/ \E e \in held : RemoveSynced(e)
    \/ \E m \in Live : RemoveManual(m) \/ \E t \in Titles : Retitle(m, t)
    \/ Restart

Spec == Init /\ [][Next]_vars

\* Every sync, and a button, starts a scan of its user; a scan ends, and the scans of
\* one user do not meet a locked database each time.
CommitsFor(u) == \E k \in Scanners : scan[k].user = u /\ ScanCommits(k)
Fairness == /\ \A u \in Users : /\ SF_vars(\E k \in Scanners : ScanBegins(k, u))
                                /\ SF_vars(CommitsFor(u))
            /\ \A k \in Scanners : WF_vars(ScanEnds(k))
FairSpec == Spec /\ Fairness

-----------------------------------------------------------------------------
(* Properties *)

\* A completion is always at an entry there is, of the user who logged it: merging
\* moves all of them before the manual entry, and what hangs on it, is deleted
\* (match_review.py:557).
CompletionsKept ==
    [][\A c \in Completions :
          /\ at'[c] \in DOMAIN owner' \cup held'
          /\ at[c] \in Live /\ at'[c] # at[c] => at'[c][1] = owner[at[c]]]_vars

\* "merged / dismissed - leave alone" (match_review.py:493): while a refusal is on
\* record, no scan, not even one that read the candidate as pending, asks again.
RefusalStands ==
    [][\A p \in DOMAIN cand \cap DOMAIN cand' :
          cand[p] = "dismissed" => cand'[p] = "dismissed"]_vars

\* Once the library rests, the review asks about the single best match of each manual
\* entry, or about all of several certain ones, whatever scans met or failed before
\* (match_review.py:463, :499).
Settled == \A u \in Users :
    PendingOf(Mine(u)) = {p \in Wanted(u) : p \notin DOMAIN cand \/ cand[p] = "pending"}
ReviewSettles == <>[]Settled
=============================================================================
