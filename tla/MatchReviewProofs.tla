--------------------------- MODULE MatchReviewProofs ---------------------------
(***************************************************************************)
(* Proofs about MatchReview for every library, every set of titles, every  *)
(* score and any number of scans that meet.  IInv is the type invariant    *)
(* with the domains it takes for granted: that completions and candidates  *)
(* point at entries there are is part of it, and is what a merge beside a  *)
(* scan could break.                                                       *)
(***************************************************************************)
EXTENDS MatchReview, TLAPS

IInv == TypeOK /\ scan = [k \in Scanners |-> scan[k]] /\ cand = [p \in DOMAIN cand |-> cand[p]]

-----------------------------------------------------------------------------
(* Steps of the scans *)

\* A scan reads candidates and releases there are (match_review.py:446-492).
LEMMA ScanReadsPairs ==
    ASSUME IInv, NEW k \in Scanners, NEW u \in Users, ScanBegins(k, u)
    PROVE  IInv'
  <1> DEFINE s == [user |-> u, known |-> {p \in DOMAIN cand : p[1] \in Mine(u)},
                   pending |-> PendingOf(Mine(u)), found |-> Wanted(u)]
  <1>1. DOMAIN cand \subseteq Pairs
    BY DEF IInv, TypeOK, Pairs
  <1>2. s.user \in Users /\ s.known \subseteq Pairs /\ s.found \subseteq Pairs
    BY <1>1 DEF Wanted
  <1>3. scan' = [scan EXCEPT ![k] = s]
    BY DEF ScanBegins
  <1> HIDE DEF s
  <1>4. /\ scan' = [i \in Scanners |-> scan'[i]]
        /\ \A i \in Scanners : scan'[i] = IF i = k THEN s ELSE scan[i]
    BY <1>3 DEF IInv
  <1>5. UNCHANGED <<owner, title, held, cand, at, merging, acts>>
    BY DEF ScanBegins
  <1>6. TypeOK'
    BY <1>2, <1>4, <1>5 DEF IInv, TypeOK, Live
  <1> QED BY <1>4, <1>5, <1>6 DEF IInv

\* A commit adds rows of entries there are, the foreign key sees to it, and drops
\* others (match_review.py:493-512).
LEMMA ScanCommitsPairs ==
    ASSUME IInv, NEW k \in Scanners, ScanEnds(k)
    PROVE  IInv'
  <1>1. /\ scan' = [i \in Scanners |-> scan'[i]]
        /\ \A i \in Scanners : scan'[i] = IF i = k THEN Idle ELSE scan[i]
        /\ UNCHANGED <<owner, title, held, at, merging, acts>>
        /\ scan[k] # Idle
    BY DEF ScanEnds, ScanCommits, ScanFails, IInv
  <1>2. /\ cand' = [p \in DOMAIN cand' |-> cand'[p]]
        /\ DOMAIN cand' \subseteq Live \X Synced
        /\ \A p \in DOMAIN cand' : cand'[p] \in {"pending", "dismissed"}
    <2>1. CASE ScanCommits(k)
      <3>1. /\ cand' = [p \in (DOMAIN cand \ Stale(k)) \cup New(k) |->
                          IF p \in New(k) THEN "pending" ELSE cand[p]]
            /\ \A p \in New(k) : p[1] \in Live
        BY <2>1 DEF ScanCommits
      <3>2. New(k) \subseteq Pairs
        BY <1>1 DEF New, IInv, TypeOK
      <3>3. New(k) \subseteq Live \X Synced
        BY <3>1, <3>2 DEF Pairs
      <3> QED BY <3>1, <3>3 DEF IInv, TypeOK
    <2>2. CASE ScanFails(k)
      BY <2>2 DEF ScanFails, IInv, TypeOK
    <2> QED BY <2>1, <2>2 DEF ScanEnds
  <1>3. TypeOK'
    BY <1>1, <1>2 DEF IInv, TypeOK, Live
  <1> QED BY <1>1, <1>2, <1>3 DEF IInv

-----------------------------------------------------------------------------
(* Steps that take entries away *)

\* A merge moves what hangs on the manual entry before it is deleted
\* (match_review.py:540-580).
LEMMA MergeKeepsReferences ==
    ASSUME IInv, MergeCommits
    PROVE  /\ IInv'
           /\ \A c \in Completions : /\ at'[c] \in DOMAIN owner' \cup held'
                                     /\ at[c] \in Live /\ at'[c] # at[c] => at'[c][1] = owner[at[c]]
  <1> DEFINE m == merging[1]
             e == <<owner[m], merging[2]>>
  <1>1. /\ merging \in Live \X Synced /\ m \in Live /\ e \in held
        /\ owner' = [x \in Live \ {m} |-> owner[x]]
        /\ title' = [x \in Live \ {m} |-> title[x]]
        /\ cand' = WithoutEntry(m, merging[2])
        /\ at' = [c \in Completions |-> IF at[c] = m THEN e ELSE at[c]]
        /\ merging' = <<>>
        /\ UNCHANGED <<held, scan, acts>>
    BY DEF MergeCommits, IInv, TypeOK, Live, Without, Moved
  <1> HIDE DEF m, e
  <1>2. DOMAIN owner' = Live \ {m} /\ owner' \in [Live \ {m} -> Users] /\ title' \in [Live \ {m} -> Titles]
    BY <1>1 DEF IInv, TypeOK
  <1>3. /\ cand' = [p \in DOMAIN cand' |-> cand'[p]]
        /\ DOMAIN cand' = {q \in DOMAIN cand : q[1] # m}
        /\ \A p \in DOMAIN cand' : cand'[p] \in {"pending", "dismissed"}
    BY <1>1 DEF WithoutEntry, IInv, TypeOK
  <1>4. DOMAIN cand' \subseteq (Live \ {m}) \X Synced
    BY <1>3 DEF IInv, TypeOK
  <1>5. at' \in [Completions -> (Live \ {m}) \cup held]
    BY <1>1 DEF IInv, TypeOK
  <1>6. TypeOK'
    BY <1>1, <1>2, <1>3, <1>4, <1>5 DEF IInv, TypeOK, Live
  <1>7. ASSUME NEW c \in Completions, at[c] \in Live, at'[c] # at[c]
        PROVE  at'[c][1] = owner[at[c]]
    <2>1. at[c] = m /\ at'[c] = e
      BY <1>1, <1>7
    <2> QED BY <2>1 DEF e
  <1> QED BY <1>1, <1>2, <1>3, <1>5, <1>6, <1>7 DEF IInv

LEMMA RemoveKeepsReferences ==
    ASSUME IInv, \/ \E m \in Live : RemoveManual(m)
                 \/ \E e \in held : RemoveSynced(e)
    PROVE  IInv' /\ at' = at
  <1>1. ASSUME NEW m \in Live, RemoveManual(m)
        PROVE  IInv' /\ at' = at
    <2>1. /\ owner' = [x \in Live \ {m} |-> owner[x]]
          /\ title' = [x \in Live \ {m} |-> title[x]]
          /\ cand' = [p \in {q \in DOMAIN cand : q[1] # m} |-> cand[p]]
          /\ UNCHANGED <<held, at, scan, merging>>
          /\ acts' \in 0..MaxActs
          /\ \A c \in Completions : at[c] # m
      BY <1>1, MatchAssumption DEF RemoveManual, Free, Without, Act, IInv, TypeOK, Live
    <2>2. DOMAIN owner' = Live \ {m} /\ owner' \in [Live \ {m} -> Users] /\ title' \in [Live \ {m} -> Titles]
      BY <2>1 DEF IInv, TypeOK
    <2>3. DOMAIN cand' \subseteq (Live \ {m}) \X Synced /\ \A p \in DOMAIN cand' : cand'[p] \in {"pending", "dismissed"}
      BY <2>1 DEF IInv, TypeOK
    <2>4. at' \in [Completions -> (Live \ {m}) \cup held]
      BY <2>1 DEF IInv, TypeOK
    <2>5. TypeOK'
      BY <2>1, <2>2, <2>3, <2>4 DEF IInv, TypeOK, Live
    <2> QED BY <2>1, <2>5 DEF IInv
  <1>2. ASSUME NEW e \in held, RemoveSynced(e)
        PROVE  IInv' /\ at' = at
    BY <1>2, MatchAssumption DEF RemoveSynced, Free, Act, IInv, TypeOK, Live
  <1> QED BY <1>1, <1>2

-----------------------------------------------------------------------------
(* The others *)

LEMMA DecidesOrEdits ==
    ASSUME IInv, \/ \E p \in DOMAIN cand : MergeReads(p) \/ Skip(p) \/ Clear(p)
                 \/ MergeFails
                 \/ \E u \in Users, s \in Synced : SyncBrings(u, s)
                 \/ \E m \in Live : \E t \in Titles : Retitle(m, t)
                 \/ Restart \/ UNCHANGED vars
    PROVE  IInv' /\ at' = at
  <1>1. ASSUME NEW p \in DOMAIN cand, MergeReads(p)
        PROVE  IInv' /\ at' = at
    BY <1>1, MatchAssumption DEF MergeReads, Act, IInv, TypeOK, Live, Pairs
  <1>2. ASSUME NEW p \in DOMAIN cand, Skip(p)
        PROVE  IInv' /\ at' = at
    <2>1. /\ cand' = [cand EXCEPT ![p] = "dismissed"]
          /\ acts' \in 0..MaxActs
          /\ UNCHANGED <<owner, title, held, at, scan, merging>>
      BY <1>2, MatchAssumption DEF Skip, Act, IInv, TypeOK
    <2>2. /\ DOMAIN cand' = DOMAIN cand
          /\ cand' = [q \in DOMAIN cand' |-> cand'[q]]
          /\ \A q \in DOMAIN cand : cand'[q] \in {"pending", "dismissed"}
      BY <2>1 DEF IInv, TypeOK
    <2>3. TypeOK'
      BY <2>1, <2>2 DEF IInv, TypeOK, Live
    <2> QED BY <2>1, <2>2, <2>3 DEF IInv
  <1>3. ASSUME NEW p \in DOMAIN cand, Clear(p)
        PROVE  IInv' /\ at' = at
    BY <1>3, MatchAssumption DEF Clear, Without, Act, IInv, TypeOK, Live
  <1>4. CASE MergeFails
    BY <1>4 DEF MergeFails, IInv, TypeOK, Live
  <1>5. ASSUME NEW u \in Users, NEW s \in Synced, SyncBrings(u, s)
        PROVE  IInv' /\ at' = at
    BY <1>5, MatchAssumption DEF SyncBrings, Act, IInv, TypeOK, Live
  <1>6. ASSUME NEW m \in Live, NEW t \in Titles, Retitle(m, t)
        PROVE  IInv' /\ at' = at
    BY <1>6, MatchAssumption DEF Retitle, Act, IInv, TypeOK, Live
  <1>7. CASE Restart
    BY <1>7, MatchAssumption DEF Restart, Act, IInv, TypeOK, Live
  <1>8. CASE UNCHANGED vars
    BY <1>8 DEF vars, IInv, TypeOK, Live
  <1> QED BY <1>1, <1>2, <1>3, <1>4, <1>5, <1>6, <1>7, <1>8

LEMMA InitInv == Init => IInv
  BY MatchAssumption DEF Init, IInv, TypeOK, Live

\* Every step, and where it leaves the completions.
LEMMA StepInv ==
    ASSUME IInv, [Next]_vars
    PROVE  /\ IInv'
           /\ at' = at \/ MergeCommits
  <1>1. CASE \E k \in Scanners : \E u \in Users : ScanBegins(k, u)
    BY <1>1, ScanReadsPairs DEF ScanBegins
  <1>2. CASE \E k \in Scanners : ScanEnds(k)
    BY <1>2, ScanCommitsPairs DEF ScanEnds, ScanCommits, ScanFails
  <1>3. CASE MergeCommits
    BY <1>3, MergeKeepsReferences
  <1>4. CASE \/ \E m \in Live : RemoveManual(m)
             \/ \E e \in held : RemoveSynced(e)
    BY <1>4, RemoveKeepsReferences
  <1>5. CASE \/ \E p \in DOMAIN cand : MergeReads(p) \/ Skip(p) \/ Clear(p)
             \/ MergeFails
             \/ \E u \in Users, s \in Synced : SyncBrings(u, s)
             \/ \E m \in Live : \E t \in Titles : Retitle(m, t)
             \/ Restart \/ UNCHANGED vars
    BY <1>5, DecidesOrEdits
  <1> QED BY <1>1, <1>2, <1>3, <1>4, <1>5 DEF Next

LEMMA InductiveInvariant == Spec => []IInv
  <1>1. IInv /\ [Next]_vars => IInv'
    BY StepInv
  <1> QED BY <1>1, InitInv, PTL DEF Spec

-----------------------------------------------------------------------------
(* What it gives *)

\* No row of the review and no completion points at an entry that is gone
\* (models.py), whatever scans, merges and removals meet.
THEOREM TypeCorrect == Spec => []TypeOK
  <1>1. IInv => TypeOK
    BY DEF IInv
  <1> QED BY <1>1, InductiveInvariant, PTL

\* A merge loses no completion and gives none to another user
\* (match_review.py:557): nothing but a merge moves one.
THEOREM MergesKeepCompletions == Spec => CompletionsKept
  <1> DEFINE Kept == \A c \in Completions :
                        /\ at'[c] \in DOMAIN owner' \cup held'
                        /\ at[c] \in Live /\ at'[c] # at[c] => at'[c][1] = owner[at[c]]
  <1>1. IInv /\ [Next]_vars => [Kept]_vars
    <2> SUFFICES ASSUME IInv, [Next]_vars
                 PROVE  Kept
      OBVIOUS
    <2>1. CASE MergeCommits
      BY <2>1, MergeKeepsReferences
    <2>2. CASE at' = at
      <3>1. IInv'
        BY StepInv
      <3>2. at' \in [Completions -> DOMAIN owner' \cup held']
        BY <3>1 DEF IInv, TypeOK, Live
      <3> QED BY <2>2, <3>2
    <2> QED BY <2>1, <2>2, StepInv
  <1> QED BY <1>1, InductiveInvariant, PTL DEF Spec, CompletionsKept

\* A refusal on record stays one (match_review.py:493), whatever scan or merge
\* commits after it: a scan adds only rows that are not there, and to delete one it
\* read as pending is all else it may do.
THEOREM RefusalsStand == Spec => RefusalStands
  <1> DEFINE Stands == \A p \in DOMAIN cand \cap DOMAIN cand' :
                          cand[p] = "dismissed" => cand'[p] = "dismissed"
  <1>1. [Next]_vars => [Stands]_vars
    <2> SUFFICES ASSUME [Next]_vars, NEW p \in DOMAIN cand, p \in DOMAIN cand', cand[p] = "dismissed"
                 PROVE  cand'[p] = "dismissed"
      OBVIOUS
    <2>1. ASSUME NEW k \in Scanners, ScanCommits(k)
          PROVE  cand'[p] = "dismissed"
      <3>1. p \notin New(k)
        BY <2>1 DEF ScanCommits
      <3> QED BY <2>1, <3>1 DEF ScanCommits
    <2>2. CASE MergeCommits
      BY <2>2 DEF MergeCommits, WithoutEntry
    <2>3. ASSUME NEW q \in DOMAIN cand, Skip(q) \/ Clear(q)
          PROVE  cand'[p] = "dismissed"
      BY <2>3 DEF Skip, Clear, Without
    <2>4. ASSUME NEW m \in Live, RemoveManual(m)
          PROVE  cand'[p] = "dismissed"
      BY <2>4 DEF RemoveManual
    <2>5. CASE cand' = cand
      BY <2>5
    <2> QED BY <2>1, <2>2, <2>3, <2>4, <2>5
         DEF Next, ScanEnds, ScanFails, ScanBegins, MergeReads, MergeFails, SyncBrings,
             RemoveSynced, Retitle, Restart, vars
  <1> QED BY <1>1, PTL DEF Spec, RefusalStands
=============================================================================
