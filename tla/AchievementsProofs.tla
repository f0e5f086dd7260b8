--------------------------- MODULE AchievementsProofs ---------------------------
(***************************************************************************)
(* What the gates of the achievement passes may rely on: the types of the  *)
(* tables for any number of users, and, for one user who does not play     *)
(* while a pass works, that what the gates take for current is current.    *)
(***************************************************************************)
EXTENDS Achievements, TLAPS

\* A set whose definitions were not asked for has some on file, and only Steam refuses.
AskedOK ==
    \A u \in Users, s \in Sets : Asked(u, s) =>
        /\ pass[u].asked.size = Never => filed[s] # Never
        /\ pass[u].asked.view = "refused" => s \in Steam

TInv == TypeOK /\ AskedOK

-----------------------------------------------------------------------------
(* Types *)

LEMMA Constants ==
    /\ Sets \subseteq Nat /\ Steam \subseteq Sets /\ Psn \subseteq Sets
    /\ \A s \in Sets : s \in Psn \/ s \in Steam
    /\ \A s \in Psn : s \notin Steam
    /\ MaxSize \in Nat /\ MaxSize > 0 /\ MaxPlays \in Nat /\ MaxActs \in Nat
    /\ PRIVATE_PROFILE_RUN \in Nat /\ PRIVATE_PROFILE_RUN > 0
  BY AchievementsAssumption DEF Sets

\* What the typed tables of a user's set are.
LEMMA Typed ==
    ASSUME TypeOK, NEW u \in Users, NEW s \in Sets
    PROVE  /\ <<u, s>> \in Pairs
           /\ size[s] \in 0..MaxSize /\ filed[s] \in Never..MaxSize
           /\ last[<<u, s>>] \in 0..MaxPlays /\ gained[<<u, s>>] \in 0..MaxSize
           /\ told[<<u, s>>] \in Told
           /\ size[s] \in Int /\ filed[s] \in Int /\ Never = -1
  <1>1. /\ <<u, s>> \in Pairs
        /\ size[s] \in 0..MaxSize /\ filed[s] \in Never..MaxSize
        /\ last[<<u, s>>] \in 0..MaxPlays /\ gained[<<u, s>>] \in 0..MaxSize
        /\ told[<<u, s>>] \in Told
    BY DEF TypeOK, Pairs
  <1> QED  BY <1>1, Constants DEF Never

\* A pass under way and what it was answered.
LEMMA PassTyped ==
    ASSUME TypeOK, NEW u \in Users, pass[u] # Idle
    PROVE  pass[u] \in Pass
  BY DEF TypeOK

LEMMA AnswerTyped ==
    ASSUME TypeOK, NEW u \in Users, NEW s \in Sets, Asked(u, s)
    PROVE  pass[u] \in Pass /\ pass[u].asked \in Answer
  BY PassTyped DEF Asked, Turn, Pass

\* A set has one turn at a time.
LEMMA OneTurn ==
    ASSUME TypeOK, NEW u \in Users, NEW s \in Sets, NEW t \in Sets, Turn(u, s), Turn(u, t)
    PROVE  s = t
  <1>1. s \in Nat /\ t \in Nat
    BY Constants
  <1>2. s <= t /\ t <= s
    BY DEF Turn
  <1> QED  BY <1>1, <1>2

\* What is defined is a number of achievements.
LEMMA DefinedTyped ==
    ASSUME TInv, NEW u \in Users, NEW s \in Sets, Asked(u, s)
    PROVE  Defined(u, s) \in 0..MaxSize
  <1>1. pass[u].asked \in Answer
    BY AnswerTyped DEF TInv
  <1>2. pass[u].asked.size \in Never..MaxSize
    BY <1>1 DEF Answer
  <1>3. filed[s] \in Never..MaxSize
    BY Typed DEF TInv
  <1>4. pass[u].asked.size = Never => filed[s] # Never
    BY DEF TInv, AskedOK
  <1> QED  BY <1>2, <1>3, <1>4, Constants DEF Defined, Never

\* A set is not asked for as it is while nothing of it is on file.
LEMMA AskedWhenFiled ==
    ASSUME TypeOK, NEW u \in Users, NEW s \in Sets,
           DefinitionsCurrent(s, Item(u, s)), ~Skipped(u, s)
    PROVE  filed[s] # Never
  BY Constants DEF DefinitionsCurrent, VersionCurrent, SchemaCurrent, Skipped

\* Going on from a set leaves a typed pass that has asked nothing.
LEMMA GoesOnTyped ==
    ASSUME TypeOK, NEW u \in Users, NEW s \in Sets, Turn(u, s),
           NEW read, read \in {Nothing} \cup [Pairs -> Told],
           NEW run \in 0..(PRIVATE_PROFILE_RUN - 1), GoesOn(u, s, read, run)
    PROVE  /\ pass' \in [Users -> {Idle} \cup Pass]
           /\ pass'[u].asked = Nothing
           /\ \A v \in Users : v # u => pass'[v] = pass[v]
  <1>1. pass[u] \in Pass
    BY PassTyped DEF Turn
  <1>2. pass \in [Users -> {Idle} \cup Pass]
    BY DEF TypeOK
  <1> DEFINE next == [todo |-> pass[u].todo \ {s}, run |-> run, asked |-> Nothing,
                      read |-> read, known |-> pass[u].known]
  <1>4. pass' = [pass EXCEPT ![u] = next]
    BY <1>2 DEF GoesOn
  <1>5. next \in Pass
    BY <1>1 DEF Pass
  <1> HIDE DEF next
  <1>6. next.asked = Nothing
    BY DEF next
  <1> QED  BY <1>2, <1>4, <1>5, <1>6

\* What was asked is kept by every step that leaves the passes and the definitions alone.
LEMMA AskedStays ==
    ASSUME AskedOK, UNCHANGED <<pass, filed>>
    PROVE  AskedOK'
  BY DEF AskedOK, Asked, Turn

\* And by one that ends a turn, if what it files is a number.
LEMMA AskedAfterTurn ==
    ASSUME TInv, NEW u \in Users, pass' \in [Users -> {Idle} \cup Pass],
           pass'[u] = Idle \/ pass'[u].asked = Nothing,
           \A v \in Users : v # u => pass'[v] = pass[v],
           \A s \in Sets : filed[s] # Never => filed'[s] # Never
    PROVE  AskedOK'
  BY DEF TInv, AskedOK, Asked, Turn

LEMMA InitTyped ==
    ASSUME Init
    PROVE  TInv
  <1>1. TypeOK
    BY Constants DEF Init, TypeOK, Pairs, Told, Untold, NoRows, Never
  <1>2. AskedOK
    BY DEF Init, AskedOK, Asked, Turn
  <1> QED  BY <1>1, <1>2 DEF TInv

LEMMA PlayTyped ==
    ASSUME TInv, NEW u \in Users, NEW s \in Sets, Play(u, s)
    PROVE  TInv'
  <1>1. last' \in [Pairs -> 0..MaxPlays]
    BY Typed, Constants DEF TInv, TypeOK, Play
  <1>2. gained' \in [Pairs -> 0..MaxSize]
    <2>1. PICK n \in {0, 1} : gained[<<u, s>>] + n <= size[s]
                              /\ gained' = [gained EXCEPT ![<<u, s>>] = @ + n]
      BY DEF Play
    <2>2. gained[<<u, s>>] + n \in 0..MaxSize
      BY <2>1, Typed, Constants DEF TInv
    <2> QED  BY <2>1, <2>2 DEF TInv, TypeOK
  <1>3. acts' \in 0..MaxActs
    BY Constants DEF TInv, TypeOK, Play, Act
  <1>4. TypeOK'
    BY <1>1, <1>2, <1>3 DEF TInv, TypeOK, Play
  <1> QED  BY <1>4, AskedStays DEF TInv, Play

LEMMA GrowsTyped ==
    ASSUME TInv, NEW s \in Sets, Grows(s)
    PROVE  TInv'
  <1>1. size' \in [Sets -> 0..MaxSize] /\ acts' \in 0..MaxActs
    BY Constants DEF TInv, TypeOK, Grows, Act
  <1>2. TypeOK'
    BY <1>1 DEF TInv, TypeOK, Grows
  <1> QED  BY <1>2, AskedStays DEF TInv, Grows

LEMMA MarksTyped ==
    ASSUME TInv, NEW u \in Users, NEW s \in Steam, Marks(u, s)
    PROVE  TInv'
  <1>1. hidden' \subseteq Users \X Steam /\ acts' \in 0..MaxActs
    BY Constants DEF TInv, TypeOK, Marks, Act
  <1>2. TypeOK'
    BY <1>1 DEF TInv, TypeOK, Marks
  <1> QED  BY <1>2, AskedStays DEF TInv, Marks

\* A sync records the moment and the counts, a store page the size.
LEMMA SyncTyped ==
    ASSUME TInv, NEW u \in Users, RecordTrophySets(u) \/ SyncGames(u)
    PROVE  TInv'
  <1>1. told' \in [Pairs -> Told]
    <2>1. ASSUME NEW p \in Pairs
          PROVE  /\ [size |-> size[p[2]], stamp |-> last[p], count |-> gained[p]] \in Told
                 /\ [size |-> told[p].size, stamp |-> last[p], count |-> gained[p]] \in Told
                 /\ told[p] \in Told
      <3>1. size[p[2]] \in Never..MaxSize /\ last[p] \in Never..MaxPlays
        <4>1. p[2] \in Sets
          BY DEF Pairs
        <4>2. size[p[2]] \in 0..MaxSize /\ last[p] \in 0..MaxPlays
          BY <4>1 DEF TInv, TypeOK
        <4> QED  BY <4>2, Constants DEF Never
      <3> QED  BY <3>1 DEF TInv, TypeOK, Told
    <2> QED  BY <2>1 DEF RecordTrophySets, SyncGames
  <1>2. TypeOK'
    BY <1>1 DEF TInv, TypeOK, RecordTrophySets, SyncGames
  <1> QED  BY <1>2, AskedStays DEF TInv, RecordTrophySets, SyncGames

LEMMA EnrichesTyped ==
    ASSUME TInv, NEW s \in Steam, Enriches(s)
    PROVE  TInv'
  <1>1. told' \in [Pairs -> Told]
    <2>1. size[s] \in Never..MaxSize
      BY Constants DEF TInv, TypeOK, Never
    <2>2. ASSUME NEW p \in Pairs
          PROVE  [told[p] EXCEPT !.size = size[s]] \in Told /\ told[p] \in Told
      BY <2>1 DEF TInv, TypeOK, Told
    <2> QED  BY <2>2 DEF Enriches
  <1>2. TypeOK'
    BY <1>1 DEF TInv, TypeOK, Enriches
  <1> QED  BY <1>2, AskedStays DEF TInv, Enriches

LEMMA PassBeginsTyped ==
    ASSUME TInv, NEW u \in Users, NEW source, source \subseteq Sets, PassBegins(u, source)
    PROVE  TInv'
  <1>1. PICK session \in Sessions : pass' = [pass EXCEPT ![u] =
             [todo  |-> Recorded(u, source), run |-> 0, asked |-> Nothing,
              read  |-> IF source = Steam /\ session THEN Nothing ELSE told,
              known |-> Counts(u, source = Steam /\ session)]]
    BY DEF PassBegins
  <1> DEFINE new == [todo  |-> Recorded(u, source), run |-> 0, asked |-> Nothing,
                     read  |-> IF source = Steam /\ session THEN Nothing ELSE told,
                     known |-> Counts(u, source = Steam /\ session)]
  <1>2. Recorded(u, source) \in SUBSET Sets
    BY DEF Recorded
  <1>3. ASSUME NEW asked
        PROVE  Counts(u, asked) \in [Steam -> Never..MaxSize]
    BY Constants DEF TInv, TypeOK, Counts, Pairs, Never
  <1>4. new \in Pass
    <2>1. 0 \in 0..(PRIVATE_PROFILE_RUN - 1)
      BY Constants
    <2>2. told \in [Pairs -> Told]
      BY DEF TInv, TypeOK
    <2> QED  BY <1>2, <1>3, <2>1, <2>2 DEF Pass
  <1>5. pass' = [pass EXCEPT ![u] = new]
    BY <1>1
  <1> HIDE DEF new
  <1>6. pass' \in [Users -> {Idle} \cup Pass]
    BY <1>4, <1>5 DEF TInv, TypeOK
  <1>7. pass'[u].asked = Nothing /\ \A v \in Users : v # u => pass'[v] = pass[v]
    BY <1>5 DEF TInv, TypeOK, new
  <1>8. TypeOK'
    BY <1>6 DEF TInv, TypeOK, PassBegins
  <1> QED  BY <1>6, <1>7, <1>8, AskedAfterTurn DEF TInv, PassBegins

LEMMA SkipsTyped ==
    ASSUME TInv, NEW u \in Users, NEW s \in Sets, Skips(u, s)
    PROVE  TInv'
  <1>1. Turn(u, s) /\ GoesOn(u, s, pass[u].read, pass[u].run)
    BY DEF Skips
  <1>2. pass[u].read \in {Nothing} \cup [Pairs -> Told] /\ pass[u].run \in 0..(PRIVATE_PROFILE_RUN - 1)
    BY <1>1, PassTyped DEF TInv, Turn, Pass
  <1>3. /\ pass' \in [Users -> {Idle} \cup Pass]
        /\ pass'[u].asked = Nothing
        /\ \A v \in Users : v # u => pass'[v] = pass[v]
    BY <1>1, <1>2, GoesOnTyped DEF TInv
  <1>4. TypeOK'
    BY <1>3 DEF TInv, TypeOK, Skips
  <1> QED  BY <1>3, <1>4, AskedAfterTurn DEF TInv, Skips

\* A set is asked for whose definitions are stale, or are on file.
LEMMA AsksTyped ==
    ASSUME TInv, NEW u \in Users, NEW s \in Sets, Asks(u, s)
    PROVE  TInv'
  <1> DEFINE answer == [size  |-> IF DefinitionsCurrent(s, Item(u, s)) THEN Never ELSE size[s],
                        view  |-> View(u, s), count |-> gained[<<u, s>>]]
             next == [pass[u] EXCEPT !.asked = answer]
  <1>1. pass' = [pass EXCEPT ![u] = next] /\ pass[u] \in Pass /\ Turn(u, s) /\ ~Skipped(u, s)
    BY PassTyped DEF TInv, TypeOK, Asks, Turn
  <1>2. answer \in Answer
    <2>1. size[s] \in Never..MaxSize /\ Never \in Never..MaxSize /\ gained[<<u, s>>] \in 0..MaxSize
      BY Typed, Constants DEF TInv, Never
    <2>2. View(u, s) \in {"none", "refused", "shown"}
      BY DEF View
    <2> QED  BY <2>1, <2>2 DEF Answer
  <1>3. answer.size = Never => filed[s] # Never
    BY <1>1, AskedWhenFiled, Typed DEF TInv, Never
  <1>4. answer.view = "refused" => s \in Steam
    BY DEF View
  <1> HIDE DEF answer
  <1>5. next \in Pass /\ next.asked = answer /\ next.todo = pass[u].todo
    BY <1>1, <1>2 DEF Pass
  <1> HIDE DEF next
  <1>6. pass' \in [Users -> {Idle} \cup Pass] /\ pass'[u] = next
        /\ \A v \in Users : v # u => pass'[v] = pass[v]
    BY <1>1, <1>5 DEF TInv, TypeOK
  <1>7. TypeOK'
    BY <1>6 DEF TInv, TypeOK, Asks
  <1>8. ASSUME NEW v \in Users, NEW t \in Sets, Asked(v, t)'
        PROVE  /\ pass'[v].asked.size = Never => filed'[t] # Never
               /\ pass'[v].asked.view = "refused" => t \in Steam
    <2>1. CASE v = u
      <3>1. Turn(u, t)
        BY <1>1, <1>5, <1>6, <1>8, <2>1 DEF Asked, Turn
      <3>2. t = s
        BY <1>1, <3>1, OneTurn DEF TInv
      <3> QED  BY <1>3, <1>4, <1>5, <1>6, <2>1, <3>2 DEF Asks
    <2>2. CASE v # u
      BY <1>6, <1>8, <2>2 DEF TInv, AskedOK, Asked, Turn, Asks
    <2> QED  BY <2>1, <2>2
  <1>9. AskedOK'
    BY <1>8 DEF AskedOK
  <1> QED  BY <1>7, <1>9 DEF TInv

\* What is filed stays a number, and definitions on file are not taken back.
LEMMA FiledTyped ==
    ASSUME TInv, NEW s \in Sets, NEW n \in 0..MaxSize
    PROVE  /\ Filed(s, n) \in [Sets -> Never..MaxSize]
           /\ \A t \in Sets : filed[t] # Never => Filed(s, n)[t] # Never
  <1>1. filed \in [Sets -> Never..MaxSize] /\ n \in Never..MaxSize /\ n # Never
    BY Constants DEF TInv, TypeOK, Never
  <1> QED  BY <1>1 DEF Filed, FiledVersion, FiledSchema

\* Of a set with definitions a row is kept of each.
LEMMA UnlocksTyped ==
    ASSUME TInv, NEW p \in Pairs, NEW n \in 0..MaxSize, NEW got \in 0..MaxSize
    PROVE  /\ Unlocks(p, n, got) \in [Pairs -> [seen : 0..MaxSize, got : 0..MaxSize, at : Never..MaxPlays]]
           /\ \A q \in Pairs : /\ Unlocks(p, n, got)[q].got <= Unlocks(p, n, got)[q].seen
                               /\ Unlocks(p, n, got)[q].at # Never => Unlocks(p, n, got)[q].seen > 0
  <1> DEFINE row == [seen |-> n, got |-> IF got < n THEN got ELSE n, at |-> last[p]]
  <1>1. /\ rows \in [Pairs -> [seen : 0..MaxSize, got : 0..MaxSize, at : Never..MaxPlays]]
        /\ \A q \in Pairs : rows[q].got <= rows[q].seen /\ (rows[q].at # Never => rows[q].seen > 0)
    BY DEF TInv, TypeOK
  <1>2. CASE n = 0
    BY <1>1, <1>2 DEF Unlocks
  <1>3. CASE n # 0
    <2>1. last[p] \in Never..MaxPlays
      BY Constants DEF TInv, TypeOK, Never
    <2>2. row \in [seen : 0..MaxSize, got : 0..MaxSize, at : Never..MaxPlays]
      BY <2>1
    <2>3. row.got <= row.seen /\ row.seen > 0
      BY <1>3, Constants
    <2>4. Unlocks(p, n, got) = [rows EXCEPT ![p] = row]
      BY <1>3 DEF Unlocks
    <2> HIDE DEF row
    <2> QED  BY <1>1, <2>2, <2>3, <2>4
  <1> QED  BY <1>2, <1>3

LEMMA StoresTyped ==
    ASSUME TInv, NEW u \in Users, NEW s \in Sets, Stores(u, s)
    PROVE  TInv'
  <1> DEFINE n == Defined(u, s)
             run == IF n = 0 THEN pass[u].run ELSE 0
  <1>1. Asked(u, s) /\ Turn(u, s) /\ GoesOn(u, s, Nothing, run)
    BY DEF Stores, Asked
  <1>2. n \in 0..MaxSize
    BY <1>1, DefinedTyped
  <1>3. pass[u] \in Pass /\ pass[u].asked \in Answer
    BY <1>1, AnswerTyped DEF TInv
  <1>4. run \in 0..(PRIVATE_PROFILE_RUN - 1)
    BY <1>3, Constants DEF Pass
  <1>5. Earned(u) \in 0..MaxSize
    BY <1>3, Constants DEF Earned, Answer
  <1> HIDE DEF run
  <1>6. /\ pass' \in [Users -> {Idle} \cup Pass]
        /\ pass'[u].asked = Nothing
        /\ \A v \in Users : v # u => pass'[v] = pass[v]
    BY <1>1, <1>4, GoesOnTyped DEF TInv
  <1>7. filed' = Filed(s, n) /\ rows' = Unlocks(<<u, s>>, n, Earned(u)) /\ refused' = Shown(u, s, n)
    BY DEF Stores
  <1> HIDE DEF n
  <1>8. refused' \in [Steam -> Never..MaxSize]
    BY <1>7, Constants DEF TInv, TypeOK, Shown, Never
  <1>9. <<u, s>> \in Pairs
    BY DEF Pairs
  <1>10. TypeOK'
    <2>1. /\ rows' \in [Pairs -> [seen : 0..MaxSize, got : 0..MaxSize, at : Never..MaxPlays]]
          /\ \A q \in Pairs : rows'[q].got <= rows'[q].seen /\ (rows'[q].at # Never => rows'[q].seen > 0)
      BY <1>2, <1>5, <1>7, <1>9, UnlocksTyped
    <2>2. filed' \in [Sets -> Never..MaxSize]
      BY <1>2, <1>7, FiledTyped
    <2> QED  BY <1>6, <1>8, <2>1, <2>2 DEF TInv, TypeOK, Stores
  <1>11. \A t \in Sets : filed[t] # Never => filed'[t] # Never
    BY <1>2, <1>7, FiledTyped
  <1>12. AskedOK'
    BY <1>6, <1>11, AskedAfterTurn
  <1> QED  BY <1>10, <1>12 DEF TInv

LEMMA CountsOnlyTyped ==
    ASSUME TInv, NEW u \in Users, NEW s \in Sets, CountsOnly(u, s)
    PROVE  TInv'
  <1>1. Asked(u, s) /\ Turn(u, s) /\ GoesOn(u, s, Nothing, pass[u].run)
    BY DEF CountsOnly, Asked
  <1>2. Defined(u, s) \in 0..MaxSize
    BY <1>1, DefinedTyped
  <1>3. pass[u] \in Pass /\ pass[u].asked \in Answer /\ pass[u].run \in 0..(PRIVATE_PROFILE_RUN - 1)
    BY <1>1, AnswerTyped DEF TInv, Pass
  <1>4. s \in Steam
    BY <1>1 DEF TInv, AskedOK, CountsOnly
  <1>5. /\ pass' \in [Users -> {Idle} \cup Pass]
        /\ pass'[u].asked = Nothing
        /\ \A v \in Users : v # u => pass'[v] = pass[v]
    BY <1>1, <1>3, GoesOnTyped DEF TInv
  <1>6. filed' \in [Sets -> Never..MaxSize] /\ \A t \in Sets : filed[t] # Never => filed'[t] # Never
    BY <1>2, FiledTyped DEF CountsOnly
  <1>7. refused' \in [Steam -> Never..MaxSize]
    BY <1>3, <1>4 DEF TInv, TypeOK, CountsOnly, Pass
  <1>8. TypeOK'
    BY <1>5, <1>6, <1>7 DEF TInv, TypeOK, CountsOnly
  <1> QED  BY <1>5, <1>6, <1>8, AskedAfterTurn DEF TInv

\* A pass that stops.
LEMMA IdleTyped ==
    ASSUME TInv, NEW u \in Users, pass' = [pass EXCEPT ![u] = Idle]
    PROVE  /\ pass' \in [Users -> {Idle} \cup Pass]
           /\ pass'[u] = Idle
           /\ \A v \in Users : v # u => pass'[v] = pass[v]
  BY DEF TInv, TypeOK

LEMMA ForbidsTyped ==
    ASSUME TInv, NEW u \in Users, NEW s \in Sets, Forbids(u, s)
    PROVE  TInv'
  <1>1. Asked(u, s) /\ Turn(u, s) /\ pass[u].run \in 0..(PRIVATE_PROFILE_RUN - 1)
    BY AnswerTyped DEF TInv, Forbids, Asked, Pass
  <1>2. /\ pass' \in [Users -> {Idle} \cup Pass]
        /\ pass'[u] = Idle \/ pass'[u].asked = Nothing
        /\ \A v \in Users : v # u => pass'[v] = pass[v]
    <2>1. CASE pass[u].run + 1 < PRIVATE_PROFILE_RUN
      <3>1. GoesOn(u, s, Nothing, pass[u].run + 1) /\ pass[u].run + 1 \in 0..(PRIVATE_PROFILE_RUN - 1)
        BY <1>1, <2>1, Constants DEF Forbids
      <3> QED  BY <1>1, <3>1, GoesOnTyped DEF TInv
    <2>2. CASE ~(pass[u].run + 1 < PRIVATE_PROFILE_RUN)
      BY <2>2, IdleTyped DEF Forbids
    <2> QED  BY <2>1, <2>2
  <1>3. forbidden' \subseteq Steam
    BY DEF TInv, TypeOK, Forbids
  <1>4. TypeOK'
    BY <1>2, <1>3 DEF TInv, TypeOK, Forbids
  <1> QED  BY <1>2, <1>4, AskedAfterTurn DEF TInv, Forbids

LEMMA ErrsTyped ==
    ASSUME TInv, NEW u \in Users, NEW s \in Sets, Errs(u, s)
    PROVE  TInv'
  <1>1. Asked(u, s) /\ Turn(u, s) /\ pass[u].run \in 0..(PRIVATE_PROFILE_RUN - 1)
        /\ GoesOn(u, s, Nothing, pass[u].run)
    BY AnswerTyped DEF TInv, Errs, Asked, Pass
  <1>2. /\ pass' \in [Users -> {Idle} \cup Pass]
        /\ pass'[u].asked = Nothing
        /\ \A v \in Users : v # u => pass'[v] = pass[v]
    BY <1>1, GoesOnTyped DEF TInv
  <1>3. TypeOK'
    BY <1>2 DEF TInv, TypeOK, Errs
  <1> QED  BY <1>2, <1>3, AskedAfterTurn DEF TInv, Errs

LEMMA EndsTyped ==
    ASSUME TInv, NEW u \in Users, Stops(u) \/ PassEnds(u)
    PROVE  TInv'
  <1>1. /\ pass' \in [Users -> {Idle} \cup Pass]
        /\ pass'[u] = Idle
        /\ \A v \in Users : v # u => pass'[v] = pass[v]
    BY IdleTyped DEF Stops, PassEnds
  <1>2. TypeOK'
    BY <1>1 DEF TInv, TypeOK, Stops, PassEnds
  <1> QED  BY <1>1, <1>2, AskedAfterTurn DEF TInv, Stops, PassEnds

LEMMA StepTyped ==
    ASSUME TInv, [Next]_vars
    PROVE  TInv'
  <1>1. CASE UNCHANGED vars
    BY <1>1, AskedStays DEF TInv, TypeOK, vars
  <1>2. CASE Next
    <2>1. ASSUME NEW s \in Sets, Grows(s)
          PROVE  TInv'
      BY <2>1, GrowsTyped
    <2>2. ASSUME NEW s \in Steam, Enriches(s)
          PROVE  TInv'
      BY <2>2, EnrichesTyped
    <2>3. ASSUME NEW u \in Users, RecordTrophySets(u) \/ SyncGames(u)
          PROVE  TInv'
      BY <2>3, SyncTyped
    <2>4. ASSUME NEW u \in Users, PassBegins(u, Psn) \/ PassBegins(u, Steam)
          PROVE  TInv'
      BY <2>4, PassBeginsTyped, Constants
    <2>5. ASSUME NEW u \in Users, NEW s \in Sets, Skips(u, s) \/ Asks(u, s) \/ Answered(u, s)
          PROVE  TInv'
      BY <2>5, SkipsTyped, AsksTyped, StoresTyped, CountsOnlyTyped, ForbidsTyped DEF Answered
    <2>6. ASSUME NEW u \in Users, PassEnds(u) \/ Stops(u)
          PROVE  TInv'
      BY <2>6, EndsTyped
    <2>7. ASSUME NEW u \in Users, NEW s \in Sets, Play(u, s) \/ Errs(u, s)
          PROVE  TInv'
      BY <2>7, PlayTyped, ErrsTyped
    <2>8. ASSUME NEW u \in Users, NEW s \in Steam, Marks(u, s)
          PROVE  TInv'
      BY <2>8, MarksTyped
    <2> QED  BY <1>2, <2>1, <2>2, <2>3, <2>4, <2>5, <2>6, <2>7, <2>8 DEF Next, PassStep
  <1> QED  BY <1>1, <1>2

\* Whatever users, publishers, syncs and passes do, rows are kept of each definition of a
\* set that was fetched, no more are earned than there are, and a pass knows what it asked:
\* of sync_trophies and sync_achievements, for any users and sets.
THEOREM TypeCorrect == Spec => []TypeOK
  <1>1. Init => TInv
    BY InitTyped
  <1>2. TInv /\ [Next]_vars => TInv'
    BY StepTyped
  <1>3. TInv => TypeOK
    BY DEF TInv
  <1> QED  BY <1>1, <1>2, <1>3, PTL DEF Spec

-----------------------------------------------------------------------------
(* One user who plays between passes *)

\* As in the runs: definitions are shared, and another user's pass may file newer ones
\* without this user's unlocks (README, findings).
Alone == (\A u, v \in Users : u = v) /\ ~Racing

\* What syncs recorded was so, and is so as long as the user has not played since.
ToldHolds ==
    \A p \in Pairs :
        /\ told[p].stamp <= last[p] /\ told[p].count <= gained[p]
        /\ told[p].stamp = last[p] => told[p].count = gained[p]
        /\ told[p].stamp = Never => told[p].count = 0

\* The rows have what was earned when they were written, and what a sync saw until then.
RowsHold ==
    \A p \in Pairs : rows[p].at # Never =>
        /\ rows[p].at <= last[p]
        /\ \A a \in 1..rows[p].seen :
               /\ rows[p].at = last[p] /\ a <= gained[p] => a <= rows[p].got
               /\ told[p].stamp <= rows[p].at /\ a <= told[p].count => a <= rows[p].got

\* Rows and definitions are of the same version, unless a view was refused since.
Together ==
    /\ \A s \in Sets : filed[s] <= size[s]
    /\ \A p \in Pairs : rows[p].at # Never =>
           /\ filed[p[2]] > 0
           /\ (p[2] \in Steam => refused[p[2]] = Never) => rows[p].seen = filed[p[2]]

\* What a pass was told and has asked holds until it stores it.
AnswersHold ==
    \A u \in Users :
        /\ pass[u] # Idle => \A s \in Steam : pass[u].known[s] \in {Never, gained[<<u, s>>]}
        /\ \A s \in Sets : Asked(u, s) =>
               /\ pass[u].asked.count = gained[<<u, s>>]
               /\ pass[u].asked.size # Never => /\ filed[s] <= pass[u].asked.size
                                                /\ pass[u].asked.size <= size[s]
               /\ pass[u].asked.view = "none" => gained[<<u, s>>] = 0

AInv == TInv /\ ToldHolds /\ RowsHold /\ Together /\ AnswersHold

-----------------------------------------------------------------------------
LEMMA OnePair ==
    ASSUME Alone, TypeOK, NEW u \in Users, NEW p \in Pairs
    PROVE  p = <<u, p[2]>> /\ p[2] \in Sets
  <1>1. PICK v \in Users, s \in Sets : p = <<v, s>>
    BY DEF Pairs
  <1> QED  BY <1>1 DEF Alone

\* The numbers of a user's set.
LEMMA Numbers ==
    ASSUME TInv, NEW p \in Pairs
    PROVE  /\ p[2] \in Sets
           /\ size[p[2]] \in 0..MaxSize /\ filed[p[2]] \in Never..MaxSize
           /\ last[p] \in 0..MaxPlays /\ gained[p] \in 0..MaxSize
           /\ told[p].stamp \in Never..MaxPlays /\ told[p].count \in 0..MaxSize
           /\ rows[p].seen \in 0..MaxSize /\ rows[p].got \in 0..MaxSize /\ rows[p].at \in Never..MaxPlays
           /\ rows[p].got <= rows[p].seen
           /\ MaxSize \in Nat /\ MaxPlays \in Nat /\ Never = -1
  <1>1. p[2] \in Sets
    BY DEF Pairs
  <1> QED  BY <1>1, Constants DEF TInv, TypeOK, Told, Never

LEMMA InitHolds ==
    ASSUME Init
    PROVE  AInv
  <1>1. TInv
    BY InitTyped
  <1>2. ToldHolds
    BY Constants DEF Init, ToldHolds, Untold, Never
  <1>3. RowsHold
    BY DEF Init, RowsHold, NoRows
  <1>4. Together
    BY Constants DEF Init, Together, NoRows, Never
  <1>5. AnswersHold
    BY DEF Init, AnswersHold, Asked, Turn
  <1> QED  BY <1>1, <1>2, <1>3, <1>4, <1>5 DEF AInv

LEMMA PlayHolds ==
    ASSUME Alone, AInv, NEW u \in Users, NEW s \in Sets, Play(u, s)
    PROVE  AInv'
  <1> DEFINE p == <<u, s>>
  <1>1. TInv'
    BY PlayTyped DEF AInv
  <1>2. PICK n \in {0, 1} : gained' = [gained EXCEPT ![p] = @ + n]
    BY DEF Play
  <1>3. /\ last' = [last EXCEPT ![p] = @ + 1] /\ pass[u] = Idle
        /\ UNCHANGED <<size, told, filed, refused, rows, pass>>
    BY DEF Play, Alone
  <1>4. p \in Pairs
    BY DEF Pairs
  <1> HIDE DEF p
  <1>5. ASSUME NEW q \in Pairs
        PROVE  /\ last'[q] \in Int /\ gained'[q] \in Int
               /\ q = p => last'[q] = last[q] + 1 /\ gained'[q] = gained[q] + n
               /\ q # p => last'[q] = last[q] /\ gained'[q] = gained[q]
    BY <1>2, <1>3, <1>4, Numbers DEF AInv, TInv, TypeOK
  <1>6. ToldHolds'
    <2>1. ASSUME NEW q \in Pairs
          PROVE  /\ told[q].stamp <= last'[q] /\ told[q].count <= gained'[q]
                 /\ told[q].stamp = last'[q] => told[q].count = gained'[q]
                 /\ told[q].stamp = Never => told[q].count = 0
      BY <1>5, Numbers DEF AInv, ToldHolds
    <2> QED  BY <1>3, <2>1 DEF ToldHolds
  <1>7. RowsHold'
    <2>1. ASSUME NEW q \in Pairs, rows[q].at # Never
          PROVE  /\ rows[q].at <= last'[q]
                 /\ \A a \in 1..rows[q].seen :
                        /\ rows[q].at = last'[q] /\ a <= gained'[q] => a <= rows[q].got
                        /\ told[q].stamp <= rows[q].at /\ a <= told[q].count => a <= rows[q].got
      <3>1. CASE q = p
        BY <1>5, <2>1, <3>1, Numbers DEF AInv, RowsHold
      <3>2. CASE q # p
        BY <1>5, <2>1, <3>2 DEF AInv, RowsHold
      <3> QED  BY <3>1, <3>2
    <2> QED  BY <1>3, <2>1 DEF RowsHold
  <1>8. Together'
    BY <1>3 DEF AInv, Together
  <1>9. AnswersHold'
    BY <1>3 DEF Alone, AnswersHold, Asked, Turn
  <1> QED  BY <1>1, <1>6, <1>7, <1>8, <1>9 DEF AInv

LEMMA GrowsHolds ==
    ASSUME AInv, NEW s \in Sets, Grows(s)
    PROVE  AInv'
  <1>1. TInv'
    BY GrowsTyped DEF AInv
  <1>2. \A t \in Sets : size[t] \in Int /\ size'[t] \in Int /\ size[t] <= size'[t]
                        /\ filed[t] \in Int
    BY Constants DEF AInv, TInv, TypeOK, Grows, Never
  <1>3. ToldHolds' /\ RowsHold'
    BY DEF AInv, ToldHolds, RowsHold, Grows
  <1>4. Together'
    BY <1>2 DEF AInv, Together, Grows
  <1>5. AnswersHold'
    <2>1. ASSUME NEW u \in Users, NEW t \in Sets, Asked(u, t)
          PROVE  pass[u].asked.size \in Int
      BY <2>1, AnswerTyped, Constants DEF AInv, TInv, Answer, Never
    <2>2. ASSUME NEW u \in Users, NEW t \in Sets
          PROVE  Asked(u, t)' <=> Asked(u, t)
      BY DEF Grows, Asked, Turn
    <2> QED  BY <1>2, <2>1, <2>2 DEF AInv, AnswersHold, Grows
  <1> QED  BY <1>1, <1>3, <1>4, <1>5 DEF AInv

LEMMA MarksHolds ==
    ASSUME AInv, NEW u \in Users, NEW s \in Steam, Marks(u, s)
    PROVE  AInv'
  <1>1. TInv'
    BY MarksTyped DEF AInv
  <1> QED  BY <1>1 DEF AInv, ToldHolds, RowsHold, Together, AnswersHold, Asked, Turn, Marks

\* A sync that sees a set unplayed since its rows were written sees what they have.
LEMMA SyncHolds ==
    ASSUME AInv, NEW u \in Users, RecordTrophySets(u) \/ SyncGames(u)
    PROVE  AInv'
  <1>1. TInv'
    BY SyncTyped DEF AInv
  <1>2. UNCHANGED <<size, last, gained, filed, refused, rows, pass>>
    BY DEF RecordTrophySets, SyncGames
  <1>3. ASSUME NEW p \in Pairs
        PROVE  \/ told'[p] = told[p]
               \/ told'[p].stamp = last[p] /\ told'[p].count = gained[p]
    BY DEF RecordTrophySets, SyncGames
  <1>4. ToldHolds'
    <2>1. ASSUME NEW p \in Pairs
          PROVE  /\ told'[p].stamp <= last[p] /\ told'[p].count <= gained[p]
                 /\ told'[p].stamp = last[p] => told'[p].count = gained[p]
                 /\ told'[p].stamp = Never => told'[p].count = 0
      BY <1>3, Numbers DEF AInv, ToldHolds
    <2> QED  BY <1>2, <2>1 DEF ToldHolds
  <1>5. RowsHold'
    <2>1. ASSUME NEW p \in Pairs, rows[p].at # Never, NEW a \in 1..rows[p].seen,
                 told'[p].stamp <= rows[p].at, a <= told'[p].count
          PROVE  a <= rows[p].got
      BY <1>3, <2>1, Numbers DEF AInv, RowsHold
    <2> QED  BY <1>2, <2>1 DEF AInv, RowsHold
  <1>6. Together' /\ AnswersHold'
    BY <1>2 DEF AInv, Together, AnswersHold, Asked, Turn
  <1> QED  BY <1>1, <1>4, <1>5, <1>6 DEF AInv

LEMMA EnrichesHolds ==
    ASSUME AInv, NEW s \in Steam, Enriches(s)
    PROVE  AInv'
  <1>1. TInv'
    BY EnrichesTyped DEF AInv
  <1>2. UNCHANGED <<size, last, gained, filed, refused, rows, pass>>
    BY DEF Enriches
  <1>3. ASSUME NEW p \in Pairs
        PROVE  told'[p].stamp = told[p].stamp /\ told'[p].count = told[p].count
    BY DEF AInv, TInv, TypeOK, Told, Enriches
  <1> QED  BY <1>1, <1>2, <1>3 DEF AInv, ToldHolds, RowsHold, Together, AnswersHold, Asked, Turn

-----------------------------------------------------------------------------
(* Passes *)

\* The counts Steam tells are those of the moment.
LEMMA PassBeginsHolds ==
    ASSUME AInv, NEW u \in Users, NEW source, source \subseteq Sets, PassBegins(u, source)
    PROVE  AInv'
  <1>1. TInv'
    BY PassBeginsTyped DEF AInv
  <1>2. UNCHANGED <<size, last, gained, told, filed, refused, rows>>
    BY DEF PassBegins
  <1>3. ToldHolds' /\ RowsHold' /\ Together'
    BY <1>2 DEF AInv, ToldHolds, RowsHold, Together
  <1>4. PICK session \in Sessions : pass' = [pass EXCEPT ![u] =
             [todo  |-> Recorded(u, source), run |-> 0, asked |-> Nothing,
              read  |-> IF source = Steam /\ session THEN Nothing ELSE told,
              known |-> Counts(u, source = Steam /\ session)]]
    BY DEF PassBegins
  <1>5. /\ pass'[u].asked = Nothing
        /\ pass'[u].known = Counts(u, source = Steam /\ session)
        /\ \A v \in Users : v # u => pass'[v] = pass[v]
    BY <1>4 DEF AInv, TInv, TypeOK
  <1>6. \A s \in Steam : pass'[u].known[s] \in {Never, gained[<<u, s>>]}
    BY <1>5 DEF Counts
  <1>7. AnswersHold'
    <2>1. ASSUME NEW v \in Users
          PROVE  /\ pass'[v] # Idle => \A s \in Steam : pass'[v].known[s] \in {Never, gained[<<v, s>>]}
                 /\ \A s \in Sets : Asked(v, s)' => v # u /\ Asked(v, s)
      BY <1>5, <1>6 DEF AInv, AnswersHold, Asked, Turn
    <2> QED  BY <1>2, <1>5, <2>1 DEF AInv, AnswersHold
  <1> QED  BY <1>1, <1>3, <1>7 DEF AInv

\* What a step of a pass leaves of what it knows.
LEMMA TurnKnown ==
    ASSUME TypeOK, NEW u \in Users, NEW s \in Sets, NEW read, NEW run, GoesOn(u, s, read, run)
    PROVE  /\ pass'[u].known = pass[u].known
           /\ pass'[u].asked = Nothing
           /\ \A v \in Users : v # u => pass'[v] = pass[v]
  BY DEF TypeOK, GoesOn

\* After a turn or a stop no answer of the user is left to hold.
LEMMA AnswersAfterTurn ==
    ASSUME Alone, AnswersHold, NEW u \in Users, UNCHANGED gained,
           \/ pass'[u] = Idle
           \/ pass[u] # Idle /\ pass'[u].asked = Nothing /\ pass'[u].known = pass[u].known
    PROVE  AnswersHold'
  <1>1. ASSUME NEW v \in Users
        PROVE  /\ pass'[v] # Idle => \A t \in Steam : pass'[v].known[t] \in {Never, gained[<<v, t>>]}
               /\ \A t \in Sets : ~Asked(v, t)'
    <2>1. v = u
      BY DEF Alone
    <2> QED  BY <2>1 DEF AnswersHold, Asked, Turn
  <1> QED  BY <1>1 DEF AnswersHold

LEMMA TablesStay ==
    ASSUME AInv, UNCHANGED <<size, last, gained, told, filed, refused, rows>>
    PROVE  ToldHolds' /\ RowsHold' /\ Together'
  BY DEF AInv, ToldHolds, RowsHold, Together

LEMMA SkipsHolds ==
    ASSUME Alone, AInv, NEW u \in Users, NEW s \in Sets, Skips(u, s)
    PROVE  AInv'
  <1>1. TInv'
    BY SkipsTyped DEF AInv
  <1>2. pass[u] # Idle /\ pass'[u].asked = Nothing /\ pass'[u].known = pass[u].known
    BY TurnKnown DEF AInv, TInv, Skips, Turn
  <1>3. UNCHANGED <<size, last, gained, told, filed, refused, rows>>
    BY DEF Skips
  <1> QED  BY <1>1, <1>2, <1>3, TablesStay, AnswersAfterTurn DEF AInv

\* What is asked is of the moment, and a set's size is at least what is on file.
LEMMA AsksHolds ==
    ASSUME Alone, AInv, NEW u \in Users, NEW s \in Sets, Asks(u, s)
    PROVE  AInv'
  <1> DEFINE answer == [size  |-> IF DefinitionsCurrent(s, Item(u, s)) THEN Never ELSE size[s],
                        view  |-> View(u, s), count |-> gained[<<u, s>>]]
             next == [pass[u] EXCEPT !.asked = answer]
  <1>1. TInv'
    BY AsksTyped DEF AInv
  <1>2. pass' = [pass EXCEPT ![u] = next] /\ pass[u] \in Pass /\ Turn(u, s) /\ pass[u] # Idle
    BY PassTyped DEF AInv, TInv, TypeOK, Asks, Turn
  <1>3. UNCHANGED <<size, last, gained, told, filed, refused, rows>>
    BY DEF Asks
  <1>4. /\ answer.count = gained[<<u, s>>]
        /\ answer.size # Never => (filed[s] <= answer.size /\ answer.size <= size[s])
    <2>1. size[s] \in Int /\ filed[s] <= size[s]
      BY Typed DEF AInv, TInv, Together
    <2> QED  BY <2>1
  <1>5. answer.view = "none" => gained[<<u, s>>] = 0
    <2>1. View(u, s) = "none" => s \in Steam /\ pass[u].known[s] = 0
      BY DEF View
    <2>2. s \in Steam => pass[u].known[s] \in {Never, gained[<<u, s>>]}
      BY <1>2 DEF AInv, AnswersHold
    <2> QED  BY <2>1, <2>2 DEF Never
  <1> HIDE DEF answer
  <1>6. next.asked = answer /\ next.todo = pass[u].todo /\ next.known = pass[u].known
    BY <1>2 DEF Pass
  <1> HIDE DEF next
  <1>7. pass'[u] = next
    BY <1>2 DEF AInv, TInv, TypeOK
  <1>8. AnswersHold'
    <2>1. ASSUME NEW v \in Users
          PROVE  /\ v = u
                 /\ \A t \in Steam : pass'[v].known[t] \in {Never, gained[<<v, t>>]}
      BY <1>2, <1>6, <1>7 DEF Alone, AInv, AnswersHold
    <2>2. ASSUME NEW t \in Sets, Asked(u, t)'
          PROVE  t = s /\ pass'[u].asked = answer
      <3>1. Turn(u, t)
        BY <1>2, <1>6, <1>7, <2>2 DEF Asked, Turn
      <3> QED  BY <1>2, <1>6, <1>7, <3>1, OneTurn DEF AInv, TInv
    <2> QED  BY <1>3, <1>4, <1>5, <2>1, <2>2 DEF AnswersHold
  <1> QED  BY <1>1, <1>3, <1>8, TablesStay DEF AInv

\* What is defined of a set asked for: as much as is on file or more, and no more than it has.
LEMMA DefinedHolds ==
    ASSUME AInv, NEW u \in Users, NEW s \in Sets, Asked(u, s)
    PROVE  filed[s] <= Defined(u, s) /\ Defined(u, s) <= size[s]
  <1>1. filed[s] \in Int
    BY Typed DEF AInv, TInv
  <1>2. CASE pass[u].asked.size = Never
    BY <1>1, <1>2 DEF AInv, Together, Defined
  <1>3. CASE pass[u].asked.size # Never
    BY <1>3 DEF AInv, AnswersHold, Defined
  <1> QED  BY <1>2, <1>3

\* Unlocks are of what was earned when they are stored, and of the definitions stored with them.
LEMMA StoresHolds ==
    ASSUME Alone, AInv, NEW u \in Users, NEW s \in Sets, Stores(u, s)
    PROVE  AInv'
  <1> DEFINE n == Defined(u, s)
             p == <<u, s>>
  <1>1. TInv'
    BY StoresTyped DEF AInv
  <1>2. Asked(u, s) /\ pass[u] # Idle /\ GoesOn(u, s, Nothing, IF n = 0 THEN pass[u].run ELSE 0)
    BY DEF Stores, Asked, Turn
  <1>3. /\ n \in 0..MaxSize /\ filed[s] <= n /\ n <= size[s]
        /\ n = pass[u].asked.size \/ n = filed[s]
    BY <1>2, DefinedTyped, DefinedHolds DEF AInv, Defined
  <1>4. Earned(u) = gained[p]
    BY <1>2 DEF AInv, AnswersHold, Earned
  <1>5. /\ filed' = Filed(s, n) /\ rows' = Unlocks(p, n, gained[p]) /\ refused' = Shown(u, s, n)
        /\ UNCHANGED <<size, last, gained, told>>
    BY <1>4 DEF Stores
  <1>6. AnswersHold'
    BY <1>2, <1>5, TurnKnown, AnswersAfterTurn DEF AInv, TInv
  <1>7. p \in Pairs /\ p[2] = s
    BY DEF Pairs
  <1> HIDE DEF n, p
  <1>8. ToldHolds'
    BY <1>5 DEF AInv, ToldHolds
  <1>9. CASE n = 0
    <2>1. UNCHANGED <<rows, refused>>
      BY <1>5, <1>9 DEF Unlocks, Shown
    <2>2. ASSUME NEW t \in Sets
          PROVE  filed'[t] = filed[t] \/ (t = s /\ filed'[t] = 0)
      BY <1>5, <1>9 DEF Filed, FiledVersion, FiledSchema, AInv, TInv, TypeOK
    <2>3. filed[s] <= 0 /\ filed[s] \in Int
      BY <1>3, <1>9, Typed DEF AInv, TInv
    <2>4. Together'
      <3>1. ASSUME NEW t \in Sets
            PROVE  filed'[t] <= size[t]
        BY <2>2, Constants DEF AInv, Together, TInv, TypeOK
      <3>2. ASSUME NEW q \in Pairs, rows[q].at # Never
            PROVE  filed'[q[2]] = filed[q[2]]
        BY <2>2, <2>3, <3>2, Numbers DEF AInv, Together
      <3> QED  BY <1>5, <2>1, <3>1, <3>2 DEF AInv, Together
    <2>5. RowsHold'
      BY <1>5, <2>1 DEF AInv, RowsHold
    <2> QED  BY <1>1, <1>6, <1>8, <2>4, <2>5 DEF AInv
  <1>10. CASE n # 0
    <2>1. filed' = [filed EXCEPT ![s] = n]
      BY <1>5, <1>10 DEF Filed, FiledVersion, FiledSchema
    <2>2. \A t \in Sets : filed'[t] = IF t = s THEN n ELSE filed[t]
      BY <2>1 DEF AInv, TInv, TypeOK
    <2>3. /\ \A q \in Pairs : q # p => rows'[q] = rows[q]
          /\ rows'[p].seen = n /\ rows'[p].at = last[p]
          /\ rows'[p].got = IF gained[p] < n THEN gained[p] ELSE n
      BY <1>5, <1>7, <1>10 DEF Unlocks, AInv, TInv, TypeOK
    <2>4. ASSUME NEW q \in Pairs, q # p
          PROVE  q[2] # s /\ q[2] \in Sets
      BY <2>4, OnePair, <1>7 DEF AInv, TInv, p
    <2>5. ASSUME NEW t \in Steam, t # s
          PROVE  refused'[t] = refused[t]
      BY <1>5, <2>5 DEF Shown, AInv, TInv, TypeOK
    <2>6. RowsHold'
      <3>1. ASSUME NEW q \in Pairs, rows'[q].at # Never
            PROVE  /\ rows'[q].at <= last[q]
                   /\ \A a \in 1..rows'[q].seen :
                          /\ rows'[q].at = last[q] /\ a <= gained[q] => a <= rows'[q].got
                          /\ told[q].stamp <= rows'[q].at /\ a <= told[q].count => a <= rows'[q].got
        <4>1. CASE q = p
          BY <1>3, <2>3, <3>1, <4>1, Numbers DEF AInv, ToldHolds
        <4>2. CASE q # p
          BY <2>3, <3>1, <4>2 DEF AInv, RowsHold
        <4> QED  BY <4>1, <4>2
      <3> QED  BY <1>5, <3>1 DEF RowsHold
    <2>7. Together'
      <3>1. ASSUME NEW t \in Sets
            PROVE  filed'[t] <= size[t]
        BY <1>3, <2>2 DEF AInv, Together
      <3>2. ASSUME NEW q \in Pairs, rows'[q].at # Never
            PROVE  /\ filed'[q[2]] > 0
                   /\ (q[2] \in Steam => refused'[q[2]] = Never) => rows'[q].seen = filed'[q[2]]
        <4>1. CASE q = p
          BY <1>3, <1>7, <1>10, <2>2, <2>3, <4>1, Constants
        <4>2. CASE q # p
          BY <2>2, <2>3, <2>4, <2>5, <3>2, <4>2 DEF AInv, Together
        <4> QED  BY <4>1, <4>2
      <3> QED  BY <1>5, <3>1, <3>2 DEF Together
    <2> QED  BY <1>1, <1>6, <1>8, <2>6, <2>7 DEF AInv
  <1> QED  BY <1>9, <1>10

\* The definitions of a game whose view was refused are filed alone.
LEMMA CountsOnlyHolds ==
    ASSUME Alone, AInv, NEW u \in Users, NEW s \in Sets, CountsOnly(u, s)
    PROVE  AInv'
  <1> DEFINE n == Defined(u, s)
  <1>1. TInv'
    BY CountsOnlyTyped DEF AInv
  <1>2. Asked(u, s) /\ pass[u] # Idle /\ GoesOn(u, s, Nothing, pass[u].run)
    BY DEF CountsOnly, Asked, Turn
  <1>3. n \in 0..MaxSize /\ filed[s] <= n /\ n <= size[s] /\ n # 0
    BY <1>2, DefinedTyped, DefinedHolds DEF AInv, CountsOnly
  <1>4. s \in Steam /\ pass[u].known[s] # Never
    BY <1>2 DEF AInv, TInv, AskedOK, CountsOnly
  <1>5. /\ filed' = Filed(s, n) /\ refused' = [refused EXCEPT ![s] = pass[u].known[s]]
        /\ UNCHANGED <<size, last, gained, told, rows>>
    BY DEF CountsOnly
  <1> HIDE DEF n
  <1>6. AnswersHold'
    BY <1>2, <1>5, TurnKnown, AnswersAfterTurn DEF AInv, TInv
  <1>7. ToldHolds' /\ RowsHold'
    BY <1>5 DEF AInv, ToldHolds, RowsHold
  <1>8. \A t \in Sets : filed'[t] = IF t = s THEN n ELSE filed[t]
    BY <1>3, <1>5 DEF Filed, FiledVersion, FiledSchema, AInv, TInv, TypeOK
  <1>9. refused'[s] # Never /\ \A t \in Steam : t # s => refused'[t] = refused[t]
    BY <1>4, <1>5 DEF AInv, TInv, TypeOK
  <1>10. Together'
    <2>1. ASSUME NEW t \in Sets
          PROVE  filed'[t] <= size[t]
      BY <1>3, <1>8 DEF AInv, Together
    <2>2. ASSUME NEW q \in Pairs, rows[q].at # Never
          PROVE  /\ filed'[q[2]] > 0
                 /\ (q[2] \in Steam => refused'[q[2]] = Never) => rows[q].seen = filed'[q[2]]
      <3>1. q[2] \in Sets
        BY DEF Pairs
      <3>2. CASE q[2] = s
        BY <1>3, <1>4, <1>8, <1>9, <3>2, Constants
      <3>3. CASE q[2] # s
        BY <1>8, <1>9, <2>2, <3>1, <3>3 DEF AInv, Together
      <3> QED  BY <3>2, <3>3
    <2> QED  BY <1>5, <2>1, <2>2 DEF Together
  <1> QED  BY <1>1, <1>6, <1>7, <1>10 DEF AInv

\* A refusal that marks a game, an error, a stop and the end leave what is on file.
LEMMA OthersHold ==
    ASSUME Alone, AInv, NEW u \in Users,
           \/ \E s \in Sets : Forbids(u, s) \/ Errs(u, s)
           \/ Stops(u) \/ PassEnds(u)
    PROVE  AInv'
  <1>1. TInv'
    BY ForbidsTyped, ErrsTyped, EndsTyped DEF AInv
  <1>2. UNCHANGED <<size, last, gained, told, filed, refused, rows>>
    BY DEF Forbids, Errs, Stops, PassEnds
  <1>3. AnswersHold'
    <2>1. ASSUME NEW s \in Sets, NEW run, pass[u] # Idle, GoesOn(u, s, Nothing, run)
          PROVE  AnswersHold'
      BY <1>2, <2>1, TurnKnown, AnswersAfterTurn DEF AInv, TInv
    <2>2. ASSUME pass' = [pass EXCEPT ![u] = Idle]
          PROVE  AnswersHold'
      BY <1>2, <2>2, IdleTyped, AnswersAfterTurn DEF AInv
    <2> QED  BY <2>1, <2>2 DEF Forbids, Errs, Stops, PassEnds, Asked, Turn
  <1> QED  BY <1>1, <1>2, <1>3, TablesStay DEF AInv

LEMMA StepHolds ==
    ASSUME Alone, AInv, [Next]_vars
    PROVE  AInv'
  <1>1. CASE UNCHANGED vars
    <2>1. TInv' /\ AnswersHold'
      BY <1>1, StepTyped DEF AInv, AnswersHold, Asked, Turn, vars
    <2> QED  BY <1>1, <2>1, TablesStay DEF AInv, vars
  <1>2. CASE Next
    <2>1. ASSUME NEW s \in Sets, Grows(s)
          PROVE  AInv'
      BY <2>1, GrowsHolds
    <2>2. ASSUME NEW s \in Steam, Enriches(s)
          PROVE  AInv'
      BY <2>2, EnrichesHolds
    <2>3. ASSUME NEW u \in Users, RecordTrophySets(u) \/ SyncGames(u)
          PROVE  AInv'
      BY <2>3, SyncHolds
    <2>4. ASSUME NEW u \in Users, PassBegins(u, Psn) \/ PassBegins(u, Steam)
          PROVE  AInv'
      BY <2>4, PassBeginsHolds, Constants
    <2>5. ASSUME NEW u \in Users, NEW s \in Sets, Skips(u, s) \/ Asks(u, s) \/ Answered(u, s)
          PROVE  AInv'
      BY <2>5, SkipsHolds, AsksHolds, StoresHolds, CountsOnlyHolds, OthersHold DEF Answered
    <2>6. ASSUME NEW u \in Users, PassEnds(u) \/ Stops(u)
          PROVE  AInv'
      BY <2>6, OthersHold
    <2>7. ASSUME NEW u \in Users, NEW s \in Sets, Play(u, s) \/ Errs(u, s)
          PROVE  AInv'
      BY <2>7, PlayHolds, OthersHold
    <2>8. ASSUME NEW u \in Users, NEW s \in Steam, Marks(u, s)
          PROVE  AInv'
      BY <2>8, MarksHolds
    <2> QED  BY <1>2, <2>1, <2>2, <2>3, <2>4, <2>5, <2>6, <2>7, <2>8 DEF Next, PassStep
  <1> QED  BY <1>1, <1>2

\* What the rows have been is enough for the gates.
LEMMA GatesFollow ==
    ASSUME AInv
    PROVE  GatesAreRight
  <1>1. SUFFICES ASSUME NEW p \in Pairs, EarnedCurrent(p, told[p]),
                        p[2] \in Steam => refused[p[2]] = Never,
                        NEW a \in 1..told[p].count, a <= filed[p[2]]
                 PROVE  a <= rows[p].got
    BY DEF GatesAreRight
  <1>2. rows[p].at # Never /\ told[p].stamp <= rows[p].at
    BY <1>1, Numbers DEF AInv, EarnedCurrent, FetchedAt
  <1>3. rows[p].seen = filed[p[2]]
    BY <1>1, <1>2 DEF AInv, Together
  <1>4. a \in 1..rows[p].seen /\ a <= told[p].count
    BY <1>1, <1>3, Numbers DEF AInv
  <1> QED  BY <1>2, <1>4 DEF AInv, RowsHold

\* A user alone who does not play while a pass works may rely on the gates of both passes,
\* through stopped passes, errors, refusals and sets that grow: no set is taken for current
\* that lacks an unlock a sync has seen (_earned_current of both modules).
THEOREM GatesRight ==
    ASSUME Alone
    PROVE  Spec => []GatesAreRight
  <1>1. Init => AInv
    BY InitHolds
  <1>2. AInv /\ [Next]_vars => AInv'
    BY StepHolds
  <1>3. AInv => GatesAreRight
    BY GatesFollow
  <1> QED  BY <1>1, <1>2, <1>3, PTL DEF Spec
=============================================================================
