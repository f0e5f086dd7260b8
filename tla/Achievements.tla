------------------------------ MODULE Achievements ------------------------------
(***************************************************************************)
(* Trophies and achievements: sync_trophies of backend/psn.py,             *)
(* backend/steam_achievements.py and the tables of backend/achievements.py.*)
(*                                                                         *)
(* A sync records what the account shows; a pass then goes through the     *)
(* sets and fetches only those its gates take for stale, one transaction   *)
(* each.  An answer that would repeat ends a pass, and the next goes on    *)
(* where it left off.  What a set defines is shared by all users.          *)
(*                                                                         *)
(* A set grows at its end and is unlocked in order, so that a number says  *)
(* which of its achievements one means.  A moment is the number of times   *)
(* the user has played until then.                                         *)
(***************************************************************************)
EXTENDS Integers, FiniteSets

CONSTANTS Users,
          Psn, Steam,          \* ids of sets, in the order of a pass
          MaxSize, MaxPlays,   \* bounds
          Sessions,            \* may Steam be asked as the account? (a set of answers)
          Racing,              \* do users play while a pass of theirs works?
          PRIVATE_PROFILE_RUN, \* refusals in a row that end a pass
          MaxActs              \* bound: what users and publishers do

ASSUME AchievementsAssumption ==
    /\ Psn \cup Steam \subseteq Nat /\ Psn \cap Steam = {}
    /\ Sessions \subseteq BOOLEAN /\ Racing \in BOOLEAN
    /\ {PRIVATE_PROFILE_RUN, MaxSize} \subseteq Nat \ {0} /\ {MaxPlays, MaxActs} \subseteq Nat

Sets  == Psn \cup Steam
Pairs == Users \X Sets
Never == -1

VARIABLES size,      \* achievements a set has
          last,      \* times a user has played it
          gained,    \* achievements the user has unlocked
          hidden,    \* Steam games a user marks private
          told,      \* what syncs recorded of a user's set
          filed,     \* definitions on file by the set's marker, Never without one
          forbidden, \* Steam games marked as refused
          refused,   \* Steam games: the count at which the user's view was refused
          rows,      \* a user's unlocks on file
          pass,      \* passes under way
          acts

vars == <<size, last, gained, hidden, told, filed, forbidden, refused, rows, pass, acts>>

Nothing == [x \in {} |-> x]
Idle    == [todo |-> {}]
Untold  == [size |-> Never, stamp |-> Never, count |-> 0]
Told    == [size : Never..MaxSize, stamp : Never..MaxPlays, count : 0..MaxSize]
NoRows  == [seen |-> 0, got |-> 0, at |-> Never]
Answer  == [size : Never..MaxSize, view : {"none", "refused", "shown"}, count : 0..MaxSize]
Pass    == [todo : SUBSET Sets, run : 0..(PRIVATE_PROFILE_RUN - 1), asked : {Nothing} \cup Answer,
            read : {Nothing} \cup [Pairs -> Told], known : [Steam -> Never..MaxSize]]

TypeOK ==
    /\ size \in [Sets -> 0..MaxSize] /\ last \in [Pairs -> 0..MaxPlays]
    /\ gained \in [Pairs -> 0..MaxSize] /\ hidden \subseteq Users \X Steam
    /\ told \in [Pairs -> Told]
    /\ filed \in [Sets -> Never..MaxSize] /\ forbidden \subseteq Steam
    /\ refused \in [Steam -> Never..MaxSize]
    /\ rows \in [Pairs -> [seen : 0..MaxSize, got : 0..MaxSize, at : Never..MaxPlays]]
    /\ \A p \in Pairs : rows[p].got <= rows[p].seen /\ (rows[p].at # Never => rows[p].seen > 0)
    /\ pass \in [Users -> {Idle} \cup Pass]
    /\ acts \in 0..MaxActs

Init ==
    /\ size \in [Sets -> 0..1]
    /\ last = [p \in Pairs |-> 0] /\ gained = [p \in Pairs |-> 0] /\ hidden = {}
    /\ told = [p \in Pairs |-> Untold]
    /\ filed = [s \in Sets |-> Never] /\ forbidden = {} /\ refused = [s \in Steam |-> Never]
    /\ rows = [p \in Pairs |-> NoRows]
    /\ pass = [u \in Users |-> Idle] /\ acts = 0

Act == acts < MaxActs /\ acts' = acts + 1

-----------------------------------------------------------------------------
(* What users and publishers do *)

\* A trophy moves its stamp, a play of a Steam game its own with or without one.
Play(u, s) ==
    LET p == <<u, s>>
    IN  /\ (Racing \/ pass[u] = Idle) /\ last[p] < MaxPlays /\ Act
        /\ last' = [last EXCEPT ![p] = @ + 1]
        /\ \E n \in {0, 1} : /\ gained[p] + n <= size[s] /\ (s \in Psn => n = 1)
                             /\ gained' = [gained EXCEPT ![p] = @ + n]
        /\ UNCHANGED <<size, hidden, told, filed, forbidden, refused, rows, pass>>

Grows(s) == /\ size[s] < MaxSize /\ Act
            /\ size' = [size EXCEPT ![s] = @ + 1]
            /\ UNCHANGED <<last, gained, hidden, told, filed, forbidden, refused, rows, pass>>

\* A game is marked private, or no longer.
Marks(u, s) == /\ Act
               /\ hidden' = IF <<u, s>> \in hidden THEN hidden \ {<<u, s>>} ELSE hidden \cup {<<u, s>>}
               /\ UNCHANGED <<size, last, gained, told, filed, forbidden, refused, rows, pass>>

-----------------------------------------------------------------------------
(* What syncs record *)

\* record_trophy_sets: each set Sony lists, with its version and when it last moved.
RecordTrophySets(u) ==
    /\ told' = [p \in Pairs |->
                   IF p[1] = u /\ p[2] \in Psn /\ last[p] > 0
                   THEN [size |-> size[p[2]], stamp |-> last[p], count |-> gained[p]] ELSE told[p]]
    /\ UNCHANGED <<size, last, gained, hidden, filed, forbidden, refused, rows, pass, acts>>

\* The games sync refreshes what was played and when; count is history.
SyncGames(u) ==
    /\ told' = [p \in Pairs |->
                   IF p[1] = u /\ p[2] \in Steam /\ last[p] > 0
                   THEN [size |-> told[p].size, stamp |-> last[p], count |-> gained[p]] ELSE told[p]]
    /\ UNCHANGED <<size, last, gained, hidden, filed, forbidden, refused, rows, pass, acts>>

\* The enrichment worker stores how many achievements the store page names; of a game
\* nobody played none asks.
Enriches(s) ==
    /\ \E u \in Users : told[<<u, s>>].stamp # Never
    /\ told' = [p \in Pairs |-> IF p[2] = s THEN [told[p] EXCEPT !.size = size[s]] ELSE told[p]]
    /\ UNCHANGED <<size, last, gained, hidden, filed, forbidden, refused, rows, pass, acts>>

-----------------------------------------------------------------------------
(* The gates *)

\* _definitions_current of psn.py goes by the version of the set,
VersionCurrent(s, item) == filed[s] # Never /\ filed[s] = item.size

\* that of steam_achievements.py by the number on the store page, if it was read, and a
\* game marked as refused is not asked about.
SchemaCurrent(s, item) == s \in forbidden \/ (filed[s] # Never /\ item.size \in {Never, filed[s]})

DefinitionsCurrent(s, item) == IF s \in Psn THEN VersionCurrent(s, item) ELSE SchemaCurrent(s, item)

\* unlocks_fetched_at
FetchedAt(p) == rows[p].at

\* Mutant: any rows will do.
EarnedOnFile(p, item) == FetchedAt(p) # Never

\* _earned_current
EarnedCurrent(p, item) == FetchedAt(p) # Never /\ FetchedAt(p) >= item.stamp

\* _private_unchanged
PrivateUnchanged(s, known) == refused[s] # Never /\ known[s] = refused[s]

\* What a pass makes of a set: the rows it has read are those of its last commit.
Item(u, s) == IF pass[u].read = Nothing THEN told[<<u, s>>] ELSE pass[u].read[<<u, s>>]
Skipped(u, s) ==
    /\ DefinitionsCurrent(s, Item(u, s))
    /\ \/ EarnedCurrent(<<u, s>>, Item(u, s))
       \/ s \in Steam /\ (s \in forbidden \/ filed[s] = 0 \/ PrivateUnchanged(s, pass[u].known))

-----------------------------------------------------------------------------
(* sync_trophies and sync_achievements *)

\* The sets on record, the Steam games that were played.
Recorded(u, source) == {s \in source : told[<<u, s>>].stamp # Never}

\* As the account Steam tells the counts of all games at once.
Counts(u, session) == [s \in Steam |-> IF session /\ s \in Recorded(u, Steam) THEN gained[<<u, s>>] ELSE Never]

\* Steam is first asked for the counts, which are committed.
PassBegins(u, source) ==
    /\ pass[u] = Idle /\ Recorded(u, source) # {}
    /\ \E session \in Sessions :
         pass' = [pass EXCEPT ![u] =
             [todo  |-> Recorded(u, source), run |-> 0, asked |-> Nothing,
              read  |-> IF source = Steam /\ session THEN Nothing ELSE told,
              known |-> Counts(u, source = Steam /\ session)]]
    /\ UNCHANGED <<size, last, gained, hidden, told, filed, forbidden, refused, rows, acts>>

\* The next set; after a commit or a rollback all is read anew.
GoesOn(u, s, read, run) ==
    pass' = [pass EXCEPT ![u] = [todo |-> @.todo \ {s}, run |-> run, asked |-> Nothing, read |-> read,
                                 known |-> @.known]]

Turn(u, s) == pass[u] # Idle /\ s \in pass[u].todo /\ \A t \in pass[u].todo : s <= t

Skips(u, s) == /\ Turn(u, s) /\ pass[u].asked = Nothing /\ Skipped(u, s)
               /\ GoesOn(u, s, pass[u].read, pass[u].run)
               /\ UNCHANGED <<size, last, gained, hidden, told, filed, forbidden, refused, rows, acts>>

\* What the account may see of the set: nothing is asked where nothing is unlocked.
View(u, s) == CASE s \in Steam /\ pass[u].known[s] = 0 -> "none"
                [] s \in Steam /\ pass[u].known[s] # 0 /\ <<u, s>> \in hidden -> "refused"
                [] OTHER -> "shown"

\* What the set defines, if that is stale, and what the user has of it.
Asks(u, s) ==
    /\ Turn(u, s) /\ pass[u].asked = Nothing /\ ~Skipped(u, s)
    /\ pass' = [pass EXCEPT ![u].asked =
           [size  |-> IF DefinitionsCurrent(s, Item(u, s)) THEN Never ELSE size[s],
            view  |-> View(u, s), count |-> gained[<<u, s>>]]]
    /\ UNCHANGED <<size, last, gained, hidden, told, filed, forbidden, refused, rows, acts>>

Asked(u, s)   == Turn(u, s) /\ pass[u].asked # Nothing
Defined(u, s) == IF pass[u].asked.size = Never THEN filed[s] ELSE pass[u].asked.size

\* _store_trophy_definitions: the version is on the trophies, so none is kept without one,
FiledVersion(s, n) == IF n = 0 THEN filed ELSE [filed EXCEPT ![s] = n]

\* _store_definitions: Steam's number is on the release.
FiledSchema(s, n) == [filed EXCEPT ![s] = n]

Filed(s, n) == IF s \in Psn THEN FiledVersion(s, n) ELSE FiledSchema(s, n)

\* Mutant: a set without achievements counts as fetched.
UnlocksOfAny(p, n, got) == [rows EXCEPT ![p] =
                               [seen |-> n, got |-> IF got < n THEN got ELSE n, at |-> last[p]]]

\* upsert_unlocks: a row for each definition, earned or not, of the same moment.
Unlocks(p, n, got) == IF n = 0 THEN rows ELSE [rows EXCEPT ![p] =
                          [seen |-> n, got |-> IF got < n THEN got ELSE n, at |-> last[p]]]

\* _store_none_earned or what was answered
Earned(u) == IF pass[u].asked.view = "none" THEN 0 ELSE pass[u].asked.count

\* A count that was refused is forgotten once the view is shown.
Shown(u, s, n) == IF s \in Steam /\ n # 0 /\ pass[u].asked.view = "shown" /\ pass[u].known[s] # Never
                  THEN [refused EXCEPT ![s] = Never] ELSE refused

\* Mutant: one transaction for the pass, which its end commits.
StoresAtEnd(u, s) ==
    LET n == Defined(u, s)
    IN  /\ Asked(u, s) /\ (pass[u].asked.view # "refused" \/ n = 0)
        /\ IF pass[u].todo = {s}
           THEN filed' = Filed(s, n) /\ rows' = Unlocks(<<u, s>>, n, Earned(u))
           ELSE UNCHANGED <<filed, rows>>
        /\ refused' = Shown(u, s, n)
        /\ GoesOn(u, s, Nothing, IF n = 0 THEN pass[u].run ELSE 0)
        /\ UNCHANGED <<size, last, gained, hidden, told, forbidden, acts>>

\* Definitions and unlocks are committed together.
Stores(u, s) ==
    LET n == Defined(u, s)
    IN  /\ Asked(u, s) /\ (pass[u].asked.view # "refused" \/ n = 0)
        /\ filed' = Filed(s, n)
        /\ rows' = Unlocks(<<u, s>>, n, Earned(u))
        /\ refused' = Shown(u, s, n)
        /\ GoesOn(u, s, Nothing, IF n = 0 THEN pass[u].run ELSE 0)
        /\ UNCHANGED <<size, last, gained, hidden, told, forbidden, acts>>

\* 403, the account's counts at hand: they are what is shown of a private game.
CountsOnly(u, s) ==
    /\ Asked(u, s) /\ pass[u].asked.view = "refused" /\ Defined(u, s) # 0
    /\ pass[u].known[s] # Never
    /\ filed' = Filed(s, Defined(u, s))
    /\ refused' = [refused EXCEPT ![s] = pass[u].known[s]]
    /\ GoesOn(u, s, Nothing, pass[u].run)
    /\ UNCHANGED <<size, last, gained, hidden, told, forbidden, rows, acts>>

\* 403 without them, or to the question what the game defines: it is marked, or, after
\* a run of refusals, the profile is taken to be private.
Forbids(u, s) ==
    /\ Asked(u, s) /\ s \in Steam
    /\ \/ pass[u].asked.size # Never
       \/ pass[u].asked.view = "refused" /\ pass[u].known[s] = Never
    /\ IF pass[u].run + 1 < PRIVATE_PROFILE_RUN
       THEN /\ forbidden' = forbidden \cup {s}
            /\ GoesOn(u, s, Nothing, pass[u].run + 1)
       ELSE pass' = [pass EXCEPT ![u] = Idle] /\ UNCHANGED forbidden
    /\ UNCHANGED <<size, last, gained, hidden, told, filed, refused, rows, acts>>

\* An error of one set is rolled back, and the next has its turn.
Errs(u, s) == /\ Asked(u, s) /\ GoesOn(u, s, Nothing, pass[u].run)
              /\ UNCHANGED <<size, last, gained, hidden, told, filed, forbidden, refused, rows, acts>>

\* A rate limit, a key or a sign-in refused, a locked database, a restart: a stop between
\* two sets is one at the set that would be asked for next.
Stops(u) == /\ pass[u] # Idle /\ pass[u].asked # Nothing
            /\ pass' = [pass EXCEPT ![u] = Idle]
            /\ UNCHANGED <<size, last, gained, hidden, told, filed, forbidden, refused, rows, acts>>

PassEnds(u) == /\ pass[u] # Idle /\ pass[u].todo = {}
               /\ pass' = [pass EXCEPT ![u] = Idle]
               /\ UNCHANGED <<size, last, gained, hidden, told, filed, forbidden, refused, rows, acts>>

-----------------------------------------------------------------------------
Answered(u, s) == Stores(u, s) \/ CountsOnly(u, s) \/ Forbids(u, s)

PassStep(u) == \/ \E s \in Sets : Skips(u, s) \/ Asks(u, s) \/ Answered(u, s)
               \/ PassEnds(u)

Next == \/ \E u \in Users : \/ RecordTrophySets(u) \/ SyncGames(u)
                            \/ PassBegins(u, Psn) \/ PassBegins(u, Steam)
                            \/ PassStep(u) \/ Stops(u)
                            \/ \E s \in Sets : Play(u, s) \/ Errs(u, s)
                            \/ \E s \in Steam : Marks(u, s)
        \/ \E s \in Sets : Grows(s)
        \/ \E s \in Steam : Enriches(s)

Spec == Init /\ [][Next]_vars

\* The user syncs now and then, each sync is followed by its pass, store pages are read
\* again after a month, and of the requests for one set not all are lost to an error, a
\* limit or a restart.
Fairness ==
    /\ \A u \in Users : /\ WF_vars(RecordTrophySets(u)) /\ WF_vars(SyncGames(u)) /\ WF_vars(PassStep(u))
                        /\ SF_vars(PassBegins(u, Psn)) /\ SF_vars(PassBegins(u, Steam))
                        /\ \A s \in Sets : SF_vars(Answered(u, s))
    /\ \A s \in Steam : WF_vars(Enriches(s))
FairSpec == Spec /\ Fairness

-----------------------------------------------------------------------------
(* Properties *)

\* What the gates take for current is current: each unlock the last sync saw, of an
\* achievement with a definition on file, is on file (psn.py:2064, steam_achievements.py:219).
\* Steam's new achievements have one when the store page has been read again.  Of a game
\* whose view was refused the counts are shown, and its new definitions are filed alone.
GatesAreRight ==
    \A p \in Pairs :
        /\ told[p].stamp # Never /\ p[2] \notin forbidden
        /\ p[2] \in Steam => refused[p[2]] = Never
        /\ DefinitionsCurrent(p[2], told[p]) /\ EarnedCurrent(p, told[p])
        => \A a \in 1..told[p].count : a <= filed[p[2]] => a <= rows[p].got

\* "Stop and let the next run pick up where this left off" (psn.py:2114): though every
\* pass may be stopped, each set a sync recorded is fetched in the end, unless Steam has
\* refused it to the user.
Refused(p)  == p \in hidden \/ p[2] \in forbidden \/ (p[2] \in Steam /\ refused[p[2]] # Never)
Fetched(p)  == DefinitionsCurrent(p[2], told[p]) /\ EarnedCurrent(p, told[p])
EachRecordedFetched ==
    \A p \in Pairs : (told[p].stamp # Never /\ size[p[2]] > 0) ~> (Fetched(p) \/ Refused(p))
=============================================================================
