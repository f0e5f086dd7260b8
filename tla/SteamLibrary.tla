----------------------------- MODULE SteamLibrary -----------------------------
(***************************************************************************)
(* The Steam half of the library: backend/steam.py (sync, enrichment,      *)
(* stale requeue, cover verification, legacy DLC detection), the tools of  *)
(* backend/integrations.py that run its heuristics again, and the edits of *)
(* backend/pages_library.py those must respect.                            *)
(*                                                                         *)
(* What waits for Steam between its reads and its commit (full sync, DLC   *)
(* sync, batch, verification, refresh, legacy detection) is two steps or   *)
(* more, and its session writes back the columns it changed.  A request    *)
(* that asks nobody anything in between is one step.                       *)
(***************************************************************************)
EXTENDS Integers, FiniteSets

CONSTANTS Apps,          \* appids
          NoApp,
          Store,         \* what appdetails answers for an app
          Playable,      \* apps that GetOwnedGames lists; the rest is "DLC"
          Catalog,       \* apps that GetAppList names
          Removed,       \* apps that the store may have delisted
          Doomed,        \* apps whose appdetails may fail for ever
          Compilations,  \* apps whose title reads like a collection
          Working,       \* apps whose constructed cover URL answers
          Verified,      \* bound: apps whose cover is verified
          BatchSize, RequeueBatch,
          Hasty,         \* the user edits while a request of theirs still waits
          MaxActs        \* bound: buttons the user presses, and restarts

Kinds == {"game", "dlc", "other"}     \* other: music, video, episode, beta, demo
Names == {"plain", "pack", "beta", "placeholder"}

ASSUME SteamAssumption ==
    /\ IsFiniteSet(Apps) /\ Apps \subseteq Nat /\ NoApp \notin Apps
    /\ \A S \in {Playable, Catalog, Removed, Doomed, Compilations, Working, Verified} : S \subseteq Apps
    /\ BatchSize \in Nat \ {0} /\ RequeueBatch \in Nat \ {0} /\ MaxActs \in Nat
    /\ Hasty \in BOOLEAN

ASSUME StoreAssumption ==
    /\ DOMAIN Store = Apps
    /\ \A a \in Apps : /\ Store[a].kind \in Kinds /\ Store[a].name \in Names
                       /\ Store[a].base \in Apps \cup {NoApp}
                       /\ Store[a].dlc \subseteq Apps \ {a}
                       /\ Store[a].hashed \in BOOLEAN

\* A Game with its Steam release.  edited stands for the *_user_set flags, which
\* one form sets together; told is what raw_data holds: the type, or all of
\* appdetails.
Game == [dlc : BOOLEAN, coll : BOOLEAN, parent : Apps \cup {NoApp}, name : Names,
         edited : BOOLEAN, told : {"no", "type", "all"}, fetched : {"no", "fresh", "stale"}]
Shelf == [hidden : BOOLEAN, byUser : BOOLEAN]
Cover == [url : {"legacy", "hashed"}, valid : BOOLEAN, checked : BOOLEAN]

VARIABLES Failing,   \* the apps of Doomed whose appdetails does fail, for ever
          Delisted,  \* the apps for which it says success: false
          owned,     \* what the user has on Steam
          games,     \* games and game_releases: appid -> Game
          shelves,   \* user_library: appid -> Shelf
          covers,    \* the cover_h row of game_artwork: appid -> Cover
          born,      \* created_at of the releases: how many there were before the sync
          worker,    \* the enrichment batch: what is left, and what it has read
          verifying, \* the cover being verified, as read
          sync,      \* a sync waiting for Steam
          request,   \* a slow request: refresh of one entry, or legacy detection
          acts       \* bound: buttons pressed, restarts

vars == <<Failing, Delisted, owned, games, shelves, covers, born, worker, verifying, sync, request, acts>>

None == [op |-> "none"]
Nothing == [a \in {} |-> None]
Asleep  == [todo |-> {}, read |-> Nothing]
Library == DOMAIN games

\* Games as a session has read them.
Reading(f) == DOMAIN f \subseteq Library /\ \A a \in DOMAIN f : f[a] \in Game

TypeOK ==
    /\ Failing \subseteq Doomed /\ Delisted \subseteq Removed /\ owned \subseteq Apps
    /\ Library \subseteq Apps /\ \A a \in Library : games[a] \in Game
    /\ DOMAIN shelves = Library /\ \A a \in Library : shelves[a] \in Shelf
    /\ DOMAIN covers = Library /\ \A a \in Library : covers[a] \in Cover
    /\ born \in [Library -> Nat]
    /\ worker.todo \subseteq Library /\ Reading(worker.read)
    /\ verifying # None => verifying.app \in Library /\ verifying.read \in Cover
    /\ sync # None => sync.op \in {"full", "dlc"} /\ sync.listed \subseteq Apps /\ Reading(sync.read)
    /\ request # None =>
          /\ request.op \in {"refresh", "legacy"} /\ Reading(request.read)
          /\ request.op = "refresh" => DOMAIN request.read = {request.app} /\ request.shelf \in Shelf
    /\ acts \in 0..MaxActs

Init == /\ Failing \in SUBSET Doomed /\ Delisted \in SUBSET Removed /\ owned \in SUBSET Apps
        /\ games = Nothing /\ shelves = Nothing /\ covers = Nothing /\ born = Nothing
        /\ worker = Asleep /\ verifying = None /\ sync = None /\ request = None
        /\ acts = 0

-----------------------------------------------------------------------------
(* Sessions and rows *)

\* A commit writes the columns whose value differs from the value read.
Flush(cur, old, new) == [f \in DOMAIN cur |-> IF new[f] # old[f] THEN new[f] ELSE cur[f]]

\* In order of created_at; the games of one sync are inserted in order of appid.
Older(a, b) == born[a] < born[b] \/ (born[a] = born[b] /\ a < b)
Oldest(S, n) == {a \in S : Cardinality({b \in S : Older(b, a)}) < n}

\* _infer_is_collection, of a title
ReadsLikeCollection(a, name) == name # "placeholder" /\ a \in Compilations

NewShelf == [hidden |-> FALSE, byUser |-> FALSE]
NewCover == [url |-> "legacy", valid |-> TRUE, checked |-> FALSE]
NewGame(a, dlc) ==
    LET name == IF dlc /\ a \notin Catalog THEN "placeholder" ELSE Store[a].name
    IN  [dlc |-> dlc, coll |-> ~dlc /\ ReadsLikeCollection(a, name), parent |-> NoApp,
         name |-> name, edited |-> FALSE, told |-> "no", fetched |-> "no"]

\* The rows g with new ones for N, which are DLC or not.
Inserted(g, N, dlc) == [a \in DOMAIN g \cup N |-> IF a \in DOMAIN g THEN g[a] ELSE NewGame(a, dlc)]
ArriveUncovered(N) ==
    /\ shelves' = [a \in Library \cup N |-> IF a \in Library THEN shelves[a] ELSE NewShelf]
    /\ born' = [a \in Library \cup N |-> IF a \in Library THEN born[a] ELSE Cardinality(Library)]
    /\ UNCHANGED covers
Arrive(N) ==
    /\ shelves' = [a \in Library \cup N |-> IF a \in Library THEN shelves[a] ELSE NewShelf]
    /\ covers' = [a \in Library \cup N |-> IF a \in Library THEN covers[a] ELSE NewCover]
    /\ born' = [a \in Library \cup N |-> IF a \in Library THEN born[a] ELSE Cardinality(Library)]

Press == acts < MaxActs /\ acts' = acts + 1
Buys(a) == /\ a \notin owned
           /\ owned' = owned \cup {a}
           /\ UNCHANGED <<Failing, Delisted, games, shelves, covers, born, worker, verifying, sync, request, acts>>

-----------------------------------------------------------------------------
(* Sync: sync_steam_library, sync_full_library and sync_dlc_only.  The user  *)
(* has one sync at a time, and the workers are paused while it runs.         *)

\* A full sync that inserted a game holds the database until it commits.
Locked == sync # None /\ sync.locked

\* sync_steam_library: Steam is asked before anything is read.
SyncGames ==
    /\ sync = None /\ Press
    /\ LET listed == owned \cap Playable
       IN  games' = Inserted(games, listed, FALSE) /\ Arrive(listed \ Library)
    /\ UNCHANGED <<Failing, Delisted, owned, worker, verifying, sync, request>>

\* The games are read, and the session renewed if need be, before Steam says what
\* else is owned.  The DLC sync goes by the games the library knows.
SyncBegins(op) ==
    /\ sync = None /\ Press
    /\ LET listed == IF op = "full" THEN owned \cap Playable
                     ELSE {a \in Library : ~games[a].dlc}
           fresh  == IF op = "full" THEN listed \ Library ELSE {}
       IN  sync' = [op |-> op, listed |-> listed, read |-> IF fresh = {} THEN games ELSE Nothing,
                    locked |-> fresh # {}, half |-> op = "dlc"]
    /\ UNCHANGED <<Failing, Delisted, owned, games, shelves, covers, born, worker, verifying, request>>

\* _import_owned_games, when written: a release that is there gets Steam's payload
\* laid over the one read, if there is news in it (playtime).
GamesPart(news) ==
    Inserted([a \in Library |-> IF a \in news THEN [games[a] EXCEPT !.told = sync.read[a].told]
                                ELSE games[a]],
             sync.listed, FALSE)
Newsworthy == sync.listed \cap DOMAIN sync.read

\* _import_dlc asks for no flag of the user but that of the collection.
Marked(g) == IF g.dlc THEN g ELSE [g EXCEPT !.dlc = TRUE, !.coll = @ /\ g.edited]
DlcPart(g, extras) ==
    Inserted([a \in DOMAIN g |-> IF a \in extras THEN Marked(g[a]) ELSE g[a]], extras, TRUE)

\* The store session was stale: its renewal commits all that is pending.
SyncRenews ==
    /\ sync # None /\ ~sync.half
    /\ \E news \in SUBSET Newsworthy : games' = GamesPart(news)
    /\ Arrive(sync.listed \ Library)
    /\ sync' = [sync EXCEPT !.half = TRUE, !.locked = FALSE]
    /\ UNCHANGED <<Failing, Delisted, owned, worker, verifying, request, acts>>

SyncCommits ==
    /\ sync # None
    /\ \E news \in SUBSET Newsworthy :
         games' = DlcPart(IF sync.half THEN games ELSE GamesPart(news), owned \ sync.listed)
    /\ Arrive(DOMAIN games' \ Library)
    /\ sync' = None
    /\ UNCHANGED <<Failing, Delisted, owned, worker, verifying, request, acts>>

\* Steam does not answer, or refuses the session and its renewal.
SyncFails == /\ sync # None
             /\ sync' = None
             /\ UNCHANGED <<Failing, Delisted, owned, games, shelves, covers, born, worker, verifying, request, acts>>

-----------------------------------------------------------------------------
(* What appdetails makes of a game *)

\* _should_auto_hide, of a title, the app's type if known, and is_dlc
ShouldHide(name, kind, dlc) ==
    name \in {"placeholder", "beta"} \/ kind = "other" \/ (dlc /\ name = "pack")

Titled(g, a) == [g EXCEPT !.name = IF @ = "placeholder" THEN Store[a].name ELSE @]

\* is_dlc is promoted and demoted; clears: the collection flag goes with it.
Attached(g, a) == Store[a].base # NoApp \/ ShouldHide(g.name, Store[a].kind, TRUE)
Promotes(g, a) == ~g.dlc /\ (Store[a].kind = "dlc" \/ (Store[a].kind = "game" /\ Attached(g, a)))
DemotesOnce(g, a) == g.dlc /\ Store[a].kind = "game" /\ g.parent = NoApp /\ g.told = "no"
Demotes(g, a)  == g.dlc /\ Store[a].kind = "game" /\ g.parent = NoApp /\ ~Attached(g, a)
Classified(g, a, clears) ==
    IF g.edited THEN g
    ELSE [g EXCEPT !.dlc = (@ \/ Promotes(g, a)) /\ ~Demotes(g, a),
                   !.coll = @ /\ ~(clears /\ Promotes(g, a))]

Linked(g, a) ==
    IF Store[a].kind = "dlc" /\ g.parent = NoApp /\ ~g.edited /\ Store[a].base \in Library
    THEN [g EXCEPT !.parent = Store[a].base] ELSE g

Told(g, a, clears) == [Linked(Classified(Titled(g, a), a, clears), a) EXCEPT
                           !.told = "all", !.fetched = "fresh"]

\* _promote_dlc_children
PromotedUnlinked(g, a) == IF g.edited THEN g ELSE [g EXCEPT !.dlc = TRUE, !.coll = @ /\ g.dlc]
Promoted(g, a) ==
    IF g.edited THEN g
    ELSE [g EXCEPT !.dlc = TRUE, !.coll = @ /\ g.dlc, !.parent = IF @ = NoApp THEN a ELSE @]

\* The commit of app a's details by a session that has read the rows in `read`;
\* the others it reads now.  The children of an app of the given kinds follow it.
Before(read, a) == IF a \in DOMAIN read THEN read[a] ELSE games[a]
Details(read, a, clears, kinds) ==
    LET new(c) == CASE c = a -> Told(Before(read, c), a, clears)
                    [] c \in Store[a].dlc /\ Store[a].kind \in kinds -> Promoted(Before(read, c), a)
                    [] OTHER -> Before(read, c)
    IN  [c \in Library |-> Flush(games[c], Before(read, c), new(c))]

\* What is hidden, of the shelf s as it was read
HiddenAnyhow(s, hide) == IF hide /\ ~s.hidden THEN [s EXCEPT !.hidden = TRUE] ELSE s
HiddenIf(s, hide) == IF hide /\ ~s.hidden /\ ~s.byUser THEN [s EXCEPT !.hidden = TRUE] ELSE s

\* _sync_header_artwork_from_appdetails
HeaderIfUnchecked(c, a) == IF Store[a].hashed /\ c.url # "hashed" /\ ~c.checked
                           THEN [url |-> "hashed", valid |-> TRUE, checked |-> FALSE] ELSE c
Header(c, a) == IF Store[a].hashed /\ c.url # "hashed"
                THEN [url |-> "hashed", valid |-> TRUE, checked |-> FALSE] ELSE c

-----------------------------------------------------------------------------
(* enrich_next_batch and requeue_stale_metadata *)

Unfetched == {a \in Library : games[a].fetched = "no"}
Resting   == worker = Asleep /\ sync = None       \* not paused

BatchBegins ==
    /\ Resting /\ Unfetched # {}
    /\ LET todo == Oldest(Unfetched, BatchSize)
       IN  worker' = [todo |-> todo, read |-> [a \in todo |-> games[a]]]
    /\ UNCHANGED <<Failing, Delisted, owned, games, shelves, covers, born, verifying, sync, request, acts>>

\* The batch goes on after its first app.  A commit makes the session read anew.
Asking(a) == a \in worker.todo /\ \A b \in worker.todo \ {a} : Older(a, b)
GoesOn(a, read) == worker' = IF worker.todo = {a} THEN Asleep
                             ELSE [todo |-> worker.todo \ {a}, read |-> read]

Answered(a) ==
    /\ Asking(a) /\ a \notin Failing \cup Delisted /\ ~Locked
    /\ LET g == Told(Before(worker.read, a), a, TRUE)
       IN  shelves' = [shelves EXCEPT ![a] = HiddenIf(@, ShouldHide(g.name, Store[a].kind, g.dlc))]
    /\ games' = Details(worker.read, a, TRUE, {"game", "dlc"})
    /\ covers' = [covers EXCEPT ![a] = Header(@, a)]
    /\ GoesOn(a, Nothing)
    /\ UNCHANGED <<Failing, Delisted, owned, born, verifying, sync, request, acts>>

Unavailable(a) ==
    /\ Asking(a) /\ a \in Delisted \ Failing /\ ~Locked
    /\ games' = [games EXCEPT ![a].fetched = "fresh"]
    /\ GoesOn(a, Nothing)
    /\ UNCHANGED <<Failing, Delisted, owned, shelves, covers, born, verifying, sync, request, acts>>

ErrorEndsBatch(a) ==
    /\ Asking(a)
    /\ worker' = Asleep
    /\ UNCHANGED <<Failing, Delisted, owned, games, shelves, covers, born, verifying, sync, request, acts>>
TransientError(a) ==
    /\ Asking(a)
    /\ GoesOn(a, worker.read)
    /\ UNCHANGED <<Failing, Delisted, owned, games, shelves, covers, born, verifying, sync, request, acts>>

\* Steam says 429, or the commit fails on a locked database.
RateLimited ==
    /\ worker # Asleep
    /\ worker' = Asleep
    /\ UNCHANGED <<Failing, Delisted, owned, games, shelves, covers, born, verifying, sync, request, acts>>

\* Only when nothing is unfetched: the latest appids first.
Requeue ==
    /\ Resting /\ Unfetched = {}
    /\ LET stale == {a \in Library : games[a].fetched = "stale"}
           turn  == {a \in stale : Cardinality({b \in stale : b > a}) < RequeueBatch}
       IN  /\ stale # {}
           /\ games' = [a \in Library |-> IF a \in turn THEN [games[a] EXCEPT !.fetched = "no"]
                                          ELSE games[a]]
    /\ UNCHANGED <<Failing, Delisted, owned, shelves, covers, born, worker, verifying, sync, request, acts>>

\* _METADATA_STALE_DAYS pass, which is longer than it takes to requeue what was stale.
Fresh == {a \in Library : games[a].fetched = "fresh"}
Ages == /\ Fresh # {} /\ \A a \in Library : games[a].fetched # "stale"
        /\ games' = [a \in Library |-> IF a \in Fresh THEN [games[a] EXCEPT !.fetched = "stale"]
                                       ELSE games[a]]
        /\ UNCHANGED <<Failing, Delisted, owned, shelves, covers, born, worker, verifying, sync, request, acts>>

-----------------------------------------------------------------------------
(* verify_artwork_batch, one URL at a time *)

VerifyReads(a) ==
    /\ verifying = None /\ sync = None
    /\ a \in Library \cap Verified /\ ~covers[a].checked
    /\ verifying' = [op |-> "verify", app |-> a, read |-> covers[a]]
    /\ UNCHANGED <<Failing, Delisted, owned, games, shelves, covers, born, worker, sync, request, acts>>

Answers(a, url) == url = "hashed" \/ a \in Working
VerifyCommits ==
    /\ verifying # None /\ ~Locked
    /\ LET a   == verifying.app
           new == [verifying.read EXCEPT !.valid = Answers(a, verifying.read.url), !.checked = TRUE]
       IN  covers' = [covers EXCEPT ![a] = Flush(@, verifying.read, new)]
    /\ verifying' = None
    /\ UNCHANGED <<Failing, Delisted, owned, games, shelves, born, worker, sync, request, acts>>

VerifyFails == /\ verifying # None /\ verifying' = None
               /\ UNCHANGED <<Failing, Delisted, owned, games, shelves, covers, born, worker, sync, request, acts>>

-----------------------------------------------------------------------------
(* The slow requests: refresh_entry_metadata and sync_dlc_flags *)

RefreshReads(a) ==
    /\ request = None /\ a \in Library /\ Press
    /\ request' = [op |-> "refresh", app |-> a, read |-> [b \in {a} |-> games[b]], shelf |-> shelves[a]]
    /\ UNCHANGED <<Failing, Delisted, owned, games, shelves, covers, born, worker, verifying, sync>>

RefreshAnswered ==
    /\ request # None /\ request.op = "refresh" /\ ~Locked
    /\ LET a    == request.app
           g    == Told(request.read[a], a, FALSE)
           hide == ShouldHide(g.name, Store[a].kind, g.dlc)
       IN  /\ a \notin Failing \cup Delisted
           /\ games' = Details(request.read, a, FALSE, {"game"})
           /\ shelves' = [shelves EXCEPT ![a] = Flush(@, request.shelf, HiddenIf(request.shelf, hide))]
           /\ covers' = [covers EXCEPT ![a] = Header(@, a)]
    /\ request' = None
    /\ UNCHANGED <<Failing, Delisted, owned, born, worker, verifying, sync, acts>>

RefreshUnavailable ==
    /\ request # None /\ request.op = "refresh" /\ ~Locked
    /\ request.app \in Delisted \ Failing
    /\ games' = [games EXCEPT ![request.app].fetched = "fresh"]
    /\ request' = None
    /\ UNCHANGED <<Failing, Delisted, owned, shelves, covers, born, worker, verifying, sync, acts>>

\* Games whose type is not known yet are asked about, one by one.
LegacyReads ==
    /\ request = None /\ Library # {} /\ Press
    /\ request' = [op |-> "legacy",
                   read |-> [a \in {b \in Library : ~games[b].dlc /\ games[b].told = "no"} |-> games[a]]]
    /\ UNCHANGED <<Failing, Delisted, owned, games, shelves, covers, born, worker, verifying, sync>>

\* No flag of the user is asked for.
Detected(g, a) ==
    IF Store[a].kind # "dlc" THEN [g EXCEPT !.told = "type"]
    ELSE [g EXCEPT !.told = "type", !.dlc = TRUE,
                   !.parent = IF Store[a].base \in Library THEN Store[a].base ELSE @]
LegacyCommits ==
    /\ request # None /\ request.op = "legacy" /\ ~Locked
    /\ \E answered \in SUBSET (DOMAIN request.read \ (Failing \cup Delisted)) :
         games' = [a \in Library |->
                      IF a \in answered
                      THEN Flush(games[a], request.read[a], Detected(request.read[a], a)) ELSE games[a]]
    /\ request' = None
    /\ UNCHANGED <<Failing, Delisted, owned, shelves, covers, born, worker, verifying, sync, acts>>

RequestFails == /\ request # None /\ request' = None
                /\ UNCHANGED <<Failing, Delisted, owned, games, shelves, covers, born, worker, verifying, sync, acts>>

-----------------------------------------------------------------------------
(* The user's decisions, and the tools *)

Free == ~Locked /\ (Hasty \/ request = None)

\* edit_library_entry: all the fields of the form, and their flags.  The user knows
\* which game is the base.
Edit(a) ==
    /\ Free /\ a \in Library /\ Press
    /\ \E dlc, coll \in BOOLEAN, parent \in {NoApp, Store[a].base} \cap (Library \cup {NoApp}) :
         games' = [games EXCEPT ![a].dlc = dlc, ![a].coll = coll, ![a].parent = parent,
                                ![a].edited = TRUE]
    /\ UNCHANGED <<Failing, Delisted, owned, shelves, covers, born, worker, verifying, sync, request>>

\* hide_library_entry, unhide_library_entry, bulk_edit_entries
Hide(S, hidden) ==
    /\ Free /\ S # {} /\ S \subseteq Library /\ Press
    /\ shelves' = [a \in Library |-> IF a \in S THEN [hidden |-> hidden, byUser |-> TRUE] ELSE shelves[a]]
    /\ UNCHANGED <<Failing, Delisted, owned, games, covers, born, worker, verifying, sync, request>>

BackfillHidden ==
    /\ ~Locked /\ Press
    /\ shelves' = [a \in Library |->
           LET kind == IF games[a].told = "all" THEN Store[a].kind ELSE "unknown"
           IN  HiddenIf(shelves[a], ShouldHide(games[a].name, kind, games[a].dlc))]
    /\ UNCHANGED <<Failing, Delisted, owned, games, covers, born, worker, verifying, sync, request>>

BackfillCollections ==
    /\ ~Locked /\ Press
    /\ games' = [a \in Library |->
           IF games[a].edited THEN games[a]
           ELSE [games[a] EXCEPT !.coll = ~games[a].dlc /\ ReadsLikeCollection(a, games[a].name)]]
    /\ UNCHANGED <<Failing, Delisted, owned, shelves, covers, born, worker, verifying, sync, request>>

\* steam_enrichment_refresh, and requeue_broken_cover_art
Queued(S) ==
    /\ ~Locked /\ Press
    /\ games' = [a \in Library |-> IF a \in S THEN [games[a] EXCEPT !.fetched = "no"] ELSE games[a]]
    /\ UNCHANGED <<Failing, Delisted, owned, shelves, covers, born, worker, verifying, sync, request>>
EnrichmentRefresh == Queued(Library)
RequeueBroken     == Queued({a \in Library : ~covers[a].valid \/ (~covers[a].checked /\ covers[a].url = "legacy")})

\* What was not committed is lost; the library remains.
Restart ==
    /\ <<worker, verifying, sync, request>> # <<Asleep, None, None, None>> /\ Press
    /\ worker' = Asleep /\ verifying' = None /\ sync' = None /\ request' = None
    /\ UNCHANGED <<Failing, Delisted, owned, games, shelves, covers, born>>

-----------------------------------------------------------------------------
Cycle     == BatchBegins \/ Requeue
Syncing   == SyncRenews \/ SyncCommits \/ SyncFails
Requested == RefreshAnswered \/ RefreshUnavailable \/ LegacyCommits \/ RequestFails
Passes(a) == Answered(a) \/ Unavailable(a) \/ (a \in Failing /\ TransientError(a))

Next ==
    \/ \E a \in Apps : Buys(a) \/ Edit(a) \/ RefreshReads(a) \/ VerifyReads(a)
    \/ SyncGames \/ \E op \in {"full", "dlc"} : SyncBegins(op)
    \/ Syncing
    \/ Cycle \/ RateLimited \/ Ages
    \/ \E a \in Apps : Answered(a) \/ Unavailable(a) \/ TransientError(a)
    \/ VerifyCommits \/ VerifyFails
    \/ LegacyReads \/ Requested
    \/ \E S \in SUBSET Apps, hidden \in BOOLEAN : Hide(S, hidden)
    \/ BackfillHidden \/ BackfillCollections \/ EnrichmentRefresh \/ RequeueBroken
    \/ Restart

Spec == Init /\ [][Next]_vars

\* The server is up: the worker's cycles go on, a sync ends (its calls have timeouts),
\* and days pass.  Of the requests Steam gets for one app, not all are lost to its
\* rate limit or, unless the app is Failing, to an error.
Fairness ==
    /\ WF_vars(Cycle) /\ WF_vars(Syncing) /\ WF_vars(Ages)
    /\ \A a \in Apps : SF_vars(Passes(a))
FairSpec == Spec /\ Fairness

-----------------------------------------------------------------------------
(* Properties *)

\* What the user hid or showed by hand stays so until they say otherwise:
\* is_hidden_user_set is asked for by every pass of the heuristic (steam.py:943).
HideStands ==
    [][\A a \in Library : shelves[a].byUser =>
          shelves'[a] = shelves[a] \/ \E S \in SUBSET Apps, hidden \in BOOLEAN : Hide(S, hidden)]_vars

\* As long as fewer apps than a batch holds fail for good, every other entry that
\* waits for its metadata gets it (steam.py:838), whatever syncs, requeues,
\* rate limits and restarts come between.
Waits(a) == a \in Library /\ games[a].fetched = "no"
EachFetched == \A a \in Apps \ Doomed : Waits(a) ~> ~Waits(a)

\* The rest is promised while no entry fails for good: one that does keeps the stale
\* from being requeued (main.py:56), and what the first answer left wrong stays so.
Rolling == Failing \cap Library = {}

\* A game that a sync took for DLC (bought between Steam's two answers, or unknown
\* to GetOwnedGames) is a game again once its metadata comes round (steam.py:899).
Standalone(a) == /\ Store[a].kind = "game" /\ Store[a].base = NoApp /\ Store[a].name = "plain"
                 /\ \A b \in Apps : a \notin Store[b].dlc
Mistaken(a) == Rolling /\ a \in Library \ Delisted /\ games[a].dlc /\ ~games[a].edited
EachDemoted == \A a \in Apps : Standalone(a) => (Mistaken(a) ~> ~Mistaken(a))

\* A DLC gets its base game, whichever of the two was in the library first: from its
\* own details, or, if Steam calls it a game, from the list of the base (steam.py:923, :765).
Related(a, b) == a \in Store[b].dlc \/ (Store[a].kind = "dlc" /\ Store[a].base = b)
Says(a, b) == \/ a \in Store[b].dlc /\ b \notin Delisted
              \/ Store[a].kind = "dlc" /\ Store[a].base = b /\ a \notin Delisted
Loose(a, b) == /\ Rolling /\ {a, b} \subseteq Library /\ Says(a, b)
               /\ games[a].parent = NoApp /\ ~games[a].edited
EachLinked == \A a, b \in Apps : Related(a, b) => (Loose(a, b) ~> ~Loose(a, b))

\* A cover is replaced by the one Steam serves, also if it was verified, and found
\* wanting, before (steam.py:736).
Legacy(a) == a \in Library \ (Failing \cup Delisted) /\ covers[a].url = "legacy"
CoversHeal == \A a \in Apps : Store[a].hashed => (Legacy(a) ~> ~Legacy(a))
=============================================================================
