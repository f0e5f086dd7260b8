-------------------------- MODULE SteamLibraryProofs --------------------------
(***************************************************************************)
(* Proofs about SteamLibrary, for any store, library and batch size: what  *)
(* its variables hold; and that what the user hid or showed by hand stands *)
(* while they decide nothing about it that a request of theirs waits for.  *)
(***************************************************************************)
EXTENDS SteamLibrary, FiniteSetTheorems, TLAPS

-----------------------------------------------------------------------------
(* The inductive invariant: the types part by part, and what a refresh read *)

EnvironmentOK == Failing \subseteq Doomed /\ Delisted \subseteq Removed /\ owned \subseteq Apps
TablesOK == /\ Library \subseteq Apps /\ \A a \in Library : games[a] \in Game
            /\ DOMAIN shelves = Library /\ \A a \in Library : shelves[a] \in Shelf
            /\ DOMAIN covers = Library /\ \A a \in Library : covers[a] \in Cover
            /\ born \in [Library -> Nat]
WorkerOK == worker.todo \subseteq Library /\ Reading(worker.read)
VerifyingOK == verifying # None => verifying.app \in Library /\ verifying.read \in Cover
SyncOK ==
    sync # None =>
       /\ sync.op \in {"full", "dlc"} /\ sync.listed \subseteq Apps /\ Reading(sync.read)
       /\ sync = [op |-> sync.op, listed |-> sync.listed, read |-> sync.read,
                  locked |-> sync.locked, half |-> sync.half]
RequestOK ==
    request # None =>
       /\ request.op \in {"refresh", "legacy"} /\ Reading(request.read)
       /\ request.op = "refresh" => DOMAIN request.read = {request.app} /\ request.shelf \in Shelf

\* A refresh that waits read of its entry that the user decided, if they did: unless they
\* are hasty, they decide before it reads or after it is done.
ShelfAsRead ==
    ~Hasty /\ request # None /\ request.op = "refresh" =>
       (shelves[request.app].byUser => request.shelf.byUser)

IInv == /\ EnvironmentOK /\ TablesOK /\ WorkerOK /\ VerifyingOK /\ SyncOK /\ RequestOK
        /\ acts \in 0..MaxActs
        /\ ShelfAsRead

LEMMA Types == IInv => TypeOK
BY DEF IInv, EnvironmentOK, TablesOK, WorkerOK, VerifyingOK, SyncOK, RequestOK, TypeOK

-----------------------------------------------------------------------------
(* Rows *)

LEMMA FlushTypes ==
  /\ \A cur, old, new \in Game : Flush(cur, old, new) \in Game
  /\ \A cur, old, new \in Cover : Flush(cur, old, new) \in Cover
  /\ \A cur, old, new \in Shelf :
        /\ Flush(cur, old, new) \in Shelf
        /\ new = old => Flush(cur, old, new) = cur
        /\ new.byUser = old.byUser => Flush(cur, old, new).byUser = cur.byUser
  <1>1. ASSUME NEW cur \in Game, NEW old \in Game, NEW new \in Game
        PROVE  Flush(cur, old, new) \in Game
    <2>1. DOMAIN cur = {"dlc", "coll", "parent", "name", "edited", "told", "fetched"}
      BY DEF Game
    <2> QED BY <2>1 DEF Flush, Game
  <1>2. ASSUME NEW cur \in Cover, NEW old \in Cover, NEW new \in Cover
        PROVE  Flush(cur, old, new) \in Cover
    BY DEF Flush, Cover
  <1>3. ASSUME NEW cur \in Shelf, NEW old \in Shelf, NEW new \in Shelf
        PROVE  /\ Flush(cur, old, new) \in Shelf
               /\ new = old => Flush(cur, old, new) = cur
               /\ new.byUser = old.byUser => Flush(cur, old, new).byUser = cur.byUser
    BY DEF Flush, Shelf
  <1> QED BY <1>1, <1>2, <1>3

LEMMA HiddenFacts ==
  \A s \in Shelf : \A hide \in BOOLEAN :
     /\ HiddenIf(s, hide) \in Shelf /\ HiddenIf(s, hide).byUser = s.byUser
     /\ s.byUser => HiddenIf(s, hide) = s
BY DEF HiddenIf, Shelf

LEMMA HidesTypes == \A name, kind, dlc : ShouldHide(name, kind, dlc) \in BOOLEAN
BY DEF ShouldHide

LEMMA HeaderTypes == \A c \in Cover, a \in Apps : Header(c, a) \in Cover
BY DEF Header, Cover

LEMMA NewTypes ==
  /\ NewShelf \in Shelf /\ NewCover \in Cover
  /\ \A a \in Apps : \A dlc \in BOOLEAN : NewGame(a, dlc) \in Game
  <1>1. ASSUME NEW a \in Apps, NEW dlc \in BOOLEAN PROVE NewGame(a, dlc) \in Game
    <2>1. Store[a].name \in Names /\ "placeholder" \in Names
      BY StoreAssumption DEF Names
    <2>2. \A n : (~dlc /\ ReadsLikeCollection(a, n)) \in BOOLEAN
      BY DEF ReadsLikeCollection
    <2> QED BY <2>1, <2>2 DEF NewGame, Game
  <1> QED BY <1>1 DEF NewShelf, NewCover, Shelf, Cover

LEMMA MarkedTypes == \A g \in Game : Marked(g) \in Game
BY DEF Marked, Game

\* What the details of an app make of its game.
LEMMA ToldTypes ==
  ASSUME Library \subseteq Apps, NEW g \in Game, NEW a \in Apps, NEW clears \in BOOLEAN
  PROVE  Told(g, a, clears) \in Game
  <1>1. Titled(g, a) \in Game
    BY StoreAssumption DEF Titled, Game
  <1>2. ASSUME NEW h \in Game PROVE Classified(h, a, clears) \in Game
    <2>1. Promotes(h, a) \in BOOLEAN /\ Demotes(h, a) \in BOOLEAN
      BY DEF Promotes, Demotes, Attached, ShouldHide
    <2> QED BY <2>1 DEF Classified, Game
  <1>3. ASSUME NEW h \in Game PROVE Linked(h, a) \in Game
    BY DEF Linked, Game
  <1>4. ASSUME NEW h \in Game PROVE [h EXCEPT !.told = "all", !.fetched = "fresh"] \in Game
    BY DEF Game
  <1> QED BY <1>1, <1>2, <1>3, <1>4 DEF Told

LEMMA PromotedTypes == \A g \in Game, a \in Apps : Promoted(g, a) \in Game
BY DEF Promoted, Game

LEMMA DetectedTypes ==
  ASSUME Library \subseteq Apps, NEW g \in Game, NEW a \in Apps
  PROVE  Detected(g, a) \in Game
BY DEF Detected, Game

LEMMA DetailsTypes ==
  ASSUME TablesOK, NEW read, Reading(read), NEW a \in Apps, NEW clears \in BOOLEAN, NEW kinds
  PROVE  /\ DOMAIN Details(read, a, clears, kinds) = Library
         /\ \A c \in Library : Details(read, a, clears, kinds)[c] \in Game
  <1> DEFINE new(c) == CASE c = a -> Told(Before(read, c), a, clears)
                         [] c \in Store[a].dlc /\ Store[a].kind \in kinds -> Promoted(Before(read, c), a)
                         [] OTHER -> Before(read, c)
  <1>1. Details(read, a, clears, kinds) = [c \in Library |-> Flush(games[c], Before(read, c), new(c))]
    BY DEF Details
  <1>2. ASSUME NEW c \in Library PROVE Before(read, c) \in Game /\ new(c) \in Game
    <2>1. Before(read, c) \in Game
      BY DEF Before, Reading, TablesOK
    <2>2. Told(Before(read, c), a, clears) \in Game /\ Promoted(Before(read, c), a) \in Game
      BY <2>1, ToldTypes, PromotedTypes DEF TablesOK
    <2>3. CASE c = a
      BY <2>1, <2>2, <2>3
    <2>4. CASE c # a /\ c \in Store[a].dlc /\ Store[a].kind \in kinds
      BY <2>1, <2>2, <2>4
    <2>5. CASE c # a /\ ~(c \in Store[a].dlc /\ Store[a].kind \in kinds)
      BY <2>1, <2>5
    <2> QED BY <2>3, <2>4, <2>5
  <1> HIDE DEF new
  <1>3. \A c \in Library : Flush(games[c], Before(read, c), new(c)) \in Game
    BY <1>2, FlushTypes DEF TablesOK
  <1> QED BY <1>1, <1>3

LEMMA InsertedTypes ==
  ASSUME NEW g, \A a \in DOMAIN g : g[a] \in Game, NEW N \in SUBSET Apps, NEW dlc \in BOOLEAN
  PROVE  /\ DOMAIN Inserted(g, N, dlc) = DOMAIN g \cup N
         /\ \A a \in DOMAIN g \cup N : Inserted(g, N, dlc)[a] \in Game
  <1>1. \A a \in N : NewGame(a, dlc) \in Game
    BY NewTypes
  <1> QED BY <1>1 DEF Inserted

-----------------------------------------------------------------------------
(* Steps *)

\* Sessions that go on waiting have read games that stay.
LEMMA WaitingKept ==
  ASSUME IInv, Library \subseteq Library'
  PROVE  /\ UNCHANGED worker => WorkerOK'
         /\ UNCHANGED verifying => VerifyingOK'
         /\ UNCHANGED sync => SyncOK'
         /\ UNCHANGED request => RequestOK'
  <1>1. \A f : Reading(f) => Reading(f)'
    BY DEF Reading
  <1>2. UNCHANGED worker => WorkerOK'
    BY <1>1 DEF IInv, WorkerOK
  <1>3. UNCHANGED verifying => VerifyingOK'
    BY DEF IInv, VerifyingOK
  <1>4. UNCHANGED sync => SyncOK'
    BY <1>1 DEF IInv, SyncOK
  <1>5. UNCHANGED request => RequestOK'
    BY <1>1 DEF IInv, RequestOK
  <1> QED BY <1>2, <1>3, <1>4, <1>5

LEMMA LibraryFinite == IInv => IsFiniteSet(Library) /\ Cardinality(Library) \in Nat
BY SteamAssumption, FS_Subset, FS_CardinalityType DEF IInv, TablesOK

\* New games arrive in the three tables.
LEMMA ArriveTypes ==
  ASSUME IInv, NEW N \in SUBSET Apps, Arrive(N),
         Library' = Library \cup N, \A a \in Library' : games'[a] \in Game
  PROVE  TablesOK' /\ \A a \in Library : shelves'[a] = shelves[a]
  <1>1. Cardinality(Library) \in Nat
    BY LibraryFinite
  <1>2. /\ DOMAIN shelves' = Library' /\ \A a \in Library' : shelves'[a] \in Shelf
        /\ \A a \in Library : shelves'[a] = shelves[a]
    BY NewTypes DEF IInv, TablesOK, Arrive
  <1>3. DOMAIN covers' = Library' /\ \A a \in Library' : covers'[a] \in Cover
    BY NewTypes DEF IInv, TablesOK, Arrive
  <1>4. born' \in [Library' -> Nat]
    BY <1>1 DEF IInv, TablesOK, Arrive
  <1> QED BY <1>2, <1>3, <1>4 DEF IInv, TablesOK

\* The library is the same, with other contents.
LEMMA TablesKept ==
  ASSUME IInv, UNCHANGED born,
         Library' = Library /\ \A a \in Library : games'[a] \in Game,
         DOMAIN shelves' = Library /\ \A a \in Library : shelves'[a] \in Shelf,
         DOMAIN covers' = Library /\ \A a \in Library : covers'[a] \in Cover
  PROVE  TablesOK'
BY DEF IInv, TablesOK

LEMMA EnvironmentKept ==
  ASSUME IInv, UNCHANGED <<Failing, Delisted>>, owned' \subseteq Apps
  PROVE  EnvironmentOK'
BY DEF IInv, EnvironmentOK

LEMMA ActsKept == IInv /\ (Press \/ UNCHANGED acts) => acts' \in 0..MaxActs
BY SteamAssumption DEF IInv, Press

\* The user's decisions are theirs: a step that leaves byUser alone leaves the reading right.
LEMMA ReadingKept ==
  ASSUME IInv, UNCHANGED request,
         \A a \in Library : shelves'[a].byUser = shelves[a].byUser
  PROVE  ShelfAsRead'
  <1>1. request # None /\ request.op = "refresh" => request.app \in Library
    BY DEF IInv, RequestOK, Reading
  <1> QED BY <1>1 DEF IInv, ShelfAsRead

LEMMA BuysKeeps == ASSUME IInv, NEW a \in Apps, Buys(a) PROVE IInv'
  <1>1. owned' \subseteq Apps
    BY DEF IInv, EnvironmentOK, Buys
  <1>2. UNCHANGED <<Failing, Delisted, games, shelves, covers, born, worker, verifying, sync, request, acts>>
    BY DEF Buys
  <1>3. Library' = Library /\ TablesOK'
    BY <1>2 DEF IInv, TablesOK, Library
  <1> QED BY <1>1, <1>2, <1>3, WaitingKept, EnvironmentKept, ActsKept, ReadingKept DEF IInv

LEMMA SyncGamesKeeps == ASSUME IInv, SyncGames PROVE IInv'
  <1>1. PICK listed \in SUBSET Apps :
           /\ games' = Inserted(games, listed, FALSE) /\ Arrive(listed \ Library)
           /\ Press /\ UNCHANGED <<Failing, Delisted, owned, worker, verifying, sync, request>>
    BY DEF SyncGames, IInv, EnvironmentOK
  <1>2. Library' = Library \cup (listed \ Library) /\ \A a \in Library' : games'[a] \in Game
    <2>1. \A a \in DOMAIN games : games[a] \in Game
      BY DEF IInv, TablesOK, Library
    <2>2. /\ DOMAIN Inserted(games, listed, FALSE) = DOMAIN games \cup listed
          /\ \A a \in DOMAIN games \cup listed : Inserted(games, listed, FALSE)[a] \in Game
      BY <2>1, InsertedTypes
    <2> QED BY <1>1, <2>2 DEF Library
  <1>3. TablesOK' /\ \A a \in Library : shelves'[a] = shelves[a]
    BY <1>1, <1>2, ArriveTypes
  <1>4. EnvironmentOK'
    BY <1>1, EnvironmentKept DEF IInv, EnvironmentOK
  <1> QED BY <1>1, <1>2, <1>3, <1>4, WaitingKept, ActsKept, ReadingKept DEF IInv

LEMMA SyncBeginsKeeps ==
  ASSUME IInv, NEW op \in {"full", "dlc"}, SyncBegins(op) PROVE IInv'
  <1>1. PICK listed, read, locked, half :
           /\ listed \subseteq Apps /\ read \in {games, Nothing}
           /\ sync' = [op |-> op, listed |-> listed, read |-> read, locked |-> locked, half |-> half]
           /\ Press
           /\ UNCHANGED <<Failing, Delisted, owned, games, shelves, covers, born, worker, verifying, request>>
    BY DEF SyncBegins, IInv, EnvironmentOK, TablesOK
  <1>2. Library' = Library /\ TablesOK' /\ EnvironmentOK'
    BY <1>1 DEF IInv, TablesOK, EnvironmentOK, Library
  <1>3. Reading(read)'
    BY <1>1, <1>2 DEF Reading, Nothing, IInv, TablesOK, Library
  <1>4. SyncOK'
    BY <1>1, <1>3 DEF SyncOK
  <1> QED BY <1>1, <1>2, <1>4, WaitingKept, ActsKept, ReadingKept DEF IInv

\* What the first half of a full sync writes.
LEMMA GamesPartTypes ==
  ASSUME IInv, sync # None, NEW news \in SUBSET Newsworthy
  PROVE  /\ DOMAIN GamesPart(news) = Library \cup sync.listed
         /\ \A a \in Library \cup sync.listed : GamesPart(news)[a] \in Game
  <1> DEFINE g == [a \in Library |-> IF a \in news THEN [games[a] EXCEPT !.told = sync.read[a].told]
                                     ELSE games[a]]
  <1>1. ASSUME NEW a \in Library PROVE g[a] \in Game
    <2>1. CASE a \in news
      <3>1. sync.read[a] \in Game /\ games[a] \in Game
        BY <2>1 DEF IInv, SyncOK, Reading, Newsworthy, TablesOK
      <3>2. sync.read[a].told \in {"no", "type", "all"}
        BY <3>1 DEF Game
      <3> QED BY <2>1, <3>1, <3>2 DEF Game
    <2>2. CASE a \notin news
      BY <2>2 DEF IInv, TablesOK
    <2> QED BY <2>1, <2>2
  <1>2. DOMAIN g = Library
    OBVIOUS
  <1>3. GamesPart(news) = Inserted(g, sync.listed, FALSE)
    BY DEF GamesPart
  <1>4. sync.listed \in SUBSET Apps
    BY DEF IInv, SyncOK
  <1> HIDE DEF g
  <1> QED BY <1>1, <1>2, <1>3, <1>4, InsertedTypes

LEMMA DlcPartTypes ==
  ASSUME NEW g, \A a \in DOMAIN g : g[a] \in Game, NEW extras \in SUBSET Apps
  PROVE  /\ DOMAIN DlcPart(g, extras) = DOMAIN g \cup extras
         /\ \A a \in DOMAIN g \cup extras : DlcPart(g, extras)[a] \in Game
  <1> DEFINE h == [a \in DOMAIN g |-> IF a \in extras THEN Marked(g[a]) ELSE g[a]]
  <1>1. DOMAIN h = DOMAIN g /\ \A a \in DOMAIN h : h[a] \in Game
    BY MarkedTypes
  <1>2. DlcPart(g, extras) = Inserted(h, extras, TRUE)
    BY DEF DlcPart
  <1> HIDE DEF h
  <1> QED BY <1>1, <1>2, InsertedTypes

LEMMA SyncingKeeps == ASSUME IInv, Syncing PROVE IInv'
  <1>1. CASE SyncRenews
    <2>1. PICK news \in SUBSET Newsworthy : games' = GamesPart(news)
      BY <1>1 DEF SyncRenews
    <2>2. /\ sync # None /\ Arrive(sync.listed \ Library)
          /\ sync' = [sync EXCEPT !.half = TRUE, !.locked = FALSE]
          /\ UNCHANGED <<Failing, Delisted, owned, worker, verifying, request, acts>>
      BY <1>1 DEF SyncRenews
    <2>3. Library' = Library \cup (sync.listed \ Library) /\ \A a \in Library' : games'[a] \in Game
      BY <2>1, <2>2, GamesPartTypes DEF Library
    <2>4. TablesOK' /\ \A a \in Library : shelves'[a] = shelves[a]
      <3>1. sync.listed \ Library \in SUBSET Apps
        BY <2>2 DEF IInv, SyncOK
      <3> QED BY <2>2, <2>3, <3>1, ArriveTypes
    <2>5. EnvironmentOK'
      BY <2>2, EnvironmentKept DEF IInv, EnvironmentOK
    <2>6. SyncOK'
      <3>1. /\ sync.op \in {"full", "dlc"} /\ sync.listed \subseteq Apps /\ Reading(sync.read)
            /\ sync' = [op |-> sync.op, listed |-> sync.listed, read |-> sync.read,
                        locked |-> FALSE, half |-> TRUE]
        BY <2>2 DEF IInv, SyncOK
      <3>2. Reading(sync.read)'
        BY <2>3, <3>1 DEF Reading
      <3> QED BY <2>3, <3>1 DEF SyncOK, Reading
    <2> QED BY <2>2, <2>3, <2>4, <2>5, <2>6, WaitingKept, ActsKept, ReadingKept DEF IInv
  <1>2. CASE SyncCommits
    <2>1. PICK g : /\ g = games \/ \E news \in SUBSET Newsworthy : g = GamesPart(news)
                   /\ games' = DlcPart(g, owned \ sync.listed)
      BY <1>2 DEF SyncCommits
    <2>2. /\ sync # None /\ Arrive(Library' \ Library) /\ sync' = None
          /\ UNCHANGED <<Failing, Delisted, owned, worker, verifying, request, acts>>
      BY <1>2 DEF SyncCommits, Library
    <2>3. Library \subseteq DOMAIN g /\ DOMAIN g \subseteq Apps /\ \A a \in DOMAIN g : g[a] \in Game
      <3>1. sync.listed \subseteq Apps
        BY <2>2 DEF IInv, SyncOK
      <3>2. CASE g = games
        BY <3>2 DEF IInv, TablesOK, Library
      <3>3. CASE \E news \in SUBSET Newsworthy : g = GamesPart(news)
        BY <2>2, <3>1, <3>3, GamesPartTypes DEF IInv, TablesOK
      <3> QED BY <2>1, <3>2, <3>3
    <2>4. owned \ sync.listed \in SUBSET Apps
      BY DEF IInv, EnvironmentOK
    <2>5. Library' = DOMAIN g \cup (owned \ sync.listed) /\ \A a \in Library' : games'[a] \in Game
      BY <2>1, <2>3, <2>4, DlcPartTypes DEF Library
    <2>6. TablesOK' /\ \A a \in Library : shelves'[a] = shelves[a]
      <3>1. Library' \ Library \in SUBSET Apps /\ Library' = Library \cup (Library' \ Library)
        BY <2>3, <2>4, <2>5
      <3> QED BY <2>2, <2>5, <3>1, ArriveTypes
    <2>7. EnvironmentOK' /\ SyncOK' /\ Library \subseteq Library'
      BY <2>2, <2>3, <2>5 DEF IInv, EnvironmentOK, SyncOK
    <2> QED BY <2>2, <2>6, <2>7, WaitingKept, ActsKept, ReadingKept DEF IInv
  <1>3. CASE SyncFails
    <2>1. /\ sync' = None
          /\ UNCHANGED <<Failing, Delisted, owned, games, shelves, covers, born, worker, verifying, request, acts>>
      BY <1>3 DEF SyncFails
    <2>2. EnvironmentOK' /\ TablesOK' /\ SyncOK' /\ Library' = Library
      BY <2>1 DEF IInv, EnvironmentOK, TablesOK, SyncOK, Library
    <2> QED BY <2>1, <2>2, WaitingKept, ActsKept, ReadingKept DEF IInv
  <1> QED BY <1>1, <1>2, <1>3 DEF Syncing

\* The batch goes on with what is left of it.
LEMMA GoesOnTypes ==
  ASSUME IInv, Library' = Library, NEW a, NEW read, Reading(read), GoesOn(a, read)
  PROVE  WorkerOK'
  <1>1. \A f : Reading(f) => Reading(f)'
    BY DEF Reading
  <1>2. Reading(Nothing)'
    BY DEF Reading, Nothing
  <1>3. worker' \in {Asleep, [todo |-> worker.todo \ {a}, read |-> read]}
    BY DEF GoesOn
  <1> QED BY <1>1, <1>2, <1>3 DEF Asleep, IInv, WorkerOK

LEMMA CycleKeeps == ASSUME IInv, Cycle PROVE IInv'
  <1>1. CASE BatchBegins
    <2>1. PICK todo \in SUBSET Library : worker' = [todo |-> todo, read |-> [a \in todo |-> games[a]]]
      BY <1>1 DEF BatchBegins, Oldest, Unfetched
    <2>2. UNCHANGED <<Failing, Delisted, owned, games, shelves, covers, born, verifying, sync, request, acts>>
      BY <1>1 DEF BatchBegins
    <2>3. EnvironmentOK' /\ TablesOK' /\ Library' = Library
      BY <2>2 DEF IInv, EnvironmentOK, TablesOK, Library
    <2>4. WorkerOK'
      BY <2>1, <2>2, <2>3 DEF IInv, TablesOK, WorkerOK, Reading
    <2> QED BY <2>2, <2>3, <2>4, WaitingKept, ActsKept, ReadingKept DEF IInv
  <1>2. CASE Requeue
    <2>1. PICK turn \in SUBSET Library :
            games' = [a \in Library |-> IF a \in turn THEN [games[a] EXCEPT !.fetched = "no"] ELSE games[a]]
      BY <1>2 DEF Requeue
    <2>2. UNCHANGED <<Failing, Delisted, owned, shelves, covers, born, worker, verifying, sync, request, acts>>
      BY <1>2 DEF Requeue
    <2>3. Library' = Library /\ \A a \in Library : games'[a] \in Game
      BY <2>1 DEF IInv, TablesOK, Game, Library
    <2>4. EnvironmentOK' /\ TablesOK'
      BY <2>2, <2>3, TablesKept, EnvironmentKept DEF IInv, EnvironmentOK, TablesOK
    <2> QED BY <2>2, <2>3, <2>4, WaitingKept, ActsKept, ReadingKept DEF IInv
  <1> QED BY <1>1, <1>2 DEF Cycle

\* An app's answer: what it makes of games, shelf and cover, by whichever session wrote it.
LEMMA AnswerKeeps ==
  ASSUME IInv, NEW a \in Library, NEW read, Reading(read), NEW clears \in BOOLEAN, NEW kinds,
         games' = Details(read, a, clears, kinds),
         NEW s \in Shelf, shelves' = [shelves EXCEPT ![a] = s],
         covers' = [covers EXCEPT ![a] = Header(@, a)],
         UNCHANGED <<Failing, Delisted, owned, born>>
  PROVE  /\ EnvironmentOK' /\ TablesOK' /\ Library' = Library
         /\ shelves'[a] = s /\ \A b \in Library \ {a} : shelves'[b] = shelves[b]
  <1>1. a \in Apps
    BY DEF IInv, TablesOK
  <1>2. Library' = Library /\ \A b \in Library : games'[b] \in Game
    BY <1>1, DetailsTypes DEF IInv, Library
  <1>3. DOMAIN shelves' = Library /\ \A b \in Library : shelves'[b] \in Shelf
    BY DEF IInv, TablesOK
  <1>4. DOMAIN covers' = Library /\ \A b \in Library : covers'[b] \in Cover
    BY <1>1, HeaderTypes DEF IInv, TablesOK
  <1>5. EnvironmentOK' /\ TablesOK'
    BY <1>2, <1>3, <1>4, TablesKept, EnvironmentKept DEF IInv, EnvironmentOK
  <1> QED BY <1>2, <1>5 DEF IInv, TablesOK

\* Steam knows the app no more, which is noted.
LEMMA NotedKeeps ==
  ASSUME IInv, NEW a \in Library, games' = [games EXCEPT ![a].fetched = "fresh"],
         UNCHANGED <<Failing, Delisted, owned, shelves, covers, born>>
  PROVE  EnvironmentOK' /\ TablesOK' /\ Library' = Library
  <1>1. Library' = Library /\ \A b \in Library : games'[b] \in Game
    BY DEF IInv, TablesOK, Game, Library
  <1> QED BY <1>1, TablesKept, EnvironmentKept DEF IInv, TablesOK, EnvironmentOK

LEMMA BatchKeeps ==
  ASSUME IInv
  PROVE  /\ \A a \in Apps : Answered(a) \/ Unavailable(a) \/ TransientError(a) => IInv'
         /\ RateLimited => IInv'
  <1>1. ASSUME NEW a \in Apps, Answered(a) PROVE IInv'
    <2>0. PICK hide \in BOOLEAN :
            LET g == Told(Before(worker.read, a), a, TRUE)
            IN  hide = ShouldHide(g.name, Store[a].kind, g.dlc)
      BY HidesTypes
    <2>1. PICK s : s = HiddenIf(shelves[a], hide)
      OBVIOUS
    <2>2. /\ a \in worker.todo /\ shelves' = [shelves EXCEPT ![a] = s]
          /\ games' = Details(worker.read, a, TRUE, {"game", "dlc"})
          /\ covers' = [covers EXCEPT ![a] = Header(@, a)]
          /\ GoesOn(a, Nothing)
          /\ UNCHANGED <<Failing, Delisted, owned, born, verifying, sync, request, acts>>
      BY <1>1, <2>0, <2>1 DEF Answered, Asking
    <2>3. a \in Library /\ Reading(worker.read)
      BY <2>2 DEF IInv, WorkerOK
    <2>4. s \in Shelf /\ s.byUser = shelves[a].byUser
      BY <2>1, <2>3, HiddenFacts DEF IInv, TablesOK
    <2>5. /\ EnvironmentOK' /\ TablesOK' /\ Library' = Library
          /\ shelves'[a] = s /\ \A b \in Library \ {a} : shelves'[b] = shelves[b]
      BY <2>2, <2>3, <2>4, AnswerKeeps
    <2>6. WorkerOK'
      <3>1. Reading(Nothing)
        BY DEF Reading, Nothing
      <3> QED BY <2>2, <2>5, <3>1, GoesOnTypes
    <2> QED BY <2>2, <2>4, <2>5, <2>6, WaitingKept, ActsKept, ReadingKept DEF IInv
  <1>2. ASSUME NEW a \in Apps, Unavailable(a) PROVE IInv'
    <2>1. /\ a \in worker.todo /\ games' = [games EXCEPT ![a].fetched = "fresh"]
          /\ GoesOn(a, Nothing)
          /\ UNCHANGED <<Failing, Delisted, owned, shelves, covers, born, verifying, sync, request, acts>>
      BY <1>2 DEF Unavailable, Asking
    <2>2. a \in Library
      BY <2>1 DEF IInv, WorkerOK
    <2>3. EnvironmentOK' /\ TablesOK' /\ Library' = Library
      BY <2>1, <2>2, NotedKeeps
    <2>4. WorkerOK'
      <3>1. Reading(Nothing)
        BY DEF Reading, Nothing
      <3> QED BY <2>1, <2>3, <3>1, GoesOnTypes
    <2> QED BY <2>1, <2>3, <2>4, WaitingKept, ActsKept, ReadingKept DEF IInv
  <1>3. ASSUME NEW a \in Apps, TransientError(a) PROVE IInv'
    <2>1. /\ GoesOn(a, worker.read)
          /\ UNCHANGED <<Failing, Delisted, owned, games, shelves, covers, born, verifying, sync, request, acts>>
      BY <1>3 DEF TransientError
    <2>2. EnvironmentOK' /\ TablesOK' /\ Library' = Library
      BY <2>1 DEF IInv, EnvironmentOK, TablesOK, Library
    <2>3. WorkerOK'
      BY <2>1, <2>2, GoesOnTypes DEF IInv, WorkerOK
    <2> QED BY <2>1, <2>2, <2>3, WaitingKept, ActsKept, ReadingKept DEF IInv
  <1>4. ASSUME RateLimited PROVE IInv'
    <2>1. /\ worker' = Asleep
          /\ UNCHANGED <<Failing, Delisted, owned, games, shelves, covers, born, verifying, sync, request, acts>>
      BY <1>4 DEF RateLimited
    <2>2. EnvironmentOK' /\ TablesOK' /\ Library' = Library
      BY <2>1 DEF IInv, EnvironmentOK, TablesOK, Library
    <2>3. WorkerOK'
      BY <2>1 DEF WorkerOK, Asleep, Reading, Nothing
    <2> QED BY <2>1, <2>2, <2>3, WaitingKept, ActsKept, ReadingKept DEF IInv
  <1> QED BY <1>1, <1>2, <1>3, <1>4

\* A step that changes nothing but games, and keeps their number and types.
LEMMA GamesKeep ==
  ASSUME IInv, Library' = Library, \A a \in Library : games'[a] \in Game,
         UNCHANGED <<Failing, Delisted, owned, shelves, covers, born>>
  PROVE  EnvironmentOK' /\ TablesOK'
BY TablesKept, EnvironmentKept DEF IInv, TablesOK, EnvironmentOK

LEMMA AgesKeeps == ASSUME IInv, Ages PROVE IInv'
  <1>1. /\ games' = [a \in Library |-> IF a \in Fresh THEN [games[a] EXCEPT !.fetched = "stale"] ELSE games[a]]
        /\ UNCHANGED <<Failing, Delisted, owned, shelves, covers, born, worker, verifying, sync, request, acts>>
    BY DEF Ages
  <1>2. Library' = Library /\ \A a \in Library : games'[a] \in Game
    BY <1>1 DEF IInv, TablesOK, Game, Library
  <1> QED BY <1>1, <1>2, GamesKeep, WaitingKept, ActsKept, ReadingKept DEF IInv

LEMMA VerifyKeeps ==
  ASSUME IInv
  PROVE  /\ \A a \in Apps : VerifyReads(a) => IInv'
         /\ VerifyCommits \/ VerifyFails => IInv'
  <1>1. ASSUME NEW a \in Apps, VerifyReads(a) PROVE IInv'
    <2>1. /\ a \in Library /\ verifying' = [op |-> "verify", app |-> a, read |-> covers[a]]
          /\ UNCHANGED <<Failing, Delisted, owned, games, shelves, covers, born, worker, sync, request, acts>>
      BY <1>1 DEF VerifyReads
    <2>2. EnvironmentOK' /\ TablesOK' /\ Library' = Library
      BY <2>1 DEF IInv, EnvironmentOK, TablesOK, Library
    <2>3. VerifyingOK'
      BY <2>1, <2>2 DEF IInv, TablesOK, VerifyingOK
    <2> QED BY <2>1, <2>2, <2>3, WaitingKept, ActsKept, ReadingKept DEF IInv
  <1>2. ASSUME VerifyCommits PROVE IInv'
    <2>1. PICK a, new :
            /\ a = verifying.app
            /\ new = [verifying.read EXCEPT !.valid = Answers(a, verifying.read.url), !.checked = TRUE]
            /\ covers' = [covers EXCEPT ![a] = Flush(@, verifying.read, new)]
      BY <1>2 DEF VerifyCommits
    <2>2. /\ verifying # None /\ verifying' = None
          /\ UNCHANGED <<Failing, Delisted, owned, games, shelves, born, worker, sync, request, acts>>
      BY <1>2 DEF VerifyCommits
    <2>3. a \in Library /\ verifying.read \in Cover
      BY <2>1, <2>2 DEF IInv, VerifyingOK
    <2>4. new \in Cover
      <3>1. Answers(a, verifying.read.url) \in BOOLEAN
        BY DEF Answers
      <3> QED BY <2>1, <2>3, <3>1 DEF Cover
    <2>5. Flush(covers[a], verifying.read, new) \in Cover
      BY <2>3, <2>4, FlushTypes DEF IInv, TablesOK
    <2>6. DOMAIN covers' = Library /\ \A b \in Library : covers'[b] \in Cover
      BY <2>1, <2>3, <2>5 DEF IInv, TablesOK
    <2>7. EnvironmentOK' /\ TablesOK' /\ VerifyingOK' /\ Library' = Library
      BY <2>2, <2>6, TablesKept, EnvironmentKept DEF IInv, EnvironmentOK, TablesOK, VerifyingOK, Library
    <2> QED BY <2>2, <2>7, WaitingKept, ActsKept, ReadingKept DEF IInv
  <1>3. ASSUME VerifyFails PROVE IInv'
    <2>1. /\ verifying' = None
          /\ UNCHANGED <<Failing, Delisted, owned, games, shelves, covers, born, worker, sync, request, acts>>
      BY <1>3 DEF VerifyFails
    <2>2. EnvironmentOK' /\ TablesOK' /\ VerifyingOK' /\ Library' = Library
      BY <2>1 DEF IInv, EnvironmentOK, TablesOK, VerifyingOK, Library
    <2> QED BY <2>1, <2>2, WaitingKept, ActsKept, ReadingKept DEF IInv
  <1> QED BY <1>1, <1>2, <1>3

\* A request that is over waits for nothing.
LEMMA RequestOver == request' = None => RequestOK' /\ ShelfAsRead'
BY DEF RequestOK, ShelfAsRead

LEMMA RequestBegins ==
  ASSUME IInv
  PROVE  /\ \A a \in Apps : RefreshReads(a) => IInv'
         /\ LegacyReads => IInv'
  <1>1. ASSUME NEW a \in Apps, RefreshReads(a) PROVE IInv'
    <2>1. /\ a \in Library /\ Press
          /\ request' = [op |-> "refresh", app |-> a, read |-> [b \in {a} |-> games[b]], shelf |-> shelves[a]]
          /\ UNCHANGED <<Failing, Delisted, owned, games, shelves, covers, born, worker, verifying, sync>>
      BY <1>1 DEF RefreshReads
    <2>2. EnvironmentOK' /\ TablesOK' /\ Library' = Library
      BY <2>1 DEF IInv, EnvironmentOK, TablesOK, Library
    <2>3. RequestOK' /\ ShelfAsRead'
      BY <2>1, <2>2 DEF IInv, TablesOK, RequestOK, ShelfAsRead, Reading
    <2> QED BY <2>1, <2>2, <2>3, WaitingKept, ActsKept DEF IInv
  <1>2. ASSUME LegacyReads PROVE IInv'
    <2>1. PICK asked \in SUBSET Library : request' = [op |-> "legacy", read |-> [a \in asked |-> games[a]]]
      BY <1>2 DEF LegacyReads
    <2>2. Press /\ UNCHANGED <<Failing, Delisted, owned, games, shelves, covers, born, worker, verifying, sync>>
      BY <1>2 DEF LegacyReads
    <2>3. EnvironmentOK' /\ TablesOK' /\ Library' = Library
      BY <2>2 DEF IInv, EnvironmentOK, TablesOK, Library
    <2>4. RequestOK' /\ ShelfAsRead'
      BY <2>1, <2>2, <2>3 DEF IInv, TablesOK, RequestOK, ShelfAsRead, Reading
    <2> QED BY <2>2, <2>3, <2>4, WaitingKept, ActsKept DEF IInv
  <1> QED BY <1>1, <1>2

\* What the refresh of an entry makes of its shelf, as it was read and as it is.
LEMMA RefreshShelf ==
  ASSUME IInv, RefreshAnswered
  PROVE  /\ request.app \in Library
         /\ \E s \in Shelf :
               /\ shelves' = [shelves EXCEPT ![request.app] = s]
               /\ s.byUser = shelves[request.app].byUser
               /\ ~Hasty /\ shelves[request.app].byUser => s = shelves[request.app]
  <1>1. PICK a, old, cur, hide :
          /\ a = request.app /\ old = request.shelf /\ cur = shelves[a] /\ hide \in BOOLEAN
          /\ shelves' = [shelves EXCEPT ![a] = Flush(@, old, HiddenIf(old, hide))]
    BY HidesTypes DEF RefreshAnswered
  <1>2. request # None /\ request.op = "refresh"
    BY DEF RefreshAnswered
  <1>3. a \in Library /\ old \in Shelf /\ cur \in Shelf
    BY <1>1, <1>2 DEF IInv, RequestOK, Reading, TablesOK
  <1>4. PICK new : new = HiddenIf(old, hide)
    OBVIOUS
  <1>5. new \in Shelf /\ new.byUser = old.byUser /\ (old.byUser => new = old)
    BY <1>1, <1>3, <1>4, HiddenFacts
  <1>6. PICK s : s = Flush(cur, old, new)
    OBVIOUS
  <1>7. s \in Shelf /\ s.byUser = cur.byUser /\ (old.byUser => s = cur)
    BY <1>3, <1>5, <1>6, FlushTypes
  <1>8. ~Hasty /\ cur.byUser => old.byUser
    BY <1>1, <1>2 DEF IInv, ShelfAsRead
  <1>9. shelves' = [shelves EXCEPT ![a] = s]
    BY <1>1, <1>4, <1>6
  <1> QED BY <1>1, <1>3, <1>7, <1>8, <1>9

LEMMA RequestedKeeps == ASSUME IInv, Requested PROVE IInv'
  <1>1. CASE RefreshAnswered
    <2>0. PICK a : a = request.app
      OBVIOUS
    <2>1. PICK s \in Shelf : a \in Library /\ shelves' = [shelves EXCEPT ![a] = s]
      BY <1>1, <2>0, RefreshShelf
    <2>2. /\ request # None /\ request' = None
          /\ games' = Details(request.read, a, FALSE, {"game"})
          /\ covers' = [covers EXCEPT ![a] = Header(@, a)]
          /\ UNCHANGED <<Failing, Delisted, owned, born, worker, verifying, sync, acts>>
      BY <1>1, <2>0 DEF RefreshAnswered
    <2>3. Reading(request.read)
      BY <2>2 DEF IInv, RequestOK
    <2>4. EnvironmentOK' /\ TablesOK' /\ Library' = Library
      BY <2>1, <2>2, <2>3, AnswerKeeps
    <2> QED BY <2>2, <2>4, RequestOver, WaitingKept, ActsKept DEF IInv
  <1>2. CASE RefreshUnavailable
    <2>1. /\ request # None /\ request.op = "refresh" /\ request' = None
          /\ games' = [games EXCEPT ![request.app].fetched = "fresh"]
          /\ UNCHANGED <<Failing, Delisted, owned, shelves, covers, born, worker, verifying, sync, acts>>
      BY <1>2 DEF RefreshUnavailable
    <2>2. request.app \in Library
      BY <2>1 DEF IInv, RequestOK, Reading
    <2>3. EnvironmentOK' /\ TablesOK' /\ Library' = Library
      BY <2>1, <2>2, NotedKeeps
    <2> QED BY <2>1, <2>3, RequestOver, WaitingKept, ActsKept DEF IInv
  <1>3. CASE LegacyCommits
    <2>1. PICK answered \in SUBSET DOMAIN request.read :
             games' = [a \in Library |->
                         IF a \in answered
                         THEN Flush(games[a], request.read[a], Detected(request.read[a], a)) ELSE games[a]]
      BY <1>3 DEF LegacyCommits
    <2>2. /\ request # None /\ request' = None
          /\ UNCHANGED <<Failing, Delisted, owned, shelves, covers, born, worker, verifying, sync, acts>>
      BY <1>3 DEF LegacyCommits
    <2>3. ASSUME NEW a \in Library PROVE games'[a] \in Game
      <3>1. games[a] \in Game /\ a \in Apps
        BY DEF IInv, TablesOK
      <3>2. CASE a \in answered
        <4>1. PICK old : old = request.read[a]
          OBVIOUS
        <4>2. old \in Game
          BY <2>1, <2>2, <3>2, <4>1 DEF IInv, RequestOK, Reading
        <4>3. Detected(old, a) \in Game
          BY <3>1, <4>2, DetectedTypes DEF IInv, TablesOK
        <4> QED BY <2>1, <3>1, <3>2, <4>1, <4>2, <4>3, FlushTypes
      <3> QED BY <2>1, <3>1, <3>2
    <2>4. Library' = Library
      BY <2>1 DEF Library
    <2>5. EnvironmentOK' /\ TablesOK'
      BY <2>2, <2>3, <2>4, GamesKeep
    <2> QED BY <2>2, <2>4, <2>5, RequestOver, WaitingKept, ActsKept DEF IInv
  <1>4. CASE RequestFails
    <2>1. /\ request' = None
          /\ UNCHANGED <<Failing, Delisted, owned, games, shelves, covers, born, worker, verifying, sync, acts>>
      BY <1>4 DEF RequestFails
    <2>2. EnvironmentOK' /\ TablesOK' /\ Library' = Library
      BY <2>1 DEF IInv, EnvironmentOK, TablesOK, Library
    <2> QED BY <2>1, <2>2, RequestOver, WaitingKept, ActsKept DEF IInv
  <1> QED BY <1>1, <1>2, <1>3, <1>4 DEF Requested

LEMMA EditKeeps == ASSUME IInv, NEW a \in Apps, Edit(a) PROVE IInv'
  <1>1. PICK dlc \in BOOLEAN, coll \in BOOLEAN, parent \in Library \cup {NoApp} :
          games' = [games EXCEPT ![a].dlc = dlc, ![a].coll = coll, ![a].parent = parent, ![a].edited = TRUE]
    BY DEF Edit
  <1>2. /\ a \in Library /\ Press
        /\ UNCHANGED <<Failing, Delisted, owned, shelves, covers, born, worker, verifying, sync, request>>
    BY DEF Edit
  <1>3. Library' = Library
    BY <1>1 DEF Library
  <1>4. ASSUME NEW b \in Library PROVE games'[b] \in Game
    <2>1. games[b] \in Game /\ parent \in Apps \cup {NoApp}
      BY DEF IInv, TablesOK
    <2> QED BY <1>1, <1>2, <2>1 DEF Game, Library
  <1> QED BY <1>2, <1>3, <1>4, GamesKeep, WaitingKept, ActsKept, ReadingKept DEF IInv

LEMMA HideKeeps ==
  ASSUME IInv, NEW S \in SUBSET Apps, NEW hidden \in BOOLEAN, Hide(S, hidden) PROVE IInv'
  <1>1. /\ Free /\ Press
        /\ shelves' = [a \in Library |-> IF a \in S THEN [hidden |-> hidden, byUser |-> TRUE] ELSE shelves[a]]
        /\ UNCHANGED <<Failing, Delisted, owned, games, covers, born, worker, verifying, sync, request>>
    BY DEF Hide
  <1>2. DOMAIN shelves' = Library /\ \A a \in Library : shelves'[a] \in Shelf
    BY <1>1 DEF IInv, TablesOK, Shelf
  <1>3. EnvironmentOK' /\ TablesOK' /\ Library' = Library
    BY <1>1, <1>2, TablesKept, EnvironmentKept DEF IInv, TablesOK, EnvironmentOK, Library
  <1>4. ShelfAsRead'
    BY <1>1 DEF Free, ShelfAsRead
  <1> QED BY <1>1, <1>3, <1>4, WaitingKept, ActsKept DEF IInv

\* The heuristic goes through what is there, and hides nothing the user showed.
LEMMA BackfillShelves ==
  ASSUME IInv, BackfillHidden
  PROVE  /\ DOMAIN shelves' = Library
         /\ \A a \in Library : /\ shelves'[a] \in Shelf /\ shelves'[a].byUser = shelves[a].byUser
                               /\ shelves[a].byUser => shelves'[a] = shelves[a]
  <1>1. shelves' = [a \in Library |->
           LET kind == IF games[a].told = "all" THEN Store[a].kind ELSE "unknown"
           IN  HiddenIf(shelves[a], ShouldHide(games[a].name, kind, games[a].dlc))]
    BY DEF BackfillHidden
  <1>2. ASSUME NEW a \in Library
        PROVE  /\ shelves'[a] \in Shelf /\ shelves'[a].byUser = shelves[a].byUser
               /\ shelves[a].byUser => shelves'[a] = shelves[a]
    <2>1. PICK hide \in BOOLEAN : shelves'[a] = HiddenIf(shelves[a], hide)
      BY <1>1, HidesTypes
    <2> QED BY <2>1, HiddenFacts DEF IInv, TablesOK
  <1> QED BY <1>1, <1>2

LEMMA ToolsKeep ==
  ASSUME IInv, BackfillHidden \/ BackfillCollections \/ EnrichmentRefresh \/ RequeueBroken
  PROVE  IInv'
  <1>1. CASE BackfillHidden
    <2>1. Press /\ UNCHANGED <<Failing, Delisted, owned, games, covers, born, worker, verifying, sync, request>>
      BY <1>1 DEF BackfillHidden
    <2>2. EnvironmentOK' /\ TablesOK' /\ Library' = Library
      BY <1>1, <2>1, BackfillShelves, TablesKept, EnvironmentKept DEF IInv, TablesOK, EnvironmentOK, Library
    <2>3. \A a \in Library : shelves'[a].byUser = shelves[a].byUser
      BY <1>1, BackfillShelves
    <2> QED BY <2>1, <2>2, <2>3, WaitingKept, ActsKept, ReadingKept DEF IInv
  <1>2. CASE BackfillCollections
    <2>1. /\ Press /\ UNCHANGED <<Failing, Delisted, owned, shelves, covers, born, worker, verifying, sync, request>>
          /\ games' = [a \in Library |->
               IF games[a].edited THEN games[a]
               ELSE [games[a] EXCEPT !.coll = ~games[a].dlc /\ ReadsLikeCollection(a, games[a].name)]]
      BY <1>2 DEF BackfillCollections
    <2>2. Library' = Library
      BY <2>1 DEF Library
    <2>3. ASSUME NEW a \in Library PROVE games'[a] \in Game
      <3>1. games[a] \in Game
        BY DEF IInv, TablesOK
      <3>2. (~games[a].dlc /\ ReadsLikeCollection(a, games[a].name)) \in BOOLEAN
        BY DEF ReadsLikeCollection
      <3> QED BY <2>1, <3>1, <3>2 DEF Game
    <2> QED BY <2>1, <2>2, <2>3, GamesKeep, WaitingKept, ActsKept, ReadingKept DEF IInv
  <1>3. ASSUME NEW S, Queued(S) PROVE IInv'
    <2>1. /\ Press /\ UNCHANGED <<Failing, Delisted, owned, shelves, covers, born, worker, verifying, sync, request>>
          /\ games' = [a \in Library |-> IF a \in S THEN [games[a] EXCEPT !.fetched = "no"] ELSE games[a]]
      BY <1>3 DEF Queued
    <2>2. Library' = Library /\ \A a \in Library : games'[a] \in Game
      BY <2>1 DEF IInv, TablesOK, Game, Library
    <2> QED BY <2>1, <2>2, GamesKeep, WaitingKept, ActsKept, ReadingKept DEF IInv
  <1> QED BY <1>1, <1>2, <1>3 DEF EnrichmentRefresh, RequeueBroken

LEMMA RestartKeeps == ASSUME IInv, Restart PROVE IInv'
  <1>1. /\ Press /\ UNCHANGED <<Failing, Delisted, owned, games, shelves, covers, born>>
        /\ worker' = Asleep /\ verifying' = None /\ sync' = None /\ request' = None
    BY DEF Restart
  <1>2. EnvironmentOK' /\ TablesOK' /\ Library' = Library
    BY <1>1 DEF IInv, EnvironmentOK, TablesOK, Library
  <1>3. WorkerOK' /\ VerifyingOK' /\ SyncOK'
    BY <1>1 DEF WorkerOK, Asleep, Reading, Nothing, VerifyingOK, SyncOK
  <1> QED BY <1>1, <1>2, <1>3, RequestOver, ActsKept DEF IInv

LEMMA InitInv == Init => IInv
  <1> SUFFICES ASSUME Init PROVE IInv
    OBVIOUS
  <1>1. EnvironmentOK /\ TablesOK
    BY DEF Init, EnvironmentOK, TablesOK, Library, Nothing
  <1>2. WorkerOK /\ VerifyingOK /\ SyncOK /\ RequestOK /\ ShelfAsRead
    BY DEF Init, WorkerOK, Asleep, Reading, Nothing, VerifyingOK, SyncOK, RequestOK, ShelfAsRead
  <1>3. acts \in 0..MaxActs
    BY SteamAssumption DEF Init
  <1> QED BY <1>1, <1>2, <1>3 DEF IInv

LEMMA NextInv == IInv /\ [Next]_vars => IInv'
  <1> SUFFICES ASSUME IInv, [Next]_vars PROVE IInv'
    OBVIOUS
  <1>1. CASE UNCHANGED vars
    <2>1. UNCHANGED <<Failing, Delisted, owned, games, shelves, covers, born, worker, verifying, sync, request, acts>>
      BY <1>1 DEF vars
    <2>2. EnvironmentOK' /\ TablesOK' /\ Library' = Library
      BY <2>1 DEF IInv, EnvironmentOK, TablesOK, Library
    <2> QED BY <2>1, <2>2, WaitingKept, ActsKept, ReadingKept DEF IInv
  <1> QED BY <1>1, BuysKeeps, EditKeeps, RequestBegins, VerifyKeeps, SyncGamesKeeps, SyncBeginsKeeps,
             SyncingKeeps, CycleKeeps, BatchKeeps, AgesKeeps, RequestedKeeps, HideKeeps, ToolsKeep,
             RestartKeeps DEF Next

THEOREM InductiveInvariant == Spec => []IInv
BY InitInv, NextInv, PTL DEF Spec

-----------------------------------------------------------------------------
(* What it gives *)

\* Games, shelves and covers are one to one, their columns in range, and what waits for
\* Steam has read games there are, whatever syncs, batches, edits and restarts meet
\* (steam.py, models.py).
THEOREM TypeCorrect == Spec => []TypeOK
BY Types, InductiveInvariant, PTL

\* A step leaves the shelves the user decided alone, or is a decision.
LEMMA DecidedStay ==
  ASSUME ~Hasty, IInv, [Next]_vars, NEW a \in Library, shelves[a].byUser
  PROVE  shelves'[a] = shelves[a] \/ \E S \in SUBSET Apps, hidden \in BOOLEAN : Hide(S, hidden)
  <1>1. CASE UNCHANGED shelves
    BY <1>1
  <1>2. ASSUME NEW N, Arrive(N) PROVE shelves'[a] = shelves[a]
    BY <1>2 DEF Arrive
  <1>3. CASE RefreshAnswered
    BY <1>3, RefreshShelf DEF IInv, TablesOK
  <1>4. CASE BackfillHidden
    BY <1>4, BackfillShelves
  <1>5. ASSUME NEW b \in Apps, Answered(b) PROVE shelves'[a] = shelves[a]
    <2>1. PICK hide \in BOOLEAN : shelves' = [shelves EXCEPT ![b] = HiddenIf(@, hide)]
      BY <1>5, HidesTypes DEF Answered
    <2> QED BY <2>1, HiddenFacts DEF IInv, TablesOK
  <1>6. CASE \E S \in SUBSET Apps, hidden \in BOOLEAN : Hide(S, hidden)
    BY <1>6
  <1>7. SyncGames \/ Syncing => UNCHANGED shelves \/ \E N : Arrive(N)
    BY DEF SyncGames, Syncing, SyncRenews, SyncCommits, SyncFails
  <1>8. /\ \A b \in Apps : Buys(b) \/ Edit(b) \/ RefreshReads(b) \/ VerifyReads(b) => UNCHANGED shelves
        /\ \A b \in Apps : Unavailable(b) \/ TransientError(b) => UNCHANGED shelves
        /\ \A op : SyncBegins(op) => UNCHANGED shelves
    BY DEF Buys, Edit, RefreshReads, VerifyReads, Unavailable, TransientError, SyncBegins
  <1>9. Cycle \/ RateLimited \/ Ages \/ VerifyCommits \/ VerifyFails \/ LegacyReads => UNCHANGED shelves
    BY DEF Cycle, BatchBegins, Requeue, RateLimited, Ages, VerifyCommits, VerifyFails, LegacyReads
  <1>10. RefreshUnavailable \/ LegacyCommits \/ RequestFails => UNCHANGED shelves
    BY DEF RefreshUnavailable, LegacyCommits, RequestFails
  <1>11. BackfillCollections \/ EnrichmentRefresh \/ RequeueBroken \/ Restart => UNCHANGED shelves
    BY DEF BackfillCollections, EnrichmentRefresh, RequeueBroken, Queued, Restart
  <1>12. UNCHANGED vars => UNCHANGED shelves
    BY DEF vars
  <1> QED BY <1>1, <1>2, <1>3, <1>4, <1>5, <1>6, <1>7, <1>8, <1>9, <1>10, <1>11, <1>12 DEF Next, Requested

\* No batch, refresh, backfill or sync hides or shows again what the user showed or hid by
\* hand (steam.py:943), while they decide nothing when a request of theirs waits: a
\* refresh goes by the flag it read.
THEOREM HandsStand ==
  ASSUME ~Hasty
  PROVE  Spec => HideStands
  <1>1. IInv /\ [Next]_vars =>
          [\A a \in Library : shelves[a].byUser =>
             shelves'[a] = shelves[a] \/ \E S \in SUBSET Apps, hidden \in BOOLEAN : Hide(S, hidden)]_vars
    BY DecidedStay
  <1> QED BY <1>1, InductiveInvariant, PTL DEF Spec, HideStands
=============================================================================
