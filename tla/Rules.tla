--------------------------------- MODULE Rules ---------------------------------
(***************************************************************************)
(* What the rules of PsnRules and ImportRules promise.  Each behaviour      *)
(* picks one input of the program (an account's feeds, a review queue, a    *)
(* search at IGDB, a title of a sheet, a sheet that grows), and each        *)
(* property is about what the rules make of it.                             *)
(***************************************************************************)
EXTENDS PsnRules, ImportRules

CONSTANTS Bought, TrophySets, Plays, MaxFeed,  \* what Sony's feeds list, how much of it at once
          Queues,                              \* sets of review records
          Names, Hits, MaxHits, Days,          \* titles searched, IGDB's answers, days of trophies (0 for none)
          Entries, MaxLibrary, Titles,         \* library entries and titles of the sheet
          SheetRows, MaxRows, Tabs             \* rows of a sheet, the years tabs say

Hit == [name : Seq(STRING), kind : STRING, released : Nat, shared : BOOLEAN, parent : Seq(STRING)]

Purchase  == [title : STRING, product : STRING, name : STRING, plats : SUBSET STRING, demo : BOOLEAN]
TrophySet == [np : STRING, name : STRING, plats : SUBSET STRING]
Play      == [title : STRING, name : STRING, plat : STRING, concept : Seq(STRING), time : Nat]

\* Title ids, product ids, set ids and names differ in form, and a set is listed once.
TitleIds == {p.title : p \in Bought \cup Plays} \ {None}
Products == {p.product : p \in Bought} \ {None}
SetIds   == {t.np : t \in TrophySets}
NamesFed == {x.name : x \in Bought \cup TrophySets \cup Plays} \ {None}

ASSUME FeedsAreFeeds ==
    /\ Bought \subseteq Purchase /\ TrophySets \subseteq TrophySet /\ Plays \subseteq Play
    /\ None \notin SetIds
    /\ \A s, t \in TrophySets : s.np = t.np => s = t
    /\ TitleIds \cap (Products \cup NamesFed) = {}
    /\ SetIds \cap (TitleIds \cup Products \cup NamesFed) = {}
ASSUME HitsAreHits == Hits \subseteq Hit /\ Names \subseteq Seq(STRING) /\ Days \subseteq Nat
ASSUME EntriesNumbered == \A e \in Entries : e.id \in Nat
ASSUME RecordsNumbered ==
    \A q \in Queues : /\ IsFiniteSet(q)
                      /\ \A c \in q : c.id \in Nat \ {0}
                      /\ \A c, d \in q : c.id = d.id => c = d
ASSUME BoundsAreNumbers == MaxFeed \in Nat /\ MaxHits \in Nat /\ MaxLibrary \in Nat /\ MaxRows \in Nat

VARIABLES subject, input
vars == <<subject, input>>

UpTo(S, n) == UNION {[1..k -> S] : k \in 0..n}
OneEach(s) == \A i, j \in DOMAIN s : i # j => s[i] # s[j]

Init == subject \in {"feeds", "queue", "name", "title", "sheet"} /\ input = <<>>

PickFeeds == \E p \in UpTo(Bought, MaxFeed), t \in UpTo(TrophySets, MaxFeed), y \in UpTo(Plays, MaxFeed) :
                OneEach(t) /\ input' = <<p, t, y>>
PickQueue == \E q \in Queues : input' = <<q>>
PickName  == \E n \in Names, h \in UpTo(Hits, MaxHits), earned \in Days : input' = <<n, h, earned>>
PickTitle == \E L \in SUBSET Entries, t \in Titles : Cardinality(L) <= MaxLibrary /\ input' = <<L, t>>
PickSheet == \E rows \in UpTo(SheetRows, MaxRows), tab \in Tabs : \E n \in 0..Len(rows) : \E m \in 0..n :
                input' = <<rows, tab, m, n>>

Next == /\ input = <<>> /\ UNCHANGED subject
        /\ \/ subject = "feeds" /\ PickFeeds
           \/ subject = "queue" /\ PickQueue
           \/ subject = "name" /\ PickName
           \/ subject = "title" /\ PickTitle
           \/ subject = "sheet" /\ PickSheet

Spec == Init /\ [][Next]_vars

-----------------------------------------------------------------------------
(* Properties: what the rules make of the picked input *)

Picked(s) == subject = s /\ input # <<>>

\* No trophy set and no minute played is lost or counted twice, and no two sets are
\* joined, when the four feeds of a PSN account are merged (psn.py:577-763).
MergeLosesNothing == Picked("feeds") => NothingLost(input[1], input[2], input[3])

\* The review page asks about each record once, splits a game only where its sets share a
\* platform, a full confirmation gives every set an entry, and the rows of one game,
\* confirmed as they come, claim no platform twice (psn.py:2284-2411, 2596-2973).
OneRowPerGame == Picked("queue") => OneQuestionPerGame(input[1]) /\ NoneTickedTwice(input[1])

\* The name proposed for a set is the same however IGDB ranks its hits, was out when the
\* trophies were earned, and is no sequel's (psn.py:3692-3867).
NameByRules == Picked("name") => RankingIsNotIdentity(input[1], input[2], input[3])

\* No pass of the importer's search matches a title to another number of its series
\* (importer.py:423-813).
SequelsApart == Picked("title") => NeverASequel(input[1], input[2])

\* A sheet imported again, grown and confirmed in between, proposes each completion
\* exactly once (importer.py:998-1104, 1292-1392).
EachProposedOnce == Picked("sheet") => ProposedOnce(input[1], input[2], input[3], input[4])
=============================================================================
