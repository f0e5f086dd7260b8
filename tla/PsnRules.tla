-------------------------------- MODULE PsnRules --------------------------------
(***************************************************************************)
(* The rules of backend/psn.py that PsnReview takes for granted: how three *)
(* feeds become one list (merge_library), how records become one question  *)
(* per game (group_review_candidates), which record an entry is made from  *)
(* (_platform_owner), and which name IGDB is believed on (build_proposal). *)
(*                                                                         *)
(* Names are compared as normalize_for_match leaves them: a record's name  *)
(* is one value, a proposal's is a sequence of words.  None is "".         *)
(***************************************************************************)
EXTENDS Integers, Sequences, FiniteSets, SequencesExt

CONSTANT Digits  \* the words that are numbers

None == ""

\* First element of s that passes, as a sequence of at most one.
FirstThat(s, Test(_)) ==
    LET hits == {i \in DOMAIN s : Test(s[i])}
    IN  IF hits = {} THEN <<>> ELSE <<s[CHOOSE i \in hits : \A j \in hits : i <= j]>>

\* Python's "a or b".
Or(a, b) == IF a # None THEN a ELSE b

-----------------------------------------------------------------------------
(* merge_library.  The list is a dict in insertion order: pairs of key and item. *)

Lookup(lib, key) == FirstThat(lib, LAMBDA x : x.key = key)
Put(lib, key, item) ==
    IF Lookup(lib, key) = <<>> THEN Append(lib, [key |-> key, item |-> item])
    ELSE [i \in DOMAIN lib |-> IF lib[i].key = key THEN [key |-> key, item |-> item] ELSE lib[i]]
Values(lib) == [i \in DOMAIN lib |-> lib[i].item]

Item(title, np, product, name, plats, sources, join, minutes) ==
    [title |-> title, np |-> np, product |-> product, name |-> name, plats |-> plats,
     sources |-> sources, join |-> join, minutes |-> minutes]
Blank == Item(None, None, None, None, {}, {}, None, <<>>)

\* _platforms_compatible: no opinion is no objection.
Compatible(p, q) == p = {} \/ q = {} \/ p \cap q # {}

\* _find_by_any_id, the ids in order, among the items that may be of these platforms.
FindByAnyId(items, ids, plats) ==
    LET hit(id) == FirstThat(items, LAMBDA v : /\ id # None
                                               /\ id \in {v.title, v.np, v.product}
                                               /\ Compatible(v.plats, plats))
        found   == FirstThat(ids, LAMBDA id : hit(id) # <<>>)
    IN  IF found = <<>> THEN <<>> ELSE hit(found[1])

FindByName(items, name, plats) ==
    FirstThat(items, LAMBDA v : name # None /\ v.name = name /\ Compatible(v.plats, plats))

\* demo_title_ids: ids that only a demo is sold under.
StoreIds(S) == (UNION {{p.title, p.product} : p \in S}) \ {None}
DemoIds(ps) == StoreIds({p \in ToSet(ps) : p.demo}) \ StoreIds({p \in ToSet(ps) : ~p.demo})

AddPurchase(lib, p) ==
    Put(lib, Or(p.title, Or(p.product, p.name)),
        Item(p.title, None, p.product, p.name, p.plats, {"purchased"}, None, <<>>))

\* A trophy set joins what was found before the loop, unless a set of another id is in that place.
JoinSet(lib, found, by, t) ==
    LET slot  == IF found = <<>> THEN t.np ELSE Or(found[1].title, Or(found[1].np, t.np))
        alone == found = <<>> \/ \E i \in DOMAIN lib : lib[i].key = slot /\ lib[i].item.np \notin {None, t.np}
        base  == IF alone THEN Blank ELSE found[1]
    IN  Put(lib, IF alone THEN t.np ELSE slot,
            Item(base.title, Or(base.np, t.np), base.product, t.name, IF t.plats # {} THEN t.plats ELSE base.plats,
                 base.sources \cup {"titles"}, IF alone THEN None ELSE by, base.minutes))

AddSet(before, lib, t) ==
    IF FindByAnyId(before, <<t.np>>, {}) # <<>> THEN JoinSet(lib, FindByAnyId(before, <<t.np>>, {}), "id", t)
    ELSE JoinSet(lib, FindByName(before, t.name, t.plats), "name", t)

PlaySlot(base, p) == Or(base.title, Or(base.np, Or(p.title, p.name)))
WithPlay(base, minutes, p) ==
    Item(Or(base.title, p.title), base.np, base.product, Or(base.name, p.name), base.plats,
         base.sources \cup {"played"}, base.join, Append(minutes, [plat |-> p.plat, time |-> p.time]))

\* Mutant: the minutes are added to what the list held before the loop.
JoinPlayStale(lib, base, p) == Put(lib, PlaySlot(base, p), WithPlay(base, base.minutes, p))

\* A play record's minutes are added to what its slot holds by now.
JoinPlay(lib, base, p) ==
    LET live == Lookup(lib, PlaySlot(base, p))
    IN  Put(lib, PlaySlot(base, p), WithPlay(base, IF live # <<>> THEN live[1].item.minutes ELSE base.minutes, p))

\* A play record's item: by its id, by its concept's family on the same platform, by name.
PlayOf(before, p) ==
    LET byId   == FindByAnyId(before, <<p.title>>, {})
        family == FindByAnyId(before, p.concept, {p.plat})
        named  == FindByName(before, p.name, {p.plat})
    IN  CASE byId # <<>> -> byId[1]
          [] byId = <<>> /\ family # <<>> -> family[1]
          [] byId = <<>> /\ family = <<>> /\ named # <<>> -> named[1]
          [] OTHER -> Blank

AddPlay(before, lib, p) == JoinPlay(lib, PlayOf(before, p), p)

\* The list after the first k of each feed; demos are passed over.
WithPurchases(purchased) ==
    LET lib[k \in 0..Len(purchased)] ==
            IF k = 0 THEN <<>>
            ELSE IF purchased[k].demo THEN lib[k - 1] ELSE AddPurchase(lib[k - 1], purchased[k])
    IN  lib
WithSets(bought, titles) ==
    LET lib[k \in 0..Len(titles)] == IF k = 0 THEN bought ELSE AddSet(Values(bought), lib[k - 1], titles[k])
    IN  lib
WithPlays(sets, played, demos) ==
    LET lib[k \in 0..Len(played)] ==
            IF k = 0 THEN sets
            ELSE IF played[k].title \in demos THEN lib[k - 1] ELSE AddPlay(Values(sets), lib[k - 1], played[k])
    IN  lib

MergeLibrary(purchased, titles, played) ==
    LET bought == WithPurchases(purchased)[Len(purchased)]
        sets   == WithSets(bought, titles)[Len(titles)]
    IN  Values(WithPlays(sets, played, DemoIds(purchased))[Len(played)])

\* Sums of the first k numbers.
Sums(s) ==
    LET sum[k \in 0..Len(s)] == IF k = 0 THEN 0 ELSE sum[k - 1] + s[k]
    IN  sum
Total(s) == Sums(s)[Len(s)]

TimeOn(minutes, plat) == Total([i \in DOMAIN minutes |-> IF minutes[i].plat = plat THEN minutes[i].time ELSE 0])
MinutesOf(items, plat) == Total([i \in DOMAIN items |-> TimeOn(items[i].minutes, plat)])
Recorded(played, demos, plat) ==
    [i \in DOMAIN played |-> IF played[i].title \notin demos /\ played[i].plat = plat THEN played[i].time ELSE 0]

\* "Never fold two trophy sets into one item" (psn.py:620), nor lose time played: each set
\* is one item's and keeps its platforms, and every minute of a kept record is some item's.
NothingLost(purchased, titles, played) ==
    LET items == MergeLibrary(purchased, titles, played)
    IN  /\ \A i \in DOMAIN titles : \E j \in DOMAIN items :
              /\ items[j].np = titles[i].np
              /\ titles[i].plats # {} => items[j].plats = titles[i].plats
              /\ \A k \in DOMAIN items : items[k].np = titles[i].np => k = j
        /\ \A plat \in {played[i].plat : i \in DOMAIN played} :
              MinutesOf(items, plat) = Total(Recorded(played, DemoIds(purchased), plat))

-----------------------------------------------------------------------------
(* group_review_candidates.  A candidate: its id, its trophy set or None, the       *)
(* platforms it covers, the one it was bought for or None, its IGDB id (0 without), *)
(* whether that was refused, its name, and where it was seen.                       *)

Resolved(c) == c.igdb # 0 /\ ~c.rejected
\* The IGDB games that candidates of this name were resolved to.
GamesNamed(cands, name) == {c.igdb : c \in {x \in cands : Resolved(x) /\ x.name = name}}

\* The unresolved join the resolved of their name where those are one game.
Bucket(cands, c) ==
    LET named == GamesNamed(cands, c.name)
    IN  CASE Resolved(c) -> <<"game", c.igdb, None>>
          [] ~Resolved(c) /\ c.name # None /\ Cardinality(named) = 1 -> <<"game", CHOOSE g \in named : TRUE, None>>
          [] ~Resolved(c) /\ c.name # None /\ Cardinality(named) # 1 -> <<"name", 0, c.name>>
          [] ~Resolved(c) /\ c.name = None -> <<"alone", c.id, None>>

Clashes(c, d) == c.np # d.np /\ c.plats \cap d.plats # {}

\* Mutant: records are one game's whenever their name is.
PlaceTogether(subs, c) == IF subs = <<>> THEN <<{c}>> ELSE [subs EXCEPT ![1] = @ \cup {c}]

\* Trophy sets go where they contest nothing, the first such place.
PlaceSet(subs, c) ==
    LET free == {i \in DOMAIN subs : \A d \in subs[i] : ~Clashes(c, d)}
    IN  IF free = {} THEN Append(subs, {c})
        ELSE [subs EXCEPT ![CHOOSE i \in free : \A j \in free : i <= j] = @ \cup {c}]

\* Trophy sets are placed in the order of their ids: the places after those up to k.
LastId(S) == CHOOSE k \in {0} \cup {c.id : c \in S} : \A c \in S : c.id <= k
Placed(sets) ==
    LET subs[k \in 0..LastId(sets)] ==
            IF k = 0 THEN <<>>
            ELSE IF \E c \in sets : c.id = k THEN PlaceSet(subs[k - 1], CHOOSE c \in sets : c.id = k)
            ELSE subs[k - 1]
    IN  subs

SubGroups(members) ==
    LET sets == {c \in members : c.np # None}
        bare == members \ sets
        subs == Placed(sets)[LastId(sets)]
    IN  CASE Len(subs) = 0 -> {bare}
          [] Len(subs) = 1 -> {subs[1] \cup bare}
          [] Len(subs) > 1 -> ToSet(subs) \cup {{c} : c \in bare}

Groups(cands) == UNION {SubGroups({c \in cands : Bucket(cands, c) = b}) : b \in {Bucket(cands, c) : c \in cands}}

SetPlats(group) == UNION {c.plats : c \in {x \in group : x.np # None}}
Contested(groups, group) ==
    \E other \in groups \ {group} : SetPlats(other) \cap SetPlats(group) # {}

\* The first of some members of a group, which lists its trophy sets before the rest.
FirstById(S) == CHOOSE c \in S : \A d \in S : c.id <= d.id
Foremost(S)  == FirstById(IF \E c \in S : c.np # None THEN {c \in S : c.np # None} ELSE S)

\* _platform_owner
Owner(group, plat) ==
    LET withSet == {c \in group : c.np # None /\ plat \in c.plats}
        rank(c) == (IF "played" \in c.sources THEN 0 ELSE 2) + (IF "purchased" \in c.sources THEN 0 ELSE 1)
        best    == {c \in withSet : \A d \in withSet : rank(c) <= rank(d)}
        bought  == {c \in group : c.bought = plat}
    IN  CASE withSet # {} -> FirstById(best)
          [] withSet = {} /\ bought # {} -> Foremost(bought)
          [] OTHER -> Foremost({c \in group : plat \in c.plats})

\* "One game is one decision", and no set is silently dropped (psn.py:2257): each record
\* is asked about once; sets that share a platform are never one question, only those keep
\* a game from being one, and each question they split into says so; and ticking every
\* platform of a question makes an entry of each of its sets.
OneQuestionPerGame(cands) ==
    /\ \A c \in cands : Cardinality({g \in Groups(cands) : c \in g}) = 1
    /\ \A g \in Groups(cands) : \A c \in {x \in g : x.np # None} :
          /\ \A d \in {x \in g : x.np # None} : ~Clashes(c, d)
          /\ \A p \in c.plats : Owner(g, p).np = c.np
    /\ \A b \in {Bucket(cands, c) : c \in cands} :
          LET members == {c \in cands : Bucket(cands, c) = b}
              subs    == SubGroups(members)
          IN  /\ Cardinality(subs) > 1 => \E c, d \in members : c.np # None /\ d.np # None /\ Clashes(c, d)
              /\ \A g, h \in subs : g # h /\ SetPlats(g) # {} /\ SetPlats(h) # {} => Contested(subs, g)

-----------------------------------------------------------------------------
(* import_review_rows.  A candidate also says what platforms its proposed game was      *)
(* shipped on, where it was played, whether that is known of its set (joined), and       *)
(* whether the cross-buy file lists it as sold apart, and what was chosen of it, if it   *)
(* is done.                                                                              *)

\* _could_be_same_game, of two of one name
Akin(c, d) == c.name # None /\ c.name = d.name /\ (c.igdb = 0 \/ d.igdb = 0 \/ c.igdb = d.igdb)

Taken(done, c) == UNION {d.chosen : d \in {x \in done : Akin(c, x)}}

\* _trophy_hint_is_trustworthy
Trusted(all, c) == c.joined /\ Cardinality({d.np : d \in {x \in all : Akin(c, x)}} \ {None}) < 2

\* A proposal narrows the platforms, unless it leaves none.
Options(c) == LET fit == c.plats \cap c.shipped IN IF ~c.rejected /\ fit # {} THEN fit ELSE c.plats

\* Mutant: what a sibling took is not looked at.
PreTickedAlone(all, done, c) ==
    IF c.apart THEN {p \in Options(c) : p = c.bought \/ (Trusted(all, c) /\ p \in c.played)} ELSE Options(c)

PreTicked(all, done, c) ==
    IF c.apart THEN {p \in Options(c) : p = c.bought \/ (Trusted(all, c) /\ p \in c.played)}
    ELSE Options(c) \ Taken(done, c)

\* _fold_group_rows: a platform of the row is shown as its owner's, if that one offers it,
\* else as the first member's that does.
Shown(group, p) ==
    IF p \in Options(Owner(group, p)) THEN Owner(group, p) ELSE Foremost({c \in group : p \in Options(c)})

Ticks(all, done, group) ==
    {p \in UNION {Options(c) : c \in group} : p \in PreTicked(all, done, Shown(group, p))}

\* confirm_entry_decision: each platform is its owner's, and every member is decided.
Settle(group, P) == {[c EXCEPT !.chosen = {p \in P : Owner(group, p) = c}] : c \in group}

\* "Never pre-tick a platform a sibling set already took" (psn.py:2775): of the rows one
\* game is asked about in, confirmed one after the other as they come, none claims a
\* platform another has claimed, unless it is sold apart, as long as Sony has one name for
\* its records and no proposal for them was refused.
NoneTickedTwice(cands) ==
    \A g \in Groups(cands) :
        LET done == Settle(g, Ticks(cands, {}, g))
            rest == cands \ g
        IN  \A h \in Groups(rest), d \in done :
                /\ \A c \in h : c.name = d.name /\ c.name # None
                /\ \A c \in h \cup {d} : ~c.rejected
                /\ \E c \in h : Bucket(cands, c) = Bucket(cands, d)
                => \A p \in Ticks(rest \cup done, done, h) : p \in d.chosen => Shown(h, p).apart

-----------------------------------------------------------------------------
(* build_proposal.  A hit: its name and the one it was found under (an edition or an *)
(* episode stands for what it repackages), its kind, when it was released, the       *)
(* platforms it shares with the set.                                                 *)

Numbers(words) == SelectSeq(words, LAMBDA w : w \in Digits)
StartsWith(words, first) == Len(words) >= Len(first) /\ SubSeq(words, 1, Len(first)) = first

\* _is_same_game
IsSameGame(searched, found) ==
    /\ searched # <<>> /\ found # <<>>
    /\ \/ searched = found
       \/ /\ ~(StartsWith(found, searched) /\ Len(found) > Len(searched) /\ found[Len(searched) + 1] \in Digits)
          /\ \/ ToSet(searched) \subseteq ToSet(found)
             \/ Numbers(searched) # <<>> /\ Numbers(searched) = Numbers(found)

NotOnItsOwn == {"dlc", "bundle"}
\* _collapse_edition: a repackaging becomes the game it repackages, main kind and all.
Collapsed(hit) == IF hit.parent = <<>> THEN [name |-> hit.name, as |-> hit.name, kind |-> hit.kind]
                  ELSE [name |-> hit.parent, as |-> hit.name, kind |-> "main"]
Rank(kind) == IF kind = "main" THEN 0 ELSE 1
AddedWords(searched, found) == Cardinality(ToSet(found) \ ToSet(searched))

Nobody == [rank |-> <<2, 0>>, name |-> <<>>]
Less(a, b) == a[1] < b[1] \/ (a[1] = b[1] /\ a[2] < b[2])

\* Mutant: the first near hit is taken.
WeighFirst(found, hit, term, ours, earned) ==
    LET as == Collapsed(hit)
        exact == <<Rank(as.kind), 0>>
    IN  CASE \/ earned # 0 /\ hit.released > earned
             \/ ~hit.shared
             \/ as.kind \in NotOnItsOwn -> found
          [] OTHER ->
             IF {as.name, as.as} \cap ours # {}
             THEN [found EXCEPT !.exact = IF Less(exact, @.rank) THEN [rank |-> exact, name |-> as.name] ELSE @]
             ELSE IF IsSameGame(term, as.as) /\ found.near = Nobody
             THEN [found EXCEPT !.near = [rank |-> <<0, 0>>, name |-> as.name]]
             ELSE found

\* One hit of a search for term: the best exact one and the best near one so far.
Weigh(found, hit, term, ours, earned) ==
    LET as == Collapsed(hit)
        rank == <<Rank(as.kind), AddedWords(term, as.name)>>
        exact == <<Rank(as.kind), 0>>
    IN  CASE \/ earned # 0 /\ hit.released > earned
             \/ ~hit.shared
             \/ as.kind \in NotOnItsOwn -> found
          [] OTHER ->
             IF {as.name, as.as} \cap ours # {}
             THEN [found EXCEPT !.exact = IF Less(exact, @.rank) THEN [rank |-> exact, name |-> as.name] ELSE @]
             ELSE IF IsSameGame(term, as.as) /\ Less(rank, found.near.rank)
             THEN [found EXCEPT !.near = [rank |-> rank, name |-> as.name]]
             ELSE found

\* The best of the first k hits, for each k.
Weighed(title, hits, earned) ==
    LET found[k \in 0..Len(hits)] ==
            IF k = 0 THEN [exact |-> Nobody, near |-> Nobody]
            ELSE Weigh(found[k - 1], hits[k], title, {title}, earned)
    IN  found

\* The name of the hit it settles on, <<>> for none.
Proposal(title, hits, earned) ==
    LET found == Weighed(title, hits, earned)[Len(hits)]
    IN  IF found.exact # Nobody THEN found.exact.name ELSE found.near.name

\* The orders the hits may come in.
Orders(s) == {p \in [DOMAIN s -> DOMAIN s] : \A i \in DOMAIN s : \E j \in DOMAIN s : p[j] = i}

\* "First-match logic proposed renaming the library entry to the spin-off"
\* (build_proposal, psn.py:3708): what the loop settles on does not depend on how IGDB
\* ranks its hits, up to hits the rules do not tell apart; it was out when the trophies
\* were earned, and no sequel of the title is taken for it.
RankingIsNotIdentity(title, hits, earned) ==
    LET name == Proposal(title, hits, earned)
        score(h) == LET as == Collapsed(h)
                    IN <<Rank(as.kind), IF title \in {as.name, as.as} THEN -1 ELSE AddedWords(title, as.name)>>
        distinct == \A i, j \in DOMAIN hits : i # j => score(hits[i]) # score(hits[j])
    IN  /\ distinct => \A p \in Orders(hits) : Proposal(title, [i \in DOMAIN hits |-> hits[p[i]]], earned) = name
        /\ name # <<>> => \E i \in DOMAIN hits :
              Collapsed(hits[i]).name = name /\ (earned = 0 \/ hits[i].released <= earned)
        /\ name # <<>> /\ Numbers(title) = <<>> /\ StartsWith(name, title) /\ Len(name) > Len(title) =>
              \/ name[Len(title) + 1] \notin Digits
              \/ \E i \in DOMAIN hits : hits[i].parent = name
=============================================================================
