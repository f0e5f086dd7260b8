------------------------------- MODULE RulesProofs -------------------------------
(***************************************************************************)
(* What the rules make of every input: of feeds, review queues, searches,  *)
(* libraries and sheets of any size.  Lists are worked through by          *)
(* recursive functions; LeastNat and SetInduction are what is needed to    *)
(* show that these exist and what they compute.                            *)
(***************************************************************************)
EXTENDS Rules, TLAPS, WellFoundedInduction, FiniteSetTheorems

\* Every nonempty set of naturals has a least element.
LEMMA LeastNat ==
    ASSUME NEW S \in SUBSET Nat, S # {}
    PROVE  \E x \in S : \A y \in S : x <= y
  <1> DEFINE R == {r \in Nat \X Nat : r[1] < r[2]}
  <1>1. IsWellFoundedOn(R, Nat)
    BY NatLessThanWellFounded DEF OpToRel
  <1>2. PICK x \in S : \A y \in S : ~ (<<y, x>> \in R)
    <2> HIDE DEF R
    <2> QED BY <1>1, WFMin
  <1>3. ASSUME NEW y \in S PROVE x <= y
    <2>1. <<y, x>> \in Nat \X Nat
      OBVIOUS
    <2>2. ~(y < x)
      BY <1>2, <2>1
    <2> QED BY <2>2
  <1> QED BY <1>3

\* A set of naturals that holds 0 and each successor holds every natural: induction,
\* with the property as a set.
LEMMA SetInduction ==
    ASSUME NEW S, 0 \in S, \A n \in Nat : n \in S => n + 1 \in S
    PROVE  Nat \subseteq S
  <1> SUFFICES ASSUME Nat \ S # {} PROVE FALSE
    OBVIOUS
  <1>1. PICK x \in Nat \ S : \A y \in Nat \ S : x <= y
    BY LeastNat
  <1>2. x # 0 /\ x - 1 \in Nat /\ x - 1 \notin Nat \ S
    BY <1>1
  <1> QED BY <1>2

-----------------------------------------------------------------------------
(* Titles and numbers *)

\* First picks an entry of the set, if it holds any.
LEMMA FirstIsOne ==
    ASSUME NEW S, \A e \in S : e.id \in Nat, S # {}
    PROVE  First(S) \in S
  <1>1. PICK ids : ids = {e.id : e \in S}
    OBVIOUS
  <1>2. ids \in SUBSET Nat /\ ids # {}
    BY <1>1
  <1>3. PICK n \in ids : \A m \in ids : n <= m
    BY <1>2, LeastNat
  <1>4. \E e \in S : \A f \in S : e.id <= f.id
    BY <1>1, <1>3
  <1> QED BY <1>4 DEF First

\* What a pass finds is nothing, or an entry the pass lets through.
LEMMA FirstFound ==
    ASSUME NEW S, \A e \in S : e.id \in Nat, First(S) # NoEntry
    PROVE  First(S) \in S
  BY FirstIsOne DEF First

\* A number spelled as its twin stands for the same number.
LEMMA TwinsMeanTheSame ==
    ASSUME NEW p \in Twins
    PROVE  Value(p[1]) = Value(p[2]) /\ p[1] \in Numerals /\ p[2] \in Numerals
  <1>1. Value(p[1]) = p[2]
    BY TwinsAreNumbers DEF Value
  <1>2. Value(p[2]) = p[2]
    BY TwinsAreNumbers DEF Value
  <1> QED BY <1>1, <1>2, TwinsAreNumbers

\* The same folded words, the same numbers.
LEMMA SameFold ==
    ASSUME NEW t, NEW s, Fold(t) = Fold(s)
    PROVE  NumberValues(t) = NumberValues(s)
  BY DEF NumberValues, NumbersOf

\* Only entries of the library are found.
LEMMA PoolInLibrary ==
    ASSUME NEW lib, NEW phrase, NEW folded
    PROVE  Pool(lib, phrase, folded) \subseteq lib
  BY DEF Pool

LEMMA WidenedInLibrary ==
    ASSUME NEW lib, NEW t
    PROVE  Widened(lib, t) \subseteq lib
  <1>1. Search(lib, t) \subseteq lib
    BY PoolInLibrary DEF Search
  <1>2. \A i \in DOMAIN Fold(t) : Pool(lib, RemoveAt(Fold(t), i), RemoveAt(Fold(t), i)) \subseteq lib
    BY PoolInLibrary
  <1> QED BY <1>1, <1>2 DEF Widened

LEMMA EqualFolds ==
    ASSUME NEW lib, NEW phrase, NEW folded, \A e \in lib : e.id \in Nat,
           Equal(lib, phrase, folded) # NoEntry
    PROVE  Fold(Equal(lib, phrase, folded).title) = folded /\ Equal(lib, phrase, folded) \in lib
  <1>1. PICK S : S = {e \in Pool(lib, phrase, folded) : Fold(e.title) = folded}
    OBVIOUS
  <1>2. Equal(lib, phrase, folded) = First(S) /\ \A e \in S : e.id \in Nat
    BY <1>1, PoolInLibrary DEF Equal
  <1>3. First(S) \in S
    BY <1>2, FirstFound
  <1> QED BY <1>1, <1>2, <1>3, PoolInLibrary

\* _single_numeral_variant_entry changes one number into its twin, which is the same number.
LEMMA VariantSameNumbers ==
    ASSUME NEW lib, NEW t, \A e \in lib : e.id \in Nat, Variant(lib, t) # NoEntry
    PROVE  NumberValues(t) = NumberValues(Variant(lib, t).title)
  <1> DEFINE ws       == Fold(t)
             twins(w) == {p[2] : p \in {q \in Twins : q[1] = w}} \cup {p[1] : p \in {q \in Twins : q[2] = w}}
             found(i) == {Equal(lib, v, v) : v \in {[ws EXCEPT ![i] = w] : w \in twins(ws[i])}} \ {NoEntry}
             hits     == {i \in DOMAIN ws : found(i) # {}}
             e        == Variant(lib, t)
  <1>1. PICK S : S = UNION {found(i) : i \in {h \in hits : \A j \in hits : h <= j}}
    OBVIOUS
  <1>2. e = First(S) /\ e # NoEntry
    BY <1>1 DEF Variant
  <1>3. \A f \in S : f.id \in Nat
    BY <1>1, EqualFolds
  <1>4. e \in S
    <2> HIDE DEF e
    <2> QED BY <1>2, <1>3, FirstFound
  <1>5. PICK i \in DOMAIN ws : e \in found(i)
    <2> HIDE DEF e, found
    <2> QED BY <1>1, <1>4
  <1>6. PICK w \in twins(ws[i]) : e = Equal(lib, [ws EXCEPT ![i] = w], [ws EXCEPT ![i] = w]) /\ e # NoEntry
    BY <1>5
  <1> DEFINE vs == [ws EXCEPT ![i] = w]
  <1>7. Fold(e.title) = vs
    <2>1. e = Equal(lib, vs, vs)
      BY <1>6
    <2> HIDE DEF e, vs
    <2> QED BY <1>6, <2>1, EqualFolds
  <1>8. Value(w) = Value(ws[i]) /\ w \in Numerals /\ ws[i] \in Numerals
    BY <1>6, TwinsMeanTheSame
  <1>9. DOMAIN vs = DOMAIN ws /\ vs[i] = w /\ \A j \in DOMAIN ws \ {i} : vs[j] = ws[j]
    BY <1>5 DEF Fold
  <1>10. {Value(x) : x \in ToSet(ws) \cap Numerals} = {Value(x) : x \in ToSet(vs) \cap Numerals}
    <2> HIDE DEF ws, vs
    <2> QED BY <1>5, <1>8, <1>9 DEF ToSet
  <1> QED BY <1>7, <1>10 DEF NumberValues, NumbersOf

\* The two passes that guess ask for the same numbers.
LEMMA FuzzySameNumbers ==
    ASSUME NEW lib, NEW t, \A e \in lib : e.id \in Nat, Fuzzy(lib, t) # NoEntry
    PROVE  NumberValues(t) = NumberValues(Fuzzy(lib, t).title)
  <1>1. PICK near : near = {e \in Widened(lib, t) : NumbersOf(e.title) = NumbersOf(t) /\ Close(Fold(t), Fold(e.title))}
    OBVIOUS
  <1>2. Fuzzy(lib, t) = First(near)
    BY <1>1 DEF Fuzzy
  <1>3. \A e \in near : e.id \in Nat
    BY <1>1, WidenedInLibrary
  <1>4. Fuzzy(lib, t) \in near
    BY <1>2, <1>3, FirstFound
  <1> QED BY <1>1, <1>4 DEF NumberValues

LEMMA PoolSameNumbers ==
    ASSUME NEW lib, NEW t, \A e \in lib : e.id \in Nat, ByPool(lib, t) # NoEntry
    PROVE  NumberValues(t) = NumberValues(ByPool(lib, t).title)
  <1>1. PICK phrase, base : /\ phrase = (IF Prefix(t) # <<>> THEN Prefix(t) ELSE t)
                            /\ base = {e \in lib : Base(e)}
    OBVIOUS
  <1>2. PICK more : more = {e \in Widened(base, phrase) :
                               NumbersOf(e.title) = NumbersOf(t) /\ OneMore(Fold(t), Fold(e.title))}
    OBVIOUS
  <1>3. PICK fewest : fewest = {e \in more : \A f \in more : Len(Fold(e.title)) <= Len(Fold(f.title))}
    OBVIOUS
  <1>4. PICK only : only = {e \in Search(base, phrase) :
                               NumbersOf(e.title) = NumbersOf(t) /\ OneMore(Fold(e.title), Fold(t))}
    OBVIOUS
  <1>5. ByPool(lib, t) = First(fewest) \/ ByPool(lib, t) = First(only)
    BY <1>1, <1>2, <1>3, <1>4 DEF ByPool
  <1>6. Widened(base, phrase) \subseteq lib /\ Search(base, phrase) \subseteq lib
    BY <1>1, WidenedInLibrary, PoolInLibrary DEF Search
  <1>7. (\A e \in fewest : e.id \in Nat) /\ (\A e \in only : e.id \in Nat)
    BY <1>2, <1>3, <1>4, <1>6
  <1>8. ByPool(lib, t) \in fewest \/ ByPool(lib, t) \in only
    BY <1>5, <1>7, FirstFound
  <1> QED BY <1>2, <1>3, <1>4, <1>8 DEF NumberValues

\* A library title that goes on after a colon has the searched numbers before it.
LEMMA LibraryPrefixSameNumbers ==
    ASSUME NEW lib, NEW t, \A e \in lib : e.id \in Nat, ByLibraryPrefix(lib, t) # NoEntry
    PROVE  LET e == ByLibraryPrefix(lib, t)
           IN  Prefix(e.title) # <<>> /\ NumberValues(t) = NumberValues(Prefix(e.title))
  <1>1. PICK S : S = {e \in Search({x \in lib : Base(x)}, t) : Prefix(e.title) # <<>> /\ Fold(Prefix(e.title)) = Fold(t)}
    OBVIOUS
  <1>2. ByLibraryPrefix(lib, t) = First(S)
    BY <1>1 DEF ByLibraryPrefix
  <1>3. Search({x \in lib : Base(x)}, t) \subseteq lib
    <2>1. PICK base : base = {x \in lib : Base(x)}
      OBVIOUS
    <2> QED BY <2>1, PoolInLibrary DEF Search
  <1>4. \A e \in S : e.id \in Nat
    BY <1>1, <1>3
  <1>5. ByLibraryPrefix(lib, t) \in S
    BY <1>2, <1>4, FirstFound
  <1> QED BY <1>1, <1>5, SameFold

\* Two titles whose numbers differ are different games for the importer's search,
\* whatever the library holds.
LEMMA NoSequelIsFound ==
    ASSUME NEW library, \A e \in library : e.id \in Nat, NEW t
    PROVE  NeverASequel(library, t)
  <1> DEFINE e == BestMatch(library, t, <<>>)
  <1> SUFFICES ASSUME e # NoEntry, Prefix(t) = <<>>
               PROVE  \/ NumberValues(t) = NumberValues(e.title)
                      \/ Prefix(e.title) # <<>> /\ NumberValues(t) = NumberValues(Prefix(e.title))
    BY DEF NeverASequel
  <1>1. PICK lib : lib = {x \in library : x.here}
    OBVIOUS
  <1>2. \A x \in lib : x.id \in Nat
    BY <1>1
  <1>3. \/ e = Exact(lib, t) \/ e = Variant(lib, t) \/ e = Fuzzy(lib, t) \/ e = ByPrefix(lib, t)
        \/ e = ByLibraryPrefix(lib, t) \/ e = ByPool(lib, t) \/ e = ByCollection(library, t, <<>>)
    <2> DEFINE passes == <<Exact(lib, t), Variant(lib, t), Fuzzy(lib, t), ByPrefix(lib, t),
                           ByLibraryPrefix(lib, t), ByPool(lib, t), ByCollection(library, t, <<>>)>>
               hits   == {i \in DOMAIN passes : passes[i] # NoEntry}
    <2>1. hits # {} /\ e = passes[CHOOSE i \in hits : \A j \in hits : i <= j]
      BY <1>1 DEF BestMatch
    <2>2. hits \in SUBSET Nat
      OBVIOUS
    <2>3. \E i \in hits : \A j \in hits : i <= j
      <3> HIDE DEF hits
      <3> QED BY <2>1, <2>2, LeastNat
    <2>4. PICK i \in DOMAIN passes : e = passes[i]
      <3>1. (CHOOSE i \in hits : \A j \in hits : i <= j) \in hits
        BY <2>3
      <3> QED BY <2>1, <3>1
    <2> HIDE DEF e
    <2> QED BY <2>4
  <1> HIDE DEF e
  <1>4. CASE e = Exact(lib, t)
    BY <1>2, <1>4, EqualFolds, SameFold DEF Exact
  <1>5. CASE e = Variant(lib, t)
    BY <1>2, <1>5, VariantSameNumbers
  <1>6. CASE e = Fuzzy(lib, t)
    BY <1>2, <1>6, FuzzySameNumbers
  <1>7. CASE e = ByPrefix(lib, t)
    BY <1>7 DEF ByPrefix
  <1>8. CASE e = ByLibraryPrefix(lib, t)
    BY <1>2, <1>8, LibraryPrefixSameNumbers
  <1>9. CASE e = ByPool(lib, t)
    BY <1>2, <1>9, PoolSameNumbers
  <1>10. CASE e = ByCollection(library, t, <<>>)
    BY <1>10 DEF ByCollection
  <1> QED BY <1>3, <1>4, <1>5, <1>6, <1>7, <1>8, <1>9, <1>10

-----------------------------------------------------------------------------
(* Sheets *)

\* The keys that the first k rows have of the group of row i.
KeysUpTo(rows, tab, k, i) == {Key(rows[j], tab) : j \in {x \in 1..k : SameGroup(rows[x], rows[i])}}

LeadersUpTo(rows, k) == {i \in 1..k : \A j \in 1..(i - 1) : ~SameGroup(rows[i], rows[j])}

Proposed(rows, i, keys) ==
    [title |-> rows[i].title, plat |-> rows[i].plat, keys |-> keys, status |-> "pending"]

\* What is new in k rows after the first few.
New(rows, tab, few, k) ==
    {Proposed(rows, i, KeysUpTo(rows, tab, k, i) \ KeysUpTo(rows, tab, few, i)) :
        i \in {l \in LeadersUpTo(rows, k) : KeysUpTo(rows, tab, k, l) \ KeysUpTo(rows, tab, few, l) # {}}}

\* Everything in the table is confirmed, and of each group it holds the keys of the first k rows.
Covers(rows, tab, table, k) ==
    /\ \A c \in table : c.status = "confirmed"
    /\ \A l \in LeadersUpTo(rows, Len(rows)) :
         UNION {c.keys : c \in {x \in table : x.title = rows[l].title /\ x.plat = rows[l].plat}}
             = KeysUpTo(rows, tab, k, l)

\* A group is under the title of its first row, in every upload of a sheet that grows.
LEMMA HasLeader ==
    ASSUME NEW S, NEW rows \in Seq(S), NEW i \in 1..Len(rows)
    PROVE  \E l \in LeadersUpTo(rows, i) : SameGroup(rows[l], rows[i])
  <1>1. PICK T : T = {j \in 1..i : SameGroup(rows[j], rows[i])}
    OBVIOUS
  <1>2. T \in SUBSET Nat /\ i \in T
    BY <1>1 DEF SameGroup
  <1>3. PICK l \in T : \A j \in T : l <= j
    BY <1>2, LeastNat
  <1>4. ASSUME NEW j \in 1..(l - 1), SameGroup(rows[l], rows[j]) PROVE FALSE
    <2>1. j \in T
      BY <1>1, <1>3, <1>4 DEF SameGroup
    <2> QED BY <1>1, <1>3, <2>1
  <1> QED BY <1>1, <1>3, <1>4 DEF LeadersUpTo

LEMMA LeadersDiffer ==
    ASSUME NEW rows, NEW k \in Nat, NEW l \in LeadersUpTo(rows, k), NEW h \in LeadersUpTo(rows, k),
           SameGroup(rows[l], rows[h])
    PROVE  l = h
  <1>1. l \in 1..k /\ h \in 1..k
    BY DEF LeadersUpTo
  <1>2. ~(l < h)
    <2>1. SameGroup(rows[h], rows[l])
      BY DEF SameGroup
    <2> QED BY <1>1, <2>1 DEF LeadersUpTo
  <1>3. ~(h < l)
    BY <1>1 DEF LeadersUpTo
  <1> QED BY <1>1, <1>2, <1>3

\* A row of the first k in the group of a leader: the leader is among them.
LEMMA LeaderComesFirst ==
    ASSUME NEW rows, NEW tab, NEW n \in Nat, NEW k \in 0..n, NEW l \in LeadersUpTo(rows, n),
           KeysUpTo(rows, tab, k, l) # {}
    PROVE  l \in LeadersUpTo(rows, k)
  <1>1. PICK x \in 1..k : SameGroup(rows[x], rows[l])
    BY DEF KeysUpTo
  <1>2. l \in 1..n /\ ~(x < l)
    BY <1>1 DEF LeadersUpTo, SameGroup
  <1> QED BY <1>1, <1>2 DEF LeadersUpTo

LEMMA KeysGrow ==
    ASSUME NEW rows, NEW tab, NEW n \in Nat, NEW k \in 0..n, NEW l
    PROVE  KeysUpTo(rows, tab, k, l) \subseteq KeysUpTo(rows, tab, n, l)
  <1>1. 1..k \subseteq 1..n
    OBVIOUS
  <1> QED BY <1>1 DEF KeysUpTo

\* The first k rows as a sheet of their own.
LEMMA SheetUpTo ==
    ASSUME NEW S, NEW rows \in Seq(S), NEW tab, NEW k \in 0..Len(rows)
    PROVE  ParseSheet(SubSeq(rows, 1, k), tab) =
             {[title |-> rows[i].title, plat |-> rows[i].plat, keys |-> KeysUpTo(rows, tab, k, i)] :
                 i \in LeadersUpTo(rows, k)}
  <1>1. PICK few : few = SubSeq(rows, 1, k)
    OBVIOUS
  <1>2. DOMAIN few = 1..k /\ \A i \in 1..k : few[i] = rows[i]
    BY <1>1
  <1>3. Leaders(few) = LeadersUpTo(rows, k)
    BY <1>2 DEF Leaders, LeadersUpTo
  <1>4. ASSUME NEW i \in Leaders(few)
        PROVE  /\ few[i] = rows[i]
               /\ {Key(few[j], tab) : j \in {x \in DOMAIN few : SameGroup(few[x], few[i])}} = KeysUpTo(rows, tab, k, i)
    <2>1. i \in 1..k
      BY <1>2 DEF Leaders
    <2> QED BY <1>2, <2>1 DEF KeysUpTo
  <1> DEFINE parsed(i) == [title |-> few[i].title, plat |-> few[i].plat,
                           keys |-> {Key(few[j], tab) : j \in {x \in DOMAIN few : SameGroup(few[x], few[i])}}]
             made(i)   == [title |-> rows[i].title, plat |-> rows[i].plat, keys |-> KeysUpTo(rows, tab, k, i)]
  <1>5. ParseSheet(few, tab) = {parsed(i) : i \in Leaders(few)}
    BY DEF ParseSheet
  <1>6. \A i \in Leaders(few) : parsed(i) = made(i)
    BY <1>4
  <1>7. {parsed(i) : i \in Leaders(few)} = {made(i) : i \in LeadersUpTo(rows, k)}
    <2> HIDE DEF parsed, made
    <2> QED BY <1>3, <1>6
  <1> QED BY <1>1, <1>5, <1>7

\* With no year asked for, the year of the tab changes no date.
LEMMA NoYearNeeded ==
    ASSUME NEW rows, NEW tab, ~NeedsYear(rows)
    PROVE  ParseSheet(rows, 0) = ParseSheet(rows, tab)
  <1>1. ASSUME NEW i \in DOMAIN rows PROVE Key(rows[i], 0) = Key(rows[i], tab)
    <2>1. ParseDate(rows[i].cell, 0).date # <<>>
      BY DEF NeedsYear
    <2>2. rows[i].cell.year # 0
      BY <2>1 DEF ParseDate
    <2> QED BY <2>2 DEF Key, ParseDate
  <1> QED BY <1>1 DEF ParseSheet

\* An upload proposes what its first k rows have more than the confirmed ones.
LEMMA WriteNew ==
    ASSUME NEW S, NEW rows \in Seq(S), NEW tab, NEW k \in 0..Len(rows), NEW few \in 0..k,
           NEW table, Covers(rows, tab, table, few)
    PROVE  Write(ParseSheet(SubSeq(rows, 1, k), tab), table) = New(rows, tab, few, k)
  <1> DEFINE made(i) == [title |-> rows[i].title, plat |-> rows[i].plat, keys |-> KeysUpTo(rows, tab, k, i)]
             mine(g, status) == {c \in table : c.title = g.title /\ c.plat = g.plat /\ c.status = status}
             new(g) == g.keys \ UNION {c.keys : c \in mine(g, "confirmed")}
  <1>1. PICK groups : groups = {made(i) : i \in LeadersUpTo(rows, k)}
    OBVIOUS
  <1>2. ParseSheet(SubSeq(rows, 1, k), tab) = groups
    BY <1>1, SheetUpTo
  <1>3. ASSUME NEW i \in LeadersUpTo(rows, k)
        PROVE  /\ mine(made(i), "pending") = {}
               /\ new(made(i)) = KeysUpTo(rows, tab, k, i) \ KeysUpTo(rows, tab, few, i)
    <2>1. i \in LeadersUpTo(rows, Len(rows))
      BY DEF LeadersUpTo
    <2>2. UNION {c.keys : c \in {x \in table : x.title = rows[i].title /\ x.plat = rows[i].plat}}
             = KeysUpTo(rows, tab, few, i)
      BY <2>1 DEF Covers
    <2>3. mine(made(i), "confirmed") = {x \in table : x.title = rows[i].title /\ x.plat = rows[i].plat}
      BY DEF Covers
    <2>4. mine(made(i), "pending") = {}
      BY DEF Covers
    <2> QED BY <2>2, <2>3, <2>4
  <1>4. Write(groups, table) =
          {[title |-> g.title, plat |-> g.plat, keys |-> new(g), status |-> "pending"] :
              g \in {h \in groups : mine(h, "pending") = {} /\ new(h) # {}}}
    BY DEF Write
  <1>5. ASSUME NEW i \in LeadersUpTo(rows, k)
        PROVE  /\ made(i).title = rows[i].title
               /\ made(i).plat = rows[i].plat
    OBVIOUS
  <1> HIDE DEF made, mine, new
  <1>6. Write(groups, table) \subseteq New(rows, tab, few, k)
    BY <1>1, <1>3, <1>4, <1>5 DEF New, Proposed
  <1>7. New(rows, tab, few, k) \subseteq Write(groups, table)
    BY <1>1, <1>3, <1>4, <1>5 DEF New, Proposed
  <1> QED BY <1>2, <1>6, <1>7

\* Once that is confirmed, the table holds the first k rows.
LEMMA CoversMore ==
    ASSUME NEW S, NEW rows \in Seq(S), NEW tab, NEW k \in 0..Len(rows), NEW few \in 0..k,
           NEW table, Covers(rows, tab, Confirmed(table), few)
    PROVE  Covers(rows, tab, Confirmed(table \cup New(rows, tab, few, k)), k)
  <1> DEFINE all      == Confirmed(table \cup New(rows, tab, few, k))
             more     == Confirmed(New(rows, tab, few, k))
             of(T, l) == {x \in T : x.title = rows[l].title /\ x.plat = rows[l].plat}
             extra(l) == KeysUpTo(rows, tab, k, l) \ KeysUpTo(rows, tab, few, l)
             now(l)   == [title |-> rows[l].title, plat |-> rows[l].plat, keys |-> extra(l), status |-> "confirmed"]
  <1>1. all = Confirmed(table) \cup more
    BY DEF Confirmed
  <1>2. more = {now(l) : l \in {i \in LeadersUpTo(rows, k) : now(i).keys # {}}}
    <2>1. ASSUME NEW l PROVE [Proposed(rows, l, extra(l)) EXCEPT !.status = "confirmed"] = now(l)
      <3> HIDE DEF extra
      <3> QED BY DEF Proposed
    <2>2. \A l : now(l).keys = extra(l)
      OBVIOUS
    <2>3. New(rows, tab, few, k) = {Proposed(rows, l, extra(l)) : l \in {i \in LeadersUpTo(rows, k) : extra(i) # {}}}
      BY DEF New
    <2> HIDE DEF now, extra
    <2> QED BY <2>1, <2>2, <2>3 DEF Confirmed
  <1>3. \A c \in all : c.status = "confirmed"
    BY <1>1, <1>2 DEF Covers
  <1>4. ASSUME NEW l \in LeadersUpTo(rows, Len(rows))
        PROVE  UNION {c.keys : c \in of(all, l)} = KeysUpTo(rows, tab, k, l)
    <2>1. UNION {c.keys : c \in of(Confirmed(table), l)} = KeysUpTo(rows, tab, few, l)
      BY DEF Covers
    <2>2. UNION {c.keys : c \in of(more, l)} = KeysUpTo(rows, tab, k, l) \ KeysUpTo(rows, tab, few, l)
      <3>1. ASSUME NEW i \in LeadersUpTo(rows, k), rows[i].title = rows[l].title, rows[i].plat = rows[l].plat
            PROVE  i = l
        <4>1. SameGroup(rows[i], rows[l]) /\ i \in LeadersUpTo(rows, Len(rows))
          BY <3>1 DEF SameGroup, Fold, LeadersUpTo
        <4> QED BY <4>1, LeadersDiffer
      <3>2. of(more, l) \subseteq {now(l)}
        BY <1>2, <3>1
      <3>3. now(l).keys # {} => now(l) \in of(more, l)
        <4>1. KeysUpTo(rows, tab, k, l) # {} => l \in LeadersUpTo(rows, k)
          BY LeaderComesFirst
        <4> QED BY <1>2, <4>1
      <3> QED BY <3>2, <3>3
    <2>3. of(all, l) = of(Confirmed(table), l) \cup of(more, l)
      BY <1>1
    <2>4. KeysUpTo(rows, tab, few, l) \subseteq KeysUpTo(rows, tab, k, l)
      BY KeysGrow
    <2>5. PICK A, B : A = of(Confirmed(table), l) /\ B = of(more, l)
      OBVIOUS
    <2>6. UNION {c.keys : c \in A \cup B} = (UNION {c.keys : c \in A}) \cup (UNION {c.keys : c \in B})
      <3>1. PICK K, L : K = {c.keys : c \in A} /\ L = {c.keys : c \in B}
        OBVIOUS
      <3>2. {c.keys : c \in A \cup B} = K \cup L
        BY <3>1
      <3>3. UNION (K \cup L) = (UNION K) \cup (UNION L)
        OBVIOUS
      <3> QED BY <3>1, <3>2, <3>3
    <2> HIDE DEF of
    <2>7. UNION {c.keys : c \in of(all, l)} = (UNION {c.keys : c \in A}) \cup (UNION {c.keys : c \in B})
      BY <2>3, <2>5, <2>6
    <2>8. UNION {c.keys : c \in A} = KeysUpTo(rows, tab, few, l)
      BY <2>1, <2>5
    <2>9. UNION {c.keys : c \in B} = KeysUpTo(rows, tab, k, l) \ KeysUpTo(rows, tab, few, l)
      BY <2>2, <2>5
    <2> DEFINE had == KeysUpTo(rows, tab, few, l)
               has == KeysUpTo(rows, tab, k, l)
    <2>10. had \cup (has \ had) = has
      BY <2>4
    <2> HIDE DEF had, has
    <2> QED BY <2>7, <2>8, <2>9, <2>10 DEF had, has
  <1> QED BY <1>3, <1>4 DEF Covers

\* The candidates of an upload that propose the completion of row i: one, if its key is
\* among the new ones of its group.
LEMMA ProposedByOne ==
    ASSUME NEW S, NEW rows \in Seq(S), NEW tab, NEW k \in 0..Len(rows), NEW few \in 0..k,
           NEW i \in 1..Len(rows), NEW T,
           T = {c \in New(rows, tab, few, k) : Fold(c.title) = Fold(rows[i].title) /\ c.plat = rows[i].plat
                                               /\ Key(rows[i], tab) \in c.keys}
    PROVE  Cardinality(T) = IF Key(rows[i], tab) \in KeysUpTo(rows, tab, k, i) \ KeysUpTo(rows, tab, few, i)
                            THEN 1 ELSE 0
  <1>1. PICK l \in LeadersUpTo(rows, i) : SameGroup(rows[l], rows[i])
    BY HasLeader
  <1>2. l \in LeadersUpTo(rows, Len(rows))
    BY <1>1 DEF LeadersUpTo
  <1>3. \A n : KeysUpTo(rows, tab, n, l) = KeysUpTo(rows, tab, n, i)
    BY <1>1 DEF KeysUpTo, SameGroup
  <1> DEFINE now == Proposed(rows, l, KeysUpTo(rows, tab, k, l) \ KeysUpTo(rows, tab, few, l))
  <1>4. T \subseteq {now}
    <2>1. ASSUME NEW h \in LeadersUpTo(rows, k), Fold(rows[h].title) = Fold(rows[i].title), rows[h].plat = rows[i].plat
          PROVE  h = l
      <3>1. SameGroup(rows[h], rows[l]) /\ h \in LeadersUpTo(rows, Len(rows))
        BY <1>1, <2>1 DEF SameGroup, LeadersUpTo
      <3> QED BY <1>2, <3>1, LeadersDiffer
    <2> QED BY <2>1 DEF New, Proposed
  <1>5. now.keys # {} => now \in New(rows, tab, few, k)
    <2>1. KeysUpTo(rows, tab, k, l) # {} => l \in LeadersUpTo(rows, k)
      BY <1>2, LeaderComesFirst
    <2> QED BY <2>1 DEF New, Proposed
  <1>6. now \in T <=> Key(rows[i], tab) \in now.keys
    <2>1. Fold(now.title) = Fold(rows[i].title) /\ now.plat = rows[i].plat
      BY <1>1 DEF Proposed, SameGroup
    <2> HIDE DEF now
    <2> QED BY <1>5, <2>1
  <1>7. now.keys = KeysUpTo(rows, tab, k, i) \ KeysUpTo(rows, tab, few, i)
    BY <1>3 DEF Proposed
  <1> HIDE DEF now
  <1>8. CASE now \in T
    <2>1. T = {now}
      BY <1>4, <1>8
    <2> QED BY <1>6, <1>7, <1>8, <2>1, FS_Singleton
  <1>9. CASE now \notin T
    <2>1. T = {}
      BY <1>4, <1>9
    <2> QED BY <1>6, <1>7, <1>9, <2>1, FS_EmptySet
  <1> QED BY <1>8, <1>9

\* Whatever the sheet, however it grows: each of its completions is proposed exactly once.
LEMMA SheetProposedOnce ==
    ASSUME NEW S, NEW rows \in Seq(S), NEW tab, NEW n \in 0..Len(rows), NEW m \in 0..n
    PROVE  ProposedOnce(rows, tab, m, n)
  <1> DEFINE N == Len(rows)
  <1>1. PICK one, two, three : /\ one = New(rows, tab, 0, m)
                               /\ two = New(rows, tab, m, n)
                               /\ three = New(rows, tab, n, N)
    OBVIOUS
  <1>2. Covers(rows, tab, Confirmed({}), 0) /\ Confirmed({}) = {}
    BY DEF Covers, Confirmed, KeysUpTo
  <1>3. Write(ParseSheet(SubSeq(rows, 1, m), tab), {}) = one
    <2>1. PICK none : none = {}
      OBVIOUS
    <2>2. Covers(rows, tab, none, 0)
      BY <2>1 DEF Covers, KeysUpTo
    <2>a. 0 \in 0..m /\ m \in 0..Len(rows)
      OBVIOUS
    <2>3. Write(ParseSheet(SubSeq(rows, 1, m), tab), none) = New(rows, tab, 0, m)
      BY <2>2, <2>a, WriteNew
    <2> QED BY <1>1, <2>1, <2>3
  <1>4. Covers(rows, tab, Confirmed(one), m)
    <2>1. PICK none : none = {}
      OBVIOUS
    <2>2. Covers(rows, tab, Confirmed(none \cup New(rows, tab, 0, m)), m)
      BY <1>2, <2>1, CoversMore
    <2> QED BY <1>1, <2>1, <2>2
  <1>5. Write(ParseSheet(SubSeq(rows, 1, n), tab), Confirmed(one)) = two
    BY <1>1, <1>4, WriteNew
  <1>6. Covers(rows, tab, Confirmed(one \cup two), n)
    BY <1>1, <1>4, CoversMore
  <1>7. ParseSheet(rows, IF NeedsYear(rows) THEN tab ELSE 0) = ParseSheet(SubSeq(rows, 1, N), tab)
    <2>1. SubSeq(rows, 1, N) = rows
      OBVIOUS
    <2> QED BY <2>1, NoYearNeeded
  <1>8. Write(ParseSheet(rows, IF NeedsYear(rows) THEN tab ELSE 0), Confirmed(one \cup two)) = three
    BY <1>1, <1>6, <1>7, WriteNew
  <1> DEFINE keys(T, i) == {c \in T : Fold(c.title) = Fold(rows[i].title) /\ c.plat = rows[i].plat
                                      /\ Key(rows[i], tab) \in c.keys}
  <1>9. ASSUME NEW i \in 1..N
        PROVE  Cardinality(keys(one, i)) + Cardinality(keys(two, i)) + Cardinality(keys(three, i)) = 1
    <2>1. ASSUME NEW k \in 0..N, NEW few \in 0..k
          PROVE  Cardinality(keys(New(rows, tab, few, k), i)) =
                     IF Key(rows[i], tab) \in KeysUpTo(rows, tab, k, i) \ KeysUpTo(rows, tab, few, i) THEN 1 ELSE 0
      <3>1. PICK T : T = keys(New(rows, tab, few, k), i)
        OBVIOUS
      <3> QED BY <3>1, ProposedByOne
    <2>2. KeysUpTo(rows, tab, 0, i) = {} /\ Key(rows[i], tab) \in KeysUpTo(rows, tab, N, i)
      BY DEF KeysUpTo, SameGroup
    <2>3. /\ KeysUpTo(rows, tab, m, i) \subseteq KeysUpTo(rows, tab, n, i)
          /\ KeysUpTo(rows, tab, n, i) \subseteq KeysUpTo(rows, tab, N, i)
      BY KeysGrow
    <2>4. 0 \in 0..m /\ m \in 0..N /\ n \in 0..N /\ N \in 0..N
      OBVIOUS
    <2> DEFINE key == Key(rows[i], tab)
    <2>5. /\ Cardinality(keys(one, i)) = IF key \in KeysUpTo(rows, tab, m, i) \ KeysUpTo(rows, tab, 0, i) THEN 1 ELSE 0
          /\ Cardinality(keys(two, i)) = IF key \in KeysUpTo(rows, tab, n, i) \ KeysUpTo(rows, tab, m, i) THEN 1 ELSE 0
          /\ Cardinality(keys(three, i)) = IF key \in KeysUpTo(rows, tab, N, i) \ KeysUpTo(rows, tab, n, i) THEN 1 ELSE 0
      <3> HIDE DEF keys
      <3> QED BY <1>1, <2>1, <2>4
    <2> HIDE DEF keys, key
    <2> QED BY <2>2, <2>3, <2>5 DEF key
  <1>10. N \in Nat /\ DOMAIN rows = 1..N
    OBVIOUS
  <1> QED BY <1>3, <1>5, <1>8, <1>9, <1>10 DEF ProposedOnce

-----------------------------------------------------------------------------
(* Searches *)

\* The loop over the hits goes from one to the next.
LEMMA WeighedInTurn ==
    ASSUME NEW title, NEW hits, Len(hits) \in Nat, NEW earned
    PROVE  LET w == Weighed(title, hits, earned)
           IN  /\ w[0] = [exact |-> Nobody, near |-> Nobody]
               /\ \A k \in 1..Len(hits) : w[k] = Weigh(w[k - 1], hits[k], title, {title}, earned)
  <1> DEFINE Start      == [exact |-> Nobody, near |-> Nobody]
             Step(f, k) == Weigh(f, hits[k], title, {title}, earned)
             Is(g, n)   == g = [k \in 0..n |-> IF k = 0 THEN Start ELSE Step(g[k - 1], k)]
             Good       == {n \in Nat : \E g : Is(g, n)}
             w          == Weighed(title, hits, earned)
  <1>1. w = CHOOSE g : Is(g, Len(hits))
    BY DEF Weighed
  <1> HIDE DEF Start, Step, w
  <1>2. 0 \in Good
    <2>1. Is([k \in 0..0 |-> Start], 0)
      OBVIOUS
    <2> QED BY <2>1
  <1>3. ASSUME NEW n \in Nat, n \in Good PROVE n + 1 \in Good
    <2>1. PICK g : Is(g, n)
      BY <1>3
    <2>2. PICK h : h = [k \in 0..(n + 1) |-> IF k = 0 THEN Start ELSE Step(g[k - 1], k)]
      OBVIOUS
    <2>3. \A k \in 0..n : h[k] = g[k]
      BY <2>1, <2>2
    <2>4. \A k \in 0..(n + 1) : k # 0 => h[k - 1] = g[k - 1]
      BY <2>3
    <2>5. Is(h, n + 1)
      BY <2>2, <2>4
    <2> QED BY <2>5
  <1>4. Nat \subseteq Good
    <2> HIDE DEF Good
    <2> QED BY <1>2, <1>3, SetInduction
  <1>5. Is(w, Len(hits))
    <2>1. \E g : Is(g, Len(hits))
      BY <1>4
    <2> QED BY <1>1, <2>1
  <1>6. w[0] = Start /\ \A k \in 1..Len(hits) : w[k] = Step(w[k - 1], k)
    BY <1>5
  <1> QED BY <1>6 DEF Start, Step, w

\* A hit the loop looks at, one of the searched name, and one near it.
Ok(hit, earned) == /\ earned = 0 \/ hit.released <= earned
                   /\ hit.shared
                   /\ Collapsed(hit).kind \notin NotOnItsOwn
IsExact(hit, title) == title \in {Collapsed(hit).name, Collapsed(hit).as}
ExactOf(title, hits, earned, k) == {i \in 1..k : Ok(hits[i], earned) /\ IsExact(hits[i], title)}
NearOf(title, hits, earned, k) ==
    {i \in 1..k : /\ Ok(hits[i], earned) /\ ~IsExact(hits[i], title)
                  /\ IsSameGame(title, Collapsed(hits[i]).as)}

ExactRank(hit) == <<Rank(Collapsed(hit).kind), 0>>
NearRank(title, hit) == <<Rank(Collapsed(hit).kind), AddedWords(title, Collapsed(hit).name)>>

\* best is what the hits in I come to, of the ranks given them.
BestOf(best, I, hits, rank) ==
    \/ I = {} /\ best = Nobody
    \/ \E i \in I : /\ best = [rank |-> rank[i], name |-> Collapsed(hits[i]).name]
                    /\ \A j \in I : ~Less(rank[j], rank[i])

Ranks == {0, 1} \X Nat
ExactRanks(hits) == [i \in DOMAIN hits |-> ExactRank(hits[i])]
NearRanks(title, hits) == [i \in DOMAIN hits |-> NearRank(title, hits[i])]

\* The number of words a name adds is a number.
LEMMA AddedWordsIsNat ==
    ASSUME NEW S, NEW T, NEW searched, NEW found \in Seq(S)
    PROVE  AddedWords(searched, found) \in Nat
  <1>1. found \in Surjection(1..Len(found), ToSet(found))
    BY DEF Surjection, ToSet
  <1>2. IsFiniteSet(1..Len(found))
    BY FS_Interval
  <1>3. IsFiniteSet(ToSet(found))
    BY <1>1, <1>2, FS_Surjection
  <1>4. IsFiniteSet(ToSet(found) \ ToSet(searched))
    BY <1>3, FS_Subset
  <1> QED BY <1>4, FS_CardinalityType DEF AddedWords

LEMMA RanksAreRanks ==
    ASSUME NEW hits \in Seq(Hit), NEW title
    PROVE  /\ ExactRanks(hits) \in [1..Len(hits) -> Ranks]
           /\ NearRanks(title, hits) \in [1..Len(hits) -> Ranks]
  <1>1. ASSUME NEW i \in 1..Len(hits)
        PROVE  ExactRank(hits[i]) \in Ranks /\ NearRank(title, hits[i]) \in Ranks
    <2>1. hits[i] \in Hit
      OBVIOUS
    <2>2. Collapsed(hits[i]).name \in Seq(STRING)
      BY <2>1 DEF Hit, Collapsed
    <2>3. AddedWords(title, Collapsed(hits[i]).name) \in Nat
      BY <2>2, AddedWordsIsNat
    <2> QED BY <2>3 DEF ExactRank, NearRank, Rank, Ranks
  <1> QED BY <1>1 DEF ExactRanks, NearRanks

\* One more hit: it takes the place of the best if it ranks before it.
LEMMA BestOfMore ==
    ASSUME NEW I, NEW i, NEW hits, NEW rank, \A j \in I \cup {i} : rank[j] \in Ranks,
           NEW best, BestOf(best, I, hits, rank)
    PROVE  BestOf(IF Less(rank[i], best.rank) THEN [rank |-> rank[i], name |-> Collapsed(hits[i]).name] ELSE best,
                  I \cup {i}, hits, rank)
  <1>1. CASE I = {} /\ best = Nobody
    <2>1. Less(rank[i], best.rank)
      BY <1>1 DEF Less, Nobody, Ranks
    <2>2. ~Less(rank[i], rank[i])
      BY DEF Less, Ranks
    <2> QED BY <1>1, <2>1, <2>2 DEF BestOf
  <1>2. ASSUME NEW h \in I, best = [rank |-> rank[h], name |-> Collapsed(hits[h]).name],
               \A j \in I : ~Less(rank[j], rank[h])
        PROVE  BestOf(IF Less(rank[i], best.rank) THEN [rank |-> rank[i], name |-> Collapsed(hits[i]).name] ELSE best,
                      I \cup {i}, hits, rank)
    <2>1. best.rank = rank[h]
      BY <1>2
    <2>2. ~Less(rank[i], rank[i])
      BY DEF Less, Ranks
    <2>3. CASE Less(rank[i], rank[h])
      <3>1. \A j \in I : ~Less(rank[j], rank[i])
        BY <1>2, <2>3 DEF Less, Ranks
      <3> QED BY <2>1, <2>2, <2>3, <3>1 DEF BestOf
    <2>4. CASE ~Less(rank[i], rank[h])
      BY <1>2, <2>1, <2>4 DEF BestOf
    <2> QED BY <2>3, <2>4
  <1> QED BY <1>1, <1>2 DEF BestOf

\* What one hit does: nothing, or it is weighed against the best exact or the best near one.
LEMMA WeighOne ==
    ASSUME NEW e, NEW n, NEW f, f = [exact |-> e, near |-> n], NEW hit \in Hit, NEW title, NEW earned \in Nat
    PROVE  LET after == Weigh(f, hit, title, {title}, earned)
           IN  /\ ~Ok(hit, earned) => after = f
               /\ Ok(hit, earned) /\ IsExact(hit, title) =>
                    after = [exact |-> IF Less(ExactRank(hit), e.rank)
                                       THEN [rank |-> ExactRank(hit), name |-> Collapsed(hit).name] ELSE e, near |-> n]
               /\ Ok(hit, earned) /\ ~IsExact(hit, title) /\ IsSameGame(title, Collapsed(hit).as) =>
                    after = [exact |-> e, near |-> IF Less(NearRank(title, hit), n.rank)
                                                   THEN [rank |-> NearRank(title, hit), name |-> Collapsed(hit).name] ELSE n]
               /\ Ok(hit, earned) /\ ~IsExact(hit, title) /\ ~IsSameGame(title, Collapsed(hit).as) => after = f
  <1> DEFINE skip  == (earned # 0 /\ hit.released > earned) \/ ~hit.shared \/ Collapsed(hit).kind \in NotOnItsOwn
             after == Weigh(f, hit, title, {title}, earned)
             exact == <<Rank(Collapsed(hit).kind), 0>>
             rank  == <<Rank(Collapsed(hit).kind), AddedWords(title, Collapsed(hit).name)>>
             name  == Collapsed(hit).name
  <1>1. skip <=> ~Ok(hit, earned)
    BY DEF Ok, Hit
  <1>2. IsExact(hit, title) <=> {name, Collapsed(hit).as} \cap {title} # {}
    BY DEF IsExact
  <1>3. f.exact = e /\ f.near = n
    OBVIOUS
  <1>4. skip => after = f
    BY DEF Weigh
  <1>5. ~skip /\ IsExact(hit, title) =>
          after = [f EXCEPT !.exact = IF Less(exact, @.rank) THEN [rank |-> exact, name |-> name] ELSE @]
    BY <1>2 DEF Weigh
  <1>6. ~skip /\ ~IsExact(hit, title) /\ IsSameGame(title, Collapsed(hit).as) /\ Less(rank, n.rank) =>
          after = [f EXCEPT !.near = [rank |-> rank, name |-> name]]
    BY <1>2, <1>3 DEF Weigh
  <1>7. ~skip /\ ~IsExact(hit, title) /\ ~(IsSameGame(title, Collapsed(hit).as) /\ Less(rank, n.rank)) => after = f
    BY <1>2, <1>3 DEF Weigh
  <1>8. exact = ExactRank(hit) /\ rank = NearRank(title, hit)
    BY DEF ExactRank, NearRank
  <1> HIDE DEF skip, after, exact, rank, name
  <1> QED BY <1>1, <1>3, <1>4, <1>5, <1>6, <1>7, <1>8 DEF after, name

\* After k hits the loop holds the best of them.
LEMMA WeighedIsBest ==
    ASSUME NEW hits \in Seq(Hit), NEW title, NEW earned \in Nat
    PROVE  \A k \in 0..Len(hits) :
             LET w == Weighed(title, hits, earned)[k]
             IN  /\ w = [exact |-> w.exact, near |-> w.near]
                 /\ BestOf(w.exact, ExactOf(title, hits, earned, k), hits, ExactRanks(hits))
                 /\ BestOf(w.near, NearOf(title, hits, earned, k), hits, NearRanks(title, hits))
  <1> DEFINE w == Weighed(title, hits, earned)
             N == Len(hits)
             X(k) == ExactOf(title, hits, earned, k)
             Y(k) == NearOf(title, hits, earned, k)
             XR == ExactRanks(hits)
             YR == NearRanks(title, hits)
             Q(k) == /\ w[k] = [exact |-> w[k].exact, near |-> w[k].near]
                     /\ BestOf(w[k].exact, X(k), hits, XR)
                     /\ BestOf(w[k].near, Y(k), hits, YR)
             Good == {k \in Nat : k <= N => Q(k)}
  <1>1. /\ N \in Nat
        /\ w[0] = [exact |-> Nobody, near |-> Nobody]
        /\ \A k \in 1..N : w[k] = Weigh(w[k - 1], hits[k], title, {title}, earned)
    <2>1. Len(hits) \in Nat
      OBVIOUS
    <2> QED BY <2>1, WeighedInTurn
  <1>2. /\ XR \in [1..N -> Ranks] /\ YR \in [1..N -> Ranks]
        /\ \A k \in 1..N : XR[k] = ExactRank(hits[k]) /\ YR[k] = NearRank(title, hits[k]) /\ hits[k] \in Hit
    <2>1. XR \in [1..N -> Ranks] /\ YR \in [1..N -> Ranks]
      BY RanksAreRanks
    <2>2. DOMAIN hits = 1..N /\ \A k \in 1..N : hits[k] \in Hit
      OBVIOUS
    <2> QED BY <2>1, <2>2 DEF ExactRanks, NearRanks
  <1> HIDE DEF w, XR, YR
  <1>3. 0 \in Good
    <2>1. X(0) = {} /\ Y(0) = {}
      BY DEF ExactOf, NearOf
    <2> QED BY <1>1, <2>1 DEF BestOf
  <1>4. ASSUME NEW k \in Nat, k \in Good PROVE k + 1 \in Good
    <2> DEFINE i == k + 1
    <2> SUFFICES ASSUME i <= N PROVE Q(i)
      OBVIOUS
    <2>1. Q(k) /\ i \in 1..N /\ w[i] = Weigh(w[k], hits[i], title, {title}, earned)
      <3>1. k <= N /\ i \in 1..N /\ i - 1 = k
        BY <1>1
      <3>2. Q(k)
        BY <1>4, <3>1
      <3> QED BY <1>1, <3>1, <3>2
    <2>2. PICK e, n : e = w[k].exact /\ n = w[k].near
      OBVIOUS
    <2>3. PICK hit \in Hit : hit = hits[i] /\ XR[i] = ExactRank(hit) /\ YR[i] = NearRank(title, hit)
      BY <1>2, <2>1
    <2>4. w[k] = [exact |-> e, near |-> n] /\ BestOf(e, X(k), hits, XR) /\ BestOf(n, Y(k), hits, YR)
      BY <2>1, <2>2
    <2>5. (\A j \in X(k) \cup {i} : XR[j] \in Ranks) /\ (\A j \in Y(k) \cup {i} : YR[j] \in Ranks)
      BY <1>2, <2>1 DEF ExactOf, NearOf
    <2>6. /\ Ok(hit, earned) /\ IsExact(hit, title) => X(i) = X(k) \cup {i}
          /\ ~(Ok(hit, earned) /\ IsExact(hit, title)) => X(i) = X(k)
      BY <2>1, <2>3 DEF ExactOf
    <2>7. /\ Ok(hit, earned) /\ ~IsExact(hit, title) /\ IsSameGame(title, Collapsed(hit).as) => Y(i) = Y(k) \cup {i}
          /\ ~(Ok(hit, earned) /\ ~IsExact(hit, title) /\ IsSameGame(title, Collapsed(hit).as)) => Y(i) = Y(k)
      BY <2>1, <2>3 DEF NearOf
    <2> DEFINE made(r) == [rank |-> r, name |-> Collapsed(hit).name]
    <2>8. BestOf(IF Less(XR[i], e.rank) THEN made(XR[i]) ELSE e, X(k) \cup {i}, hits, XR)
      BY <2>3, <2>4, <2>5, BestOfMore
    <2>9. BestOf(IF Less(YR[i], n.rank) THEN made(YR[i]) ELSE n, Y(k) \cup {i}, hits, YR)
      BY <2>3, <2>4, <2>5, BestOfMore
    <2>10. /\ ~Ok(hit, earned) => w[i] = w[k]
           /\ Ok(hit, earned) /\ IsExact(hit, title) =>
                w[i] = [exact |-> IF Less(XR[i], e.rank) THEN made(XR[i]) ELSE e, near |-> n]
           /\ Ok(hit, earned) /\ ~IsExact(hit, title) /\ IsSameGame(title, Collapsed(hit).as) =>
                w[i] = [exact |-> e, near |-> IF Less(YR[i], n.rank) THEN made(YR[i]) ELSE n]
           /\ Ok(hit, earned) /\ ~IsExact(hit, title) /\ ~IsSameGame(title, Collapsed(hit).as) => w[i] = w[k]
      <3>1. PICK f : f = w[k]
        OBVIOUS
      <3>2. f = [exact |-> e, near |-> n] /\ w[i] = Weigh(f, hit, title, {title}, earned)
        BY <2>1, <2>3, <2>4, <3>1
      <3> QED BY <2>3, <3>1, <3>2, WeighOne
    <2> HIDE DEF X, Y, i, made
    <2>11. CASE ~Ok(hit, earned) \/ (~IsExact(hit, title) /\ ~IsSameGame(title, Collapsed(hit).as))
      BY <2>4, <2>6, <2>7, <2>10, <2>11
    <2>12. CASE Ok(hit, earned) /\ IsExact(hit, title)
      <3>1. PICK a : a = IF Less(XR[i], e.rank) THEN made(XR[i]) ELSE e
        OBVIOUS
      <3>2. w[i] = [exact |-> a, near |-> n] /\ BestOf(a, X(i), hits, XR) /\ BestOf(n, Y(i), hits, YR)
        BY <2>4, <2>6, <2>7, <2>8, <2>10, <2>12, <3>1
      <3>3. w[i].exact = a /\ w[i].near = n
        BY <3>2
      <3> QED BY <3>2, <3>3
    <2>13. CASE Ok(hit, earned) /\ ~IsExact(hit, title) /\ IsSameGame(title, Collapsed(hit).as)
      <3>1. PICK a : a = IF Less(YR[i], n.rank) THEN made(YR[i]) ELSE n
        OBVIOUS
      <3>2. w[i] = [exact |-> e, near |-> a] /\ BestOf(e, X(i), hits, XR) /\ BestOf(a, Y(i), hits, YR)
        BY <2>4, <2>6, <2>7, <2>9, <2>10, <2>13, <3>1
      <3>3. w[i].exact = e /\ w[i].near = a
        BY <3>2
      <3> QED BY <3>2, <3>3
    <2> QED BY <2>11, <2>12, <2>13
  <1>5. Nat \subseteq Good
    <2> HIDE DEF Good
    <2> QED BY <1>3, <1>4, SetInduction
  <1>6. \A k \in 0..N : Q(k)
    BY <1>5
  <1> QED BY <1>6 DEF w, XR, YR

\* The name it settles on is that of the best exact hit, else of the best near one.
LEMMA ProposalIsBest ==
    ASSUME NEW hits \in Seq(Hit), NEW title, NEW earned \in Nat
    PROVE  \E e, n : /\ BestOf(e, ExactOf(title, hits, earned, Len(hits)), hits, ExactRanks(hits))
                     /\ BestOf(n, NearOf(title, hits, earned, Len(hits)), hits, NearRanks(title, hits))
                     /\ Proposal(title, hits, earned) = IF e # Nobody THEN e.name ELSE n.name
  <1>1. Len(hits) \in 0..Len(hits)
    OBVIOUS
  <1> QED BY <1>1, WeighedIsBest DEF Proposal

\* Two orders of hits no two of which rank the same have the same best.
LEMMA OneBest ==
    ASSUME NEW N, NEW hits, NEW rank, NEW I \in SUBSET N, NEW best, BestOf(best, I, hits, rank),
           \A i \in N : rank[i] \in Ranks,
           \A i, j \in I : i # j => rank[i] # rank[j],
           NEW p \in [N -> N], \A i \in N : \E j \in N : p[j] = i,
           NEW other, NEW ranks, NEW J \in SUBSET N,
           \A j \in N : other[j] = hits[p[j]] /\ ranks[j] = rank[p[j]] /\ (j \in J <=> p[j] \in I),
           NEW found, BestOf(found, J, other, ranks)
    PROVE  best = found
  <1>1. CASE I = {}
    <2>1. J = {}
      BY <1>1
    <2> QED BY <1>1, <2>1 DEF BestOf
  <1>2. CASE I # {}
    <2>1. J # {}
      BY <1>2
    <2>2. PICK i \in I : best = [rank |-> rank[i], name |-> Collapsed(hits[i]).name] /\ \A h \in I : ~Less(rank[h], rank[i])
      BY <1>2 DEF BestOf
    <2>3. PICK j \in J : found = [rank |-> ranks[j], name |-> Collapsed(other[j]).name] /\ \A h \in J : ~Less(ranks[h], ranks[j])
      BY <2>1 DEF BestOf
    <2>4. PICK h \in N : p[h] = i
      OBVIOUS
    <2>5. p[j] \in I /\ h \in J
      BY <2>4
    <2>6. ~Less(rank[p[j]], rank[i]) /\ ~Less(rank[i], rank[p[j]])
      BY <2>2, <2>3, <2>4, <2>5
    <2>7. rank[p[j]] = rank[i]
      <3>1. rank[p[j]] \in Ranks /\ rank[i] \in Ranks
        BY <2>5
      <3>2. \A a, b \in Ranks : ~Less(a, b) /\ ~Less(b, a) => a[1] = b[1] /\ a[2] = b[2]
        <4>1. \A a \in Ranks : a[1] \in Int /\ a[2] \in Int
          BY DEF Ranks
        <4> QED BY <4>1 DEF Less
      <3>3. \A a, b \in Ranks : a[1] = b[1] /\ a[2] = b[2] => a = b
        BY DEF Ranks
      <3> QED BY <2>6, <3>1, <3>2, <3>3
    <2>8. p[j] = i
      BY <2>5, <2>7
    <2> QED BY <2>2, <2>3, <2>8
  <1> QED BY <1>1, <1>2

\* What build_proposal settles on is the same in whatever order IGDB returns hits that it
\* tells apart; it was out in time; and it is no sequel of the title.
LEMMA RankingDoesNotMatter ==
    ASSUME NEW hits \in Seq(Hit), NEW title, NEW earned \in Nat
    PROVE  RankingIsNotIdentity(title, hits, earned)
  <1> DEFINE N        == DOMAIN hits
             X        == ExactOf(title, hits, earned, Len(hits))
             Y        == NearOf(title, hits, earned, Len(hits))
             XR       == ExactRanks(hits)
             YR       == NearRanks(title, hits)
             name     == Proposal(title, hits, earned)
             score(h) == <<Rank(Collapsed(h).kind),
                           IF title \in {Collapsed(h).name, Collapsed(h).as} THEN -1
                           ELSE AddedWords(title, Collapsed(h).name)>>
             distinct == \A i, j \in N : i # j => score(hits[i]) # score(hits[j])
  <1>1. PICK e, n : BestOf(e, X, hits, XR) /\ BestOf(n, Y, hits, YR) /\ name = IF e # Nobody THEN e.name ELSE n.name
    BY ProposalIsBest
  <1>2. N = 1..Len(hits) /\ \A i \in N : hits[i] \in Hit
    OBVIOUS
  <1>3. X \in SUBSET N /\ Y \in SUBSET N
    BY <1>2 DEF ExactOf, NearOf
  <1>4. \A i \in N : XR[i] = ExactRank(hits[i]) /\ YR[i] = NearRank(title, hits[i]) /\ XR[i] \in Ranks /\ YR[i] \in Ranks
    <2>1. XR \in [N -> Ranks] /\ YR \in [N -> Ranks]
      BY <1>2, RanksAreRanks
    <2> QED BY <2>1 DEF ExactRanks, NearRanks
  <1>5. ASSUME distinct, NEW p \in Orders(hits)
        PROVE  Proposal(title, [i \in N |-> hits[p[i]]], earned) = name
    <2>1. PICK other : other = [i \in N |-> hits[p[i]]]
      OBVIOUS
    <2>2. p \in [N -> N] /\ \A i \in N : \E j \in N : p[j] = i
      BY DEF Orders
    <2>3. other \in Seq(Hit) /\ Len(other) = Len(hits) /\ DOMAIN other = N
      BY <1>2, <2>1, <2>2
    <2> DEFINE J == ExactOf(title, other, earned, Len(other))
               K == NearOf(title, other, earned, Len(other))
    <2>4. PICK a, b : /\ BestOf(a, J, other, ExactRanks(other)) /\ BestOf(b, K, other, NearRanks(title, other))
                      /\ Proposal(title, other, earned) = IF a # Nobody THEN a.name ELSE b.name
      BY <2>3, ProposalIsBest
    <2>5. \A j \in N : /\ other[j] = hits[p[j]] /\ p[j] \in N
                       /\ ExactRanks(other)[j] = XR[p[j]] /\ NearRanks(title, other)[j] = YR[p[j]]
      BY <2>1, <2>2, <2>3 DEF ExactRanks, NearRanks
    <2>6. J \in SUBSET N /\ K \in SUBSET N /\ \A j \in N : (j \in J <=> p[j] \in X) /\ (j \in K <=> p[j] \in Y)
      BY <1>2, <2>3, <2>5 DEF ExactOf, NearOf
    <2>7. \A i, j \in X : i # j => XR[i] # XR[j]
      BY <1>3, <1>4, <1>5 DEF ExactOf, IsExact, ExactRank
    <2>8. \A i, j \in Y : i # j => YR[i] # YR[j]
      BY <1>3, <1>4, <1>5 DEF NearOf, IsExact, NearRank
    <2> HIDE DEF N, X, Y, J, K, XR, YR
    <2>9. e = a
      <3>1. PICK ranks : ranks = ExactRanks(other)
        OBVIOUS
      <3>2. \A j \in N : other[j] = hits[p[j]] /\ ranks[j] = XR[p[j]] /\ (j \in J <=> p[j] \in X)
        BY <2>5, <2>6, <3>1
      <3>3. BestOf(a, J, other, ranks) /\ BestOf(e, X, hits, XR)
        BY <1>1, <2>4, <3>1
      <3>4. X \in SUBSET N /\ J \in SUBSET N /\ \A i \in N : XR[i] \in Ranks
        BY <1>3, <1>4, <2>6
      <3> QED BY <2>2, <2>7, <3>2, <3>3, <3>4, OneBest
    <2>10. n = b
      <3>1. PICK ranks : ranks = NearRanks(title, other)
        OBVIOUS
      <3>2. \A j \in N : other[j] = hits[p[j]] /\ ranks[j] = YR[p[j]] /\ (j \in K <=> p[j] \in Y)
        BY <2>5, <2>6, <3>1
      <3>3. BestOf(b, K, other, ranks) /\ BestOf(n, Y, hits, YR)
        BY <1>1, <2>4, <3>1
      <3>4. Y \in SUBSET N /\ K \in SUBSET N /\ \A i \in N : YR[i] \in Ranks
        BY <1>3, <1>4, <2>6
      <3> QED BY <2>2, <2>8, <3>2, <3>3, <3>4, OneBest
    <2> HIDE DEF name
    <2> QED BY <1>1, <2>1, <2>4, <2>9, <2>10
  <1>6. ASSUME name # <<>>
        PROVE  \E i \in N : Collapsed(hits[i]).name = name /\ (i \in X \/ i \in Y)
    <2>1. Nobody.name = <<>>
      BY DEF Nobody
    <2>2. e # Nobody => \E i \in X : e.name = Collapsed(hits[i]).name
      BY <1>1 DEF BestOf
    <2>3. n # Nobody => \E i \in Y : n.name = Collapsed(hits[i]).name
      BY <1>1 DEF BestOf
    <2> HIDE DEF N, X, Y, XR, YR, name
    <2> QED BY <1>1, <1>3, <1>6, <2>1, <2>2, <2>3
  <1>7. name # <<>> => \E i \in N : Collapsed(hits[i]).name = name /\ (earned = 0 \/ hits[i].released <= earned)
    BY <1>6 DEF ExactOf, NearOf, Ok
  <1>8. ASSUME name # <<>>, StartsWith(name, title), Len(name) > Len(title)
        PROVE  name[Len(title) + 1] \notin Digits \/ \E i \in N : hits[i].parent = name
    <2>1. PICK i \in N : Collapsed(hits[i]).name = name /\ (i \in X \/ i \in Y)
      BY <1>6, <1>8
    <2>2. CASE hits[i].parent # <<>>
      BY <2>1, <2>2 DEF Collapsed
    <2>3. CASE hits[i].parent = <<>>
      <3>1. Collapsed(hits[i]).as = name
        BY <2>1, <2>3 DEF Collapsed
      <3>2. name \in Seq(STRING)
        <4>1. hits[i] \in Hit
          BY <1>2
        <4> QED BY <2>1, <2>3, <4>1 DEF Collapsed, Hit
      <3>3. title # name
        <4>1. Len(name) \in Nat
          BY <3>2
        <4> QED BY <1>8, <4>1
      <3>4. i \in Y
        BY <2>1, <3>1, <3>3 DEF ExactOf, IsExact
      <3>5. IsSameGame(title, name)
        BY <3>1, <3>4 DEF NearOf
      <3> HIDE DEF name
      <3> QED BY <1>8, <3>3, <3>5 DEF IsSameGame
    <2> QED BY <2>2, <2>3
  <1> QED BY <1>5, <1>7, <1>8 DEF RankingIsNotIdentity

-----------------------------------------------------------------------------
(* Review records *)

\* The records of a queue have each an id of its own.
Records(S) == /\ IsFiniteSet(S)
              /\ \A c \in S : c.id \in Nat \ {0}
              /\ \A c, d \in S : c.id = d.id => c = d

LEMMA FewerRecords ==
    ASSUME NEW S, Records(S), NEW T \in SUBSET S
    PROVE  Records(T)
  BY FS_Subset DEF Records

\* Among finitely many records there is a last id.
LEMMA LastIdIsLast ==
    ASSUME NEW S, Records(S)
    PROVE  LastId(S) \in Nat /\ \A c \in S : c.id <= LastId(S)
  <1>0. PICK n \in Nat : \E f : f \in Surjection(1..n, S)
    BY FS_NatSurjection DEF Records, ExistsSurjection
  <1>1. PICK f : f \in Surjection(1..n, S)
    BY <1>0
  <1>2. \A i \in 1..n : f[i].id \in Nat
    BY <1>1 DEF Surjection, Records
  <1> DEFINE Good == {k \in Nat : k <= n => \E m \in Nat : \A i \in 1..k : f[i].id <= m}
  <1>3. 0 \in Good
    OBVIOUS
  <1>4. ASSUME NEW k \in Nat, k \in Good PROVE k + 1 \in Good
    <2> SUFFICES ASSUME k + 1 <= n PROVE \E m \in Nat : \A i \in 1..(k + 1) : f[i].id <= m
      OBVIOUS
    <2>1. PICK m \in Nat : \A i \in 1..k : f[i].id <= m
      BY <1>4
    <2>2. f[k + 1].id \in Nat
      BY <1>2
    <2>3. PICK x \in Nat : x = IF m <= f[k + 1].id THEN f[k + 1].id ELSE m
      BY <2>2
    <2>4. \A i \in 1..(k + 1) : f[i].id <= x
      <3>1. \A i \in 1..k : f[i].id <= x
        BY <1>2, <2>1, <2>2, <2>3
      <3>2. f[k + 1].id <= x
        BY <2>2, <2>3
      <3> QED BY <3>1, <3>2
    <2> QED BY <2>4
  <1>5. Nat \subseteq Good
    <2> HIDE DEF Good
    <2> QED BY <1>3, <1>4, SetInduction
  <1>6. PICK m \in Nat : \A i \in 1..n : f[i].id <= m
    <2>1. n \in Good
      BY <1>5
    <2> QED BY <2>1
  <1>7. PICK B : B = {x \in Nat : \A c \in S : c.id <= x}
    OBVIOUS
  <1>8. m \in B
    BY <1>1, <1>6, <1>7 DEF Surjection
  <1>9. PICK x \in B : \A y \in B : x <= y
    BY <1>7, <1>8, LeastNat
  <1>10. x \in {0} \cup {c.id : c \in S}
    <2> SUFFICES ASSUME x # 0, \A c \in S : c.id # x PROVE FALSE
      OBVIOUS
    <2>1. x - 1 \in Nat /\ \A c \in S : c.id <= x - 1
      BY <1>7, <1>9 DEF Records
    <2> QED BY <1>7, <1>9, <2>1
  <1>11. \E k \in {0} \cup {c.id : c \in S} : \A c \in S : c.id <= k
    BY <1>7, <1>9, <1>10
  <1>12. LastId(S) \in {0} \cup {c.id : c \in S} /\ \A c \in S : c.id <= LastId(S)
    BY <1>11 DEF LastId
  <1> QED BY <1>12 DEF Records

\* The records are placed one after the other.
LEMMA PlacedInTurn ==
    ASSUME NEW S, LastId(S) \in Nat
    PROVE  LET p == Placed(S)
           IN  /\ p[0] = <<>>
               /\ \A k \in 1..LastId(S) :
                    p[k] = IF \E c \in S : c.id = k THEN PlaceSet(p[k - 1], CHOOSE c \in S : c.id = k) ELSE p[k - 1]
  <1> DEFINE Step(f, k) == IF \E c \in S : c.id = k THEN PlaceSet(f, CHOOSE c \in S : c.id = k) ELSE f
             N          == LastId(S)
             Is(g, n)   == g = [k \in 0..n |-> IF k = 0 THEN <<>> ELSE Step(g[k - 1], k)]
             Good       == {n \in Nat : \E g : Is(g, n)}
             p          == Placed(S)
  <1>1. p = CHOOSE g : Is(g, N)
    BY DEF Placed
  <1> HIDE DEF Step, p, N
  <1>2. 0 \in Good
    <2>1. Is([k \in 0..0 |-> <<>>], 0)
      OBVIOUS
    <2> QED BY <2>1
  <1>3. ASSUME NEW n \in Nat, n \in Good PROVE n + 1 \in Good
    <2>1. PICK g : Is(g, n)
      BY <1>3
    <2>2. PICK h : h = [k \in 0..(n + 1) |-> IF k = 0 THEN <<>> ELSE Step(g[k - 1], k)]
      OBVIOUS
    <2>3. \A k \in 0..n : h[k] = g[k]
      BY <2>1, <2>2
    <2>4. \A k \in 0..(n + 1) : k # 0 => h[k - 1] = g[k - 1]
      BY <2>3
    <2>5. Is(h, n + 1)
      BY <2>2, <2>4
    <2> QED BY <2>5
  <1>4. Nat \subseteq Good
    <2> HIDE DEF Good
    <2> QED BY <1>2, <1>3, SetInduction
  <1>5. N \in Nat
    BY DEF N
  <1>6. Is(p, N)
    <2>1. \E g : Is(g, N)
      BY <1>4, <1>5
    <2> QED BY <1>1, <2>1
  <1>7. p[0] = <<>> /\ \A k \in 1..N : p[k] = Step(p[k - 1], k)
    BY <1>5, <1>6
  <1> QED BY <1>7 DEF Step, p, N

\* Places for the records of S: each is in one, sets in one place contest nothing, and
\* every place but the first was opened for a set that contests the first.
Places(subs, S) ==
    /\ subs \in Seq(SUBSET S)
    /\ \A c \in S : \E i \in DOMAIN subs : c \in subs[i]
    /\ \A i, j \in DOMAIN subs : i # j => subs[i] \cap subs[j] = {}
    /\ \A i \in DOMAIN subs : \A c, d \in subs[i] : ~Clashes(c, d)
    /\ \A i \in DOMAIN subs : i # 1 => \E c \in subs[i], d \in subs[1] : Clashes(c, d)

LEMMA ClashesBothWays == \A c, d : (Clashes(c, d) <=> Clashes(d, c)) /\ ~Clashes(c, c)
  BY DEF Clashes

LEMMA PlaceOne ==
    ASSUME NEW S, NEW subs, Places(subs, S), NEW c, c \notin S
    PROVE  Places(PlaceSet(subs, c), S \cup {c})
  <1>1. PICK free : free = {i \in DOMAIN subs : \A d \in subs[i] : ~Clashes(c, d)}
    OBVIOUS
  <1>2. subs \in Seq(SUBSET S) /\ Len(subs) \in Nat /\ DOMAIN subs = 1..Len(subs) /\ \A i \in DOMAIN subs : subs[i] \subseteq S
    BY DEF Places
  <1>3. CASE free = {}
    <2>1. PICK new : new = Append(subs, {c})
      OBVIOUS
    <2>2. PICK N \in Nat : N = Len(subs) + 1
      BY <1>2
    <2>3. /\ DOMAIN new = 1..N /\ new[N] = {c}
          /\ \A i \in 1..N : i # N => i \in DOMAIN subs /\ new[i] = subs[i]
          /\ DOMAIN subs \subseteq 1..N /\ \A i \in DOMAIN subs : i # N
      BY <1>2, <2>1, <2>2
    <2>4. new \in Seq(SUBSET (S \cup {c}))
      <3>1. subs \in Seq(SUBSET (S \cup {c}))
        BY <1>2
      <3>2. {c} \in SUBSET (S \cup {c})
        OBVIOUS
      <3> QED BY <2>1, <3>1, <3>2
    <2>5. \A d \in S \cup {c} : \E i \in DOMAIN new : d \in new[i]
      BY <2>2, <2>3 DEF Places
    <2>6. \A i, j \in DOMAIN new : i # j => new[i] \cap new[j] = {}
      BY <1>2, <2>3 DEF Places
    <2>7. \A i \in DOMAIN new : \A a, b \in new[i] : ~Clashes(a, b)
      BY <2>3, ClashesBothWays DEF Places
    <2>8. \A i \in DOMAIN new : i # 1 => \E a \in new[i], d \in new[1] : Clashes(a, d)
      <3> SUFFICES ASSUME NEW i \in DOMAIN new, i # 1 PROVE \E a \in new[i], d \in new[1] : Clashes(a, d)
        OBVIOUS
      <3>1. 1 \in DOMAIN subs /\ new[1] = subs[1]
        BY <1>2, <2>2, <2>3
      <3>2. CASE i = N
        BY <1>1, <1>3, <2>3, <3>1, <3>2
      <3>3. CASE i # N
        BY <2>3, <3>1, <3>3 DEF Places
      <3> QED BY <3>2, <3>3
    <2>9. PlaceSet(subs, c) = new
      BY <1>1, <1>3, <2>1 DEF PlaceSet
    <2> QED BY <2>4, <2>5, <2>6, <2>7, <2>8, <2>9 DEF Places
  <1>4. CASE free # {}
    <2>1. PICK i \in free : i = CHOOSE h \in free : \A j \in free : h <= j
      <3>1. free \in SUBSET Nat
        BY <1>1, <1>2
      <3>2. \E h \in free : \A j \in free : h <= j
        BY <1>4, <3>1, LeastNat
      <3> QED BY <3>2
    <2>2. PICK new : new = [subs EXCEPT ![i] = @ \cup {c}]
      OBVIOUS
    <2>3. /\ i \in DOMAIN subs /\ DOMAIN new = DOMAIN subs /\ new[i] = subs[i] \cup {c}
          /\ \A j \in DOMAIN subs : j # i => new[j] = subs[j]
          /\ \A d \in subs[i] : ~Clashes(c, d)
      BY <1>1, <1>2, <2>1, <2>2
    <2>4. new \in Seq(SUBSET (S \cup {c}))
      <3>1. subs \in Seq(SUBSET (S \cup {c}))
        BY <1>2
      <3>2. subs[i] \cup {c} \in SUBSET (S \cup {c})
        BY <1>2, <2>3
      <3> QED BY <1>2, <2>2, <2>3, <3>1, <3>2
    <2>5. \A d \in S \cup {c} : \E j \in DOMAIN new : d \in new[j]
      BY <2>3 DEF Places
    <2>6. \A h, j \in DOMAIN new : h # j => new[h] \cap new[j] = {}
      BY <1>2, <2>3 DEF Places
    <2>7. \A j \in DOMAIN new : \A a, b \in new[j] : ~Clashes(a, b)
      BY <2>3, ClashesBothWays DEF Places
    <2>8. \A j \in DOMAIN new : j # 1 => \E a \in new[j], d \in new[1] : Clashes(a, d)
      BY <1>2, <2>3 DEF Places
    <2>9. PlaceSet(subs, c) = new
      BY <1>1, <1>4, <2>1, <2>2 DEF PlaceSet
    <2> QED BY <2>4, <2>5, <2>6, <2>7, <2>8, <2>9 DEF Places
  <1> QED BY <1>3, <1>4

\* In the end every trophy set has its place.
LEMMA AllArePlaced ==
    ASSUME NEW S, Records(S)
    PROVE  Places(Placed(S)[LastId(S)], S)
  <1> DEFINE p       == Placed(S)
             N       == LastId(S)
             Upto(k) == {c \in S : c.id <= k}
             Good    == {k \in Nat : k <= N => Places(p[k], Upto(k))}
  <1>1. N \in Nat /\ \A c \in S : c.id <= N
    BY LastIdIsLast
  <1>2. p[0] = <<>> /\ \A k \in 1..N :
          p[k] = IF \E c \in S : c.id = k THEN PlaceSet(p[k - 1], CHOOSE c \in S : c.id = k) ELSE p[k - 1]
    BY <1>1, PlacedInTurn
  <1> HIDE DEF p, N
  <1>3. 0 \in Good
    <2>1. Upto(0) = {}
      BY DEF Records
    <2>2. Places(<<>>, {})
      BY DEF Places
    <2> HIDE DEF Upto
    <2> QED BY <1>2, <2>1, <2>2
  <1>4. ASSUME NEW k \in Nat, k \in Good PROVE k + 1 \in Good
    <2> SUFFICES ASSUME k + 1 <= N PROVE Places(p[k + 1], Upto(k + 1))
      OBVIOUS
    <2>1. Places(p[k], Upto(k)) /\ k + 1 \in 1..N /\ (k + 1) - 1 = k
      BY <1>1, <1>4
    <2>2. CASE \E c \in S : c.id = k + 1
      <3>1. PICK c \in S : c.id = k + 1 /\ c = CHOOSE d \in S : d.id = k + 1
        BY <2>2
      <3>2. p[k + 1] = PlaceSet(p[k], c)
        BY <1>2, <2>1, <2>2, <3>1
      <3>3. c \notin Upto(k) /\ Upto(k + 1) = Upto(k) \cup {c}
        BY <3>1 DEF Records
      <3> QED BY <2>1, <3>2, <3>3, PlaceOne
    <2>3. CASE ~\E c \in S : c.id = k + 1
      <3>1. p[k + 1] = p[k]
        BY <1>2, <2>1, <2>3
      <3>2. Upto(k + 1) = Upto(k)
        BY <2>3 DEF Records
      <3> QED BY <2>1, <3>1, <3>2
    <2> QED BY <2>2, <2>3
  <1>5. Nat \subseteq Good
    <2> HIDE DEF Good
    <2> QED BY <1>3, <1>4, SetInduction
  <1>6. Upto(N) = S /\ Places(p[N], Upto(N))
    BY <1>1, <1>5
  <1> QED BY <1>6 DEF p, N

\* The questions the records of one bucket split into: they share out the records, in one
\* of them no two sets contest a platform, and if there are several, some sets do.
LEMMA SplitsRight ==
    ASSUME NEW members, Records(members)
    PROVE  /\ \A c \in members : \E g \in SubGroups(members) : c \in g
           /\ \A g \in SubGroups(members) : g \subseteq members
           /\ \A g, h \in SubGroups(members) : g # h => g \cap h = {}
           /\ \A g \in SubGroups(members) : \A c, d \in g : c.np # None /\ d.np # None => ~Clashes(c, d)
           /\ \A g, h \in SubGroups(members) : g # h =>
                /\ \E c, d \in members : c.np # None /\ d.np # None /\ Clashes(c, d)
                /\ SetPlats(g) # {} => Contested(SubGroups(members), g)
  <1>1. PICK sets, bare : sets = {c \in members : c.np # None} /\ bare = members \ sets
    OBVIOUS
  <1>2. PICK subs : subs = Placed(sets)[LastId(sets)]
    OBVIOUS
  <1>3. Places(subs, sets)
    <2>1. Records(sets)
      BY <1>1, FewerRecords
    <2> QED BY <1>2, <2>1, AllArePlaced
  <1>4. /\ Len(subs) \in Nat /\ DOMAIN subs = 1..Len(subs)
        /\ \A i \in DOMAIN subs : subs[i] \subseteq sets
        /\ \A c \in sets : \E i \in DOMAIN subs : c \in subs[i]
        /\ \A i, j \in DOMAIN subs : i # j => subs[i] \cap subs[j] = {}
        /\ \A i \in DOMAIN subs : \A c, d \in subs[i] : ~Clashes(c, d)
        /\ \A i \in DOMAIN subs : i # 1 => \E c \in subs[i], d \in subs[1] : Clashes(c, d)
    BY <1>3 DEF Places
  <1>5. PICK G : G = SubGroups(members)
    OBVIOUS
  <1>6. /\ Len(subs) = 0 => G = {bare}
        /\ Len(subs) = 1 => G = {subs[1] \cup bare}
        /\ Len(subs) > 1 => G = ToSet(subs) \cup {{c} : c \in bare}
    <2>1. G = CASE Len(subs) = 0 -> {bare}
                [] Len(subs) = 1 -> {subs[1] \cup bare}
                [] Len(subs) > 1 -> ToSet(subs) \cup {{c} : c \in bare}
      BY <1>1, <1>2, <1>5 DEF SubGroups
    <2>2. PICK three : three = ToSet(subs) \cup {{c} : c \in bare}
      OBVIOUS
    <2>3. Len(subs) = 0 => G = {bare}
      BY <2>1
    <2>4. Len(subs) = 1 => G = {subs[1] \cup bare}
      BY <2>1
    <2>5. Len(subs) > 1 => G = three
      BY <1>4, <2>1, <2>2
    <2> QED BY <2>2, <2>3, <2>4, <2>5
  <1>7. \A c \in sets : c.np # None /\ c \in members /\ c \notin bare
    BY <1>1
  <1>8. \A c \in bare : c.np = None /\ c \in members /\ c \notin sets
    BY <1>1
  <1>9. members = sets \cup bare
    BY <1>1
  <1>10. CASE Len(subs) = 0
    <2>1. sets = {} /\ G = {bare}
      BY <1>4, <1>6, <1>10
    <2> QED BY <1>5, <1>8, <1>9, <2>1
  <1>11. CASE Len(subs) = 1
    <2>1. DOMAIN subs = {1}
      BY <1>4, <1>11
    <2>2. sets = subs[1] /\ \A c, d \in sets : ~Clashes(c, d)
      <3>1. 1 \in DOMAIN subs /\ \A i \in DOMAIN subs : i = 1
        BY <2>1
      <3>2. subs[1] \subseteq sets /\ \A c, d \in subs[1] : ~Clashes(c, d)
        BY <1>4, <3>1
      <3>3. sets \subseteq subs[1]
        BY <1>4, <3>1
      <3> QED BY <3>2, <3>3
    <2>3. G = {members}
      BY <1>6, <1>9, <1>11, <2>2
    <2>4. \A c \in members : c.np # None => c \in sets
      BY <1>8, <1>9
    <2> QED BY <1>5, <2>2, <2>3, <2>4
  <1>12. CASE Len(subs) > 1
    <2>1. \A g \in G : (\E i \in DOMAIN subs : g = subs[i]) \/ (\E c \in bare : g = {c})
      BY <1>6, <1>12 DEF ToSet
    <2>2. (\A i \in DOMAIN subs : subs[i] \in G) /\ (\A c \in bare : {c} \in G)
      BY <1>6, <1>12 DEF ToSet
    <2>3. (\A c \in members : \E g \in G : c \in g) /\ \A g \in G : g \subseteq members
      <3>1. ASSUME NEW c \in members PROVE \E g \in G : c \in g
        <4>1. CASE c \in sets
          BY <1>4, <2>2, <4>1
        <4>2. CASE c \in bare
          BY <2>2, <4>2
        <4> QED BY <1>9, <4>1, <4>2
      <3>2. ASSUME NEW g \in G PROVE g \subseteq members
        BY <1>4, <1>9, <2>1
      <3> QED BY <3>1, <3>2
    <2>4. ASSUME NEW g \in G, NEW h \in G, g # h PROVE g \cap h = {}
      <3>1. CASE (\E i \in DOMAIN subs : g = subs[i]) /\ (\E i \in DOMAIN subs : h = subs[i])
        BY <1>4, <2>4, <3>1
      <3>2. CASE (\E i \in DOMAIN subs : g = subs[i]) /\ (\E c \in bare : h = {c})
        BY <1>4, <1>8, <3>2
      <3>3. CASE (\E c \in bare : g = {c}) /\ (\E i \in DOMAIN subs : h = subs[i])
        BY <1>4, <1>8, <3>3
      <3>4. CASE (\E c \in bare : g = {c}) /\ (\E c \in bare : h = {c})
        BY <2>4, <3>4
      <3> QED BY <2>1, <3>1, <3>2, <3>3, <3>4
    <2>5. \A g \in G : \A c, d \in g : c.np # None /\ d.np # None => ~Clashes(c, d)
      BY <1>4, <1>8, <2>1
    <2>6. PICK a \in subs[1], b \in subs[2] : Clashes(a, b) /\ a \in sets /\ b \in sets
      <3>1. 1 \in DOMAIN subs /\ 2 \in DOMAIN subs
        BY <1>4, <1>12
      <3>2. \E c \in subs[2], d \in subs[1] : Clashes(c, d)
        BY <1>4, <3>1
      <3> QED BY <1>4, <3>1, <3>2, ClashesBothWays
    <2>7. \E c, d \in members : c.np # None /\ d.np # None /\ Clashes(c, d)
      BY <1>7, <2>6
    <2>8. ASSUME NEW g \in G, SetPlats(g) # {}
          PROVE  Contested(G, g)
      <3>1. PICK i \in DOMAIN subs : g = subs[i]
        <4>1. ~\E c \in bare : g = {c}
          BY <1>8, <2>8 DEF SetPlats
        <4> QED BY <2>1, <4>1
      <3>2. PICK j \in DOMAIN subs : j # i /\ \E c \in subs[i], d \in subs[j] : Clashes(c, d)
        <4>1. CASE i = 1
          <5>1. 2 \in DOMAIN subs
            BY <1>4, <1>12
          <5> QED BY <2>6, <4>1, <5>1, ClashesBothWays
        <4>2. CASE i # 1
          <5>1. 1 \in DOMAIN subs
            BY <1>4, <1>12
          <5> QED BY <1>4, <4>2, <5>1
        <4> QED BY <4>1, <4>2
      <3>3. subs[j] \in G \ {g}
        BY <1>4, <2>2, <3>1, <3>2
      <3>4. PICK c \in subs[i], d \in subs[j] : Clashes(c, d)
        BY <3>2
      <3>5. PICK q : q \in c.plats \cap d.plats
        BY <3>4 DEF Clashes
      <3>6. c.np # None /\ d.np # None
        BY <1>4, <1>7, <3>4
      <3>7. q \in SetPlats(g) /\ q \in SetPlats(subs[j])
        BY <3>1, <3>4, <3>5, <3>6 DEF SetPlats
      <3> QED BY <3>3, <3>7 DEF Contested
    <2> QED BY <1>5, <2>3, <2>4, <2>5, <2>7, <2>8
  <1> QED BY <1>4, <1>10, <1>11, <1>12

\* Of some records the first by id is one of them.
LEMMA FirstByIdIsOne ==
    ASSUME NEW S, \A x \in S : x.id \in Nat, S # {}
    PROVE  FirstById(S) \in S
  <1>1. PICK I : I = {x.id : x \in S}
    OBVIOUS
  <1>2. I \in SUBSET Nat /\ I # {}
    BY <1>1
  <1>3. PICK r \in I : \A s \in I : r <= s
    BY <1>2, LeastNat
  <1>4. \E x \in S : \A d \in S : x.id <= d.id
    BY <1>1, <1>3
  <1> QED BY <1>4 DEF FirstById

LEMMA ForemostIsOne ==
    ASSUME NEW S, \A x \in S : x.id \in Nat, S # {}
    PROVE  Foremost(S) \in S
  <1>1. CASE \E c \in S : c.np # None
    <2>1. PICK T : T = {c \in S : c.np # None}
      OBVIOUS
    <2>2. T # {} /\ (\A x \in T : x.id \in Nat) /\ Foremost(S) = FirstById(T)
      BY <1>1, <2>1 DEF Foremost
    <2> QED BY <2>1, <2>2, FirstByIdIsOne
  <1>2. CASE ~\E c \in S : c.np # None
    BY <1>2, FirstByIdIsOne DEF Foremost
  <1> QED BY <1>1, <1>2

\* A platform one of the trophy sets of a group covers is such a set's.
LEMMA OwnerHasSet ==
    ASSUME NEW group, \A x \in group : x.id \in Nat, NEW p, NEW c \in group, c.np # None, p \in c.plats
    PROVE  Owner(group, p) \in group /\ Owner(group, p).np # None /\ p \in Owner(group, p).plats
  <1> DEFINE rank(x) == (IF "played" \in x.sources THEN 0 ELSE 2) + (IF "purchased" \in x.sources THEN 0 ELSE 1)
  <1>1. PICK withSet : withSet = {x \in group : x.np # None /\ p \in x.plats}
    OBVIOUS
  <1>2. PICK best : best = {x \in withSet : \A d \in withSet : rank(x) <= rank(d)}
    OBVIOUS
  <1>3. Owner(group, p) = FirstById(best)
    BY <1>1, <1>2 DEF Owner
  <1>4. best # {}
    <2>1. PICK R : R = {rank(x) : x \in withSet}
      OBVIOUS
    <2>2. R \in SUBSET Nat /\ R # {}
      BY <1>1, <2>1
    <2>3. PICK r \in R : \A s \in R : r <= s
      BY <2>2, LeastNat
    <2> HIDE DEF rank
    <2> QED BY <1>2, <2>1, <2>3
  <1>5. FirstById(best) \in best
    <2>1. \A x \in best : x.id \in Nat
      BY <1>1, <1>2
    <2> QED BY <1>4, <2>1, FirstByIdIsOne
  <1> QED BY <1>1, <1>2, <1>3, <1>5

\* The owner of a platform some member covers is a member.
LEMMA OwnerIsOne ==
    ASSUME NEW group, \A x \in group : x.id \in Nat, NEW p, \E c \in group : p \in c.plats
    PROVE  Owner(group, p) \in group
  <1>1. CASE \E c \in group : c.np # None /\ p \in c.plats
    BY <1>1, OwnerHasSet
  <1>2. CASE ~\E c \in group : c.np # None /\ p \in c.plats
    <2>1. PICK bought, all : bought = {c \in group : c.bought = p} /\ all = {c \in group : p \in c.plats}
      OBVIOUS
    <2>2. Owner(group, p) = IF bought # {} THEN Foremost(bought) ELSE Foremost(all)
      BY <1>2, <2>1 DEF Owner
    <2>3. (\A x \in bought : x.id \in Nat) /\ (\A x \in all : x.id \in Nat) /\ all # {}
      BY <2>1
    <2>4. CASE bought # {}
      BY <2>1, <2>2, <2>3, <2>4, ForemostIsOne
    <2>5. CASE bought = {}
      BY <2>1, <2>2, <2>3, <2>5, ForemostIsOne
    <2> QED BY <2>4, <2>5
  <1> QED BY <1>1, <1>2

\* Each record is asked about once, a question holds sets that contest nothing and gives
\* each of them an entry, and a game is split only where its sets contest a platform.
LEMMA QuestionsAreRight ==
    ASSUME NEW cands, Records(cands)
    PROVE  OneQuestionPerGame(cands)
  <1> DEFINE of(b) == {c \in cands : Bucket(cands, c) = b}
             B     == {Bucket(cands, c) : c \in cands}
  <1>1. \A b : Records(of(b))
    BY FewerRecords
  <1>2. Groups(cands) = UNION {SubGroups(of(b)) : b \in B}
    BY DEF Groups
  <1>3. \A b : /\ \A c \in of(b) : \E g \in SubGroups(of(b)) : c \in g
               /\ \A g \in SubGroups(of(b)) : g \subseteq of(b)
               /\ \A g, h \in SubGroups(of(b)) : g # h => g \cap h = {}
               /\ \A g \in SubGroups(of(b)) : \A c, d \in g : c.np # None /\ d.np # None => ~Clashes(c, d)
    <2> HIDE DEF of
    <2> QED BY <1>1, SplitsRight
  <1>4. ASSUME NEW c \in cands
        PROVE  Cardinality({g \in Groups(cands) : c \in g}) = 1
    <2>1. PICK b \in B : b = Bucket(cands, c) /\ c \in of(b)
      OBVIOUS
    <2>2. \A d : c \in of(d) => d = b
      BY <2>1
    <2> HIDE DEF of, B
    <2>3. PICK Q : Q = Groups(cands) /\ \A h : h \in Q <=> \E d \in B : h \in SubGroups(of(d))
      <3>1. PICK SS : SS = {SubGroups(of(d)) : d \in B}
        OBVIOUS
      <3>2. Groups(cands) = UNION SS
        BY <1>2, <3>1
      <3>3. \A h : h \in UNION SS <=> \E d \in B : h \in SubGroups(of(d))
        BY <3>1
      <3> QED BY <3>2, <3>3
    <2>4. PICK g \in SubGroups(of(b)) : c \in g
      BY <1>3, <2>1
    <2>5. ASSUME NEW h \in Q, c \in h PROVE h = g
      <3>1. PICK d \in B : h \in SubGroups(of(d))
        BY <2>3
      <3>2. c \in of(d)
        BY <1>3, <2>5, <3>1
      <3>3. h \in SubGroups(of(b))
        BY <2>2, <3>1, <3>2
      <3> QED BY <1>3, <2>4, <2>5, <3>3
    <2>6. g \in Q
      BY <2>1, <2>3, <2>4
    <2>7. {h \in Q : c \in h} = {g}
      BY <2>4, <2>5, <2>6
    <2> QED BY <2>3, <2>7, FS_Singleton
  <1>5. ASSUME NEW g \in Groups(cands), NEW c \in {x \in g : x.np # None}
        PROVE  /\ \A d \in {x \in g : x.np # None} : ~Clashes(c, d)
               /\ \A p \in c.plats : Owner(g, p).np = c.np
    <2>1. PICK b \in B : g \in SubGroups(of(b))
      BY <1>2
    <2>2. of(b) \subseteq cands
      OBVIOUS
    <2>3. g \subseteq cands /\ \A x, y \in g : x.np # None /\ y.np # None => ~Clashes(x, y)
      <3> HIDE DEF of
      <3> QED BY <1>3, <2>1, <2>2
    <2>4. ASSUME NEW p \in c.plats PROVE Owner(g, p).np = c.np
      <3>1. \A x \in g : x.id \in Nat
        BY <2>3 DEF Records
      <3>2. Owner(g, p) \in g /\ Owner(g, p).np # None /\ p \in Owner(g, p).plats
        BY <3>1, OwnerHasSet
      <3> QED BY <2>3, <3>2 DEF Clashes
    <2> QED BY <2>3, <2>4
  <1>6. ASSUME NEW b \in B
        PROVE  /\ Cardinality(SubGroups(of(b))) > 1 =>
                    \E c, d \in of(b) : c.np # None /\ d.np # None /\ Clashes(c, d)
               /\ \A g, h \in SubGroups(of(b)) : g # h /\ SetPlats(g) # {} /\ SetPlats(h) # {} => Contested(SubGroups(of(b)), g)
    <2> HIDE DEF of
    <2>1. PICK M, G : M = of(b) /\ G = SubGroups(M) /\ Records(M)
      BY <1>1
    <2>2. \A g, h \in G : g # h =>
               /\ \E c, d \in M : c.np # None /\ d.np # None /\ Clashes(c, d)
               /\ SetPlats(g) # {} => Contested(G, g)
      BY <2>1, SplitsRight
    <2>3. ASSUME Cardinality(G) > 1 PROVE \E g, h \in G : g # h
      <3>1. SUFFICES ASSUME \A g, h \in G : g = h PROVE FALSE
        OBVIOUS
      <3>2. CASE G = {}
        BY <2>3, <3>2, FS_EmptySet
      <3>3. CASE G # {}
        <4>1. PICK g : G = {g}
          BY <3>1, <3>3
        <4> QED BY <2>3, <4>1, FS_Singleton
      <3> QED BY <3>2, <3>3
    <2> QED BY <2>1, <2>2, <2>3
  <1> QED BY <1>4, <1>5, <1>6 DEF OneQuestionPerGame

\* What a question shows of a platform is one of its records.
LEMMA ShownIsOne ==
    ASSUME NEW h, \A x \in h : x.id \in Nat, NEW p, p \in UNION {Options(c) : c \in h}
    PROVE  Shown(h, p) \in h
  <1>1. PICK offering : offering = {c \in h : p \in Options(c)}
    OBVIOUS
  <1>2. (\A x \in offering : x.id \in Nat) /\ offering # {}
    BY <1>1
  <1>3. \E c \in h : p \in c.plats
    BY DEF Options
  <1>4. Owner(h, p) \in h /\ Foremost(offering) \in offering
    BY <1>2, <1>3, OwnerIsOne, ForemostIsOne
  <1> QED BY <1>1, <1>4 DEF Shown

\* The records of a question are of one bucket.
LEMMA QuestionsAreBuckets ==
    ASSUME NEW cands, Records(cands), NEW h \in Groups(cands)
    PROVE  h \subseteq cands /\ \A c, d \in h : Bucket(cands, c) = Bucket(cands, d)
  <1> DEFINE of(b) == {c \in cands : Bucket(cands, c) = b}
             B     == {Bucket(cands, c) : c \in cands}
  <1>1. \A b : Records(of(b))
    BY FewerRecords
  <1>2. PICK b \in B : h \in SubGroups(of(b))
    <2>1. PICK SS : SS = {SubGroups(of(b)) : b \in B}
      OBVIOUS
    <2>2. h \in UNION SS
      BY <2>1 DEF Groups
    <2> HIDE DEF of, B
    <2> QED BY <2>1, <2>2
  <1>3. h \subseteq of(b)
    <2> HIDE DEF of
    <2> QED BY <1>1, <1>2, SplitsRight
  <1> QED BY <1>3

\* Two resolved records of one name, one of them in the bucket of the other or of a record
\* that goes where its name is resolved to, are one game's.
LEMMA OneNameOneGame ==
    ASSUME NEW cands, Records(cands), NEW s \in cands, NEW c, NEW d,
           Resolved(s), Resolved(d), ~Resolved(c), c.name # None, s.name = c.name,
           Bucket(cands, c) = Bucket(cands, d)
    PROVE  s.igdb = d.igdb
  <1>1. Bucket(cands, d) = <<"game", d.igdb, None>>
    BY DEF Bucket
  <1>2. PICK named : named = GamesNamed(cands, c.name)
    OBVIOUS
  <1>3. IF Cardinality(named) = 1 THEN Bucket(cands, c) = <<"game", CHOOSE g \in named : TRUE, None>>
        ELSE Bucket(cands, c) = <<"name", 0, c.name>>
    BY <1>2 DEF Bucket
  <1>4. Cardinality(named) = 1 /\ d.igdb = CHOOSE g \in named : TRUE
    <2>1. Cardinality(named) = 1
      BY <1>1, <1>3
    <2>2. <<"game", CHOOSE g \in named : TRUE, None>>[2] = <<"game", d.igdb, None>>[2]
      BY <1>1, <1>3, <2>1
    <2> QED BY <2>1, <2>2
  <1>5. IsFiniteSet(named)
    <2>1. PICK S : S = {x \in cands : Resolved(x) /\ x.name = c.name}
      OBVIOUS
    <2>2. IsFiniteSet(S)
      BY <2>1, FS_Subset DEF Records
    <2>3. PICK f : f = [x \in S |-> x.igdb]
      OBVIOUS
    <2>4. f \in Surjection(S, named)
      BY <1>2, <2>1, <2>3 DEF Surjection, GamesNamed
    <2> QED BY <2>2, <2>4, FS_Surjection
  <1>6. PICK g : named = {g}
    BY <1>4, <1>5, FS_Singleton
  <1>7. s.igdb \in named
    BY <1>2 DEF GamesNamed
  <1> QED BY <1>4, <1>6, <1>7

\* The questions of one game, answered one after the other as they come, claim no platform twice.
LEMMA NoneIsTickedTwice ==
    ASSUME NEW cands, Records(cands)
    PROVE  NoneTickedTwice(cands)
  <1> SUFFICES ASSUME NEW g \in Groups(cands), NEW done, done = Settle(g, Ticks(cands, {}, g)),
                      NEW rest, rest = cands \ g,
                      NEW h \in Groups(rest), NEW d \in done,
                      \A c \in h : c.name = d.name /\ c.name # None,
                      \A c \in h \cup {d} : ~c.rejected,
                      \E c \in h : Bucket(cands, c) = Bucket(cands, d),
                      NEW p \in Ticks(rest \cup done, done, h), p \in d.chosen,
                      ~Shown(h, p).apart
               PROVE  FALSE
    BY DEF NoneTickedTwice
  <1>1. Records(rest)
    BY FewerRecords
  <1>2. h \subseteq rest /\ \A c, x \in h : Bucket(rest, c) = Bucket(rest, x)
    BY <1>1, QuestionsAreBuckets
  <1>3. PICK s : s = Shown(h, p)
    OBVIOUS
  <1>4. s \in h
    <2>1. p \in UNION {Options(c) : c \in h}
      BY DEF Ticks
    <2>2. \A x \in h : x.id \in Nat
      BY <1>1, <1>2 DEF Records
    <2> QED BY <1>3, <2>1, <2>2, ShownIsOne
  <1>5. ~Akin(s, d)
    <2>1. p \in PreTicked(rest \cup done, done, s)
      BY <1>3 DEF Ticks
    <2>2. p \notin Taken(done, s)
      BY <1>3, <2>1 DEF PreTicked
    <2>3. PICK K : K = {x \in done : Akin(s, x)}
      OBVIOUS
    <2>4. PICK C : C = {x.chosen : x \in K}
      OBVIOUS
    <2>5. p \notin UNION C
      BY <2>2, <2>3, <2>4 DEF Taken
    <2>6. d \notin K
      BY <2>4, <2>5
    <2> QED BY <2>3, <2>6
  <1>6. Resolved(s) /\ Resolved(d) /\ s.igdb # d.igdb
    BY <1>4, <1>5 DEF Akin, Resolved
  <1>7. PICK c \in h : Bucket(cands, c) = Bucket(cands, d)
    OBVIOUS
  <1>8. CASE Resolved(c)
    <2>1. /\ Bucket(cands, c) = <<"game", c.igdb, None>> /\ Bucket(cands, d) = <<"game", d.igdb, None>>
          /\ Bucket(rest, c) = <<"game", c.igdb, None>> /\ Bucket(rest, s) = <<"game", s.igdb, None>>
      BY <1>6, <1>8 DEF Bucket
    <2>2. <<"game", c.igdb, None>>[2] = <<"game", d.igdb, None>>[2] /\ <<"game", c.igdb, None>>[2] = <<"game", s.igdb, None>>[2]
      BY <1>2, <1>4, <1>7, <2>1
    <2> QED BY <1>6, <2>2
  <1>9. CASE ~Resolved(c)
    <2>1. s \in cands /\ c.name # None /\ s.name = c.name
      BY <1>2, <1>4
    <2> QED BY <1>6, <1>7, <1>9, <2>1, OneNameOneGame
  <1> QED BY <1>8, <1>9

-----------------------------------------------------------------------------
(* Feeds *)

\* Numbers are summed one after the other.
LEMMA SummedInTurn ==
    ASSUME NEW s, Len(s) \in Nat
    PROVE  LET p == Sums(s)
           IN  /\ p[0] = 0
               /\ \A k \in 1..Len(s) : p[k] = p[k - 1] + s[k]
  <1> DEFINE Step(f, k) == f + s[k]
             M          == Len(s)
             Is(g, n)   == g = [k \in 0..n |-> IF k = 0 THEN 0 ELSE Step(g[k - 1], k)]
             Good       == {n \in Nat : \E g : Is(g, n)}
             p          == Sums(s)
  <1>1. p = CHOOSE g : Is(g, M)
    BY DEF Sums
  <1> HIDE DEF Step, p, M
  <1>2. 0 \in Good
    <2>1. Is([k \in 0..0 |-> 0], 0)
      OBVIOUS
    <2> QED BY <2>1
  <1>3. ASSUME NEW n \in Nat, n \in Good PROVE n + 1 \in Good
    <2>1. PICK g : Is(g, n)
      BY <1>3
    <2>2. PICK h : h = [k \in 0..(n + 1) |-> IF k = 0 THEN 0 ELSE Step(g[k - 1], k)]
      OBVIOUS
    <2>3. \A k \in 0..n : h[k] = g[k]
      BY <2>1, <2>2
    <2>4. \A k \in 0..(n + 1) : k # 0 => h[k - 1] = g[k - 1]
      BY <2>3
    <2>5. Is(h, n + 1)
      BY <2>2, <2>4
    <2> QED BY <2>5
  <1>4. Nat \subseteq Good
    <2> HIDE DEF Good
    <2> QED BY <1>2, <1>3, SetInduction
  <1>5. M \in Nat
    BY DEF M
  <1>6. Is(p, M)
    <2>1. \E g : Is(g, M)
      BY <1>4, <1>5
    <2> QED BY <1>1, <2>1
  <1>7. p[0] = 0 /\ \A k \in 1..M : p[k] = Step(p[k - 1], k)
    BY <1>5, <1>6
  <1> QED BY <1>7 DEF Step, p, M

\* The feeds are worked through one record after the other.
LEMMA BoughtInTurn ==
    ASSUME NEW s, Len(s) \in Nat
    PROVE  LET p == WithPurchases(s)
           IN  /\ p[0] = <<>>
               /\ \A k \in 1..Len(s) : p[k] = IF s[k].demo THEN p[k - 1] ELSE AddPurchase(p[k - 1], s[k])
  <1> DEFINE Step(f, k) == IF s[k].demo THEN f ELSE AddPurchase(f, s[k])
             M          == Len(s)
             Is(g, n)   == g = [k \in 0..n |-> IF k = 0 THEN <<>> ELSE Step(g[k - 1], k)]
             Good       == {n \in Nat : \E g : Is(g, n)}
             p          == WithPurchases(s)
  <1>1. p = CHOOSE g : Is(g, M)
    BY DEF WithPurchases
  <1> HIDE DEF Step, p, M
  <1>2. 0 \in Good
    <2>1. Is([k \in 0..0 |-> <<>>], 0)
      OBVIOUS
    <2> QED BY <2>1
  <1>3. ASSUME NEW n \in Nat, n \in Good PROVE n + 1 \in Good
    <2>1. PICK g : Is(g, n)
      BY <1>3
    <2>2. PICK h : h = [k \in 0..(n + 1) |-> IF k = 0 THEN <<>> ELSE Step(g[k - 1], k)]
      OBVIOUS
    <2>3. \A k \in 0..n : h[k] = g[k]
      BY <2>1, <2>2
    <2>4. \A k \in 0..(n + 1) : k # 0 => h[k - 1] = g[k - 1]
      BY <2>3
    <2>5. Is(h, n + 1)
      BY <2>2, <2>4
    <2> QED BY <2>5
  <1>4. Nat \subseteq Good
    <2> HIDE DEF Good
    <2> QED BY <1>2, <1>3, SetInduction
  <1>5. M \in Nat
    BY DEF M
  <1>6. Is(p, M)
    <2>1. \E g : Is(g, M)
      BY <1>4, <1>5
    <2> QED BY <1>1, <2>1
  <1>7. p[0] = <<>> /\ \A k \in 1..M : p[k] = Step(p[k - 1], k)
    BY <1>5, <1>6
  <1> QED BY <1>7 DEF Step, p, M

\* Each trophy set is looked up in the list of the purchases.
LEMMA SetsInTurn ==
    ASSUME NEW b, NEW s, Len(s) \in Nat
    PROVE  LET p == WithSets(b, s)
           IN  /\ p[0] = b
               /\ \A k \in 1..Len(s) : p[k] = AddSet(Values(b), p[k - 1], s[k])
  <1> DEFINE Step(f, k) == AddSet(Values(b), f, s[k])
             M          == Len(s)
             Is(g, n)   == g = [k \in 0..n |-> IF k = 0 THEN b ELSE Step(g[k - 1], k)]
             Good       == {n \in Nat : \E g : Is(g, n)}
             p          == WithSets(b, s)
  <1>1. p = CHOOSE g : Is(g, M)
    BY DEF WithSets
  <1> HIDE DEF Step, p, M
  <1>2. 0 \in Good
    <2>1. Is([k \in 0..0 |-> b], 0)
      OBVIOUS
    <2> QED BY <2>1
  <1>3. ASSUME NEW n \in Nat, n \in Good PROVE n + 1 \in Good
    <2>1. PICK g : Is(g, n)
      BY <1>3
    <2>2. PICK h : h = [k \in 0..(n + 1) |-> IF k = 0 THEN b ELSE Step(g[k - 1], k)]
      OBVIOUS
    <2>3. \A k \in 0..n : h[k] = g[k]
      BY <2>1, <2>2
    <2>4. \A k \in 0..(n + 1) : k # 0 => h[k - 1] = g[k - 1]
      BY <2>3
    <2>5. Is(h, n + 1)
      BY <2>2, <2>4
    <2> QED BY <2>5
  <1>4. Nat \subseteq Good
    <2> HIDE DEF Good
    <2> QED BY <1>2, <1>3, SetInduction
  <1>5. M \in Nat
    BY DEF M
  <1>6. Is(p, M)
    <2>1. \E g : Is(g, M)
      BY <1>4, <1>5
    <2> QED BY <1>1, <2>1
  <1>7. p[0] = b /\ \A k \in 1..M : p[k] = Step(p[k - 1], k)
    BY <1>5, <1>6
  <1> QED BY <1>7 DEF Step, p, M

\* Each play record is looked up in the list of purchases and trophy sets.
LEMMA PlaysInTurn ==
    ASSUME NEW b, NEW s, NEW demos, Len(s) \in Nat
    PROVE  LET p == WithPlays(b, s, demos)
           IN  /\ p[0] = b
               /\ \A k \in 1..Len(s) : p[k] = IF s[k].title \in demos THEN p[k - 1] ELSE AddPlay(Values(b), p[k - 1], s[k])
  <1> DEFINE Step(f, k) == IF s[k].title \in demos THEN f ELSE AddPlay(Values(b), f, s[k])
             M          == Len(s)
             Is(g, n)   == g = [k \in 0..n |-> IF k = 0 THEN b ELSE Step(g[k - 1], k)]
             Good       == {n \in Nat : \E g : Is(g, n)}
             p          == WithPlays(b, s, demos)
  <1>1. p = CHOOSE g : Is(g, M)
    BY DEF WithPlays
  <1> HIDE DEF Step, p, M
  <1>2. 0 \in Good
    <2>1. Is([k \in 0..0 |-> b], 0)
      OBVIOUS
    <2> QED BY <2>1
  <1>3. ASSUME NEW n \in Nat, n \in Good PROVE n + 1 \in Good
    <2>1. PICK g : Is(g, n)
      BY <1>3
    <2>2. PICK h : h = [k \in 0..(n + 1) |-> IF k = 0 THEN b ELSE Step(g[k - 1], k)]
      OBVIOUS
    <2>3. \A k \in 0..n : h[k] = g[k]
      BY <2>1, <2>2
    <2>4. \A k \in 0..(n + 1) : k # 0 => h[k - 1] = g[k - 1]
      BY <2>3
    <2>5. Is(h, n + 1)
      BY <2>2, <2>4
    <2> QED BY <2>5
  <1>4. Nat \subseteq Good
    <2> HIDE DEF Good
    <2> QED BY <1>2, <1>3, SetInduction
  <1>5. M \in Nat
    BY DEF M
  <1>6. Is(p, M)
    <2>1. \E g : Is(g, M)
      BY <1>4, <1>5
    <2> QED BY <1>1, <2>1
  <1>7. p[0] = b /\ \A k \in 1..M : p[k] = Step(p[k - 1], k)
    BY <1>5, <1>6
  <1> QED BY <1>7 DEF Step, p, M

LEMMA SumsAreNumbers ==
    ASSUME NEW s \in Seq(Nat), NEW k \in 0..Len(s)
    PROVE  Sums(s)[k] \in Nat
  <1> DEFINE Good == {n \in Nat : n <= Len(s) => Sums(s)[n] \in Nat}
  <1>1. Len(s) \in Nat
    OBVIOUS
  <1>2. 0 \in Good
    BY <1>1, SummedInTurn
  <1>3. ASSUME NEW n \in Nat, n \in Good PROVE n + 1 \in Good
    <2> SUFFICES ASSUME n + 1 <= Len(s) PROVE Sums(s)[n + 1] \in Nat
      OBVIOUS
    <2>1. n + 1 \in 1..Len(s) /\ (n + 1) - 1 = n /\ s[n + 1] \in Nat
      BY <1>1
    <2>2. Sums(s)[n + 1] = Sums(s)[n] + s[n + 1]
      BY <1>1, <2>1, SummedInTurn
    <2> QED BY <1>1, <1>3, <2>1, <2>2
  <1>4. Nat \subseteq Good
    <2> HIDE DEF Good
    <2> QED BY <1>2, <1>3, SetInduction
  <1> QED BY <1>1, <1>4

\* A sum depends on what is summed only.
LEMMA SameSums ==
    ASSUME NEW s \in Seq(Nat), NEW t \in Seq(Nat), NEW k \in Nat, k <= Len(s), k <= Len(t),
           \A i \in 1..k : s[i] = t[i]
    PROVE  Sums(s)[k] = Sums(t)[k]
  <1> DEFINE Good == {n \in Nat : n <= k => Sums(s)[n] = Sums(t)[n]}
  <1>1. Len(s) \in Nat /\ Len(t) \in Nat
    OBVIOUS
  <1>2. 0 \in Good
    BY <1>1, SummedInTurn
  <1>3. ASSUME NEW n \in Nat, n \in Good PROVE n + 1 \in Good
    <2> SUFFICES ASSUME n + 1 <= k PROVE Sums(s)[n + 1] = Sums(t)[n + 1]
      OBVIOUS
    <2>1. n + 1 \in 1..Len(s) /\ n + 1 \in 1..Len(t) /\ (n + 1) - 1 = n /\ s[n + 1] = t[n + 1]
      BY <1>1
    <2>2. Sums(s)[n + 1] = Sums(s)[n] + s[n + 1] /\ Sums(t)[n + 1] = Sums(t)[n] + t[n + 1]
      BY <1>1, <2>1, SummedInTurn
    <2> QED BY <1>3, <2>1, <2>2
  <1>4. Nat \subseteq Good
    <2> HIDE DEF Good
    <2> QED BY <1>2, <1>3, SetInduction
  <1> QED BY <1>4

LEMMA TotalOfMore ==
    ASSUME NEW s \in Seq(Nat), NEW t \in Seq(Nat), Len(t) = Len(s) + 1, \A i \in 1..Len(s) : t[i] = s[i]
    PROVE  Total(t) = Total(s) + t[Len(t)]
  <1>1. Len(s) \in Nat /\ Len(t) \in Nat /\ Len(t) \in 1..Len(t) /\ Len(t) - 1 = Len(s)
    OBVIOUS
  <1>2. Sums(t)[Len(s)] = Sums(s)[Len(s)]
    <2>1. PICK n \in Nat : n = Len(s)
      BY <1>1
    <2>2. n <= Len(s) /\ n <= Len(t) /\ \A i \in 1..n : s[i] = t[i]
      BY <1>1, <2>1
    <2>3. Sums(s)[n] = Sums(t)[n]
      BY <2>2, SameSums
    <2> QED BY <2>1, <2>3
  <1>3. Sums(t)[Len(t)] = Sums(t)[Len(s)] + t[Len(t)]
    BY <1>1, SummedInTurn
  <1> QED BY <1>2, <1>3 DEF Total

LEMMA TotalOfChange ==
    ASSUME NEW s \in Seq(Nat), NEW t \in Seq(Nat), Len(t) = Len(s), NEW j \in 1..Len(s),
           \A i \in 1..Len(s) : i # j => t[i] = s[i]
    PROVE  Total(t) + s[j] = Total(s) + t[j]
  <1> DEFINE Good == {n \in Nat : n <= Len(s) => IF n < j THEN Sums(t)[n] = Sums(s)[n]
                                                ELSE Sums(t)[n] + s[j] = Sums(s)[n] + t[j]}
  <1>1. Len(s) \in Nat
    OBVIOUS
  <1>2. 0 \in Good
    BY <1>1, SummedInTurn
  <1>3. ASSUME NEW n \in Nat, n \in Good PROVE n + 1 \in Good
    <2> SUFFICES ASSUME n + 1 <= Len(s)
                 PROVE  IF n + 1 < j THEN Sums(t)[n + 1] = Sums(s)[n + 1]
                        ELSE Sums(t)[n + 1] + s[j] = Sums(s)[n + 1] + t[j]
      OBVIOUS
    <2>1. n + 1 \in 1..Len(s) /\ (n + 1) - 1 = n /\ s[n + 1] \in Nat /\ t[n + 1] \in Nat /\ s[j] \in Nat /\ t[j] \in Nat
      BY <1>1
    <2>2. Sums(s)[n + 1] = Sums(s)[n] + s[n + 1] /\ Sums(t)[n + 1] = Sums(t)[n] + t[n + 1]
      BY <1>1, <2>1, SummedInTurn
    <2>3. Sums(s)[n] \in Nat /\ Sums(t)[n] \in Nat
      BY <1>1, SumsAreNumbers
    <2>4. n + 1 # j => t[n + 1] = s[n + 1]
      BY <2>1
    <2>5. IF n < j THEN Sums(t)[n] = Sums(s)[n] ELSE Sums(t)[n] + s[j] = Sums(s)[n] + t[j]
      BY <1>3
    <2>6. CASE n + 1 < j
      BY <2>1, <2>2, <2>4, <2>5, <2>6
    <2>7. CASE n + 1 = j
      <3>1. Sums(t)[n] = Sums(s)[n] /\ s[j] = s[n + 1] /\ t[j] = t[n + 1]
        BY <2>5, <2>7
      <3>2. Sums(t)[n + 1] + s[j] = Sums(s)[n + 1] + t[j]
        BY <2>1, <2>2, <2>3, <3>1
      <3> QED BY <2>7, <3>2
    <2>8. CASE n + 1 > j
      <3>1. Sums(t)[n] + s[j] = Sums(s)[n] + t[j] /\ t[n + 1] = s[n + 1]
        BY <2>4, <2>5, <2>8
      <3>2. PICK a, b, x, y, z \in Nat : a = Sums(t)[n] /\ b = Sums(s)[n] /\ x = s[j] /\ y = t[j] /\ z = s[n + 1]
        BY <2>1, <2>3
      <3>3. a + x = b + y /\ Sums(t)[n + 1] = a + z /\ Sums(s)[n + 1] = b + z
        BY <2>2, <3>1, <3>2
      <3>4. (a + z) + x = (b + z) + y
        BY <3>3
      <3> QED BY <2>8, <3>2, <3>3, <3>4
    <2> QED BY <2>6, <2>7, <2>8
  <1>4. Nat \subseteq Good
    <2> HIDE DEF Good
    <2> QED BY <1>2, <1>3, SetInduction
  <1>5. Len(s) \in Good
    BY <1>1, <1>4
  <1> QED BY <1>1, <1>5 DEF Total

LEMMA TotalOfNothing ==
    ASSUME NEW s \in Seq(Nat), \A i \in 1..Len(s) : s[i] = 0
    PROVE  Total(s) = 0
  <1> DEFINE Good == {n \in Nat : n <= Len(s) => Sums(s)[n] = 0}
  <1>1. Len(s) \in Nat
    OBVIOUS
  <1>2. 0 \in Good
    BY <1>1, SummedInTurn
  <1>3. ASSUME NEW n \in Nat, n \in Good PROVE n + 1 \in Good
    <2> SUFFICES ASSUME n + 1 <= Len(s) PROVE Sums(s)[n + 1] = 0
      OBVIOUS
    <2>1. n + 1 \in 1..Len(s) /\ (n + 1) - 1 = n /\ s[n + 1] = 0
      BY <1>1
    <2>2. Sums(s)[n + 1] = Sums(s)[n] + s[n + 1]
      BY <1>1, <2>1, SummedInTurn
    <2> QED BY <1>3, <2>1, <2>2
  <1>4. Nat \subseteq Good
    <2> HIDE DEF Good
    <2> QED BY <1>2, <1>3, SetInduction
  <1> QED BY <1>1, <1>4 DEF Total

\* What the merged list is made of: no key twice.
Spans   == Seq([plat : STRING, time : Nat])
Texts   == STRING \cup {None, "id", "name", "purchased", "titles", "played"}
Items   == [title : Texts, np : Texts, product : Texts, name : Texts, plats : SUBSET Texts,
            sources : SUBSET Texts, join : Texts, minutes : Spans]
Listing == [key : Texts, item : Items]
Lists   == {lib \in Seq(Listing) : \A i, j \in DOMAIN lib : lib[i].key = lib[j].key => i = j}

LEMMA LookedUp ==
    ASSUME NEW lib \in Seq(Listing), NEW key
    PROVE  \/ Lookup(lib, key) = <<>> /\ \A i \in DOMAIN lib : lib[i].key # key
           \/ \E i \in DOMAIN lib : lib[i].key = key /\ Lookup(lib, key) = <<lib[i]>>
  <1>1. PICK hits : hits = {i \in DOMAIN lib : lib[i].key = key}
    OBVIOUS
  <1>2. Lookup(lib, key) = IF hits = {} THEN <<>> ELSE <<lib[CHOOSE i \in hits : \A j \in hits : i <= j]>>
    BY <1>1 DEF Lookup, FirstThat
  <1>3. CASE hits = {}
    BY <1>1, <1>2, <1>3
  <1>4. CASE hits # {}
    <2>1. hits \in SUBSET Nat
      BY <1>1
    <2>2. \E i \in hits : \A j \in hits : i <= j
      BY <1>4, <2>1, LeastNat
    <2>3. PICK i : i = CHOOSE h \in hits : \A j \in hits : h <= j
      OBVIOUS
    <2>4. i \in hits
      BY <2>2, <2>3
    <2>5. Lookup(lib, key) = <<lib[i]>>
      BY <1>2, <1>4, <2>3
    <2> QED BY <1>1, <2>4, <2>5
  <1> QED BY <1>3, <1>4

\* Putting an item in a place leaves the other places alone.
LEMMA PutsOne ==
    ASSUME NEW lib \in Lists, NEW key \in Texts, NEW item \in Items
    PROVE  /\ Put(lib, key, item) \in Lists
           /\ ToSet(Put(lib, key, item)) = {x \in ToSet(lib) : x.key # key} \cup {[key |-> key, item |-> item]}
  <1> DEFINE new == Put(lib, key, item)
             x   == [key |-> key, item |-> item]
  <1>1. lib \in Seq(Listing) /\ x \in Listing /\ DOMAIN lib = 1..Len(lib) /\ Len(lib) \in Nat
        /\ \A i, j \in DOMAIN lib : lib[i].key = lib[j].key => i = j
    BY DEF Lists, Listing
  <1>2. CASE Lookup(lib, key) = <<>>
    <2>1. \A i \in DOMAIN lib : lib[i].key # key
      <3>1. \A y : <<y>> # <<>>
        OBVIOUS
      <3>2. \/ Lookup(lib, key) = <<>> /\ \A i \in DOMAIN lib : lib[i].key # key
            \/ \E i \in DOMAIN lib : lib[i].key = key /\ Lookup(lib, key) = <<lib[i]>>
        BY <1>1, LookedUp
      <3> QED BY <1>2, <3>1, <3>2
    <2>2. new = Append(lib, x)
      BY <1>2 DEF Put
    <2>3. new \in Seq(Listing) /\ DOMAIN new = 1..(Len(lib) + 1) /\ new[Len(lib) + 1] = x
          /\ \A i \in 1..Len(lib) : new[i] = lib[i]
      <3> HIDE DEF x, new
      <3> QED BY <1>1, <2>2
    <2>4. x.key = key
      OBVIOUS
    <2>5. ASSUME NEW i \in DOMAIN new, NEW j \in DOMAIN new, new[i].key = new[j].key PROVE i = j
      <3> HIDE DEF x, new
      <3> QED BY <1>1, <2>1, <2>3, <2>4, <2>5
    <2>6. ToSet(new) = {y \in ToSet(lib) : y.key # key} \cup {x}
      <3> HIDE DEF x, new
      <3> QED BY <1>1, <2>1, <2>3 DEF ToSet
    <2> QED BY <2>3, <2>5, <2>6 DEF Lists
  <1>3. CASE Lookup(lib, key) # <<>>
    <2>1. PICK k \in DOMAIN lib : lib[k].key = key
      BY <1>1, <1>3, LookedUp
    <2>2. new = [i \in DOMAIN lib |-> IF lib[i].key = key THEN x ELSE lib[i]]
      BY <1>3 DEF Put
    <2>3. \A i \in DOMAIN lib : lib[i].key = key <=> i = k
      BY <1>1, <2>1
    <2>4. new \in Seq(Listing) /\ DOMAIN new = DOMAIN lib /\ new[k] = x /\ \A i \in DOMAIN lib \ {k} : new[i] = lib[i]
      <3> HIDE DEF x, new
      <3>1. \A i \in DOMAIN lib : new[i] \in Listing
        BY <1>1, <2>2
      <3>2. new = [i \in 1..Len(lib) |-> new[i]]
        BY <1>1, <2>2
      <3> QED BY <1>1, <2>2, <2>3, <3>1, <3>2
    <2>5. ASSUME NEW i \in DOMAIN new, NEW j \in DOMAIN new, new[i].key = new[j].key PROVE i = j
      <3>1. x.key = key
        OBVIOUS
      <3> HIDE DEF x, new
      <3> QED BY <1>1, <2>3, <2>4, <2>5, <3>1
    <2>6. ToSet(new) = {y \in ToSet(lib) : y.key # key} \cup {x}
      <3> HIDE DEF x, new
      <3>1. \A y \in ToSet(new) : y = x \/ (y \in ToSet(lib) /\ y.key # key)
        BY <2>3, <2>4 DEF ToSet
      <3>2. x \in ToSet(new)
        BY <2>4 DEF ToSet
      <3>3. \A y \in ToSet(lib) : y.key # key => y \in ToSet(new)
        BY <2>3, <2>4 DEF ToSet
      <3> QED BY <3>1, <3>2, <3>3
    <2> QED BY <2>4, <2>5, <2>6 DEF Lists
  <1> QED BY <1>2, <1>3

-----------------------------------------------------------------------------
(* Minutes *)

SpanTimes(minutes, plat) == [i \in DOMAIN minutes |-> IF minutes[i].plat = plat THEN minutes[i].time ELSE 0]

LEMMA ElementsOfSeq ==
    ASSUME NEW S, NEW s \in Seq(S)
    PROVE  Len(s) \in Nat /\ DOMAIN s = 1..Len(s) /\ \A i \in DOMAIN s : s[i] \in S
  <1>1. Len(s) \in Nat /\ DOMAIN s = 1..Len(s)
    OBVIOUS
  <1>2. \A i \in 1..Len(s) : s[i] \in S
    OBVIOUS
  <1> QED BY <1>1, <1>2

LEMMA TimesAreNumbers ==
    ASSUME NEW minutes \in Spans, NEW plat
    PROVE  /\ SpanTimes(minutes, plat) \in Seq(Nat)
           /\ Len(SpanTimes(minutes, plat)) = Len(minutes)
           /\ TimeOn(minutes, plat) = Total(SpanTimes(minutes, plat))
           /\ TimeOn(minutes, plat) \in Nat
  <1>1. PICK s : s = SpanTimes(minutes, plat)
    OBVIOUS
  <1>2. Len(minutes) \in Nat /\ DOMAIN minutes = 1..Len(minutes)
        /\ \A i \in DOMAIN minutes : minutes[i].time \in Nat
    <2>1. PICK S : S = [plat : STRING, time : Nat] /\ minutes \in Seq(S)
      BY DEF Spans
    <2>2. Len(minutes) \in Nat /\ DOMAIN minutes = 1..Len(minutes) /\ \A i \in DOMAIN minutes : minutes[i] \in S
      BY <2>1, ElementsOfSeq
    <2> QED BY <2>1, <2>2
  <1>3. s = [i \in 1..Len(minutes) |-> s[i]] /\ \A i \in 1..Len(minutes) : s[i] \in Nat
    BY <1>1, <1>2 DEF SpanTimes
  <1>4. s \in Seq(Nat) /\ Len(s) = Len(minutes)
    BY <1>2, <1>3
  <1>5. Total(s) \in Nat
    BY <1>2, <1>4, SumsAreNumbers DEF Total
  <1> QED BY <1>1, <1>4, <1>5 DEF TimeOn, SpanTimes

LEMMA TimeOfMore ==
    ASSUME NEW minutes \in Spans, NEW plat, NEW x \in [plat : STRING, time : Nat]
    PROVE  TimeOn(Append(minutes, x), plat) = TimeOn(minutes, plat) + (IF x.plat = plat THEN x.time ELSE 0)
  <1>1. PICK m : m = Append(minutes, x)
    OBVIOUS
  <1>2. /\ m \in Spans /\ Len(m) = Len(minutes) + 1 /\ Len(minutes) \in Nat /\ m[Len(m)] = x
        /\ DOMAIN m = 1..Len(m) /\ DOMAIN minutes = 1..Len(minutes)
        /\ \A i \in 1..Len(minutes) : m[i] = minutes[i]
    BY <1>1 DEF Spans
  <1>3. PICK s, t : s = SpanTimes(minutes, plat) /\ t = SpanTimes(m, plat)
    OBVIOUS
  <1>4. s \in Seq(Nat) /\ t \in Seq(Nat) /\ Len(s) = Len(minutes) /\ Len(t) = Len(m)
        /\ TimeOn(minutes, plat) = Total(s) /\ TimeOn(m, plat) = Total(t)
    BY <1>2, <1>3, TimesAreNumbers
  <1>5. /\ \A i \in 1..Len(s) : t[i] = s[i]
        /\ t[Len(t)] = IF x.plat = plat THEN x.time ELSE 0
    BY <1>2, <1>3, <1>4 DEF SpanTimes
  <1>6. Total(t) = Total(s) + t[Len(t)]
    BY <1>2, <1>4, <1>5, TotalOfMore
  <1> QED BY <1>1, <1>4, <1>5, <1>6

\* The minutes of the items of a list.
ItemTimes(lib, plat) == [i \in DOMAIN lib |-> TimeOn(lib[i].item.minutes, plat)]

LEMMA ItemTimesAreNumbers ==
    ASSUME NEW lib \in Seq(Listing), NEW plat
    PROVE  /\ ItemTimes(lib, plat) \in Seq(Nat)
           /\ Len(ItemTimes(lib, plat)) = Len(lib)
           /\ MinutesOf(Values(lib), plat) = Total(ItemTimes(lib, plat))
           /\ MinutesOf(Values(lib), plat) \in Nat
  <1>1. PICK s : s = ItemTimes(lib, plat)
    OBVIOUS
  <1>2. Len(lib) \in Nat /\ DOMAIN lib = 1..Len(lib) /\ \A i \in DOMAIN lib : lib[i].item.minutes \in Spans
    <2>1. Len(lib) \in Nat /\ DOMAIN lib = 1..Len(lib) /\ \A i \in DOMAIN lib : lib[i] \in Listing
      OBVIOUS
    <2>2. \A i \in DOMAIN lib : lib[i].item \in Items
      BY <2>1 DEF Listing
    <2> QED BY <2>1, <2>2 DEF Items
  <1>3. s = [i \in 1..Len(lib) |-> s[i]] /\ \A i \in 1..Len(lib) : s[i] \in Nat
    BY <1>1, <1>2, TimesAreNumbers DEF ItemTimes
  <1>4. s \in Seq(Nat) /\ Len(s) = Len(lib)
    BY <1>2, <1>3
  <1>5. Total(s) \in Nat
    BY <1>2, <1>4, SumsAreNumbers DEF Total
  <1>6. MinutesOf(Values(lib), plat) = Total(s)
    <2>1. DOMAIN Values(lib) = DOMAIN lib /\ \A i \in DOMAIN lib : Values(lib)[i] = lib[i].item
      BY DEF Values
    <2>2. [i \in DOMAIN Values(lib) |-> TimeOn(Values(lib)[i].minutes, plat)] = s
      BY <1>1, <2>1 DEF ItemTimes
    <2> QED BY <2>2 DEF MinutesOf
  <1> QED BY <1>1, <1>4, <1>5, <1>6

\* An item's minutes replace those of its place.
LEMMA PutsMinutes ==
    ASSUME NEW lib \in Lists, NEW key \in Texts, NEW item \in Items, NEW plat, NEW was \in Nat,
           IF Lookup(lib, key) = <<>> THEN was = 0 ELSE was = TimeOn(Lookup(lib, key)[1].item.minutes, plat)
    PROVE  MinutesOf(Values(Put(lib, key, item)), plat) + was
             = MinutesOf(Values(lib), plat) + TimeOn(item.minutes, plat)
  <1>1. PICK new : new = Put(lib, key, item) /\ new \in Lists
    BY PutsOne
  <1>2. PICK x : x = [key |-> key, item |-> item] /\ x.item = item
    <2>1. [key |-> key, item |-> item].item = item
      OBVIOUS
    <2> QED BY <2>1
  <1>3. PICK s, t : s = ItemTimes(lib, plat) /\ t = ItemTimes(new, plat)
    OBVIOUS
  <1>4. /\ lib \in Seq(Listing) /\ new \in Seq(Listing)
        /\ \A i, j \in DOMAIN lib : lib[i].key = lib[j].key => i = j
    BY <1>1 DEF Lists
  <1>5. /\ s \in Seq(Nat) /\ Len(s) = Len(lib) /\ MinutesOf(Values(lib), plat) = Total(s)
        /\ t \in Seq(Nat) /\ Len(t) = Len(new) /\ MinutesOf(Values(new), plat) = Total(t)
        /\ Len(lib) \in Nat /\ DOMAIN lib = 1..Len(lib) /\ Len(new) \in Nat /\ DOMAIN new = 1..Len(new)
        /\ Total(s) \in Nat /\ Total(t) \in Nat
    BY <1>3, <1>4, ItemTimesAreNumbers
  <1>6. CASE Lookup(lib, key) = <<>>
    <2>1. new = Append(lib, x)
      BY <1>1, <1>2, <1>6 DEF Put
    <2>2. Len(new) = Len(lib) + 1 /\ new[Len(new)] = x /\ \A i \in 1..Len(lib) : new[i] = lib[i]
      BY <1>4, <1>5, <2>1
    <2>3. \A i \in 1..Len(s) : t[i] = s[i]
      BY <1>3, <1>5, <2>2 DEF ItemTimes
    <2>4. t[Len(t)] = TimeOn(item.minutes, plat)
      BY <1>2, <1>3, <1>5, <2>2 DEF ItemTimes
    <2>5. Total(t) = Total(s) + t[Len(t)]
      BY <1>5, <2>2, <2>3, TotalOfMore
    <2>6. was = 0
      BY <1>6
    <2> QED BY <1>1, <1>5, <2>4, <2>5, <2>6
  <1>7. CASE Lookup(lib, key) # <<>>
    <2>1. PICK k \in DOMAIN lib : lib[k].key = key /\ Lookup(lib, key) = <<lib[k]>>
      BY <1>4, <1>7, LookedUp
    <2>2. new = [i \in DOMAIN lib |-> IF lib[i].key = key THEN x ELSE lib[i]]
      BY <1>1, <1>2, <1>7 DEF Put
    <2>3. \A i \in DOMAIN lib : lib[i].key = key <=> i = k
      BY <1>4, <2>1
    <2>4. DOMAIN new = DOMAIN lib /\ new[k] = x /\ \A i \in DOMAIN lib : i # k => new[i] = lib[i]
      BY <2>2, <2>3
    <2>5. Len(t) = Len(s) /\ k \in 1..Len(s)
      BY <1>5, <2>4
    <2>6. t[k] = TimeOn(item.minutes, plat) /\ s[k] = TimeOn(lib[k].item.minutes, plat)
      BY <1>2, <1>3, <2>1, <2>4 DEF ItemTimes
    <2>7. \A i \in 1..Len(s) : i # k => t[i] = s[i]
      BY <1>3, <1>5, <2>4 DEF ItemTimes
    <2>8. Total(t) + s[k] = Total(s) + t[k]
      BY <1>5, <2>5, <2>7, TotalOfChange
    <2>9. was = s[k]
      <3>1. Lookup(lib, key)[1] = lib[k]
        BY <2>1
      <3> QED BY <1>7, <2>6, <3>1
    <2> QED BY <1>1, <1>5, <2>6, <2>8, <2>9
  <1> QED BY <1>6, <1>7

-----------------------------------------------------------------------------
(* Where a record's item is *)

LEMMA FoundIsItem ==
    ASSUME NEW S, NEW items \in Seq(S), NEW ids, NEW plats, FindByAnyId(items, ids, plats) # <<>>
    PROVE  \E i \in DOMAIN items : FindByAnyId(items, ids, plats) = <<items[i]>>
  <1> DEFINE hits(id) == {i \in DOMAIN items : /\ id # None
                                               /\ id \in {items[i].title, items[i].np, items[i].product}
                                               /\ Compatible(items[i].plats, plats)}
             hit(id)  == IF hits(id) = {} THEN <<>> ELSE <<items[CHOOSE i \in hits(id) : \A j \in hits(id) : i <= j]>>
             found    == FirstThat(ids, LAMBDA id : hit(id) # <<>>)
  <1>1. FindByAnyId(items, ids, plats) = IF found = <<>> THEN <<>> ELSE hit(found[1])
    BY DEF FindByAnyId, FirstThat
  <1>2. PICK id : FindByAnyId(items, ids, plats) = hit(id)
    <2> HIDE DEF hit, found
    <2> QED BY <1>1
  <1>3. hits(id) # {} /\ hits(id) \in SUBSET Nat
    BY <1>2
  <1>4. \E i \in hits(id) : \A j \in hits(id) : i <= j
    <2> HIDE DEF hits
    <2> QED BY <1>3, LeastNat
  <1>5. PICK i : i = CHOOSE h \in hits(id) : \A j \in hits(id) : h <= j
    OBVIOUS
  <1>6. i \in hits(id)
    <2> HIDE DEF hits
    <2> QED BY <1>4, <1>5
  <1>7. FindByAnyId(items, ids, plats) = <<items[i]>>
    <2> HIDE DEF hits
    <2> QED BY <1>2, <1>3, <1>5
  <1> QED BY <1>6, <1>7

\* One id looked up: an item that has it, and none only if no item has it.
LEMMA FoundById ==
    ASSUME NEW S, NEW items \in Seq(S), NEW id
    PROVE  LET found == FindByAnyId(items, <<id>>, {})
           IN  /\ found = <<>> => \A i \in DOMAIN items : id = None \/ id \notin {items[i].title, items[i].np, items[i].product}
               /\ found # <<>> => \E i \in DOMAIN items :
                     found = <<items[i]>> /\ id \in {items[i].title, items[i].np, items[i].product}
  <1> DEFINE hits(x) == {i \in DOMAIN items : /\ x # None
                                              /\ x \in {items[i].title, items[i].np, items[i].product}
                                              /\ Compatible(items[i].plats, {})}
             hit(x)  == IF hits(x) = {} THEN <<>> ELSE <<items[CHOOSE i \in hits(x) : \A j \in hits(x) : i <= j]>>
             ids     == <<id>>
             F       == FindByAnyId(items, ids, {})
             at      == {n \in DOMAIN ids : hit(ids[n]) # <<>>}
             found   == IF at = {} THEN <<>> ELSE <<ids[CHOOSE n \in at : \A m \in at : n <= m]>>
  <1>1. F = IF found = <<>> THEN <<>> ELSE hit(found[1])
    BY DEF FindByAnyId, FirstThat
  <1>2. DOMAIN ids = {1} /\ ids[1] = id
    OBVIOUS
  <1>3. CASE hits(id) = {}
    <2>1. hit(id) = <<>>
      BY <1>3
    <2>2. at = {}
      <3> HIDE DEF hit, ids
      <3> QED BY <1>2, <2>1
    <2>3. F = <<>>
      <3> HIDE DEF hit, at, F
      <3> QED BY <1>1, <2>2
    <2>4. \A i \in DOMAIN items : id = None \/ id \notin {items[i].title, items[i].np, items[i].product}
      BY <1>3 DEF Compatible
    <2> QED BY <2>3, <2>4
  <1>4. CASE hits(id) # {}
    <2>1. hits(id) \in SUBSET Nat
      OBVIOUS
    <2>2. \E i \in hits(id) : \A j \in hits(id) : i <= j
      <3> HIDE DEF hits
      <3> QED BY <1>4, <2>1, LeastNat
    <2>3. PICK i : i = CHOOSE h \in hits(id) : \A j \in hits(id) : h <= j
      OBVIOUS
    <2>4. i \in hits(id) /\ hit(id) = <<items[i]>>
      <3> HIDE DEF hits
      <3> QED BY <1>4, <2>2, <2>3
    <2>5. hit(id) # <<>>
      <3> HIDE DEF hit
      <3> QED BY <2>4
    <2>6. at = {1}
      <3> HIDE DEF hit, ids
      <3> QED BY <1>2, <2>5
    <2>7. found = <<id>>
      <3>1. (CHOOSE n \in {1} : \A m \in {1} : n <= m) = 1
        OBVIOUS
      <3> HIDE DEF at, ids
      <3> QED BY <1>2, <2>6, <3>1
    <2>8. F = <<items[i]>>
      <3>1. found # <<>> /\ found[1] = id
        <4> HIDE DEF found
        <4> QED BY <2>7
      <3> HIDE DEF found, hit, F
      <3> QED BY <1>1, <2>4, <3>1
    <2>9. i \in DOMAIN items /\ id \in {items[i].title, items[i].np, items[i].product}
      BY <2>4
    <2>10. F # <<>>
      <3> HIDE DEF F
      <3> QED BY <2>8
    <2> HIDE DEF F
    <2>11. \E k \in DOMAIN items : F = <<items[k]>> /\ id \in {items[k].title, items[k].np, items[k].product}
      BY <2>8, <2>9
    <2> QED BY <2>10, <2>11 DEF F
  <1> QED BY <1>3, <1>4

LEMMA FoundByName ==
    ASSUME NEW S, NEW items \in Seq(S), NEW name, NEW plats, FindByName(items, name, plats) # <<>>
    PROVE  \E i \in DOMAIN items : FindByName(items, name, plats) = <<items[i]>>
  <1>1. PICK hits : hits = {i \in DOMAIN items : /\ name # None
                                                 /\ items[i].name = name
                                                 /\ Compatible(items[i].plats, plats)}
    OBVIOUS
  <1>2. FindByName(items, name, plats) = IF hits = {} THEN <<>> ELSE <<items[CHOOSE i \in hits : \A j \in hits : i <= j]>>
    BY <1>1 DEF FindByName, FirstThat
  <1>3. hits # {} /\ hits \in SUBSET Nat
    BY <1>1, <1>2
  <1>4. \E i \in hits : \A j \in hits : i <= j
    BY <1>3, LeastNat
  <1>5. PICK i : i = CHOOSE h \in hits : \A j \in hits : h <= j
    OBVIOUS
  <1>6. i \in hits /\ FindByName(items, name, plats) = <<items[i]>>
    BY <1>2, <1>3, <1>4, <1>5
  <1> QED BY <1>1, <1>6

\* What a play record is given is an item of the list before the loop, or nothing; and an
\* item that has its id, if there is one.
LEMMA PlayIsOf ==
    ASSUME NEW before \in Seq(Items), NEW p
    PROVE  LET base == PlayOf(before, p)
           IN  /\ base = Blank \/ \E i \in DOMAIN before : base = before[i]
               /\ (\E i \in DOMAIN before : p.title # None /\ before[i].title = p.title) =>
                     p.title \in {base.title, base.np, base.product}
  <1>1. PICK byId, family, named : /\ byId = FindByAnyId(before, <<p.title>>, {})
                                   /\ family = FindByAnyId(before, p.concept, {p.plat})
                                   /\ named = FindByName(before, p.name, {p.plat})
    OBVIOUS
  <1>2. PICK base : base = PlayOf(before, p)
    OBVIOUS
  <1>3. /\ byId # <<>> => base = byId[1]
        /\ byId = <<>> /\ family # <<>> => base = family[1]
        /\ byId = <<>> /\ family = <<>> /\ named # <<>> => base = named[1]
        /\ byId = <<>> /\ family = <<>> /\ named = <<>> => base = Blank
    <2>1. base = CASE byId # <<>> -> byId[1]
                   [] byId = <<>> /\ family # <<>> -> family[1]
                   [] byId = <<>> /\ family = <<>> /\ named # <<>> -> named[1]
                   [] OTHER -> Blank
      BY <1>1, <1>2 DEF PlayOf
    <2>2. byId # <<>> => base = byId[1]
      BY <2>1
    <2>3. byId = <<>> /\ family # <<>> => base = family[1]
      BY <2>1
    <2>4. byId = <<>> /\ family = <<>> /\ named # <<>> => base = named[1]
      BY <2>1
    <2>5. byId = <<>> /\ family = <<>> /\ named = <<>> => base = Blank
      BY <2>1
    <2> QED BY <2>2, <2>3, <2>4, <2>5
  <1>4. /\ byId = <<>> => \A i \in DOMAIN before : p.title = None \/ before[i].title # p.title
        /\ byId # <<>> => \E i \in DOMAIN before :
              byId = <<before[i]>> /\ p.title \in {before[i].title, before[i].np, before[i].product}
    BY <1>1, FoundById
  <1>5. family # <<>> => \E i \in DOMAIN before : family = <<before[i]>>
    BY <1>1, FoundIsItem
  <1>6. named # <<>> => \E i \in DOMAIN before : named = <<before[i]>>
    BY <1>1, FoundByName
  <1>7. CASE byId # <<>>
    <2>1. PICK i \in DOMAIN before : byId = <<before[i]>> /\ p.title \in {before[i].title, before[i].np, before[i].product}
      BY <1>4, <1>7
    <2>2. base = before[i]
      BY <1>3, <1>7, <2>1
    <2> QED BY <1>2, <2>1, <2>2
  <1>8. CASE byId = <<>>
    <2>1. base = Blank \/ \E i \in DOMAIN before : base = before[i]
      BY <1>3, <1>5, <1>6, <1>8
    <2> QED BY <1>2, <1>4, <1>8, <2>1
  <1> QED BY <1>7, <1>8

-----------------------------------------------------------------------------
(* Purchases, trophy sets, play records *)

\* An item is kept under its title id, else its set's id, else a product id or a name.
InPlace(x) ==
    /\ x.item.title \in TitleIds \cup {None}
    /\ x.item.product \in Products \cup {None}
    /\ x.item.title # None => x.key = x.item.title
    /\ x.item.title = None /\ x.item.np # None => x.key = x.item.np
    /\ x.item.title = None /\ x.item.np = None => x.key \in Products \cup NamesFed \cup {None}

PurchasesListed(lib) ==
    /\ lib \in Lists
    /\ \A x \in ToSet(lib) : InPlace(x) /\ x.item.np = None /\ x.item.minutes = <<>>

LEMMA ItemsAreItems ==
    ASSUME NEW title \in Texts, NEW np \in Texts, NEW product \in Texts, NEW name \in Texts,
           NEW plats \in SUBSET Texts, NEW sources \in SUBSET Texts, NEW join \in Texts, NEW minutes \in Spans
    PROVE  LET item == Item(title, np, product, name, plats, sources, join, minutes)
           IN  /\ item \in Items
               /\ item.title = title /\ item.np = np /\ item.product = product /\ item.name = name
               /\ item.plats = plats /\ item.sources = sources /\ item.join = join /\ item.minutes = minutes
  BY DEF Item, Items

LEMMA BlankIsItem == Blank \in Items
  <1>1. <<>> \in Spans
    BY DEF Spans
  <1>2. PICK none : none = {} /\ none \in SUBSET Texts
    <2>1. {} \in SUBSET Texts
      OBVIOUS
    <2> QED BY <2>1
  <1>3. None \in Texts
    BY DEF Texts
  <1>4. Item(None, None, None, None, none, none, None, <<>>) \in Items
    BY <1>1, <1>2, <1>3, ItemsAreItems
  <1> QED BY <1>2, <1>4 DEF Blank

LEMMA ListsPurchase ==
    ASSUME NEW lib, PurchasesListed(lib), NEW p \in Bought
    PROVE  PurchasesListed(AddPurchase(lib, p))
  <1>1. p \in Purchase
    BY FeedsAreFeeds
  <1>2. PICK item : item = Item(p.title, None, p.product, p.name, p.plats, {"purchased"}, None, <<>>)
    OBVIOUS
  <1>3. PICK key : key = Or(p.title, Or(p.product, p.name))
    OBVIOUS
  <1>4. item \in Items /\ item.title = p.title /\ item.np = None /\ item.product = p.product /\ item.minutes = <<>>
    <2>1. <<>> \in Spans
      BY DEF Spans
    <2>2. PICK from : from = {"purchased"} /\ from \in SUBSET Texts
      <3>1. {"purchased"} \in SUBSET Texts
        BY DEF Texts
      <3> QED BY <3>1
    <2>3. None \in Texts
      BY DEF Texts
    <2>4. p.title \in Texts /\ p.product \in Texts /\ p.name \in Texts /\ p.plats \in SUBSET Texts
      BY <1>1 DEF Purchase, Texts
    <2>5. item = Item(p.title, None, p.product, p.name, p.plats, from, None, <<>>)
      BY <1>2, <2>2
    <2> QED BY <2>1, <2>2, <2>3, <2>4, <2>5, ItemsAreItems
  <1>5. key \in Texts
    BY <1>1, <1>3 DEF Or, Purchase, Texts
  <1>6. PICK new : new = AddPurchase(lib, p) /\ new = Put(lib, key, item)
    BY <1>2, <1>3 DEF AddPurchase
  <1>7. PICK n : n = [key |-> key, item |-> item]
    OBVIOUS
  <1>8. new \in Lists /\ ToSet(new) = {x \in ToSet(lib) : x.key # key} \cup {n}
    BY <1>4, <1>5, <1>6, <1>7, PutsOne DEF PurchasesListed
  <1>9. n.key = key /\ n.item = item
    BY <1>7
  <1>10. p.title \in TitleIds \cup {None} /\ p.product \in Products \cup {None} /\ p.name \in NamesFed \cup {None}
    BY DEF TitleIds, Products, NamesFed
  <1>11. InPlace(n)
    BY <1>3, <1>4, <1>9, <1>10 DEF InPlace, Or
  <1> QED BY <1>4, <1>6, <1>8, <1>9, <1>11 DEF PurchasesListed

LEMMA PurchasesAreListed ==
    ASSUME NEW purchased \in Seq(Bought)
    PROVE  PurchasesListed(WithPurchases(purchased)[Len(purchased)])
  <1> DEFINE lib(n) == WithPurchases(purchased)[n]
             Good   == {n \in Nat : n <= Len(purchased) => PurchasesListed(lib(n))}
  <1>1. Len(purchased) \in Nat
    OBVIOUS
  <1>2. 0 \in Good
    <2>1. lib(0) = <<>>
      BY <1>1, BoughtInTurn
    <2>2. PurchasesListed(<<>>)
      BY DEF PurchasesListed, Lists, ToSet
    <2> HIDE DEF lib
    <2> QED BY <2>1, <2>2
  <1>3. ASSUME NEW n \in Nat, n \in Good PROVE n + 1 \in Good
    <2> SUFFICES ASSUME n + 1 <= Len(purchased) PROVE PurchasesListed(lib(n + 1))
      OBVIOUS
    <2>1. n + 1 \in 1..Len(purchased) /\ (n + 1) - 1 = n /\ purchased[n + 1] \in Bought /\ PurchasesListed(lib(n))
      BY <1>1, <1>3
    <2>2. lib(n + 1) = IF purchased[n + 1].demo THEN lib(n) ELSE AddPurchase(lib(n), purchased[n + 1])
      BY <1>1, <2>1, BoughtInTurn
    <2> HIDE DEF lib
    <2> QED BY <2>1, <2>2, ListsPurchase
  <1>4. Nat \subseteq Good
    <2> HIDE DEF Good
    <2> QED BY <1>2, <1>3, SetInduction
  <1> QED BY <1>1, <1>4

\* One item has the trophy set t, on its platforms.
HasSet(lib, t) ==
    \E x \in ToSet(lib) : /\ x.item.np = t.np
                          /\ t.plats # {} => x.item.plats = t.plats
                          /\ \A y \in ToSet(lib) : y.item.np = t.np => y = x

SetsListed(lib, titles, k) ==
    /\ lib \in Lists
    /\ \A x \in ToSet(lib) : /\ InPlace(x)
                             /\ x.item.minutes = <<>>
                             /\ x.item.np = None \/ \E i \in 1..k : x.item.np = titles[i].np
    /\ \A i \in 1..k : HasSet(lib, titles[i])

\* A trophy set gets an item of its own, and takes none that another has.
LEMMA JoinsSet ==
    ASSUME NEW titles \in Seq(TrophySets), OneEach(titles), NEW k \in 1..Len(titles),
           NEW lib, SetsListed(lib, titles, k - 1), NEW b, PurchasesListed(b), NEW by \in Texts,
           NEW found, found = <<>> \/ \E i \in DOMAIN b : found = <<b[i].item>>
    PROVE  SetsListed(JoinSet(lib, found, by, titles[k]), titles, k)
  <1>1. PICK t : t = titles[k]
    OBVIOUS
  <1>2. Len(titles) \in Nat /\ k \in Nat /\ \A i \in 1..k : titles[i] \in TrophySets
    BY ElementsOfSeq
  <1>3. t \in TrophySet /\ t.np \in SetIds /\ t.np # None /\ t.np \notin TitleIds /\ t.np \notin Products /\ t.np \notin NamesFed
    BY <1>1, <1>2, FeedsAreFeeds DEF SetIds
  <1>4. PICK slot : slot = IF found = <<>> THEN t.np ELSE Or(found[1].title, Or(found[1].np, t.np))
    OBVIOUS
  <1>5. PICK alone \in BOOLEAN :
          alone <=> (found = <<>> \/ \E i \in DOMAIN lib : lib[i].key = slot /\ lib[i].item.np \notin {None, t.np})
    OBVIOUS
  <1>6. PICK base : base = IF alone THEN Blank ELSE found[1]
    OBVIOUS
  <1>7. PICK key : key = IF alone THEN t.np ELSE slot
    OBVIOUS
  <1>8. PICK item : item = Item(base.title, Or(base.np, t.np), base.product, t.name,
                                IF t.plats # {} THEN t.plats ELSE base.plats,
                                base.sources \cup {"titles"}, IF alone THEN None ELSE by, base.minutes)
    OBVIOUS
  <1>9. PICK new : new = JoinSet(lib, found, by, t) /\ new = Put(lib, key, item)
    BY <1>4, <1>5, <1>6, <1>7, <1>8 DEF JoinSet
  <1>10. /\ base \in Items /\ base.np = None /\ base.minutes = <<>>
         /\ base.title \in TitleIds \cup {None} /\ base.product \in Products \cup {None}
    <2>1. CASE alone
      BY <1>6, <2>1, BlankIsItem DEF Blank, Item
    <2>2. CASE ~alone
      <3>1. PICK i \in DOMAIN b : found = <<b[i].item>>
        BY <1>5, <2>2
      <3>2. base = b[i].item
        BY <1>6, <2>2, <3>1
      <3>3. b \in Seq(Listing)
        BY DEF PurchasesListed, Lists
      <3>4. b[i] \in Listing /\ b[i] \in ToSet(b)
        BY <3>3, ElementsOfSeq DEF ToSet
      <3>5. InPlace(b[i]) /\ b[i].item.np = None /\ b[i].item.minutes = <<>> /\ b[i].item \in Items
        BY <3>4 DEF PurchasesListed, Listing
      <3> QED BY <3>2, <3>5 DEF InPlace
    <2> QED BY <2>1, <2>2
  <1>11. /\ item \in Items /\ item.title = base.title /\ item.np = t.np /\ item.product = base.product
         /\ item.minutes = <<>> /\ (t.plats # {} => item.plats = t.plats)
    <2>1. Or(base.np, t.np) = t.np
      BY <1>10 DEF Or
    <2>2. t.np \in Texts /\ t.name \in Texts /\ t.plats \in SUBSET Texts
      BY <1>3 DEF TrophySet, Texts
    <2>3. /\ base.title \in Texts /\ base.product \in Texts /\ base.plats \in SUBSET Texts
          /\ base.sources \in SUBSET Texts /\ base.minutes \in Spans
      BY <1>10 DEF Items
    <2>4. PICK plats, sources, join : /\ plats = IF t.plats # {} THEN t.plats ELSE base.plats
                                      /\ sources = base.sources \cup {"titles"}
                                      /\ join = IF alone THEN None ELSE by
      OBVIOUS
    <2>5. plats \in SUBSET Texts /\ sources \in SUBSET Texts /\ join \in Texts
      <3>1. None \in Texts /\ "titles" \in Texts
        BY DEF Texts
      <3>2. plats \in SUBSET Texts
        BY <2>2, <2>3, <2>4
      <3>3. sources \in SUBSET Texts
        BY <2>3, <2>4, <3>1
      <3>4. join \in Texts
        BY <2>4, <3>1
      <3> QED BY <3>2, <3>3, <3>4
    <2>6. item = Item(base.title, t.np, base.product, t.name, plats, sources, join, base.minutes)
      BY <1>8, <2>1, <2>4
    <2>7. /\ item \in Items /\ item.title = base.title /\ item.np = t.np /\ item.product = base.product
          /\ item.minutes = base.minutes /\ item.plats = plats
      BY <2>2, <2>3, <2>5, <2>6, ItemsAreItems
    <2> QED BY <1>10, <2>4, <2>7
  <1>12. key \in Texts /\ (base.title # None => key = base.title) /\ (base.title = None => key = t.np)
    <2>1. t.np \in Texts /\ base.title \in Texts
      BY <1>3, <1>10 DEF TrophySet, Items, Texts
    <2>2. CASE alone
      <3>1. base.title = None
        BY <1>6, <2>2 DEF Blank, Item
      <3> QED BY <1>7, <2>1, <2>2, <3>1
    <2>3. CASE ~alone
      <3>1. base = found[1] /\ key = Or(base.title, Or(base.np, t.np))
        BY <1>4, <1>5, <1>6, <1>7, <2>3
      <3> QED BY <1>10, <2>1, <3>1 DEF Or
    <2> QED BY <2>2, <2>3
  <1>13. PICK n : n = [key |-> key, item |-> item]
    OBVIOUS
  <1>14. n.key = key /\ n.item = item
    BY <1>13
  <1>15. lib \in Lists /\ new \in Lists /\ ToSet(new) = {x \in ToSet(lib) : x.key # key} \cup {n}
    BY <1>9, <1>11, <1>12, <1>13, PutsOne DEF SetsListed
  <1>16. \A x \in ToSet(lib) : x.item.np # t.np
    <2> SUFFICES ASSUME NEW x \in ToSet(lib), x.item.np = t.np PROVE FALSE
      OBVIOUS
    <2>1. PICK i \in 1..(k - 1) : titles[i].np = t.np
      BY <1>3 DEF SetsListed
    <2>2. i \in DOMAIN titles /\ k \in DOMAIN titles /\ i # k
      BY <1>2
    <2>3. titles[i] = titles[k]
      BY <1>1, <1>2, <2>1, <2>2, FeedsAreFeeds
    <2> QED BY <2>2, <2>3 DEF OneEach
  <1>17. \A x \in ToSet(lib) : x.key = key => x.item.np = None
    <2> SUFFICES ASSUME NEW x \in ToSet(lib), x.key = key, x.item.np # None PROVE FALSE
      OBVIOUS
    <2>1. InPlace(x)
      BY DEF SetsListed
    <2>2. CASE alone
      <3>1. x.key = t.np
        BY <1>7, <2>2
      <3> QED BY <1>3, <1>16, <2>1, <3>1 DEF InPlace
    <2>3. CASE ~alone
      <3>1. PICK i \in DOMAIN lib : x = lib[i]
        BY DEF ToSet
      <3>2. x.item.np \in {None, t.np}
        BY <1>5, <1>7, <2>3, <3>1
      <3> QED BY <1>16, <3>2
    <2> QED BY <2>2, <2>3
  <1>18. InPlace(n)
    BY <1>3, <1>10, <1>11, <1>12, <1>14 DEF InPlace
  <1>19. ASSUME NEW x \in ToSet(new)
         PROVE  /\ InPlace(x)
                /\ x.item.minutes = <<>>
                /\ x.item.np = None \/ \E i \in 1..k : x.item.np = titles[i].np
    <2>1. CASE x = n
      BY <1>1, <1>2, <1>11, <1>14, <1>18, <2>1
    <2>2. CASE x \in ToSet(lib)
      <3>1. 1..(k - 1) \subseteq 1..k
        BY <1>2
      <3> QED BY <2>2, <3>1 DEF SetsListed
    <2> QED BY <1>15, <2>1, <2>2
  <1>20. ASSUME NEW i \in 1..k PROVE HasSet(new, titles[i])
    <2>1. CASE i = k
      <3>1. \A y \in ToSet(new) : y.item.np = t.np => y = n
        BY <1>15, <1>16
      <3>2. n \in ToSet(new)
        BY <1>15
      <3> QED BY <1>1, <1>11, <1>14, <2>1, <3>1, <3>2 DEF HasSet
    <2>2. CASE i # k
      <3>1. i \in 1..(k - 1)
        BY <1>2, <2>2
      <3>2. PICK x \in ToSet(lib) : /\ x.item.np = titles[i].np
                                    /\ titles[i].plats # {} => x.item.plats = titles[i].plats
                                    /\ \A y \in ToSet(lib) : y.item.np = titles[i].np => y = x
        BY <3>1 DEF SetsListed, HasSet
      <3>3. titles[i].np \in SetIds /\ titles[i].np # None
        BY <1>2, FeedsAreFeeds DEF SetIds
      <3>4. x \in ToSet(new)
        BY <1>15, <1>17, <3>2, <3>3
      <3>5. n.item.np # titles[i].np
        BY <1>11, <1>14, <1>16, <3>2
      <3> QED BY <1>15, <3>2, <3>4, <3>5 DEF HasSet
    <2> QED BY <2>1, <2>2
  <1> QED BY <1>1, <1>9, <1>15, <1>19, <1>20 DEF SetsListed

LEMMA SetsAreListed ==
    ASSUME NEW titles \in Seq(TrophySets), OneEach(titles), NEW b, PurchasesListed(b)
    PROVE  SetsListed(WithSets(b, titles)[Len(titles)], titles, Len(titles))
  <1> DEFINE lib(n) == WithSets(b, titles)[n]
             Good   == {n \in Nat : n <= Len(titles) => SetsListed(lib(n), titles, n)}
  <1>1. Len(titles) \in Nat
    OBVIOUS
  <1>2. 0 \in Good
    <2>1. lib(0) = b
      BY <1>1, SetsInTurn
    <2>2. SetsListed(b, titles, 0)
      BY DEF PurchasesListed, SetsListed
    <2> HIDE DEF lib
    <2> QED BY <2>1, <2>2
  <1>3. ASSUME NEW n \in Nat, n \in Good PROVE n + 1 \in Good
    <2> SUFFICES ASSUME n + 1 <= Len(titles) PROVE SetsListed(lib(n + 1), titles, n + 1)
      OBVIOUS
    <2>1. n + 1 \in 1..Len(titles) /\ (n + 1) - 1 = n /\ SetsListed(lib(n), titles, n)
      BY <1>1, <1>3
    <2>2. lib(n + 1) = AddSet(Values(b), lib(n), titles[n + 1])
      BY <1>1, <2>1, SetsInTurn
    <2> HIDE DEF lib
    <2>3. PICK m : m = n + 1 /\ m \in 1..Len(titles) /\ m - 1 = n
      BY <2>1
    <2>4. PICK t, items : t = titles[m] /\ items = Values(b)
      OBVIOUS
    <2>5. items \in Seq(Items) /\ DOMAIN items = DOMAIN b /\ \A i \in DOMAIN b : items[i] = b[i].item
      <3>1. b \in Seq(Listing)
        BY DEF PurchasesListed, Lists
      <3>2. Len(b) \in Nat /\ DOMAIN b = 1..Len(b) /\ \A i \in DOMAIN b : b[i] \in Listing
        BY <3>1, ElementsOfSeq
      <3>3. DOMAIN items = 1..Len(b) /\ items = [i \in 1..Len(b) |-> items[i]] /\ \A i \in 1..Len(b) : items[i] = b[i].item
        BY <2>4, <3>2 DEF Values
      <3>4. \A i \in 1..Len(b) : items[i] \in Items
        BY <3>2, <3>3 DEF Listing
      <3> QED BY <3>2, <3>3, <3>4
    <2>6. PICK byId, byName : byId = FindByAnyId(items, <<t.np>>, {}) /\ byName = FindByName(items, t.name, t.plats)
      OBVIOUS
    <2>7. lib(n + 1) = IF byId # <<>> THEN JoinSet(lib(n), byId, "id", t) ELSE JoinSet(lib(n), byName, "name", t)
      BY <2>2, <2>3, <2>4, <2>6 DEF AddSet
    <2>8. byId = <<>> \/ \E i \in DOMAIN b : byId = <<b[i].item>>
      BY <2>5, <2>6, FoundIsItem
    <2>9. byName = <<>> \/ \E i \in DOMAIN b : byName = <<b[i].item>>
      BY <2>5, <2>6, FoundByName
    <2>10. PICK L : L = lib(n) /\ SetsListed(L, titles, m - 1)
      BY <2>1, <2>3
    <2>11. SetsListed(JoinSet(L, byId, "id", titles[m]), titles, m)
      <3>1. "id" \in Texts
        BY DEF Texts
      <3> QED BY <2>3, <2>8, <2>10, <3>1, JoinsSet
    <2>12. SetsListed(JoinSet(L, byName, "name", titles[m]), titles, m)
      <3>1. "name" \in Texts
        BY DEF Texts
      <3> QED BY <2>3, <2>9, <2>10, <3>1, JoinsSet
    <2> QED BY <2>3, <2>4, <2>7, <2>10, <2>11, <2>12
  <1>4. Nat \subseteq Good
    <2> HIDE DEF Good
    <2> QED BY <1>2, <1>3, SetInduction
  <1> QED BY <1>1, <1>4

\* lib has the trophy sets of the list sets in the same places.
SameSets(lib, sets) ==
    /\ \A y \in ToSet(sets) : y.item.np # None =>
          \E x \in ToSet(lib) : x.key = y.key /\ x.item.np = y.item.np /\ x.item.plats = y.item.plats
    /\ \A x \in ToSet(lib) : x.item.np # None => \E y \in ToSet(sets) : y.key = x.key /\ y.item.np = x.item.np

\* What the play records find: items in place, sets of the feed, no minutes yet.
ReadyForPlays(sets) ==
    /\ sets \in Lists
    /\ \A x \in ToSet(sets) : InPlace(x) /\ x.item.minutes = <<>> /\ x.item.np \in SetIds \cup {None}

LEMMA ItemsOfList ==
    ASSUME NEW lib \in Lists
    PROVE  /\ Values(lib) \in Seq(Items) /\ DOMAIN Values(lib) = DOMAIN lib
           /\ \A i \in DOMAIN lib : Values(lib)[i] = lib[i].item /\ lib[i] \in Listing /\ lib[i] \in ToSet(lib)
  <1>1. PICK items : items = Values(lib)
    OBVIOUS
  <1>2. lib \in Seq(Listing)
    BY DEF Lists
  <1>3. Len(lib) \in Nat /\ DOMAIN lib = 1..Len(lib) /\ \A i \in DOMAIN lib : lib[i] \in Listing
    BY <1>2, ElementsOfSeq
  <1>4. DOMAIN items = 1..Len(lib) /\ items = [i \in 1..Len(lib) |-> items[i]] /\ \A i \in 1..Len(lib) : items[i] = lib[i].item
    BY <1>1, <1>3 DEF Values
  <1>5. \A i \in 1..Len(lib) : items[i] \in Items
    BY <1>3, <1>4 DEF Listing
  <1> QED BY <1>1, <1>3, <1>4, <1>5 DEF ToSet

\* A play record changes no place's trophy set, and adds its minutes.
LEMMA JoinsPlay ==
    ASSUME NEW sets, ReadyForPlays(sets), NEW lib \in Lists, SameSets(lib, sets), NEW p \in Plays, NEW plat
    PROVE  LET new == AddPlay(Values(sets), lib, p)
           IN  /\ new \in Lists /\ SameSets(new, sets)
               /\ MinutesOf(Values(new), plat) = MinutesOf(Values(lib), plat) + (IF p.plat = plat THEN p.time ELSE 0)
  <1>1. PICK before, base : before = Values(sets) /\ base = PlayOf(before, p)
    OBVIOUS
  <1>2. PICK slot : slot = PlaySlot(base, p)
    OBVIOUS
  <1>3. PICK minutes : minutes = IF Lookup(lib, slot) # <<>> THEN Lookup(lib, slot)[1].item.minutes ELSE base.minutes
    OBVIOUS
  <1>4. PICK span : span = [plat |-> p.plat, time |-> p.time]
    OBVIOUS
  <1>5. PICK item : item = Item(Or(base.title, p.title), base.np, base.product, Or(base.name, p.name), base.plats,
                                base.sources \cup {"played"}, base.join, Append(minutes, span))
    OBVIOUS
  <1>6. PICK new : new = AddPlay(Values(sets), lib, p) /\ new = Put(lib, slot, item)
    BY <1>1, <1>2, <1>3, <1>4, <1>5 DEF AddPlay, JoinPlay, WithPlay
  <1>7. p \in Play
    BY FeedsAreFeeds
  <1>8. sets \in Lists /\ before \in Seq(Items) /\ DOMAIN before = DOMAIN sets
        /\ \A i \in DOMAIN sets : before[i] = sets[i].item /\ sets[i] \in Listing /\ sets[i] \in ToSet(sets)
    BY <1>1, ItemsOfList DEF ReadyForPlays
  <1>9. /\ base = Blank \/ \E i \in DOMAIN sets : base = sets[i].item
        /\ (\E i \in DOMAIN sets : p.title # None /\ sets[i].item.title = p.title) =>
              p.title \in {base.title, base.np, base.product}
    BY <1>1, <1>8, PlayIsOf
  <1>10. base \in Items /\ base.minutes = <<>> /\ base.title \in TitleIds \cup {None}
         /\ base.product \in Products \cup {None} /\ base.np \in SetIds \cup {None}
    <2>1. CASE base = Blank
      BY <2>1, BlankIsItem DEF Blank, Item
    <2>2. CASE \E i \in DOMAIN sets : base = sets[i].item
      <3>1. PICK i \in DOMAIN sets : base = sets[i].item
        BY <2>2
      <3>2. base \in Items
        BY <1>8, <3>1 DEF Listing
      <3> QED BY <1>8, <3>1, <3>2 DEF ReadyForPlays, InPlace
    <2> QED BY <1>9, <2>1, <2>2
  <1>11. lib \in Seq(Listing)
    BY DEF Lists
  <1>12. PICK live : live = Lookup(lib, slot)
    OBVIOUS
  <1>13. live = <<>> \/ \E i \in DOMAIN lib : live = <<lib[i]>> /\ live # <<>> /\ live[1] = lib[i]
    <2>1. \A y : <<y>> # <<>> /\ <<y>>[1] = y
      OBVIOUS
    <2>2. live = <<>> \/ \E i \in DOMAIN lib : live = <<lib[i]>>
      BY <1>11, <1>12, LookedUp
    <2> QED BY <2>1, <2>2
  <1>14. minutes \in Spans /\ (live = <<>> => minutes = <<>>) /\ (live # <<>> => minutes = live[1].item.minutes)
    <2>1. <<>> \in Spans
      BY DEF Spans
    <2>2. CASE live = <<>>
      BY <1>3, <1>10, <1>12, <2>1, <2>2
    <2>3. CASE live # <<>>
      <3>1. PICK i \in DOMAIN lib : live[1] = lib[i]
        BY <1>13, <2>3
      <3>2. lib[i] \in Listing
        BY <1>11, ElementsOfSeq
      <3>3. lib[i].item \in Items
        BY <3>2 DEF Listing
      <3>4. lib[i].item.minutes \in Spans
        BY <3>3 DEF Items
      <3> QED BY <1>3, <1>12, <2>3, <3>1, <3>4
    <2> QED BY <2>2, <2>3
  <1>15. span \in [plat : STRING, time : Nat] /\ span.plat = p.plat /\ span.time = p.time
    BY <1>4, <1>7 DEF Play
  <1>16. PICK all : all = Append(minutes, span) /\ all \in Spans
    <2>1. PICK S : S = [plat : STRING, time : Nat]
      OBVIOUS
    <2>2. minutes \in Seq(S) /\ span \in S
      BY <1>14, <1>15, <2>1 DEF Spans
    <2>3. Append(minutes, span) \in Seq(S)
      BY <2>2
    <2> QED BY <2>1, <2>3 DEF Spans
  <1>17. item \in Items /\ item.np = base.np /\ item.plats = base.plats /\ item.minutes = all
    <2>1. p.title \in Texts /\ p.name \in Texts
      BY <1>7 DEF Play, Texts
    <2>2. /\ base.title \in Texts /\ base.np \in Texts /\ base.product \in Texts /\ base.name \in Texts
          /\ base.plats \in SUBSET Texts /\ base.sources \in SUBSET Texts /\ base.join \in Texts
      BY <1>10 DEF Items
    <2>3. PICK title, name, sources : /\ title = Or(base.title, p.title) /\ name = Or(base.name, p.name)
                                      /\ sources = base.sources \cup {"played"}
      OBVIOUS
    <2>4. title \in Texts /\ name \in Texts
      BY <2>1, <2>2, <2>3 DEF Or
    <2>5. sources \in SUBSET Texts
      <3>1. "played" \in Texts
        BY DEF Texts
      <3> QED BY <2>2, <2>3, <3>1
    <2>6. PICK np, product, plats, join : np = base.np /\ product = base.product /\ plats = base.plats /\ join = base.join
      OBVIOUS
    <2>7. item = Item(title, np, product, name, plats, sources, join, all)
      BY <1>5, <1>16, <2>3, <2>6
    <2>8. /\ np \in Texts /\ product \in Texts /\ plats \in SUBSET Texts /\ join \in Texts /\ all \in Spans
          /\ title \in Texts /\ name \in Texts /\ sources \in SUBSET Texts
      BY <1>16, <2>2, <2>4, <2>5, <2>6
    <2>9. item \in Items /\ item.np = np /\ item.plats = plats /\ item.minutes = all
      BY <2>7, <2>8, ItemsAreItems
    <2> QED BY <2>6, <2>9
  <1>18. slot \in Texts
    <2>1. p.title \in Texts /\ p.name \in Texts /\ base.title \in Texts /\ base.np \in Texts
      BY <1>7, <1>10 DEF Play, Items, Texts
    <2> QED BY <1>2, <2>1 DEF PlaySlot, Or
  <1>19. PICK n : n = [key |-> slot, item |-> item]
    OBVIOUS
  <1>20. n.key = slot /\ n.item = item
    BY <1>19
  <1>21. new \in Lists /\ ToSet(new) = {x \in ToSet(lib) : x.key # slot} \cup {n}
    BY <1>6, <1>17, <1>18, <1>19, PutsOne
  <1>22. /\ \A y \in ToSet(sets) : y.key = slot /\ y.item.np # None => y.item.np = base.np /\ y.item.plats = base.plats
         /\ base.np # None => \E y \in ToSet(sets) : y.key = slot /\ y.item.np = base.np
    <2>1. \A x \in ToSet(sets) : InPlace(x)
      BY DEF ReadyForPlays
    <2>2. \A x, y \in ToSet(sets) : x.key = y.key => x = y
      BY <1>8 DEF Lists, ToSet
    <2>3. CASE base.title # None \/ base.np # None
      <3>1. base # Blank
        BY <2>3 DEF Blank, Item
      <3>2. PICK i \in DOMAIN sets : base = sets[i].item
        BY <1>9, <3>1
      <3>3. PICK x : x = sets[i] /\ x \in ToSet(sets) /\ x.item = base
        BY <1>8, <3>2
      <3>4. x.key = slot
        BY <1>2, <2>1, <2>3, <3>3 DEF InPlace, PlaySlot, Or
      <3> QED BY <2>2, <3>3, <3>4
    <2>4. CASE base.title = None /\ base.np = None
      <3> SUFFICES ASSUME NEW y \in ToSet(sets), y.key = slot, y.item.np # None PROVE FALSE
        BY <2>4
      <3>1. slot = Or(p.title, p.name)
        BY <1>2, <2>4 DEF PlaySlot, Or
      <3>2. p.title \in TitleIds \cup {None} /\ p.name \in NamesFed \cup {None}
        BY DEF TitleIds, NamesFed
      <3>3. InPlace(y) /\ y.item.np \in SetIds
        BY <2>1 DEF ReadyForPlays
      <3>4. slot \notin SetIds
        BY <3>1, <3>2, FeedsAreFeeds DEF Or
      <3>5. y.item.title # None /\ y.item.title = slot /\ y.item.title \in TitleIds
        BY <3>3, <3>4 DEF InPlace
      <3>6. p.title # None /\ p.title = y.item.title
        BY <3>1, <3>2, <3>5, FeedsAreFeeds DEF Or
      <3>7. PICK i \in DOMAIN sets : y = sets[i]
        BY DEF ToSet
      <3>8. p.title \in {base.title, base.np, base.product}
        BY <1>9, <3>6, <3>7
      <3>9. p.title \in Products
        BY <1>10, <2>4, <3>6, <3>8
      <3> QED BY <3>5, <3>6, <3>9, FeedsAreFeeds
    <2> QED BY <2>3, <2>4
  <1>23. SameSets(new, sets)
    <2>1. ASSUME NEW y \in ToSet(sets), y.item.np # None
          PROVE  \E x \in ToSet(new) : x.key = y.key /\ x.item.np = y.item.np /\ x.item.plats = y.item.plats
      <3>1. CASE y.key = slot
        BY <1>17, <1>20, <1>21, <1>22, <2>1, <3>1
      <3>2. CASE y.key # slot
        BY <1>21, <2>1, <3>2 DEF SameSets
      <3> QED BY <3>1, <3>2
    <2>2. ASSUME NEW x \in ToSet(new), x.item.np # None
          PROVE  \E y \in ToSet(sets) : y.key = x.key /\ y.item.np = x.item.np
      <3>1. CASE x = n
        BY <1>17, <1>20, <1>22, <2>2, <3>1
      <3>2. CASE x \in ToSet(lib)
        BY <2>2, <3>2 DEF SameSets
      <3> QED BY <1>21, <3>1, <3>2
    <2> QED BY <2>1, <2>2 DEF SameSets
  <1>24. MinutesOf(Values(new), plat) = MinutesOf(Values(lib), plat) + (IF p.plat = plat THEN p.time ELSE 0)
    <2>1. PICK was : was = TimeOn(minutes, plat) /\ was \in Nat
      BY <1>14, TimesAreNumbers
    <2>2. TimeOn(all, plat) = was + (IF p.plat = plat THEN p.time ELSE 0)
      BY <1>14, <1>15, <1>16, <2>1, TimeOfMore
    <2>3. TimeOn(<<>>, plat) = 0
      <3>1. <<>> \in Spans
        BY DEF Spans
      <3>2. PICK s : s = SpanTimes(<<>>, plat)
        OBVIOUS
      <3>3. s \in Seq(Nat) /\ Len(s) = 0 /\ TimeOn(<<>>, plat) = Total(s)
        BY <3>1, <3>2, TimesAreNumbers
      <3>4. \A i \in 1..Len(s) : s[i] = 0
        BY <3>3
      <3> QED BY <3>3, <3>4, TotalOfNothing
    <2>4. IF live = <<>> THEN was = 0 ELSE was = TimeOn(live[1].item.minutes, plat)
      BY <1>14, <2>1, <2>3
    <2>5. MinutesOf(Values(new), plat) + was = MinutesOf(Values(lib), plat) + TimeOn(item.minutes, plat)
      BY <1>6, <1>12, <1>17, <1>18, <2>1, <2>4, PutsMinutes
    <2>6. MinutesOf(Values(new), plat) \in Nat /\ MinutesOf(Values(lib), plat) \in Nat
      BY <1>11, <1>21, ItemTimesAreNumbers DEF Lists
    <2>7. PICK more \in Nat : more = IF p.plat = plat THEN p.time ELSE 0
      BY <1>7 DEF Play
    <2> QED BY <1>17, <2>1, <2>2, <2>5, <2>6, <2>7
  <1> QED BY <1>6, <1>21, <1>23, <1>24

\* However the feeds overlap and whatever order they come in, each trophy set has an item
\* of its own and no minute is lost or counted twice.
LEMMA FeedsAreMerged ==
    ASSUME NEW purchased \in Seq(Bought), NEW titles \in Seq(TrophySets), OneEach(titles), NEW played \in Seq(Plays)
    PROVE  NothingLost(purchased, titles, played)
  <1>1. PICK b : b = WithPurchases(purchased)[Len(purchased)] /\ PurchasesListed(b)
    BY PurchasesAreListed
  <1>2. PICK sets : sets = WithSets(b, titles)[Len(titles)] /\ SetsListed(sets, titles, Len(titles))
    BY <1>1, SetsAreListed
  <1>3. Len(titles) \in Nat /\ DOMAIN titles = 1..Len(titles) /\ \A i \in DOMAIN titles : titles[i] \in TrophySets
    BY ElementsOfSeq
  <1>4. ReadyForPlays(sets)
    <2>1. \A i \in 1..Len(titles) : titles[i].np \in SetIds
      BY <1>3 DEF SetIds
    <2> QED BY <1>2, <2>1 DEF SetsListed, ReadyForPlays
  <1>5. PICK demos : demos = DemoIds(purchased)
    OBVIOUS
  <1>6. Len(played) \in Nat /\ DOMAIN played = 1..Len(played) /\ \A i \in DOMAIN played : played[i] \in Plays
    BY ElementsOfSeq
  <1> DEFINE lib(n) == WithPlays(sets, played, demos)[n]
  <1>7. ASSUME NEW plat
        PROVE  /\ lib(Len(played)) \in Lists /\ SameSets(lib(Len(played)), sets)
               /\ MinutesOf(Values(lib(Len(played))), plat) = Total(Recorded(played, demos, plat))
    <2>1. PICK recorded : recorded = Recorded(played, demos, plat)
      OBVIOUS
    <2>2. recorded \in Seq(Nat) /\ Len(recorded) = Len(played)
      <3>1. \A i \in 1..Len(played) : played[i].time \in Nat
        BY <1>6, FeedsAreFeeds DEF Play
      <3>2. recorded = [i \in 1..Len(played) |-> recorded[i]] /\ \A i \in 1..Len(played) : recorded[i] \in Nat
        BY <1>6, <2>1, <3>1 DEF Recorded
      <3> QED BY <1>6, <3>2
    <2> DEFINE Right(n) == /\ lib(n) \in Lists /\ SameSets(lib(n), sets)
                           /\ MinutesOf(Values(lib(n)), plat) = Sums(recorded)[n]
               Good     == {n \in Nat : n <= Len(played) => Right(n)}
    <2>3. 0 \in Good
      <3>1. lib(0) = sets
        BY <1>6, PlaysInTurn
      <3>2. SameSets(sets, sets) /\ sets \in Lists
        BY <1>4 DEF SameSets, ReadyForPlays
      <3>3. MinutesOf(Values(sets), plat) = 0
        <4>1. PICK s : s = ItemTimes(sets, plat)
          OBVIOUS
        <4>2. sets \in Seq(Listing) /\ \A i \in DOMAIN sets : sets[i] \in ToSet(sets)
          BY <3>2 DEF Lists, ToSet
        <4>3. s \in Seq(Nat) /\ Len(s) = Len(sets) /\ MinutesOf(Values(sets), plat) = Total(s)
          BY <4>1, <4>2, ItemTimesAreNumbers
        <4>4. TimeOn(<<>>, plat) = 0
          <5>1. <<>> \in Spans
            BY DEF Spans
          <5>2. PICK m : m = SpanTimes(<<>>, plat)
            OBVIOUS
          <5>3. m \in Seq(Nat) /\ Len(m) = 0 /\ TimeOn(<<>>, plat) = Total(m)
            BY <5>1, <5>2, TimesAreNumbers
          <5>4. \A i \in 1..Len(m) : m[i] = 0
            BY <5>3
          <5> QED BY <5>3, <5>4, TotalOfNothing
        <4>5. \A i \in 1..Len(s) : s[i] = 0
          <5>1. DOMAIN sets = 1..Len(sets)
            BY <4>2, ElementsOfSeq
          <5>2. \A i \in DOMAIN sets : sets[i].item.minutes = <<>>
            BY <1>4, <4>2 DEF ReadyForPlays
          <5> QED BY <4>1, <4>3, <4>4, <5>1, <5>2 DEF ItemTimes
        <4> QED BY <4>3, <4>5, TotalOfNothing
      <3>4. Sums(recorded)[0] = 0
        BY <1>6, <2>2, SummedInTurn
      <3>5. Right(0)
        <4> HIDE DEF lib
        <4> QED BY <3>1, <3>2, <3>3, <3>4
      <3> HIDE DEF Right
      <3> QED BY <3>5
    <2>4. ASSUME NEW n \in Nat, n \in Good PROVE n + 1 \in Good
      <3> SUFFICES ASSUME n + 1 <= Len(played) PROVE Right(n + 1)
        OBVIOUS
      <3>1. n + 1 \in 1..Len(played) /\ (n + 1) - 1 = n /\ Right(n) /\ played[n + 1] \in Plays
        <4> HIDE DEF Right
        <4> QED BY <1>6, <2>4
      <3>2. lib(n + 1) = IF played[n + 1].title \in demos THEN lib(n) ELSE AddPlay(Values(sets), lib(n), played[n + 1])
        BY <1>6, <3>1, PlaysInTurn
      <3>3. Sums(recorded)[n + 1] = Sums(recorded)[n] + recorded[n + 1]
        BY <1>6, <2>2, <3>1, SummedInTurn
      <3>4. PICK p, L, M : p = played[n + 1] /\ L = lib(n) /\ M = lib(n + 1)
        OBVIOUS
      <3>5. recorded[n + 1] = IF p.title \notin demos /\ p.plat = plat THEN p.time ELSE 0
        BY <1>6, <2>1, <3>1, <3>4 DEF Recorded
      <3>6. L \in Lists /\ SameSets(L, sets) /\ MinutesOf(Values(L), plat) = Sums(recorded)[n] /\ p \in Plays
        BY <3>1, <3>4
      <3>7. Sums(recorded)[n] \in Nat
        BY <1>6, <2>2, <3>1, SumsAreNumbers
      <3> HIDE DEF lib
      <3>8. CASE p.title \in demos
        <4>1. M = L /\ recorded[n + 1] = 0
          BY <3>2, <3>4, <3>5, <3>8
        <4> QED BY <3>3, <3>4, <3>6, <3>7, <4>1
      <3>9. CASE p.title \notin demos
        <4>1. M = AddPlay(Values(sets), L, p)
          BY <3>2, <3>4, <3>9
        <4>2. M \in Lists /\ SameSets(M, sets)
              /\ MinutesOf(Values(M), plat) = MinutesOf(Values(L), plat) + (IF p.plat = plat THEN p.time ELSE 0)
          BY <1>4, <3>6, <4>1, JoinsPlay
        <4>3. recorded[n + 1] = IF p.plat = plat THEN p.time ELSE 0
          BY <3>5, <3>9
        <4> QED BY <3>3, <3>4, <3>6, <4>2, <4>3
      <3> QED BY <3>8, <3>9
    <2>5. Nat \subseteq Good
      <3> HIDE DEF Good
      <3> QED BY <2>3, <2>4, SetInduction
    <2>6. Right(Len(played))
      <3> HIDE DEF Right
      <3> QED BY <1>6, <2>5
    <2> QED BY <2>1, <2>2, <2>6 DEF Total
  <1>8. PICK L : L = lib(Len(played))
    OBVIOUS
  <1>9. MergeLibrary(purchased, titles, played) = Values(L)
    BY <1>1, <1>2, <1>5, <1>8 DEF MergeLibrary
  <1> HIDE DEF lib
  <1>10. L \in Lists /\ SameSets(L, sets) /\ \A plat : MinutesOf(Values(L), plat) = Total(Recorded(played, demos, plat))
    BY <1>7, <1>8
  <1>11. DOMAIN Values(L) = DOMAIN L /\ \A i \in DOMAIN L : Values(L)[i] = L[i].item /\ L[i] \in ToSet(L)
    BY <1>10, ItemsOfList
  <1>12. ASSUME NEW i \in DOMAIN titles
         PROVE  \E j \in DOMAIN L : /\ L[j].item.np = titles[i].np
                                    /\ titles[i].plats # {} => L[j].item.plats = titles[i].plats
                                    /\ \A k \in DOMAIN L : L[k].item.np = titles[i].np => k = j
    <2>1. PICK y \in ToSet(sets) : /\ y.item.np = titles[i].np
                                   /\ titles[i].plats # {} => y.item.plats = titles[i].plats
                                   /\ \A z \in ToSet(sets) : z.item.np = titles[i].np => z = y
      BY <1>2, <1>3 DEF SetsListed, HasSet
    <2>2. titles[i].np # None
      BY <1>3, FeedsAreFeeds DEF SetIds
    <2>3. PICK x \in ToSet(L) : x.key = y.key /\ x.item.np = y.item.np /\ x.item.plats = y.item.plats
      BY <1>10, <2>1, <2>2 DEF SameSets
    <2>4. PICK j \in DOMAIN L : x = L[j]
      BY DEF ToSet
    <2>5. ASSUME NEW k \in DOMAIN L, L[k].item.np = titles[i].np PROVE k = j
      <3>1. PICK z \in ToSet(sets) : z.key = L[k].key /\ z.item.np = L[k].item.np
        BY <1>10, <1>11, <2>2, <2>5 DEF SameSets
      <3>2. z = y
        BY <2>1, <2>5, <3>1
      <3> QED BY <1>10, <2>3, <2>4, <3>1, <3>2 DEF Lists
    <2> QED BY <2>1, <2>3, <2>4, <2>5
  <1>13. PICK items : items = MergeLibrary(purchased, titles, played) /\ items = Values(L)
    BY <1>9
  <1>14. \A i \in DOMAIN titles : \E j \in DOMAIN items :
            /\ items[j].np = titles[i].np
            /\ titles[i].plats # {} => items[j].plats = titles[i].plats
            /\ \A k \in DOMAIN items : items[k].np = titles[i].np => k = j
    BY <1>11, <1>12, <1>13
  <1>15. \A plat : MinutesOf(items, plat) = Total(Recorded(played, DemoIds(purchased), plat))
    BY <1>5, <1>10, <1>13
  <1> QED BY <1>13, <1>14, <1>15 DEF NothingLost

-----------------------------------------------------------------------------
(* The theorems *)

\* What a behaviour picks is an input of its subject.
PickedIsInput ==
    input # <<>> =>
        /\ subject = "feeds" => \E p \in Seq(Bought), t \in Seq(TrophySets), y \in Seq(Plays) :
                                    OneEach(t) /\ input = <<p, t, y>>
        /\ subject = "queue" => \E q \in Queues : input = <<q>>
        /\ subject = "name" => \E n \in Names, h \in Seq(Hit), earned \in Nat : input = <<n, h, earned>>
        /\ subject = "title" => \E L \in SUBSET Entries, t \in Titles : input = <<L, t>>
        /\ subject = "sheet" => \E rows \in Seq(SheetRows), tab \in Tabs : \E n \in 0..Len(rows) : \E m \in 0..n :
                                    input = <<rows, tab, m, n>>

LEMMA UpToIsSeq ==
    ASSUME NEW S, NEW n \in Nat, NEW s \in UpTo(S, n)
    PROVE  s \in Seq(S)
  <1>1. PICK k \in 0..n : s \in [1..k -> S]
    BY DEF UpTo
  <1> QED BY <1>1

LEMMA PicksInputs == Spec => []PickedIsInput
  <1>1. Init => PickedIsInput
    BY DEF Init, PickedIsInput
  <1>2. ASSUME PickedIsInput, [Next]_vars PROVE PickedIsInput'
    <2>1. CASE UNCHANGED vars
      BY <1>2, <2>1 DEF PickedIsInput, vars
    <2>2. CASE subject = "feeds" /\ UNCHANGED subject /\ PickFeeds
      <3>1. PICK p \in UpTo(Bought, MaxFeed), t \in UpTo(TrophySets, MaxFeed), y \in UpTo(Plays, MaxFeed) :
              OneEach(t) /\ input' = <<p, t, y>>
        BY <2>2 DEF PickFeeds
      <3>2. p \in Seq(Bought) /\ t \in Seq(TrophySets) /\ y \in Seq(Plays)
        BY UpToIsSeq, BoundsAreNumbers
      <3> QED BY <2>2, <3>1, <3>2 DEF PickedIsInput
    <2>3. CASE subject = "queue" /\ UNCHANGED subject /\ PickQueue
      BY <2>3 DEF PickedIsInput, PickQueue
    <2>4. CASE subject = "name" /\ UNCHANGED subject /\ PickName
      <3>1. PICK n \in Names, h \in UpTo(Hits, MaxHits), earned \in Days : input' = <<n, h, earned>>
        BY <2>4 DEF PickName
      <3>2. h \in Seq(Hit) /\ earned \in Nat
        <4>1. h \in Seq(Hits)
          BY UpToIsSeq, BoundsAreNumbers
        <4> QED BY <4>1, HitsAreHits
      <3> QED BY <2>4, <3>1, <3>2 DEF PickedIsInput
    <2>5. CASE subject = "title" /\ UNCHANGED subject /\ PickTitle
      BY <2>5 DEF PickedIsInput, PickTitle
    <2>6. CASE subject = "sheet" /\ UNCHANGED subject /\ PickSheet
      <3>1. PICK rows \in UpTo(SheetRows, MaxRows), tab \in Tabs :
              \E n \in 0..Len(rows) : \E m \in 0..n : input' = <<rows, tab, m, n>>
        BY <2>6 DEF PickSheet
      <3>2. rows \in Seq(SheetRows)
        BY UpToIsSeq, BoundsAreNumbers
      <3> QED BY <2>6, <3>1, <3>2 DEF PickedIsInput
    <2> QED BY <1>2, <2>1, <2>2, <2>3, <2>4, <2>5, <2>6 DEF Next
  <1> QED BY <1>1, <1>2, PTL DEF Spec

\* The merge of the feeds of an account gives each trophy set an item of its own and loses
\* no minute, whatever the feeds list and in whatever order (psn.py:577-763).
THEOREM FeedsLoseNothing == Spec => []MergeLosesNothing
  <1>1. PickedIsInput => MergeLosesNothing
    <2> SUFFICES ASSUME PickedIsInput, Picked("feeds") PROVE NothingLost(input[1], input[2], input[3])
      BY DEF MergeLosesNothing
    <2>1. PICK p \in Seq(Bought), t \in Seq(TrophySets), y \in Seq(Plays) : OneEach(t) /\ input = <<p, t, y>>
      BY DEF PickedIsInput, Picked
    <2>2. NothingLost(p, t, y)
      BY <2>1, FeedsAreMerged
    <2> QED BY <2>1, <2>2
  <1> QED BY <1>1, PicksInputs, PTL

\* The review page asks about each record once, splits a game only where its sets contest a
\* platform, a full confirmation gives each set an entry, and the rows of one game claim no
\* platform twice, whatever is in the queue (psn.py:2284-2411, 2596-2973).
THEOREM OneQuestionAGame == Spec => []OneRowPerGame
  <1>1. PickedIsInput => OneRowPerGame
    <2> SUFFICES ASSUME PickedIsInput, Picked("queue")
                 PROVE  OneQuestionPerGame(input[1]) /\ NoneTickedTwice(input[1])
      BY DEF OneRowPerGame
    <2>1. PICK q \in Queues : input = <<q>> /\ Records(q)
      BY RecordsNumbered DEF PickedIsInput, Picked, Records
    <2>2. OneQuestionPerGame(q)
      BY <2>1, QuestionsAreRight
    <2>3. NoneTickedTwice(q)
      BY <2>1, NoneIsTickedTwice
    <2> QED BY <2>1, <2>2, <2>3
  <1> QED BY <1>1, PicksInputs, PTL

\* The name proposed for a trophy set does not depend on the order of IGDB's hits
\* (psn.py:3692-3867).
THEOREM NamesByRules == Spec => []NameByRules
  <1>1. PickedIsInput => NameByRules
    <2> SUFFICES ASSUME PickedIsInput, Picked("name") PROVE RankingIsNotIdentity(input[1], input[2], input[3])
      BY DEF NameByRules
    <2>1. PICK n \in Names, h \in Seq(Hit), earned \in Nat : input = <<n, h, earned>>
      BY DEF PickedIsInput, Picked
    <2>2. RankingIsNotIdentity(n, h, earned)
      BY RankingDoesNotMatter
    <2> QED BY <2>1, <2>2
  <1> QED BY <1>1, PicksInputs, PTL

\* No title of a sheet is taken for another number of its series, in any library
\* (importer.py:423-813).
THEOREM SequelsStayApart == Spec => []SequelsApart
  <1>1. PickedIsInput => SequelsApart
    <2> SUFFICES ASSUME PickedIsInput, Picked("title") PROVE NeverASequel(input[1], input[2])
      BY DEF SequelsApart
    <2>1. PICK L \in SUBSET Entries, t \in Titles : input = <<L, t>>
      BY DEF PickedIsInput, Picked
    <2>2. \A e \in L : e.id \in Nat
      BY EntriesNumbered
    <2>3. NeverASequel(L, t)
      BY <2>2, NoSequelIsFound
    <2> QED BY <2>1, <2>3
  <1> QED BY <1>1, PicksInputs, PTL

\* Each completion of a sheet is proposed exactly once, however the sheet grows
\* (importer.py:998-1104, 1292-1392).
THEOREM CompletionsProposedOnce == Spec => []EachProposedOnce
  <1>1. PickedIsInput => EachProposedOnce
    <2> SUFFICES ASSUME PickedIsInput, Picked("sheet") PROVE ProposedOnce(input[1], input[2], input[3], input[4])
      BY DEF EachProposedOnce
    <2>1. PICK rows \in Seq(SheetRows), tab \in Tabs :
            \E n \in 0..Len(rows) : \E m \in 0..n : input = <<rows, tab, m, n>>
      BY DEF PickedIsInput, Picked
    <2>2. PICK n \in 0..Len(rows) : \E m \in 0..n : input = <<rows, tab, m, n>>
      BY <2>1
    <2>3. PICK m \in 0..n : input = <<rows, tab, m, n>>
      BY <2>2
    <2>4. ProposedOnce(rows, tab, m, n)
      BY SheetProposedOnce
    <2> QED BY <2>3, <2>4
  <1> QED BY <1>1, PicksInputs, PTL
================================================================================
