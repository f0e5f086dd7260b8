------------------------------- MODULE ImportRules -------------------------------
(***************************************************************************)
(* The rules of backend/importer.py: which library entry a title of the    *)
(* sheet means (_best_matching_entry and its passes), what a date cell     *)
(* says (_parse_date), and what an upload proposes of rows that earlier    *)
(* uploads had (_parse_sheet, _dedup_group_rows, write_candidates).        *)
(*                                                                         *)
(* A title is a sequence of words, ":" among them before a subtitle.  The  *)
(* library is searched by raw words and compared by folded ones.           *)
(***************************************************************************)
EXTENDS Integers, Sequences, FiniteSets, SequencesExt

CONSTANTS Folded,   \* raw word -> what normalize_for_match makes of it
          Longer,   \* folded word -> raw words that begin with it, itself among them if raw
          Numerals, \* folded words that _NUMERAL_RE matches
          Twins,    \* pairs <<letter, number it may mean>>
          Typos     \* sets of two folded words one slip apart

\* _SINGLE_NUMERAL_EQUIV: a letter stands for one number, and no number is a letter.
ASSUME TwinsAreNumbers ==
    /\ Twins \subseteq Numerals \X Numerals
    /\ \A p, q \in Twins : (p[1] = q[1] => p = q) /\ p[1] # q[2]

NoEntry == [id |-> 0, title |-> <<>>, parent |-> 0, dlc |-> FALSE, here |-> FALSE]

\* normalize_for_match
Words(t) == SelectSeq(t, LAMBDA w : w # ":")
Fold(t)  == LET ws == Words(t) IN [i \in DOMAIN ws |-> Folded[ws[i]]]
NumbersOf(t) == ToSet(Fold(t)) \cap Numerals

\* _colon_prefix, _colon_remainder
Colon(t)     == SelectInSeq(t, LAMBDA w : w = ":")
Prefix(t)    == IF Colon(t) > 1 THEN SubSeq(t, 1, Colon(t) - 1) ELSE <<>>
Remainder(t) == IF Colon(t) > 1 THEN SubSeq(t, Colon(t) + 1, Len(t)) ELSE <<>>

First(S) == IF S = {} THEN NoEntry ELSE CHOOSE e \in S : \A f \in S : e.id <= f.id

\* A run of words inside another, as text: its last word may be the start of a longer one.
RunIn(run, ws, Starts(_, _)) ==
    run # <<>> /\ \E k \in 0..(Len(ws) - Len(run)) :
        \A i \in DOMAIN run : IF i < Len(run) THEN run[i] = ws[k + i] ELSE Starts(run[i], ws[k + i])

StartsRaw(w, v)  == w = v \/ (w \in DOMAIN Longer /\ v \in Longer[w])
Holds(remainder, t) == RunIn(Fold(remainder), Fold(t), StartsRaw)

\* _search_pool: every folded word inside the raw title, else the phrase as it is.
Base(e) == e.parent = 0 /\ ~e.dlc
Spelled(e, w) == \E i \in DOMAIN e.title : StartsRaw(w, e.title[i])
Pool(lib, phrase, folded) ==
    LET byWords == {e \in lib : \A i \in DOMAIN folded : Spelled(e, folded[i])}
    IN  IF folded = <<>> THEN {}
        ELSE IF byWords # {} THEN byWords
        ELSE {e \in lib : RunIn(phrase, e.title, StartsRaw)}
Search(lib, t) == Pool(lib, t, Fold(t))

\* _widened_pool: with nothing found, the same without each word in turn.
Widened(lib, t) ==
    LET ws == Fold(t)
    IN  IF Search(lib, t) # {} \/ Len(ws) \notin 2..8 THEN Search(lib, t)
        ELSE UNION {Pool(lib, RemoveAt(ws, i), RemoveAt(ws, i)) : i \in DOMAIN ws}

-----------------------------------------------------------------------------
(* The passes, over the entries of the row's platform *)

Equal(lib, phrase, folded) == First({e \in Pool(lib, phrase, folded) : Fold(e.title) = folded})
Exact(lib, t) == Equal(lib, t, Fold(t))

\* _single_numeral_variant_entry: the first word with a twin that finds an entry.
Variant(lib, t) ==
    LET ws       == Fold(t)
        twins(w) == {p[2] : p \in {q \in Twins : q[1] = w}} \cup {p[1] : p \in {q \in Twins : q[2] = w}}
        found(i) == {Equal(lib, v, v) : v \in {[ws EXCEPT ![i] = w] : w \in twins(ws[i])}} \ {NoEntry}
        hits     == {i \in DOMAIN ws : found(i) # {}}
    IN  First(UNION {found(i) : i \in {h \in hits : \A j \in hits : h <= j}})

\* _fuzzy_match_entry: one word one slip apart, the same numbers, and nothing else close.
\* Titles of one word are taken as too short.
Close(ws, vs) ==
    /\ Len(ws) = Len(vs)
    /\ \/ ws = vs
       \/ \E i \in DOMAIN ws : /\ {ws[i], vs[i]} \in Typos
                               /\ \A j \in DOMAIN ws \ {i} : ws[j] = vs[j]
Fuzzy(lib, t) ==
    LET near == {e \in Widened(lib, t) : NumbersOf(e.title) = NumbersOf(t) /\ Close(Fold(t), Fold(e.title))}
    IN  IF Len(Fold(t)) >= 2 /\ Cardinality(near) = 1 THEN First(near) ELSE NoEntry

\* _strip_prefix_tokens
Rest(t, prefix) ==
    IF Len(Fold(t)) > Len(Fold(prefix)) /\ prefix # <<>> /\ IsPrefix(Fold(prefix), Fold(t))
    THEN SubSeq(Fold(t), Len(Fold(prefix)) + 1, Len(Fold(t))) ELSE Fold(Remainder(t))

\* _prefix_match_entry: the base game that holds the whole title, else its content.
ByPrefix(lib, t) ==
    LET held == {e \in Search({x \in lib : Base(x)}, Prefix(t)) : Holds(Prefix(t), e.title)}
        whole == {e \in held : Remainder(t) = <<>> \/ Holds(Remainder(t), e.title)}
        parts(e) == {c \in lib : c.parent = e.id /\ RunIn(Rest(t, e.title), Fold(c.title), StartsRaw)}
        owners == {e \in held : parts(e) # {}}
    IN  IF Prefix(t) = <<>> THEN NoEntry
        ELSE IF whole # {} THEN First(whole)
        ELSE IF owners # {} THEN First(parts(First(owners)))
        ELSE NoEntry

\* _library_prefix_match_entry
ByLibraryPrefix(lib, t) ==
    First({e \in Search({x \in lib : Base(x)}, t) : Prefix(e.title) # <<>> /\ Fold(Prefix(e.title)) = Fold(t)})

\* _pool_fallback_entry: the title and at most one word more, the fewest and only once;
\* else the one entry the phrase finds, if the title is its and at most one word more.
OneMore(ws, vs) == IsPrefix(ws, vs) /\ Len(vs) - Len(ws) \in {0, 1}
\* Mutant: a sequel is one word more.
ByPoolAnyNumber(lib, t) ==
    LET phrase == IF Prefix(t) # <<>> THEN Prefix(t) ELSE t
        more   == {e \in Widened({x \in lib : Base(x)}, phrase) : OneMore(Fold(t), Fold(e.title))}
        fewest == {e \in more : \A f \in more : Len(Fold(e.title)) <= Len(Fold(f.title))}
    IN  IF Cardinality(fewest) = 1 THEN First(fewest) ELSE NoEntry

ByPool(lib, t) ==
    LET phrase == IF Prefix(t) # <<>> THEN Prefix(t) ELSE t
        base   == {e \in lib : Base(e)}
        more   == {e \in Widened(base, phrase) :
                      NumbersOf(e.title) = NumbersOf(t) /\ OneMore(Fold(t), Fold(e.title))}
        fewest == {e \in more : \A f \in more : Len(Fold(e.title)) <= Len(Fold(f.title))}
        only   == {e \in Search(base, phrase) :
                      NumbersOf(e.title) = NumbersOf(t) /\ OneMore(Fold(e.title), Fold(t))}
    IN  IF more # {} THEN IF Cardinality(fewest) = 1 THEN First(fewest) ELSE NoEntry
        ELSE IF Cardinality(Search(base, phrase)) = 1 THEN First(only) ELSE NoEntry

\* _collection_match_entry, on every platform.
ByCollection(lib, t, collection) ==
    LET holder == First({e \in Search({x \in lib : Base(x)}, collection) : Holds(collection, e.title)})
        target == IF Remainder(t) # <<>> THEN Remainder(t) ELSE t
    IN  IF collection = <<>> \/ holder = NoEntry THEN NoEntry
        ELSE First({c \in lib : c.parent = holder.id /\ (Holds(target, c.title) \/ Fold(c.title) = Fold(t))})

\* _best_matching_entry
BestMatch(library, t, collection) ==
    LET lib    == {e \in library : e.here}
        passes == <<Exact(lib, t), Variant(lib, t), Fuzzy(lib, t), ByPrefix(lib, t),
                    ByLibraryPrefix(lib, t), ByPool(lib, t), ByCollection(library, t, collection)>>
        hits   == {i \in DOMAIN passes : passes[i] # NoEntry}
    IN  IF hits = {} THEN NoEntry ELSE passes[CHOOSE i \in hits : \A j \in hits : i <= j]

\* "Two titles whose numeral tokens differ are different games no matter how similar the
\* rest looks" (importer.py:181): no pass takes a sheet's title for a sequel, whatever
\* else the library holds.  A letter may stand for its number, and a subtitle in the
\* library brings numbers of its own.
Value(w) == IF \E p \in Twins : p[1] = w THEN (CHOOSE p \in Twins : p[1] = w)[2] ELSE w
NumberValues(t) == {Value(w) : w \in NumbersOf(t)}
NeverASequel(library, t) ==
    LET e == BestMatch(library, t, <<>>)
    IN  e # NoEntry /\ Prefix(t) = <<>> =>
            \/ NumberValues(t) = NumberValues(e.title)
            \/ Prefix(e.title) # <<>> /\ NumberValues(t) = NumberValues(Prefix(e.title))

-----------------------------------------------------------------------------
(* Sheets.  A row: its title, platform, date cell, and what else tells completions   *)
(* apart.  A date cell has what was typed of year, month and day, 0 for the rest.     *)

\* _parse_date, with the year of the tab or 0: the date, and how much of it is known.  A
\* day without a year is not read.
ParseDate(cell, tab) ==
    LET year == IF cell.year # 0 THEN cell.year ELSE tab
        full == [year |-> year, month |-> IF cell.month = 0 THEN 1 ELSE cell.month,
                 day |-> IF cell.day = 0 THEN 1 ELSE cell.day]
    IN  IF year = 0 \/ (cell.day # 0 /\ cell.year = 0) THEN [date |-> <<>>, known |-> "nothing"]
        ELSE [date |-> <<full>>,
              known |-> CASE cell.day # 0 -> "day" [] cell.day = 0 /\ cell.month # 0 -> "month" [] OTHER -> "year"]

\* inspect_upload asks for a year where some row cannot supply one.
NeedsYear(rows) == \E i \in DOMAIN rows : ParseDate(rows[i].cell, 0).date = <<>>

\* _parse_sheet and _dedup_group_rows: the rows of one title on one platform are a group
\* under the title of the first; of rows with the same key one stays.
Key(row, tab) == [date |-> ParseDate(row.cell, tab).date, rest |-> row.rest]
SameGroup(a, b) == Fold(a.title) = Fold(b.title) /\ a.plat = b.plat
Leaders(rows) == {i \in DOMAIN rows : \A j \in 1..(i - 1) : ~SameGroup(rows[i], rows[j])}
ParseSheet(rows, tab) ==
    {[title |-> rows[i].title, plat |-> rows[i].plat,
      keys  |-> {Key(rows[j], tab) : j \in {k \in DOMAIN rows : SameGroup(rows[k], rows[i])}}] : i \in Leaders(rows)}

\* Mutant: only one of the confirmed candidates is looked at.
WriteFirst(groups, table) ==
    LET mine(g, status) == {c \in table : c.title = g.title /\ c.plat = g.plat /\ c.status = status}
        new(g) == g.keys \ (IF mine(g, "confirmed") = {} THEN {} ELSE (CHOOSE c \in mine(g, "confirmed") : TRUE).keys)
    IN  {[title |-> g.title, plat |-> g.plat, keys |-> new(g), status |-> "pending"] :
            g \in {h \in groups : mine(h, "pending") = {} /\ new(h) # {}}}

\* write_candidates.  A group whose title is pending is skipped; of the others the rows
\* are left out that were confirmed under the title.
Write(groups, table) ==
    LET mine(g, status) == {c \in table : c.title = g.title /\ c.plat = g.plat /\ c.status = status}
        new(g) == g.keys \ UNION {c.keys : c \in mine(g, "confirmed")}
    IN  {[title |-> g.title, plat |-> g.plat, keys |-> new(g), status |-> "pending"] :
            g \in {h \in groups : mine(h, "pending") = {} /\ new(h) # {}}}

Confirmed(table) == {[c EXCEPT !.status = "confirmed"] : c \in table}

\* A sheet that grows: its first rows imported and confirmed, then some more of them, then
\* all.  "Multiple confirmed candidates can accumulate for the same title across separate
\* uploads" (importer.py:1325): each completion is proposed once and only once, though the
\* title is spelled in two ways and a date is typed in two, and the last time the tab is
\* given no year, if none is asked for.
ProposedOnce(rows, tab, m, n) ==
    LET upto(k) == ParseSheet(SubSeq(rows, 1, k), tab)
        all     == ParseSheet(rows, IF NeedsYear(rows) THEN tab ELSE 0)
        one     == Write(upto(m), {})
        two     == Write(upto(n), Confirmed(one))
        three   == Write(all, Confirmed(one \cup two))
        keys(S, i) == {c \in S : Fold(c.title) = Fold(rows[i].title) /\ c.plat = rows[i].plat
                                 /\ Key(rows[i], tab) \in c.keys}
    IN  \A i \in DOMAIN rows : Cardinality(keys(one, i)) + Cardinality(keys(two, i)) + Cardinality(keys(three, i)) = 1
=============================================================================
