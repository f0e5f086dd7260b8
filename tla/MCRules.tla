-------------------------------- MODULE MCRules --------------------------------
(* Small inputs for the rules, chosen so that each rule has something to decide.       *)
EXTENDS Rules

\* Sony's feeds: copies of games "a" and "b" under the ids of PS4 and PS5, one without an
\* id of its own and one a demo; sets of "a" on one platform or two; play records.
Copy4    == [title |-> "c4", product |-> "p4", name |-> "a", plats |-> {"ps4"}, demo |-> FALSE]
Copy5    == [title |-> "c5", product |-> "p5", name |-> "a", plats |-> {"ps5"}, demo |-> FALSE]
OldCopy  == [title |-> "", product |-> "p3", name |-> "a", plats |-> {}, demo |-> FALSE]
DemoCopy == [title |-> "c4", product |-> "d4", name |-> "b", plats |-> {"ps4"}, demo |-> TRUE]
Set4     == [np |-> "n4", name |-> "a", plats |-> {"ps4"}]
Set45    == [np |-> "n45", name |-> "a", plats |-> {"ps4", "ps5"}]
SetB     == [np |-> "nb", name |-> "b", plats |-> {"ps5"}]
Play4    == [title |-> "c4", name |-> "a", plat |-> "ps4", concept |-> <<"c4", "c5">>, time |-> 2]
Play5    == [title |-> "c5", name |-> "a", plat |-> "ps5", concept |-> <<"c4", "c5">>, time |-> 3]
PlayX    == [title |-> "c6", name |-> "a", plat |-> "ps5", concept |-> <<"c4", "c5">>, time |-> 5]
PlayB    == [title |-> "c7", name |-> "b", plat |-> "ps5", concept |-> <<>>, time |-> 7]
SomeBought == {Copy4, Copy5, OldCopy, DemoCopy}
SomeSets   == {Set4, Set45, SetB}
SomePlays  == {Play4, Play5, PlayX, PlayB}

\* Review records: with a set of one or two platforms or none, resolved or not.
Candidate(id, np, plats, bought, igdb, name) ==
    [id |-> id, np |-> np, plats |-> plats, bought |-> bought, igdb |-> igdb, name |-> name,
     rejected |-> FALSE, sources |-> {"purchased"}, shipped |-> {}, played |-> plats, joined |-> TRUE,
     apart |-> FALSE, chosen |-> {}]
Candidates(id) ==
    {Candidate(id, np, plats, "", igdb, name) :
        np \in {"n1", "n2"}, plats \in {{"ps4"}, {"ps5"}, {"ps4", "ps5"}}, igdb \in {0, 1}, name \in {"", "a"}}
    \cup {Candidate(id, "", {"ps4"}, "ps4", igdb, name) : igdb \in {0, 1}, name \in {"", "a"}}

\* Matched to a game of PS5 alone, sold apart, or with its proposal refused.
Narrowed == {[c EXCEPT !.shipped = {"ps5"}] : c \in {x \in Candidates(3) : x.igdb = 1}}
Apart    == {[c EXCEPT !.apart = TRUE] : c \in {x \in Candidates(2) : x.name = "a"}}
Refused  == {[c EXCEPT !.rejected = TRUE] : c \in {x \in Candidates(2) : x.igdb = 1}}
SomeQueues ==
    {{a, b, c} : a \in Candidates(1), b \in Candidates(2) \cup Apart \cup Refused, c \in Candidates(3) \cup Narrowed}

\* What IGDB may answer about "god war".
War    == <<"god", "war">>
MadeHit(name, kind, released, parent) ==
    [name |-> name, kind |-> kind, released |-> released, shared |-> TRUE, parent |-> parent]
HitWar      == MadeHit(War, "main", 1, <<>>)
HitWarPort  == MadeHit(War, "remaster", 1, <<>>)
HitWarLate  == MadeHit(<<"god", "war", "ascension">>, "main", 3, <<>>)
HitWarSpin  == MadeHit(<<"god", "war", "betrayal", "mobile">>, "main", 1, <<>>)
HitWarTwo   == MadeHit(<<"god", "war", "2">>, "main", 1, <<>>)
HitWarBox   == MadeHit(<<"god", "war", "gold">>, "bundle", 1, <<"god", "war", "saga">>)
HitWarDlc   == MadeHit(<<"god", "war", "skins">>, "dlc", 1, <<>>)
SomeHits == {HitWar, HitWarPort, HitWarLate, HitWarSpin, HitWarTwo, HitWarBox, HitWarDlc}
SomeNames == {War}

\* The sheet's words: a number spelled in two ways, a word that begins another, a typo.
Vocabulary == {"golden", "goldn", "axe", "axes", "revenge", "x"}
Fold1  == [w \in Vocabulary \cup {"2", "ii", "10"} |-> IF w = "ii" THEN "2" ELSE w]
Begin1 == [w \in {"axe"} |-> {"axe", "axes"}]
Twin1  == {<<"x", "10">>}
Typo1  == {{"golden", "goldn"}}
Entry(id, title, parent, dlc, here) == [id |-> id, title |-> title, parent |-> parent, dlc |-> dlc, here |-> here]
Axe        == Entry(1, <<"golden", "axe">>, 0, FALSE, TRUE)
AxeTwo     == Entry(2, <<"golden", "axe", "ii">>, 0, FALSE, TRUE)
AxeTwoMore == Entry(3, <<"golden", "axe", "2", "revenge">>, 0, FALSE, TRUE)
AxeSub     == Entry(4, <<"golden", "axe", ":", "revenge">>, 0, FALSE, TRUE)
AxePart    == Entry(5, <<"golden", "axe", "revenge", "2">>, 1, TRUE, TRUE)
AxesTen    == Entry(6, <<"golden", "axes", "10">>, 0, FALSE, TRUE)
AxeTen     == Entry(7, <<"axe", "x">>, 0, FALSE, TRUE)
Elsewhere  == Entry(8, <<"axe", "10", ":", "golden">>, 0, FALSE, FALSE)
AxeTypo    == Entry(9, <<"goldn", "axe">>, 0, FALSE, TRUE)
SomeEntries == {Axe, AxeTwo, AxeTwoMore, AxeSub, AxePart, AxesTen, AxeTen, Elsewhere, AxeTypo}
SomeTitles == UNION {[1..k -> {"golden", "axe", "axes", "2", "10", "x"}] : k \in 1..3}
              \cup {<<"golden", "axe", ":", "revenge">>, <<"golden", "axe", ":", "revenge", "2">>,
                    <<"golden", "axe", "ii">>, <<"golden", "axe", "revenge">>}

\* Rows of a sheet whose tab says year 7.
Cell(y, m, d) == [year |-> y, month |-> m, day |-> d]
Cells == {Cell(0, 0, 0), Cell(0, 1, 0), Cell(7, 1, 1), Cell(6, 0, 0)}
SomeRows == [title : {<<"axe", "2">>, <<"axe", "ii">>}, plat : {1}, cell : Cells, rest : {0, 1}]
=============================================================================
