---------------------------- MODULE MCImportReview ----------------------------
(* TLC instances of ImportReview. *)
EXTENDS ImportReview, TLC

Line(d, p, t) == [date |-> d, pos |-> p, text |-> t, link |-> 0]
Group(title, platform, rows) == [title |-> title, platform |-> platform, rows |-> rows]

CONSTANTS d1, text

\* Two titles of one game, on rows with one date and one position: two sheets of
\* a file, each counting its rows from 1.
FirstRow == Line(d1, 1, text)
OneRow   == Group("Okami", TRUE, <<FirstRow>>)
Variant  == Group("Okami HD", TRUE, <<FirstRow>>)

Single  == {OneRow}
Both    == {OneRow, Variant}
First   == {1}

\* Ids of candidates, entries and requests are interchangeable.
Symmetry == Permutations(Candidates) \cup Permutations(Entries) \cup Permutations(Requests)
=============================================================================
