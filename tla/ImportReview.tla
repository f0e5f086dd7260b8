----------------------------- MODULE ImportReview -----------------------------
(***************************************************************************)
(* Review of the candidates an import wrote: the handlers of               *)
(* backend/pages_import.py that confirm, link, edit, dismiss, rematch,     *)
(* reopen and clear them, importer.write_candidates, and the add-game form *)
(* of backend/pages_library.py that confirms one.                          *)
(*                                                                         *)
(* The handlers run in threads on one SQLite file in WAL mode.  A session  *)
(* does not autoflush and a read opens no transaction, so a handler reads, *)
(* decides, and writes in one transaction later: its first action reads    *)
(* (all its reads up to the first write happen together), its last one     *)
(* commits.  The commit of a session updates the columns whose value in    *)
(* the session differs from the value read, and no others (Flush).         *)
(*                                                                         *)
(* A row of a sheet is reduced to its date, its position in the sheet (the *)
(* sort_order of its completion) and its text (playthroughs and notes).    *)
(***************************************************************************)
EXTENDS Sequences, Integers, FiniteSets, Functions

CONSTANTS Candidates,  \* ids of import candidates, none is used twice
          Entries,     \* ids of library entries, none is used twice
          NoEntry,
          Dates, NoDate, Positions, Texts,
          Files,       \* what the user may import: a set of groups
          Requests,    \* ids of the requests in progress at one time
          Exclusive,   \* no two of these concern the same candidate
          Deletes      \* the user also deletes completions and entries

ASSUME ReviewAssumption ==
    /\ NoEntry \notin Entries /\ NoDate \notin Dates
    /\ IsFiniteSet(Candidates) /\ Positions \subseteq Nat
    /\ Exclusive \in BOOLEAN /\ Deletes \in BOOLEAN

Actions  == {"add_to_existing", "create_new", "needs_review"}
Statuses == {"pending", "confirmed", "dismissed"}

\* link is created_completion_id: which of the row's completions, 0 for none.
Row == [date : Dates \cup {NoDate}, pos : Positions, text : Texts, link : Nat]

\* A group of a parsed file; rows that repeat a date and a text were dropped.
ASSUME FilesAssumption ==
    /\ IsFiniteSet(Files) /\ Files \subseteq [title : STRING, platform : BOOLEAN, rows : Seq(Row)]
    /\ \A g \in Files : \A i, j \in DOMAIN g.rows :
        /\ g.rows[i].link = 0
        /\ <<g.rows[i].date, g.rows[i].text>> = <<g.rows[j].date, g.rows[j].text>> => i = j

\* A candidate keeps the rows of its group that were new, by their places in the group.
Lines == UNION {DOMAIN g.rows : g \in Files}
Candidate(lines) == [title : STRING, platform : BOOLEAN, entry : Entries \cup {NoEntry},
                     action : Actions, status : Statuses, rows : [lines -> Row]]
IsCandidate(x)   == \E lines \in SUBSET Lines : x \in Candidate(lines)

\* A completion, named by the row that logged it and a number.
Completion == [cand : Candidates, row : Lines, copy : Nat \ {0},
               entry : Entries, date : Dates, pos : Positions]

VARIABLES cands,    \* import_candidates with their import_rows: id -> candidate
          comps,    \* the completions logged from imports
          entries,  \* user_library
          gone,     \* ids of deleted candidates and entries
          open      \* the requests between their read and their commit

vars == <<cands, comps, entries, gone, open>>

Ops == {"log", "save", "reopen", "clear", "adding", "logNew", "write"}
OpenRequest(q) == /\ q.op \in Ops
                  /\ DOMAIN q.read \subseteq Candidates
                  /\ \A c \in DOMAIN q.read : IsCandidate(q.read[c])
                  /\ DOMAIN q.to \subseteq Candidates
                  /\ \A c \in DOMAIN q.to : IsCandidate(q.to[c])
                  /\ q.seen \subseteq Completion
                  /\ q.entry \in Entries \cup {NoEntry}

\* Types, and the foreign keys of models.py:838 and 978.
TypeOK == /\ DOMAIN cands \subseteq Candidates
          /\ \A c \in DOMAIN cands : /\ IsCandidate(cands[c])
                                     /\ cands[c].entry \in entries \cup {NoEntry}
          /\ comps \subseteq Completion
          /\ \A x \in comps : x.entry \in entries
          /\ entries \subseteq Entries
          /\ gone \subseteq Candidates \cup Entries
          /\ DOMAIN open \subseteq Requests
          /\ \A r \in DOMAIN open : OpenRequest(open[r])

Nothing == [x \in {} |-> {}]

Init == /\ cands = Nothing
        /\ comps = {}
        /\ entries \in SUBSET Entries
        /\ gone = {}
        /\ open = Nothing

With(f, x, y)  == [z \in DOMAIN f \cup {x} |-> IF z = x THEN y ELSE f[z]]
Only(S)        == Restrict(cands, S)
WithoutAll(S)  == Restrict(cands, DOMAIN cands \ S)
Close(r)       == open' = [q \in DOMAIN open \ {r} |-> open[q]]
Pending        == {c \in DOMAIN cands : cands[c].status = "pending"}

-----------------------------------------------------------------------------
(* Sessions *)

\* Ids that are neither in use, nor were, nor are about to be.
Reserved == UNION {DOMAIN open[r].to : r \in DOMAIN open}
FreshCandidates == Candidates \ (DOMAIN cands \cup gone \cup Reserved)
FreshEntries    == Entries \ (entries \cup gone)

MayTouch(S) == Exclusive => \A r \in DOMAIN open : DOMAIN open[r].read \cap S = {}

\* A request has read the candidates S, and leaves them as `to` in its session;
\* two kinds of request have also read completions.
Reads(op, S, to) ==
    /\ MayTouch(S)
    /\ \E r \in Requests \ DOMAIN open :
         open' = With(open, r, [op |-> op, read |-> Only(S), to |-> to, entry |-> NoEntry,
                                seen |-> IF op \in {"log", "reopen"} THEN comps ELSE {}])
    /\ UNCHANGED <<cands, comps, entries, gone>>

\* The columns of a record that the session changed replace the current ones.
Changed(cur, old, new) == [f \in DOMAIN cur |-> IF new[f] # old[f] THEN new[f] ELSE cur[f]]
Flush(cur, old, new) ==
    [Changed(cur, old, new) EXCEPT
        !.rows = [i \in DOMAIN cur.rows |-> Changed(cur.rows[i], old.rows[i], new.rows[i])]]

\* The transaction of request r.  An update of a deleted candidate or a foreign
\* key that points nowhere makes it fail: no action but Fails is left to r.
Commits(r, to, ins, del) ==
    LET q == open[r]
    IN  /\ \A c \in DOMAIN to :
             to[c] # q.read[c] => /\ c \in DOMAIN cands
                                  /\ \/ to[c].entry = q.read[c].entry
                                     \/ to[c].entry \in entries \cup {NoEntry}
        /\ \A x \in ins : x.entry \in entries
        /\ cands' = [c \in DOMAIN cands |->
                        IF c \in DOMAIN to THEN Flush(cands[c], q.read[c], to[c]) ELSE cands[c]]
        /\ comps' = (comps \ del) \cup ins
        /\ Close(r)
        /\ UNCHANGED <<entries, gone>>

\* Its transaction fails, the database being locked for too long included.
Fails(r) == Close(r) /\ UNCHANGED <<cands, comps, entries, gone>>

-----------------------------------------------------------------------------
(* Logging completions *)

\* The dated rows of the candidates in cs, the completion one asks for, and the
\* query for such a completion.
DatedRows(cs) ==
    UNION {{<<c, i>> : i \in {j \in DOMAIN cs[c].rows : cs[c].rows[j].date # NoDate}} :
             c \in DOMAIN cs}
KeyOf(cs, x)  == [entry |-> cs[x[1]].entry, date |-> cs[x[1]].rows[x[2]].date,
                  pos   |-> cs[x[1]].rows[x[2]].pos]
Matches(x, k) == x.entry = k.entry /\ x.date = k.date /\ x.pos = k.pos
Exists(S, k)  == \E x \in S : Matches(x, k)

NextCopy(x) == CHOOSE n \in 1..(Cardinality(comps) + 1) :
                  \A y \in comps : ~(y.cand = x[1] /\ y.row = x[2] /\ y.copy = n)
Logged(cs, x) == [cand |-> x[1], row |-> x[2], copy |-> NextCopy(x),
                  entry |-> KeyOf(cs, x).entry, date |-> KeyOf(cs, x).date,
                  pos |-> KeyOf(cs, x).pos]

\* The rows X were logged: they are linked, and the candidates confirmed.
Unstamped(cs, X) == [c \in DOMAIN cs |-> [cs[c] EXCEPT !.status = "confirmed"]]
Stamped(cs, X) ==
    [c \in DOMAIN cs |->
        [cs[c] EXCEPT !.status = "confirmed",
                      !.rows = [i \in DOMAIN @ |-> IF <<c, i>> \in X
                                                   THEN [@[i] EXCEPT !.link = NextCopy(<<c, i>>)]
                                                   ELSE @[i]]]]

\* _confirm_add_to_existing skips a row whose completion exists.  Until it has
\* inserted one it sees what was there when it read (seen); with its first
\* insert, of some key k, its transaction begins and it sees what is there now,
\* its own inserts included.  Rows come in no order.
KeysLogged(keys, seen) ==
    IF \A k \in keys : Exists(seen, k)
    THEN {{}}
    ELSE {{k} \cup {l \in keys \ before : ~Exists(comps, l)} :
             k \in {l \in keys : ~Exists(seen, l)},
             before \in SUBSET {l \in keys : Exists(seen, l)}}

LogCommits(r) ==
    LET cs == open[r].to
        X  == DatedRows(cs)
    IN  /\ open[r].op = "log"
        /\ \E K \in KeysLogged({KeyOf(cs, x) : x \in X}, open[r].seen) :
             \E pick \in [K -> X] :
               LET P == {pick[k] : k \in K}
               IN  /\ \A k \in K : KeyOf(cs, pick[k]) = k
                   /\ Commits(r, Stamped(cs, P), {Logged(cs, x) : x \in P}, {})

\* import_confirm and confirm_import_bulk; that the entry exists, which only the
\* first checks, is a foreign key of the candidate.
Matched == {c \in Pending : cands[c].action = "add_to_existing" /\ cands[c].entry # NoEntry}
Confirm(S) == S \subseteq Matched /\ Reads("log", S, Only(S))

\* import_candidate_link
Link(c, e) == /\ c \in Pending /\ e \in entries
              /\ Reads("log", {c}, [Only({c}) EXCEPT ![c].entry = e,
                                                    ![c].action = "add_to_existing"])

-----------------------------------------------------------------------------
(* The add-game form opened on a candidate: the entry is committed, covers   *)
(* and metadata are fetched, and only then is the candidate read.            *)

AddGame(c) ==
    /\ c \in Pending /\ cands[c].action # "add_to_existing"
    /\ MayTouch({c})
    /\ \E e \in FreshEntries, r \in Requests \ DOMAIN open :
         /\ entries' = entries \cup {e}
         /\ open' = With(open, r, [op |-> "adding", read |-> Only({c}), to |-> Only({c}),
                                   seen |-> {}, entry |-> e])
    /\ UNCHANGED <<cands, comps, gone>>

AddGameReads(r) ==
    LET S == DOMAIN open[r].read
    IN  /\ open[r].op = "adding"
        /\ S \subseteq Pending
        /\ open' = With(open, r, [op |-> "logNew", read |-> Only(S), seen |-> {}, entry |-> open[r].entry,
                                  to |-> [c \in S |-> [cands[c] EXCEPT !.entry = open[r].entry]]])
        /\ UNCHANGED <<cands, comps, entries, gone>>

\* Every dated row is logged at the new entry, and nothing is looked up.
AddGameCommits(r) ==
    LET cs == open[r].to
        X  == DatedRows(cs)
    IN  /\ open[r].op = "logNew"
        /\ Commits(r, Stamped(cs, X), {Logged(cs, x) : x \in X}, {})

-----------------------------------------------------------------------------
(* Decisions and edits that log nothing *)

SaveCommits(r) == open[r].op = "save" /\ Commits(r, open[r].to, {}, {})

\* import_dismiss and dismiss_import_bulk.
DismissibleAnyhow == DOMAIN cands
Dismissible == Pending
Dismiss(S) == /\ S \subseteq Dismissible
              /\ Reads("save", S, [c \in S |-> [cands[c] EXCEPT !.status = "dismissed"]])

\* What a match, or none, makes of a candidate; other is the action if none.
Rematched(cand, m, other) ==
    IF m # NoEntry THEN [cand EXCEPT !.entry = m, !.action = "add_to_existing"]
    ELSE [cand EXCEPT !.entry = NoEntry, !.action = other]
Unmatched(platform)  == IF platform THEN "create_new" ELSE "needs_review"
MatchesFor(platform) == IF platform THEN entries \cup {NoEntry} ELSE {NoEntry}

\* import_candidate_edit: title, platform and a row may change, and the title is
\* matched again.
EditRow(rows, i, d, t) == [rows EXCEPT ![i].date = d, ![i].text = t]
Edit(c) ==
    /\ c \in Pending
    /\ \E p \in BOOLEAN : \E m \in MatchesFor(p), n \in {g.title : g \in Files},
          i \in DOMAIN cands[c].rows, d \in Dates \cup {NoDate}, t \in Texts :
         LET edited == [cands[c] EXCEPT !.title = n, !.platform = p, !.rows = EditRow(@, i, d, t)]
         IN  Reads("save", {c}, [x \in {c} |-> Rematched(edited, m, Unmatched(p))])

\* import_rematch_candidate
Rematch(c) ==
    /\ c \in Pending
    /\ \E m \in MatchesFor(cands[c].platform) :
         Reads("save", {c}, [x \in {c} |-> Rematched(cands[c], m, "create_new")])

\* import_recheck: every pending candidate whose platform is known.
Recheck ==
    LET S == {c \in Pending : cands[c].platform}
    IN  /\ S # {}
        /\ \E m \in [S -> entries \cup {NoEntry}] :
             Reads("save", S,
                   [c \in S |-> IF m[c] = NoEntry /\ cands[c].action = "create_new"
                                THEN cands[c] ELSE Rematched(cands[c], m[c], "create_new")])

-----------------------------------------------------------------------------
(* Undoing *)

\* reopen_import_candidate
Reopen(c) ==
    /\ c \in DOMAIN cands /\ cands[c].status = "confirmed"
    /\ Reads("reopen", {c},
             [x \in {c} |-> [cands[c] EXCEPT
                 !.status = "pending",
                 !.action = IF cands[c].entry # NoEntry THEN "add_to_existing" ELSE @,
                 !.rows = [i \in DOMAIN @ |-> [@[i] EXCEPT !.link = 0]]]])

\* The completion of row i to delete: the one it links to, or, without a link,
\* one at the candidate's entry with its date and position.
Undone(c, cand, i, seen) ==
    LET row == cand.rows[i]
    IN  {x \in seen : \/ row.link # 0 /\ x.cand = c /\ x.row = i /\ x.copy = row.link
                      \/ /\ row.link = 0 /\ row.date # NoDate
                         /\ Matches(x, [entry |-> cand.entry, date |-> row.date, pos |-> row.pos])}

ReopenCommits(r) ==
    LET q == open[r]
    IN  /\ q.op = "reopen"
        /\ \E c \in DOMAIN q.read :
             LET Found == {i \in DOMAIN q.read[c].rows : Undone(c, q.read[c], i, q.seen) # {}}
             IN  \E pick \in [Found -> q.seen] :
                   /\ \A i \in Found : pick[i] \in Undone(c, q.read[c], i, q.seen)
                   /\ Commits(r, q.to, {}, {pick[i] : i \in Found})

\* import_clear_all: what was pending when it read is deleted by id.
Clear == Pending # {} /\ Reads("clear", Pending, Nothing)
ClearCommits(r) ==
    LET S == DOMAIN open[r].read
    IN  /\ open[r].op = "clear"
        /\ cands' = WithoutAll(S)
        /\ gone' = gone \cup (S \cap DOMAIN cands)
        /\ Close(r)
        /\ UNCHANGED <<comps, entries>>

-----------------------------------------------------------------------------
(* importer.write_candidates, one group of a file *)

SameGame(cand, g) == cand.title = g.title /\ cand.platform = g.platform
AlreadyPending(g) == \E c \in Pending : SameGame(cands[c], g)
ConfirmedRows(g) ==
    UNION {{<<cands[c].rows[i].date, cands[c].rows[i].text>> : i \in DOMAIN cands[c].rows} :
             c \in {d \in DOMAIN cands : cands[d].status = "confirmed" /\ SameGame(cands[d], g)}}
NewRows(g) == Restrict(g.rows, {i \in DOMAIN g.rows :
                                   <<g.rows[i].date, g.rows[i].text>> \notin ConfirmedRows(g)})

\* A user's imports run one at a time, so there is one writer.
WriteReads(g) ==
    /\ \A r \in DOMAIN open : open[r].op # "write"
    /\ ~AlreadyPending(g)
    /\ DOMAIN NewRows(g) # {}
    /\ \E c \in FreshCandidates, m \in MatchesFor(g.platform) :
         LET blank == [title |-> g.title, platform |-> g.platform, entry |-> NoEntry,
                       action |-> "needs_review", status |-> "pending", rows |-> NewRows(g)]
         IN  Reads("write", {},
                   [x \in {c} |-> Rematched(blank, m, Unmatched(g.platform))])

WriteCommits(r) ==
    /\ open[r].op = "write"
    /\ \A c \in DOMAIN open[r].to : open[r].to[c].entry \in entries \cup {NoEntry}
    /\ cands' = [c \in DOMAIN cands \cup DOMAIN open[r].to |->
                    IF c \in DOMAIN cands THEN cands[c] ELSE open[r].to[c]]
    /\ Close(r)
    /\ UNCHANGED <<comps, entries, gone>>

-----------------------------------------------------------------------------
(* The user deletes a completion or an entry.  An entry with completions     *)
(* cannot be deleted; the candidates that point at it lose their entry.      *)

DeleteCompletion(x) == /\ Deletes /\ x \in comps
                       /\ comps' = comps \ {x}
                       /\ UNCHANGED <<cands, entries, gone, open>>

Dangling(e) == cands
SetNull(e) == [c \in DOMAIN cands |->
                 IF cands[c].entry = e THEN [cands[c] EXCEPT !.entry = NoEntry] ELSE cands[c]]
DeleteEntry(e) == /\ Deletes /\ e \in entries
                  /\ \A x \in comps : x.entry # e
                  /\ entries' = entries \ {e}
                  /\ gone' = gone \cup {e}
                  /\ cands' = SetNull(e)
                  /\ UNCHANGED <<comps, open>>

-----------------------------------------------------------------------------
Begins == \/ \E S \in SUBSET DOMAIN cands : S # {} /\ (Confirm(S) \/ Dismiss(S))
          \/ \E c \in DOMAIN cands : \/ \E e \in entries : Link(c, e)
                                     \/ AddGame(c) \/ Edit(c) \/ Rematch(c) \/ Reopen(c)
          \/ Recheck \/ Clear
          \/ \E g \in Files : WriteReads(g)

Ends(r) == \/ LogCommits(r) \/ AddGameReads(r) \/ AddGameCommits(r) \/ SaveCommits(r)
           \/ ReopenCommits(r) \/ ClearCommits(r) \/ WriteCommits(r) \/ Fails(r)

Next == \/ Begins
        \/ \E r \in DOMAIN open : Ends(r)
        \/ \E x \in comps : DeleteCompletion(x)
        \/ \E e \in entries : DeleteEntry(e)

Spec == Init /\ [][Next]_vars

-----------------------------------------------------------------------------
(* Properties *)

\* A completion an import logged is one that reopening its candidate deletes:
\* the candidate is confirmed, at the completion's entry, and the row that
\* logged it links to it.  So no pending or dismissed candidate holds one and no
\* row holds two (pages_import.py:876-878, 919, 1105-1109).
HoldsCompletion(x) ==
    /\ x.cand \in DOMAIN cands
    /\ cands[x.cand].status = "confirmed"
    /\ cands[x.cand].entry = x.entry
    /\ cands[x.cand].rows[x.row].link = x.copy
CompletionsHeld == \A x \in comps : HoldsCompletion(x)

\* A dismissal is final, and a confirmed candidate leaves that state only by
\* being reopened: neither an edit, nor a match, nor a clear begun before it was
\* decided takes the decision back (pages_import.py:875, 1185 "confirmed stay").
DecisionsStand ==
    [][ \A c \in DOMAIN cands :
          cands[c].status # "pending" =>
             /\ c \in DOMAIN cands'
             /\ \/ cands'[c].status = cands[c].status
                \/ cands[c].status = "confirmed" /\ cands'[c].status = "pending" ]_vars

(* What the repository says and the code does not do; see the README. *)

\* Reopening deletes "exactly" the completions its candidate's confirm made
\* (pages_import.py:919, 1105-1106): while the user deletes none by hand, those of
\* a candidate that stays confirmed stay.
ReopenDeletesOwn ==
    [][ \A x \in comps :
          /\ x.cand \in DOMAIN cands /\ x.cand \in DOMAIN cands'
          /\ cands[x.cand].status = "confirmed" /\ cands'[x.cand].status = "confirmed"
          => x \in comps' ]_vars
=============================================================================
