-------------------------- MODULE ImportReviewProofs --------------------------
(***************************************************************************)
(* Proofs about ImportReview, for every number of candidates, entries,     *)
(* files and requests: what its variables hold; and, while no two requests *)
(* are about one candidate, that logged completions stay within reach of   *)
(* reopen, and that decisions stand.                                       *)
(***************************************************************************)
EXTENDS ImportReview, FiniteSetTheorems, TLAPS

-----------------------------------------------------------------------------
(* The inductive invariant *)

\* Ids: what a request read is in use or was, what it changes it read, and what an import
\* is about to write nobody can have read.
IdsApart ==
    /\ \A r \in DOMAIN open :
          /\ DOMAIN open[r].read \subseteq DOMAIN cands \cup gone
          /\ open[r].op # "write" => DOMAIN open[r].to \subseteq DOMAIN open[r].read
          /\ open[r].op = "write" => DOMAIN open[r].to \cap DOMAIN cands = {}
    /\ \A q, r \in DOMAIN open :
          open[q].op = "write" =>
             /\ DOMAIN open[q].to \cap DOMAIN open[r].read = {}
             /\ open[r].op = "write" => q = r

\* A candidate has the same rows for good, with other contents.
RowsStay ==
    \A r \in DOMAIN open : \A c \in DOMAIN open[r].read :
        /\ c \in DOMAIN cands => DOMAIN cands[c].rows = DOMAIN open[r].read[c].rows
        /\ c \in DOMAIN open[r].to => DOMAIN open[r].to[c].rows = DOMAIN open[r].read[c].rows

TInv == TypeOK /\ IsFiniteSet(comps) /\ IdsApart /\ RowsStay

(* While no two requests concern one candidate. *)

\* They do so in what they read.
Apart == \A q, r \in DOMAIN open : q # r => DOMAIN open[q].read \cap DOMAIN open[r].read = {}

\* What was read is still so, but for an entry deleted since.
StillSo(cur, old) == \/ cur = old
                     \/ old.entry \in gone \ entries /\ cur = [old EXCEPT !.entry = NoEntry]
ReadsHold == \A r \in DOMAIN open : \A c \in DOMAIN open[r].read :
                 c \in DOMAIN cands /\ StillSo(cands[c], open[r].read[c])

\* Only reopening reads what was decided, and it has seen all the completions it is about.
Aims(q) ==
    /\ q.op # "reopen" => \A c \in DOMAIN q.read : q.read[c].status = "pending"
    /\ q.op \in {"log", "logNew"} =>
          /\ DOMAIN q.to = DOMAIN q.read
          /\ \A c \in DOMAIN q.to : q.to[c].rows = q.read[c].rows
    /\ q.op = "save" => \A c \in DOMAIN q.to : q.to[c].status # "confirmed"
    /\ q.op = "reopen" =>
          \E c \in DOMAIN q.read :
             /\ DOMAIN q.read = {c} /\ DOMAIN q.to = {c}
             /\ q.read[c].status = "confirmed" /\ q.to[c].status = "pending"
             /\ \A x \in comps : x.cand = c => x \in q.seen
AimsHold == \A r \in DOMAIN open : Aims(open[r])

\* A completion is told from others by its row and its number.
Told(S) == \A x, y \in S : x.cand = y.cand /\ x.row = y.row /\ x.copy = y.copy => x = y
EachTold == Told(comps) /\ \A r \in DOMAIN open : Told(open[r].seen)

\* The row that logged it is one of its candidate's.
RowsThere == \A x \in comps : x.cand \in DOMAIN cands => x.row \in DOMAIN cands[x.cand].rows

XInv == Apart /\ ReadsHold /\ AimsHold /\ EachTold /\ RowsThere /\ CompletionsHeld

-----------------------------------------------------------------------------
(* Data *)

LEMMA LinesFinite == IsFiniteSet(Lines)
  <1> DEFINE D(g) == DOMAIN g.rows
             f == [g \in Files |-> D(g)]
             S == {D(g) : g \in Files}
  <1>1. f \in Surjection(Files, S)
    BY DEF Surjection
  <1>2. IsFiniteSet(S)
    <2> HIDE DEF f, S
    <2> QED BY <1>1, FS_Surjection, FilesAssumption
  <1>3. ASSUME NEW T \in S PROVE IsFiniteSet(T)
    <2>1. PICK g \in Files : T = DOMAIN g.rows
      OBVIOUS
    <2>2. g.rows \in Seq(Row)
      BY FilesAssumption
    <2>3. Len(g.rows) \in Nat /\ DOMAIN g.rows = 1..Len(g.rows)
      BY <2>2
    <2> QED BY <2>1, <2>3, FS_Interval
  <1>4. IsFiniteSet(UNION S)
    <2> HIDE DEF S
    <2> QED BY <1>2, <1>3, FS_UNION
  <1> QED BY <1>4 DEF Lines

\* The fields of a candidate, one by one.
LEMMA CandidateFields ==
  ASSUME NEW I, NEW x \in Candidate(I)
  PROVE  /\ x = [title |-> x.title, platform |-> x.platform, entry |-> x.entry,
                 action |-> x.action, status |-> x.status, rows |-> x.rows]
         /\ x.title \in STRING /\ x.platform \in BOOLEAN
         /\ x.entry \in Entries \cup {NoEntry}
         /\ x.action \in Actions /\ x.status \in Statuses
         /\ x.rows \in [I -> Row] /\ DOMAIN x.rows = I
  BY DEF Candidate

LEMMA CandidateLines ==
  ASSUME NEW x, IsCandidate(x)
  PROVE  /\ DOMAIN x.rows \subseteq Lines
         /\ x \in Candidate(DOMAIN x.rows)
  BY DEF IsCandidate, Candidate

\* What a session's commit makes of a row, and of a candidate.
LEMMA ChangedRow ==
  ASSUME NEW cur \in Row, NEW old \in Row, NEW new \in Row
  PROVE  /\ Changed(cur, old, new) \in Row
         /\ cur = old => Changed(cur, old, new) = new
  <1>1. Changed(cur, old, new) =
          [date |-> IF new.date # old.date THEN new.date ELSE cur.date,
           pos  |-> IF new.pos # old.pos THEN new.pos ELSE cur.pos,
           text |-> IF new.text # old.text THEN new.text ELSE cur.text,
           link |-> IF new.link # old.link THEN new.link ELSE cur.link]
    BY DEF Changed, Row
  <1> QED BY <1>1 DEF Row

LEMMA FlushFields ==
  ASSUME NEW I, NEW cur \in Candidate(I), NEW old \in Candidate(I), NEW new \in Candidate(I)
  PROVE  LET x == Flush(cur, old, new)
         IN  /\ x \in Candidate(I)
             /\ x.entry = IF new.entry # old.entry THEN new.entry ELSE cur.entry
             /\ x.status = IF new.status # old.status THEN new.status ELSE cur.status
             /\ cur.rows = old.rows => x.rows = new.rows
  <1> DEFINE R == [i \in DOMAIN cur.rows |-> Changed(cur.rows[i], old.rows[i], new.rows[i])]
             y == Changed(cur, old, new)
  <1>0. /\ DOMAIN cur.rows = I /\ DOMAIN new.rows = I
        /\ \A i \in I : cur.rows[i] \in Row /\ old.rows[i] \in Row /\ new.rows[i] \in Row
    BY DEF Candidate
  <1>1. R \in [I -> Row]
    BY <1>0, ChangedRow
  <1>2. cur.rows = old.rows => R = new.rows
    <2> SUFFICES ASSUME cur.rows = old.rows PROVE R = new.rows
      OBVIOUS
    <2>1. new.rows = [i \in I |-> new.rows[i]]
      BY CandidateFields
    <2>2. ASSUME NEW i \in I PROVE Changed(cur.rows[i], old.rows[i], new.rows[i]) = new.rows[i]
      BY <1>0, ChangedRow
    <2> QED BY <1>0, <2>1, <2>2
  <1>3. y = [title |-> IF new.title # old.title THEN new.title ELSE cur.title,
             platform |-> IF new.platform # old.platform THEN new.platform ELSE cur.platform,
             entry |-> IF new.entry # old.entry THEN new.entry ELSE cur.entry,
             action |-> IF new.action # old.action THEN new.action ELSE cur.action,
             status |-> IF new.status # old.status THEN new.status ELSE cur.status,
             rows |-> IF new.rows # old.rows THEN new.rows ELSE cur.rows]
    BY DEF Changed, Candidate
  <1>4. Flush(cur, old, new) = [y EXCEPT !.rows = R]
    BY DEF Flush
  <1> HIDE DEF R
  <1>5. Flush(cur, old, new) =
            [title |-> IF new.title # old.title THEN new.title ELSE cur.title,
             platform |-> IF new.platform # old.platform THEN new.platform ELSE cur.platform,
             entry |-> IF new.entry # old.entry THEN new.entry ELSE cur.entry,
             action |-> IF new.action # old.action THEN new.action ELSE cur.action,
             status |-> IF new.status # old.status THEN new.status ELSE cur.status,
             rows |-> R]
    <2> HIDE DEF y
    <2> QED BY <1>3, <1>4
  <1>6. Flush(cur, old, new) \in Candidate(I)
    BY <1>1, <1>5 DEF Candidate
  <1> QED BY <1>2, <1>5, <1>6

\* A number that no completion of the row has.
LEMMA CopyIsNew ==
  ASSUME IsFiniteSet(comps), NEW x
  PROVE  /\ NextCopy(x) \in Nat \ {0}
         /\ \A y \in comps : ~(y.cand = x[1] /\ y.row = x[2] /\ y.copy = NextCopy(x))
  <1> DEFINE f == [y \in comps |-> y.copy]
             T == {y.copy : y \in comps}
             N == Cardinality(comps)
  <1>1. N \in Nat
    BY FS_CardinalityType
  <1>2. f \in Surjection(comps, T)
    BY DEF Surjection
  <1>3. IsFiniteSet(T) /\ Cardinality(T) <= N
    <2> HIDE DEF f, T
    <2> QED BY <1>2, FS_Surjection
  <1>4. Cardinality(T) \in Nat
    <2> HIDE DEF T
    <2> QED BY <1>3, FS_CardinalityType
  <1> HIDE DEF N
  <1>5. IsFiniteSet(1..N+1) /\ Cardinality(1..N+1) = N + 1
    <2>1. 1 \in Int /\ N + 1 \in Int /\ ~(1 > N + 1) /\ (N + 1) - 1 + 1 = N + 1
      BY <1>1
    <2> QED BY <2>1, FS_Interval
  <1>6. ~((1..N+1) \subseteq T)
    <2> HIDE DEF T
    <2> SUFFICES ASSUME (1..N+1) \subseteq T PROVE FALSE
      OBVIOUS
    <2>1. Cardinality(1..N+1) <= Cardinality(T)
      BY <1>3, FS_Subset
    <2> QED BY <1>1, <1>3, <1>4, <1>5, <2>1
  <1>7. PICK n \in 1..N+1 : n \notin T
    BY <1>6
  <1>8. \A y \in comps : ~(y.cand = x[1] /\ y.row = x[2] /\ y.copy = n)
    BY <1>7
  <1>9. NextCopy(x) = CHOOSE m \in 1..N+1 : \A y \in comps : ~(y.cand = x[1] /\ y.row = x[2] /\ y.copy = m)
    BY DEF NextCopy, N
  <1>10. /\ NextCopy(x) \in 1..N+1
         /\ \A y \in comps : ~(y.cand = x[1] /\ y.row = x[2] /\ y.copy = NextCopy(x))
    BY <1>8, <1>9
  <1> QED BY <1>1, <1>10

-----------------------------------------------------------------------------
(* Types *)

\* What is recorded of the requests under way stays right when some of them end and the
\* candidates they read keep their rows or disappear for good.
LEMMA RequestsKept ==
  ASSUME TInv,
         DOMAIN open' \subseteq DOMAIN open, \A r \in DOMAIN open' : open'[r] = open[r],
         gone \subseteq gone', DOMAIN cands \subseteq DOMAIN cands' \cup gone',
         \A c \in DOMAIN cands' :
            \/ c \in DOMAIN cands /\ DOMAIN cands'[c].rows = DOMAIN cands[c].rows
            \/ \A r \in DOMAIN open' : c \notin DOMAIN open[r].read,
         \A r \in DOMAIN open' : open[r].op = "write" => DOMAIN open[r].to \cap DOMAIN cands' = {}
  PROVE  /\ IdsApart' /\ RowsStay'
         /\ \A r \in DOMAIN open' : r \in Requests /\ OpenRequest(open'[r])
  <1>1. IdsApart'
    BY DEF TInv, IdsApart
  <1>2. RowsStay'
    BY DEF TInv, IdsApart, RowsStay
  <1>3. \A r \in DOMAIN open' : r \in Requests /\ OpenRequest(open'[r])
    BY DEF TInv, TypeOK
  <1> QED BY <1>1, <1>2, <1>3

LEMMA CloseFacts ==
  ASSUME NEW r, Close(r)
  PROVE  /\ DOMAIN open' = DOMAIN open \ {r}
         /\ \A q \in DOMAIN open' : open'[q] = open[q]
  BY DEF Close

\* A request of the user's begins.
LEMMA OpensKeepTypes ==
  ASSUME TInv, NEW r \in Requests \ DOMAIN open, NEW q, open' = With(open, r, q),
         UNCHANGED <<cands, comps, gone>>, entries \subseteq entries', entries' \subseteq Entries,
         OpenRequest(q),
         DOMAIN q.read \subseteq DOMAIN cands,
         \A c \in DOMAIN q.read : DOMAIN q.read[c].rows = DOMAIN cands[c].rows,
         q.op # "write",
         DOMAIN q.to \subseteq DOMAIN q.read,
         \A c \in DOMAIN q.to : DOMAIN q.to[c].rows = DOMAIN q.read[c].rows
  PROVE  TInv'
  <1>1. /\ DOMAIN open' = DOMAIN open \cup {r} /\ open'[r] = q
        /\ \A s \in DOMAIN open : open'[s] = open[s]
    BY DEF With
  <1>2. TypeOK' /\ IsFiniteSet(comps)'
    BY <1>1 DEF TInv, TypeOK
  <1>3. IdsApart'
    <2>1. /\ DOMAIN open'[r].read \subseteq DOMAIN cands
          /\ DOMAIN open'[r].to \subseteq DOMAIN open'[r].read /\ open'[r].op # "write"
      BY <1>1
    <2> QED BY <1>1, <2>1 DEF TInv, IdsApart
  <1>4. RowsStay'
    BY <1>1 DEF TInv, RowsStay
  <1> QED BY <1>2, <1>3, <1>4 DEF TInv

LEMMA ReadsKeepTypes ==
  ASSUME TInv, NEW op \in Ops, op # "write", NEW S \in SUBSET DOMAIN cands, NEW to,
         DOMAIN to \subseteq S,
         \A c \in DOMAIN to : IsCandidate(to[c]) /\ DOMAIN to[c].rows = DOMAIN cands[c].rows,
         Reads(op, S, to)
  PROVE  TInv'
  <1>1. PICK r \in Requests \ DOMAIN open :
          open' = With(open, r, [op |-> op, read |-> Only(S), to |-> to, entry |-> NoEntry,
                                 seen |-> IF op \in {"log", "reopen"} THEN comps ELSE {}])
    BY DEF Reads
  <1>2. PICK seen : seen = IF op \in {"log", "reopen"} THEN comps ELSE {}
    OBVIOUS
  <1>3. seen \subseteq Completion
    BY <1>2 DEF TInv, TypeOK
  <1>4. PICK q : q = [op |-> op, read |-> Only(S), to |-> to, entry |-> NoEntry, seen |-> seen]
    OBVIOUS
  <1>5. /\ q.op = op /\ q.read = Only(S) /\ q.to = to /\ q.entry = NoEntry /\ q.seen = seen
        /\ open' = With(open, r, q)
    BY <1>1, <1>2, <1>4
  <1>6. /\ DOMAIN q.read = S
        /\ \A c \in S : q.read[c] = cands[c] /\ c \in Candidates /\ IsCandidate(cands[c])
    BY <1>5 DEF Only, Restrict, TInv, TypeOK
  <1>7. OpenRequest(q)
    BY <1>3, <1>5, <1>6 DEF OpenRequest
  <1>8. UNCHANGED <<cands, comps, entries, gone>>
    BY DEF Reads
  <1>9. entries \subseteq Entries
    BY DEF TInv, TypeOK
  <1> QED BY <1>5, <1>6, <1>7, <1>8, <1>9, OpensKeepTypes

\* The transaction of a request, and its end without one.
LEMMA CommitsKeepTypes ==
  ASSUME TInv, NEW r \in DOMAIN open, open[r].op # "write", NEW to, NEW ins, NEW del,
         Commits(r, to, ins, del),
         DOMAIN to \subseteq DOMAIN open[r].read,
         \A c \in DOMAIN to : IsCandidate(to[c]) /\ DOMAIN to[c].rows = DOMAIN open[r].read[c].rows,
         IsFiniteSet(ins), \A x \in ins : x.entry \in Entries => x \in Completion
  PROVE  TInv'
  <1>1. /\ \A c \in DOMAIN to :
             to[c] # open[r].read[c] => /\ c \in DOMAIN cands
                                  /\ \/ to[c].entry = open[r].read[c].entry
                                     \/ to[c].entry \in entries \cup {NoEntry}
        /\ \A x \in ins : x.entry \in entries
        /\ cands' = [c \in DOMAIN cands |->
                        IF c \in DOMAIN to THEN Flush(cands[c], open[r].read[c], to[c]) ELSE cands[c]]
        /\ comps' = (comps \ del) \cup ins
        /\ Close(r)
        /\ UNCHANGED <<entries, gone>>
    BY DEF Commits
  <1>2. ASSUME NEW c \in DOMAIN cands
        PROVE  /\ IsCandidate(cands'[c]) /\ cands'[c].entry \in entries \cup {NoEntry}
               /\ DOMAIN cands'[c].rows = DOMAIN cands[c].rows
    <2>0. IsCandidate(cands[c]) /\ cands[c].entry \in entries \cup {NoEntry}
      BY DEF TInv, TypeOK
    <2>1. CASE c \notin DOMAIN to
      BY <1>1, <2>0, <2>1
    <2>2. CASE c \in DOMAIN to
      <3> DEFINE I == DOMAIN cands[c].rows
      <3>1. PICK old : old = open[r].read[c]
        OBVIOUS
      <3>2. PICK new : new = to[c]
        OBVIOUS
      <3>3. c \in DOMAIN open[r].read
        BY <2>2
      <3>4. /\ DOMAIN old.rows = I /\ DOMAIN new.rows = I
            /\ IsCandidate(old) /\ IsCandidate(new)
        BY <2>2, <3>1, <3>2, <3>3 DEF TInv, RowsStay, TypeOK, OpenRequest
      <3>5. /\ cands[c] \in Candidate(I) /\ old \in Candidate(I) /\ new \in Candidate(I)
            /\ I \in SUBSET Lines
        BY <2>0, <3>4, CandidateLines
      <3>6. PICK x : x = Flush(cands[c], old, new)
        OBVIOUS
      <3>7. cands'[c] = x
        BY <1>1, <2>2, <3>1, <3>2, <3>6
      <3>8. /\ x \in Candidate(I)
            /\ x.entry = IF new.entry # old.entry THEN new.entry ELSE cands[c].entry
        BY <3>5, <3>6, FlushFields
      <3>9. x.entry \in entries \cup {NoEntry}
        <4>1. CASE new.entry = old.entry
          BY <2>0, <3>8, <4>1
        <4>2. CASE new.entry # old.entry
          BY <1>1, <2>2, <3>1, <3>2, <3>8, <4>2
        <4> QED BY <4>1, <4>2
      <3>10. IsCandidate(x) /\ DOMAIN x.rows = I
        BY <3>5, <3>8, CandidateFields DEF IsCandidate
      <3> QED BY <3>7, <3>9, <3>10
    <2> QED BY <2>1, <2>2
  <1>3. DOMAIN cands' = DOMAIN cands
    BY <1>1
  <1>4. /\ DOMAIN open' \subseteq DOMAIN open /\ \A q \in DOMAIN open' : open'[q] = open[q]
    BY <1>1, CloseFacts
  <1>5. /\ IdsApart' /\ RowsStay'
        /\ \A q \in DOMAIN open' : q \in Requests /\ OpenRequest(open'[q])
    <2>1. \A q \in DOMAIN open' : open[q].op = "write" => DOMAIN open[q].to \cap DOMAIN cands' = {}
      BY <1>3, <1>4 DEF TInv, IdsApart
    <2> QED BY <1>1, <1>2, <1>3, <1>4, <2>1, RequestsKept
  <1>6. comps' \subseteq Completion /\ \A x \in comps' : x.entry \in entries'
    BY <1>1 DEF TInv, TypeOK
  <1>7. IsFiniteSet(comps')
    <2>1. IsFiniteSet(comps \ del)
      BY FS_Subset DEF TInv
    <2> QED BY <1>1, <2>1, FS_Union
  <1>8. TypeOK'
    BY <1>1, <1>2, <1>3, <1>5, <1>6 DEF TInv, TypeOK
  <1> QED BY <1>5, <1>7, <1>8 DEF TInv

LEMMA FailsKeepsTypes ==
  ASSUME TInv, NEW r \in DOMAIN open, Fails(r)
  PROVE  TInv'
  <1>1. Close(r) /\ UNCHANGED <<cands, comps, entries, gone>>
    BY DEF Fails
  <1>2. /\ DOMAIN open' \subseteq DOMAIN open /\ \A q \in DOMAIN open' : open'[q] = open[q]
    BY <1>1, CloseFacts
  <1>3. /\ IdsApart' /\ RowsStay'
        /\ \A q \in DOMAIN open' : q \in Requests /\ OpenRequest(open'[q])
    <2>1. \A q \in DOMAIN open' : open[q].op = "write" => DOMAIN open[q].to \cap DOMAIN cands' = {}
      BY <1>1, <1>2 DEF TInv, IdsApart
    <2> QED BY <1>1, <1>2, <2>1, RequestsKept
  <1> QED BY <1>1, <1>3 DEF TInv, TypeOK

-----------------------------------------------------------------------------
(* Logging *)

\* The rows asked for, the completions logged for some, and the stamps they leave.
LEMMA DatedFacts ==
  ASSUME TInv, NEW cs, DOMAIN cs \subseteq Candidates, \A c \in DOMAIN cs : IsCandidate(cs[c])
  PROVE  /\ IsFiniteSet(DatedRows(cs))
         /\ \A x \in DatedRows(cs) :
               /\ x = <<x[1], x[2]>> /\ x[1] \in DOMAIN cs /\ x[2] \in DOMAIN cs[x[1]].rows
               /\ cs[x[1]].rows[x[2]].date # NoDate
               /\ x[2] \in Lines /\ cs[x[1]].rows[x[2]] \in Row
  <1>1. ASSUME NEW x \in DatedRows(cs)
        PROVE  \E c \in DOMAIN cs : \E i \in DOMAIN cs[c].rows :
                  /\ x = <<c, i>> /\ cs[c].rows[i].date # NoDate
                  /\ i \in Lines /\ cs[c].rows[i] \in Row
    <2>1. PICK c \in DOMAIN cs :
             x \in {<<c, i>> : i \in {j \in DOMAIN cs[c].rows : cs[c].rows[j].date # NoDate}}
      BY DEF DatedRows
    <2>2. PICK i \in DOMAIN cs[c].rows : x = <<c, i>> /\ cs[c].rows[i].date # NoDate
      BY <2>1
    <2>3. DOMAIN cs[c].rows \subseteq Lines /\ cs[c] \in Candidate(DOMAIN cs[c].rows)
      BY CandidateLines
    <2>4. i \in Lines /\ cs[c].rows[i] \in Row
      BY <2>3, CandidateFields
    <2> QED BY <2>2, <2>4
  <1>2. DatedRows(cs) \subseteq Candidates \X Lines
    BY <1>1
  <1>3. IsFiniteSet(Candidates \X Lines)
    BY LinesFinite, FS_Product, ReviewAssumption
  <1>4. IsFiniteSet(DatedRows(cs))
    BY <1>2, <1>3, FS_Subset
  <1> QED BY <1>1, <1>4

LEMMA LoggedFacts ==
  ASSUME TInv, NEW cs, DOMAIN cs \subseteq Candidates, \A c \in DOMAIN cs : IsCandidate(cs[c]),
         NEW P \in SUBSET DatedRows(cs)
  PROVE  /\ IsFiniteSet({Logged(cs, x) : x \in P})
         /\ \A y \in {Logged(cs, x) : x \in P} : y.entry \in Entries => y \in Completion
  <1>1. IsFiniteSet({Logged(cs, x) : x \in P})
    <2> DEFINE f == [x \in P |-> Logged(cs, x)]
               T == {Logged(cs, x) : x \in P}
    <2>1. f \in Surjection(P, T)
      BY DEF Surjection
    <2>2. IsFiniteSet(P)
      BY DatedFacts, FS_Subset
    <2>3. IsFiniteSet(T)
      <3> HIDE DEF f, T
      <3> QED BY <2>1, <2>2, FS_Surjection
    <2> QED BY <2>3
  <1>2. ASSUME NEW x \in P, Logged(cs, x).entry \in Entries PROVE Logged(cs, x) \in Completion
    <2>1. /\ x[1] \in Candidates /\ x[2] \in Lines
          /\ cs[x[1]].rows[x[2]].date \in Dates /\ cs[x[1]].rows[x[2]].pos \in Positions
      BY DatedFacts DEF Row
    <2>2. NextCopy(x) \in Nat \ {0}
      BY CopyIsNew DEF TInv
    <2>3. /\ Logged(cs, x) = [cand |-> x[1], row |-> x[2], copy |-> NextCopy(x),
                              entry |-> cs[x[1]].entry, date |-> cs[x[1]].rows[x[2]].date,
                              pos |-> cs[x[1]].rows[x[2]].pos]
      BY DEF Logged, KeyOf
    <2>4. cs[x[1]].entry \in Entries
      BY <1>2, <2>3
    <2> QED BY <2>1, <2>2, <2>3, <2>4 DEF Completion
  <1> QED BY <1>1, <1>2

LEMMA StampedFacts ==
  ASSUME IsFiniteSet(comps), NEW cs, \A c \in DOMAIN cs : IsCandidate(cs[c]), NEW X
  PROVE  /\ DOMAIN Stamped(cs, X) = DOMAIN cs
         /\ \A c \in DOMAIN cs :
               /\ IsCandidate(Stamped(cs, X)[c])
               /\ Stamped(cs, X)[c].status = "confirmed"
               /\ Stamped(cs, X)[c].entry = cs[c].entry
               /\ DOMAIN Stamped(cs, X)[c].rows = DOMAIN cs[c].rows
               /\ \A i \in DOMAIN cs[c].rows :
                     <<c, i>> \in X => Stamped(cs, X)[c].rows[i].link = NextCopy(<<c, i>>)
  <1>1. DOMAIN Stamped(cs, X) = DOMAIN cs
    BY DEF Stamped
  <1>2. ASSUME NEW c \in DOMAIN cs
        PROVE  /\ IsCandidate(Stamped(cs, X)[c])
               /\ Stamped(cs, X)[c].status = "confirmed"
               /\ Stamped(cs, X)[c].entry = cs[c].entry
               /\ DOMAIN Stamped(cs, X)[c].rows = DOMAIN cs[c].rows
               /\ \A i \in DOMAIN cs[c].rows :
                     <<c, i>> \in X => Stamped(cs, X)[c].rows[i].link = NextCopy(<<c, i>>)
    <2> DEFINE I == DOMAIN cs[c].rows
               R == [i \in I |-> IF <<c, i>> \in X
                                 THEN [cs[c].rows[i] EXCEPT !.link = NextCopy(<<c, i>>)]
                                 ELSE cs[c].rows[i]]
    <2>1. cs[c] \in Candidate(I) /\ I \in SUBSET Lines
      BY CandidateLines
    <2>2. \A i \in I : cs[c].rows[i] \in Row
      BY <2>1, CandidateFields
    <2>3. ASSUME NEW i \in I PROVE R[i] \in Row /\ (<<c, i>> \in X => R[i].link = NextCopy(<<c, i>>))
      <3>1. PICK n : n = NextCopy(<<c, i>>)
        OBVIOUS
      <3>2. n \in Nat
        BY <3>1, CopyIsNew
      <3>3. [cs[c].rows[i] EXCEPT !.link = n] \in Row /\ [cs[c].rows[i] EXCEPT !.link = n].link = n
        BY <2>2, <3>2 DEF Row
      <3> QED BY <2>2, <3>1, <3>3
    <2>4. R \in [I -> Row]
      BY <2>3
    <2>5. Stamped(cs, X)[c] = [cs[c] EXCEPT !.status = "confirmed", !.rows = R]
      BY DEF Stamped
    <2>6. DOMAIN R = I
      OBVIOUS
    <2> HIDE DEF R
    <2>7. PICK x : x = [cs[c] EXCEPT !.status = "confirmed", !.rows = R]
      OBVIOUS
    <2>8. x \in Candidate(I) /\ x.status = "confirmed" /\ x.entry = cs[c].entry /\ x.rows = R
      BY <2>1, <2>4, <2>7 DEF Candidate, Statuses
    <2>9. IsCandidate(x)
      BY <2>1, <2>8 DEF IsCandidate
    <2> QED BY <2>3, <2>5, <2>6, <2>7, <2>8, <2>9
  <1> QED BY <1>1, <1>2

\* Logging the rows P of what a request left in its session.
LEMMA LogsKeepTypes ==
  ASSUME TInv, NEW r \in DOMAIN open, open[r].op # "write",
         NEW P \in SUBSET DatedRows(open[r].to),
         Commits(r, Stamped(open[r].to, P), {Logged(open[r].to, x) : x \in P}, {})
  PROVE  TInv'
  <1>1. PICK cs : cs = open[r].to
    OBVIOUS
  <1>2. /\ DOMAIN cs \subseteq Candidates /\ \A c \in DOMAIN cs : IsCandidate(cs[c])
    BY <1>1 DEF TInv, TypeOK, OpenRequest
  <1>3. /\ DOMAIN cs \subseteq DOMAIN open[r].read
        /\ \A c \in DOMAIN cs : DOMAIN cs[c].rows = DOMAIN open[r].read[c].rows
    BY <1>1 DEF TInv, IdsApart, RowsStay
  <1>4. PICK to : to = Stamped(cs, P)
    OBVIOUS
  <1>5. PICK ins : ins = {Logged(cs, x) : x \in P}
    OBVIOUS
  <1>6. /\ DOMAIN to = DOMAIN cs
        /\ \A c \in DOMAIN cs : IsCandidate(to[c]) /\ DOMAIN to[c].rows = DOMAIN cs[c].rows
    BY <1>2, <1>4, StampedFacts DEF TInv
  <1>7. IsFiniteSet(ins) /\ \A x \in ins : x.entry \in Entries => x \in Completion
    BY <1>1, <1>2, <1>5, LoggedFacts
  <1>8. Commits(r, to, ins, {})
    BY <1>1, <1>4, <1>5
  <1> QED BY <1>3, <1>6, <1>7, <1>8, CommitsKeepTypes

\* The keys a confirm logs are among those asked for.
LEMMA KeysAsked ==
  ASSUME NEW keys, NEW seen, NEW K \in KeysLogged(keys, seen)
  PROVE  K \subseteq keys
  BY DEF KeysLogged

-----------------------------------------------------------------------------
(* What the user asks for *)

\* A request that read the candidates S and will write `to`, as they all do but the
\* add-game form and the import itself.
ReadsWell(op, S, to) ==
    /\ Reads(op, S, to)
    /\ op \in Ops /\ op # "write"
    /\ S \subseteq DOMAIN cands /\ DOMAIN to \subseteq S
    /\ \A c \in DOMAIN to : IsCandidate(to[c]) /\ DOMAIN to[c].rows = DOMAIN cands[c].rows
    /\ op # "reopen" => S \subseteq Pending
    /\ op \in {"log", "logNew"} => DOMAIN to = S /\ \A c \in S : to[c].rows = cands[c].rows
    /\ op = "save" => \A c \in DOMAIN to : to[c].status # "confirmed"
    /\ op = "reopen" =>
          \E c \in S : /\ S = {c} /\ DOMAIN to = {c}
                       /\ cands[c].status = "confirmed" /\ to[c].status = "pending"

LEMMA PendingFacts ==
  ASSUME TInv
  PROVE  /\ Pending \subseteq DOMAIN cands
         /\ \A c \in Pending : cands[c].status = "pending"
         /\ \A c \in DOMAIN cands : /\ c \in Candidates /\ IsCandidate(cands[c])
                                    /\ cands[c] \in Candidate(DOMAIN cands[c].rows)
                                    /\ DOMAIN cands[c].rows \in SUBSET Lines
  BY CandidateLines DEF Pending, TInv, TypeOK

LEMMA ConfirmReads ==
  ASSUME TInv, NEW S, Confirm(S)
  PROVE  \E to : ReadsWell("log", S, to)
  <1>1. S \subseteq Pending /\ Reads("log", S, Only(S))
    BY DEF Confirm, Matched
  <1>2. DOMAIN Only(S) = S /\ \A c \in S : Only(S)[c] = cands[c]
    BY DEF Only, Restrict
  <1>3. ReadsWell("log", S, Only(S))
    BY <1>1, <1>2, PendingFacts DEF ReadsWell, Ops
  <1> QED BY <1>3

LEMMA LinkReads ==
  ASSUME TInv, NEW c \in DOMAIN cands, NEW e \in entries, Link(c, e)
  PROVE  \E to : ReadsWell("log", {c}, to)
  <1> DEFINE to == [Only({c}) EXCEPT ![c].entry = e, ![c].action = "add_to_existing"]
  <1>1. c \in Pending /\ Reads("log", {c}, to)
    BY DEF Link
  <1>2. Only({c}) = [x \in {c} |-> cands[c]]
    BY DEF Only, Restrict
  <1>3. DOMAIN to = {c} /\ to[c] = [cands[c] EXCEPT !.entry = e, !.action = "add_to_existing"]
    BY <1>2
  <1>4. e \in Entries
    BY DEF TInv, TypeOK
  <1> HIDE DEF to
  <1>5. PICK x : x = [cands[c] EXCEPT !.entry = e, !.action = "add_to_existing"]
    OBVIOUS
  <1>6. x \in Candidate(DOMAIN cands[c].rows) /\ x.rows = cands[c].rows
    BY <1>4, <1>5, PendingFacts DEF Candidate, Actions
  <1>7. IsCandidate(x)
    BY <1>6, PendingFacts DEF IsCandidate
  <1>8. ReadsWell("log", {c}, to)
    BY <1>1, <1>3, <1>5, <1>6, <1>7 DEF ReadsWell, Ops
  <1> QED BY <1>8

LEMMA DismissReads ==
  ASSUME TInv, NEW S, Dismiss(S)
  PROVE  \E to : ReadsWell("save", S, to)
  <1> DEFINE to == [c \in S |-> [cands[c] EXCEPT !.status = "dismissed"]]
  <1>1. S \subseteq Pending /\ Reads("save", S, to)
    BY DEF Dismiss, Dismissible
  <1>2. ASSUME NEW c \in S
        PROVE  IsCandidate(to[c]) /\ to[c].status # "confirmed" /\ DOMAIN to[c].rows = DOMAIN cands[c].rows
    <2>1. PICK x : x = [cands[c] EXCEPT !.status = "dismissed"]
      OBVIOUS
    <2>2. x \in Candidate(DOMAIN cands[c].rows) /\ x.rows = cands[c].rows /\ x.status = "dismissed"
      BY <1>1, <2>1, PendingFacts DEF Candidate, Statuses
    <2>3. IsCandidate(x)
      BY <1>1, <2>2, PendingFacts DEF IsCandidate
    <2> QED BY <2>1, <2>2, <2>3
  <1>3. DOMAIN to = S
    OBVIOUS
  <1> HIDE DEF to
  <1>4. ReadsWell("save", S, to)
    BY <1>1, <1>2, <1>3, PendingFacts DEF ReadsWell, Ops
  <1> QED BY <1>4

\* A match changes the entry and the action alone.
LEMMA RematchedFacts ==
  ASSUME NEW x, IsCandidate(x), NEW m \in Entries \cup {NoEntry}, NEW other \in Actions
  PROVE  /\ IsCandidate(Rematched(x, m, other))
         /\ Rematched(x, m, other).status = x.status
         /\ Rematched(x, m, other).rows = x.rows
  <1>1. x \in Candidate(DOMAIN x.rows) /\ DOMAIN x.rows \in SUBSET Lines
    BY CandidateLines
  <1>2. PICK y : y = Rematched(x, m, other)
    OBVIOUS
  <1>3. y \in Candidate(DOMAIN x.rows) /\ y.status = x.status /\ y.rows = x.rows
    <2>1. CASE m = NoEntry
      <3>1. y = [x EXCEPT !.entry = NoEntry, !.action = other]
        BY <1>2, <2>1 DEF Rematched
      <3> QED BY <1>1, <3>1 DEF Candidate
    <2>2. CASE m # NoEntry
      <3>1. y = [x EXCEPT !.entry = m, !.action = "add_to_existing"]
        BY <1>2, <2>2 DEF Rematched
      <3> QED BY <1>1, <3>1 DEF Candidate, Actions
    <2> QED BY <2>1, <2>2
  <1> QED BY <1>1, <1>2, <1>3 DEF IsCandidate

\* A session that saves candidates with another match, still pending.
LEMMA SavesRematched ==
  ASSUME TInv, NEW S, S \subseteq Pending, NEW to, Reads("save", S, to), DOMAIN to = S,
         \A c \in S : /\ IsCandidate(to[c]) /\ to[c].status = "pending"
                      /\ DOMAIN to[c].rows = DOMAIN cands[c].rows
  PROVE  ReadsWell("save", S, to)
  BY PendingFacts DEF ReadsWell, Ops

LEMMA MatchTypes ==
  ASSUME TInv, NEW p, NEW m \in MatchesFor(p)
  PROVE  m \in Entries \cup {NoEntry} /\ Unmatched(p) \in Actions
  BY DEF MatchesFor, Unmatched, Actions, TInv, TypeOK

LEMMA EditReads ==
  ASSUME TInv, NEW c \in DOMAIN cands, Edit(c)
  PROVE  \E to : ReadsWell("save", {c}, to)
  <1>1. PICK p \in BOOLEAN : \E m \in MatchesFor(p), n \in {g.title : g \in Files},
          i \in DOMAIN cands[c].rows, d \in Dates \cup {NoDate}, t \in Texts :
             Reads("save", {c},
                   [x \in {c} |-> Rematched([cands[c] EXCEPT !.title = n, !.platform = p,
                                                !.rows = EditRow(@, i, d, t)], m, Unmatched(p))])
    BY DEF Edit
  <1>2. PICK m \in MatchesFor(p), n \in {g.title : g \in Files},
             i \in DOMAIN cands[c].rows, d \in Dates \cup {NoDate}, t \in Texts :
             Reads("save", {c},
                   [x \in {c} |-> Rematched([cands[c] EXCEPT !.title = n, !.platform = p,
                                                !.rows = EditRow(@, i, d, t)], m, Unmatched(p))])
    BY <1>1
  <1>3. PICK rows : rows = EditRow(cands[c].rows, i, d, t)
    OBVIOUS
  <1>4. PICK edited : edited = [cands[c] EXCEPT !.title = n, !.platform = p, !.rows = rows]
    OBVIOUS
  <1>5. PICK y : y = Rematched(edited, m, Unmatched(p))
    OBVIOUS
  <1>6. Reads("save", {c}, [x \in {c} |-> y])
    BY <1>2, <1>3, <1>4, <1>5
  <1>7. n \in STRING
    BY FilesAssumption
  <1>8. rows \in [DOMAIN cands[c].rows -> Row]
    <2>1. cands[c].rows \in [DOMAIN cands[c].rows -> Row] /\ cands[c].rows[i] \in Row
      BY PendingFacts, CandidateFields
    <2>2. PICK row : row = [[cands[c].rows[i] EXCEPT !.date = d] EXCEPT !.text = t]
      OBVIOUS
    <2>3. row \in Row
      BY <2>1, <2>2 DEF Row
    <2>4. rows = [cands[c].rows EXCEPT ![i] = row]
      BY <1>3, <2>1, <2>2 DEF EditRow
    <2> QED BY <2>1, <2>3, <2>4
  <1>9. edited \in Candidate(DOMAIN cands[c].rows) /\ edited.status = cands[c].status /\ edited.rows = rows
    BY <1>4, <1>7, <1>8, PendingFacts DEF Candidate
  <1>10. IsCandidate(edited)
    BY <1>9, PendingFacts DEF IsCandidate
  <1>11. IsCandidate(y) /\ y.status = cands[c].status /\ y.rows = rows
    BY <1>5, <1>9, <1>10, RematchedFacts, MatchTypes
  <1>12. c \in Pending /\ cands[c].status = "pending"
    BY PendingFacts DEF Edit
  <1>13. DOMAIN rows = DOMAIN cands[c].rows
    BY <1>8
  <1>14. ReadsWell("save", {c}, [x \in {c} |-> y])
    BY <1>6, <1>11, <1>12, <1>13, SavesRematched
  <1> QED BY <1>14

LEMMA RematchReads ==
  ASSUME TInv, NEW c \in DOMAIN cands, Rematch(c)
  PROVE  \E to : ReadsWell("save", {c}, to)
  <1>1. PICK m \in MatchesFor(cands[c].platform) :
           Reads("save", {c}, [x \in {c} |-> Rematched(cands[c], m, "create_new")])
    BY DEF Rematch
  <1>2. PICK y : y = Rematched(cands[c], m, "create_new")
    OBVIOUS
  <1>3. c \in Pending /\ cands[c].status = "pending"
    BY PendingFacts DEF Rematch
  <1>4. IsCandidate(y) /\ y.status = "pending" /\ y.rows = cands[c].rows
    <2>1. "create_new" \in Actions
      BY DEF Actions
    <2> QED BY <1>2, <1>3, <2>1, PendingFacts, RematchedFacts, MatchTypes
  <1>5. Reads("save", {c}, [x \in {c} |-> y])
    BY <1>1, <1>2
  <1>6. ReadsWell("save", {c}, [x \in {c} |-> y])
    BY <1>3, <1>4, <1>5, SavesRematched
  <1> QED BY <1>6

LEMMA RecheckReads ==
  ASSUME TInv, Recheck
  PROVE  \E S, to : ReadsWell("save", S, to)
  <1> DEFINE S == {c \in Pending : cands[c].platform}
             To(m) == [c \in S |-> IF m[c] = NoEntry /\ cands[c].action = "create_new"
                                   THEN cands[c] ELSE Rematched(cands[c], m[c], "create_new")]
  <1>1. PICK m \in [S -> entries \cup {NoEntry}] : Reads("save", S, To(m))
    BY DEF Recheck
  <1>2. ASSUME NEW c \in S
        PROVE  /\ IsCandidate(To(m)[c]) /\ To(m)[c].status = "pending"
               /\ DOMAIN To(m)[c].rows = DOMAIN cands[c].rows
    <2>1. c \in DOMAIN cands /\ cands[c].status = "pending"
      BY PendingFacts
    <2>2. m[c] \in Entries \cup {NoEntry} /\ "create_new" \in Actions
      BY DEF TInv, TypeOK, Actions
    <2>3. PICK y : y = Rematched(cands[c], m[c], "create_new")
      OBVIOUS
    <2>4. IsCandidate(y) /\ y.status = "pending" /\ y.rows = cands[c].rows
      BY <2>1, <2>2, <2>3, PendingFacts, RematchedFacts
    <2>5. To(m)[c] = cands[c] \/ To(m)[c] = y
      BY <2>3
    <2> HIDE DEF To
    <2> QED BY <2>1, <2>4, <2>5, PendingFacts
  <1>3. DOMAIN To(m) = S /\ S \subseteq Pending
    OBVIOUS
  <1> HIDE DEF To, S
  <1>4. ReadsWell("save", S, To(m))
    BY <1>1, <1>2, <1>3, SavesRematched
  <1> QED BY <1>4

LEMMA ReopenReads ==
  ASSUME TInv, NEW c \in DOMAIN cands, Reopen(c)
  PROVE  \E to : ReadsWell("reopen", {c}, to)
  <1>1. cands[c].status = "confirmed"
    BY DEF Reopen
  <1>2. PICK rows : rows = [i \in DOMAIN cands[c].rows |-> [cands[c].rows[i] EXCEPT !.link = 0]]
    OBVIOUS
  <1>3. PICK a : a = IF cands[c].entry # NoEntry THEN "add_to_existing" ELSE cands[c].action
    OBVIOUS
  <1>4. PICK x : x = [cands[c] EXCEPT !.status = "pending", !.action = a, !.rows = rows]
    OBVIOUS
  <1>5. Reads("reopen", {c}, [z \in {c} |-> x])
    BY <1>2, <1>3, <1>4 DEF Reopen
  <1>6. rows \in [DOMAIN cands[c].rows -> Row]
    <2>1. \A i \in DOMAIN cands[c].rows : cands[c].rows[i] \in Row
      BY PendingFacts, CandidateFields
    <2>2. \A i \in DOMAIN cands[c].rows : [cands[c].rows[i] EXCEPT !.link = 0] \in Row
      BY <2>1 DEF Row
    <2> QED BY <1>2, <2>2
  <1>7. a \in Actions
    BY <1>3, PendingFacts, CandidateFields DEF Actions
  <1>8. x \in Candidate(DOMAIN cands[c].rows) /\ x.status = "pending" /\ x.rows = rows
    BY <1>4, <1>6, <1>7, PendingFacts DEF Candidate, Statuses
  <1>9. IsCandidate(x)
    BY <1>8, PendingFacts DEF IsCandidate
  <1>10. ReadsWell("reopen", {c}, [z \in {c} |-> x])
    BY <1>1, <1>5, <1>6, <1>8, <1>9 DEF ReadsWell, Ops
  <1> QED BY <1>10

LEMMA ClearReads ==
  ASSUME TInv, Clear
  PROVE  ReadsWell("clear", Pending, Nothing)
  <1>1. DOMAIN Nothing = {}
    BY DEF Nothing
  <1> QED BY <1>1, PendingFacts DEF Clear, ReadsWell, Ops

LEMMA BeginsReads ==
  ASSUME TInv, Begins
  PROVE  \/ \E op, S, to : ReadsWell(op, S, to)
         \/ \E c \in DOMAIN cands : AddGame(c)
         \/ \E g \in Files : WriteReads(g)
  BY ConfirmReads, LinkReads, DismissReads, EditReads, RematchReads, RecheckReads,
     ReopenReads, ClearReads DEF Begins

LEMMA ReadsWellKeepsTypes ==
  ASSUME TInv, NEW op, NEW S, NEW to, ReadsWell(op, S, to)
  PROVE  TInv'
  BY ReadsKeepTypes DEF ReadsWell

\* What an import is about to write: one candidate, of an id nobody has had.
WritesOne(r, c, x) ==
    /\ r \in Requests \ DOMAIN open /\ \A q \in DOMAIN open : open[q].op # "write"
    /\ c \in FreshCandidates /\ IsCandidate(x)
    /\ open' = With(open, r, [op |-> "write", read |-> Only({}), to |-> [z \in {c} |-> x],
                              entry |-> NoEntry, seen |-> {}])
    /\ UNCHANGED <<cands, comps, entries, gone>>

LEMMA WriteFacts ==
  ASSUME TInv, NEW g \in Files, WriteReads(g)
  PROVE  \E r, c, x : WritesOne(r, c, x)
  <1>1. PICK rows : rows = NewRows(g)
    OBVIOUS
  <1>2. PICK c \in FreshCandidates, m \in MatchesFor(g.platform) :
          Reads("write", {}, [z \in {c} |-> Rematched([title |-> g.title, platform |-> g.platform,
                        entry |-> NoEntry, action |-> "needs_review", status |-> "pending",
                        rows |-> rows], m, Unmatched(g.platform))])
    BY <1>1 DEF WriteReads
  <1>3. PICK blank : blank = [title |-> g.title, platform |-> g.platform, entry |-> NoEntry,
                              action |-> "needs_review", status |-> "pending", rows |-> rows]
    OBVIOUS
  <1>4. PICK x : x = Rematched(blank, m, Unmatched(g.platform))
    OBVIOUS
  <1>5. Reads("write", {}, [z \in {c} |-> x])
    BY <1>2, <1>3, <1>4
  <1>6. rows \in [DOMAIN rows -> Row] /\ DOMAIN rows \in SUBSET Lines
    <2>1. g.rows \in Seq(Row)
      BY FilesAssumption
    <2>2. \A i \in DOMAIN g.rows : g.rows[i] \in Row
      BY <2>1
    <2>3. PICK I : I \subseteq DOMAIN g.rows /\ rows = Restrict(g.rows, I)
      BY <1>1 DEF NewRows
    <2>4. rows = [i \in I |-> g.rows[i]]
      BY <2>3 DEF Restrict
    <2>5. DOMAIN g.rows \subseteq Lines
      BY DEF Lines
    <2> QED BY <2>2, <2>3, <2>4, <2>5
  <1>7. IsCandidate(blank)
    <2>1. g.title \in STRING /\ g.platform \in BOOLEAN
      BY FilesAssumption
    <2>2. blank \in Candidate(DOMAIN rows)
      BY <1>3, <1>6, <2>1 DEF Candidate, Actions, Statuses
    <2> QED BY <1>6, <2>2 DEF IsCandidate
  <1>8. IsCandidate(x)
    BY <1>4, <1>7, RematchedFacts, MatchTypes
  <1>9. PICK r \in Requests \ DOMAIN open :
          open' = With(open, r, [op |-> "write", read |-> Only({}), to |-> [z \in {c} |-> x],
                                 entry |-> NoEntry, seen |-> {}])
    BY <1>5 DEF Reads
  <1>10. WritesOne(r, c, x)
    BY <1>5, <1>8, <1>9 DEF WritesOne, WriteReads, Reads
  <1> QED BY <1>10

LEMMA WriteReadsKeepsTypes ==
  ASSUME TInv, NEW r, NEW c, NEW x, WritesOne(r, c, x)
  PROVE  TInv'
  <1>1. PICK q : q = [op |-> "write", read |-> Only({}), to |-> [z \in {c} |-> x],
                      entry |-> NoEntry, seen |-> {}]
    OBVIOUS
  <1>2. /\ q.op = "write" /\ DOMAIN q.read = {} /\ DOMAIN q.to = {c} /\ q.to[c] = x
        /\ q.seen = {} /\ q.entry = NoEntry
        /\ open' = With(open, r, q)
    BY <1>1 DEF WritesOne, Only, Restrict
  <1>3. /\ DOMAIN open' = DOMAIN open \cup {r} /\ open'[r] = q
        /\ \A s \in DOMAIN open : open'[s] = open[s]
    BY <1>2 DEF With, WritesOne
  <1>4. /\ r \in Requests /\ c \in Candidates /\ c \notin DOMAIN cands /\ c \notin gone
        /\ IsCandidate(x) /\ \A s \in DOMAIN open : open[s].op # "write"
        /\ UNCHANGED <<cands, comps, entries, gone>>
    BY DEF WritesOne, FreshCandidates
  <1>5. OpenRequest(q)
    BY <1>2, <1>4 DEF OpenRequest, Ops
  <1>6. TypeOK' /\ IsFiniteSet(comps)'
    BY <1>3, <1>4, <1>5 DEF TInv, TypeOK
  <1>7. \A s \in DOMAIN open : c \notin DOMAIN open[s].read
    BY <1>4 DEF TInv, IdsApart
  <1>8. IdsApart'
    <2>1. \A s \in DOMAIN open' :
             /\ DOMAIN open'[s].read \subseteq DOMAIN cands \cup gone
             /\ open'[s].op # "write" => DOMAIN open'[s].to \subseteq DOMAIN open'[s].read
             /\ open'[s].op = "write" => DOMAIN open'[s].to \cap DOMAIN cands = {}
      BY <1>2, <1>3, <1>4 DEF TInv, IdsApart
    <2>2. ASSUME NEW s \in DOMAIN open', open'[s].op = "write" PROVE s = r
      BY <1>3, <1>4, <2>2
    <2>3. \A s \in DOMAIN open' : DOMAIN open'[r].to \cap DOMAIN open'[s].read = {}
      BY <1>2, <1>3, <1>7
    <2> QED BY <1>4, <2>1, <2>2, <2>3 DEF IdsApart
  <1>9. RowsStay'
    BY <1>2, <1>3, <1>4 DEF TInv, RowsStay
  <1> QED BY <1>6, <1>8, <1>9 DEF TInv

\* The add-game form has committed its entry, and is about to read the candidate.
LEMMA AddGameFacts ==
  ASSUME TInv, NEW c \in DOMAIN cands, AddGame(c)
  PROVE  \E r, e, q :
           /\ r \in Requests \ DOMAIN open /\ open' = With(open, r, q)
           /\ e \in Entries \ (entries \cup gone) /\ entries' = entries \cup {e}
           /\ UNCHANGED <<cands, comps, gone>>
           /\ q.op = "adding" /\ DOMAIN q.read = {c} /\ q.read[c] = cands[c]
           /\ DOMAIN q.to = {c} /\ q.to[c] = cands[c] /\ q.seen = {} /\ q.entry = e
           /\ cands[c].status = "pending" /\ MayTouch({c})
  <1>1. PICK e \in FreshEntries, r \in Requests \ DOMAIN open :
         /\ entries' = entries \cup {e}
         /\ open' = With(open, r, [op |-> "adding", read |-> Only({c}), to |-> Only({c}),
                                   seen |-> {}, entry |-> e])
    BY DEF AddGame
  <1>2. PICK q : q = [op |-> "adding", read |-> Only({c}), to |-> Only({c}),
                      seen |-> {}, entry |-> e]
    OBVIOUS
  <1>3. /\ q.op = "adding" /\ q.read = Only({c}) /\ q.to = Only({c}) /\ q.seen = {} /\ q.entry = e
        /\ open' = With(open, r, q)
    BY <1>1, <1>2
  <1>4. DOMAIN Only({c}) = {c} /\ Only({c})[c] = cands[c]
    BY DEF Only, Restrict
  <1>5. cands[c].status = "pending" /\ MayTouch({c}) /\ UNCHANGED <<cands, comps, gone>>
    BY DEF AddGame, Pending
  <1>6. e \in Entries \ (entries \cup gone)
    BY DEF FreshEntries
  <1>7. /\ r \in Requests \ DOMAIN open /\ open' = With(open, r, q)
           /\ e \in Entries \ (entries \cup gone) /\ entries' = entries \cup {e}
           /\ UNCHANGED <<cands, comps, gone>>
           /\ q.op = "adding" /\ DOMAIN q.read = {c} /\ q.read[c] = cands[c]
           /\ DOMAIN q.to = {c} /\ q.to[c] = cands[c] /\ q.seen = {} /\ q.entry = e
           /\ cands[c].status = "pending" /\ MayTouch({c})
    BY <1>1, <1>3, <1>4, <1>5, <1>6
  <1> QED BY <1>7

LEMMA AddGameKeepsTypes ==
  ASSUME TInv, NEW c \in DOMAIN cands, AddGame(c)
  PROVE  TInv'
  <1>1. PICK r, e, q :
           /\ r \in Requests \ DOMAIN open /\ open' = With(open, r, q)
           /\ e \in Entries \ (entries \cup gone) /\ entries' = entries \cup {e}
           /\ UNCHANGED <<cands, comps, gone>>
           /\ q.op = "adding" /\ DOMAIN q.read = {c} /\ q.read[c] = cands[c]
           /\ DOMAIN q.to = {c} /\ q.to[c] = cands[c] /\ q.seen = {} /\ q.entry = e
           /\ cands[c].status = "pending" /\ MayTouch({c})
    BY AddGameFacts
  <1>2. IsCandidate(cands[c]) /\ c \in Candidates /\ entries \subseteq Entries
    BY DEF TInv, TypeOK
  <1>3. OpenRequest(q)
    BY <1>1, <1>2 DEF OpenRequest, Ops
  <1>4. q.op # "write" /\ entries \subseteq entries' /\ entries' \subseteq Entries
    BY <1>1, <1>2
  <1> QED BY <1>1, <1>3, <1>4, OpensKeepTypes

\* It reads the candidate, which has to be pending still.
LEMMA AddGameReadsFacts ==
  ASSUME TInv, NEW r \in DOMAIN open, AddGameReads(r)
  PROVE  \E q :
           /\ DOMAIN open' = DOMAIN open /\ open'[r] = q
           /\ \A s \in DOMAIN open : s # r => open'[s] = open[s]
           /\ UNCHANGED <<cands, comps, entries, gone>>
           /\ open[r].op = "adding" /\ q.op = "logNew" /\ q.seen = {}
           /\ OpenRequest(q)
           /\ DOMAIN q.read = DOMAIN open[r].read /\ DOMAIN q.to = DOMAIN open[r].read
           /\ \A c \in DOMAIN q.read :
                 /\ c \in Pending /\ q.read[c] = cands[c] /\ q.to[c].rows = cands[c].rows
  <1>1. PICK S : S = DOMAIN open[r].read
    OBVIOUS
  <1>2. PICK e : e = open[r].entry
    OBVIOUS
  <1>3. PICK to : to = [c \in S |-> [cands[c] EXCEPT !.entry = e]]
    OBVIOUS
  <1>4. PICK q : q = [op |-> "logNew", read |-> Only(S), seen |-> {}, entry |-> e, to |-> to]
    OBVIOUS
  <1>5. /\ q.op = "logNew" /\ q.read = Only(S) /\ q.seen = {} /\ q.entry = e /\ q.to = to
        /\ open[r].op = "adding" /\ S \subseteq Pending
        /\ open' = With(open, r, q)
        /\ UNCHANGED <<cands, comps, entries, gone>>
    BY <1>1, <1>2, <1>3, <1>4 DEF AddGameReads
  <1>6. /\ DOMAIN open' = DOMAIN open /\ open'[r] = q
        /\ \A s \in DOMAIN open : s # r => open'[s] = open[s]
    BY <1>5 DEF With
  <1>7. DOMAIN q.read = S /\ \A c \in S : q.read[c] = cands[c]
    BY <1>5 DEF Only, Restrict
  <1>8. e \in Entries \cup {NoEntry}
    BY <1>2 DEF TInv, TypeOK, OpenRequest
  <1>9. ASSUME NEW c \in S
        PROVE  IsCandidate(to[c]) /\ to[c].rows = cands[c].rows /\ IsCandidate(cands[c]) /\ c \in Candidates
    <2>1. c \in DOMAIN cands
      BY <1>5, PendingFacts
    <2>2. PICK x : x = [cands[c] EXCEPT !.entry = e]
      OBVIOUS
    <2>3. x \in Candidate(DOMAIN cands[c].rows) /\ x.rows = cands[c].rows
      BY <1>8, <2>1, <2>2, PendingFacts DEF Candidate
    <2>4. IsCandidate(x)
      BY <2>1, <2>3, PendingFacts DEF IsCandidate
    <2> QED BY <1>3, <2>1, <2>2, <2>3, <2>4, PendingFacts
  <1>10. DOMAIN to = S
    BY <1>3
  <1>11. OpenRequest(q)
    BY <1>5, <1>7, <1>8, <1>9, <1>10 DEF OpenRequest, Ops
  <1>12. /\ DOMAIN q.read = DOMAIN open[r].read /\ DOMAIN q.to = DOMAIN open[r].read
         /\ \A c \in DOMAIN q.read :
               /\ c \in Pending /\ q.read[c] = cands[c] /\ q.to[c].rows = cands[c].rows
    BY <1>1, <1>5, <1>7, <1>9, <1>10
  <1> QED BY <1>5, <1>6, <1>11, <1>12

LEMMA AddGameReadsKeepsTypes ==
  ASSUME TInv, NEW r \in DOMAIN open, AddGameReads(r)
  PROVE  TInv'
  <1>1. PICK q :
           /\ DOMAIN open' = DOMAIN open /\ open'[r] = q
           /\ \A s \in DOMAIN open : s # r => open'[s] = open[s]
           /\ UNCHANGED <<cands, comps, entries, gone>>
           /\ open[r].op = "adding" /\ q.op = "logNew" /\ q.seen = {}
           /\ OpenRequest(q)
           /\ DOMAIN q.read = DOMAIN open[r].read /\ DOMAIN q.to = DOMAIN open[r].read
           /\ \A c \in DOMAIN q.read :
                 /\ c \in Pending /\ q.read[c] = cands[c] /\ q.to[c].rows = cands[c].rows
    BY AddGameReadsFacts
  <1>2. TypeOK' /\ IsFiniteSet(comps)'
    BY <1>1 DEF TInv, TypeOK
  <1>3. IdsApart'
    <2>1. \A s \in DOMAIN open' : /\ DOMAIN open'[s].read = DOMAIN open[s].read
                                  /\ open'[s].op = "write" <=> open[s].op = "write"
                                  /\ s # r => open'[s].to = open[s].to
      BY <1>1
    <2>2. open'[r].op # "write" /\ DOMAIN open'[r].to = DOMAIN open'[r].read
      BY <1>1
    <2> QED BY <1>1, <2>1, <2>2 DEF TInv, IdsApart
  <1>4. RowsStay'
    BY <1>1 DEF TInv, RowsStay
  <1> QED BY <1>2, <1>3, <1>4 DEF TInv

LEMMA LogKeepsTypes ==
  ASSUME TInv, NEW r \in DOMAIN open, LogCommits(r)
  PROVE  /\ open[r].op = "log"
         /\ \E P \in SUBSET DatedRows(open[r].to) :
               Commits(r, Stamped(open[r].to, P), {Logged(open[r].to, x) : x \in P}, {})
         /\ TInv'
  <1> DEFINE cs == open[r].to
             X  == DatedRows(cs)
  <1>1. PICK K \in KeysLogged({KeyOf(cs, x) : x \in X}, open[r].seen) :
          \E pick \in [K -> X] :
             Commits(r, Stamped(cs, {pick[k] : k \in K}), {Logged(cs, x) : x \in {pick[k] : k \in K}}, {})
    BY DEF LogCommits
  <1>2. PICK pick \in [K -> X] :
          Commits(r, Stamped(cs, {pick[k] : k \in K}), {Logged(cs, x) : x \in {pick[k] : k \in K}}, {})
    BY <1>1
  <1>3. PICK P : P = {pick[k] : k \in K}
    OBVIOUS
  <1>4. /\ P \in SUBSET X
        /\ Commits(r, Stamped(cs, P), {Logged(cs, x) : x \in P}, {})
    BY <1>2, <1>3
  <1>5. open[r].op = "log"
    BY DEF LogCommits
  <1>6. TInv'
    BY <1>4, <1>5, LogsKeepTypes
  <1> QED BY <1>4, <1>5, <1>6

LEMMA AddGameLogs ==
  ASSUME TInv, NEW r \in DOMAIN open, AddGameCommits(r)
  PROVE  /\ open[r].op = "logNew"
         /\ \E P \in SUBSET DatedRows(open[r].to) :
               Commits(r, Stamped(open[r].to, P), {Logged(open[r].to, x) : x \in P}, {})
         /\ TInv'
  <1>1. PICK P : P = DatedRows(open[r].to)
    OBVIOUS
  <1>2. /\ open[r].op = "logNew" /\ P \in SUBSET DatedRows(open[r].to)
        /\ Commits(r, Stamped(open[r].to, P), {Logged(open[r].to, x) : x \in P}, {})
    BY <1>1 DEF AddGameCommits
  <1>3. TInv'
    BY <1>2, LogsKeepTypes
  <1> QED BY <1>2, <1>3

\* What a request that logs nothing commits is of the right types.
LEMMA ToTypes ==
  ASSUME TInv, NEW r \in DOMAIN open, open[r].op # "write"
  PROVE  /\ DOMAIN open[r].to \subseteq DOMAIN open[r].read
         /\ \A c \in DOMAIN open[r].to :
               IsCandidate(open[r].to[c]) /\ DOMAIN open[r].to[c].rows = DOMAIN open[r].read[c].rows
  BY DEF TInv, IdsApart, RowsStay, TypeOK, OpenRequest

LEMMA SaveKeepsTypes ==
  ASSUME TInv, NEW r \in DOMAIN open, SaveCommits(r)
  PROVE  TInv'
  <1>1. open[r].op = "save" /\ Commits(r, open[r].to, {}, {})
    BY DEF SaveCommits
  <1>2. PICK to : to = open[r].to
    OBVIOUS
  <1>3. IsFiniteSet({}) /\ \A x \in {} : x.entry \in Entries => x \in Completion
    BY FS_EmptySet
  <1> QED BY <1>1, <1>2, <1>3, ToTypes, CommitsKeepTypes

LEMMA ReopenKeepsTypes ==
  ASSUME TInv, NEW r \in DOMAIN open, ReopenCommits(r)
  PROVE  TInv'
  <1>1. open[r].op = "reopen" /\ \E del : Commits(r, open[r].to, {}, del)
    BY DEF ReopenCommits
  <1>2. PICK del : Commits(r, open[r].to, {}, del)
    BY <1>1
  <1>3. IsFiniteSet({}) /\ \A x \in {} : x.entry \in Entries => x \in Completion
    BY FS_EmptySet
  <1>4. open[r].op # "write"
    BY <1>1
  <1> QED BY <1>2, <1>3, <1>4, ToTypes, CommitsKeepTypes

LEMMA ClearKeepsTypes ==
  ASSUME TInv, NEW r \in DOMAIN open, ClearCommits(r)
  PROVE  TInv'
  <1>1. PICK S : S = DOMAIN open[r].read
    OBVIOUS
  <1>2. /\ cands' = Restrict(cands, DOMAIN cands \ S)
        /\ gone' = gone \cup (S \cap DOMAIN cands) /\ Close(r) /\ UNCHANGED <<comps, entries>>
    BY <1>1 DEF ClearCommits, WithoutAll
  <1>3. /\ DOMAIN cands' = DOMAIN cands \ S
        /\ \A c \in DOMAIN cands' : c \in DOMAIN cands /\ cands'[c] = cands[c]
    BY <1>2 DEF Restrict
  <1>4. /\ DOMAIN open' \subseteq DOMAIN open /\ \A q \in DOMAIN open' : open'[q] = open[q]
    BY <1>2, CloseFacts
  <1>5. /\ IdsApart' /\ RowsStay'
        /\ \A q \in DOMAIN open' : q \in Requests /\ OpenRequest(open'[q])
    <2>1. \A q \in DOMAIN open' : open[q].op = "write" => DOMAIN open[q].to \cap DOMAIN cands' = {}
      BY <1>3, <1>4 DEF TInv, IdsApart
    <2>2. gone \subseteq gone' /\ DOMAIN cands \subseteq DOMAIN cands' \cup gone'
      BY <1>2, <1>3
    <2> QED BY <1>3, <1>4, <2>1, <2>2, RequestsKept
  <1>6. TypeOK'
    BY <1>2, <1>3, <1>5 DEF TInv, TypeOK
  <1> QED BY <1>2, <1>5, <1>6 DEF TInv

\* An import adds its candidate and changes no other.
LEMMA WriteCommitsFacts ==
  ASSUME TInv, NEW r \in DOMAIN open, WriteCommits(r)
  PROVE  /\ DOMAIN cands' = DOMAIN cands \cup DOMAIN open[r].to
         /\ \A c \in DOMAIN cands : cands'[c] = cands[c]
         /\ \A c \in DOMAIN open[r].to :
               /\ c \in Candidates /\ IsCandidate(cands'[c]) /\ cands'[c].entry \in entries \cup {NoEntry}
               /\ \A q \in DOMAIN open : c \notin DOMAIN open[q].read
         /\ Close(r) /\ UNCHANGED <<comps, entries, gone>>
  <1>1. PICK q : q = open[r]
    OBVIOUS
  <1>2. /\ q.op = "write" /\ OpenRequest(q)
        /\ DOMAIN q.to \cap DOMAIN cands = {}
        /\ \A s \in DOMAIN open : DOMAIN q.to \cap DOMAIN open[s].read = {}
    BY <1>1 DEF WriteCommits, TInv, IdsApart, TypeOK
  <1>3. /\ \A c \in DOMAIN q.to : q.to[c].entry \in entries \cup {NoEntry}
        /\ cands' = [c \in DOMAIN cands \cup DOMAIN q.to |->
                        IF c \in DOMAIN cands THEN cands[c] ELSE q.to[c]]
        /\ Close(r) /\ UNCHANGED <<comps, entries, gone>>
    BY <1>1 DEF WriteCommits
  <1> QED BY <1>1, <1>2, <1>3 DEF OpenRequest

LEMMA WriteKeepsTypes ==
  ASSUME TInv, NEW r \in DOMAIN open, WriteCommits(r)
  PROVE  TInv'
  <1>1. PICK T : T = DOMAIN open[r].to
    OBVIOUS
  <1>2. /\ DOMAIN cands' = DOMAIN cands \cup T
        /\ \A c \in DOMAIN cands : cands'[c] = cands[c]
        /\ \A c \in T :
               /\ c \in Candidates /\ IsCandidate(cands'[c]) /\ cands'[c].entry \in entries \cup {NoEntry}
               /\ \A q \in DOMAIN open : c \notin DOMAIN open[q].read
        /\ Close(r) /\ UNCHANGED <<comps, entries, gone>>
    BY <1>1, WriteCommitsFacts
  <1>3. /\ DOMAIN open' = DOMAIN open \ {r} /\ \A q \in DOMAIN open' : open'[q] = open[q]
    BY <1>2, CloseFacts
  <1>4. /\ IdsApart' /\ RowsStay'
        /\ \A q \in DOMAIN open' : q \in Requests /\ OpenRequest(open'[q])
    <2>1. open[r].op = "write"
      BY DEF WriteCommits
    <2>2. \A q \in DOMAIN open' : open[q].op # "write"
      BY <1>3, <2>1 DEF TInv, IdsApart
    <2>3. \A c \in DOMAIN cands' :
            \/ c \in DOMAIN cands /\ DOMAIN cands'[c].rows = DOMAIN cands[c].rows
            \/ \A q \in DOMAIN open' : c \notin DOMAIN open[q].read
      BY <1>2, <1>3
    <2>4. gone \subseteq gone' /\ DOMAIN cands \subseteq DOMAIN cands' \cup gone'
      BY <1>2
    <2>5. DOMAIN open' \subseteq DOMAIN open
      BY <1>3
    <2> QED BY <1>3, <2>2, <2>3, <2>4, <2>5, RequestsKept
  <1>5. TypeOK'
    <2>1. \A c \in DOMAIN cands' : /\ c \in Candidates /\ IsCandidate(cands'[c])
                                   /\ cands'[c].entry \in entries \cup {NoEntry}
      BY <1>2 DEF TInv, TypeOK
    <2> QED BY <1>2, <1>4, <2>1 DEF TInv, TypeOK
  <1> QED BY <1>2, <1>4, <1>5 DEF TInv

LEMMA DeletesKeepTypes ==
  ASSUME TInv
  PROVE  /\ \A x \in comps : DeleteCompletion(x) => TInv'
         /\ \A e \in entries : DeleteEntry(e) => TInv'
  <1>1. ASSUME NEW x \in comps, DeleteCompletion(x) PROVE TInv'
    <2>1. comps' = comps \ {x} /\ UNCHANGED <<cands, entries, gone, open>>
      BY <1>1 DEF DeleteCompletion
    <2>2. IsFiniteSet(comps')
      BY <2>1, FS_Subset DEF TInv
    <2> QED BY <2>1, <2>2 DEF TInv, TypeOK, IdsApart, RowsStay
  <1>2. ASSUME NEW e \in entries, DeleteEntry(e) PROVE TInv'
    <2>1. /\ \A x \in comps : x.entry # e
          /\ entries' = entries \ {e} /\ gone' = gone \cup {e}
          /\ cands' = [c \in DOMAIN cands |->
                         IF cands[c].entry = e THEN [cands[c] EXCEPT !.entry = NoEntry] ELSE cands[c]]
          /\ UNCHANGED <<comps, open>>
      BY <1>2 DEF DeleteEntry, SetNull
    <2>2. ASSUME NEW c \in DOMAIN cands
          PROVE  /\ IsCandidate(cands'[c]) /\ DOMAIN cands'[c].rows = DOMAIN cands[c].rows
                 /\ cands'[c].entry \in entries' \cup {NoEntry}
      <3>1. CASE cands[c].entry # e
        BY <2>1, <3>1 DEF TInv, TypeOK
      <3>2. CASE cands[c].entry = e
        <4>1. PICK x : x = [cands[c] EXCEPT !.entry = NoEntry]
          OBVIOUS
        <4>2. x \in Candidate(DOMAIN cands[c].rows) /\ x.rows = cands[c].rows /\ x.entry = NoEntry
          BY <4>1, PendingFacts DEF Candidate
        <4>3. IsCandidate(x)
          BY <4>2, PendingFacts DEF IsCandidate
        <4>4. cands'[c] = x
          BY <2>1, <3>2, <4>1
        <4> QED BY <4>2, <4>3, <4>4
      <3> QED BY <3>1, <3>2
    <2>3. DOMAIN cands' = DOMAIN cands
      BY <2>1
    <2>4. IdsApart' /\ RowsStay'
      BY <2>1, <2>2, <2>3 DEF TInv, IdsApart, RowsStay
    <2>5. TypeOK'
      <3>1. \A x \in comps : x.entry \in entries'
        BY <2>1 DEF TInv, TypeOK
      <3> QED BY <2>1, <2>2, <2>3, <3>1 DEF TInv, TypeOK
    <2> QED BY <2>1, <2>4, <2>5 DEF TInv
  <1> QED BY <1>1, <1>2

LEMMA InitTypes == Init => TInv
  <1> SUFFICES ASSUME Init PROVE TInv
    OBVIOUS
  <1>1. cands = Nothing /\ comps = {} /\ entries \subseteq Entries /\ gone = {} /\ open = Nothing
    BY DEF Init
  <1>2. DOMAIN Nothing = {}
    BY DEF Nothing
  <1> QED BY <1>1, <1>2, FS_EmptySet DEF TInv, TypeOK, IdsApart, RowsStay

LEMMA NextTypes == TInv /\ [Next]_vars => TInv'
  <1> SUFFICES ASSUME TInv, [Next]_vars PROVE TInv'
    OBVIOUS
  <1>1. CASE Begins
    <2>1. ASSUME NEW g \in Files, WriteReads(g) PROVE TInv'
      <3>1. PICK r, c, x : WritesOne(r, c, x)
        BY <2>1, WriteFacts
      <3> QED BY <3>1, WriteReadsKeepsTypes
    <2> QED BY <1>1, <2>1, BeginsReads, ReadsWellKeepsTypes, AddGameKeepsTypes
  <1>2. ASSUME NEW r \in DOMAIN open, Ends(r) PROVE TInv'
    BY <1>2, LogKeepsTypes, AddGameReadsKeepsTypes, AddGameLogs, SaveKeepsTypes, ReopenKeepsTypes,
       ClearKeepsTypes, WriteKeepsTypes, FailsKeepsTypes DEF Ends
  <1>3. CASE UNCHANGED vars
    BY <1>3 DEF vars, TInv, TypeOK, IdsApart, RowsStay
  <1> QED BY <1>1, <1>2, <1>3, DeletesKeepTypes DEF Next

\* Types and foreign keys hold: no candidate and no completion points at an entry that is
\* not there (models.py:838, :978), whatever was deleted since a request read it.
THEOREM TypeCorrect == Spec => []TypeOK
  <1>1. TInv => TypeOK
    BY DEF TInv
  <1> QED BY <1>1, InitTypes, NextTypes, PTL DEF Spec

-----------------------------------------------------------------------------
(* While no two requests are about one candidate *)

\* A request begins, about candidates no other is about.
LEMMA OpensHold ==
  ASSUME XInv, NEW r, r \notin DOMAIN open, NEW q,
         DOMAIN open' = DOMAIN open \cup {r}, open'[r] = q,
         \A s \in DOMAIN open : open'[s] = open[s],
         UNCHANGED <<cands, comps, gone>>, entries' \cap gone \subseteq entries,
         \A s \in DOMAIN open : DOMAIN q.read \cap DOMAIN open[s].read = {},
         \A c \in DOMAIN q.read : c \in DOMAIN cands /\ q.read[c] = cands[c],
         Aims(q), Told(q.seen)
  PROVE  XInv'
  <1>1. Apart'
    BY DEF XInv, Apart
  <1>2. ReadsHold'
    <2>1. ASSUME NEW s \in DOMAIN open', NEW p, p = open'[s], NEW c \in DOMAIN p.read
          PROVE  c \in DOMAIN cands' /\ StillSo(cands[c], p.read[c])'
      <3>1. CASE s = r
        BY <2>1, <3>1 DEF StillSo
      <3>2. CASE s # r
        <4>1. s \in DOMAIN open /\ p = open[s]
          BY <2>1, <3>2
        <4>2. c \in DOMAIN cands /\ StillSo(cands[c], p.read[c])
          BY <2>1, <4>1 DEF XInv, ReadsHold
        <4> QED BY <4>2 DEF StillSo
      <3> QED BY <3>1, <3>2
    <2> QED BY <2>1 DEF ReadsHold
  <1>3. AimsHold'
    <2>1. ASSUME NEW s \in DOMAIN open', NEW p, p = open'[s] PROVE Aims(p)'
      <3>1. Aims(p)
        BY <2>1 DEF XInv, AimsHold
      <3> QED BY <3>1 DEF Aims
    <2> QED BY <2>1 DEF AimsHold
  <1>4. EachTold'
    BY DEF XInv, EachTold, Told
  <1>5. RowsThere' /\ CompletionsHeld'
    BY DEF XInv, RowsThere, CompletionsHeld, HoldsCompletion
  <1> QED BY <1>1, <1>2, <1>3, <1>4, <1>5 DEF XInv

LEMMA ReadsWellHold ==
  ASSUME Exclusive, TInv, XInv, NEW op, NEW S, NEW to, ReadsWell(op, S, to)
  PROVE  XInv'
  <1>1. /\ S \subseteq DOMAIN cands /\ DOMAIN to \subseteq S
        /\ op # "reopen" => S \subseteq Pending
        /\ op \in {"log", "logNew"} => DOMAIN to = S /\ \A c \in S : to[c].rows = cands[c].rows
        /\ op = "save" => \A c \in DOMAIN to : to[c].status # "confirmed"
        /\ op = "reopen" =>
              \E c \in S : /\ S = {c} /\ DOMAIN to = {c}
                           /\ cands[c].status = "confirmed" /\ to[c].status = "pending"
        /\ Reads(op, S, to)
    BY DEF ReadsWell
  <1>2. PICK r \in Requests \ DOMAIN open :
          open' = With(open, r, [op |-> op, read |-> Only(S), to |-> to, entry |-> NoEntry,
                                 seen |-> IF op \in {"log", "reopen"} THEN comps ELSE {}])
    BY <1>1 DEF Reads
  <1>3. PICK seen : seen = IF op \in {"log", "reopen"} THEN comps ELSE {}
    OBVIOUS
  <1>4. PICK q : q = [op |-> op, read |-> Only(S), to |-> to, entry |-> NoEntry, seen |-> seen]
    OBVIOUS
  <1>5. /\ q.op = op /\ q.read = Only(S) /\ q.to = to /\ q.seen = seen
        /\ open' = With(open, r, q)
    BY <1>2, <1>3, <1>4
  <1>6. DOMAIN q.read = S /\ \A c \in S : q.read[c] = cands[c]
    BY <1>5 DEF Only, Restrict
  <1>7. /\ DOMAIN open' = DOMAIN open \cup {r} /\ open'[r] = q
        /\ \A s \in DOMAIN open : open'[s] = open[s]
    BY <1>5 DEF With
  <1>8. Aims(q)
    <2>1. q.op # "reopen" => \A c \in DOMAIN q.read : q.read[c].status = "pending"
      BY <1>1, <1>5, <1>6, PendingFacts
    <2>2. q.op = "reopen" => \A x \in comps : x \in q.seen
      BY <1>3, <1>5
    <2> QED BY <1>1, <1>5, <1>6, <2>1, <2>2 DEF Aims
  <1>9. Told(q.seen)
    <2>1. Told(comps) /\ Told({})
      BY DEF XInv, EachTold, Told
    <2>2. q.seen = comps \/ q.seen = {}
      BY <1>3, <1>5
    <2> QED BY <2>1, <2>2
  <1>10. UNCHANGED <<cands, comps, gone>> /\ entries' \cap gone \subseteq entries
    BY <1>1 DEF Reads
  <1>11. \A s \in DOMAIN open : DOMAIN q.read \cap DOMAIN open[s].read = {}
    BY <1>1, <1>6 DEF Reads, MayTouch
  <1> QED BY <1>1, <1>2, <1>6, <1>7, <1>8, <1>9, <1>10, <1>11, OpensHold

LEMMA AddGameHolds ==
  ASSUME Exclusive, TInv, XInv, NEW c \in DOMAIN cands, AddGame(c)
  PROVE  XInv'
  <1>1. PICK r, e, q :
           /\ r \in Requests \ DOMAIN open /\ open' = With(open, r, q)
           /\ e \in Entries \ (entries \cup gone) /\ entries' = entries \cup {e}
           /\ UNCHANGED <<cands, comps, gone>>
           /\ q.op = "adding" /\ DOMAIN q.read = {c} /\ q.read[c] = cands[c]
           /\ DOMAIN q.to = {c} /\ q.to[c] = cands[c] /\ q.seen = {} /\ q.entry = e
           /\ cands[c].status = "pending" /\ MayTouch({c})
    BY AddGameFacts
  <1>2. Aims(q) /\ Told(q.seen)
    BY <1>1 DEF Aims, Told
  <1>3. \A s \in DOMAIN open : DOMAIN q.read \cap DOMAIN open[s].read = {}
    BY <1>1 DEF MayTouch
  <1>4. /\ DOMAIN open' = DOMAIN open \cup {r} /\ open'[r] = q
        /\ \A s \in DOMAIN open : open'[s] = open[s]
    BY <1>1 DEF With
  <1>5. entries' \cap gone \subseteq entries
    BY <1>1
  <1> QED BY <1>1, <1>2, <1>3, <1>4, <1>5, OpensHold

LEMMA WriteReadsHolds ==
  ASSUME XInv, NEW r, NEW c, NEW x, WritesOne(r, c, x)
  PROVE  XInv'
  <1>1. PICK q : q = [op |-> "write", read |-> Only({}), to |-> [z \in {c} |-> x],
                      entry |-> NoEntry, seen |-> {}]
    OBVIOUS
  <1>2. /\ q.op = "write" /\ DOMAIN q.read = {} /\ q.seen = {}
        /\ open' = With(open, r, q)
    BY <1>1 DEF WritesOne, Only, Restrict
  <1>3. /\ DOMAIN open' = DOMAIN open \cup {r} /\ open'[r] = q
        /\ \A s \in DOMAIN open : open'[s] = open[s]
    BY <1>2 DEF With, WritesOne
  <1>4. Aims(q) /\ Told(q.seen)
    BY <1>2 DEF Aims, Told
  <1>5. r \notin DOMAIN open /\ UNCHANGED <<cands, comps, gone>> /\ entries' \cap gone \subseteq entries
    BY DEF WritesOne
  <1> QED BY <1>2, <1>3, <1>4, <1>5, OpensHold

\* A request that reads what is pending: it still is, and logged nothing yet.
LEMMA StillPending ==
  ASSUME TInv, XInv, NEW r \in DOMAIN open, open[r].op # "reopen", NEW c \in DOMAIN open[r].read
  PROVE  /\ c \in DOMAIN cands /\ cands[c].status = "pending"
         /\ \A x \in comps : x.cand # c
  <1>1. PICK old : old = open[r].read[c]
    OBVIOUS
  <1>2. c \in DOMAIN cands /\ StillSo(cands[c], old) /\ old.status = "pending"
    BY <1>1 DEF XInv, ReadsHold, AimsHold, Aims
  <1>3. cands[c].status = "pending"
    <2>1. old \in Candidate(DOMAIN old.rows)
      BY <1>1, CandidateLines DEF TInv, TypeOK, OpenRequest
    <2> QED BY <1>2, <2>1 DEF StillSo, Candidate
  <1>4. \A x \in comps : x.cand # c
    BY <1>3 DEF XInv, CompletionsHeld, HoldsCompletion
  <1> QED BY <1>2, <1>3, <1>4

\* A request ends, whatever it did to what it had read: the others are as they were.
LEMMA OthersHold ==
  ASSUME XInv, NEW r \in DOMAIN open, Close(r),
         \A c \in DOMAIN cands : c \notin DOMAIN open[r].read =>
            c \in DOMAIN cands' /\ cands'[c] = cands[c],
         \A x \in comps' : x \in comps \/ x.cand \in DOMAIN open[r].read,
         gone \subseteq gone', entries' = entries
  PROVE  /\ Apart' /\ ReadsHold' /\ AimsHold'
         /\ \A s \in DOMAIN open' : Told(open'[s].seen)
  <1>1. /\ DOMAIN open' = DOMAIN open \ {r} /\ \A s \in DOMAIN open' : open'[s] = open[s]
    BY CloseFacts
  <1>2. \A s \in DOMAIN open' : DOMAIN open[s].read \cap DOMAIN open[r].read = {}
    BY <1>1 DEF XInv, Apart
  <1>3. Apart'
    BY <1>1 DEF XInv, Apart
  <1>4. ReadsHold'
    <2>1. ASSUME NEW s \in DOMAIN open', NEW c \in DOMAIN open'[s].read
          PROVE  c \in DOMAIN cands' /\ StillSo(cands[c], open[s].read[c])'
      <3>1. s \in DOMAIN open /\ open'[s] = open[s] /\ c \in DOMAIN open[s].read
        BY <1>1, <2>1
      <3>2. c \in DOMAIN cands /\ StillSo(cands[c], open[s].read[c])
        BY <3>1 DEF XInv, ReadsHold
      <3>3. c \in DOMAIN cands' /\ cands'[c] = cands[c]
        BY <1>2, <2>1, <3>1, <3>2
      <3> QED BY <3>1, <3>2, <3>3 DEF StillSo
    <2> QED BY <2>1 DEF ReadsHold
  <1>5. AimsHold'
    <2>1. ASSUME NEW s \in DOMAIN open' PROVE Aims(open[s])'
      <3>1. PICK p : p = open[s]
        OBVIOUS
      <3>2. open'[s] = p /\ DOMAIN p.read \cap DOMAIN open[r].read = {}
        BY <1>1, <1>2, <3>1
      <3>3. Aims(p)
        BY <1>1, <3>1 DEF XInv, AimsHold
      <3>4. p.op = "reopen" => \E c \in DOMAIN p.read :
              /\ DOMAIN p.read = {c} /\ DOMAIN p.to = {c}
              /\ p.read[c].status = "confirmed" /\ p.to[c].status = "pending"
              /\ \A x \in comps' : x.cand = c => x \in p.seen
        BY <3>2, <3>3 DEF Aims
      <3> QED BY <3>2, <3>3, <3>4 DEF Aims
    <2> QED BY <2>1 DEF AimsHold
  <1>6. \A s \in DOMAIN open' : Told(open'[s].seen)
    BY <1>1 DEF XInv, EachTold
  <1> QED BY <1>3, <1>4, <1>5, <1>6

LEMMA FailsHolds ==
  ASSUME XInv, NEW r \in DOMAIN open, Fails(r)
  PROVE  XInv'
  <1>1. Close(r) /\ UNCHANGED <<cands, comps, entries, gone>>
    BY DEF Fails
  <1>2. Apart' /\ ReadsHold' /\ AimsHold' /\ \A s \in DOMAIN open' : Told(open'[s].seen)
    BY <1>1, OthersHold
  <1>3. EachTold' /\ RowsThere' /\ CompletionsHeld'
    BY <1>1, <1>2 DEF XInv, EachTold, Told, RowsThere, CompletionsHeld, HoldsCompletion
  <1> QED BY <1>2, <1>3 DEF XInv

\* What a transaction makes of a candidate: what the session left, but for an entry that
\* was deleted since and that the session did not set.
LEMMA CommitValues ==
  ASSUME TInv, XInv, NEW r \in DOMAIN open, NEW to, NEW ins, NEW del, Commits(r, to, ins, del),
         DOMAIN to \subseteq DOMAIN open[r].read,
         \A c \in DOMAIN to : IsCandidate(to[c]) /\ DOMAIN to[c].rows = DOMAIN open[r].read[c].rows
  PROVE  /\ DOMAIN cands' = DOMAIN cands
         /\ \A c \in DOMAIN cands : c \notin DOMAIN to => cands'[c] = cands[c]
         /\ \A c \in DOMAIN to :
               /\ c \in DOMAIN cands
               /\ cands'[c].status = to[c].status /\ cands'[c].rows = to[c].rows
               /\ to[c].entry \in entries => cands'[c].entry = to[c].entry
         /\ comps' = (comps \ del) \cup ins /\ \A x \in ins : x.entry \in entries
         /\ Close(r) /\ UNCHANGED <<entries, gone>>
  <1>1. /\ cands' = [c \in DOMAIN cands |->
                        IF c \in DOMAIN to THEN Flush(cands[c], open[r].read[c], to[c]) ELSE cands[c]]
        /\ comps' = (comps \ del) \cup ins /\ \A x \in ins : x.entry \in entries
        /\ Close(r) /\ UNCHANGED <<entries, gone>>
    BY DEF Commits
  <1>2. ASSUME NEW c \in DOMAIN to
        PROVE  /\ c \in DOMAIN cands
               /\ cands'[c].status = to[c].status /\ cands'[c].rows = to[c].rows
               /\ to[c].entry \in entries => cands'[c].entry = to[c].entry
    <2>1. PICK old : old = open[r].read[c]
      OBVIOUS
    <2>2. PICK new : new = to[c]
      OBVIOUS
    <2>3. c \in DOMAIN cands /\ StillSo(cands[c], old)
      BY <2>1 DEF XInv, ReadsHold
    <2> DEFINE I == DOMAIN cands[c].rows
    <2>4. /\ cands[c] \in Candidate(I) /\ old \in Candidate(I) /\ new \in Candidate(I)
      <3>1. IsCandidate(cands[c]) /\ IsCandidate(old) /\ IsCandidate(new)
        BY <2>1, <2>2, <2>3 DEF TInv, TypeOK, OpenRequest
      <3>2. DOMAIN old.rows = I /\ DOMAIN new.rows = I
        BY <2>1, <2>2, <2>3 DEF TInv, RowsStay
      <3> QED BY <3>1, <3>2, CandidateLines
    <2>5. PICK x : x = Flush(cands[c], old, new)
      OBVIOUS
    <2>6. /\ x.entry = IF new.entry # old.entry THEN new.entry ELSE cands[c].entry
          /\ x.status = IF new.status # old.status THEN new.status ELSE cands[c].status
          /\ cands[c].rows = old.rows => x.rows = new.rows
      BY <2>4, <2>5, FlushFields
    <2>7. /\ cands[c].rows = old.rows /\ cands[c].status = old.status
          /\ cands[c].entry = old.entry \/ old.entry \notin entries
      BY <2>3, <2>4 DEF StillSo, Candidate
    <2>8. /\ x.status = new.status /\ x.rows = new.rows
          /\ new.entry \in entries => x.entry = new.entry
      BY <2>6, <2>7
    <2>9. cands'[c] = x
      BY <1>1, <2>1, <2>2, <2>3, <2>5
    <2> QED BY <2>2, <2>3, <2>8, <2>9
  <1> QED BY <1>1, <1>2

LEMMA SaveHolds ==
  ASSUME TInv, XInv, NEW r \in DOMAIN open, SaveCommits(r)
  PROVE  XInv'
  <1>1. open[r].op = "save" /\ Commits(r, open[r].to, {}, {})
    BY DEF SaveCommits
  <1>2. PICK to : to = open[r].to
    OBVIOUS
  <1>3. /\ DOMAIN to \subseteq DOMAIN open[r].read
        /\ \A c \in DOMAIN to : IsCandidate(to[c]) /\ DOMAIN to[c].rows = DOMAIN open[r].read[c].rows
    BY <1>1, <1>2, ToTypes
  <1>4. /\ DOMAIN cands' = DOMAIN cands
        /\ \A c \in DOMAIN cands : c \notin DOMAIN to => cands'[c] = cands[c]
        /\ comps' = comps /\ Close(r) /\ UNCHANGED <<entries, gone>>
    <2>1. PICK none : none = {}
      OBVIOUS
    <2>2. Commits(r, to, none, none)
      BY <1>1, <1>2, <2>1
    <2>3. /\ DOMAIN cands' = DOMAIN cands
          /\ \A c \in DOMAIN cands : c \notin DOMAIN to => cands'[c] = cands[c]
          /\ comps' = (comps \ none) \cup none /\ Close(r) /\ UNCHANGED <<entries, gone>>
      BY <1>3, <2>2, CommitValues
    <2> QED BY <2>1, <2>3
  <1>5. Apart' /\ ReadsHold' /\ AimsHold' /\ \A s \in DOMAIN open' : Told(open'[s].seen)
    BY <1>3, <1>4, OthersHold
  <1>6. \A x \in comps : x.cand \notin DOMAIN to
    BY <1>1, <1>3, StillPending
  <1>7. EachTold' /\ RowsThere' /\ CompletionsHeld'
    BY <1>4, <1>5, <1>6 DEF XInv, EachTold, Told, RowsThere, CompletionsHeld, HoldsCompletion
  <1> QED BY <1>5, <1>7 DEF XInv

\* What a session logged is linked, at the candidate's entry, and numbered anew.
LEMMA LogsHold ==
  ASSUME TInv, XInv, NEW r \in DOMAIN open, open[r].op \in {"log", "logNew"},
         NEW P \in SUBSET DatedRows(open[r].to),
         Commits(r, Stamped(open[r].to, P), {Logged(open[r].to, x) : x \in P}, {})
  PROVE  XInv'
  <1>1. PICK cs : cs = open[r].to
    OBVIOUS
  <1>2. PICK to : to = Stamped(cs, P)
    OBVIOUS
  <1>3. PICK ins : ins = {Logged(cs, x) : x \in P}
    OBVIOUS
  <1>4. PICK none : none = {}
    OBVIOUS
  <1>5. Commits(r, to, ins, none)
    BY <1>1, <1>2, <1>3, <1>4
  <1>6. /\ DOMAIN cs \subseteq DOMAIN open[r].read /\ DOMAIN cs \subseteq Candidates
        /\ \A c \in DOMAIN cs : IsCandidate(cs[c]) /\ DOMAIN cs[c].rows = DOMAIN open[r].read[c].rows
    <2>1. open[r].op # "write"
      OBVIOUS
    <2> QED BY <1>1, <2>1, ToTypes DEF TInv, TypeOK, OpenRequest
  <1>7. /\ DOMAIN to = DOMAIN cs
        /\ \A c \in DOMAIN cs :
               /\ IsCandidate(to[c]) /\ to[c].status = "confirmed" /\ to[c].entry = cs[c].entry
               /\ DOMAIN to[c].rows = DOMAIN cs[c].rows
               /\ \A i \in DOMAIN cs[c].rows :
                     <<c, i>> \in P => to[c].rows[i].link = NextCopy(<<c, i>>)
    BY <1>2, <1>6, StampedFacts DEF TInv
  <1>8. /\ DOMAIN cands' = DOMAIN cands
        /\ \A c \in DOMAIN cands : c \notin DOMAIN to => cands'[c] = cands[c]
        /\ \A c \in DOMAIN to :
               /\ c \in DOMAIN cands
               /\ cands'[c].status = to[c].status /\ cands'[c].rows = to[c].rows
               /\ to[c].entry \in entries => cands'[c].entry = to[c].entry
        /\ comps' = (comps \ none) \cup ins /\ \A x \in ins : x.entry \in entries
        /\ Close(r) /\ UNCHANGED <<entries, gone>>
    BY <1>5, <1>6, <1>7, CommitValues
  \* What each logged row asks for.
  <1>9. ASSUME NEW y \in P
        PROVE  LET x == Logged(cs, y)
               IN  /\ y = <<y[1], y[2]>> /\ y[1] \in DOMAIN cs /\ y[2] \in DOMAIN cs[y[1]].rows
                   /\ x.cand = y[1] /\ x.row = y[2] /\ x.copy = NextCopy(y) /\ x.entry = cs[y[1]].entry
    <2>1. y \in DatedRows(cs)
      BY <1>1
    <2>2. y = <<y[1], y[2]>> /\ y[1] \in DOMAIN cs /\ y[2] \in DOMAIN cs[y[1]].rows
      BY <1>6, <2>1, DatedFacts
    <2> QED BY <2>2 DEF Logged, KeyOf
  <1>10. /\ Apart' /\ ReadsHold' /\ AimsHold' /\ \A s \in DOMAIN open' : Told(open'[s].seen)
    <2>1. \A x \in comps' : x \in comps \/ x.cand \in DOMAIN open[r].read
      BY <1>3, <1>6, <1>8, <1>9
    <2>2. \A c \in DOMAIN cands : c \notin DOMAIN open[r].read =>
             c \in DOMAIN cands' /\ cands'[c] = cands[c]
      BY <1>6, <1>7, <1>8
    <2> QED BY <1>8, <2>1, <2>2, OthersHold
  <1>11. \A x \in comps : x.cand \notin DOMAIN to
    BY <1>6, <1>7, StillPending
  <1>12. ASSUME NEW x \in comps'
         PROVE  HoldsCompletion(x)' /\ (x.cand \in DOMAIN cands' => x.row \in DOMAIN cands'[x.cand].rows)
    <2>1. CASE x \in comps
      <3>1. x.cand \in DOMAIN cands /\ cands'[x.cand] = cands[x.cand]
        BY <1>8, <1>11, <2>1 DEF XInv, CompletionsHeld, HoldsCompletion
      <3> QED BY <1>8, <2>1, <3>1 DEF XInv, CompletionsHeld, HoldsCompletion, RowsThere
    <2>2. CASE x \in ins
      <3>1. PICK y \in P : x = Logged(cs, y)
        BY <1>3, <2>2
      <3>2. PICK c, i : y = <<c, i>> /\ c = y[1] /\ i = y[2]
        BY <1>9
      <3>3. /\ c \in DOMAIN cs /\ i \in DOMAIN cs[c].rows
            /\ x.cand = c /\ x.row = i /\ x.copy = NextCopy(<<c, i>>) /\ x.entry = cs[c].entry
        BY <1>9, <3>1, <3>2
      <3>4. /\ to[c].rows[i].link = x.copy /\ DOMAIN to[c].rows = DOMAIN cs[c].rows
            /\ to[c].status = "confirmed" /\ to[c].entry = x.entry
        BY <1>7, <3>2, <3>3
      <3>5. x.entry \in entries
        BY <1>8, <2>2
      <3> QED BY <1>7, <1>8, <3>3, <3>4, <3>5 DEF HoldsCompletion
    <2> QED BY <1>4, <1>8, <2>1, <2>2
  <1>13. Told(comps')
    <2>1. ASSUME NEW x \in ins, NEW y \in comps PROVE ~(x.cand = y.cand /\ x.row = y.row /\ x.copy = y.copy)
      <3>1. PICK z \in P : x = Logged(cs, z)
        BY <1>3, <2>1
      <3>2. x.cand = z[1] /\ x.row = z[2] /\ x.copy = NextCopy(z)
        BY <1>9, <3>1
      <3>3. ~(y.cand = z[1] /\ y.row = z[2] /\ y.copy = NextCopy(z))
        BY CopyIsNew DEF TInv
      <3> QED BY <3>2, <3>3
    <2>2. ASSUME NEW x \in ins, NEW y \in ins, x.cand = y.cand, x.row = y.row PROVE x = y
      <3>1. PICK w \in P : x = Logged(cs, w)
        BY <1>3, <2>2
      <3>2. PICK z \in P : y = Logged(cs, z)
        BY <1>3, <2>2
      <3>3. w[1] = z[1] /\ w[2] = z[2]
        BY <1>9, <2>2, <3>1, <3>2
      <3>4. w = z
        BY <1>9, <3>3
      <3> QED BY <3>1, <3>2, <3>4
    <2>3. Told(comps)
      BY DEF XInv, EachTold
    <2>4. comps' = comps \cup ins
      BY <1>4, <1>8
    <2> QED BY <2>1, <2>2, <2>3, <2>4 DEF Told
  <1> QED BY <1>10, <1>12, <1>13 DEF XInv, EachTold, RowsThere, CompletionsHeld

\* Reopening deletes every completion of its candidate: each is linked from its row, was
\* there when the request read, and is told from any other it may have found.
LEMMA ReopenHolds ==
  ASSUME TInv, XInv, NEW r \in DOMAIN open, ReopenCommits(r)
  PROVE  XInv'
  <1> DEFINE q == open[r]
  <1>1. q = open[r]
    OBVIOUS
  <1>2. q.op = "reopen"
    BY DEF ReopenCommits
  <1>3. PICK c \in DOMAIN q.read :
          LET Found == {i \in DOMAIN q.read[c].rows : Undone(c, q.read[c], i, q.seen) # {}}
          IN  \E pick \in [Found -> q.seen] :
                /\ \A i \in Found : pick[i] \in Undone(c, q.read[c], i, q.seen)
                /\ Commits(r, q.to, {}, {pick[i] : i \in Found})
    BY DEF ReopenCommits
  <1>4. PICK Found : Found = {i \in DOMAIN q.read[c].rows : Undone(c, q.read[c], i, q.seen) # {}}
    OBVIOUS
  <1>5. PICK pick \in [Found -> q.seen] :
                /\ \A i \in Found : pick[i] \in Undone(c, q.read[c], i, q.seen)
                /\ Commits(r, q.to, {}, {pick[i] : i \in Found})
    BY <1>3, <1>4
  <1>6. PICK to : to = q.to
    OBVIOUS
  <1>7. PICK del : del = {pick[i] : i \in Found}
    OBVIOUS
  <1>8. PICK none : none = {}
    OBVIOUS
  <1>9. Commits(r, to, none, del)
    BY <1>5, <1>6, <1>7, <1>8
  <1>10. /\ DOMAIN q.read = {c} /\ DOMAIN to = {c}
         /\ q.read[c].status = "confirmed" /\ to[c].status = "pending"
         /\ \A x \in comps : x.cand = c => x \in q.seen
    <2>1. Aims(q)
      BY <1>1 DEF XInv, AimsHold
    <2> QED BY <1>2, <1>6, <2>1 DEF Aims
  <1>11. /\ DOMAIN to \subseteq DOMAIN open[r].read
         /\ \A d \in DOMAIN to : IsCandidate(to[d]) /\ DOMAIN to[d].rows = DOMAIN open[r].read[d].rows
    <2>1. open[r].op # "write"
      BY <1>1, <1>2
    <2> QED BY <1>1, <1>6, <2>1, ToTypes
  <1>12. /\ DOMAIN cands' = DOMAIN cands
         /\ \A d \in DOMAIN cands : d # c => cands'[d] = cands[d]
         /\ comps' = comps \ del /\ Close(r) /\ UNCHANGED <<entries, gone>>
    <2>1. /\ DOMAIN cands' = DOMAIN cands
          /\ \A d \in DOMAIN cands : d \notin DOMAIN to => cands'[d] = cands[d]
          /\ comps' = (comps \ del) \cup none /\ Close(r) /\ UNCHANGED <<entries, gone>>
      BY <1>9, <1>11, CommitValues
    <2> QED BY <1>8, <1>10, <2>1
  <1>13. Apart' /\ ReadsHold' /\ AimsHold' /\ \A s \in DOMAIN open' : Told(open'[s].seen)
    <2>1. DOMAIN open[r].read = {c}
      BY <1>1, <1>10
    <2>2. \A d \in DOMAIN cands : d \notin DOMAIN open[r].read => d \in DOMAIN cands' /\ cands'[d] = cands[d]
      BY <1>12, <2>1
    <2> QED BY <1>12, <2>2, OthersHold
  <1>14. ASSUME NEW x \in comps, x.cand = c PROVE x \in del
    <2>1. PICK old : old = q.read[c]
      OBVIOUS
    <2>2. StillSo(cands[c], old) /\ c \in DOMAIN cands
      BY <1>1, <2>1 DEF XInv, ReadsHold
    <2>3. old \in Candidate(DOMAIN old.rows)
      BY <1>1, <2>1, CandidateLines DEF TInv, TypeOK, OpenRequest
    <2>4. cands[c].rows = old.rows
      BY <2>2, <2>3 DEF StillSo, Candidate
    <2>5. PICK i : i = x.row
      OBVIOUS
    <2>6. i \in DOMAIN old.rows /\ old.rows[i].link = x.copy
      BY <1>14, <2>2, <2>4, <2>5 DEF XInv, RowsThere, CompletionsHeld, HoldsCompletion
    <2>7. x.copy # 0
      BY DEF TInv, TypeOK, Completion
    <2>8. Undone(c, old, i, q.seen) = {z \in q.seen : z.cand = c /\ z.row = i /\ z.copy = x.copy}
      BY <2>6, <2>7 DEF Undone
    <2>9. x \in q.seen
      BY <1>10, <1>14
    <2>10. x \in Undone(c, old, i, q.seen)
      BY <1>14, <2>5, <2>8, <2>9
    <2>11. i \in Found
      BY <1>4, <2>1, <2>6, <2>10
    <2>12. pick[i] \in {z \in q.seen : z.cand = c /\ z.row = i /\ z.copy = x.copy}
      BY <1>5, <2>1, <2>8, <2>11
    <2>13. pick[i] = x
      <3>1. Told(q.seen)
        BY <1>1 DEF XInv, EachTold
      <3> QED BY <1>14, <2>5, <2>9, <2>12, <3>1 DEF Told
    <2> QED BY <1>7, <2>11, <2>13
  <1>15. RowsThere' /\ CompletionsHeld' /\ EachTold'
    <2>1. \A x \in comps' : x \in comps /\ x.cand # c
      BY <1>12, <1>14
    <2> QED BY <1>12, <1>13, <2>1 DEF XInv, EachTold, Told, RowsThere, CompletionsHeld, HoldsCompletion
  <1> QED BY <1>13, <1>15 DEF XInv

LEMMA ClearHolds ==
  ASSUME TInv, XInv, NEW r \in DOMAIN open, ClearCommits(r)
  PROVE  XInv'
  <1>1. PICK S : S = DOMAIN open[r].read
    OBVIOUS
  <1>2. /\ open[r].op = "clear" /\ cands' = Restrict(cands, DOMAIN cands \ S)
        /\ gone' = gone \cup (S \cap DOMAIN cands) /\ Close(r) /\ UNCHANGED <<comps, entries>>
    BY <1>1 DEF ClearCommits, WithoutAll
  <1>3. /\ DOMAIN cands' = DOMAIN cands \ S
        /\ \A c \in DOMAIN cands' : cands'[c] = cands[c]
    BY <1>2 DEF Restrict
  <1>4. /\ Apart' /\ ReadsHold' /\ AimsHold' /\ \A s \in DOMAIN open' : Told(open'[s].seen)
    <2>1. \A c \in DOMAIN cands : c \notin DOMAIN open[r].read => c \in DOMAIN cands' /\ cands'[c] = cands[c]
      BY <1>1, <1>3
    <2>2. gone \subseteq gone'
      BY <1>2
    <2> QED BY <1>2, <2>1, <2>2, OthersHold
  <1>5. \A x \in comps : x.cand \notin S
    BY <1>1, <1>2, StillPending
  <1>6. EachTold' /\ RowsThere' /\ CompletionsHeld'
    BY <1>2, <1>3, <1>4, <1>5 DEF XInv, EachTold, Told, RowsThere, CompletionsHeld, HoldsCompletion
  <1> QED BY <1>4, <1>6 DEF XInv

LEMMA WriteHolds ==
  ASSUME TInv, XInv, NEW r \in DOMAIN open, WriteCommits(r)
  PROVE  XInv'
  <1>1. PICK T : T = DOMAIN open[r].to
    OBVIOUS
  <1>2. /\ DOMAIN cands' = DOMAIN cands \cup T
        /\ \A c \in DOMAIN cands : cands'[c] = cands[c]
        /\ Close(r) /\ UNCHANGED <<comps, entries, gone>>
    BY <1>1, WriteCommitsFacts
  <1>3. /\ Apart' /\ ReadsHold' /\ AimsHold' /\ \A s \in DOMAIN open' : Told(open'[s].seen)
    <2>1. \A c \in DOMAIN cands : c \notin DOMAIN open[r].read => c \in DOMAIN cands' /\ cands'[c] = cands[c]
      BY <1>2
    <2> QED BY <1>2, <2>1, OthersHold
  <1>4. EachTold' /\ RowsThere' /\ CompletionsHeld'
    BY <1>2, <1>3 DEF XInv, EachTold, Told, RowsThere, CompletionsHeld, HoldsCompletion
  <1> QED BY <1>3, <1>4 DEF XInv

LEMMA AddGameReadsHolds ==
  ASSUME TInv, XInv, NEW r \in DOMAIN open, AddGameReads(r)
  PROVE  XInv'
  <1>1. PICK q :
           /\ DOMAIN open' = DOMAIN open /\ open'[r] = q
           /\ \A s \in DOMAIN open : s # r => open'[s] = open[s]
           /\ UNCHANGED <<cands, comps, entries, gone>>
           /\ open[r].op = "adding" /\ q.op = "logNew" /\ q.seen = {}
           /\ OpenRequest(q)
           /\ DOMAIN q.read = DOMAIN open[r].read /\ DOMAIN q.to = DOMAIN open[r].read
           /\ \A c \in DOMAIN q.read :
                 /\ c \in Pending /\ q.read[c] = cands[c] /\ q.to[c].rows = cands[c].rows
    BY AddGameReadsFacts
  <1>2. Aims(q) /\ Told(q.seen)
    BY <1>1, PendingFacts DEF Aims, Told
  <1>3. Apart'
    <2>1. \A s \in DOMAIN open' : DOMAIN open'[s].read = DOMAIN open[s].read
      BY <1>1
    <2> QED BY <1>1, <2>1 DEF XInv, Apart
  <1>4. ReadsHold'
    <2>1. ASSUME NEW s \in DOMAIN open', NEW p, p = open'[s], NEW c \in DOMAIN p.read
          PROVE  c \in DOMAIN cands' /\ StillSo(cands[c], p.read[c])'
      <3>1. CASE s = r
        BY <1>1, <2>1, <3>1, PendingFacts DEF StillSo
      <3>2. CASE s # r
        <4>1. s \in DOMAIN open /\ p = open[s]
          BY <1>1, <2>1, <3>2
        <4>2. c \in DOMAIN cands /\ StillSo(cands[c], p.read[c])
          BY <2>1, <4>1 DEF XInv, ReadsHold
        <4> QED BY <1>1, <4>2 DEF StillSo
      <3> QED BY <3>1, <3>2
    <2> QED BY <2>1 DEF ReadsHold
  <1>5. AimsHold'
    <2>1. ASSUME NEW s \in DOMAIN open', NEW p, p = open'[s] PROVE Aims(p)'
      <3>1. Aims(p)
        BY <1>1, <1>2, <2>1 DEF XInv, AimsHold
      <3> QED BY <1>1, <3>1 DEF Aims
    <2> QED BY <2>1 DEF AimsHold
  <1>6. EachTold'
    BY <1>1, <1>2 DEF XInv, EachTold, Told
  <1>7. RowsThere' /\ CompletionsHeld'
    BY <1>1 DEF XInv, RowsThere, CompletionsHeld, HoldsCompletion
  <1> QED BY <1>3, <1>4, <1>5, <1>6, <1>7 DEF XInv

LEMMA DeletesHold ==
  ASSUME TInv, XInv
  PROVE  /\ \A x \in comps : DeleteCompletion(x) => XInv'
         /\ \A e \in entries : DeleteEntry(e) => XInv'
  <1>1. ASSUME NEW x \in comps, DeleteCompletion(x) PROVE XInv'
    <2>1. comps' = comps \ {x} /\ UNCHANGED <<cands, entries, gone, open>>
      BY <1>1 DEF DeleteCompletion
    <2>2. Apart' /\ EachTold' /\ RowsThere' /\ CompletionsHeld'
      BY <2>1 DEF XInv, Apart, EachTold, Told, RowsThere, CompletionsHeld, HoldsCompletion
    <2>3. ReadsHold'
      BY <2>1 DEF XInv, ReadsHold, StillSo
    <2>4. AimsHold'
      <3>1. ASSUME NEW s \in DOMAIN open, NEW p, p = open[s] PROVE Aims(p)'
        <4>1. Aims(p)
          BY <3>1 DEF XInv, AimsHold
        <4> QED BY <2>1, <4>1 DEF Aims
      <3> QED BY <2>1, <3>1 DEF AimsHold
    <2> QED BY <2>2, <2>3, <2>4 DEF XInv
  <1>2. ASSUME NEW e \in entries, DeleteEntry(e) PROVE XInv'
    <2>1. /\ \A x \in comps : x.entry # e
          /\ entries' = entries \ {e} /\ gone' = gone \cup {e}
          /\ cands' = [c \in DOMAIN cands |->
                         IF cands[c].entry = e THEN [cands[c] EXCEPT !.entry = NoEntry] ELSE cands[c]]
          /\ UNCHANGED <<comps, open>>
      BY <1>2 DEF DeleteEntry, SetNull
    <2>2. e # NoEntry
      BY ReviewAssumption DEF TInv, TypeOK
    <2>3. ASSUME NEW x \in comps PROVE x.cand \in DOMAIN cands /\ cands'[x.cand] = cands[x.cand]
      BY <2>1 DEF XInv, CompletionsHeld, HoldsCompletion
    <2>4. DOMAIN cands' = DOMAIN cands
      BY <2>1
    <2>5. Apart' /\ EachTold' /\ RowsThere' /\ CompletionsHeld'
      BY <2>1, <2>3, <2>4 DEF XInv, Apart, EachTold, Told, RowsThere, CompletionsHeld, HoldsCompletion
    <2>6. ReadsHold'
      <3>1. ASSUME NEW s \in DOMAIN open, NEW c \in DOMAIN open[s].read
            PROVE  c \in DOMAIN cands' /\ StillSo(cands[c], open[s].read[c])'
        <4>1. PICK old : old = open[s].read[c]
          OBVIOUS
        <4>2. c \in DOMAIN cands /\ StillSo(cands[c], old)
          BY <4>1 DEF XInv, ReadsHold
        <4>3. PICK cur : cur = cands[c]
          OBVIOUS
        <4>4. PICK new : new = cands'[c]
          OBVIOUS
        <4>5. old \in Candidate(DOMAIN old.rows)
          BY <4>1, CandidateLines DEF TInv, TypeOK, OpenRequest
        <4>6. new = IF cur.entry = e THEN [cur EXCEPT !.entry = NoEntry] ELSE cur
          BY <2>1, <4>2, <4>3, <4>4
        <4>7. CASE cur = old
          <5>1. CASE cur.entry = e
            BY <2>1, <4>6, <4>7, <5>1, <4>4, <4>1, <4>2, <2>4 DEF StillSo
          <5>2. CASE cur.entry # e
            BY <4>6, <4>7, <5>2, <4>4, <4>1, <4>2, <2>4, <2>1 DEF StillSo
          <5> QED BY <5>1, <5>2
        <4>8. CASE old.entry \in gone \ entries /\ cur = [old EXCEPT !.entry = NoEntry]
          <5>1. cur.entry = NoEntry
            BY <4>5, <4>8 DEF Candidate
          <5>2. new = cur
            BY <2>2, <4>6, <5>1
          <5>3. old.entry \in gone' \ entries'
            BY <2>1, <4>8
          <5>4. old = open'[s].read[c] /\ new = cands'[c] /\ c \in DOMAIN cands'
            BY <2>1, <2>4, <4>1, <4>2, <4>4
          <5>5. new = [old EXCEPT !.entry = NoEntry]
            BY <4>8, <5>2
          <5> QED BY <5>3, <5>4, <5>5 DEF StillSo
        <4> QED BY <4>2, <4>3, <4>7, <4>8 DEF StillSo
      <3> QED BY <2>1, <3>1 DEF ReadsHold
    <2>7. AimsHold'
      <3>1. ASSUME NEW s \in DOMAIN open, NEW p, p = open[s] PROVE Aims(p)'
        <4>1. Aims(p)
          BY <3>1 DEF XInv, AimsHold
        <4> QED BY <2>1, <4>1 DEF Aims
      <3> QED BY <2>1, <3>1 DEF AimsHold
    <2> QED BY <2>5, <2>6, <2>7 DEF XInv
  <1> QED BY <1>1, <1>2

LEMMA InitHolds == Init => XInv
  <1> SUFFICES ASSUME Init PROVE XInv
    OBVIOUS
  <1>1. comps = {} /\ DOMAIN open = {}
    BY DEF Init, Nothing
  <1> QED BY <1>1 DEF XInv, Apart, ReadsHold, AimsHold, EachTold, Told, RowsThere, CompletionsHeld

LEMMA NextHolds ==
  ASSUME Exclusive
  PROVE  TInv /\ XInv /\ [Next]_vars => XInv'
  <1> SUFFICES ASSUME TInv, XInv, [Next]_vars PROVE XInv'
    OBVIOUS
  <1>1. CASE Begins
    <2>1. ASSUME NEW g \in Files, WriteReads(g) PROVE XInv'
      <3>1. PICK r, c, x : WritesOne(r, c, x)
        BY <2>1, WriteFacts
      <3> QED BY <3>1, WriteReadsHolds
    <2> QED BY <1>1, <2>1, BeginsReads, ReadsWellHold, AddGameHolds
  <1>2. ASSUME NEW r \in DOMAIN open, Ends(r) PROVE XInv'
    <2>1. CASE LogCommits(r)
      BY <2>1, LogKeepsTypes, LogsHold
    <2>2. CASE AddGameCommits(r)
      BY <2>2, AddGameLogs, LogsHold
    <2> QED BY <1>2, <2>1, <2>2, AddGameReadsHolds, SaveHolds, ReopenHolds, ClearHolds,
               WriteHolds, FailsHolds DEF Ends
  <1>3. CASE UNCHANGED vars
    <2>1. UNCHANGED <<cands, comps, entries, gone, open>>
      BY <1>3 DEF vars
    <2> QED BY <2>1 DEF XInv, Apart, ReadsHold, StillSo, AimsHold, Aims, EachTold, Told,
                        RowsThere, CompletionsHeld, HoldsCompletion
  <1> QED BY <1>1, <1>2, <1>3, DeletesHold DEF Next

\* While no two requests are about one candidate, each completion an import logged is held
\* by a confirmed candidate whose row links to it (pages_import.py:876, :919, :1105), with
\* transactions that fail, entries deleted between read and commit, and imports beside them.
THEOREM CompletionsStayHeld ==
  ASSUME Exclusive
  PROVE  Spec => []CompletionsHeld
  <1>1. Init => TInv /\ XInv
    BY InitTypes, InitHolds
  <1>2. TInv /\ XInv /\ [Next]_vars => (TInv /\ XInv)'
    BY NextTypes, NextHolds
  <1>3. XInv => CompletionsHeld
    BY DEF XInv
  <1> QED BY <1>1, <1>2, <1>3, PTL DEF Spec

\* A step leaves what is decided alone, unless it is the commit of a reopening.
LEMMA DecidedStay ==
  ASSUME TInv, XInv, [Next]_vars, NEW c \in DOMAIN cands, cands[c].status # "pending"
  PROVE  /\ c \in DOMAIN cands'
         /\ \/ cands'[c].status = cands[c].status
            \/ cands[c].status = "confirmed" /\ cands'[c].status = "pending"
  <1>1. CASE UNCHANGED cands
    BY <1>1
  <1>2. CASE Begins
    <2>1. UNCHANGED cands
      BY <1>2 DEF Begins, Confirm, Dismiss, Link, AddGame, Edit, Rematch, Reopen, Recheck, Clear,
                  WriteReads, Reads
    <2> QED BY <2>1
  <1>3. ASSUME NEW r \in DOMAIN open, Ends(r), ~UNCHANGED cands
        PROVE  /\ c \in DOMAIN cands'
               /\ \/ cands'[c].status = cands[c].status
                  \/ cands[c].status = "confirmed" /\ cands'[c].status = "pending"
    <2>1. ASSUME NEW to, NEW ins, NEW del, Commits(r, to, ins, del),
                 open[r].op # "reopen", DOMAIN to \subseteq DOMAIN open[r].read
          PROVE  c \in DOMAIN cands' /\ cands'[c] = cands[c]
      <3>1. c \notin DOMAIN to
        BY <2>1, StillPending
      <3> QED BY <2>1, <3>1 DEF Commits
    <2>2. ASSUME LogCommits(r) \/ AddGameCommits(r)
          PROVE  c \in DOMAIN cands' /\ cands'[c] = cands[c]
      <3>1. PICK P \in SUBSET DatedRows(open[r].to) :
               /\ open[r].op \in {"log", "logNew"}
               /\ Commits(r, Stamped(open[r].to, P), {Logged(open[r].to, x) : x \in P}, {})
        <4>1. CASE LogCommits(r)
          BY <4>1, LogKeepsTypes
        <4>2. CASE AddGameCommits(r)
          BY <4>2, AddGameLogs
        <4> QED BY <2>2, <4>1, <4>2
      <3>2. PICK to : to = Stamped(open[r].to, P)
        OBVIOUS
      <3>3. PICK ins : ins = {Logged(open[r].to, x) : x \in P}
        OBVIOUS
      <3>4. Commits(r, to, ins, {}) /\ open[r].op # "reopen" /\ open[r].op # "write"
        BY <3>1, <3>2, <3>3
      <3>5. DOMAIN to \subseteq DOMAIN open[r].read
        BY <3>2, <3>4, ToTypes DEF Stamped
      <3> QED BY <2>1, <3>4, <3>5
    <2>3. CASE SaveCommits(r)
      <3>1. Commits(r, open[r].to, {}, {}) /\ open[r].op # "reopen" /\ open[r].op # "write"
        BY <2>3 DEF SaveCommits
      <3> QED BY <2>1, <3>1, ToTypes
    <2>4. CASE ClearCommits(r)
      <3>1. c \notin DOMAIN open[r].read
        BY <2>4, StillPending DEF ClearCommits
      <3> QED BY <2>4, <3>1 DEF ClearCommits, WithoutAll, Restrict
    <2>5. CASE WriteCommits(r)
      BY <2>5, WriteCommitsFacts
    <2>6. CASE ReopenCommits(r)
      <3>1. PICK del : Commits(r, open[r].to, {}, del) /\ open[r].op = "reopen"
        BY <2>6 DEF ReopenCommits
      <3>2. PICK d \in DOMAIN open[r].read : /\ DOMAIN open[r].read = {d} /\ DOMAIN open[r].to = {d}
                 /\ open[r].read[d].status = "confirmed" /\ open[r].to[d].status = "pending"
        BY <3>1 DEF XInv, AimsHold, Aims
      <3>3. PICK to : to = open[r].to
        OBVIOUS
      <3>4. PICK none : none = {}
        OBVIOUS
      <3>5. Commits(r, to, none, del)
        BY <3>1, <3>3, <3>4
      <3>6. /\ DOMAIN to \subseteq DOMAIN open[r].read
            /\ \A x \in DOMAIN to : IsCandidate(to[x]) /\ DOMAIN to[x].rows = DOMAIN open[r].read[x].rows
        <4>1. open[r].op # "write"
          BY <3>1
        <4> QED BY <3>3, <4>1, ToTypes
      <3>7. /\ DOMAIN cands' = DOMAIN cands
            /\ c \notin DOMAIN to => cands'[c] = cands[c]
            /\ c \in DOMAIN to => cands'[c].status = to[c].status
        BY <3>5, <3>6, CommitValues
      <3>8. CASE c = d
        <4>1. PICK old : old = open[r].read[d]
          OBVIOUS
        <4>2. StillSo(cands[d], old) /\ old.status = "confirmed" /\ old \in Candidate(DOMAIN old.rows)
          BY <3>2, <4>1, CandidateLines DEF XInv, ReadsHold, TInv, TypeOK, OpenRequest
        <4>3. cands[d].status = "confirmed"
          BY <4>2 DEF StillSo, Candidate
        <4> QED BY <3>2, <3>3, <3>7, <3>8, <4>3
      <3> QED BY <3>2, <3>3, <3>7, <3>8
    <2>7. CASE AddGameReads(r) \/ Fails(r)
      BY <1>3, <2>7 DEF AddGameReads, Fails
    <2> QED BY <1>3, <2>2, <2>3, <2>4, <2>5, <2>6, <2>7 DEF Ends
  <1>4. ASSUME NEW e \in entries, DeleteEntry(e)
        PROVE  c \in DOMAIN cands' /\ cands'[c].status = cands[c].status
    <2>1. cands' = [d \in DOMAIN cands |->
                     IF cands[d].entry = e THEN [cands[d] EXCEPT !.entry = NoEntry] ELSE cands[d]]
      BY <1>4 DEF DeleteEntry, SetNull
    <2>2. cands[c] \in Candidate(DOMAIN cands[c].rows)
      BY PendingFacts
    <2>3. [cands[c] EXCEPT !.entry = NoEntry].status = cands[c].status
      BY <2>2 DEF Candidate
    <2> QED BY <2>1, <2>3
  <1>5. CASE \E x \in comps : DeleteCompletion(x)
    BY <1>1, <1>5 DEF DeleteCompletion
  <1> QED BY <1>1, <1>2, <1>3, <1>4, <1>5 DEF Next, vars

\* A dismissal is final and a confirmed candidate leaves that state only by being reopened:
\* no request that read the candidate as pending takes the decision back, while no two are
\* about one candidate (pages_import.py:875, :1185).
THEOREM DecisionsAreFinal ==
  ASSUME Exclusive
  PROVE  Spec => DecisionsStand
  <1>1. Init => TInv /\ XInv
    BY InitTypes, InitHolds
  <1>2. TInv /\ XInv /\ [Next]_vars => (TInv /\ XInv)'
    BY NextTypes, NextHolds
  <1>3. TInv /\ XInv /\ [Next]_vars =>
          [ \A c \in DOMAIN cands :
              cands[c].status # "pending" =>
                 /\ c \in DOMAIN cands'
                 /\ \/ cands'[c].status = cands[c].status
                    \/ cands[c].status = "confirmed" /\ cands'[c].status = "pending" ]_vars
    BY DecidedStay
  <1> QED BY <1>1, <1>2, <1>3, PTL DEF Spec, DecisionsStand
=============================================================================
