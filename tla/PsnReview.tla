------------------------------- MODULE PsnReview -------------------------------
(***************************************************************************)
(* PSN sync and its review queue, for one user: backend/psn.py             *)
(* (sync_library, import_merged, the decisions, fill_review_proposals,     *)
(* link_igdb_ids), the handlers of backend/pages_match_review.py and the   *)
(* store pass of backend/psn_store.py.                                     *)
(*                                                                         *)
(* A sync crawls, imports in one transaction by what it read before, then  *)
(* retires, looks names up row by row, and starts the follow-up chain.     *)
(* Pages decide rows all the while; the decision that empties the queue    *)
(* starts a chain too.  A game is one trophy set (the merge and grouping   *)
(* rules that make it so are in PsnRules); its record has one of two ids,  *)
(* by what Sony's feeds know of it, and that changes.                      *)
(***************************************************************************)
EXTENDS Integers, FiniteSets, FiniteSetsExt

CONSTANTS Games, Platforms,
          Covers,  \* [Games -> platforms the set covers]
          May,     \* [Games -> forms the feeds may show it in]
          Ticks, \* sets of platforms a user may tick
          Pages,   \* bound: requests of the user under way at once
          Hits,    \* what a lookup may say of a name
          MaxActs  \* bound: changes of the feeds, reopenings, names, failures

Forms == {"gone", "demo", "played", "set", "joined", "full"}

ASSUME PsnAssumption == /\ IsFiniteSet(Platforms)
                        /\ Covers \in [Games -> (SUBSET Platforms) \ {{}}]
                        /\ May \in [Games -> (SUBSET Forms) \ {{}}]
                        /\ Hits \subseteq {"none", "matched", "pending"} /\ Pages \in Nat /\ MaxActs \in Nat
                        /\ {} \in Ticks /\ Ticks \subseteq SUBSET Platforms

VARIABLES feed,     \* games -> what Sony's feeds show of it now
          vetting,  \* there are IGDB credentials; never changes
          rows,     \* psn_review_candidates: id -> row
          entries,  \* releases with their library entry: (id, platform) -> entry
          ticked,   \* history: (game, platform) the user has asked for
          answered, \* history: (game, form) the user has decided on and not reopened
          sync,     \* the sync under way
          look,     \* its title lookups: rows to do, row being looked up
          recording,\* requests that have made an entry and not yet recorded why: their rows
          counting, \* number of requests that have committed and not yet counted
          chain,    \* the follow-up chain; another one waits for its end
          cut,      \* history: a sync or a chain was cut short, and none begun since
          acts

vars == <<feed, vetting, rows, entries, ticked, answered, sync, look, recording, counting, chain, cut, acts>>

Ids     == Games \X {"np", "title"}
Slots   == Ids \X Platforms
Kinds   == {"played_only", "cross_play", "title_fix", "igdb_link"}
Lookups == {"unasked", "none", "matched", "pending", "accepted", "rejected"}
Nothing == [x \in {} |-> x]
NoSync  == [phase |-> "idle"]
NoLook  == [todo |-> {}, row |-> <<>>]
NoChain == [phase |-> "none"]

TypeOK ==
    /\ feed \in [Games -> Forms] /\ vetting \in BOOLEAN /\ cut \in BOOLEAN
    /\ DOMAIN rows \subseteq Ids
    /\ \A r \in DOMAIN rows :
          rows[r] \in [kind : Kinds, status : {"pending", "confirmed", "dismissed"},
                       chosen : SUBSET Platforms, form : Forms, lookup : Lookups, id : BOOLEAN]
    /\ DOMAIN entries \subseteq Slots
    /\ \A e \in DOMAIN entries :
          /\ e[2] \in Covers[e[1][1]]
          /\ entries[e] \in [name : {"sony", "approved"}, id : BOOLEAN, tried : BOOLEAN]
    /\ ticked \subseteq Games \X Platforms /\ answered \subseteq Games \X Forms
    /\ look.todo \subseteq Ids /\ look.row \in Ids \cup {<<>>}
    /\ recording \subseteq Ids /\ counting \in 0..Pages
    /\ acts \in 0..MaxActs

Init ==
    /\ feed \in {f \in [Games -> Forms] : \A g \in Games : f[g] \in May[g]}
    /\ vetting \in BOOLEAN
    /\ rows = Nothing /\ entries = Nothing /\ ticked = {} /\ answered = {}
    /\ sync = NoSync /\ look = NoLook
    /\ recording = {} /\ counting = 0 /\ chain = NoChain
    /\ cut = FALSE /\ acts = 0

Act == acts < MaxActs /\ acts' = acts + 1

IsPending(r) == rows[r].status = "pending"
Pending      == {r \in DOMAIN rows : IsPending(r)}
Queue        == {r \in Pending : rows[r].kind # "played_only"}
\* Rows of one game are one question.
Group(g)     == {r \in Queue : r[1] = g}

With(f, x, v) == [y \in DOMAIN f \cup {x} |-> IF y = x THEN v ELSE f[y]]

-----------------------------------------------------------------------------
(* Library entries *)

\* external_id_for: a set alone is known by its own id, anything else by the title's.
IdOf(g, f) == IF f = "set" THEN <<g, "np">> ELSE <<g, "title">>

\* Another release of the game holds the platform, under the name this one would get.
Conflicts(es, id, p, name) ==
    \E e \in DOMAIN es : e[1][1] = id[1] /\ e[1] # id /\ e[2] = p /\ es[e].name = name

\* Mutant: the record keeps no flag.
NewUntried(name, linked) == [name |-> name, id |-> linked]

NewEntry(name, linked) == [name |-> name, id |-> linked, tried |-> FALSE]

\* _import_one on each platform of P.  An existing release takes the name of the item.
ImportAll(es, id, P, name, linked) ==
    LET created == {p \in P : <<id, p>> \notin DOMAIN es /\ ~Conflicts(es, id, p, name)}
    IN  [e \in DOMAIN es \cup {<<id, p>> : p \in created} |->
            IF e \notin DOMAIN es THEN NewEntry(name, linked)
            ELSE IF e[1] = id /\ e[2] \in P THEN [es[e] EXCEPT !.name = name]
            ELSE es[e]]

-----------------------------------------------------------------------------
(* The sync *)

\* Sony lists more or less of a game: a membership lapses, a trophy is earned.
FeedChanges(g, f) == /\ f \in May[g] \ {feed[g]} /\ Act
                     /\ feed' = [feed EXCEPT ![g] = f]
                     /\ UNCHANGED <<vetting, rows, entries, ticked, answered, sync, look, recording, counting, chain, cut>>

\* What becomes of the item of g, in the order of import_merged's tests, by the decided
\* rows and the entries there are when its loop begins.
Better(row, f) == row.status = "confirmed" /\ ~row.id /\ f = "full" /\ row.form # "full"

Route(g) ==
    LET f     == feed[g]
        id    == IdOf(g, f)
        known == id \in DOMAIN rows \ Pending
        held  == \E e \in DOMAIN entries : e[1] = id
    IN  IF f \in {"gone", "demo"} THEN "skip"
        ELSE IF f = "played" THEN "played_only"
        ELSE IF known THEN IF vetting /\ Better(rows[id], f) THEN "reopen" ELSE "refresh"
        ELSE IF Cardinality(Covers[g]) > 1 THEN "cross_play"
        ELSE IF (vetting \/ f = "set") /\ ~held THEN "title_fix"
        ELSE "import"

\* Mutant: a confirmed row stands for every platform of its set.
PlacesAll(g) ==
    LET id == IdOf(g, feed[g])
    IN  CASE Route(g) = "refresh" -> IF rows[id].status = "confirmed" THEN Covers[g] ELSE {}
          [] Route(g) = "import"  -> Covers[g]
          [] OTHER -> {}

\* Platforms the sync makes or refreshes entries on.
Places(g) ==
    LET id == IdOf(g, feed[g])
    IN  CASE Route(g) = "refresh" -> rows[id].chosen
          [] Route(g) = "import"  -> Covers[g]
          [] OTHER -> {}

\* crawl, then what import_merged reads before its loop.
SyncReads ==
    /\ sync = NoSync
    /\ sync' = [phase |-> "import", feed |-> feed, route |-> [g \in Games |-> Route(g)],
                places |-> [g \in Games |-> Places(g)]]
    /\ UNCHANGED <<feed, vetting, rows, entries, ticked, answered, look, recording, counting, chain, cut, acts>>

\* _upsert_review_candidate: the row under the id, under the set's id, or a pending
\* one for the same set; else a new one.
RowFor(g, f) ==
    LET id == IdOf(g, f)  np == <<g, "np">>  title == <<g, "title">>
    IN  CASE id \in DOMAIN rows -> id
          [] id \notin DOMAIN rows /\ f \in {"joined", "full"} /\ np \in DOMAIN rows -> np
          [] f = "set" /\ id \notin DOMAIN rows /\ title \in Pending
                /\ rows[title].form \in {"joined", "full"} -> title
          [] OTHER -> <<>>

NewRow(kind, f) == [kind |-> kind, status |-> "pending", chosen |-> {}, form |-> f,
                    lookup |-> "unasked", id |-> FALSE]

\* Mutant: the row is refreshed wholesale, its status too.
UpsertedAnew(g, f, kind) ==
    LET r   == RowFor(g, f)
        key == IF r # <<>> /\ f = "set" THEN r ELSE IdOf(g, f)
    IN  [x \in ({y \in DOMAIN rows : y[1] = g} \ {r}) \cup {key} |->
            IF x = key THEN NewRow(kind, f) ELSE rows[x]]

\* The rows of g after its item: what was decided stays decided.  A row that joins a
\* pending one of its set keeps that one's key; one found under the set's id is re-keyed.
Upserted(g, f, kind) ==
    LET r   == RowFor(g, f)
        old == {x \in DOMAIN rows : x[1] = g}
        key == IF r # <<>> /\ f = "set" THEN r ELSE IdOf(g, f)
        row == IF r = <<>> THEN NewRow(kind, f)
               ELSE [rows[r] EXCEPT !.kind = kind, !.form = IF f = "set" /\ r[2] = "title" THEN @ ELSE f]
    IN  [x \in (old \ {r}) \cup {key} |-> IF x = key THEN row ELSE rows[x]]

Reopened(row, f) == [row EXCEPT !.status = "pending", !.form = f, !.lookup = "unasked"]

RowsAfter(g) ==
    LET f == sync.feed[g]  old == [x \in {y \in DOMAIN rows : y[1] = g} |-> rows[x]]
    IN  CASE sync.route[g] \in Kinds -> Upserted(g, f, sync.route[g])
          [] sync.route[g] = "reopen" -> [old EXCEPT ![IdOf(g, f)] = Reopened(@, f)]
          [] OTHER -> old

EntriesAfter(g) ==
    ImportAll([e \in {x \in DOMAIN entries : x[1][1] = g} |-> entries[e]],
              IdOf(g, sync.feed[g]), sync.places[g], "sony", FALSE)

\* One transaction for all items.
SyncImports ==
    /\ sync.phase = "import"
    /\ rows' = [r \in UNION {DOMAIN RowsAfter(g) : g \in Games} |-> RowsAfter(r[1])[r]]
    /\ entries' = [e \in UNION {DOMAIN EntriesAfter(g) : g \in Games} |->
                      EntriesAfter(e[1][1])[e]]
    /\ sync' = [phase |-> "retire", feed |-> sync.feed,
                added |-> DOMAIN entries' # DOMAIN entries]
    /\ UNCHANGED <<feed, vetting, ticked, answered, look, recording, counting, chain, cut, acts>>

\* retire_non_game_candidates; then the rows to look up are listed.
SyncRetires ==
    /\ sync.phase = "retire"
    /\ rows' = [r \in DOMAIN rows |->
                   IF IsPending(r) /\ rows[r].kind = "played_only" /\ sync.feed[r[1]] = "demo"
                   THEN [rows[r] EXCEPT !.status = "dismissed"] ELSE rows[r]]
    /\ sync' = [phase |-> "lookup", added |-> sync.added]
    /\ look' = [NoLook EXCEPT !.todo = {r \in DOMAIN rows' : /\ vetting /\ rows'[r].status = "pending"
                                                             /\ rows'[r].lookup = "unasked"}]
    /\ UNCHANGED <<feed, vetting, entries, ticked, answered, recording, counting, chain, cut, acts>>

\* fill_review_proposals: one row after the other, the status not asked for again.
LooksUp(r) == /\ sync.phase = "lookup" /\ look.row = <<>> /\ r \in look.todo
              /\ look' = [todo |-> look.todo \ {r}, row |-> r]
              /\ UNCHANGED <<feed, vetting, rows, entries, ticked, answered, sync, recording, counting, chain, cut, acts>>

Learns(answer) ==
    /\ look.row # <<>>
    /\ rows' = [rows EXCEPT ![look.row].lookup = answer, ![look.row].id = answer # "none"]
    /\ look' = [look EXCEPT !.row = <<>>]
    /\ UNCHANGED <<feed, vetting, entries, ticked, answered, sync, recording, counting, chain, cut, acts>>

LearnsNothing == /\ look.row # <<>>
                 /\ look' = [look EXCEPT !.row = <<>>]
                 /\ UNCHANGED <<feed, vetting, rows, entries, ticked, answered, sync, recording, counting, chain, cut, acts>>

Due(added) == [phase |-> "due", added |-> added]
Starts(added) == chain = NoChain /\ chain' = Due(added)

SyncEnds == /\ sync.phase = "lookup" /\ look = NoLook
            /\ sync' = NoSync /\ Starts(sync.added)
            /\ UNCHANGED <<feed, vetting, rows, entries, ticked, answered, look, recording, counting, cut, acts>>

SyncFails == /\ sync # NoSync /\ Act
             /\ sync' = NoSync /\ look' = NoLook /\ cut' = TRUE
             /\ UNCHANGED <<feed, vetting, rows, entries, ticked, answered, recording, counting, chain>>

-----------------------------------------------------------------------------
(* Decisions.  Each commits before its request counts what is still pending; a    *)
(* bulk request makes several and counts once.                                    *)

Answers(S) == answered' = answered \cup {<<r[1], rows[r].form>> : r \in S}
Free     == Cardinality(recording) + counting < Pages
Counts   == Free /\ counting' = counting + 1 /\ UNCHANGED recording
InBulk   == counting > 0 /\ UNCHANGED <<recording, counting>>

\* The record that gives an entry its id: played or bought before a bare set.
Owner(g) == IF <<g, "title">> \in Group(g) THEN <<g, "title">> ELSE <<g, "np">>
Proposers(g) == {r \in Group(g) : rows[r].lookup \in {"pending", "accepted"}}
Matched(g)   == {r \in Group(g) : rows[r].lookup = "matched" /\ rows[r].id}

Decided(r, owner, P) ==
    [rows[r] EXCEPT !.status = IF r = owner /\ P # {} THEN "confirmed" ELSE "dismissed",
                    !.chosen = IF r = owner THEN P ELSE {},
                    !.lookup = IF @ = "pending" THEN "accepted" ELSE @]

\* confirm_entry_decision; with no platform it is a dismissal.  A name typed into the
\* form counts as one given by Rename just before.
Confirm(r, P) ==
    LET g     == r[1]
        owner == Owner(g)
        named == Proposers(g) # {}
        id    == Matched(g) # {} \/ \E m \in Proposers(g) : rows[m].id
    IN  /\ r \in Queue /\ rows[r].kind # "igdb_link" /\ P \subseteq Covers[g]
        /\ entries' = ImportAll(entries, owner, P, IF named THEN "approved" ELSE "sony", id)
        /\ rows' = [x \in DOMAIN rows |-> IF x \in Group(g) THEN Decided(x, owner, P) ELSE rows[x]]
        /\ ticked' = ticked \cup ({g} \X P) /\ Answers(Group(g))
        /\ (Counts \/ InBulk)
        /\ UNCHANGED <<feed, vetting, sync, look, chain, cut, acts>>

\* The same for an entry there is: only the id is attached.
ConfirmLink(r) ==
    /\ r \in Queue /\ rows[r].kind = "igdb_link"
    /\ entries' = [e \in DOMAIN entries |->
                      IF e[1] = r /\ rows[r].id THEN [entries[e] EXCEPT !.id = TRUE] ELSE entries[e]]
    /\ rows' = [rows EXCEPT ![r].status = "confirmed", ![r].lookup = "accepted"]
    /\ Answers({r}) /\ (Counts \/ InBulk)
    /\ UNCHANGED <<feed, vetting, ticked, sync, look, chain, cut, acts>>

\* Played-only rows.  The status is not asked for: a page may be old.
Asked(r) == /\ r \in DOMAIN rows /\ rows[r].kind = "played_only"
            /\ \/ IsPending(r) /\ UNCHANGED acts
               \/ ~IsPending(r) /\ Act

\* import_played_only commits the entry, and then the decision.
ImportPlayed(r, p) ==
    /\ Free /\ Asked(r) /\ p \in Covers[r[1]]
    /\ entries' = ImportAll(entries, r, {p}, "sony", FALSE)
    /\ ticked' = ticked \cup {<<r[1], p>>}
    /\ recording' = recording \cup {r} /\ UNCHANGED counting
    /\ UNCHANGED <<feed, vetting, rows, answered, sync, look, chain, cut>>

\* The decision takes the place of the chosen platforms: it names none.
Records(r) ==
    /\ r \in recording /\ recording' = recording \ {r}
    /\ \/ /\ rows[r].kind = "played_only"
          /\ rows' = [rows EXCEPT ![r].status = "confirmed", ![r].chosen = {}]
          /\ counting' = counting + 1 /\ Answers({r})
       \/ /\ rows[r].kind # "played_only"
          /\ UNCHANGED <<rows, answered, counting>>
    /\ UNCHANGED <<feed, vetting, entries, ticked, sync, look, chain, cut, acts>>

\* skip_played_only, and attach_played_only, which adds play time to another entry.
DecidePlayed(r, status) ==
    /\ Asked(r)
    /\ rows' = [rows EXCEPT ![r].status = status, ![r].chosen = {}] /\ Answers({r})
    /\ Counts
    /\ UNCHANGED <<feed, vetting, entries, ticked, sync, look, chain, cut>>

\* Mutant: a chain under way is taken for this one's.
EnrichesUnlessBusy ==
    /\ counting > 0 /\ counting' = counting - 1
    /\ IF Pending = {} /\ chain = NoChain THEN Starts(TRUE) ELSE UNCHANGED chain
    /\ UNCHANGED <<feed, vetting, rows, entries, ticked, answered, sync, look, recording, cut, acts>>

\* _maybe_enrich
EnrichesIfLast ==
    /\ counting > 0 /\ counting' = counting - 1
    /\ IF Pending = {} THEN Starts(TRUE) ELSE UNCHANGED chain
    /\ UNCHANGED <<feed, vetting, rows, entries, ticked, answered, sync, look, recording, cut, acts>>

\* rename_candidate, reject_proposal, reopen_decision
Rename(r, id) == /\ r \in Queue /\ Act
                 /\ rows' = [rows EXCEPT ![r].lookup = "accepted", ![r].id = id]
                 /\ UNCHANGED <<feed, vetting, entries, ticked, answered, sync, look, recording, counting, chain, cut>>

Reject(r) == /\ r \in Queue /\ Act
             /\ rows' = [x \in DOMAIN rows |-> IF x \in Group(r[1])
                            THEN [rows[x] EXCEPT !.lookup = "rejected", !.id = FALSE] ELSE rows[x]]
             /\ UNCHANGED <<feed, vetting, entries, ticked, answered, sync, look, recording, counting, chain, cut>>

Reopen(r) == /\ r \in DOMAIN rows \ Pending /\ rows[r].kind # "played_only" /\ Act
             /\ rows' = [rows EXCEPT ![r].status = "pending", ![r].chosen = {}]
             /\ answered' = {a \in answered : a[1] # r[1]}
             /\ UNCHANGED <<feed, vetting, entries, ticked, sync, look, recording, counting, chain, cut>>

-----------------------------------------------------------------------------
(* The chain: the store pass, then, where entries were added, the IGDB links *)

ChainBegins == /\ chain.phase = "due"
               /\ chain' = [phase |-> "store", added |-> chain.added, todo |-> DOMAIN entries]
               /\ cut' = FALSE
               /\ UNCHANGED <<feed, vetting, rows, entries, ticked, answered, sync, look, recording, counting, acts>>

\* refresh_all_store_metadata: each entry of the list it read has its turn.
StorePass == /\ chain.phase = "store"
             /\ entries' = [e \in DOMAIN entries |->
                               [entries[e] EXCEPT !.tried = @ \/ e \in chain.todo]]
             /\ chain' = IF chain.added /\ vetting THEN [phase |-> "link"] ELSE NoChain
             /\ UNCHANGED <<feed, vetting, rows, ticked, answered, sync, look, recording, counting, cut, acts>>

\* link_igdb_ids takes the entries without an id that no row was ever about: one exact
\* hit links, a near one is asked about.
Unlinked == {e \in DOMAIN entries : ~entries[e].id /\ e[1] \notin DOMAIN rows}
LinkRow  == [NewRow("igdb_link", "joined") EXCEPT !.lookup = "pending", !.id = TRUE]
Links ==
    /\ chain.phase = "link"
    /\ \E L \in SUBSET Unlinked : \E Q \in SUBSET {e[1] : e \in Unlinked \ L} :
          /\ entries' = [e \in DOMAIN entries |-> [entries[e] EXCEPT !.id = @ \/ e \in L]]
          /\ rows' = [x \in DOMAIN rows \cup Q |-> IF x \in Q THEN LinkRow ELSE rows[x]]
    /\ chain' = NoChain
    /\ UNCHANGED <<feed, vetting, ticked, answered, sync, look, recording, counting, cut, acts>>

Restart == /\ Act
           /\ sync' = NoSync /\ look' = NoLook /\ cut' = TRUE
           /\ recording' = {} /\ counting' = 0 /\ chain' = NoChain
           /\ UNCHANGED <<feed, vetting, rows, entries, ticked, answered>>

-----------------------------------------------------------------------------
SyncStep == \/ SyncReads \/ SyncImports \/ SyncRetires \/ SyncEnds
            \/ \E r \in look.todo : LooksUp(r)
            \/ LearnsNothing \/ \E a \in Hits : Learns(a)

Answer == \E r \in Pending :
    \/ \E P \in Ticks : Confirm(r, P)
    \/ ConfirmLink(r)
    \/ \E p \in Covers[r[1]] : ImportPlayed(r, p)
    \/ DecidePlayed(r, "dismissed") \/ DecidePlayed(r, "confirmed")

Again == \E r \in DOMAIN rows \ Pending :
    \/ \E p \in Covers[r[1]] : ImportPlayed(r, p)
    \/ DecidePlayed(r, "dismissed")

PageStep == EnrichesIfLast \/ \E r \in recording : Records(r)

ChainStep == ChainBegins \/ StorePass \/ Links

Edits == \E r \in DOMAIN rows : \/ Reject(r) \/ Reopen(r)
                               \/ \E id \in BOOLEAN : Rename(r, id)

Next == \/ SyncStep \/ SyncFails \/ Answer \/ Again \/ PageStep \/ ChainStep \/ Edits
        \/ \E g \in Games, f \in Forms : FeedChanges(g, f)
        \/ Restart

Spec == Init /\ [][Next]_vars

-----------------------------------------------------------------------------
(* Properties *)

\* "Import creates entries and has no way to un-create them": no sync, whatever its
\* record's id has become and whatever the user decides meanwhile, makes an entry on a
\* platform of a shared set, or with a lookup at hand any entry, that was not asked for
\* (psn.py:1606, :1703).
OnlyTicked ==
    \A e \in DOMAIN entries :
        vetting \/ Cardinality(Covers[e[1][1]]) > 1 => <<e[1][1], e[2]>> \in ticked

\* "Once the review queue is empty, enrich what it created" (pages_match_review.py:261):
\* once nothing is pending or under way, every entry has had its turn at the store,
\* whichever of several requests and a sync emptied the queue - unless one was cut short.
Quiet == /\ Pending = {} /\ sync = NoSync
         /\ recording = {} /\ counting = 0
         /\ chain = NoChain
EnrichedWhenEmpty == Quiet /\ ~cut => \A e \in DOMAIN entries : entries[e].tried

\* "Re-running a sync with the same data must never resurface anything" (psn.py:3989):
\* a sync asks about a game only when Sony shows it as it did in no earlier answer that
\* stands, whatever was decided since it read, and although the record's id changes.  Not
\* so where the set is shown alone: an answer under the title's id is not looked for; nor
\* where what was last filed of the game had no store page: a sync of play alone files that
\* on a decided row too, and the next full listing is taken for news.
AsksAnew(r) == /\ rows'[r].status = "pending" /\ r \notin Pending
               /\ ~\E x \in Pending : x[1] = r[1]
NeverReasked ==
    [][sync.phase = "import" /\ sync'.phase = "retire" =>
          \A r \in DOMAIN rows' :
              AsksAnew(r) =>
                  \/ <<r[1], sync.feed[r[1]]>> \notin answered
                  \/ sync.feed[r[1]] = "set"
                  \/ r \in DOMAIN rows /\ rows[r].form # "full"]_vars

\* What "confirm" promises of the name: the entry keeps the one the user approved
\* (psn.py:1686).  It does not: the next sync writes Sony's back (psn.py:1441).
ApprovedNameStands ==
    [][\A e \in DOMAIN entries \cap DOMAIN entries' :
          entries[e].name = "approved" => entries'[e].name = "approved"]_vars
=============================================================================
