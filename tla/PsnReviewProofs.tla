---------------------------- MODULE PsnReviewProofs ----------------------------
(***************************************************************************)
(* Proofs about PsnReview, for every number of games, platforms, requests  *)
(* and changes of the feeds: what its variables hold; that no entry is     *)
(* made on a platform nobody asked for; that an emptied queue is enriched; *)
(* and that no sync asks what an answer that stands has settled.           *)
(***************************************************************************)
EXTENDS PsnReview, FiniteSetTheorems, TLAPS

-----------------------------------------------------------------------------
(* The inductive invariant *)

\* Where the user was asked first: a shared set, or a lookup at hand.
AsksFirst(g) == vetting \/ Cardinality(Covers[g]) > 1

\* What a sync carries from its reads to its import.
SyncCarries ==
    /\ look = [todo |-> look.todo, row |-> look.row]
    /\ sync.phase = "retire" => \A g \in Games : sync.feed[g] \in Forms
    /\ sync.phase = "import" =>
          \A g \in Games :
             /\ sync.feed[g] \in Forms
             /\ sync.feed[g] \in {"gone", "demo"} => sync.route[g] = "skip"
             /\ sync.places[g] \subseteq Covers[g]
             /\ AsksFirst(g) => {g} \X sync.places[g] \subseteq ticked
             /\ sync.route[g] = "played_only" => sync.feed[g] = "played"
             /\ sync.route[g] = "reopen" => /\ sync.feed[g] = "full"
                                            /\ <<g, "title">> \in DOMAIN rows
                                            /\ rows[<<g, "title">>].form # "full"

\* A row's platforms are of its set, and were ticked; what is only played goes by the
\* title's id.
RowsHold ==
    \A r \in DOMAIN rows :
        /\ rows[r].chosen \subseteq Covers[r[1]]
        /\ {r[1]} \X rows[r].chosen \subseteq ticked
        /\ rows[r].kind = "played_only" \/ rows[r].form = "played" => r[2] = "title"

\* The requests under way are no more than there may be, and each one's row is there.
PagesHold ==
    /\ IsFiniteSet(recording) /\ Cardinality(recording) + counting <= Pages
    /\ \A r \in recording : r \in DOMAIN rows /\ r[2] = "title"

\* The game of an answer has a row, whatever id it goes by now.
AnsweredRowsStay ==
    \A a \in answered : \/ <<a[1], "title">> \in DOMAIN rows
                        \/ <<a[1], "np">> \in DOMAIN rows /\ a[2] # "played"

\* Somebody will still see to it that e has its turn at the store.
InSight(e) == \/ Pending # {} \/ counting > 0 \/ sync # NoSync
              \/ \E r \in recording : rows[r].kind = "played_only"
              \/ chain.phase = "due"
              \/ chain.phase = "store" /\ e \in chain.todo
NoneForgotten == ~cut => \A e \in DOMAIN entries : entries[e].tried \/ InSight(e)

IInv == /\ TypeOK /\ OnlyTicked
        /\ SyncCarries /\ RowsHold /\ PagesHold /\ AnsweredRowsStay /\ NoneForgotten

LEMMA InitInv == Init => IInv
  <1> SUFFICES ASSUME Init PROVE IInv
    OBVIOUS
  <1>1. \A g \in Games : May[g] \subseteq Forms
    BY PsnAssumption
  <1>2. feed \in [Games -> Forms]
    BY <1>1 DEF Init
  <1>3. TypeOK
    <2>1. DOMAIN rows = {} /\ DOMAIN entries = {}
      BY DEF Init, Nothing
    <2>2. look.todo = {} /\ look.row = <<>> /\ counting \in 0..Pages /\ acts \in 0..MaxActs
      BY PsnAssumption DEF Init, NoLook
    <2> QED BY <1>2, <2>1, <2>2 DEF Init, TypeOK
  <1>4. OnlyTicked /\ SyncCarries /\ RowsHold /\ AnsweredRowsStay /\ NoneForgotten
    BY DEF Init, OnlyTicked, SyncCarries, RowsHold, AnsweredRowsStay, NoneForgotten,
           Nothing, NoLook, NoSync
  <1>5. PagesHold
    BY FS_EmptySet, PsnAssumption DEF Init, PagesHold
  <1> QED BY <1>3, <1>4, <1>5 DEF IInv

-----------------------------------------------------------------------------
(* Steps that change neither rows nor entries *)

LEMMA QuietSteps ==
    ASSUME IInv,
           \/ \E g \in Games, f \in Forms : FeedChanges(g, f)
           \/ \E r \in look.todo : LooksUp(r)
           \/ LearnsNothing \/ SyncEnds \/ SyncFails \/ ChainBegins \/ EnrichesIfLast \/ Restart
    PROVE  IInv'
  <1> USE DEF IInv
  <1>1. UNCHANGED <<vetting, rows, entries, ticked, answered>>
    BY DEF FeedChanges, LooksUp, LearnsNothing, SyncEnds, SyncFails, ChainBegins,
           EnrichesIfLast, Restart
  <1>2. feed' \in [Games -> Forms]
    BY DEF FeedChanges, LooksUp, LearnsNothing, SyncEnds, SyncFails, ChainBegins,
           EnrichesIfLast, Restart, TypeOK
  <1>3. acts' \in 0..MaxActs /\ cut' \in BOOLEAN
    <2>1. acts \in 0..MaxActs /\ cut \in BOOLEAN /\ MaxActs \in Nat
      BY PsnAssumption DEF TypeOK
    <2>2. UNCHANGED acts \/ Act
      BY DEF FeedChanges, LooksUp, LearnsNothing, SyncEnds, SyncFails, ChainBegins,
             EnrichesIfLast, Restart
    <2>3. cut' \in {cut, TRUE, FALSE}
      BY DEF FeedChanges, LooksUp, LearnsNothing, SyncEnds, SyncFails, ChainBegins,
             EnrichesIfLast, Restart
    <2>4. acts' \in 0..MaxActs
      BY <2>1, <2>2 DEF Act
    <2> QED BY <2>1, <2>3, <2>4
  <1>4. look'.todo \subseteq Ids /\ look'.row \in Ids \cup {<<>>}
        /\ look' = [todo |-> look'.todo, row |-> look'.row]
    <2>1. look.todo \subseteq Ids /\ look.row \in Ids \cup {<<>>}
          /\ look = [todo |-> look.todo, row |-> look.row]
      BY DEF TypeOK, SyncCarries
    <2>2. CASE SyncFails \/ Restart
      BY <2>2 DEF SyncFails, Restart, NoLook
    <2>3. CASE \E r \in look.todo : LooksUp(r)
      BY <2>1, <2>3 DEF LooksUp
    <2>4. CASE LearnsNothing
      BY <2>1, <2>4 DEF LearnsNothing
    <2>5. CASE UNCHANGED look
      BY <2>1, <2>5
    <2> QED BY <2>2, <2>3, <2>4, <2>5 DEF FeedChanges, SyncEnds, ChainBegins, EnrichesIfLast
  <1>5. sync' = sync \/ sync' = NoSync
    BY DEF FeedChanges, LooksUp, LearnsNothing, SyncEnds, SyncFails, ChainBegins,
           EnrichesIfLast, Restart
  <1>6. /\ recording' \in {recording, {}}
        /\ counting' \in 0..Pages /\ counting' <= counting
    <2>1. counting \in 0..Pages /\ Pages \in Nat
      BY PsnAssumption DEF TypeOK
    <2>2. \/ UNCHANGED <<recording, counting>>
          \/ recording' = {} /\ counting' = 0
          \/ UNCHANGED recording /\ counting > 0 /\ counting' = counting - 1
      BY DEF FeedChanges, LooksUp, LearnsNothing, SyncEnds, SyncFails, ChainBegins,
             EnrichesIfLast, Restart
    <2> QED BY <2>1, <2>2
  <1>7. TypeOK'
    BY <1>1, <1>2, <1>3, <1>4, <1>6 DEF TypeOK
  <1>8. OnlyTicked' /\ RowsHold' /\ AnsweredRowsStay'
    BY <1>1 DEF OnlyTicked, RowsHold, AnsweredRowsStay
  <1>9. SyncCarries'
    BY <1>1, <1>4, <1>5 DEF SyncCarries, AsksFirst, NoSync
  <1>10. PagesHold'
    <2>1. IsFiniteSet(recording') /\ Cardinality(recording') \in Nat
          /\ Cardinality(recording') <= Cardinality(recording)
      <3>1. Cardinality({}) = 0 /\ IsFiniteSet({})
        BY FS_EmptySet
      <3>2. IsFiniteSet(recording) /\ Cardinality(recording) \in Nat
        BY FS_CardinalityType DEF PagesHold
      <3> QED BY <1>6, <3>1, <3>2
    <2>2. Cardinality(recording') + counting' <= Pages
      BY <1>6, <2>1, FS_CardinalityType, PsnAssumption DEF PagesHold, TypeOK
    <2> QED BY <1>1, <1>6, <2>1, <2>2 DEF PagesHold
  <1>11. NoneForgotten'
    <2>1. CASE SyncFails \/ Restart
      BY <2>1 DEF SyncFails, Restart, NoneForgotten
    <2>2. CASE SyncEnds
      BY <2>2 DEF SyncEnds, Starts, Due, NoneForgotten, InSight
    <2>3. CASE ChainBegins
      BY <2>3 DEF ChainBegins, NoneForgotten, InSight
    <2>4. CASE EnrichesIfLast
      BY <1>1, <2>4 DEF EnrichesIfLast, Starts, Due, NoneForgotten, InSight, Pending, IsPending
    <2>5. CASE \/ \E g \in Games, f \in Forms : FeedChanges(g, f)
               \/ \E r \in look.todo : LooksUp(r)
               \/ LearnsNothing
      BY <1>1, <2>5 DEF FeedChanges, LooksUp, LearnsNothing, NoneForgotten, InSight, Pending, IsPending
    <2> QED BY <2>1, <2>2, <2>3, <2>4, <2>5
  <1> QED BY <1>7, <1>8, <1>9, <1>10, <1>11

-----------------------------------------------------------------------------
(* What a sync reads *)

\* What is imported with no row asked for is held already, or need not be asked for: a set
\* of one platform that has an entry has it there (psn.py:1728).
LEMMA ImportedAreTicked ==
    ASSUME IInv, NEW g \in Games, Route(g) = "import", AsksFirst(g)
    PROVE  {g} \X Covers[g] \subseteq ticked
  <1> DEFINE id == IdOf(g, feed[g])
  <1>1. /\ ~(Cardinality(Covers[g]) > 1)
        /\ ~((vetting \/ feed[g] = "set") /\ ~\E e \in DOMAIN entries : e[1] = id)
    BY DEF Route
  <1>2. PICK e \in DOMAIN entries : e[1] = id
    BY <1>1 DEF AsksFirst
  <1>3. e[1][1] = g /\ e[2] \in Covers[g]
    BY <1>2 DEF IInv, TypeOK, IdOf
  <1>4. IsFiniteSet(Covers[g])
    BY FS_Subset, PsnAssumption
  <1>5. Covers[g] = {e[2]}
    <2>1. IsFiniteSet({e[2]}) /\ Cardinality({e[2]}) = 1
      BY FS_Singleton
    <2>2. Cardinality(Covers[g]) \in Nat /\ {e[2]} \in SUBSET Covers[g]
      BY <1>3, <1>4, FS_CardinalityType
    <2>3. Cardinality({e[2]}) <= Cardinality(Covers[g])
      BY <1>4, <2>2, FS_Subset
    <2>4. Cardinality(Covers[g]) = Cardinality({e[2]})
      BY <1>1, <2>1, <2>2, <2>3
    <2> QED BY <1>4, <2>2, <2>4, FS_Subset
  <1>6. <<g, e[2]>> \in ticked
    BY <1>1, <1>3 DEF IInv, OnlyTicked, AsksFirst
  <1> QED BY <1>5, <1>6

LEMMA ReadsCarried ==
    ASSUME IInv, SyncReads
    PROVE  IInv'
  <1> USE DEF IInv
  <1>1. UNCHANGED <<feed, vetting, rows, entries, ticked, answered, look, recording, counting, chain, cut, acts>>
    BY DEF SyncReads
  <1>2. /\ sync' = [phase |-> "import", feed |-> feed, route |-> [g \in Games |-> Route(g)],
                    places |-> [g \in Games |-> Places(g)]]
        /\ sync' # NoSync
    BY DEF SyncReads, NoSync
  <1>3. ASSUME NEW g \in Games
        PROVE  /\ feed[g] \in Forms
               /\ feed[g] \in {"gone", "demo"} => Route(g) = "skip"
               /\ Places(g) \subseteq Covers[g]
               /\ AsksFirst(g) => {g} \X Places(g) \subseteq ticked
               /\ Route(g) = "played_only" => feed[g] = "played"
               /\ Route(g) = "reopen" => /\ feed[g] = "full"
                                         /\ <<g, "title">> \in DOMAIN rows
                                         /\ rows[<<g, "title">>].form # "full"
    <2>1. feed[g] \in Forms /\ (feed[g] \in {"gone", "demo"} => Route(g) = "skip")
      BY DEF TypeOK, Route
    <2>2. Route(g) = "played_only" => feed[g] = "played"
      BY DEF Route
    <2>3. CASE Route(g) = "reopen"
      <3>1. /\ IdOf(g, feed[g]) \in DOMAIN rows
            /\ Better(rows[IdOf(g, feed[g])], feed[g])
        BY <2>3 DEF Route
      <3>2. feed[g] = "full" /\ IdOf(g, feed[g]) = <<g, "title">>
        BY <3>1 DEF Better, IdOf
      <3>3. Places(g) = {}
        BY <2>3 DEF Places
      <3> QED BY <2>1, <2>2, <3>1, <3>2, <3>3 DEF Better
    <2>4. CASE Route(g) = "refresh"
      <3>1. IdOf(g, feed[g]) \in DOMAIN rows
        BY <2>4 DEF Route
      <3>2. Places(g) = rows[IdOf(g, feed[g])].chosen /\ IdOf(g, feed[g])[1] = g
        BY <2>4 DEF Places, IdOf
      <3> QED BY <2>1, <2>2, <2>4, <3>1, <3>2 DEF RowsHold
    <2>5. CASE Route(g) = "import"
      <3>1. Places(g) = Covers[g]
        BY <2>5 DEF Places
      <3> QED BY <2>1, <2>2, <2>5, <3>1, ImportedAreTicked
    <2>6. CASE Route(g) \notin {"reopen", "refresh", "import"}
      <3>1. Places(g) = {}
        BY <2>6 DEF Places
      <3> QED BY <2>1, <2>2, <2>6, <3>1
    <2> QED BY <2>3, <2>4, <2>5, <2>6
  <1>4. SyncCarries'
    BY <1>1, <1>2, <1>3 DEF SyncCarries, AsksFirst
  <1>5. TypeOK' /\ OnlyTicked' /\ RowsHold' /\ PagesHold' /\ AnsweredRowsStay'
    BY <1>1 DEF TypeOK, OnlyTicked, RowsHold, PagesHold, AnsweredRowsStay
  <1>6. NoneForgotten'
    BY <1>1, <1>2 DEF NoneForgotten, InSight
  <1> QED BY <1>4, <1>5, <1>6

-----------------------------------------------------------------------------
(* Entries and rows *)

Names     == {"sony", "approved"}
EntryType == [name : Names, id : BOOLEAN, tried : BOOLEAN]
RowType   == [kind : Kinds, status : {"pending", "confirmed", "dismissed"},
              chosen : SUBSET Platforms, form : Forms, lookup : Lookups, id : BOOLEAN]

\* _import_one makes entries of the record it is given, on the platforms it is given, and
\* takes none of the others away (psn.py:1355-1464).
LEMMA ImportAllAdds ==
    ASSUME NEW es, \A e \in DOMAIN es : es[e] \in EntryType,
           NEW id, NEW P, NEW name \in Names, NEW linked \in BOOLEAN,
           NEW made, made = ImportAll(es, id, P, name, linked)
    PROVE  /\ DOMAIN es \subseteq DOMAIN made
           /\ DOMAIN made \subseteq DOMAIN es \cup ({id} \X P)
           /\ \A e \in DOMAIN made : made[e] \in EntryType
           /\ \A e \in DOMAIN es : made[e].tried = es[e].tried
  <1> DEFINE created == {p \in P : <<id, p>> \notin DOMAIN es /\ ~Conflicts(es, id, p, name)}
             Entry(e) == IF e \notin DOMAIN es THEN NewEntry(name, linked)
                         ELSE IF e[1] = id /\ e[2] \in P THEN [es[e] EXCEPT !.name = name]
                         ELSE es[e]
             new == [e \in DOMAIN es \cup {<<id, p>> : p \in created} |-> Entry(e)]
  <1>1. made = new
    BY DEF ImportAll
  <1>2. NewEntry(name, linked) \in EntryType
    BY DEF NewEntry, EntryType
  <1>3. \A e \in DOMAIN es : /\ [es[e] EXCEPT !.name = name] \in EntryType
                             /\ [es[e] EXCEPT !.name = name].tried = es[e].tried
    BY DEF EntryType
  <1>4. created \subseteq P
    OBVIOUS
  <1> HIDE DEF created
  <1>5. DOMAIN new = DOMAIN es \cup {<<id, p>> : p \in created}
    OBVIOUS
  <1>6. \A e \in DOMAIN new : new[e] = Entry(e)
    OBVIOUS
  <1>7. \A e \in DOMAIN new : Entry(e) \in EntryType
    BY <1>2, <1>3
  <1>8. \A e \in DOMAIN es : Entry(e).tried = es[e].tried
    BY <1>3
  <1> HIDE DEF new, Entry
  <1> QED BY <1>1, <1>4, <1>5, <1>6, <1>7, <1>8

\* A step that decides, names or reopens rows: none comes or goes or changes what it is about.
RowsStay ==
    /\ DOMAIN rows' = DOMAIN rows /\ ticked \subseteq ticked'
    /\ \A r \in DOMAIN rows :
          /\ rows'[r] \in RowType
          /\ rows'[r].kind = rows[r].kind /\ rows'[r].form = rows[r].form
          /\ rows'[r].chosen \subseteq Covers[r[1]]
          /\ {r[1]} \X rows'[r].chosen \subseteq ticked'
    /\ answered' \subseteq answered \cup {<<r[1], rows[r].form>> : r \in DOMAIN rows}
    /\ UNCHANGED <<feed, vetting, sync, cut>>
    /\ look' = [todo |-> look'.todo, row |-> look'.row]

LEMMA RowsStayed ==
    ASSUME IInv, RowsStay
    PROVE  /\ SyncCarries' /\ RowsHold' /\ AnsweredRowsStay'
           /\ answered' \subseteq Games \X Forms
           /\ \A r \in DOMAIN rows' : rows'[r] \in RowType
           /\ recording' \subseteq recording => \A r \in recording' : r \in DOMAIN rows' /\ r[2] = "title"
  <1>1. SyncCarries'
    BY DEF IInv, RowsStay, SyncCarries, AsksFirst
  <1>2. RowsHold'
    BY DEF IInv, RowsStay, RowsHold
  <1>3. \A r \in DOMAIN rows : /\ r \in Ids /\ rows[r].form \in Forms
                               /\ r = <<r[1], r[2]>> /\ r[1] \in Games /\ r[2] \in {"np", "title"}
    BY DEF IInv, TypeOK, Ids
  <1>4. answered' \subseteq Games \X Forms
    BY <1>3 DEF IInv, RowsStay, TypeOK
  <1>5. AnsweredRowsStay'
    <2> SUFFICES ASSUME NEW a \in answered'
                 PROVE  \/ <<a[1], "title">> \in DOMAIN rows
                        \/ <<a[1], "np">> \in DOMAIN rows /\ a[2] # "played"
      BY DEF AnsweredRowsStay, RowsStay
    <2>1. CASE a \in answered
      BY <2>1 DEF IInv, AnsweredRowsStay
    <2>2. CASE a \notin answered
      <3>1. PICK r \in DOMAIN rows : a = <<r[1], rows[r].form>>
        BY <2>2 DEF RowsStay
      <3>2. a[1] = r[1] /\ a[2] = rows[r].form
        BY <3>1
      <3>3. CASE r[2] = "title"
        BY <1>3, <3>2, <3>3
      <3>4. CASE r[2] = "np"
        BY <1>3, <3>2, <3>4 DEF IInv, RowsHold
      <3> QED BY <1>3, <3>3, <3>4
    <2> QED BY <2>1, <2>2
  <1>6. /\ \A r \in DOMAIN rows' : rows'[r] \in RowType
        /\ recording' \subseteq recording => \A r \in recording' : r \in DOMAIN rows' /\ r[2] = "title"
    BY DEF IInv, PagesHold, RowsStay
  <1> QED BY <1>1, <1>2, <1>4, <1>5, <1>6

\* What is counted or recorded is within the bound.
LEMMA Counted ==
    ASSUME IInv, Counts \/ InBulk
    PROVE  /\ UNCHANGED recording /\ counting' \in 0..Pages /\ counting' > 0
           /\ Cardinality(recording) + counting' <= Pages
  <1>1. /\ Cardinality(recording) \in Nat /\ counting \in 0..Pages /\ Pages \in Nat
        /\ Cardinality(recording) + counting <= Pages
    BY FS_CardinalityType, PsnAssumption DEF IInv, TypeOK, PagesHold
  <1>2. CASE Counts
    BY <1>1, <1>2 DEF Counts, Free
  <1>3. CASE InBulk
    BY <1>1, <1>3 DEF InBulk
  <1> QED BY <1>2, <1>3

\* The user names a row, refuses a name or reopens a row; a lookup answers
\* (psn.py:2166, :3083, :3117, :4193).
LEMMA EditsHold ==
    ASSUME IInv,
           \/ Edits
           \/ \E a \in Hits : Learns(a)
    PROVE  IInv'
  <1> USE DEF IInv
  <1>1. /\ UNCHANGED <<feed, vetting, entries, ticked, sync, recording, counting, chain, cut>>
        /\ answered' \subseteq answered
    BY DEF Edits, Rename, Reject, Reopen, Learns
  <1>2. acts' \in 0..MaxActs
    <2>1. acts \in 0..MaxActs /\ MaxActs \in Nat
      BY PsnAssumption DEF TypeOK
    <2>2. UNCHANGED acts \/ Act
      BY DEF Edits, Rename, Reject, Reopen, Learns
    <2> QED BY <2>1, <2>2 DEF Act
  <1>3. look'.todo \subseteq Ids /\ look'.row \in Ids \cup {<<>>}
        /\ look' = [todo |-> look'.todo, row |-> look'.row]
    <2>1. look.todo \subseteq Ids /\ look.row \in Ids \cup {<<>>}
          /\ look = [todo |-> look.todo, row |-> look.row]
      BY DEF TypeOK, SyncCarries
    <2>2. look' \in {look, [look EXCEPT !.row = <<>>]}
      BY DEF Edits, Rename, Reject, Reopen, Learns
    <2> QED BY <2>1, <2>2
  <1>4. \A r \in DOMAIN rows : rows[r] \in RowType
    BY DEF TypeOK, RowType
  <1>5. /\ DOMAIN rows' = DOMAIN rows
        /\ \A r \in DOMAIN rows :
              /\ rows'[r] \in RowType
              /\ rows'[r].kind = rows[r].kind /\ rows'[r].form = rows[r].form
              /\ rows'[r].chosen \in {rows[r].chosen, {}}
              /\ rows'[r].status = rows[r].status \/ rows'[r].status = "pending"
    <2>1. ASSUME NEW r \in DOMAIN rows, NEW linked \in BOOLEAN, Rename(r, linked)
          PROVE  <1>5!1 /\ <1>5!2
      BY <1>4, <2>1 DEF Rename, RowType, Lookups
    <2>2. ASSUME NEW r \in DOMAIN rows, Reject(r)
          PROVE  <1>5!1 /\ <1>5!2
      BY <1>4, <2>2 DEF Reject, RowType, Lookups
    <2>3. ASSUME NEW r \in DOMAIN rows, Reopen(r)
          PROVE  <1>5!1 /\ <1>5!2
      BY <1>4, <2>3 DEF Reopen, RowType
    <2>4. ASSUME NEW a \in Hits, Learns(a)
          PROVE  <1>5!1 /\ <1>5!2
      <3>1. a \in Lookups /\ (a # "none") \in BOOLEAN
        BY PsnAssumption DEF Lookups
      <3> QED BY <1>4, <2>4, <3>1 DEF Learns, RowType
    <2> QED BY <2>1, <2>2, <2>3, <2>4 DEF Edits
  <1>6. RowsStay
    BY <1>1, <1>3, <1>5 DEF RowsStay, RowsHold
  <1>7. SyncCarries' /\ RowsHold' /\ AnsweredRowsStay' /\ answered' \subseteq Games \X Forms
        /\ \A r \in DOMAIN rows' : rows'[r] \in RowType
    BY <1>6, RowsStayed
  <1>8. TypeOK'
    BY <1>1, <1>2, <1>3, <1>5, <1>7 DEF TypeOK, RowType
  <1>9. OnlyTicked' /\ PagesHold'
    BY <1>1, <1>5 DEF OnlyTicked, PagesHold
  <1>10. NoneForgotten'
    <2>1. Pending \subseteq Pending'
      BY <1>5 DEF Pending, IsPending
    <2>2. \A r \in recording : rows'[r].kind = rows[r].kind
      BY <1>5 DEF PagesHold
    <2> QED BY <1>1, <2>1, <2>2 DEF NoneForgotten, InSight
  <1> QED BY <1>7, <1>8, <1>9, <1>10

-----------------------------------------------------------------------------
(* Decisions *)

\* New entries of a decision are where the user asked for them; the rest keep theirs.
LEMMA EntriesMade ==
    ASSUME IInv, NEW r \in Ids, NEW P \in SUBSET Covers[r[1]],
           NEW name \in Names, NEW linked \in BOOLEAN,
           entries' = ImportAll(entries, r, P, name, linked),
           ticked' = ticked \cup ({r[1]} \X P), UNCHANGED vetting
    PROVE  /\ DOMAIN entries' \subseteq Slots
           /\ \A e \in DOMAIN entries' : e[2] \in Covers[e[1][1]] /\ entries'[e] \in EntryType
           /\ ticked' \subseteq Games \X Platforms
           /\ OnlyTicked'
           /\ DOMAIN entries \subseteq DOMAIN entries'
           /\ \A e \in DOMAIN entries : entries'[e].tried = entries[e].tried
  <1>1. \A e \in DOMAIN entries : entries[e] \in EntryType
    BY DEF IInv, TypeOK, EntryType, Names
  <1>2. /\ DOMAIN entries \subseteq DOMAIN entries'
        /\ DOMAIN entries' \subseteq DOMAIN entries \cup ({r} \X P)
        /\ \A e \in DOMAIN entries' : entries'[e] \in EntryType
        /\ \A e \in DOMAIN entries : entries'[e].tried = entries[e].tried
    BY <1>1, ImportAllAdds
  <1>3. r[1] \in Games /\ Covers[r[1]] \subseteq Platforms
    BY PsnAssumption DEF Ids
  <1>4. \A e \in {r} \X P : e[1] = r /\ e[2] \in P /\ e \in Slots /\ <<r[1], e[2]>> \in ticked'
    BY <1>3 DEF Slots
  <1>5. /\ DOMAIN entries' \subseteq Slots
        /\ \A e \in DOMAIN entries' : e[2] \in Covers[e[1][1]]
    BY <1>2, <1>4 DEF IInv, TypeOK
  <1>6. OnlyTicked'
    <2> SUFFICES ASSUME NEW e \in DOMAIN entries', vetting \/ Cardinality(Covers[e[1][1]]) > 1
                 PROVE  <<e[1][1], e[2]>> \in ticked'
      BY DEF OnlyTicked
    <2>1. CASE e \in DOMAIN entries
      BY <2>1 DEF IInv, OnlyTicked
    <2>2. CASE e \in {r} \X P
      BY <1>4, <2>2
    <2> QED BY <1>2, <2>1, <2>2
  <1>7. ticked' \subseteq Games \X Platforms
    BY <1>3 DEF IInv, TypeOK
  <1> QED BY <1>2, <1>5, <1>6, <1>7

\* confirm_entry_decision for a row of the queue (psn.py:3148).
LEMMA ConfirmHolds ==
    ASSUME IInv, NEW r, NEW P, Confirm(r, P)
    PROVE  IInv'
  <1> DEFINE g == r[1]
             owner == Owner(g)
             name == IF Proposers(g) # {} THEN "approved" ELSE "sony"
             linked == Matched(g) # {} \/ \E m \in Proposers(g) : rows[m].id
  <1> USE DEF IInv
  <1>1. /\ UNCHANGED <<feed, vetting, sync, look, chain, cut, acts>>
        /\ r \in Queue /\ P \in SUBSET Covers[g]
        /\ entries' = ImportAll(entries, owner, P, name, linked)
        /\ ticked' = ticked \cup ({g} \X P)
        /\ Answers(Group(g)) /\ (Counts \/ InBulk)
        /\ rows' = [x \in DOMAIN rows |-> IF x \in Group(g) THEN Decided(x, owner, P) ELSE rows[x]]
    BY DEF Confirm
  <1>2. r \in DOMAIN rows /\ r \in Ids /\ g \in Games /\ Covers[g] \subseteq Platforms
    BY <1>1, PsnAssumption DEF Queue, Pending, TypeOK, Ids
  <1>3. /\ owner \in Ids /\ owner[1] = g
        /\ name \in Names /\ linked \in BOOLEAN
    BY <1>2 DEF Owner, Ids, Names
  <1>4. Group(g) \subseteq DOMAIN rows /\ \A x \in Group(g) : x[1] = g
    BY DEF Group, Queue, Pending
  <1> HIDE DEF owner, name, linked, g
  <1>5. /\ DOMAIN entries' \subseteq Slots
        /\ \A e \in DOMAIN entries' : e[2] \in Covers[e[1][1]] /\ entries'[e] \in EntryType
        /\ ticked' \subseteq Games \X Platforms
        /\ OnlyTicked'
    <2>1. owner \in Ids /\ P \in SUBSET Covers[owner[1]] /\ ticked' = ticked \cup ({owner[1]} \X P)
      BY <1>1, <1>3
    <2> QED BY <1>1, <1>3, <2>1, EntriesMade
  <1>6. /\ UNCHANGED recording /\ counting' \in 0..Pages /\ counting' > 0
        /\ Cardinality(recording) + counting' <= Pages
    BY <1>1, Counted
  <1>7. \A x \in DOMAIN rows : rows[x] \in RowType
    BY DEF TypeOK, RowType
  <1>8. ASSUME NEW x \in Group(g)
        PROVE  /\ Decided(x, owner, P) \in RowType
               /\ Decided(x, owner, P).kind = rows[x].kind
               /\ Decided(x, owner, P).form = rows[x].form
               /\ Decided(x, owner, P).chosen \in {P, {}}
    <2>1. rows[x] \in RowType /\ P \in SUBSET Platforms
      BY <1>1, <1>2, <1>4, <1>7
    <2> QED BY <2>1 DEF Decided, RowType, Lookups
  <1>9. RowsStay
    <2>1. DOMAIN rows' = DOMAIN rows /\ ticked \subseteq ticked'
      BY <1>1
    <2>2. answered' \subseteq answered \cup {<<x[1], rows[x].form>> : x \in DOMAIN rows}
      BY <1>1, <1>4 DEF Answers
    <2>3. look' = [todo |-> look'.todo, row |-> look'.row]
      BY <1>1 DEF SyncCarries
    <2>4. ASSUME NEW x \in DOMAIN rows
          PROVE  /\ rows'[x] \in RowType
                 /\ rows'[x].kind = rows[x].kind /\ rows'[x].form = rows[x].form
                 /\ rows'[x].chosen \subseteq Covers[x[1]]
                 /\ {x[1]} \X rows'[x].chosen \subseteq ticked'
      <3>1. CASE x \in Group(g)
        <4>1. rows'[x] = Decided(x, owner, P)
          BY <1>1, <3>1
        <4>2. x[1] = g /\ P \subseteq Covers[g] /\ {g} \X P \subseteq ticked'
          BY <1>1, <1>4, <3>1
        <4> QED BY <1>8, <3>1, <4>1, <4>2
      <3>2. CASE x \notin Group(g)
        <4>1. rows'[x] = rows[x]
          BY <1>1, <3>2
        <4> QED BY <1>7, <2>1, <4>1 DEF RowsHold
      <3> QED BY <3>1, <3>2
    <2> QED BY <1>1, <2>1, <2>2, <2>3, <2>4 DEF RowsStay
  <1>10. SyncCarries' /\ RowsHold' /\ AnsweredRowsStay' /\ answered' \subseteq Games \X Forms
         /\ \A x \in DOMAIN rows' : rows'[x] \in RowType
    BY <1>9, RowsStayed
  <1>11. TypeOK'
    BY <1>1, <1>5, <1>6, <1>9, <1>10 DEF TypeOK, RowType, EntryType, Names, RowsStay
  <1>12. PagesHold'
    BY <1>6, <1>9 DEF PagesHold, RowsStay
  <1>13. NoneForgotten'
    BY <1>6 DEF NoneForgotten, InSight
  <1> QED BY <1>5, <1>10, <1>11, <1>12, <1>13

\* confirm_entry_decision for an entry without an id, and the decisions on rows of play
\* alone that make no entry: what a row is about and who has ticked what are left alone.
LEMMA AnswerHolds ==
    ASSUME IInv, NEW r \in DOMAIN rows,
           \/ ConfirmLink(r)
           \/ \E status \in {"confirmed", "dismissed"} : DecidePlayed(r, status)
    PROVE  IInv'
  <1> USE DEF IInv
  <1>1. /\ UNCHANGED <<feed, vetting, ticked, sync, look, chain, cut>>
        /\ Answers({r}) /\ (Counts \/ InBulk)
    BY DEF ConfirmLink, DecidePlayed
  <1>2. acts' \in 0..MaxActs
    <2>1. acts \in 0..MaxActs /\ MaxActs \in Nat
      BY PsnAssumption DEF TypeOK
    <2>2. UNCHANGED acts \/ Act
      BY DEF ConfirmLink, DecidePlayed, Asked
    <2> QED BY <2>1, <2>2 DEF Act
  <1>3. /\ UNCHANGED recording /\ counting' \in 0..Pages /\ counting' > 0
        /\ Cardinality(recording) + counting' <= Pages
    BY <1>1, Counted
  <1>4. /\ DOMAIN entries' = DOMAIN entries
        /\ \A e \in DOMAIN entries : entries'[e] \in EntryType
    <2>1. \A e \in DOMAIN entries : entries[e] \in EntryType /\ [entries[e] EXCEPT !.id = TRUE] \in EntryType
      BY DEF TypeOK, EntryType, Names
    <2>2. CASE ConfirmLink(r)
      <3>1. entries' = [e \in DOMAIN entries |->
                          IF e[1] = r /\ rows[r].id THEN [entries[e] EXCEPT !.id = TRUE] ELSE entries[e]]
        BY <2>2 DEF ConfirmLink
      <3> QED BY <2>1, <3>1
    <2>3. CASE UNCHANGED entries
      BY <2>1, <2>3
    <2> QED BY <2>2, <2>3 DEF DecidePlayed
  <1>5. /\ DOMAIN rows' = DOMAIN rows
        /\ \A x \in DOMAIN rows :
              /\ rows'[x] \in RowType
              /\ rows'[x].kind = rows[x].kind /\ rows'[x].form = rows[x].form
              /\ rows'[x].chosen \in {rows[x].chosen, {}}
    <2>1. \A x \in DOMAIN rows : rows[x] \in RowType
      BY DEF TypeOK, RowType
    <2>2. CASE ConfirmLink(r)
      BY <2>1, <2>2 DEF ConfirmLink, RowType, Lookups
    <2>3. ASSUME NEW status \in {"confirmed", "dismissed"}, DecidePlayed(r, status)
          PROVE  <1>5!1 /\ <1>5!2
      BY <2>1, <2>3 DEF DecidePlayed, RowType
    <2> QED BY <2>2, <2>3
  <1>6. RowsStay
    <2>1. answered' \subseteq answered \cup {<<x[1], rows[x].form>> : x \in DOMAIN rows}
      BY <1>1 DEF Answers
    <2>2. look' = [todo |-> look'.todo, row |-> look'.row]
      BY <1>1 DEF SyncCarries
    <2> QED BY <1>1, <1>5, <2>1, <2>2 DEF RowsStay, RowsHold
  <1>7. SyncCarries' /\ RowsHold' /\ AnsweredRowsStay' /\ answered' \subseteq Games \X Forms
        /\ \A x \in DOMAIN rows' : rows'[x] \in RowType
    BY <1>6, RowsStayed
  <1>8. TypeOK'
    BY <1>1, <1>2, <1>3, <1>4, <1>5, <1>7 DEF TypeOK, RowType, EntryType, Names
  <1>9. OnlyTicked' /\ PagesHold'
    BY <1>1, <1>3, <1>4, <1>5 DEF OnlyTicked, PagesHold
  <1>10. NoneForgotten'
    BY <1>3 DEF NoneForgotten, InSight
  <1> QED BY <1>7, <1>8, <1>9, <1>10

\* import_played_only commits the entry (psn.py:3333).
LEMMA ImportPlayedHolds ==
    ASSUME IInv, NEW r, NEW p, ImportPlayed(r, p)
    PROVE  IInv'
  <1> USE DEF IInv
  <1>1. /\ UNCHANGED <<feed, vetting, rows, answered, sync, look, chain, cut, counting>>
        /\ Free /\ Asked(r) /\ p \in Covers[r[1]]
        /\ entries' = ImportAll(entries, r, {p}, "sony", FALSE)
        /\ ticked' = ticked \cup {<<r[1], p>>}
        /\ recording' = recording \cup {r}
    BY DEF ImportPlayed
  <1>2. r \in DOMAIN rows /\ r \in Ids /\ r[1] \in Games /\ r[2] = "title" /\ rows[r].kind = "played_only"
    BY <1>1 DEF Asked, TypeOK, Ids, RowsHold
  <1>3. acts' \in 0..MaxActs
    <2>1. acts \in 0..MaxActs /\ MaxActs \in Nat
      BY PsnAssumption DEF TypeOK
    <2>2. UNCHANGED acts \/ Act
      BY <1>1 DEF Asked
    <2> QED BY <2>1, <2>2 DEF Act
  <1>4. /\ DOMAIN entries' \subseteq Slots
        /\ \A e \in DOMAIN entries' : e[2] \in Covers[e[1][1]] /\ entries'[e] \in EntryType
        /\ ticked' \subseteq Games \X Platforms
        /\ OnlyTicked'
        /\ DOMAIN entries \subseteq DOMAIN entries'
    <2>1. {p} \in SUBSET Covers[r[1]] /\ ticked' = ticked \cup ({r[1]} \X {p})
      BY <1>1
    <2>2. "sony" \in Names /\ FALSE \in BOOLEAN
      BY DEF Names
    <2> QED BY <1>1, <1>2, <2>1, <2>2, EntriesMade
  <1>5. PagesHold'
    <2>1. /\ IsFiniteSet(recording') /\ Cardinality(recording') <= Cardinality(recording) + 1
          /\ Cardinality(recording') \in Nat /\ Cardinality(recording) \in Nat
      <3>1. IsFiniteSet(recording) /\ Cardinality(recording) \in Nat
        BY FS_CardinalityType DEF PagesHold
      <3>2. /\ IsFiniteSet(recording')
            /\ Cardinality(recording') = IF r \in recording THEN Cardinality(recording)
                                         ELSE Cardinality(recording) + 1
        BY <1>1, <3>1, FS_AddElement
      <3> QED BY <3>1, <3>2
    <2>2. counting \in Nat /\ Pages \in Nat /\ Cardinality(recording) + counting < Pages
      BY <1>1, PsnAssumption DEF Free, TypeOK
    <2>3. Cardinality(recording') + counting <= Pages
      BY <2>1, <2>2
    <2> QED BY <1>1, <1>2, <2>1, <2>3 DEF PagesHold
  <1>6. SyncCarries' /\ RowsHold' /\ AnsweredRowsStay'
    BY <1>1 DEF SyncCarries, AsksFirst, RowsHold, AnsweredRowsStay
  <1>7. TypeOK'
    <2>1. recording' \subseteq Ids
      BY <1>1, <1>2 DEF TypeOK
    <2> QED BY <1>1, <1>3, <1>4, <2>1 DEF TypeOK, EntryType, Names
  <1>8. NoneForgotten'
    BY <1>1, <1>2 DEF NoneForgotten, InSight
  <1> QED BY <1>4, <1>5, <1>6, <1>7, <1>8

\* _record_decision, its second commit (psn.py:3298).
LEMMA RecordsHolds ==
    ASSUME IInv, NEW r, Records(r)
    PROVE  IInv'
  <1> USE DEF IInv
  <1>1. /\ UNCHANGED <<feed, vetting, entries, ticked, sync, look, chain, cut, acts>>
        /\ r \in recording /\ recording' = recording \ {r}
        /\ \/ UNCHANGED <<rows, answered, counting>> /\ rows[r].kind # "played_only"
           \/ /\ rows' = [rows EXCEPT ![r].status = "confirmed", ![r].chosen = {}]
              /\ counting' = counting + 1 /\ Answers({r})
    BY DEF Records
  <1>2. r \in DOMAIN rows
    BY <1>1 DEF PagesHold
  <1>3. /\ IsFiniteSet(recording') /\ Cardinality(recording') + counting' <= Pages
        /\ counting' \in 0..Pages
    <2>1. /\ IsFiniteSet(recording') /\ Cardinality(recording') = Cardinality(recording) - 1
          /\ Cardinality(recording') \in Nat /\ Cardinality(recording) \in Nat
      BY <1>1, FS_RemoveElement, FS_CardinalityType DEF PagesHold
    <2>2. counting \in Nat /\ Pages \in Nat /\ Cardinality(recording) + counting <= Pages
      BY PsnAssumption DEF PagesHold, TypeOK
    <2>3. counting' \in {counting, counting + 1}
      BY <1>1
    <2> QED BY <2>1, <2>2, <2>3
  <1>4. /\ DOMAIN rows' = DOMAIN rows
        /\ \A x \in DOMAIN rows :
              /\ rows'[x] \in RowType
              /\ rows'[x].kind = rows[x].kind /\ rows'[x].form = rows[x].form
              /\ rows'[x].chosen \in {rows[x].chosen, {}}
    <2>1. \A x \in DOMAIN rows : rows[x] \in RowType
      BY DEF TypeOK, RowType
    <2>2. CASE UNCHANGED rows
      BY <2>1, <2>2
    <2>3. CASE rows' = [rows EXCEPT ![r].status = "confirmed", ![r].chosen = {}]
      BY <2>1, <2>3 DEF RowType
    <2> QED BY <1>1, <2>2, <2>3
  <1>5. RowsStay
    <2>1. answered' \subseteq answered \cup {<<x[1], rows[x].form>> : x \in DOMAIN rows}
      BY <1>1, <1>2 DEF Answers
    <2>2. look' = [todo |-> look'.todo, row |-> look'.row]
      BY <1>1 DEF SyncCarries
    <2> QED BY <1>1, <1>4, <2>1, <2>2 DEF RowsStay, RowsHold
  <1>6. SyncCarries' /\ RowsHold' /\ AnsweredRowsStay' /\ answered' \subseteq Games \X Forms
        /\ \A x \in DOMAIN rows' : rows'[x] \in RowType
    BY <1>5, RowsStayed
  <1>7. TypeOK'
    BY <1>1, <1>3, <1>4, <1>6 DEF TypeOK, RowType
  <1>8. OnlyTicked' /\ PagesHold'
    BY <1>1, <1>3, <1>4 DEF OnlyTicked, PagesHold
  <1>9. NoneForgotten'
    <2>1. CASE counting' = counting + 1
      <3>1. counting' > 0
        BY <2>1 DEF TypeOK
      <3> QED BY <3>1 DEF NoneForgotten, InSight
    <2>2. CASE UNCHANGED <<rows, answered, counting>> /\ rows[r].kind # "played_only"
      BY <1>1, <2>2 DEF NoneForgotten, InSight, Pending, IsPending
    <2> QED BY <1>1, <2>1, <2>2
  <1> QED BY <1>6, <1>7, <1>8, <1>9

-----------------------------------------------------------------------------
(* The chain *)

\* refresh_all_store_metadata gives each entry of its list its turn (psn_store.py:387).
LEMMA StorePassHolds ==
    ASSUME IInv, StorePass
    PROVE  IInv'
  <1> USE DEF IInv
  <1>1. /\ UNCHANGED <<feed, vetting, rows, ticked, answered, sync, look, recording, counting, cut, acts>>
        /\ chain.phase = "store"
        /\ entries' = [e \in DOMAIN entries |-> [entries[e] EXCEPT !.tried = @ \/ e \in chain.todo]]
    BY DEF StorePass
  <1>2. \A e \in DOMAIN entries :
           /\ [entries[e] EXCEPT !.tried = @ \/ e \in chain.todo] \in EntryType
           /\ [entries[e] EXCEPT !.tried = @ \/ e \in chain.todo].tried = (entries[e].tried \/ e \in chain.todo)
    BY DEF TypeOK, EntryType, Names
  <1>3. /\ DOMAIN entries' = DOMAIN entries
        /\ \A e \in DOMAIN entries : /\ entries'[e] \in EntryType
                                     /\ entries'[e].tried = (entries[e].tried \/ e \in chain.todo)
    BY <1>1, <1>2
  <1>4. TypeOK'
    BY <1>1, <1>3 DEF TypeOK, EntryType, Names
  <1>5. OnlyTicked' /\ SyncCarries' /\ RowsHold' /\ PagesHold' /\ AnsweredRowsStay'
    BY <1>1, <1>3 DEF OnlyTicked, SyncCarries, AsksFirst, RowsHold, PagesHold, AnsweredRowsStay
  <1>6. NoneForgotten'
    BY <1>1, <1>3 DEF NoneForgotten, InSight, Pending, IsPending
  <1> QED BY <1>4, <1>5, <1>6

\* link_igdb_ids links entries, or asks about records no row was ever about (psn.py:4253).
LEMMA LinksHold ==
    ASSUME IInv, Links
    PROVE  IInv'
  <1> USE DEF IInv
  <1>1. /\ UNCHANGED <<feed, vetting, ticked, answered, sync, look, recording, counting, cut, acts>>
        /\ chain.phase = "link"
    BY DEF Links
  <1>2. PICK L \in SUBSET Unlinked : \E Q \in SUBSET {e[1] : e \in Unlinked \ L} :
           /\ entries' = [e \in DOMAIN entries |-> [entries[e] EXCEPT !.id = @ \/ e \in L]]
           /\ rows' = [x \in DOMAIN rows \cup Q |-> IF x \in Q THEN LinkRow ELSE rows[x]]
    BY Zenon DEF Links
  <1>3. PICK Q \in SUBSET {e[1] : e \in Unlinked \ L} :
           /\ entries' = [e \in DOMAIN entries |-> [entries[e] EXCEPT !.id = @ \/ e \in L]]
           /\ rows' = [x \in DOMAIN rows \cup Q |-> IF x \in Q THEN LinkRow ELSE rows[x]]
    BY <1>2, Zenon
  <1>4. \A e \in DOMAIN entries :
           /\ [entries[e] EXCEPT !.id = @ \/ e \in L] \in EntryType
           /\ [entries[e] EXCEPT !.id = @ \/ e \in L].tried = entries[e].tried
    BY DEF TypeOK, EntryType, Names
  <1>5. /\ DOMAIN entries' = DOMAIN entries
        /\ \A e \in DOMAIN entries : entries'[e] \in EntryType /\ entries'[e].tried = entries[e].tried
    BY <1>3, <1>4
  <1>6. LinkRow \in RowType /\ LinkRow.kind = "igdb_link" /\ LinkRow.form = "joined" /\ LinkRow.chosen = {}
        /\ LinkRow.status = "pending"
    BY DEF LinkRow, NewRow, RowType, Kinds, Forms, Lookups
  <1>7. Q \subseteq Ids /\ Q \cap DOMAIN rows = {}
    BY <1>3 DEF Unlinked, TypeOK, Slots
  <1> HIDE DEF LinkRow
  <1>8. /\ DOMAIN rows' = DOMAIN rows \cup Q
        /\ \A x \in Q : rows'[x] = LinkRow
        /\ \A x \in DOMAIN rows : rows'[x] = rows[x]
    BY <1>3, <1>7
  <1>9. TypeOK'
    <2>1. \A x \in DOMAIN rows' : rows'[x] \in RowType
      BY <1>6, <1>8 DEF TypeOK, RowType
    <2>2. DOMAIN rows' \subseteq Ids
      BY <1>7, <1>8 DEF TypeOK
    <2> QED BY <1>1, <1>5, <2>1, <2>2 DEF TypeOK, EntryType, Names, RowType
  <1>10. OnlyTicked' /\ PagesHold' /\ AnsweredRowsStay'
    BY <1>1, <1>5, <1>8 DEF OnlyTicked, PagesHold, AnsweredRowsStay
  <1>11. RowsHold'
    BY <1>1, <1>6, <1>8 DEF RowsHold
  <1>12. SyncCarries'
    BY <1>1, <1>8 DEF SyncCarries, AsksFirst
  <1>13. NoneForgotten'
    <2>1. Pending \subseteq Pending'
      BY <1>8 DEF Pending, IsPending
    <2>2. \A r \in recording : rows'[r].kind = rows[r].kind
      BY <1>8 DEF PagesHold
    <2> QED BY <1>1, <1>5, <2>1, <2>2 DEF NoneForgotten, InSight
  <1> QED BY <1>9, <1>10, <1>11, <1>12, <1>13

-----------------------------------------------------------------------------
(* What a sync writes *)

\* retire_non_game_candidates; then the rows to look up (psn.py:1577, :4081).
LEMMA RetiresHold ==
    ASSUME IInv, SyncRetires
    PROVE  IInv'
  <1> USE DEF IInv
  <1> DEFINE todo == {r \in DOMAIN rows' : /\ vetting /\ rows'[r].status = "pending"
                                           /\ rows'[r].lookup = "unasked"}
  <1>1. /\ UNCHANGED <<feed, vetting, entries, ticked, answered, recording, counting, chain, cut, acts>>
        /\ sync' # NoSync /\ sync'.phase = "lookup"
        /\ look' = [todo |-> todo, row |-> <<>>]
    BY DEF SyncRetires, NoSync, NoLook
  <1>2. rows' = [r \in DOMAIN rows |->
                   IF IsPending(r) /\ rows[r].kind = "played_only" /\ sync.feed[r[1]] = "demo"
                   THEN [rows[r] EXCEPT !.status = "dismissed"] ELSE rows[r]]
    BY DEF SyncRetires
  <1>3. \A r \in DOMAIN rows : rows[r] \in RowType
    BY DEF TypeOK, RowType
  <1>4. \A r \in DOMAIN rows :
           LET dismissed == [rows[r] EXCEPT !.status = "dismissed"]
           IN  /\ dismissed \in RowType /\ dismissed.kind = rows[r].kind
               /\ dismissed.form = rows[r].form /\ dismissed.chosen = rows[r].chosen
    BY <1>3 DEF RowType
  <1>5. /\ DOMAIN rows' = DOMAIN rows
        /\ \A r \in DOMAIN rows :
              /\ rows'[r] \in RowType
              /\ rows'[r].kind = rows[r].kind /\ rows'[r].form = rows[r].form
              /\ rows'[r].chosen = rows[r].chosen
    BY <1>2, <1>3, <1>4
  <1>6. todo \subseteq Ids
    BY <1>5 DEF TypeOK
  <1> HIDE DEF todo
  <1>7. look'.todo \subseteq Ids /\ look'.row = <<>> /\ look' = [todo |-> look'.todo, row |-> look'.row]
    BY <1>1, <1>6
  <1>8. TypeOK'
    BY <1>1, <1>5, <1>7 DEF TypeOK, RowType
  <1>9. OnlyTicked' /\ PagesHold' /\ AnsweredRowsStay' /\ RowsHold'
    BY <1>1, <1>5 DEF OnlyTicked, PagesHold, AnsweredRowsStay, RowsHold
  <1>10. SyncCarries'
    BY <1>1, <1>7 DEF SyncCarries
  <1>11. NoneForgotten'
    BY <1>1 DEF NoneForgotten, InSight
  <1> QED BY <1>8, <1>9, <1>10, <1>11


RowsOf(g) == {x \in DOMAIN rows : x[1] = g}

\* What the import may make of the rows of g: none of a title is taken away, what the user
\* ticked stays, and nothing of an answer that stands is asked anew (psn.py:1467, :1687).
SoundFor(g, after) ==
    /\ \A x \in DOMAIN after :
          /\ x \in Ids /\ x[1] = g /\ after[x] \in RowType
          /\ after[x].chosen \subseteq Covers[g]
          /\ {g} \X after[x].chosen \subseteq ticked
          /\ after[x].kind = "played_only" \/ after[x].form = "played" => x[2] = "title"
          /\ after[x].status = "pending" =>
                \/ \E y \in Pending : y[1] = g
                \/ <<g, sync.feed[g]>> \notin answered
                \/ sync.feed[g] = "set"
                \/ x \in DOMAIN rows /\ rows[x].form # "full"
    /\ \A x \in RowsOf(g) : \/ x \in DOMAIN after
                            \/ x = <<g, "np">> /\ <<g, "title">> \in DOMAIN after

LEMMA RowsOfFacts ==
    ASSUME IInv, NEW g \in Games, NEW x \in RowsOf(g)
    PROVE  /\ x \in DOMAIN rows /\ x \in Ids /\ x[1] = g /\ rows[x] \in RowType
           /\ x = <<g, "np">> \/ x = <<g, "title">>
           /\ rows[x].chosen \subseteq Covers[g]
           /\ {g} \X rows[x].chosen \subseteq ticked
           /\ rows[x].kind = "played_only" \/ rows[x].form = "played" => x[2] = "title"
           /\ rows[x].status = "pending" => \E y \in Pending : y[1] = g
  <1>1. x \in DOMAIN rows /\ x \in Ids /\ x[1] = g
    BY DEF RowsOf, IInv, TypeOK
  <1>2. rows[x] \in RowType
    BY <1>1 DEF IInv, TypeOK, RowType
  <1>3. x = <<g, "np">> \/ x = <<g, "title">>
    BY <1>1 DEF Ids
  <1>4. rows[x].status = "pending" => \E y \in Pending : y[1] = g
    BY <1>1 DEF Pending, IsPending
  <1> QED BY <1>1, <1>2, <1>3, <1>4 DEF IInv, RowsHold

\* _upsert_review_candidate (psn.py:1467).
LEMMA UpsertSound ==
    ASSUME IInv, sync.phase = "import", NEW g \in Games, sync.route[g] \in Kinds
    PROVE  SoundFor(g, Upserted(g, sync.feed[g], sync.route[g]))
  <1> DEFINE f == sync.feed[g]
             kind == sync.route[g]
             r == RowFor(g, f)
             id == IdOf(g, f)
             key == IF r # <<>> /\ f = "set" THEN r ELSE id
             row == IF r = <<>> THEN NewRow(kind, f)
                    ELSE [rows[r] EXCEPT !.kind = kind, !.form = IF f = "set" /\ r[2] = "title" THEN @ ELSE f]
             after == [x \in (RowsOf(g) \ {r}) \cup {key} |-> IF x = key THEN row ELSE rows[x]]
  <1>1. f \in Forms /\ f \notin {"gone", "demo"} /\ (kind = "played_only" => f = "played")
    BY DEF IInv, SyncCarries, Kinds
  <1>2. Upserted(g, f, kind) = after
    BY DEF Upserted, RowsOf
  <1>3. id = (IF f = "set" THEN <<g, "np">> ELSE <<g, "title">>)
    BY DEF IdOf
  <1>4. \/ r = id /\ id \in RowsOf(g)
        \/ r = <<g, "np">> /\ r \in RowsOf(g) /\ id = <<g, "title">> /\ f # "set"
        \/ r = <<g, "title">> /\ r \in RowsOf(g) /\ f = "set"
        \/ /\ r = <<>> /\ id \notin DOMAIN rows
           /\ f \in {"joined", "full"} => <<g, "np">> \notin DOMAIN rows
    <2>1. CASE id \in DOMAIN rows
      <3>1. r = id
        BY <2>1 DEF RowFor
      <3> QED BY <1>3, <2>1, <3>1 DEF RowsOf
    <2>2. CASE id \notin DOMAIN rows /\ f \in {"joined", "full"} /\ <<g, "np">> \in DOMAIN rows
      <3>1. r = <<g, "np">>
        BY <2>2 DEF RowFor
      <3> QED BY <1>3, <2>2, <3>1 DEF RowsOf
    <2>3. CASE /\ f = "set" /\ id \notin DOMAIN rows /\ <<g, "title">> \in Pending
               /\ rows[<<g, "title">>].form \in {"joined", "full"}
      <3>1. r = <<g, "title">>
        BY <2>3 DEF RowFor
      <3>2. r \in DOMAIN rows
        BY <2>3, <3>1 DEF Pending
      <3> QED BY <2>3, <3>1, <3>2 DEF RowsOf
    <2>4. CASE /\ id \notin DOMAIN rows
               /\ ~(f \in {"joined", "full"} /\ <<g, "np">> \in DOMAIN rows)
               /\ ~(/\ f = "set" /\ <<g, "title">> \in Pending
                    /\ rows[<<g, "title">>].form \in {"joined", "full"})
      <3>1. r = <<>>
        BY <2>4 DEF RowFor
      <3> QED BY <2>4, <3>1
    <2> QED BY <2>1, <2>2, <2>3, <2>4
  <1>5. /\ (key = <<g, "np">> \/ key = <<g, "title">>)
        /\ f # "set" => key = <<g, "title">>
        /\ (r = <<>> \/ r \in RowsOf(g))
        /\ r \in RowsOf(g) => r = key \/ (r = <<g, "np">> /\ key = <<g, "title">>)
    <2>1. <<g, "np">> # <<>> /\ <<g, "title">> # <<>>
      OBVIOUS
    <2>2. CASE r = id /\ id \in RowsOf(g)
      <3>1. key = id
        BY <2>2
      <3> HIDE DEF key, r, id
      <3> QED BY <1>3, <2>2, <3>1
    <2>3. CASE r = <<g, "np">> /\ r \in RowsOf(g) /\ id = <<g, "title">> /\ f # "set"
      <3>1. key = id
        BY <2>3
      <3> HIDE DEF key, r, id
      <3> QED BY <2>3, <3>1
    <2>4. CASE r = <<g, "title">> /\ r \in RowsOf(g) /\ f = "set"
      <3>1. key = r
        BY <2>1, <2>4
      <3> HIDE DEF key, r, id
      <3> QED BY <2>4, <3>1
    <2>5. CASE r = <<>>
      <3>1. key = id /\ r \notin RowsOf(g)
        BY <2>1, <2>5, RowsOfFacts
      <3> HIDE DEF key, r, id
      <3> QED BY <1>3, <2>5, <3>1
    <2> QED BY <1>4, <2>2, <2>3, <2>4, <2>5
  <1>6. CASE r = <<>>
    <2>1. row = NewRow(kind, f)
      BY <1>6
    <2>2. row \in RowType /\ row.chosen = {} /\ row.kind = kind /\ row.form = f
      BY <1>1, <2>1 DEF NewRow, RowType, Lookups
    <2>3. <<g, f>> \notin answered \/ f = "set"
      BY <1>1, <1>3, <1>4, <1>6 DEF IInv, AnsweredRowsStay, Forms, RowsOf
    <2>4. ASSUME NEW x \in DOMAIN after
          PROVE  \/ x = key /\ after[x] = row
                 \/ x \in RowsOf(g) /\ after[x] = rows[x]
      OBVIOUS
    <2>5. DOMAIN after = (RowsOf(g) \ {r}) \cup {key}
      OBVIOUS
    <2>6. r \notin RowsOf(g)
      BY <1>6, RowsOfFacts
    <2> HIDE DEF after, key, row, r, id
    <2>7. key \in Ids /\ key[1] = g /\ (f = "played" => key[2] = "title")
      BY <1>5 DEF Ids
    <2>8. SoundFor(g, after)
      <3>1. ASSUME NEW x \in DOMAIN after
            PROVE  /\ x \in Ids /\ x[1] = g /\ after[x] \in RowType
                   /\ after[x].chosen \subseteq Covers[g]
                   /\ {g} \X after[x].chosen \subseteq ticked
                   /\ after[x].kind = "played_only" \/ after[x].form = "played" => x[2] = "title"
                   /\ after[x].status = "pending" =>
                         \/ \E y \in Pending : y[1] = g
                         \/ <<g, f>> \notin answered
                         \/ f = "set"
                         \/ x \in DOMAIN rows /\ rows[x].form # "full"
        <4>1. CASE x = key /\ after[x] = row
          BY <1>1, <2>2, <2>3, <2>7, <4>1
        <4>2. CASE x \in RowsOf(g) /\ after[x] = rows[x]
          BY <4>2, RowsOfFacts
        <4> QED BY <2>4, <4>1, <4>2
      <3>2. \A x \in RowsOf(g) : x \in DOMAIN after
        BY <2>5, <2>6
      <3> QED BY <3>1, <3>2 DEF SoundFor
    <2> QED BY <1>2, <2>8
  <1>7. CASE r \in RowsOf(g)
    <2>1. r # <<>> /\ row = [rows[r] EXCEPT !.kind = kind, !.form = IF f = "set" /\ r[2] = "title" THEN @ ELSE f]
      BY <1>7, RowsOfFacts
    <2>2. /\ rows[r] \in RowType /\ rows[r].chosen \subseteq Covers[g]
          /\ {g} \X rows[r].chosen \subseteq ticked
          /\ rows[r].status = "pending" => \E y \in Pending : y[1] = g
      BY <1>7, RowsOfFacts
    <2>3. /\ row \in RowType /\ row.chosen = rows[r].chosen /\ row.status = rows[r].status
          /\ row.kind = kind
          /\ row.form = f \/ (f = "set" /\ r[2] = "title")
      BY <1>1, <2>1, <2>2 DEF RowType
    <2>4. ASSUME NEW x \in DOMAIN after
          PROVE  \/ x = key /\ after[x] = row
                 \/ x \in RowsOf(g) /\ after[x] = rows[x]
      OBVIOUS
    <2>5. DOMAIN after = (RowsOf(g) \ {r}) \cup {key}
      OBVIOUS
    <2>60. f = "set" => key = r
      BY <2>1
    <2> HIDE DEF after, key, row, r, id
    <2>6. /\ key \in Ids /\ key[1] = g /\ (f = "played" => key[2] = "title")
          /\ f = "set" => key = r
      BY <1>5, <2>60 DEF Ids
    <2>7. SoundFor(g, after)
      <3>1. ASSUME NEW x \in DOMAIN after
            PROVE  /\ x \in Ids /\ x[1] = g /\ after[x] \in RowType
                   /\ after[x].chosen \subseteq Covers[g]
                   /\ {g} \X after[x].chosen \subseteq ticked
                   /\ after[x].kind = "played_only" \/ after[x].form = "played" => x[2] = "title"
                   /\ after[x].status = "pending" => \E y \in Pending : y[1] = g
        <4>1. CASE x = key /\ after[x] = row
          BY <1>1, <2>2, <2>3, <2>6, <4>1
        <4>2. CASE x \in RowsOf(g) /\ after[x] = rows[x]
          BY <4>2, RowsOfFacts
        <4> QED BY <2>4, <4>1, <4>2
      <3>2. \A x \in RowsOf(g) : \/ x \in DOMAIN after
                                 \/ x = <<g, "np">> /\ <<g, "title">> \in DOMAIN after
        BY <1>5, <1>7, <2>5
      <3> QED BY <3>1, <3>2 DEF SoundFor
    <2> QED BY <1>2, <2>7
  <1> QED BY <1>5, <1>6, <1>7

\* The loop of import_merged, for the rows of one game (psn.py:1652).
LEMMA RowsAfterSound ==
    ASSUME IInv, sync.phase = "import", NEW g \in Games
    PROVE  SoundFor(g, RowsAfter(g))
  <1> DEFINE f == sync.feed[g]
             old == [x \in RowsOf(g) |-> rows[x]]
  <1>1. f \in Forms
    BY DEF IInv, SyncCarries
  <1>2. CASE sync.route[g] \in Kinds
    <2>1. RowsAfter(g) = Upserted(g, f, sync.route[g])
      BY <1>2 DEF RowsAfter, Kinds
    <2> QED BY <1>2, <2>1, UpsertSound
  <1>3. CASE sync.route[g] = "reopen"
    <2> DEFINE id == <<g, "title">>
    <2>1. /\ f = "full" /\ id \in RowsOf(g) /\ rows[id].form # "full"
          /\ IdOf(g, f) = id
      BY <1>3 DEF IInv, SyncCarries, IdOf, RowsOf
    <2>2. RowsAfter(g) = [old EXCEPT ![id] = Reopened(@, f)]
      BY <1>3, <2>1 DEF RowsAfter, Kinds, RowsOf
    <2>3. rows[id] \in RowType
      BY <2>1, RowsOfFacts
    <2>4. /\ Reopened(rows[id], f) \in RowType /\ Reopened(rows[id], f).chosen = rows[id].chosen
          /\ Reopened(rows[id], f).kind = rows[id].kind /\ Reopened(rows[id], f).form = "full"
      BY <1>1, <2>1, <2>3 DEF Reopened, RowType, Lookups
    <2>5. /\ DOMAIN RowsAfter(g) = RowsOf(g)
          /\ \A x \in RowsOf(g) : RowsAfter(g)[x] = IF x = id THEN Reopened(rows[id], f) ELSE rows[x]
      BY <2>1, <2>2
    <2>6. id[1] = g /\ id[2] = "title" /\ id \in Ids /\ id \in DOMAIN rows
      BY <2>1, RowsOfFacts
    <2>7. ASSUME NEW x \in RowsOf(g)
          PROVE  /\ x \in Ids /\ x[1] = g /\ RowsAfter(g)[x] \in RowType
                 /\ RowsAfter(g)[x].chosen \subseteq Covers[g]
                 /\ {g} \X RowsAfter(g)[x].chosen \subseteq ticked
                 /\ RowsAfter(g)[x].kind = "played_only" \/ RowsAfter(g)[x].form = "played" => x[2] = "title"
                 /\ RowsAfter(g)[x].status = "pending" =>
                       (\E y \in Pending : y[1] = g) \/ (x \in DOMAIN rows /\ rows[x].form # "full")
      <3>1. CASE x = id
        <4>1. RowsAfter(g)[x] = Reopened(rows[id], f)
          BY <2>5, <3>1
        <4>2. rows[id].chosen \subseteq Covers[g] /\ {g} \X rows[id].chosen \subseteq ticked
          BY <2>1, RowsOfFacts
        <4> QED BY <2>1, <2>4, <2>6, <3>1, <4>1, <4>2
      <3>2. CASE x # id
        <4>1. RowsAfter(g)[x] = rows[x]
          BY <2>5, <3>2
        <4> QED BY <4>1, RowsOfFacts
      <3> QED BY <3>1, <3>2
    <2> QED BY <2>5, <2>7 DEF SoundFor
  <1>4. CASE sync.route[g] \notin Kinds \cup {"reopen"}
    <2>1. RowsAfter(g) = old
      BY <1>4 DEF RowsAfter, RowsOf
    <2>2. DOMAIN old = RowsOf(g) /\ \A x \in RowsOf(g) : old[x] = rows[x]
      OBVIOUS
    <2> HIDE DEF old
    <2>3. SoundFor(g, old)
      BY <2>2, RowsOfFacts DEF SoundFor
    <2> QED BY <2>1, <2>3
  <1> QED BY <1>2, <1>3, <1>4

\* The rows of all games after the import are those of each.
LEMMA ImportedRows ==
    ASSUME IInv, SyncImports
    PROVE  /\ \A r \in DOMAIN rows' : /\ r[1] \in Games /\ r \in DOMAIN RowsAfter(r[1])
                                      /\ rows'[r] = RowsAfter(r[1])[r]
           /\ \A g \in Games : DOMAIN RowsAfter(g) \subseteq DOMAIN rows'
           /\ \A r \in DOMAIN rows :
                 \/ r \in DOMAIN rows'
                 \/ r = <<r[1], "np">> /\ <<r[1], "title">> \in DOMAIN rows'
  <1>1. /\ sync.phase = "import"
        /\ rows' = [r \in UNION {DOMAIN RowsAfter(g) : g \in Games} |-> RowsAfter(r[1])[r]]
    BY DEF SyncImports
  <1>2. \A g \in Games : \A r \in DOMAIN RowsAfter(g) : r[1] = g
    BY <1>1, RowsAfterSound DEF SoundFor
  <1>3. DOMAIN rows' = UNION {DOMAIN RowsAfter(g) : g \in Games}
    BY <1>1
  <1>4. \A r \in DOMAIN rows' : rows'[r] = RowsAfter(r[1])[r]
    BY <1>1
  <1>5. \A g \in Games : DOMAIN RowsAfter(g) \subseteq DOMAIN rows'
    BY <1>3
  <1>6. \A r \in DOMAIN rows' : r[1] \in Games /\ r \in DOMAIN RowsAfter(r[1])
    BY <1>2, <1>3
  <1>7. ASSUME NEW r \in DOMAIN rows
        PROVE  \/ r \in DOMAIN rows'
               \/ r = <<r[1], "np">> /\ <<r[1], "title">> \in DOMAIN rows'
    <2>1. r[1] \in Games /\ r \in RowsOf(r[1])
      BY DEF IInv, TypeOK, Ids, RowsOf
    <2>2. \/ r \in DOMAIN RowsAfter(r[1])
          \/ r = <<r[1], "np">> /\ <<r[1], "title">> \in DOMAIN RowsAfter(r[1])
      BY <1>1, <2>1, RowsAfterSound DEF SoundFor
    <2> QED BY <1>5, <2>1, <2>2
  <1> QED BY <1>4, <1>5, <1>6, <1>7

\* The entries of all games after the import: where the user was asked first, only on
\* platforms that were ticked.
LEMMA ImportedEntries ==
    ASSUME IInv, SyncImports
    PROVE  /\ DOMAIN entries' \subseteq Slots
           /\ \A e \in DOMAIN entries' :
                 /\ e[2] \in Covers[e[1][1]] /\ entries'[e] \in EntryType
                 /\ AsksFirst(e[1][1]) => <<e[1][1], e[2]>> \in ticked
  <1> DEFINE Held(g) == [e \in {x \in DOMAIN entries : x[1][1] = g} |-> entries[e]]
             After(g) == EntriesAfter(g)
  <1>1. /\ sync.phase = "import"
        /\ entries' = [e \in UNION {DOMAIN After(g) : g \in Games} |-> After(e[1][1])[e]]
    BY DEF SyncImports
  <1>2. ASSUME NEW g \in Games, NEW e \in DOMAIN After(g)
        PROVE  /\ e \in Slots /\ e[1][1] = g /\ e[2] \in Covers[g] /\ After(g)[e] \in EntryType
               /\ AsksFirst(g) => <<g, e[2]>> \in ticked
    <2> DEFINE id == IdOf(g, sync.feed[g])
               P == sync.places[g]
    <2>1. After(g) = ImportAll(Held(g), id, P, "sony", FALSE)
      BY DEF EntriesAfter
    <2>2. id \in Ids /\ id[1] = g
      BY DEF IdOf, Ids
    <2>3. P \subseteq Covers[g] /\ (AsksFirst(g) => {g} \X P \subseteq ticked)
      BY <1>1 DEF IInv, SyncCarries
    <2>4. Covers[g] \subseteq Platforms
      BY PsnAssumption
    <2>5. /\ \A x \in DOMAIN Held(g) : Held(g)[x] \in EntryType
          /\ \A x \in DOMAIN Held(g) : x \in DOMAIN entries /\ x[1][1] = g
      BY DEF IInv, TypeOK, EntryType, Names
    <2>6. "sony" \in Names /\ FALSE \in BOOLEAN
      BY DEF Names
    <2> HIDE DEF After, Held, id, P
    <2>7. /\ DOMAIN After(g) \subseteq DOMAIN Held(g) \cup ({id} \X P)
          /\ \A x \in DOMAIN After(g) : After(g)[x] \in EntryType
      <3>1. PICK es, made, name, linked :
               /\ es = Held(g) /\ made = After(g) /\ name = "sony" /\ linked = FALSE
               /\ name \in Names /\ linked \in BOOLEAN
        BY <2>6
      <3>2. /\ \A x \in DOMAIN es : es[x] \in EntryType
            /\ made = ImportAll(es, id, P, name, linked)
        BY <2>1, <2>5, <3>1
      <3>3. /\ DOMAIN made \subseteq DOMAIN es \cup ({id} \X P)
            /\ \A x \in DOMAIN made : made[x] \in EntryType
        BY <3>1, <3>2, ImportAllAdds
      <3> QED BY <3>1, <3>3
    <2>8. CASE e \in DOMAIN Held(g)
      <3>1. e \in DOMAIN entries /\ e[1][1] = g
        BY <2>5, <2>8
      <3>2. e \in Slots /\ e[2] \in Covers[g]
        BY <3>1 DEF IInv, TypeOK
      <3>3. AsksFirst(g) => <<g, e[2]>> \in ticked
        BY <3>1 DEF IInv, OnlyTicked, AsksFirst
      <3> QED BY <2>7, <3>1, <3>2, <3>3
    <2>9. CASE e \in {id} \X P
      <3>1. e[1] = id /\ e[2] \in P /\ e \in Slots
        BY <2>2, <2>3, <2>4, <2>9 DEF Slots
      <3> QED BY <2>2, <2>3, <2>7, <3>1
    <2> QED BY <2>7, <2>8, <2>9
  <1> HIDE DEF After
  <1>3. DOMAIN entries' = UNION {DOMAIN After(g) : g \in Games}
    BY <1>1
  <1>4. \A e \in DOMAIN entries' : entries'[e] = After(e[1][1])[e]
    BY <1>1
  <1>5. \A e \in DOMAIN entries' : e[1][1] \in Games /\ e \in DOMAIN After(e[1][1])
    BY <1>2, <1>3
  <1> QED BY <1>2, <1>4, <1>5

LEMMA ImportsHold ==
    ASSUME IInv, SyncImports
    PROVE  IInv'
  <1> USE DEF IInv
  <1>1. /\ UNCHANGED <<feed, vetting, ticked, answered, look, recording, counting, chain, cut, acts>>
        /\ sync.phase = "import" /\ sync'.phase = "retire" /\ sync' # NoSync
        /\ sync'.feed = sync.feed
    BY DEF SyncImports, NoSync
  <1>2. /\ \A r \in DOMAIN rows' : /\ r[1] \in Games /\ r \in DOMAIN RowsAfter(r[1])
                                   /\ rows'[r] = RowsAfter(r[1])[r]
        /\ \A r \in DOMAIN rows : \/ r \in DOMAIN rows'
                                  \/ r = <<r[1], "np">> /\ <<r[1], "title">> \in DOMAIN rows'
    BY ImportedRows
  <1>3. \A r \in DOMAIN rows' :
           /\ r \in Ids /\ rows'[r] \in RowType
           /\ rows'[r].chosen \subseteq Covers[r[1]]
           /\ {r[1]} \X rows'[r].chosen \subseteq ticked
           /\ rows'[r].kind = "played_only" \/ rows'[r].form = "played" => r[2] = "title"
    <2> TAKE r \in DOMAIN rows'
    <2>1. PICK after : after = RowsAfter(r[1])
      OBVIOUS
    <2>2. SoundFor(r[1], after) /\ r \in DOMAIN after /\ rows'[r] = after[r]
      BY <1>1, <1>2, <2>1, RowsAfterSound
    <2> QED BY <2>2 DEF SoundFor
  <1>4. /\ DOMAIN entries' \subseteq Slots
        /\ \A e \in DOMAIN entries' :
              /\ e[2] \in Covers[e[1][1]] /\ entries'[e] \in EntryType
              /\ AsksFirst(e[1][1]) => <<e[1][1], e[2]>> \in ticked
    BY ImportedEntries
  <1>5. TypeOK'
    BY <1>1, <1>3, <1>4 DEF TypeOK, RowType, EntryType, Names
  <1>6. OnlyTicked'
    BY <1>1, <1>4 DEF OnlyTicked, AsksFirst
  <1>7. SyncCarries'
    BY <1>1 DEF SyncCarries
  <1>8. RowsHold'
    BY <1>1, <1>3 DEF RowsHold
  <1>9. PagesHold'
    <2>1. ASSUME NEW r \in recording
          PROVE  r \in DOMAIN rows' /\ r[2] = "title"
      <3>1. r \in DOMAIN rows /\ r[2] = "title"
        BY DEF PagesHold
      <3>2. r # <<r[1], "np">>
        BY <3>1
      <3> QED BY <1>2, <3>1, <3>2
    <2> QED BY <1>1, <2>1 DEF PagesHold
  <1>10. AnsweredRowsStay'
    <2> SUFFICES ASSUME NEW a \in answered
                 PROVE  \/ <<a[1], "title">> \in DOMAIN rows'
                        \/ <<a[1], "np">> \in DOMAIN rows' /\ a[2] # "played"
      BY <1>1 DEF AnsweredRowsStay
    <2>1. CASE <<a[1], "title">> \in DOMAIN rows
      <3>1. <<a[1], "title">> # <<a[1], "np">>
        OBVIOUS
      <3> QED BY <1>2, <2>1, <3>1
    <2>2. CASE <<a[1], "np">> \in DOMAIN rows /\ a[2] # "played"
      BY <1>2, <2>2
    <2> QED BY <2>1, <2>2 DEF AnsweredRowsStay
  <1>11. NoneForgotten'
    BY <1>1 DEF NoneForgotten, InSight
  <1> QED BY <1>5, <1>6, <1>7, <1>8, <1>9, <1>10, <1>11

\* What the import adds to the queue was not answered before, as far as it can tell.
LEMMA ImportAsksNew ==
    ASSUME IInv, SyncImports, NEW r \in DOMAIN rows', AsksAnew(r)
    PROVE  \/ <<r[1], sync.feed[r[1]]>> \notin answered
           \/ sync.feed[r[1]] = "set"
           \/ r \in DOMAIN rows /\ rows[r].form # "full"
  <1>1. /\ r[1] \in Games /\ r \in DOMAIN RowsAfter(r[1])
        /\ rows'[r] = RowsAfter(r[1])[r]
    BY ImportedRows
  <1>2. sync.phase = "import" /\ rows'[r].status = "pending" /\ ~\E x \in Pending : x[1] = r[1]
    BY DEF SyncImports, AsksAnew
  <1>3. PICK after : after = RowsAfter(r[1])
    OBVIOUS
  <1>4. SoundFor(r[1], after) /\ r \in DOMAIN after /\ rows'[r] = after[r]
    BY <1>1, <1>2, <1>3, RowsAfterSound
  <1> QED BY <1>2, <1>4 DEF SoundFor

-----------------------------------------------------------------------------
(* The theorems *)

LEMMA NextInv == IInv /\ [Next]_vars => IInv'
  <1> SUFFICES ASSUME IInv, [Next]_vars PROVE IInv'
    OBVIOUS
  <1>1. CASE SyncStep
    BY <1>1, ReadsCarried, ImportsHold, RetiresHold, QuietSteps, EditsHold DEF SyncStep
  <1>2. CASE SyncFails \/ Restart \/ \E g \in Games, f \in Forms : FeedChanges(g, f)
    BY <1>2, QuietSteps
  <1>3. CASE Answer
    <2>1. PICK r \in Pending : \/ \E P \in Ticks : Confirm(r, P)
                               \/ ConfirmLink(r)
                               \/ \E p \in Covers[r[1]] : ImportPlayed(r, p)
                               \/ DecidePlayed(r, "dismissed") \/ DecidePlayed(r, "confirmed")
      BY <1>3 DEF Answer
    <2>2. r \in DOMAIN rows
      BY DEF Pending
    <2> QED BY <2>1, <2>2, ConfirmHolds, AnswerHolds, ImportPlayedHolds
  <1>4. CASE Again
    BY <1>4, AnswerHolds, ImportPlayedHolds DEF Again
  <1>5. CASE PageStep
    BY <1>5, QuietSteps, RecordsHolds DEF PageStep
  <1>6. CASE ChainStep
    BY <1>6, QuietSteps, StorePassHolds, LinksHold DEF ChainStep
  <1>7. CASE Edits
    BY <1>7, EditsHold
  <1>8. CASE UNCHANGED vars
    BY <1>8 DEF vars, IInv, TypeOK, OnlyTicked, SyncCarries, AsksFirst, RowsHold, PagesHold,
                AnsweredRowsStay, NoneForgotten, InSight, Pending, IsPending
  <1> QED BY <1>1, <1>2, <1>3, <1>4, <1>5, <1>6, <1>7, <1>8 DEF Next

THEOREM InductiveInvariant == Spec => []IInv
  BY InitInv, NextInv, PTL DEF Spec

\* Rows, entries, lookups and requests under way are what the code takes them for, in
\* every interleaving of a sync, the pages and the chain (psn.py, pages_match_review.py).
THEOREM TypeCorrect == Spec => []TypeOK
  <1>1. IInv => TypeOK
    BY DEF IInv
  <1> QED BY <1>1, InductiveInvariant, PTL

\* Syncs make no entry that was not asked for: neither what was read before a decision,
\* nor a record's change of id, nor a sync cut short makes one (psn.py:1606, :1703).
THEOREM EntriesWereTicked == Spec => []OnlyTicked
  <1>1. IInv => OnlyTicked
    BY DEF IInv
  <1> QED BY <1>1, InductiveInvariant, PTL

\* However many requests and whatever sync empty the queue, when all is quiet each entry
\* has had its turn at the store (pages_match_review.py:260).
THEOREM EmptiedQueueEnriched == Spec => []EnrichedWhenEmpty
  <1>1. IInv => EnrichedWhenEmpty
    BY DEF IInv, NoneForgotten, InSight, EnrichedWhenEmpty, Quiet, NoChain
  <1> QED BY <1>1, InductiveInvariant, PTL

\* No sync asks again what an answer that stands has settled (psn.py:3989), except in the
\* cases NeverReasked names.
THEOREM AskedOnce == Spec => NeverReasked
  <1>1. ASSUME IInv, [Next]_vars, sync.phase = "import", sync'.phase = "retire",
               NEW r \in DOMAIN rows', AsksAnew(r)
        PROVE  \/ <<r[1], sync.feed[r[1]]>> \notin answered
               \/ sync.feed[r[1]] = "set"
               \/ r \in DOMAIN rows /\ rows[r].form # "full"
    <2>1. sync' # sync
      BY <1>1
    <2>2. SyncImports
      <3>1. ~SyncRetires /\ ~SyncReads /\ sync' # NoSync
        BY <1>1 DEF SyncRetires, SyncReads, NoSync
      <3> QED BY <1>1, <2>1, <3>1 DEF Next, vars, SyncStep, LooksUp, LearnsNothing, Learns, SyncEnds,
                 SyncFails, Answer, Confirm, ConfirmLink, ImportPlayed, DecidePlayed, Again,
                 PageStep, EnrichesIfLast, Records, ChainStep, ChainBegins, StorePass, Links,
                 Edits, Reject, Reopen, Rename, FeedChanges, Restart
    <2> QED BY <1>1, <2>2, ImportAsksNew
  <1>2. IInv /\ [Next]_vars =>
           [sync.phase = "import" /\ sync'.phase = "retire" =>
              \A r \in DOMAIN rows' :
                 AsksAnew(r) =>
                    \/ <<r[1], sync.feed[r[1]]>> \notin answered
                    \/ sync.feed[r[1]] = "set"
                    \/ r \in DOMAIN rows /\ rows[r].form # "full"]_vars
    BY <1>1
  <1> QED BY <1>2, InductiveInvariant, PTL DEF Spec, NeverReasked
=============================================================================
