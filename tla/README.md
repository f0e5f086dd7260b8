# Completed-games tracker: TLA+ models and proofs

The program is a FastAPI application that keeps a library of games, synced from
Steam and PlayStation Network (PSN) and completed by hand or by spreadsheet
import. It is one process: an asyncio loop, a pool of worker threads, one SQLite
file, and a few module-level dicts. Its hard part is not the CRUD but the
background work: syncs and their follow-up chains, ambient workers that must
keep off the database while those write, imports that are queued, drained and
cancelled, review queues that several pages and jobs change at once, and rules
that decide which records of Sony, Steam, IGDB and a spreadsheet are one game.

This directory holds TLA+ models of that part, TLC configurations for them, and
proofs checked by TLAPS. `PROJECT.json` is the index: which definition models
which lines, which run checks which property, which hazard it is for.

    tlc -workers 2 -config SyncJobsSafety.cfg MCSyncJobs.tla    # any run below
    tlapm SyncJobsProofs.tla                                    # any module of proofs

## 1. The system

| component | code (`src/backend` unless said) | state it keeps | who changes it |
|---|---|---|---|
| job registry | `jobs.py` | `_jobs`, one lock | every runner and handler, the poll |
| sync runners, follow-up chains | `integrations.py` | coroutines, each with at most one job | the loop |
| ambient workers, pause counter | `main.py`, `worker_state.py` | `_pause_depth`, two endless coroutines | runners (pause, resume), lifespan |
| import uploads and queue | `pages_import.py`, `jobs.py` | `_staged`, `_import_queue` | upload, process, drains, cancels (in threads) |
| import candidate review | `pages_import.py`, `importer.py`, `pages_library.py` | candidates, rows, completions | request threads, an import's thread |
| duplicate match review | `match_review.py`, `pages_match_review.py` | match candidates, releases, entries | request threads, scan jobs, the rescan of a store refresh |
| PSN sync and review | `psn.py`, `psn_store.py`, `pages_match_review.py` | PSN review rows, proposals, releases | the sync thread, request threads, chain steps |
| Steam sync and enrichment | `steam.py` | releases, `metadata_fetched_at`, artwork | the sync thread, the enrichment and artwork workers |
| achievements | `achievements.py`, `steam_achievements.py` | achievement sets | a chain step, a request |
| artwork and title clients | `steamgriddb.py`, `igdb.py` | none (a token cache) | callers |
| parsing and matching | `importer.py`, `titles.py` | none | callers |
| library, completions, account pages | `pages_*.py`, `users.py` | rows of one request | request threads |
| schema and migrations | `models.py`, `alembic/` | tables, constraints, cascades | everybody, through SQLAlchemy |
| desktop shell | `src/desktop` | the server process | the operating system |
| pages | `src/frontend` | the open page, its poll timer | the user |

**How they interact.** A button creates a job in the registry and schedules a
runner with `asyncio.create_task`. The runner marks the job running, pauses the
ambient workers, and awaits `asyncio.to_thread(work)`: during the await anything
else may run. It then marks the job done or failed, may schedule a *chain* (one
coroutine that creates, runs and awaits one follow-up job after the other), and
resumes the workers in its `finally`. Each open page polls; the poll takes the
terminal jobs not yet notified and stamps them. All of it is memory: a restart
loses registry, chains, pauses, queue and uploads, and keeps the database.

**What is hard here.** (a) The gap between `create` and the runner's first turn.
(b) What happens between two steps of a chain, when no runner is alive.
(c) Runners that mark their job twice. (d) A counter shared by overlapping
runners, with a clamp that hides a mistake. (e) An upload, a process, a cancel
and a drain that meet in any order, two of them in threads. (f) Handlers in
threads that read rows, decide, and write in a later transaction (SQLite in WAL
mode: reads are not part of the write transaction). (g) Every step of a runner
may raise. (h) A restart at any point. `PROJECT.json` lists these as `hazards`,
line by line, with the property that would catch each.

**What makes each part correct.**

- *Registry and runners*: one crawl of a user at a time, a job is active exactly
  while its runner works, every job ends, and is reported, once.
- *Pause counter and workers*: the counter counts, and workers begin nothing
  beside a pausing job or between the steps of a chain.
- *Chains*: each step gets its turn whatever failed before.
- *Import queue*: a file is imported once; the queue holds exactly the waiting
  imports; an import shown as running is run by a live drain; a cancelled one
  stops, and stays cancelled; each import ends.
- *Import review*: a pending or dismissed candidate holds no completion it
  logged, a row is logged once, reopening deletes only what confirming logged.
- *Match review*: merging loses no completion, a refusal stands, and whatever
  scans meet, the questions settle on the best match of each entry.
- *PSN review*: an entry only where the user ticked it, nothing decided is asked
  again although ids change, and the queue that empties is followed by the chain.
- *Steam enrichment*: each entry is fetched in the end, is rightly DLC or game,
  linked and covered, and what the user hid or showed by hand stands.
- *Achievements*: what the gates skip is current, and each set is fetched in the
  end though passes stop.
- *Rules*: merging feeds loses nothing, one game is one question, no platform is
  pre-ticked twice, a name does not depend on IGDB's ranking, a sequel is not the
  game, and a sheet imported again proposes each completion once.

## 2. The modules

| module | models | extends |
|---|---|---|
| `JobRegistry` | `jobs.py`: the registry as a value, each function an operator | |
| `SyncJobs` | `integrations.py`, `main.py`, `worker_state.py`, the poll | `JobRegistry` |
| `SyncJobsProofs` | inductive invariant and theorems of `SyncJobs` | `SyncJobs` |
| `ImportQueue` | upload, process, drains and cancels of `pages_import.py` | `JobRegistry` |
| `ImportRequests` | what the import queue promises: lines served in turn | |
| `ImportReview` | the review of the candidates an import wrote, and its undoing | |
| `MatchReview` | `match_review.py`, its page, and the library beside it | |
| `PsnReview` | PSN sync, review rows, decisions, lookups, the follow-up chain | |
| `PsnRules` | the pure rules of `psn.py`: merge, grouping, pre-ticks, proposals | |
| `ImportRules` | the pure rules of `importer.py`: search passes, dates, dedup | |
| `Rules` | any input of these rules, and what they promise of it | `PsnRules`, `ImportRules` |
| `RulesProofs` | that they keep it, whatever the input | `Rules` |
| `SteamLibrary` | `steam.py`, the tools and the edits of Steam entries | |
| `Achievements` | the trophy and achievement passes, their gates and refusals | |
| `ImportQueueProofs`, `ImportReviewProofs`, `MatchReviewProofs`, `PsnReviewProofs`, `SteamLibraryProofs`, `AchievementsProofs` | inductive invariants and theorems of each module | that module |
| `MCSyncJobs`, `MCImportQueue`, `MCImportReview`, `MCMatchReview`, `MCPsnReview`, `MCRules`, `MCSteamLibrary`, `MCAchievements` | TLC instances | |

`ImportQueue` implements `ImportRequests`: `ServedInTurn` is the abstract
specification with `line`, `turn` and `over` computed from the queue and the
registry. `PsnReview` takes for granted that a game is one trophy set and one
question; `PsnRules` is what makes it so, and is checked and proved by itself.

### JobRegistry

Each function of `jobs.py` holds the lock for its whole body, so each is an
operator `registry -> registry`, and the modules above apply them atomically.
Texts are reduced to what a toast can tell apart: the two messages a runner may
leave, and two errors. `mark_done` and `mark_failed` overwrite the status
whatever it was and leave the other's text in place, as the code does; that is
what one of the findings is about.

### SyncJobs

| variable | in the code |
|---|---|
| `jobs` | `jobs._jobs` |
| `task[j]` | where the coroutine of job `j` is: not begun (`scheduled`), in its thread (`working`), in the second scan of a store refresh (`rescanning`) |
| `chains[c]` | a live `_run_psn_followups` or `_run_steam_followups`: the steps left and the job it awaits |
| `pauseDepth` | `worker_state._pause_depth` |
| `worker[w]` | an ambient worker: asleep, in a batch, in the requeue pass |
| `told[j]` | history: the toasts polls delivered for `j` |

An action is what a coroutine does between two awaits that suspend it. So
`RunnerReturns` contains the runner's `finally` *and*, when a chain awaits it,
the chain's next step (create, running, pause) — awaiting a coroutine directly
does not yield to the loop, so a worker cannot begin in between, and
`WorkersStayAsleep` says so. A job started by a request waits for its first turn
(`RunnerBegins`). `SyncDone` spawns the chain inside the same turn that marks the
job done. `WorkFails` is any exception, at any place of the work, in a rescan
too. `Poll` runs in a thread and touches only the registry. What a sync does to
the library is an input: which follow-ups it chains, and whether a store refresh
retitled anything.

### ImportQueue

| variable | in the code |
|---|---|
| `staged` | `jobs._staged`: token to owner |
| `queue[u]` | `jobs._import_queue[u]` |
| `drains[d]` | a live `_drain_import_queue`: its phase, job, and the candidates its file still yields |
| `flagging[u]` | an `import_cancel_job` request between its list and its last flag |
| `fileOf`, `late` | history: the file of each job; candidates added after the flag |

`import_process` awaits `request.form()`, but FastAPI parsed the form before it
called the handler, so the await does not suspend and the handler is one action.
The cancels are plain functions in threads: `CancelLists` and `CancelFlags` are
separate, and `CancelQueued` is the one locked call that removes and fails. The
flag is read where the code reads it, after a candidate was added. `SyncBegins`
and `SyncEnds` are another job of the user, there because `ImportRunning` looks
at all of the user's active jobs.

A user has one staged upload (staging replaces the one before it), and a drain
that `import_process` schedules gets its first turn before another upload and its
process can be served. So no process of a user comes while a drain of theirs is
scheduled and has not begun: that is the guard `~DrainScheduled(u)`, and
`ServedInTurn` relies on it (one import of a user at a time). Drains of two users do meet.

### ImportReview

| variable | in the code |
|---|---|
| `cands` | tables `import_candidates` and `import_rows`: title, matched entry, action, status, rows |
| `comps` | `completions` that imports logged |
| `entries` | `user_library` |
| `gone` | ids deleted since (history; an id is not handed out again) |
| `open[r]` | a handler between what it read and its commit: the operation, the candidates as read, as its session leaves them, and the completions it saw |

Sessions do not autoflush, and in WAL mode a read belongs to no write
transaction: a handler is a *reading* action (`Reads`) and a later *committing*
one (`Commits`). The ORM writes only the columns the session changed, so a commit
does not put back what another request wrote meanwhile to other columns
(`Flush`). A row of a group is reduced to its date, its position and its text.

`KeysLogged` is `_confirm_add_to_existing`'s look for a completion that is
already there. The look comes before each insert; up to the first insert it sees
what was there when the handler read, from then on it runs in the write
transaction and sees the present. A completion is named by the row that logged it
and a number, so that the link of a row, the completion it made and a double of
it can be told apart. `Fails` is any commit that fails: a locked database, a row
deleted in the meantime, a foreign key that points nowhere; the latter two are
also the guards of `Commits`. Deleting an entry clears it from candidates
(`SetNull`) and is refused while it has completions, as in the schema.

`Exclusive` says whether two requests about one candidate may be under way at a
time. The page disables a card's button while its request runs and then replaces the
card, so TRUE is about how one user in one window behaves; nothing in the code enforces it, and the
findings tell what follows when it is FALSE (two windows, or a bulk action beside
a single one). An import's thread writes new candidates beside any
request in both cases. `Deletes` adds the user's deletions elsewhere.

### MatchReview

| variable | in the code |
|---|---|
| `owner`, `title` | manual `user_library` entries and the titles of their games |
| `held` | entries a sync made: a user and a release (releases are shared) |
| `cand` | `sync_match_candidates`: a manual entry and a release, with its status |
| `at` | the entry each completion is at |
| `scan[k]` | a scan between its reads and its commit |
| `merging` | a merge between its reads and its commit |

A scan reads, compares titles for seconds, and commits what it found by what it
had read: `New` and `Stale` are relative to that. Scans run as a job, at the end
of a sync and in the rescan of a store refresh, so `Scanners` is two. `Proposed`
is the choice (external id, several certain ones, the best); the score of two
titles is the constant `Score`. `ScanFails` is the unique key or the missing entry
the database refuses, or a locked database.

### PsnReview

| variable | in the code |
|---|---|
| `feed[g]` | what Sony shows of game g: nothing, a demo, a play record, its trophy set alone, set and play record joined, all of it |
| `rows` | `psn_review_candidates`, by the id they go by: kind, status, chosen platforms, lookup |
| `entries` | PSN releases with their entry: whose name they carry, IGDB id, seen by the store pass |
| `sync`, `look` | `sync_library` between its commits: import, retire, row-by-row lookups |
| `recording`, `counting` | requests between their commits: a played-only import not yet recorded, a decision not yet counted |
| `chain` | the follow-up chain |
| `ticked`, `answered`, `cut` | history, for the properties |

The id of a record is `np` (its trophy set) or `title` (a purchase or a play
record), by what the feeds know: that is what changes under a review row.
`Route` is the sequence of tests of `import_merged`, by the rows and entries of the
moment the loop begins; `SyncImports` is its one transaction. `Upserted` finds the
row of a record, by id, by the set's id, or a pending one of the set, and re-keys
it. A decision commits and then counts what is pending (`EnrichesIfLast`); a bulk
request decides several and counts once. `Hits` is what a lookup may say.

### PsnRules, ImportRules, Rules

Operators, no state. Lists of feed items are sequences, a dict in insertion order is
a sequence of pairs, and names are compared as values already normalised
(`PsnRules`) or as sequences of words with the folding of a word given by the
instance (`ImportRules`). What is kept is the order of the tests, which copy of a
list each loop reads, and what is joined to what: `MergeLibrary` with its
pre-loop snapshots, `Groups` with the split by contested platforms, `PreTicked`
and `Shown` of the page, `Weigh` over IGDB's hits; `BestMatch` with its seven
passes, `ParseDate`, `ParseSheet` and `Write`. A loop of the code is a recursive
function from the number of turns done to what it holds by then (`WithPurchases`,
`WithSets`, `WithPlays`, `Placed`, `Weighed`), so that a proof can go turn by turn.

`Rules` picks one input of one rule in a behaviour's only step, and states the
promises of what is picked. Its assumptions say what inputs there are: `FeedsAreFeeds`
(the ids of titles, products and trophy sets differ in form from each other and from
names, which is why the code may search all three with any id; Sony lists a set once),
`RecordsNumbered` and `EntriesNumbered` (primary keys), `HitsAreHits`,
`BoundsAreNumbers`; `ImportRules` has `TwinsAreNumbers` (a letter stands for one
number). `NoneTickedTwice`, a part of `OneRowPerGame`, supposes one name for the
records of a game and no refused proposal: a refused one takes part in `Akin` with the
game it proposed and in grouping without it, so that two rows of one name may not know
of each other's claims (finding 7 of section 4).

### SteamLibrary

| variable | in the code |
|---|---|
| `games[a]` | Game with its Steam release: DLC, collection, parent, name, edited by hand, what raw_data holds, fetched or stale |
| `shelves[a]` | the user's entry: hidden, and whether by hand |
| `covers[a]` | the header row of `game_artwork`: legacy or hashed URL, valid, checked |
| `born[a]` | `created_at` of a release: how many there were before the sync that brought it. The batch takes the oldest first (`Oldest`) |
| `worker`, `verifying`, `sync`, `request` | what waits for Steam between its reads and its commit |
| `Failing`, `Delisted`, `owned` | the environment: apps whose details always fail, apps the store no longer knows, what was bought |

A commit writes the columns whose value changed since the session read them
(`Flush`). What the worker has still to do is a set, served by `born`. The batch commits app by app
and reads anew after each (`GoesOn`). Both
halves of a full sync are one transaction, unless the store session is renewed
between them (`SyncRenews`). `Details` is what one appdetails answer does to the
app and to the children it lists.

### Achievements

| variable | in the code |
|---|---|
| `size`, `last`, `gained`, `hidden` | the environment: sets, plays, unlocks, games marked private |
| `told` | what a sync recorded of a user's set |
| `filed` | definitions on file, by the version or count they were filed for |
| `rows` | a user's unlocks on file |
| `forbidden`, `refused` | the marks on a Steam release |
| `pass[u]` | a pass: sets to do, what its session has read, the answer it waits to store, refusals in a row |

A pass skips by its gates (`Skipped`), asks (`Asks`) and stores in a later step, one
transaction a set; `Turn` takes the sets to do in the order of their ids. A set grows at its end and
is unlocked in order, so that a
number says which achievements are meant.

## 3. The runs

| run | question | result |
|---|---|---|
| `sync_safety` | do registry, runners, pauses, chains and toasts agree in every interleaving? | pass, about 329,000 states |
| `sync_live` | does each job end and get reported, and each chain step get its turn? | pass, about 21,000 states |
| `import_safety` | do queue, registry, drains and cancels agree, and is the line served in turn? | pass, about 53,000 states |
| `import_live` | does every queued import end? | pass, about 27,000 states |
| `review_safety` | can every completion an import logged be undone, and does a decision stand? | pass, about 241,000 states |
| `reopen_own` | does reopen delete "exactly" what the candidate's confirm made? | violated |
| `match` | is a completion lost in a merge, a refusal asked again, do the questions settle? | pass, about 119,000 states |
| `psn_review` | entries only where ticked, nothing asked twice, enriched when empty? | pass, about 935,000 states |
| `approved_name` | does the entry keep the name the user approved? | violated |
| `steam` | is each game in the end fetched, classified, linked and covered, and a hide by hand kept? | pass, about 37,000 states |
| `rules` | do the pure rules keep what they promise, on each bounded input? | pass, about 147,700 states |
| `achievements` | do the gates skip only what is on file, and is each set fetched in the end? | pass, about 29,000 states |

**Bounds.** `Jobs`, `Chains`, `Users`, `Tokens`, `Drains` bound what is alive at
once.

- In `SyncJobs` a job that has ended, been reported and lost its runner is read
  by nobody, so its id is handed out again (`Settled`, `Fresh`): three ids bound
  how many jobs are unsettled, not how many a behaviour has. Three are needed for
  two chains and a button at once. `VIEW` drops the settled jobs from the
  fingerprint. Two states with one view enable the same actions and give them
  the same views after; the invariants about settled jobs are `OneCrawlPerUser`,
  `ActiveHasRunner` and `PauseBalanced`, true of a settled job by definition of
  `Settled`, and `ToldOnce`, for which the view keeps the jobs with two toasts.
  For `EveryJobReported` a settled job has what it waits for and an unused id
  asks for nothing, so joining them changes no verdict. One user is enough to
  meet two chains and three kinds of job; different users share nothing but
  `pauseDepth`, and the theorems cover any number.
- `SpareIds` is 1 in `sync_live`: a request leaves one id to the chain. In the
  code ids never run out; without it buttons could starve a chain of ids, which
  is a fact about the bound and not about the program.
- In `ImportQueue` ids and tokens are not reused: three jobs let the drains of
  two users, and a running, a waiting and a cancelled entry of one, meet. `MaxCandidates` is 3, one
  more than the `late` bound of
  `CancelStopsWriting` needs to be exceeded. A process request is refused when
  all `Drains` are alive, which bounds the model and not the code.
- In `review_safety` two ids of candidates, two entries and two requests at a
  time. Ids are not reused. The file is one group of one row: a second candidate of
  the title comes from a second import once the first is decided, renamed or
  moved to another platform, and can then be matched to the same entry, which is
  how two candidates come to hold one date. Groups of two rows multiply the edits
  beyond what a run of minutes covers; what they add, several keys in one
  transaction (`KeysLogged` with a proper subset), is in the model for a larger
  instance. `reopen_own` has two titles of one game and one request at a time:
  the violation needs no race.
- In `match` two manual entries (of one user, or of two), two releases, of which one is
  a match by its year and one by its id, two titles, one completion and two
  scanners. `MaxActs` (3) counts what users and syncs do: a sync that brings a
  release, a merge, a dismissal, a deletion, a new title. Scans are not counted.
- In `psn_review` one game has a set for two platforms and is bought or not, one has a
  single platform and goes from demo or play record to full. `MaxActs` is 1: one
  change of the feeds, reopening, typed name, refusal, failure or restart, beside any
  number of syncs and answers; two requests at a time. A sync that reads, a change,
  a second sync, and answers before, between and after is what the properties need.
- In `steam` a base game and a season pass that Steam calls a game; the base may
  fail for ever, the pass may be delisted.
  `MaxActs` (2) counts buttons and restarts; batches, ageing, verification and
  purchases are free. `WithDlc` in the MC module is the instance in which Steam names the base.
- In `rules` each behaviour picks one input: at most two copies, two sets and two play
  records; three review records; three IGDB hits; three library entries and a title of
  three words; a sheet of three rows imported in three parts. Two records, or two
  entries, are the least that can be confused; the third is the one confused with both.
  The theorems have no bound.
- In `achievements` one PSN set and two Steam games of at most two achievements, two
  plays each, `MaxActs` 2, and a run of two refusals (three in the code) that ends a pass. `Racing`
  is FALSE: a user plays between passes. An unlock between an answer and its
  storing is taken for seen until the next one moves the stamp.
- `SYMMETRY` is used in safety runs only.

**Deadlock** is checked except in `import_live`, the runs of `ImportReview`, `match`,
`steam` and `rules`: tokens, job ids, candidates and acts run out (by the bound),
a user with nothing left to decide or to sync has nothing to do, and an input
of `rules` is looked at once.

**Fairness** (`FairSpec`). The loop runs every ready task, every piece of work
ends (HTTP calls carry timeouts and lists are finite), and an open page polls
every five seconds: weak fairness of runners, chain starts, polls, batches and
drains. Nobody has to press a button, no worker has to begin a cycle, and the
server stays up (`Serve` instead of `Next`), as a restart forgets the jobs the
property speaks of. `import_live` sets `LookupFails` to FALSE: the query between
two imports may raise on a locked database, and then the drain ends with imports
waiting until the next upload. `import_safety` has it TRUE, and
`RunningHasDrain` shows that the next upload does start a drain.

The other temporal runs assume, beside weak fairness of work that was begun, what
only luck could refuse for ever. `match`: each user's scans run now and then (each
sync ends with one) and not each of them meets a locked database (strong fairness
of beginning and of committing). `steam`: the worker's cycles go on, syncs end,
days pass, and of the requests for one app not all are lost to the rate limit or an
error, unless the app is in `Failing` (strong fairness per app). `achievements`: the
user syncs now and then, each sync is followed by its pass, store pages are read
again, and of the answers for one set not all are lost. Nobody has to press a
button in any of them.

## 4. What the runs found

Two runs end in a violation; the rest was found while modelling, where the model has the behaviour
of the code
and a property is stated so as to leave it out. `PROJECT.json` quotes
each promise.

1. *Reopen deletes more than its own* (run `reopen_own`). Confirming skips a
   completion that is already there, whoever logged it, and leaves the row without a
   link; reopening takes a row without a link for one from before links existed and
   deletes the completion that matches its date and position, which another
   candidate logged. One request at a time suffices.
2. *The approved name is taken back* (run `approved_name`). Confirming a PSN row makes the
   entry under the name the user approved; the next sync writes Sony's over it.
3. *Jobs.* Two chains of a user overlap although follow-ups are to run one at a time.
   A store refresh is marked done, rescans, and is marked again; a poll in between
   reports the first outcome as the last.
4. *Import.* Two windows can dismiss a candidate whose completions were just logged. Of
   two rows with one date and position only the first is logged.
   `queued_imports_for` unpacks three names from four-element entries and raises while
   an import waits; `import_fetch_thumbnails` calls `create_task` in a thread. An exact
   title match can be shadowed when its number is spelled the other way, and the
   test for a subtitle's words matches the start of a longer word.
5. *Match review.* Merging dismisses other users' questions about the release; a scan
   deletes a refusal made while it scored; two scans may leave two questions about
   one entry; artwork of a merged entry is left without owner; clearing dismissed
   rows deletes through a join, which SQLAlchemy refuses; an entry with completions
   cannot be deleted.
6. *Steam.* The DLC part of a sync and the legacy detection change flags the user set; one
   app whose details always fail keeps stale entries from ever being requeued, and a
   batch of them starves the rest; refresh and legacy detection promote to DLC without
   clearing the collection flag.
7. *PSN.* A refused name is proposed again after better data; `aliasIds` is written and
   never read, so a record shown under an old id is asked about anew (`NeverReasked` excepts it);
   rows of titles sold apart, and rows after a refused proposal, pre-tick what a sibling
   took; an option may be shown with another member's claims;
   a lookup under way overwrites a name typed meanwhile.
8. *Achievements.* A game no longer private is not asked about until something is
   unlocked; a private profile marks two more games as refused with each pass, for all users;
   after another account's pass filed a new version's definitions, this one's rows for it wait
   for its next play (on PSN only if the set grew and was unlocked between a sync and its pass); and
   so they do when the view was refused, since the counts are then stored
   with the new definitions and without rows. The last came out of the proof of `GatesAreRight`,
   whose invariant would not hold across `CountsOnly`; it takes four acts (grow, unlock, mark
   private, grow), two more than the run has.

## 5. What is proved

For every value of the constants that satisfies the modules' named assumptions, by
TLAPS. The assumptions are what the database and Python give (finite sets of jobs,
files, platforms and apps; ids that differ; foreign keys), and TLC evaluates them in
each run.

| module | theorem | says |
|---|---|---|
| `SyncJobsProofs` | `TypeCorrect` | `Spec => []TypeOK` |
| | `NoTwoCrawls` | `Spec => []OneCrawlPerUser` |
| | `ActiveJobsHaveRunners` | `Spec => []ActiveHasRunner` |
| | `PausesBalance` | `Spec => []PauseBalanced` |
| | `WorkersAsleep` | `Spec => WorkersStayAsleep` |
| | `ToldOnceOnly` | `Spec => []ToldOnce` |
| `ImportQueueProofs` | `TypeCorrect` | `Spec => []TypeOK` |
| | `ImportedOnce` | `Spec => []UploadImportedOnce` |
| | `QueueIsExact` | `Spec => []QueuedExactly` |
| | `RunningIsWorkedOn` | `Spec => []RunningHasDrain` |
| | `CancelStops` | `Spec => []CancelStopsWriting` |
| | `QueueServesInTurn` | `Spec => ServedInTurn`: the refinement of `ImportRequests` |
| `MatchReviewProofs` | `TypeCorrect` | `Spec => []TypeOK` |
| | `MergesKeepCompletions` | `Spec => CompletionsKept` |
| | `RefusalsStand` | `Spec => RefusalStands` |
| `PsnReviewProofs` | `TypeCorrect` | `Spec => []TypeOK` |
| | `EntriesWereTicked` | `Spec => []OnlyTicked` |
| | `EmptiedQueueEnriched` | `Spec => []EnrichedWhenEmpty` |
| | `AskedOnce` | `Spec => NeverReasked` |
| `ImportReviewProofs` | `TypeCorrect` | `Spec => []TypeOK` |
| | `CompletionsStayHeld` | `Exclusive`: `Spec => []CompletionsHeld` |
| | `DecisionsAreFinal` | `Exclusive`: `Spec => DecisionsStand` |
| `SteamLibraryProofs` | `TypeCorrect` | `Spec => []TypeOK` |
| | `HandsStand` | `~Hasty`: `Spec => HideStands` |
| `AchievementsProofs` | `TypeCorrect` | `Spec => []TypeOK` |
| | `GatesRight` | one user, `~Racing`: `Spec => []GatesAreRight` |
| `RulesProofs` | `FeedsLoseNothing` | `Spec => []MergeLosesNothing` |
| | `OneQuestionAGame` | `Spec => []OneRowPerGame` |
| | `NamesByRules` | `Spec => []NameByRules` |
| | `SequelsStayApart` | `Spec => []SequelsApart` |
| | `CompletionsProposedOnce` | `Spec => []EachProposedOnce` |

Every safety property that a passing run checks is proved. Three
theorems have a hypothesis, because without it the property is false of the code, as
section 4 reports: `Exclusive` (no two requests about one candidate at a time), `~Hasty` (the
user does not edit an entry while a request of theirs about it waits for Steam), `Alone` (one user,
who does not play while a pass works). The runs have the same values.

None of the properties is inductive alone. What each invariant adds:

**`SyncJobs`.** `IInv` is the conjunction of

- `TypeOK`;
- `RunnersMatch`: for each job, what the runner does and what the registry shows
  fit together (a scheduled runner has a queued job, a working one a running job,
  a rescanning one a store refresh already done, none a terminal job), and only
  registered jobs have runners;
- `ChainsAwaitRunners`: a chain that has begun awaits a job whose runner works
  and pauses, and no two chains await the same one. It is what makes a gap
  between steps impossible: the turn that ends one step begins the next;
- `OneCrawl`: the crawl property with the registry and tasks as parameters, so
  that it can be stated of the intermediate state inside `RunnerReturns`;
- `Balanced`: the counter equals the cardinality of the pausing runners.

A turn that ends a runner and begins a chain's next step passes through a state
that no behaviour shows (registry, tasks and depth as the `finally` left them),
so the lemmas are about those three values, and the composite step is two
lemmas: `TasksAfter`/`DepthAfter` re-establish the invariant without the job, and
`BeginStep` with one more. The module begins with the facts about `create`,
`mark_done`, `mark_failed` and `pending_notifications_for`, as `ImportQueueProofs` does
with those it needs. `WorkersAsleep`
follows from `ChainsAwaitRunners` and `Balanced`: a worker begins when the
counter is 0, hence no runner pauses, hence no chain is under way. `ToldOnceOnly`
needs only `StampedIfTold`: a job that was told is stamped, and no runner clears a stamp.

**`ImportQueue`.** `IInv` joins `QueuesHold` (a queue holds exactly the queued imports of
its user in the registry, each once), `OneDrain` (a user has one drain), `DrainsWork`
and `RunningHaveDrain` (a drain that had its turn works on a running import of its user,
and each running import has such a drain), `FilesApart` (a file in use is no longer staged)
and `LateIsOver` (a job that added a candidate after its flag added one and has
failed). `OneDrain` rests on the guard `~DrainScheduled(u)` of section 2. For the
refinement, `Line`, `Turn` and the past are the refinement mapping, `Seen` says it is
the one of `ServedInTurn`, and each action is shown to be `Asks`, `Proceeds`,
`Withdraws` or a stutter of these. A drain's turn ends one import and takes up the next, which
is one abstract step. `WithoutJob` uses `RemoveAt` of the community modules, so that the proof
can say which entry goes.

**`MatchReview`.** `TypeOK` is inductive once scans and candidates are known to be functions. It
has the foreign keys: completions are at entries there are, candidates are of entries and releases
there are, and a merge's commit meets its pair or is refused. The two action properties follow
step by step.

**`PsnReview`.** `IInv` adds `SyncCarries` (rows, feed and phase that a sync carries belong
together), `RowsHold` (a row's platforms are of its set and were ticked, and what is only
played goes by the title's id), `AnsweredRowsStay` (the game of an answer that stands has a
row, under whatever id), `PagesHold`, and `NoneForgotten`: for each entry the store has not seen,
something is still pending, counting, syncing or due (`InSight`). `AskedOnce` follows from what the
import may make of the rows of one game (`SoundFor`), route by route, under either id.

**`ImportReview`.** `TInv` adds to `TypeOK` that ids are never handed out again (`IdsApart`)
and that a candidate keeps its rows (`RowsStay`): it is for all values, also with two requests about one
candidate. `XInv`, under `Exclusive`: requests read different candidates
(`Apart`), so that what each read is still so but for a deleted entry (`ReadsHold`);
only a reopening reads a decided candidate, and it has seen all its completions (`AimsHold`);
completions are told apart by row and number (`EachTold`), and rows stay (`RowsThere`).

**`SteamLibrary`.** `IInv` types each table and each kind of request under way, and
says what they read (`SyncOK`, `RequestOK`). `ShelfAsRead` is for the hides: a refresh that waits
has read
the user's decision, if there is one, because the user decides before it reads or after it is done.

**`Achievements`.** `AskedOK` (definitions that were not asked for are on file) makes `TypeOK`
inductive for any users. For the gates: `ToldHolds` (what a sync saw was so, and is so as
long as the moment is the same), `RowsHold` (rows have what was earned when they were written, and
what any
sync had seen by then), `Together` (rows and definitions are of one version, unless a view
was refused since), `AnswersHold` (an answer holds until it is stored). `Together` is what two users
break; `AnswersHold` what playing during a pass breaks.

**`Rules`.** The only invariant of the state is `PickedIsInput`; the rest is about what the
rules compute. The library's induction takes a property as an operator, which no prover here
can instantiate, so it is done with sets: `LeastNat` (from the well-foundedness of `<`) and
`SetInduction` (a set with 0 and each successor holds every natural). A recursive function is
first shown to exist, by induction over how far it goes, and then to be what its definition says
(`SummedInTurn`, `BoughtInTurn`, `SetsInTurn`, `PlaysInTurn`, `PlacedInTurn`, `WeighedInTurn`);
each rule's argument is then about one turn:

- *feeds*: after the purchases no item has a set and each key is an id or a name
  (`PurchasesAreListed`); a turn of the sets adds one that is listed or joins a place
  that had none, and moves no other (`JoinsSet`, `SetsAreListed`); a turn of the plays keeps every
  item's set and platforms and adds its minutes to one place (`JoinsPlay`,
  `PutsMinutes`). That an item found before the loop still has its place during it is what the
  snapshot in the code relies on, and is part of both invariants;
- *queues*: each set is in one place, in a place none contests another, and a place is
  begun only for a set that all earlier ones contest (`PlaceOne`, `AllArePlaced`,
  `SplitsRight`); the owner of a platform is then the one set there that has it
  (`OwnerIsOne`). `NoneIsTickedTwice` rests on `OneNameOneGame`: records of one name in
  rows of one game are akin, so that what one row claimed the other sees as taken;
- *names*: the loop holds the least of what it passed (`WeighedIsBest`), and without
  ties the least of a list does not depend on its order (`OneBest`);
- *titles*: every pass compares the numbers of both titles, up to a letter that stands
  for a number, and the passes that search by words keep them (`NoSequelIsFound`);
- *sheets*: what an upload writes covers exactly what the sheet has up to it
  (`WriteNew`, `CoversMore`), and each completion leads with its first row (`HasLeader`,
  `LeaderComesFirst`).

**Changed for the proofs.** `PsnRules` had recursive operators and folds; it has recursive
functions, and the first of a list is the one of least index. `SteamLibrary` and
`Achievements` had sequences for what is asked next; they have sets with the order as a
guard. Candidates' rows are functions by line (`ImportReview`). `Reopen` takes answers
back in `PsnReview`, and `NeverReasked` excepts what it then does not hold of (a bare
set; a row last filed without a store page): both were wrong before and too rare for the
run. `GatesAreRight` excepts refused views.

**Only model-checked**, and why. Liveness is under fairness, which the proof system does not
treat: `EveryJobReported`, `FollowupsAllRun`, `EveryImportEnds`, `ReviewSettles`, `EachFetched`,
`EachDemoted`, `EachLinked`, `CoversHeal`, `EachRecordedFetched`.
`ReopenDeletesOwn` and `ApprovedNameStands` are false.

## 6. What is left out of the modelled parts

- Progress, labels, error codes, retry links and times of a job; the wording of
  messages.
- Deleting the account under a job: the runner then fails, which is `WorkFails`.
- The thumbnail pass that an import may spawn: it writes artwork URLs only.
- The progress and clear-all endpoints of the import page beyond their flags:
  they stop at `queued_imports_for` while an import waits (finding 4).
- An exception raised by a runner after `mark_done` within the same turn (for
  instance while it formats the follow-ups); the rescan is the one place where
  work follows a mark.
- In `ImportReview`: covers and thumbnails, the precision backfill of old dates,
  editing a logged completion by hand, and merges that move completions from
  entry to entry (they belong to `MatchReview`).
- In `MatchReview`: the score of two titles, the preview, and clearing dismissed rows
  in bulk, which fails (`Clear` is the one row at a time). Candidates of Steam and
  PSN releases differ in nothing the model tells apart.
- In `PsnReview`: what the store pass writes (names, artwork), deletion of entries,
  PC copies and media apps, two trophy sets of one game that contest a platform (they
  are in `PsnRules`), lookups by concept, and a second chain that overlaps the first.
- In `PsnRules` and `ImportRules`: normalisation, accents, articles, similarity of spelling,
  reading csv and xlsx.
- In `SteamLibrary`: display names and the backfill of placeholder titles, playtime,
  deletion, artwork other than the header, and two apps of one title, which would
  share a Game.
- In `Achievements`: totals, rarity, which game shows a set, recent unlocks, and
  the answer that a played game has no statistics.
- Not modelled at all: the HTTP clients of SteamGridDB and IGDB, accounts and
  sessions, alembic's migrations, the desktop shell, the maintenance scripts: requests
  of one transaction, or input and output. The pages' queries and rendering have no
  state to interleave.
- The enrichment worker's requeue pass does not read the pause again after its
  batch: the model has the pass, and `WorkersStayAsleep` is about the beginning
  of a cycle, as the code accepts a batch under way.

## 7. Plan

All components whose state several actors change have a module, and the safety properties of
all modules are proved. What is left:

1. `JobRegistry` as an abstract specification of a job's life, with `SyncJobs` and
   `ImportQueue` shown to implement it.
2. Weaker forms of the three theorems with a hypothesis that hold without it: of
   `CompletionsHeld`, that no completion is lost although it may be logged twice; of
   `GatesAreRight`, what holds with several users.
3. A theorem that joins `PsnReview` to `PsnRules`: the queue of `PsnReview`, with rows that
   `Groups` splits, in place of one question a game by assumption.

Runs that would be added with more time each: two users in `achievements` (the gates
then fail on shared definitions, see the findings), the `WithDlc` instance of
`steam`, and groups of two rows in `review_safety`.
