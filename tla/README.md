# A TLA+ verification of meta-feeder-card

`meta-feeder-card` is the card tier of the MetaMesh gateway: a small server that
answers catalog and free-text queries with *cards*, metadata records of works,
made from TMDB. This directory models the parts of it whose correctness depends
on order, concurrency, failure or bounds, checks them with TLC on small
instances, and proves with TLAPS, for all instances, what matters most. Paths below
are relative to `src/feeder-plugin/card-feeder/src/` unless they say otherwise.

## The system

| Part | State | Operations | What is hard about it |
|---|---|---|---|
| Token bucket (`tmdb_budget.rs`) | tokens, last refill, end of the pause, all under one mutex; a `Notify` | `acquire(deadline)`, `note_429(retry_after)`, dropping `acquire` | lazy refill by elapsed time, overlapping pauses, waiters that race a timer against a notification they may miss |
| Resolver (`resolve.rs`) | four redb tables shared by all requests (principal lists, external ids, tv and movie details), the genre tables in memory | `card_by_id`, `cards_for_text`, `genre_names`, `discovery_page` | concurrent requests, cached entries of older versions, lost answers, 429s, failed stores, restarts |
| Catalog rows (`discovery.rs`) | none of its own; uses the genre table and the clock | `cards_for_discovery` | a walk over pages while TMDB reranks, midnight passes and calls get lost |
| Card and record (`card.rs`, projections in `tmdb_client.rs`) | none | `card_from_hit`, `to_record`, `search_aka`, `poster_member_keys`, `title_names` | the same work is published on two paths under one CID and merged by key |
| TMDB client (`tmdb_client.rs`) | none | one function per endpoint, `get_json` | a call ends in a hit, a miss (which folds failures into "no results") or a 429 |
| Plugin (`tmdb.rs`) | configuration, the resolver if there is a token | `configure`, `handle_query`, `compute_outcomes`, `kind_hint` | file and environment merged, three shapes of query, two spellings of an id |
| Relevance gate, season bounds, civil date | none | `principal_top_n`, `season_episode_bounds`, `fmt_days` | pure algorithms at their edges |
| `IndexerLimiterRegistry` (`tmdb_budget.rs`) | a map of buckets | `set_default_rps`, `for_indexer` | buckets still held after they were dropped from the map; not used by this binary |

A query enters through `handle_query` and takes one of three paths: a `tmdbid:`
filter goes to `card_by_id` (after a probe if the kind is not given), a
keyword-less row to `cards_for_discovery`, free text to `cards_for_text`. All of
them call the resolver, which reads its table first and, on a miss, waits for the
bucket, calls TMDB and stores a hit. A 429 pauses the bucket for everybody. The
cards become records, which the gateway stores; `compute_outcomes` makes the
record of a card id again, later, from its details. The SDK's server runs
requests concurrently on one process; only the redb outlives it.

`PROJECT.json` lists every component with its status and every hazard with its
line and the property that covers it.

## Modules

`TokenBucket` is the promise of the budget: credit that grows at every tick, a
caller that gets a call for credit that is there and outside a freeze, or a
refusal not before its deadline. It knows no lazy refill, sleep or notification.

`TmdbBudget` is the code. `now` is the clock; `tokens`, `last_refill` and
`paused_until` are `BucketState`; `pc`, `give_up_at`, `wake_at` and `until` are
the locals of each task. A token is an `f64` in the code; here it is `Whole`
units, so that fractions of a token exist and all arithmetic is exact. Every
critical section of the mutex is one action (`Grant`, `Expire`, `Compute`, `Pause`),
every step outside it another. `Compute` leaves the lock with a length, `sleep_for`;
`Arm` creates the sleep, which is relative, so that its timer fires `sleep_for` after
`Arm`, however late that is; `Listen` is the creation of the `Notified` future
(before it, a `notify_waiters` is lost on the task), `Wake` the end of
`select!`, `Leave` the drop of the future or the end of its use, `Note429` the
reading of the clock before the lock and `Notify` the wake-up after it. `mark`,
`winGrants`, `frozenUntil` and `late` (the ticks a task lost between `Compute` and
`Arm`) are history. `Promise` instantiates `TokenBucket`
with the credit the bucket *would* have if it were refilled now.

`BudgetedRequests` extends `TmdbBudget` with the requests that use it. A caller
of the bucket is now a task with a `job`: a row, a search or a card, and the list
of lookups it has `left`. A lookup is answered by its cache (`Cached`) or asks
for a permit with the deadline of its kind (`Ask`: 5 s for a page or a genre
table, 3000 s for the rest), goes through the bucket's own actions (`Granted`,
`Waits`, `Refused`), and its call is `Answered`, `Missed` or `Limited` (a 429,
which goes through `note_429`). `Left` says what may be left to do afterwards: an
over-approximation of the answers, which `TmdbResolver` and `Discovery` make
precise. `Drop` is a client that went away at an await. `calls`, `dry`, `flight`
and `knew` are history.

`TmdbResolver` composes lookups into requests. A task has one lookup at a time
(`look`: search, probe, ext, details, genre), which goes through `Lookup` (the
table), `Granted` or `DeadlineExceeded` (the budget, abstracted to a pause that
grants nothing) and `Hit`, `Miss` or `RateLimited` (TMDB); the operators
`AfterSearch`, `AfterProbe`, ... say what the request does next. The store is a
function from table and key to an abstract payload: complete or incomplete
details, whose external ids, which ranked list. `Hit` takes any of the `Truths` TMDB may
answer and overwrites what is stored, as the code does: the details of a show in `Thin`
come complete at one call and without their alternative titles at the next, so that a
late, poorer answer may replace a complete entry. What TMDB ranks for a query and which
titles exist is constant. `Restart` keeps the redb only.

`Discovery` walks one row. The genre table and each page are awaited in steps of
their own, between which `Rerank` and `Midnight` happen; TMDB's lists (`Listed`,
`Catalog`, `Page`) are modelled by what the code asks of them and are marked
external. One row at a time suffices: rows share only the genre table, whose
concurrent fetches are in `TmdbResolver`.

`CardFeeder` is the plugin around them: `Boot` is `configure` (the environment and
`config.json` merged field by field, a bad number replaced by its default),
`SaveForm` and `SetEnv` what the operator does between boots, `Stop` a stop that
may cut a save short. `HandleQuery` is `handle_query`: the SDK's gate
(`Accepts`, external), the soft-skip without a token, the precedence of the three
shapes (`Route`), what the resolver may find (`Cards`: any list the calls can come
to) and the records made of it with the filters echoed (`ToRecord`).
`ComputeOutcomes` is `compute_outcomes` with `ParseSourceId`. A record id is the
sequence of its parts between colons; `Number` says which numerals stand for
which number, so that `7` and `007` are two ids and one number. A filter is a
list of values and may be empty, as in the code's map of lists: the code reads
the first value where there is one. A work has `fields`, the plain fields of its card
(`PlainFields`) with abstract values, each of which wins over an echo of the same name.

`CardRecord` is the pure part: a work becomes a record from its list entry
(`Browse`) and from its details (`Resolve`), in either order. A name is
abstracted to its normal form, its form in a key (`Unslashed`: a key writes "/" as
U+2215), its folded form, its words and whether a search
can carry it; a poster to a number. `Works` are the works there may be, `Images`
the posters TMDB may list of one.

Four modules stand alone: `CivilDate` (`fmt_days` next to a calendar that is
advanced one day at a time), `SeasonBounds` (`season_episode_bounds` and
`episode_in_season` against what TMDB lists of a show, which grows), `Relevance`
(`principal_top_n`: gate, stable sort, cut) and `IndexerRegistry` (searches that
take buckets from the registry and hold them while it is reconfigured).
`Standalone` puts the four side by side, one moving while the others rest, so
that one run checks them all.

`Lists` is what most lists of the code go through: `Kept` is `filter`, `Take` is
`truncate`. `Kept`, and the other loops over a list (`RankedSoFar`, `DedupSoFar`),
are recursive functions on how much of the list has been read, which the prover
can reason about as it cannot about a recursive operator.

A module named `...Proofs` holds the theorems about the module it is named after;
`ListLemmas` holds what they share about lists. Each leaf of a proof is found in at
most half of the time the prover allows (`tlapm --stretch 0.5`). The `MC` modules give the constants their values; each `.cfg` is one run.

Definitions such as `GrantUnchecked`, `StoredSlice` or `PagesExact`, which stand
next to a definition of the code, are what a plausible bug would make of it:
each property has been seen to fail when one of them takes the definition's
place.

## Runs

| Run | Question | Instance |
|---|---|---|
| `budget_safety` | Do grants stay within burst and rate from any instant on, and outside every pause? Does a waiter ever sleep through a token or a deadline, but for the time it lost before its timer started? | 3 callers, half a token a tick, one and a half tokens of capacity, pauses of 1 and 2, time to 4 |
| `budget_live` | Does every `acquire` return? Is the bucket, step for step and with its liveness, a `TokenBucket`? | 2 callers, two thirds of a token a tick, deadlines 0 and 2, pauses 1 and 3, time to 4 |
| `resolver_safety` | Is only what TMDB answered stored, are text answers slices of the ranking, is a warm request free? | 2 tasks, a show, whose details may come incomplete, and a movie with one number, every choice of stale entries |
| `requests` | What does a request cost at most, how long can a dry bucket or a pause hold it, and does it end? | two callers on one bucket of one token: rows of two movie pages, a movie card, a search of one hit that is a show; one call in flight, two instants of patience, a 429 that asks for two ticks, a clock to 9 |
| `discovery_rows` | Is a row the top of its catalog, full when one spare page suffices, in scope, and answered? | 8 titles, 2 rankings, pages of 2, at most 3 pages, every mode and kind, 1, 2 or 5 cards |
| `plugin` | Is a token ever lost between form, file and environment? Do rows survive the filter that is applied again, but for a value of their own, links name their work, answers fit, published ids come back? | 5 fields with blank, zero and ill-typed values, 2 environments, 104 queries (some with empty filters), 12 record ids, 4 works of which two share a number, with and without plain fields a query filters by |
| `algorithms` | Is `fmt_days` the calendar? Are season verdicts lenient and well-founded? Is the answer the top of the confident hits, and the stored list sliceable? Is there one bucket per indexer and configuration? | 146097 days (one full cycle of the calendar); shows of up to 2 counted and 2 listed seasons; lists of up to 3 hits and queries of up to 4 words; 2 searches, 2 indexers, 2 reconfigurations |
| `record_records` | Do the records of one work agree, and are search title and posters the right ones? | all titles, originals and up to two AKAs over 8 names; all lists of up to 3 posters; shows and films |

`TypeOK` is the type invariant of each. `TokenBucket` has no run of its own; it is
the property `KeepsPromise`.

Four runs state what a document or comment says and find it violated:

| Run | Said | Found |
|---|---|---|
| `resolver_ids` | external ids are cached for ever because they do not change (`resolve.rs:172`) | they are kept by number alone: once the ids of the movie N are stored, the card of the show N gets them |
| `resolver_probe` | a number without TV details is a movie's (`tmdb.rs:347`) | so is a show's whose probe was lost |
| `discovery_midnight` | an airing row of shows is of a single day (`discovery.rs:265`) | each page reads the date anew |
| `record_genres` | genres are there on both paths (`card.rs:89`) | movie details drop them on their way to a hit (`tmdb_client.rs:973`) |

Findings no run is spent on, each of them visible in a definition: requests that
miss the genre table together all fetch it, against "one call per kind per boot"
(`resolve.rs:38`, `discovery.rs:437`; `TmdbResolver.Lookup`); a field cleared on
the config page comes back from the environment, against "the config file wins
from then on" and "Blank keeps the built-in default" (`CardFeeder.Merged`); rows
of `contentKind:episode`, `tvshow` or `tv` are documented (`discovery.rs:22`,
`:168`) and rejected by the gate before they get there (`CardFeeder.Accepts`);
"at most one cached `search/multi`" (`tmdb.rs:5`, `consts.rs:118`) is 21 to 31
calls for a cold search of ten titles (`BudgetedRequests.CallsAreBounded`); an
indexer may have two live buckets after a reconfiguration
(`IndexerRegistry.OneBucketPerEpoch` is per configuration for that reason); a search title
is "always one of the record's names, spelled the same way" (`card.rs:218`) unless the name
has a "/", which the key writes as U+2215 (`tmdb_client.rs:563`) and the search title keeps
(`CardRecord.TitleMembers`; `SearchTitleIsFiled` says what is left of the claim).

### Bounds, and why they are enough

`MaxTime` stops the clock, and no deadline or pause reaches past it, so every
wait ends inside the model (nor does time pass between a lock and its sleep so long that
the timer would end after the clock, a guard of `Tick`); four ticks hold a pause, its extension, its end and
a grant after it. Three callers are one that takes the token, one that sleeps
and one that reports a 429. `Marks` are the instants at which the window of
`RateBound` may start; the theorem has no such bound. In `TmdbResolver` two
tasks give every interleaving of two fills of one key, which is all a
read-then-write race needs, and one show and one movie with the same number are
all the ways a number can be ambiguous. In `Discovery` the code's 20 cards a page
and 5 pages are 2 and 3, so that rows below, at and beyond a page, and at the
cap, all occur; a ranking may change at any moment, a day once. `CardRecord`
enumerates its families completely. In `BudgetedRequests` a request arrives only
if the clock still has room for its longest course (`Horizon`), so that no
property holds because time stopped. `CardFeeder` looks at one answer at a time,
since answers share nothing, and does not answer between a saved form and the
restart that reads it, since nothing of the form is used before. `CivilDate` runs
through one cycle of 400 years, after which the calendar repeats. Symmetry over callers and tasks is used in
the safety runs only. Deadlock is not checked (`CHECK_DEADLOCK FALSE`) where the
model really stops: at the end of the clock (`TmdbBudget`, `BudgetedRequests`) and at
the end of a computation (`CardRecord`, `MCStandalone`).

### Fairness

`TmdbBudget`: the clock advances and each runnable task is eventually polled
(`SF` of `Tick`, which its bound disables for a moment while a task is between lock and
sleep, and `WF` of each caller's own steps): the tokio executor and its
timer. Nobody is bound to call, to leave or to send 429s. `BudgetedRequests`: each
task is polled (`WF` of `Serve`) and the clock advances, also if requests that
the caches answer keep coming between two ticks (`SF` of `Pass`); the executor is
prompt, that is the clock waits while a task can run, and a call ends within
`Flight` because `get_json` has two timeouts, one on the request and one on the body.
Promptness is what `NobodyIsPinned` counts with: it bounds the time the bucket takes, not
the time an overloaded executor adds. Nothing about late sleeps is claimed there; `TmdbBudget`,
where time passes at any point, is where they are checked and proved. `TmdbResolver` states no liveness: that
its requests end is the matter of `BudgetedRequests`. `Discovery`: the row's task
progresses, for the same reasons. Restarts, rerankings and midnights are never
forced. A caller with its request cancelled may leave at any time.

## Proofs

All theorems are for any values of the constants that meet the named `ASSUME`s of
the module they are about.

| Module | Theorem | States |
|---|---|---|
| `TmdbBudgetProofs` | `TypeCorrect` | `Spec => []TypeOK`: 0 <= tokens <= capacity, and no refill of the future |
| | `RateBoundHolds` | `Spec => []RateBound` |
| | `PauseRespected` | `Spec => GrantRespectsPause` |
| | `SleepNotTooLongHolds` | `Spec => []SleepNotTooLong` |
| | `BudgetImplementsPromise` | every behaviour of `TmdbBudget` is one of `TokenBucket`, fairness aside |
| `BudgetedRequestsProofs` | `RequestsKeepToTheBudget` | every behaviour of `BudgetedRequests` is one of `TmdbBudget`, fairness aside |
| | `RequestsWithinRate`, `RequestsRespectPauses` | the two promises of the bucket, for the requests that use it |
| | `RequestsTypeCorrect` | `RequestSpec => []RequestTypeOK` |
| | `CallsAreBoundedHolds` | `RequestSpec => []CallsAreBounded` |
| | `NobodyIsPinnedHolds` | `RequestSpec => []NobodyIsPinned` |
| `TmdbResolverProofs` | `ResolverTypeCorrect` | `Spec => []TypeOK` |
| | `StoreCorrect` | `Spec => []StoreHoldsAnswers` |
| | `WarmFree` | `Spec => []WarmIsFree` |
| | `TextAnswersHold` | `Spec => []TextAnswersAreSlices` |
| `DiscoveryProofs` | `DiscoveryTypeCorrect` | `Spec => []TypeOK` |
| | `RowIsTheTopHolds` | `Spec => []RowIsTheTop` |
| | `RowFillsUpHolds` | `Spec => []RowFillsUp` |
| | `RowInScopeHolds` | `Spec => []RowInScope` |
| | `PagesAreCapped` | a row asks for at most `Pages(max)` pages, never more than the cap |
| | `GenreRowsStayFiltered` | a page of a row of genres is asked for with genres of the query only, and with some |
| `CardFeederProofs` | `FeederTypeCorrect` | `Spec => []TypeOK`: no unusable number in force |
| | `TokenIsNotLost` | `Spec => []IdleOnlyWithoutAToken` |
| | `PublishedIdsReturn` | `Spec => []PublishedIdsComeBack` |
| | `RowsSurviveHolds` | `Spec => []RowsSurviveTheReFilter` |
| | `LinksNameTheWorkHolds` | `Spec => []LinksNameTheWork` |
| | `AnswersFitHolds` | `Spec => []AnswersFit` |
| `CardRecordProofs` | `RecordTypeCorrect` | `Spec => []TypeOK` |
| | `SearchTitleIsFiledHolds` | `Spec => []SearchTitleIsFiled` |
| | `ByIdExtendsListHolds` | `Spec => []ByIdExtendsList` |
| | `EnglishAkaIsPreferredHolds` | `Spec => []EnglishAkaIsPreferred` |
| | `PostersAreTheBestHolds` | `Spec => []PostersAreTheBest` |
| `StandaloneProofs` | `FmtDaysCorrect` | `CalendarSpec => []FmtDaysIsTheDate`, for ever |
| | `VerdictsAreLenientHolds` | `ShowSpec => []VerdictsAreLenient` |
| | `VerdictsHaveEvidenceHolds` | `ShowSpec => []VerdictsHaveEvidence` |
| | `RanksTheConfidentHolds` | `SearchSpec => []RanksTheConfident` |
| | `SlicesAreAnswersHold` | `SearchSpec => []SlicesAreAnswers` |
| | `BucketsAreShared` | `RegistrySpec => []OneBucketPerEpoch` |
| | `NewRateInForce` | `RegistrySpec => []NewSearchesGetTheNewRate` |

Every invariant and every action property of a passing run is stated by one of these.
Those of `StandaloneProofs` are about the specification of one module; the lemma `EachAlone`
takes them to the four side by side, which the run checks.

### The assumptions

Most say that a constant is of its type. These say more, and hold of the code for
the reason given:

- `CatalogAssumption` of `Discovery`: a title is of one kind and has genres its kind's
  table knows, since TMDB's lists and its tables are answers of one service (a genre the
  table does not name is dropped by the code, as it is by the model); and a ranking
  that stands still lists each title once.
- `CatalogAssumption` of `TmdbResolver`: a show that aired is a show, and a ranking is of
  titles. That `Ranking` and `Titles` are constants is an assumption too: what TMDB ranks for
  a query changes over weeks, and a stored list is then an answer it gave once. `Sent`
  assumes that TMDB names each show (`has_display`) and that a movie's entry, which
  `into_hit` makes with its markets, is always complete.
- `WorksAssumption` of `CardFeeder`: the plain fields of a work are those `to_record` sets.
  A filter names a key-set (`genres`) and never one of its members (`titles/eng/...`).
- `NumberAssumption` of `CardFeeder`: TMDB writes a number as its canonical numeral.
- `SeedsAssumption`, `DefaultsAssumption`: the environment holds a value of its
  field's type or nothing; the built-in defaults are positive (`consts.rs`).
- `WaitsAssumption`: the short deadline is not the longer one (5 s and 3000 s).
- `FoldingAssumption` of `CardRecord`: two names with one lower case have the same
  words and the same hostile symbols. `dedup_titles` compares names in lower case and
  `norm_tokens` lower-cases word by word, which agrees but for the few letters whose lower
  case is several characters or depends on the place (a dotted capital I, a final sigma).
  Only `EnglishAkaIsPreferredHolds` uses it.

### Lists

A definition by recursion over a list is out of the provers' reach if the induction is
on a predicate. `ListLemmas` puts it as an induction on a set: `NumbersAreIn` and
`ListsAreIn` say that a set that holds the least and with each its successor holds all,
and come from the well-foundedness of `<` (`LeastNumber`). A proof defines the set of
the lists of which its claim is true and shows that it is closed. The lemmas about
`Kept` and `Take` (what an appended element does, what a prefix keeps, that filtering and
cutting only leave elements out and in order) are what all modules use; a recursive
function of a module comes with a lemma that its defining equation has a solution
(`RankedSoFarDef`, `DedupSoFarDef`).

### The arguments

`RateBound` is not inductive: it speaks of what was granted, and a grant also
depends on what is in the bucket. `RateInv` adds the tokens to the account: from
`mark` on, grants *plus* tokens are at most the capacity and what the rate has
brought up to the last refill; before `mark` nothing has been counted. Its step
needs `RefillKeepsAccount`, that crediting elapsed time keeps the account.
`PauseRespected` needs `PauseInv`: the pause in the bucket is the latest one
asked for, or that one has ended. `SleepNotTooLong` speaks of the instant a waiter's
critical section meant it to wake at (`Due`): the timer less the delay before it was
started, which is why no prompt executor is assumed. It is inductive on `TypeOK`, once
one knows that neither a grant (`GrantLeavesFewer`) nor a pause
(`PauseLeavesFewer`) nor a refill (`SettleSame`) brings a grant forward, and that
the computed wait ends no later than the first instant at which one is possible
(`WaitIsQuiet`, from `CeilDivTight`). The refinement rests on `RefilledCompose`:
crediting tick by tick, with the cap at each, is crediting once.

`RequestsKeepToTheBudget` maps every action of a request to an action of the
bucket or to a stutter (`RequestStep`); with it the invariants of `TmdbBudget`
hold of the requests, and only the two promises have to be carried over
(`BudgetTyped`, `PauseAlwaysLinked`).

Neither `CallsAreBounded` nor `NobodyIsPinned` is inductive: a request under its bound
may still have a long way to go. `RequestInv` adds that what is left of a plan is of the
shape its kind makes (a search alone; a genre table before its pages; the genre table of
a movie after its details), that the calls made and those the rest is worth fit into the bound, and
that the ticks spent dry and those the rest may still wait fit into the patience.
`LookupEases` is the step: whatever a lookup found, the rest is worth a call less than
before (unless a held table makes it free), and may wait less by the deadline if it was refused.
That a waiter is not past its deadline is `SleepNotTooLong`, of the bucket, and that the
requests' executor is prompt: no task of theirs loses time before its sleep (`OnTime`).

`StoreHoldsAnswers` speaks of the tables alone and is not inductive: what a task
stores depends on its locals. `ResolverInv` adds that every task is `Ready`: its
locals name a lookup that fits its request and what it has found so far, so that
`TruthAnswers` (TMDB's answer to a lookup is one for its key) applies when the
call returns.

`WarmIsFree` cannot count on usable entries alone: one may be replaced by a poorer answer
to a call that another task has on its way. `Warm` therefore asks for entries that are
*settled*: usable, and no task on its way to fetch them. A settled entry stays settled
(`SettledKept`), because a task that looks it up finds it usable and does not fetch
(`SettledByFetching`), and a store of another key leaves it alone. `WarmInv` says it of the
*rest* of a warm request: everything it will still read (`WarmAhead`) is settled,
whatever it still has to look up; `WarmTaskStays` shows that no other task takes that away,
and `AfterWarm` that an answer from the cache leads to a lookup that is warm again.
`TextAnswersAreSlices` needs `TextInv`: at every step of a text request, the titles of the cards
it has and those it has still to look up are, in this order, from ascending places of
the ranking's top (`SliceOf`), and all of it as long as nothing was lost.

`WalkInv` of `DiscoveryProofs` couples the calls of a row with the page of its
loop, which differ by one at the loop's head and not while a page is awaited
(`Counted`), its path with its query (`Filtered`), and, while TMDB and the day stand still,
its cards with the catalog: they are what can be shown of the pages read so far
(`Faithful`). The row is then a prefix of the catalog because filtering keeps
prefixes, and full because the spare page, if it is within the cap, was read.

`FeederInv` of `CardFeederProofs` traces what is in force to the environment and
the file it was read from (`Booted`), an outcome to the id it was asked for
(`Resolved`), and an answer to a list of cards its query can come to under the
configuration in force (`Replied`, `Found`); what the answer then looks like is a matter of
`Kept` and `Take`. `NumberAssumption` is what makes the id of a work and the
number it is parsed to agree.

`RecordInv` of `CardRecordProofs` says of what each record was made. The rest is
about the functions: what `dedup_titles` leaves says all the list says, and each of
it no later than the list does (`Remains`), so that the first fit of the longer
list of a click is the first fit of the shorter one of a row if that has one, and that
an English AKA comes before the others. `PosterKeys` takes a poster if the keys of
those ranked before it leave room: the keys taken are those before the last poster
taken and its own, hence at most as many as allowed (`LastRanked`), and a poster that is
left out has no more keys before it than one it is ranked before, which
is then left out too.

`StandaloneProofs` splits a day into era, year of the era, day of the year and
month. Each year of an era starts on a day of its own (`365 y + y/4 - y/100`),
and the formula with its three corrections finds it on every day of the year; the
step from one day to the next is then shown case by case: within a month, at the
end of a month, at the end of February by `IsLeap`, at the end of an era. A ranked
list is described by the places its hits have in TMDB's (`Ranking`): each once, each
above the next; `RankingInserts` is that a hit put behind its equals keeps this, since its
place is the last so far, and `KeptCounts` that the overlap the code counts by filtering is the
number of the query's words in the title. The invariants of shows and of hits
(`ShowInv`, `SearchInv`) are their types, and the work is in the operators. `RegistryInv`
adds to its property that a live bucket outside the map is of an earlier
configuration (`Outlived`): `for_indexer` looks at the map only.

### Only model-checked

Liveness is out of TLAPS' reach: `EveryAcquireReturns`, the fairness part of
`KeepsPromise` (its safety is `BudgetImplementsPromise`), `EveryRequestEnds`,
`RowIsAnswered`. So are the findings of the four violated runs, which are properties that do not hold.

## Not modelled

- URLs, headers, JSON, logging; the texts of fields and paths.
- The SDK: its HTTP server, configuration form, result cache and query
  re-evaluation; the gateway; TMDB beyond what is asked of it.
- redb entries that no decoder reads, for which `external_ids` returns nothing for
  ever and `principal_top_n` an empty list.
- Time spans that overflow `Instant` or `Duration`.
- The texts of the overview and the other plain fields of a record (`CardFeeder` knows which of them a work has, not how they are spelled); genre and keyword exclusions of a `/discover` path.
- The splitting of a text into words and the folding of its letters (`norm_tokens`, `genre_fold`): texts are sequences of words.
- A record merged by CID from two queries, which keeps the echoed markers of both: the merge is the gateway's.
- `main.rs` and `lib.rs`, which hand the plugin to the SDK's server.
- `fetch_poster` and `search`, which this binary does not call; build and CI files.

Observations that no run states: a default row is documented to cost one call
(`consts.rs:131`) but walks a second page as soon as one entry of the first
cannot be shown, and a first row fetches the genre table; a burst between 0 and 1
passes the configuration's filter and refuses every call; the cards of a text
answer that cannot be shown are not replaced by the next ranked ones; a row that
is walked while TMDB reranks can hold a title twice; calls granted before a 429
still go out during the pause; waiters are not served in order of arrival;
the relevance gate compares the query with the localised title only, so a search
by original title can store an empty list for good (`resolve.rs:251`); a text query
with a `contentKind` is cut to its length before the consumer drops the other
kind (`tmdb.rs:251`); "one refetch per such entry upgrades it" (`tmdb_client.rs:786`) relies on
TMDB's sending the alternative titles: an entry without them is refetched at every read, and
a late answer without them replaces a complete entry (`resolve.rs:138`).

## Plan

Every component of `PROJECT.json` that keeps state or decides something is
modelled. What is left, in this order:

1. That `BudgetedRequests` over-approximates the answers of `TmdbResolver` and
   `Discovery`, as a theorem: every step of a request of theirs is a step that
   `Left` allows.
2. The promise of the resolver's cache as an abstract specification (a table that
   only ever gains answers), which `TmdbResolver` implements.
3. `TmdbResolver` with entries no decoder reads (a corrupt `extids` or
   `principal` row), which never heal.
4. A row in `CardFeeder` whose records are merged by CID with those of another
   row, with the echoed markers of both.

## Running

    tlc -config MCTmdbBudget_safety.cfg MCTmdbBudget
    tlapm TmdbBudgetProofs.tla

The other runs are in `PROJECT.json` with their module and configuration; the other
proof modules are those whose names end in `Proofs`.
