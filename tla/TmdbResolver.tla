---------------------------- MODULE TmdbResolver ----------------------------
(***************************************************************************)
(* resolve.rs: TMDB lookups with a persistent cache in front and the token *)
(* budget behind, run by concurrent requests.                              *)
(*                                                                         *)
(* A request is a task that makes one lookup after another.  Each lookup   *)
(* reads its cache table, and on a miss waits for a lease of the budget,   *)
(* calls TMDB and stores a hit.  The tasks interleave at the awaits: the   *)
(* wait for the lease and the call.  The redb tables outlive a restart;    *)
(* the genre tables, the budget and the tasks do not.                      *)
(*                                                                         *)
(* A stored payload is abstracted to what decides: for details, Full or    *)
(* Stale; for external ids, the title whose ids they are; for a search,    *)
(* the ranked list of titles.  A show's details may come complete at one   *)
(* call and without their alternative titles at the next; what TMDB ranks  *)
(* for a query, and which numbers name a title, stays.                     *)
(***************************************************************************)
EXTENDS Naturals, Sequences, Lists

CONSTANTS Tasks,      \* the requests the feeder handles at a time
          Shows,      \* the numbers that name a show on TMDB
          Aired,      \* the shows that have a season
          Movies,     \* the numbers that name a movie on TMDB
          Thin,       \* the shows whose details TMDB may send incomplete
          Ranking,    \* query -> what TMDB answers, gated and ranked
          Requests,   \* the requests that may arrive
          Full,       \* details with every field a card needs
          Stale,      \* details that lack one, or that cannot be read
          None        \* no value

Queries == DOMAIN Ranking
Numbers == Shows \cup Movies
Titles == [kind : {"tv"}, id : Shows] \cup [kind : {"movie"}, id : Movies]

ASSUME CatalogAssumption ==
    /\ Aired \subseteq Shows
    /\ Thin \subseteq Shows
    /\ \A q \in Queries : Ranking[q] \in Seq(Titles)
ASSUME RequestsAssumption ==
    Requests \subseteq
        [op : {"text"}, query : Queries, n : Nat]
            \cup [op : {"card"}, title : [kind : {"tv", "movie"}, id : Numbers]]
            \cup [op : {"number"}, id : Numbers]
ASSUME PayloadAssumption ==
    /\ Full # Stale
    /\ None \notin {Full, Stale} \cup Titles \cup {Ranking[q] : q \in Queries}

VARIABLES store,   \* table and key -> what is stored there, None if nothing
          paused,  \* a 429's pause is on: the budget grants nothing
          task     \* task -> its request and how far it got

vars == <<store, paused, task>>

Details == {"tvdetails", "moviedetails"} \X Numbers
InMemory == {"genre_names"} \X {"tv", "movie"}
Redb == ({"principal"} \X Queries) \cup ({"extids"} \X Numbers) \cup Details

\* A task that has nothing to do.
Idle == [pc |-> "idle"]

-----------------------------------------------------------------------------
(* One lookup                                                              *)

DetailsKey(title) ==
    <<IF title.kind = "tv" THEN "tvdetails" ELSE "moviedetails", title.id>>

\* Where the cached answer to a task's lookup is kept.  External ids are kept
\* by number alone, whatever the kind.
KeyCopyPaste(r) ==
    CASE r.look = "search"  -> <<"principal", r.req.query>>
      [] r.look = "probe"   -> <<"extids", r.req.id>>
      [] r.look = "ext"     -> <<"extids", Head(r.todo).id>>
      [] r.look = "details" -> DetailsKey(Head(r.todo))
      [] r.look = "genre"   -> <<"genre_names", Head(r.todo).kind>>

Key(r) ==
    CASE r.look = "search"  -> <<"principal", r.req.query>>
      [] r.look = "probe"   -> <<"tvdetails", r.req.id>>
      [] r.look = "ext"     -> <<"extids", Head(r.todo).id>>
      [] r.look = "details" -> DetailsKey(Head(r.todo))
      [] r.look = "genre"   -> <<"genre_names", Head(r.todo).kind>>

\* Whether what is stored under a key answers a lookup.  Details that lack a
\* field do not: they are fetched again.
Usable(k) == store[k] # None /\ (k \in Details => store[k] = Full)

\* The details TMDB may send for a title, one or the other at every call.  A
\* show is always named; a movie's entry, made by into_hit(), is always complete.
Sent(title) ==
    IF title \notin Titles THEN {}
    ELSE IF title.kind = "tv" /\ title.id \in Thin THEN {Full, Stale}
    ELSE {Full}

\* What TMDB may answer to a task's lookup, nothing when it has no such title.
Truths(r) ==
    CASE r.look = "search"  -> {Ranking[r.req.query]}
      [] r.look = "probe"   -> Sent([kind |-> "tv", id |-> r.req.id])
      [] r.look = "ext"     -> {Head(r.todo)} \cap Titles
      [] r.look = "details" -> Sent(Head(r.todo))
      [] r.look = "genre"   -> {Full}

\* What a hit leaves in its table: the whole ranked list, whatever n asks for.
StoredSlice(r, answer) ==
    IF r.look = "search" THEN Take(answer, r.req.n) ELSE answer
Stored(r, answer) == answer

-----------------------------------------------------------------------------
(* What a task does with the answer to a lookup                            *)

Look(r, look) == [r EXCEPT !.pc = "lookup", !.look = look]

\* card_by_id() starts with the external ids of the title.
NextTitle(r) ==
    IF r.todo = <<>> THEN [Look(r, None) EXCEPT !.pc = "answered"]
    ELSE Look(r, "ext")

Skip(r) == NextTitle([r EXCEPT !.todo = Tail(r.todo), !.ext = None])
Add(r) == Skip([r EXCEPT
             !.cards = Append(r.cards, [title |-> Head(r.todo), ids |-> r.ext])])

\* cards_for_text(): the first n titles, one after another.
AfterSearch(r, found) ==
    NextTitle([r EXCEPT !.todo = IF found = None THEN <<>> ELSE Take(found, r.req.n)])

\* kind_hint(): a number whose show has a season is a show, any other a movie.
AfterProbe(r, found) ==
    NextTitle([r EXCEPT !.todo =
        <<[kind |-> IF found # None /\ r.req.id \in Aired THEN "tv" ELSE "movie",
           id |-> r.req.id]>>])

\* card_by_id(): no external ids is no obstacle, no details is.
AfterExt(r, found) == Look([r EXCEPT !.ext = found], "details")

AfterDetails(r, found) ==
    IF found = None THEN Skip(r)
    ELSE IF Head(r.todo).kind = "movie" THEN Look(r, "genre")
    ELSE Add(r)

\* With or without a genre table the card is made: a movie's details carry no
\* genre ids to look up in it.
AfterGenre(r, found) == Add(r)

After(r, found) ==
    CASE r.look = "search"  -> AfterSearch(r, found)
      [] r.look = "probe"   -> AfterProbe(r, found)
      [] r.look = "ext"     -> AfterExt(r, found)
      [] r.look = "details" -> AfterDetails(r, found)
      [] r.look = "genre"   -> AfterGenre(r, found)

\* A lookup that TMDB or the budget left without an answer.  `lost` is history:
\* the request's answer may now fall short of what TMDB has.
AfterNothing(r) ==
    After([r EXCEPT !.lost = r.lost \/ r.look \in {"search", "probe", "details"}], None)

-----------------------------------------------------------------------------
(* Requests                                                                *)

\* What is stored answers every lookup from now on.  Details that another task
\* is fetching do not count: its answer replaces them, complete or not.
Settled(k) ==
    /\ Usable(k)
    /\ k \in Details =>
          \A t \in Tasks : task[t].pc \in {"lease", "call"} => Key(task[t]) # k

\* Everything a lookup of this title reads is stored and settled.
WarmTitle(title) ==
    /\ Settled(<<"extids", title.id>>)
    /\ Settled(DetailsKey(title))
    /\ title.kind = "movie" => Settled(<<"genre_names", "movie">>)

Warm(req) ==
    CASE req.op = "text" ->
            /\ Settled(<<"principal", req.query>>)
            /\ \A i \in 1 .. Len(Take(store[<<"principal", req.query>>], req.n)) :
                  WarmTitle(store[<<"principal", req.query>>][i])
      [] req.op = "card" -> WarmTitle(req.title)
      [] req.op = "number" ->
            /\ Settled(<<"tvdetails", req.id>>)
            /\ WarmTitle([kind |-> IF req.id \in Aired THEN "tv" ELSE "movie",
                          id |-> req.id])

\* A redb left by an earlier version, a budget and a process that just started.
Init ==
    /\ \E old \in SUBSET {DetailsKey(x) : x \in Titles} :
          store = [k \in Redb \cup InMemory |-> IF k \in old THEN Stale ELSE None]
    /\ paused = FALSE
    /\ task = [t \in Tasks |-> Idle]

\* A request arrives: free text, a title named by kind and number (a tmdbid:
\* filter with a contentKind, or a record to resolve), or a bare number.
Start(t) ==
    /\ task[t] = Idle
    /\ \E req \in Requests :
          LET r == [pc |-> "lookup", req |-> req, look |-> None, todo |-> <<>>,
                    ext |-> None, cards |-> <<>>, lost |-> FALSE,
                    warm |-> Warm(req)]
          IN  task' = [task EXCEPT ![t] =
                 CASE req.op = "text"   -> Look(r, "search")
                   [] req.op = "card"   -> NextTitle([r EXCEPT !.todo = <<req.title>>])
                   [] req.op = "number" -> Look(r, "probe")]
    /\ UNCHANGED <<store, paused>>

\* The lookup reads its table: it is answered, or has to ask TMDB.
LookupGenreAnew(t) ==
    /\ task[t].pc = "lookup"
    /\ task' = [task EXCEPT ![t] =
          IF Usable(Key(@)) /\ @.look # "genre" THEN After(@, store[Key(@)])
          ELSE [@ EXCEPT !.pc = "lease"]]
    /\ UNCHANGED <<store, paused>>

Lookup(t) ==
    /\ task[t].pc = "lookup"
    /\ task' = [task EXCEPT ![t] =
          IF Usable(Key(@)) THEN After(@, store[Key(@)])
          ELSE [@ EXCEPT !.pc = "lease"]]
    /\ UNCHANGED <<store, paused>>

\* The budget grants a lease, and the call goes out.
Granted(t) ==
    /\ task[t].pc = "lease"
    /\ ~paused
    /\ task' = [task EXCEPT ![t].pc = "call"]
    /\ UNCHANGED <<store, paused>>

DeadlineExceeded(t) ==
    /\ task[t].pc = "lease"
    /\ task' = [task EXCEPT ![t] = AfterNothing(@)]
    /\ UNCHANGED <<store, paused>>

\* TMDB answers: the hit replaces what is stored, even a more complete entry that
\* another task stored meanwhile, or the store fails and nobody is told.
Hit(t) ==
    /\ task[t].pc = "call"
    /\ \E answer \in Truths(task[t]) :
          /\ \/ store' = [store EXCEPT ![Key(task[t])] = Stored(task[t], answer)]
             \/ UNCHANGED store
          /\ task' = [task EXCEPT ![t] = After(@, answer)]
    /\ UNCHANGED paused

\* TMDB does not answer in time, or not with a payload.  Nothing is stored.
MissStored(t) ==
    /\ task[t].pc = "call"
    /\ store' = [store EXCEPT ![Key(task[t])] =
                    IF task[t].look = "search" THEN <<>> ELSE Stale]
    /\ task' = [task EXCEPT ![t] = AfterNothing(@)]
    /\ UNCHANGED paused

Miss(t) ==
    /\ task[t].pc = "call"
    /\ task' = [task EXCEPT ![t] = AfterNothing(@)]
    /\ UNCHANGED <<store, paused>>

\* TMDB answers 429: the budget is paused for everybody.
RateLimited(t) ==
    /\ task[t].pc = "call"
    /\ paused' = TRUE
    /\ task' = [task EXCEPT ![t] = AfterNothing(@)]
    /\ UNCHANGED store

\* The answer goes back to the gateway.
Answer(t) ==
    /\ task[t].pc = "answered"
    /\ task' = [task EXCEPT ![t] = Idle]
    /\ UNCHANGED <<store, paused>>

\* The Retry-After window is over.
Resume ==
    /\ paused
    /\ paused' = FALSE
    /\ UNCHANGED <<store, task>>

\* The process stops and starts again on the same redb.
Restart ==
    /\ store' = [k \in DOMAIN store |-> IF k \in InMemory THEN None ELSE store[k]]
    /\ paused' = FALSE
    /\ task' = [t \in Tasks |-> Idle]

Progress(t) ==
    \/ Lookup(t) \/ Granted(t) \/ DeadlineExceeded(t)
    \/ Hit(t) \/ Miss(t) \/ RateLimited(t) \/ Answer(t)

Next ==
    \/ \E t \in Tasks : Start(t) \/ Progress(t)
    \/ Resume
    \/ Restart

\* That every request ends is a matter of the budget and of time: BudgetedRequests.
Spec == Init /\ [][Next]_vars

-----------------------------------------------------------------------------
(* Properties                                                              *)

Cards == [title : [kind : {"tv", "movie"}, id : Numbers], ids : Titles \cup {None}]

\* Every variable stays in its type, and every table holds its own payloads.
TypeOK ==
    /\ DOMAIN store = Redb \cup InMemory
    /\ \A k \in DOMAIN store : store[k] # None =>
          /\ k[1] = "principal" => store[k] \in Seq(Titles)
          /\ k[1] = "extids" => store[k] \in Titles
          /\ k[1] \notin {"principal", "extids"} => store[k] \in {Full, Stale}
    /\ paused \in BOOLEAN
    /\ \A t \in Tasks : task[t] # Idle =>
          /\ task[t].pc \in {"lookup", "lease", "call", "answered"}
          /\ task[t].req \in Requests
          /\ task[t].cards \in Seq(Cards)

\* What is stored is an answer of TMDB's to a lookup of that key, never a failure
\* remembered or a list cut to one request's n: "a transient failure is not
\* negative-cached", "changing the top-N knob never needs a cache wipe".  Of
\* external ids only the number is claimed, the kind is not part of the key.
StoreHoldsAnswers ==
    \A k \in DOMAIN store : store[k] # None =>
        /\ k[1] = "principal" => store[k] = Ranking[k[2]]
        /\ k[1] = "extids" => store[k] \in Titles /\ store[k].id = k[2]
        /\ k[1] = "tvdetails" => [kind |-> "tv", id |-> k[2]] \in Titles
        /\ k[1] = "moviedetails" => [kind |-> "movie", id |-> k[2]] \in Titles
        /\ k[1] = "genre_names" => store[k] = Full

\* The titles of a text answer are the first n TMDB ranks, in its order; one is
\* missing only where a lookup of this request was left without an answer.
TextAnswersAreSlices ==
    \A t \in Tasks :
        task[t].pc = "answered" /\ task[t].req.op = "text" =>
            LET wanted == Take(Ranking[task[t].req.query], task[t].req.n)
                got == [i \in 1 .. Len(task[t].cards) |-> task[t].cards[i].title]
            IN  /\ \E at \in [DOMAIN got -> DOMAIN wanted] :
                      /\ \A i, j \in DOMAIN got : i < j => at[i] < at[j]
                      /\ \A i \in DOMAIN got : got[i] = wanted[at[i]]
                /\ ~task[t].lost => got = wanted

\* A request for which everything it reads was stored and usable when it arrived,
\* with no refetch of it under way, never asks the budget or TMDB for anything,
\* whatever the others do meanwhile: nobody starts to fetch a complete entry, so
\* no poorer answer can take it away.
WarmIsFree ==
    \A t \in Tasks : task[t] # Idle /\ task[t].warm =>
        task[t].pc \notin {"lease", "call"}

\* A card's external ids are those of the title the card is for.
IdsAreTheTitles ==
    \A t \in Tasks : task[t] # Idle =>
        \A i \in 1 .. Len(task[t].cards) :
            task[t].cards[i].ids \in {None, task[t].cards[i].title}

\* A bare number that names a show with seasons is answered as that show, never
\* as the movie of the same number ("a movie id has none").
ShowsAreShows ==
    \A t \in Tasks :
        task[t].pc = "answered" /\ task[t].req.op = "number"
            /\ task[t].req.id \in Aired =>
                \A i \in 1 .. Len(task[t].cards) : task[t].cards[i].title.kind = "tv"
=============================================================================
