----------------------------- MODULE CardFeeder -----------------------------
(***************************************************************************)
(* tmdb.rs: the plugin around the resolver.  It is configured once, when   *)
(* the process starts, from the environment and a config.json; then it     *)
(* answers queries and resolves record ids, each on its own.               *)
(*                                                                         *)
(* What the resolver finds is any list the calls can come to (TmdbResolver *)
(* and Discovery say which); what the feeder makes of it is the subject    *)
(* here.  The page that saves config.json, the gate the SDK applies to a   *)
(* query and the filter its consumers apply to a record are external.      *)
(***************************************************************************)
EXTENDS Integers, Sequences, SequencesExt, Lists

CONSTANTS EnvSeeds,   \* environments: field -> value
          Values,     \* field -> the values the form may give it
          Defaults,   \* field -> the compiled default
          Works,      \* works of TMDB: kind, id, genres, displayable, fields
          Queries,    \* queries: text, whether it has one, and filters
          Limits,     \* values of max_results
          RecordIds,  \* record ids, cut at their colons
          Number,     \* numeral -> the number it stands for, as TMDB writes it
          TooLong,    \* source ids compute_card_cid cannot encode
          Blank,      \* no value, or a token of blanks
          Bad,        \* a value serde does not take for its field
          Absent,     \* no config.json
          Damaged,    \* a config.json that is no JSON
          None        \* nothing

Fields == DOMAIN Values

ASSUME FieldsAssumption ==
    /\ {"tmdb_token", "card_top_n", "card_discovery_n"} \subseteq Fields
    /\ Blank \notin Nat
    /\ \A x \in Fields \ {"tmdb_token"} : Values[x] \subseteq Nat \cup {Blank, Bad}
ASSUME SeedsAssumption ==
    \A seed \in EnvSeeds :
        DOMAIN seed = Fields /\ \A x \in Fields : seed[x] \in Values[x] \ {Bad}
ASSUME DefaultsAssumption ==
    /\ Defaults["tmdb_token"] = Blank
    /\ \A x \in Fields \ {"tmdb_token"} : Defaults[x] \in Nat \ {0}
\* The plain fields a card sets where it knows them, beside its type and its number.
PlainFields ==
    {"domain", "workForm", "title", "searchTitle", "tvdbid", "imdbid", "movieYear",
     "seasonCount", "description/eng", "poster_url"}

ASSUME WorksAssumption == \A w \in Works : DOMAIN w.fields \subseteq PlainFields
ASSUME NumberAssumption ==
    \A w \in Works : w.id \in DOMAIN Number => Number[w.id] = w.id

\* GatewayQuery.filters: lists of texts, which may be empty.
ASSUME QueriesAssumption ==
    \A q \in Queries : \A key \in DOMAIN q.filters : q.filters[key] \in Seq(STRING)
ASSUME LimitsAssumption == Limits \subseteq Nat

VARIABLES env,     \* the environment
          file,    \* config.json
          booted,  \* config.json as it was at configure()
          config,  \* TmdbCardPlugin.config, None while the process is down
          reply    \* the answer on its way and what it answers, or None

vars == <<env, file, booted, config, reply>>

-----------------------------------------------------------------------------
(* Configuration                                                           *)

\* serde_json::from_slice: one value it does not take, and nothing is read.
Readable(f) == f \notin {Absent, Damaged} /\ \A x \in Fields : f[x] # Bad

\* from_env() and load_config(): field by field, the file over the environment.
MergedWhole(e, f) == IF Readable(f) THEN f ELSE e
Merged(e, f) ==
    IF Readable(f) THEN [x \in Fields |-> IF f[x] = Blank THEN e[x] ELSE f[x]] ELSE e

\* configure(): a number that is not positive is replaced by the default.
InForceAsGiven(x) == IF config[x] = Blank THEN Defaults[x] ELSE config[x]
InForce(x) ==
    IF config[x] = Blank THEN Defaults[x]
    ELSE IF x # "tmdb_token" /\ config[x] = 0 THEN Defaults[x]
    ELSE config[x]

Up == config # None
HasResolver == Up /\ InForce("tmdb_token") # Blank

Init ==
    /\ env \in EnvSeeds
    /\ file = Absent /\ booted = Absent
    /\ config = None /\ reply = None

\* The operator edits the environment of the container.
SetEnv ==
    /\ ~Up
    /\ env' \in EnvSeeds
    /\ UNCHANGED <<file, booted, config, reply>>

Boot ==
    /\ ~Up
    /\ config' = Merged(env, file)
    /\ booted' = file
    /\ UNCHANGED <<env, file, reply>>

\* The page shows config_values() and posts it with one field changed.
SaveForm(x) ==
    /\ Up /\ reply = None
    /\ \E v \in Values[x] : file' = [config EXCEPT ![x] = v]
    /\ UNCHANGED <<env, booted, config, reply>>

\* The process stops, perhaps in the middle of a save.
Stop ==
    /\ Up
    /\ file' \in {file, Damaged}
    /\ config' = None /\ reply' = None
    /\ UNCHANGED <<env, booted>>

-----------------------------------------------------------------------------
(* Queries                                                                 *)

Asked(q, key) == IF key \in DOMAIN q.filters THEN ToSet(q.filters[key]) ELSE {}

\* query_accepts_plugin(), for the file types and content kinds that are served.
Accepts(q) ==
    /\ "fileType" \in DOMAIN q.filters => "card" \in Asked(q, "fileType")
    /\ "contentKind" \in DOMAIN q.filters => Asked(q, "contentKind") \cap {"movie", "series"} # {}

Markers == {"airing", "trending", "popular", "top_rated"}
ShowKinds == {"series", "episode", "tvshow", "tv"}

\* is_discovery_query()
IsDiscoveryQuery(q) ==
    /\ ~q.text
    /\ "tmdbid" \notin DOMAIN q.filters
    /\ \E mode \in Markers : "true" \in Asked(q, mode)

\* filters.get(key).first()
First(q, key) ==
    IF key \in DOMAIN q.filters /\ q.filters[key] # <<>> THEN {Head(q.filters[key])} ELSE {}

\* The number of the first tmdbid asked for.
LinkedTo(q) == {Number[n] : n \in First(q, "tmdbid") \cap DOMAIN Number}

\* The branch of handle_query that answers, in the order of precedence.
RouteTextFirst(q) ==
    CASE q.text               -> "text"
      [] LinkedTo(q) # {}     -> "link"
      [] IsDiscoveryQuery(q)  -> "row"
      [] OTHER                -> "nothing"

Route(q) ==
    IF LinkedTo(q) # {} THEN "link"
    ELSE IF IsDiscoveryQuery(q) THEN "row"
    ELSE IF q.text THEN "text"
    ELSE "nothing"

\* kind_hint(): the first contentKind if it names one, else what the probe of the
\* show's details says, which may fail.
HintedKinds(q, id) ==
    LET first == First(q, "contentKind")
    IN  IF first = {"movie"} THEN {"movie"}
        ELSE IF first \cap {"series", "episode", "tvshow"} # {} THEN {"tv"}
        ELSE {"movie"} \cup {w.kind : w \in {v \in Works : v.id = id}}

\* discovery_kind(): the first contentKind it knows.
DiscoveryKind(q) ==
    LET known == IF "contentKind" \in DOMAIN q.filters
                 THEN Kept(q.filters["contentKind"], ShowKinds \cup {"movie"})
                 ELSE <<>>
    IN  IF known = <<>> THEN {} ELSE {IF Head(known) = "movie" THEN "movie" ELSE "tv"}

\* Lists without repetition of at most n works out of S: what calls that may fail
\* make of them.
ListsOf(S, n) == {list \in SeqOf(S, n) : IsInjective(list)}

\* The number of cards a branch asks the resolver for.
Wanted(x, max) ==
    LET room == IF max = 0 THEN 1 ELSE max
    IN  IF InForce(x) < room THEN InForce(x) ELSE room

Cards(q, max) ==
    CASE Route(q) = "link" ->
            {<<>>} \cup {<<w>> : w \in {v \in Works : v.id \in LinkedTo(q)
                                          /\ v.kind \in HintedKinds(q, v.id)}}
      [] Route(q) = "row" ->
            ListsOf({w \in Works :
                       /\ w.displayable
                       /\ w.kind \in DiscoveryKind(q)
                       /\ Asked(q, "genres") # {} => w.genres \cap Asked(q, "genres") # {}},
                    Wanted("card_discovery_n", max))
      [] Route(q) = "text" -> ListsOf(Works, Wanted("card_top_n", max))
      [] Route(q) = "nothing" -> {<<>>}

-----------------------------------------------------------------------------
(* Records                                                                 *)

\* Card::record_id() at its colons.
RecordId(w) == <<"tmdb", w.kind, w.id>>

\* compute_card_cid() of a source and a source id.
Cid(parts) == IF Tail(parts) \in TooLong THEN {} ELSE {<<"cid", Head(parts), Tail(parts)>>}

\* The fields a card sets, each with its values; of the key-sets see Echoed.
OwnFields(w) ==
    [key \in {"fileType", "contentKind", "tmdbid"} \cup DOMAIN w.fields |->
        CASE key = "fileType"    -> {"card"}
          [] key = "contentKind" -> {IF w.kind = "tv" THEN "series" ELSE "movie"}
          [] key = "tmdbid"      -> {w.id}
          [] OTHER               -> {w.fields[key]}]

\* to_record()'s echo: the filters no field answers, but for the key-sets and those
\* that allow nothing.  A filter names a key-set, never one of its members.
EchoedMarkersOnly(own, filters) == (DOMAIN filters \cap Markers) \ DOMAIN own
Echoed(own, filters) ==
    {key \in (DOMAIN filters \ DOMAIN own) \ {"languages", "genres"} : filters[key] # <<>>}

ToRecord(w, filters) ==
    LET own == OwnFields(w)
        echo == Echoed(own, filters)
    IN  [id |-> RecordId(w), cids |-> Cid(RecordId(w)), genres |-> w.genres,
         fields |-> [key \in DOMAIN own \cup echo |->
                        IF key \in DOMAIN own THEN own[key] ELSE ToSet(filters[key])]]

Displayable == {w \in Works : w.displayable}

\* filter_map(to_record).take(max_results)
RecordsUncut(cards, filters, max) ==
    LET kept == Kept(cards, Displayable)
    IN  [i \in DOMAIN kept |-> ToRecord(kept[i], filters)]

Records(cards, filters, max) ==
    LET kept == Kept(cards, Displayable)
    IN  [i \in 1 .. (IF max < Len(kept) THEN max ELSE Len(kept)) |-> ToRecord(kept[i], filters)]

\* handle_query().  Answers share nothing, so one is looked at at a time.  Bound: a
\* form that was saved is followed by a restart.
HandleQuery(q, max) ==
    /\ Up /\ file = booted /\ reply = None
    /\ \E cards \in IF Accepts(q) /\ HasResolver THEN Cards(q, max) ELSE {<<>>} :
          reply' = [query |-> q, max |-> max, records |-> Records(cards, q.filters, max)]
    /\ UNCHANGED <<env, file, booted, config>>

-----------------------------------------------------------------------------
(* Record ids                                                              *)

\* parse_source_id(): the kind and the number it names, if it names any.
ParseSourceIdKindless(parts) ==
    IF Len(parts) = 2 /\ parts[2] \in DOMAIN Number
    THEN {[kind |-> k, id |-> Number[parts[2]]] : k \in {"tv", "movie"}} ELSE {}

ParseSourceId(parts) ==
    IF Len(parts) = 2 /\ parts[1] \in {"tv", "movie"} /\ parts[2] \in DOMAIN Number
    THEN {[kind |-> parts[1], id |-> Number[parts[2]]]} ELSE {}

\* split_record_id(): a source and a source id, neither of them empty.
Splits(parts) == Len(parts) > 1 /\ parts[1] # "" /\ Tail(parts) # <<"">>

\* compute_outcomes(): the CID of the id as it is written; the record of what it
\* parses to, if the lookup succeeds.
ComputeOutcomes(parts) ==
    /\ Up /\ file = booted /\ reply = None
    /\ LET found == {w \in Works :
                        /\ HasResolver /\ w.displayable
                        /\ [kind |-> w.kind, id |-> w.id] \in ParseSourceId(Tail(parts))}
           records == {{}} \cup {{ToRecord(w, <<>>)} : w \in found}
       IN  reply' \in
              IF ~Splits(parts) THEN {[asked |-> parts, error |-> "Permanent"]}
              ELSE IF parts[1] # "tmdb" THEN {[asked |-> parts, error |-> "NotFound"]}
              ELSE IF Cid(parts) = {} THEN {[asked |-> parts, error |-> "Permanent"]}
              ELSE {[asked |-> parts, hash |-> Cid(parts), record |-> r] : r \in records}
    /\ UNCHANGED <<env, file, booted, config>>

\* The answer is sent.
Send ==
    /\ reply # None
    /\ reply' = None
    /\ UNCHANGED <<env, file, booted, config>>

Next ==
    \/ SetEnv \/ Boot \/ Stop \/ Send
    \/ \E x \in Fields : SaveForm(x)
    \/ \E q \in Queries, max \in Limits : HandleQuery(q, max)
    \/ \E parts \in RecordIds : ComputeOutcomes(parts)

Spec == Init /\ [][Next]_vars

-----------------------------------------------------------------------------
(* Properties                                                              *)

Answered == Up /\ reply # None
IsAnswer == Answered /\ "query" \in DOMAIN reply
IsOutcome == Answered /\ "hash" \in DOMAIN reply

\* Every variable stays in its type: no value that cannot be used is in force.
TypeOK ==
    /\ env \in EnvSeeds
    /\ \A f \in {file, booted} \ {Absent, Damaged} : \A x \in Fields : f[x] \in Values[x]
    /\ Up => \A x \in Fields : config[x] \in Values[x] \ {Bad}
    /\ Up => \A x \in Fields \ {"tmdb_token"} : InForce(x) # Blank /\ InForce(x) > 0
    /\ ~Up => reply = None

\* The feeder is idle only for want of a token: one in the environment is not lost
\* to a config.json that is damaged, holds a value of the wrong type, or was saved
\* with the token left blank.
IdleOnlyWithoutAToken ==
    Up /\ ~HasResolver =>
        /\ env["tmdb_token"] = Blank
        /\ Readable(booted) => booted["tmdb_token"] = Blank

\* record_matches(), the filter consumers apply again, for one of the filters: a
\* field that is missing does not match; genres are matched against the key-set,
\* languages always pass.
Passes(r, filters, key) ==
    LET allowed == ToSet(filters[key])
    IN  IF key = "languages" THEN TRUE
        ELSE IF key = "genres" THEN r.genres \cap allowed # {}
        ELSE key \in DOMAIN r.fields /\ r.fields[key] \cap allowed # {}

\* A row reaches the wall: of a query that asks for the kinds that are served, and
\* whose filters all allow something, a record fails a filter that is applied again
\* only if its work has another value of its own for that field.  What no TMDB
\* field answers passes ("an un-echoed popular would see every card dropped").
RowsSurviveTheReFilter ==
    IsAnswer => LET q == reply.query IN
        /\ Route(q) = "row"
        /\ Asked(q, "contentKind") \subseteq {"movie", "series"}
        /\ \A key \in DOMAIN q.filters : q.filters[key] # <<>>
        => \A i \in DOMAIN reply.records, key \in DOMAIN q.filters :
              \/ Passes(reply.records[i], q.filters, key)
              \/ \E w \in Works :
                    /\ reply.records[i].id = RecordId(w)
                    /\ key \in DOMAIN w.fields /\ w.fields[key] \notin Asked(q, key)

\* A deep link is answered by the work it names and nothing else, whatever text or
\* marker comes along with it.
LinksNameTheWork ==
    IsAnswer => LET q == reply.query IN
        LinkedTo(q) # {} =>
            /\ Len(reply.records) <= 1
            /\ \A i \in DOMAIN reply.records : reply.records[i].fields["tmdbid"] = LinkedTo(q)

\* No answer is longer than the query asks for or, for a row or a search, than the
\* number in force; a query for other types than cards has none.
AnswersFit ==
    IsAnswer =>
        /\ Len(reply.records) <= reply.max
        /\ Route(reply.query) = "row" => Len(reply.records) <= InForce("card_discovery_n")
        /\ Route(reply.query) = "text" => Len(reply.records) <= InForce("card_top_n")
        /\ "fileType" \in DOMAIN reply.query.filters /\ "card" \notin Asked(reply.query, "fileType")
              => reply.records = <<>>

\* An id that the feeder published resolves to the record it was published with:
\* the CID of the outcome is one of the record's own.
PublishedIdsComeBack ==
    IsOutcome => \A w \in Works :
        reply.asked = RecordId(w) =>
            /\ reply.hash = Cid(RecordId(w))
            /\ \A r \in reply.record : r.id = reply.asked /\ r.cids = reply.hash
=============================================================================
