-------------------------- MODULE CardFeederProofs --------------------------
(***************************************************************************)
(* Theorems about CardFeeder, for any form, environments, works, queries   *)
(* and record ids.                                                         *)
(*                                                                         *)
(* What is in force has to be traced back to where it came from: while the *)
(* process is up, its configuration is the merge of the environment and of *)
(* the config.json it read (Booted), an outcome on its way is what         *)
(* compute_outcomes made of the id it was asked for (Resolved), and an     *)
(* answer on its way is what the configuration that is still in force lets *)
(* handle_query make of its query (Replied).                               *)
(***************************************************************************)
EXTENDS CardFeeder, ListLemmas, TLAPS

\* config.json and what was read of it: every field holds what the form allows.
FileTyped(f) == f \notin {Absent, Damaged} =>
    DOMAIN f = Fields /\ \A x \in Fields : f[x] \in Values[x]

Booted == Up => config = Merged(env, booted)

\* The record of an outcome is that of a work the id names.
Resolved ==
    reply # None /\ "hash" \in DOMAIN reply =>
        /\ reply.hash = Cid(reply.asked)
        /\ \A r \in reply.record : \E w \in Works :
              /\ r.id = RecordId(w) /\ r.cids = Cid(RecordId(w))
              /\ [kind |-> w.kind, id |-> w.id] \in ParseSourceId(Tail(reply.asked))

\* The lists of cards a query can come to.
Found(q, max) == IF Accepts(q) /\ HasResolver THEN Cards(q, max) ELSE {<<>>}

\* The records of an answer are those of a list its query can come to.
Replied ==
    reply # None /\ "query" \in DOMAIN reply =>
        /\ reply.query \in Queries /\ reply.max \in Limits
        /\ \E cards \in Found(reply.query, reply.max) :
              reply.records = Records(cards, reply.query.filters, reply.max)

FeederInv ==
    /\ env \in EnvSeeds
    /\ FileTyped(file) /\ FileTyped(booted)
    /\ Booted
    /\ ~Up => reply = None
    /\ Resolved
    /\ Replied

-----------------------------------------------------------------------------
(* Configuration                                                           *)

\* The merge holds values that can be used, for every file there may be.
LEMMA MergeTyped ==
    ASSUME NEW e \in EnvSeeds, NEW f, FileTyped(f)
    PROVE  /\ DOMAIN Merged(e, f) = Fields
           /\ \A x \in Fields : Merged(e, f)[x] \in Values[x] \ {Bad}
BY SeedsAssumption DEF Merged, Readable, FileTyped

LEMMA ConfigTyped ==
    ASSUME FeederInv, Up
    PROVE  DOMAIN config = Fields /\ \A x \in Fields : config[x] \in Values[x] \ {Bad}
BY MergeTyped DEF FeederInv, Booted

-----------------------------------------------------------------------------
(* The inductive invariant                                                 *)

LEMMA FeederInvAtStart == Init => FeederInv
BY DEF Init, FeederInv, FileTyped, Booted, Resolved, Replied, Up

\* A step that leaves the process, the file and the environment alone.
LEMMA OnlyTheReply ==
    ASSUME FeederInv, Up \/ reply' = None, UNCHANGED <<env, file, booted, config>>, Resolved', Replied'
    PROVE  FeederInv'
BY DEF FeederInv, FileTyped, Booted, Up

\* What parse_source_id finds is named in the id.
LEMMA ParsedIsNamed ==
    ASSUME NEW parts, NEW kind, NEW id, [kind |-> kind, id |-> id] \in ParseSourceId(parts)
    PROVE  parts[2] \in DOMAIN Number /\ kind = parts[1] /\ id = Number[parts[2]]
<1>1. parts[2] \in DOMAIN Number
  BY DEF ParseSourceId
<1>2. [kind |-> kind, id |-> id] = [kind |-> parts[1], id |-> Number[parts[2]]]
  BY DEF ParseSourceId
<1>3. [kind |-> kind, id |-> id].kind = parts[1] /\ [kind |-> kind, id |-> id].id = Number[parts[2]]
  BY <1>2
<1>4. QED
  BY <1>1, <1>3

\* An outcome on its way carries what the id names.
LEMMA OutcomeResolved ==
    ASSUME NEW parts, ComputeOutcomes(parts)
    PROVE  Resolved' /\ Replied'
<1> DEFINE found == {w \in Works :
                        /\ HasResolver /\ w.displayable
                        /\ [kind |-> w.kind, id |-> w.id] \in ParseSourceId(Tail(parts))}
           records == {{}} \cup {{ToRecord(w, <<>>)} : w \in found}
<1>1. CASE ~Splits(parts) \/ parts[1] # "tmdb" \/ Cid(parts) = {}
  <2>1. PICK e : reply' = [asked |-> parts, error |-> e]
    BY <1>1 DEF ComputeOutcomes
  <2>2. QED
    BY <2>1 DEF Resolved, Replied
<1>2. CASE ~(~Splits(parts) \/ parts[1] # "tmdb" \/ Cid(parts) = {})
  <2>1. PICK r \in records : reply' = [asked |-> parts, hash |-> Cid(parts), record |-> r]
    BY <1>2 DEF ComputeOutcomes
  <2>2. ASSUME NEW one \in r
        PROVE  \E w \in Works :
                  /\ one.id = RecordId(w) /\ one.cids = Cid(RecordId(w))
                  /\ [kind |-> w.kind, id |-> w.id] \in ParseSourceId(Tail(parts))
    <3>1. PICK w \in found : one = ToRecord(w, <<>>)
      BY <2>1, <2>2
    <3>2. one.id = RecordId(w) /\ one.cids = Cid(RecordId(w))
      BY <3>1 DEF ToRecord
    <3>3. QED
      BY <3>1, <3>2
  <2> HIDE DEF records
  <2>3. /\ reply'.asked = parts /\ reply'.hash = Cid(parts) /\ reply'.record = r
        /\ "query" \notin DOMAIN reply'
    BY <2>1
  <2>4. QED
    BY <2>2, <2>3 DEF Resolved, Replied
<1>3. QED
  BY <1>1, <1>2

\* What a list of cards can be depends on the configuration alone.
LEMMA SameConfigSameAnswer ==
    ASSUME Replied, UNCHANGED <<config, reply>>
    PROVE  Replied'
<1> SUFFICES ASSUME reply # None, "query" \in DOMAIN reply
             PROVE  Replied'
  BY DEF Replied
<1>1. \A q, max : Found(q, max)' = Found(q, max)
  BY DEF Found, HasResolver, Up, InForce, Cards, Wanted
<1>2. QED
  BY <1>1 DEF Replied

\* One step keeps the invariant.
LEMMA FeederInvStep ==
    ASSUME FeederInv, [Next]_vars
    PROVE  FeederInv'
<1>1. CASE SetEnv
  BY <1>1 DEF SetEnv, FeederInv, FileTyped, Booted, Resolved, Replied, Up
<1>2. CASE Boot
  BY <1>2 DEF Boot, FeederInv, FileTyped, Booted, Resolved, Replied, Up
<1>3. ASSUME NEW x \in Fields, SaveForm(x)
      PROVE  FeederInv'
  <2>1. PICK v \in Values[x] : file' = [config EXCEPT ![x] = v]
    BY <1>3 DEF SaveForm
  <2>2. DOMAIN file' = Fields /\ \A y \in Fields : file'[y] \in Values[y]
    BY <1>3, <2>1, ConfigTyped DEF SaveForm
  <2>3. FileTyped(file)'
    BY <2>2 DEF FileTyped
  <2>4. QED
    BY <1>3, <2>3 DEF SaveForm, FeederInv, FileTyped, Booted, Resolved, Replied, Up
<1>4. CASE Stop
  <2>1. FileTyped(file)'
    BY <1>4 DEF Stop, FeederInv, FileTyped
  <2>2. QED
    BY <1>4, <2>1 DEF Stop, FeederInv, FileTyped, Booted, Resolved, Replied, Up
<1>5. ASSUME NEW q \in Queries, NEW max \in Limits, HandleQuery(q, max)
      PROVE  FeederInv'
  <2>1. PICK cards \in Found(q, max) :
           reply' = [query |-> q, max |-> max, records |-> Records(cards, q.filters, max)]
    BY <1>5 DEF HandleQuery, Found
  <2> DEFINE list == Records(cards, q.filters, max)
  <2> HIDE DEF list
  <2>2. Found(q, max)' = Found(q, max)
    BY <1>5 DEF HandleQuery, Found, HasResolver, Up, InForce, Cards, Wanted
  <2>3. reply' = [query |-> q, max |-> max, records |-> list]
    BY <2>1 DEF list
  <2>4. /\ reply'.query = q /\ reply'.max = max /\ reply'.records = list
        /\ "hash" \notin DOMAIN reply'
    BY <2>3
  <2>5. Resolved'
    BY <2>4 DEF Resolved
  <2>6. Replied'
    BY <2>1, <2>2, <2>4 DEF Replied, list
  <2>7. QED
    BY <1>5, <2>5, <2>6, OnlyTheReply DEF HandleQuery
<1>6. ASSUME NEW parts \in RecordIds, ComputeOutcomes(parts)
      PROVE  FeederInv'
  BY <1>6, OutcomeResolved, OnlyTheReply DEF ComputeOutcomes
<1>7. CASE Send
  BY <1>7, OnlyTheReply DEF Send, Resolved, Replied
<1>8. CASE UNCHANGED vars
  <2>1. Replied'
    BY <1>8, SameConfigSameAnswer DEF vars, FeederInv
  <2>2. QED
    BY <1>8, <2>1 DEF vars, FeederInv, FileTyped, Booted, Resolved, Up
<1>9. QED
  BY <1>1, <1>2, <1>3, <1>4, <1>5, <1>6, <1>7, <1>8 DEF Next

LEMMA FeederInvAlways == Spec => []FeederInv
BY FeederInvAtStart, FeederInvStep, PTL DEF Spec

-----------------------------------------------------------------------------
(* Answers                                                                 *)

\* A record is made of one of the cards, and there are no more than are asked for.
LEMMA RecordsOfCards ==
    ASSUME NEW S, NEW cards \in Seq(S), NEW filters, NEW max \in Nat
    PROVE  /\ Len(Records(cards, filters, max)) \in Nat
           /\ Len(Records(cards, filters, max)) <= max
           /\ Len(Records(cards, filters, max)) <= Len(cards)
           /\ \A i \in DOMAIN Records(cards, filters, max) :
                 \E w \in S : Records(cards, filters, max)[i] = ToRecord(w, filters)
<1> DEFINE kept == Kept(cards, Displayable)
           n == IF max < Len(kept) THEN max ELSE Len(kept)
<1>1. kept \in Seq(S \cap Displayable) /\ Len(kept) <= Len(cards)
  BY KeptTyped
<1>2. Len(cards) \in Nat /\ Len(kept) \in Nat /\ \A i \in 1 .. Len(kept) : kept[i] \in S
  BY <1>1
<1>3. Records(cards, filters, max) = [i \in 1 .. n |-> ToRecord(kept[i], filters)]
  BY DEF Records
<1> HIDE DEF kept
<1>4. n \in Nat /\ n <= max /\ n <= Len(kept)
  BY <1>2
<1> HIDE DEF n
<1>5. Len(Records(cards, filters, max)) = n
  BY <1>3, <1>4
<1>6. ASSUME NEW i \in DOMAIN Records(cards, filters, max)
      PROVE  \E w \in S : Records(cards, filters, max)[i] = ToRecord(w, filters)
  <2>1. i \in 1 .. n /\ Records(cards, filters, max)[i] = ToRecord(kept[i], filters)
    BY <1>3
  <2>2. kept[i] \in S
    BY <1>2, <1>4, <2>1
  <2>3. QED
    BY <2>1, <2>2
<1>7. QED
  BY <1>1, <1>2, <1>4, <1>5, <1>6

LEMMA NoCardsNoRecords ==
    ASSUME NEW filters, NEW max \in Nat
    PROVE  Records(<<>>, filters, max) = <<>>
<1>1. Kept(<<>>, Displayable) = <<>>
  BY KeptEmpty
<1>2. Len(Kept(<<>>, Displayable)) = 0
  BY <1>1
<1> DEFINE n == IF max < Len(Kept(<<>>, Displayable)) THEN max ELSE Len(Kept(<<>>, Displayable))
<1>3. n = 0
  BY <1>2
<1>4. Records(<<>>, filters, max)
         = [i \in 1 .. n |-> ToRecord(Kept(<<>>, Displayable)[i], filters)]
  BY DEF Records
<1> HIDE DEF n
<1>5. QED
  BY <1>3, <1>4

\* What a list of at most n of them is.
LEMMA ListsOfTyped ==
    ASSUME NEW S, NEW n \in Nat, NEW list \in ListsOf(S, n)
    PROVE  list \in Seq(S) /\ Len(list) <= n
<1>1. PICK m \in 0 .. n : list \in [1 .. m -> S]
  BY DEF ListsOf, SeqOf
<1>2. QED
  BY <1>1

\* The numbers in force are numbers.
LEMMA NumbersInForce ==
    ASSUME FeederInv, Up, NEW x \in {"card_top_n", "card_discovery_n"}
    PROVE  InForce(x) \in Nat
<1>1. x \in Fields /\ x # "tmdb_token"
  BY FieldsAssumption
<1>2. config[x] \in Nat \cup {Blank}
  BY <1>1, ConfigTyped, FieldsAssumption
<1>3. Defaults[x] \in Nat
  BY <1>1, DefaultsAssumption
<1>4. QED
  BY <1>2, <1>3 DEF InForce

LEMMA WantedFits ==
    ASSUME FeederInv, Up, NEW x \in {"card_top_n", "card_discovery_n"}, NEW max \in Nat
    PROVE  Wanted(x, max) \in Nat /\ Wanted(x, max) <= InForce(x)
BY NumbersInForce DEF Wanted

\* The works a row may show.
Fitting(q) ==
    {w \in Works :
       /\ w.displayable
       /\ w.kind \in DiscoveryKind(q)
       /\ Asked(q, "genres") # {} => w.genres \cap Asked(q, "genres") # {}}

LEMMA NoCards ==
    ASSUME NEW q, NEW max, NEW cards \in Found(q, max),
           ~Accepts(q) \/ Route(q) = "nothing"
    PROVE  cards = <<>>
BY DEF Found, Cards

LEMMA CardsOfALink ==
    ASSUME NEW q, NEW max, NEW cards \in Found(q, max), Route(q) = "link"
    PROVE  /\ cards \in Seq({w \in Works : w.id \in LinkedTo(q)})
           /\ Len(cards) <= 1
<1>1. cards = <<>> \/ \E w \in {v \in Works : v.id \in LinkedTo(q)} : cards = <<w>>
  BY DEF Found, Cards
<1>2. CASE cards = <<>>
  BY <1>2
<1>3. CASE \E w \in {v \in Works : v.id \in LinkedTo(q)} : cards = <<w>>
  BY <1>3
<1>4. QED
  BY <1>1, <1>2, <1>3

LEMMA CardsOfARow ==
    ASSUME FeederInv, Up, NEW q, NEW max \in Nat, NEW cards \in Found(q, max),
           Route(q) = "row"
    PROVE  cards \in Seq(Fitting(q)) /\ Len(cards) <= InForce("card_discovery_n")
<1>1. InForce("card_discovery_n") \in Nat
  BY NumbersInForce
<1>2. CASE cards = <<>>
  BY <1>1, <1>2
<1>3. CASE cards # <<>>
  <2>1. cards \in ListsOf(Fitting(q), Wanted("card_discovery_n", max))
    BY <1>3 DEF Found, Cards, Fitting
  <2>2. /\ Wanted("card_discovery_n", max) \in Nat
        /\ Wanted("card_discovery_n", max) <= InForce("card_discovery_n")
    BY WantedFits
  <2>3. cards \in Seq(Fitting(q)) /\ Len(cards) <= Wanted("card_discovery_n", max)
    BY <2>1, <2>2, ListsOfTyped
  <2>4. Len(cards) \in Nat
    BY <2>3
  <2>5. QED
    BY <1>1, <2>2, <2>3, <2>4
<1>4. QED
  BY <1>2, <1>3

LEMMA CardsOfASearch ==
    ASSUME FeederInv, Up, NEW q, NEW max \in Nat, NEW cards \in Found(q, max),
           Route(q) = "text"
    PROVE  cards \in Seq(Works) /\ Len(cards) <= InForce("card_top_n")
<1>1. InForce("card_top_n") \in Nat
  BY NumbersInForce
<1>2. CASE cards = <<>>
  BY <1>1, <1>2
<1>3. CASE cards # <<>>
  <2>1. cards \in ListsOf(Works, Wanted("card_top_n", max))
    BY <1>3 DEF Found, Cards
  <2>2. /\ Wanted("card_top_n", max) \in Nat
        /\ Wanted("card_top_n", max) <= InForce("card_top_n")
    BY WantedFits
  <2>3. cards \in Seq(Works) /\ Len(cards) <= Wanted("card_top_n", max)
    BY <2>1, <2>2, ListsOfTyped
  <2>4. Len(cards) \in Nat
    BY <2>3
  <2>5. QED
    BY <1>1, <2>2, <2>3, <2>4
<1>4. QED
  BY <1>2, <1>3

LEMMA Routes ==
    ASSUME NEW q
    PROVE  /\ Route(q) \in {"link", "row", "text", "nothing"}
           /\ LinkedTo(q) # {} <=> Route(q) = "link"
BY DEF Route

LEMMA ListOfSubset ==
    ASSUME NEW W, NEW S \in SUBSET W, NEW s \in Seq(S)
    PROVE  s \in Seq(W)
OBVIOUS

\* Whatever the route, the cards are works.
LEMMA CardsAreWorks ==
    ASSUME FeederInv, Up, NEW q, NEW max \in Nat, NEW cards \in Found(q, max)
    PROVE  cards \in Seq(Works)
<1>1. CASE Route(q) = "link"
  <2> DEFINE S == {w \in Works : w.id \in LinkedTo(q)}
  <2>1. S \in SUBSET Works /\ cards \in Seq(S)
    BY <1>1, CardsOfALink
  <2> HIDE DEF S
  <2>2. QED
    BY <2>1, ListOfSubset
<1>2. CASE Route(q) = "row"
  <2>1. Fitting(q) \in SUBSET Works /\ cards \in Seq(Fitting(q))
    BY <1>2, CardsOfARow DEF Fitting
  <2>2. QED
    BY <2>1, ListOfSubset
<1>3. CASE Route(q) = "text"
  BY <1>3, CardsOfASearch
<1>4. CASE Route(q) = "nothing"
  <2>1. cards = <<>>
    BY <1>4, NoCards
  <2>2. QED
    BY <2>1
<1>5. QED
  BY <1>1, <1>2, <1>3, <1>4, Routes

\* What an answer on its way was made of.
LEMMA AnswerFound ==
    ASSUME FeederInv, IsAnswer
    PROVE  /\ Up /\ reply.query \in Queries /\ reply.max \in Nat
           /\ \E cards \in Found(reply.query, reply.max) :
                 reply.records = Records(cards, reply.query.filters, reply.max)
BY LimitsAssumption DEF FeederInv, Replied, IsAnswer, Answered

\* The fields a card sets, with their values.
LEMMA FieldsSet ==
    ASSUME NEW w, NEW filters
    PROVE  LET fields == ToRecord(w, filters).fields
           IN  /\ DOMAIN fields = {"fileType", "contentKind", "tmdbid"} \cup DOMAIN w.fields
                                     \cup Echoed(OwnFields(w), filters)
               /\ fields["fileType"] = {"card"}
               /\ fields["contentKind"] = {IF w.kind = "tv" THEN "series" ELSE "movie"}
               /\ fields["tmdbid"] = {w.id}
               /\ \A key \in DOMAIN w.fields \ {"fileType", "contentKind", "tmdbid"} :
                     fields[key] = {w.fields[key]}
               /\ \A key \in Echoed(OwnFields(w), filters) : fields[key] = ToSet(filters[key])
<1> DEFINE own == OwnFields(w)
           echo == Echoed(own, filters)
<1>1. DOMAIN own = {"fileType", "contentKind", "tmdbid"} \cup DOMAIN w.fields
  BY DEF OwnFields
<1>2. own["fileType"] = {"card"}
  BY DEF OwnFields
<1>3. own["contentKind"] = {IF w.kind = "tv" THEN "series" ELSE "movie"}
  BY DEF OwnFields
<1>4. own["tmdbid"] = {w.id}
  BY DEF OwnFields
<1>a. \A key \in DOMAIN w.fields \ {"fileType", "contentKind", "tmdbid"} :
         own[key] = {w.fields[key]}
  BY DEF OwnFields
<1>5. echo \cap DOMAIN own = {}
  BY DEF Echoed
<1>6. ToRecord(w, filters).fields
         = [key \in DOMAIN own \cup echo |->
              IF key \in DOMAIN own THEN own[key] ELSE ToSet(filters[key])]
  BY DEF ToRecord
<1> HIDE DEF own, echo
<1>7. QED
  BY <1>1, <1>2, <1>3, <1>4, <1>a, <1>5, <1>6 DEF own, echo

\* What is not empty has a first element, which is one of its own.
LEMMA FirstOfList ==
    ASSUME NEW S, NEW s \in Seq(S), s # <<>>
    PROVE  Head(s) \in S /\ Head(s) \in ToSet(s)
<1>1. 1 \in DOMAIN s /\ Head(s) = s[1] /\ s[1] \in S
  OBVIOUS
<1>2. QED
  BY <1>1 DEF ToSet

\* The first content kind a row knows is one it asks for.
LEMMA KindAsked ==
    ASSUME NEW q \in Queries, NEW kind \in DiscoveryKind(q)
    PROVE  \E v \in Asked(q, "contentKind") : kind = IF v = "movie" THEN "movie" ELSE "tv"
<1> DEFINE P == ShowKinds \cup {"movie"}
           list == q.filters["contentKind"]
           known == Kept(list, P)
<1>1. "contentKind" \in DOMAIN q.filters /\ known # <<>>
  BY DEF DiscoveryKind
<1>2. kind = IF Head(known) = "movie" THEN "movie" ELSE "tv"
  BY <1>1 DEF DiscoveryKind
<1>3. list \in Seq(STRING)
  BY <1>1, QueriesAssumption
<1>4. list \in Seq(ToSet(list))
  BY <1>3 DEF ToSet
<1>5. known \in Seq(ToSet(list) \cap P)
  BY <1>4, KeptTyped
<1> HIDE DEF known, P
<1>6. Head(known) \in ToSet(list)
  BY <1>1, <1>5, FirstOfList
<1>7. ToSet(list) = Asked(q, "contentKind")
  BY <1>1 DEF Asked
<1>8. QED
  BY <1>2, <1>6, <1>7

\* A work a row may show passes the filters of the row, those it answers with
\* another value of its own aside.
LEMMA FittingMatches ==
    ASSUME NEW q \in Queries, Accepts(q), Route(q) = "row",
           Asked(q, "contentKind") \subseteq {"movie", "series"},
           \A key \in DOMAIN q.filters : q.filters[key] # <<>>,
           NEW w \in Fitting(q), NEW key \in DOMAIN q.filters
    PROVE  \/ Passes(ToRecord(w, q.filters), q.filters, key)
           \/ key \in DOMAIN w.fields /\ w.fields[key] \notin Asked(q, key)
<1> DEFINE rec == ToRecord(w, q.filters)
<1> SUFFICES ASSUME key # "languages",
                    ~(key \in DOMAIN w.fields /\ w.fields[key] \notin Asked(q, key))
             PROVE  IF key = "genres" THEN rec.genres \cap ToSet(q.filters[key]) # {}
                    ELSE /\ key \in DOMAIN rec.fields
                         /\ rec.fields[key] \cap ToSet(q.filters[key]) # {}
  BY DEF Passes
<1>1. q.filters[key] \in Seq(STRING) /\ q.filters[key] # <<>>
  BY QueriesAssumption
<1>2. ToSet(q.filters[key]) = Asked(q, key) /\ Asked(q, key) # {}
  BY <1>1, FirstOfList DEF Asked
<1>3. /\ DOMAIN rec.fields = {"fileType", "contentKind", "tmdbid"} \cup DOMAIN w.fields
                               \cup Echoed(OwnFields(w), q.filters)
      /\ rec.fields["fileType"] = {"card"}
      /\ rec.fields["contentKind"] = {IF w.kind = "tv" THEN "series" ELSE "movie"}
      /\ \A other \in DOMAIN w.fields \ {"fileType", "contentKind", "tmdbid"} :
            rec.fields[other] = {w.fields[other]}
      /\ \A other \in Echoed(OwnFields(w), q.filters) :
            rec.fields[other] = ToSet(q.filters[other])
  BY FieldsSet
<1>4. rec.genres = w.genres
  BY DEF ToRecord
<1>5. "tmdbid" \notin DOMAIN q.filters
  BY DEF Route, IsDiscoveryQuery
<1> HIDE DEF rec
<1>6. CASE key = "genres"
  BY <1>2, <1>4, <1>6 DEF Fitting
<1>7. CASE key = "fileType"
  BY <1>2, <1>3, <1>7 DEF Accepts
<1>8. CASE key = "contentKind"
  <2>1. PICK v \in Asked(q, "contentKind") : w.kind = IF v = "movie" THEN "movie" ELSE "tv"
    BY KindAsked DEF Fitting
  <2>2. v = IF w.kind = "tv" THEN "series" ELSE "movie"
    BY <2>1
  <2>3. QED
    BY <1>2, <1>3, <1>8, <2>1, <2>2
<1>9. CASE key \notin {"genres", "fileType", "contentKind"} \cup DOMAIN w.fields
  <2>1. DOMAIN OwnFields(w) = {"fileType", "contentKind", "tmdbid"} \cup DOMAIN w.fields
    BY DEF OwnFields
  <2>2. key \in Echoed(OwnFields(w), q.filters)
    BY <1>1, <1>5, <1>9, <2>1 DEF Echoed
  <2>3. QED
    BY <1>2, <1>3, <1>9, <2>2
<1>10. CASE key \in DOMAIN w.fields /\ key \notin {"genres", "fileType", "contentKind"}
  <2>1. rec.fields[key] = {w.fields[key]} /\ w.fields[key] \in Asked(q, key)
    BY <1>3, <1>5, <1>10
  <2>2. QED
    BY <1>2, <1>3, <1>10, <2>1
<1>11. QED
  BY <1>6, <1>7, <1>8, <1>9, <1>10

-----------------------------------------------------------------------------
(* The theorems                                                            *)

\* No value that cannot be used is ever in force.
THEOREM FeederTypeCorrect == Spec => []TypeOK
<1>1. ASSUME FeederInv PROVE TypeOK
  <2>1. \A f \in {file, booted} \ {Absent, Damaged} : \A x \in Fields : f[x] \in Values[x]
    BY <1>1 DEF FeederInv, FileTyped
  <2>2. ASSUME Up, NEW x \in Fields \ {"tmdb_token"}
        PROVE  InForce(x) # Blank /\ InForce(x) > 0
    <3>1. config[x] \in Nat \cup {Blank}
      BY <1>1, <2>2, ConfigTyped, FieldsAssumption
    <3>2. Defaults[x] \in Nat \ {0}
      BY <2>2, DefaultsAssumption
    <3>3. QED
      BY <2>2, <3>1, <3>2, FieldsAssumption DEF InForce
  <2>3. QED
    BY <1>1, <2>1, <2>2, ConfigTyped DEF TypeOK, FeederInv
<1>2. QED
  BY <1>1, FeederInvAlways, PTL

\* Without a token in force there was none in the environment, and none in a
\* config.json that could be read.
THEOREM TokenIsNotLost == Spec => []IdleOnlyWithoutAToken
<1>1. ASSUME FeederInv PROVE IdleOnlyWithoutAToken
  <2> SUFFICES ASSUME Up, ~HasResolver
               PROVE  /\ env["tmdb_token"] = Blank
                      /\ Readable(booted) => booted["tmdb_token"] = Blank
    BY DEF IdleOnlyWithoutAToken
  <2>1. config["tmdb_token"] = Blank
    BY DEF HasResolver, InForce
  <2>2. config = Merged(env, booted) /\ env \in EnvSeeds
    BY <1>1 DEF FeederInv, Booted
  <2>3. QED
    BY <2>1, <2>2, FieldsAssumption DEF Merged
<1>2. QED
  BY <1>1, FeederInvAlways, PTL

\* The outcome of a published id carries the record and the CID of its own work.
THEOREM PublishedIdsReturn == Spec => []PublishedIdsComeBack
<1>1. ASSUME FeederInv PROVE PublishedIdsComeBack
  <2> SUFFICES ASSUME IsOutcome, NEW w \in Works, reply.asked = RecordId(w)
               PROVE  /\ reply.hash = Cid(RecordId(w))
                      /\ \A r \in reply.record : r.id = reply.asked /\ r.cids = reply.hash
    BY DEF PublishedIdsComeBack
  <2>1. reply.hash = Cid(RecordId(w))
    BY <1>1 DEF FeederInv, Resolved, IsOutcome, Answered
  <2>2. ASSUME NEW r \in reply.record
        PROVE  r.id = RecordId(w) /\ r.cids = Cid(RecordId(w))
    <3>1. PICK v \in Works :
             /\ r.id = RecordId(v) /\ r.cids = Cid(RecordId(v))
             /\ [kind |-> v.kind, id |-> v.id] \in ParseSourceId(Tail(RecordId(w)))
      BY <1>1, <2>2 DEF FeederInv, Resolved, IsOutcome, Answered
    <3>2. Tail(RecordId(w)) = <<w.kind, w.id>>
      BY DEF RecordId
    <3>3. w.id \in DOMAIN Number /\ v.kind = w.kind /\ v.id = Number[w.id]
      BY <3>1, <3>2, ParsedIsNamed
    <3>4. RecordId(v) = RecordId(w)
      BY <3>3, NumberAssumption DEF RecordId
    <3>5. QED
      BY <3>1, <3>4
  <2>3. QED
    BY <2>1, <2>2
<1>2. QED
  BY <1>1, FeederInvAlways, PTL

\* Every record of a row passes the filters of its query when they are applied again,
\* those its work answers with another value of its own aside.
THEOREM RowsSurviveHolds == Spec => []RowsSurviveTheReFilter
<1>1. ASSUME FeederInv PROVE RowsSurviveTheReFilter
  <2> DEFINE q == reply.query
  <2> SUFFICES ASSUME IsAnswer, Route(q) = "row",
                      Asked(q, "contentKind") \subseteq {"movie", "series"},
                      \A key \in DOMAIN q.filters : q.filters[key] # <<>>,
                      NEW i \in DOMAIN reply.records, NEW key \in DOMAIN q.filters
               PROVE  \/ Passes(reply.records[i], q.filters, key)
                      \/ \E w \in Works :
                            /\ reply.records[i].id = RecordId(w)
                            /\ key \in DOMAIN w.fields /\ w.fields[key] \notin Asked(q, key)
    BY DEF RowsSurviveTheReFilter
  <2>1. /\ Up /\ q \in Queries /\ reply.max \in Nat
        /\ \E cards \in Found(q, reply.max) : reply.records = Records(cards, q.filters, reply.max)
    BY <1>1, AnswerFound
  <2> HIDE DEF q
  <2>2. PICK cards \in Found(q, reply.max) :
           reply.records = Records(cards, q.filters, reply.max)
    BY <2>1
  <2>3. cards \in Seq(Fitting(q))
    BY <1>1, <2>1, CardsOfARow
  <2>4. PICK w \in Fitting(q) : reply.records[i] = ToRecord(w, q.filters)
    BY <2>1, <2>2, <2>3, RecordsOfCards
  <2>5. Accepts(q)
    <3>1. SUFFICES ASSUME ~Accepts(q) PROVE FALSE
      OBVIOUS
    <3>2. cards = <<>>
      BY <3>1, NoCards
    <3>3. reply.records = <<>>
      BY <2>1, <2>2, <3>2, NoCardsNoRecords
    <3>4. QED
      BY <3>3
  <2>6. w \in Works /\ reply.records[i].id = RecordId(w)
    BY <2>4 DEF Fitting, ToRecord
  <2>7. QED
    BY <2>1, <2>4, <2>5, <2>6, FittingMatches
<1>2. QED
  BY <1>1, FeederInvAlways, PTL

\* A deep link is answered by the work it names and nothing else.
THEOREM LinksNameTheWorkHolds == Spec => []LinksNameTheWork
<1>1. ASSUME FeederInv PROVE LinksNameTheWork
  <2> DEFINE q == reply.query
             S == {w \in Works : w.id \in LinkedTo(q)}
  <2> SUFFICES ASSUME IsAnswer, LinkedTo(q) # {}
               PROVE  /\ Len(reply.records) <= 1
                      /\ \A i \in DOMAIN reply.records :
                            reply.records[i].fields["tmdbid"] = LinkedTo(q)
    BY DEF LinksNameTheWork
  <2>1. /\ Up /\ q \in Queries /\ reply.max \in Nat
        /\ \E cards \in Found(q, reply.max) : reply.records = Records(cards, q.filters, reply.max)
    BY <1>1, AnswerFound
  <2> HIDE DEF q
  <2>2. PICK cards \in Found(q, reply.max) :
           reply.records = Records(cards, q.filters, reply.max)
    BY <2>1
  <2>3. cards \in Seq(S) /\ Len(cards) <= 1
    BY Routes, CardsOfALink
  <2> HIDE DEF S
  <2>4. /\ Len(reply.records) <= Len(cards) /\ Len(reply.records) <= reply.max
        /\ \A i \in DOMAIN reply.records :
              \E w \in S : reply.records[i] = ToRecord(w, q.filters)
    BY <2>1, <2>2, <2>3, RecordsOfCards
  <2>5. ASSUME NEW i \in DOMAIN reply.records
        PROVE  reply.records[i].fields["tmdbid"] = LinkedTo(q)
    <3>1. PICK w \in S : reply.records[i] = ToRecord(w, q.filters)
      BY <2>4
    <3>2. reply.records[i].fields["tmdbid"] = {w.id}
      BY <3>1, FieldsSet
    <3>3. w.id \in LinkedTo(q)
      BY DEF S
    <3>4. \A a, b \in LinkedTo(q) : a = b
      BY DEF LinkedTo, First
    <3>5. QED
      BY <3>2, <3>3, <3>4
  <2>6. Len(reply.records) <= 1
    <3>1. Len(cards) \in Nat
      BY <2>3
    <3>2. Len(reply.records) \in Nat
      BY <2>1, <2>2, <2>3, RecordsOfCards
    <3>3. QED
      BY <2>3, <2>4, <3>1, <3>2
  <2>7. QED
    BY <2>5, <2>6
<1>2. QED
  BY <1>1, FeederInvAlways, PTL

\* No answer is longer than it may be, and none is given for other types.
THEOREM AnswersFitHolds == Spec => []AnswersFit
<1>1. ASSUME FeederInv PROVE AnswersFit
  <2> DEFINE q == reply.query
             len == Len(reply.records)
  <2> SUFFICES ASSUME IsAnswer
               PROVE  /\ len <= reply.max
                      /\ Route(q) = "row" => len <= InForce("card_discovery_n")
                      /\ Route(q) = "text" => len <= InForce("card_top_n")
                      /\ "fileType" \in DOMAIN q.filters /\ "card" \notin Asked(q, "fileType")
                            => reply.records = <<>>
    BY DEF AnswersFit
  <2>1. /\ Up /\ q \in Queries /\ reply.max \in Nat
        /\ \E cards \in Found(q, reply.max) : reply.records = Records(cards, q.filters, reply.max)
    BY <1>1, AnswerFound
  <2> HIDE DEF q
  <2>2. PICK cards \in Found(q, reply.max) :
           reply.records = Records(cards, q.filters, reply.max)
    BY <2>1
  <2>3. cards \in Seq(Works)
    BY <1>1, <2>1, CardsAreWorks
  <2>4. len \in Nat /\ len <= Len(cards) /\ len <= reply.max
    BY <2>1, <2>2, <2>3, RecordsOfCards
  <2> HIDE DEF len
  <2>5. Len(cards) \in Nat
    BY <2>3
  <2>6. ASSUME Route(q) = "row" PROVE len <= InForce("card_discovery_n")
    <3>1. InForce("card_discovery_n") \in Nat
      BY <1>1, <2>1, NumbersInForce
    <3>2. Len(cards) <= InForce("card_discovery_n")
      BY <1>1, <2>1, <2>6, CardsOfARow
    <3>3. QED
      BY <2>4, <2>5, <3>1, <3>2
  <2>7. ASSUME Route(q) = "text" PROVE len <= InForce("card_top_n")
    <3>1. InForce("card_top_n") \in Nat
      BY <1>1, <2>1, NumbersInForce
    <3>2. Len(cards) <= InForce("card_top_n")
      BY <1>1, <2>1, <2>7, CardsOfASearch
    <3>3. QED
      BY <2>4, <2>5, <3>1, <3>2
  <2>8. ASSUME "fileType" \in DOMAIN q.filters, "card" \notin Asked(q, "fileType")
        PROVE  reply.records = <<>>
    <3>1. cards = <<>>
      BY <2>8, NoCards DEF Accepts
    <3>2. QED
      BY <2>1, <2>2, <3>1, NoCardsNoRecords
  <2>9. QED
    BY <2>4, <2>6, <2>7, <2>8
<1>2. QED
  BY <1>1, FeederInvAlways, PTL
=============================================================================
