------------------------- MODULE TmdbResolverProofs -------------------------
(***************************************************************************)
(* Theorems about TmdbResolver, for every catalog, every set of requests   *)
(* and any number of tasks.                                                *)
(*                                                                         *)
(* What is stored is right only because a task that has made its call      *)
(* still knows which lookup it made: the invariant couples the tables      *)
(* (StoreHoldsAnswers) with the locals of every task (Ready).              *)
(***************************************************************************)
EXTENDS TmdbResolver, ListLemmas, SequenceTheorems, TLAPS

Named == [kind : {"tv", "movie"}, id : Numbers]
Looks == {"search", "probe", "ext", "details", "genre"}

\* The locals of a task that serves a request.
Locals ==
    [pc : {"lookup", "lease", "call", "answered"}, req : Requests,
     look : Looks \cup {None}, todo : Seq(Named), ext : Titles \cup {None},
     cards : Seq(Cards), lost : BOOLEAN, warm : BOOLEAN]

\* A lookup under way is one its request makes, and names what it looks up.
Coherent(r) ==
    r.pc # "answered" =>
        /\ r.look \in Looks
        /\ r.look = "search" => r.req.op = "text"
        /\ r.look = "probe" => r.req.op = "number"
        /\ r.look \in {"ext", "details", "genre"} => r.todo # <<>>

Ready(r) == r \in Locals /\ Coherent(r)

TasksReady ==
    /\ DOMAIN task = Tasks
    /\ \A t \in Tasks : task[t] = Idle \/ Ready(task[t])

StoreTyped ==
    /\ DOMAIN store = Redb \cup InMemory
    /\ \A k \in Details : store[k] \in {Full, Stale, None}
    /\ paused \in BOOLEAN

\* What StoreHoldsAnswers says of one entry.
Answers(k, v) ==
    /\ k[1] = "principal" => v = Ranking[k[2]]
    /\ k[1] = "extids" => v \in Titles /\ v.id = k[2]
    /\ k[1] = "tvdetails" => [kind |-> "tv", id |-> k[2]] \in Titles
    /\ k[1] = "moviedetails" => [kind |-> "movie", id |-> k[2]] \in Titles
    /\ k[1] = "genre_names" => v = Full

\* An answer a lookup may be given.
Answerable(r, found) ==
    /\ r.look = "search" => found \in Seq(Titles) \cup {None}
    /\ r.look = "ext" => found \in Titles \cup {None}

-----------------------------------------------------------------------------
(* The catalog and the requests                                            *)

LEMMA TitlesNamed == Titles \subseteq Named
BY DEF Titles, Named, Numbers

LEMMA RequestTyped ==
    ASSUME NEW req \in Requests
    PROVE  /\ req.op \in {"text", "card", "number"}
           /\ req.op = "text" => req.query \in Queries /\ req.n \in Nat
           /\ req.op = "card" => req.title \in Named
           /\ req.op = "number" => req.id \in Numbers
BY RequestsAssumption DEF Named

LEMMA RankingTyped ==
    ASSUME NEW q \in Queries
    PROVE  Ranking[q] \in Seq(Titles)
BY CatalogAssumption

\* The first n of a list.
LEMMA TakeIsPrefix ==
    ASSUME NEW S, NEW s \in Seq(S), NEW n \in Nat
    PROVE  /\ Take(s, n) \in Seq(S)
           /\ Len(Take(s, n)) <= Len(s)
           /\ \A i \in 1 .. Len(Take(s, n)) : Take(s, n)[i] = s[i]
<1>1. Len(s) \in Nat
  BY LenProperties
<1>2. QED
  BY <1>1, TakeTyped

LEMMA TitlesSeqNamed ==
    ASSUME NEW s \in Seq(Titles)
    PROVE  s \in Seq(Named)
BY TitlesNamed, SMT

LEMMA SentTyped ==
    ASSUME NEW x
    PROVE  Sent(x) \subseteq {Stale, Full} /\ (Sent(x) # {} => x \in Titles)
BY DEF Sent

-----------------------------------------------------------------------------
(* The locals of a task                                                    *)

\* The next title of a request, or its answer.
LEMMA NextTitleReady ==
    ASSUME NEW r \in Locals
    PROVE  Ready(NextTitle(r))
BY DEF Ready, Coherent, NextTitle, Look, Locals, Looks

LEMMA SkipReady ==
    ASSUME NEW r \in Locals, r.todo # <<>>
    PROVE  Ready(Skip(r))
<1>1. Tail(r.todo) \in Seq(Named)
  BY HeadTailProperties DEF Locals
<1>2. [r EXCEPT !.todo = Tail(r.todo), !.ext = None] \in Locals
  BY <1>1 DEF Locals
<1>3. QED
  BY <1>2, NextTitleReady DEF Skip

LEMMA AddReady ==
    ASSUME NEW r \in Locals, r.todo # <<>>
    PROVE  Ready(Add(r))
<1> DEFINE card == [title |-> Head(r.todo), ids |-> r.ext]
           s == [r EXCEPT !.cards = Append(r.cards, card)]
<1>1. card \in Cards
  BY HeadTailProperties DEF Locals, Cards, Named
<1>2. Append(r.cards, card) \in Seq(Cards)
  BY <1>1, AppendProperties DEF Locals
<1>3. s \in Locals /\ s.todo # <<>>
  BY <1>2 DEF Locals
<1>4. Add(r) = Skip(s)
  BY DEF Add
<1>5. QED
  BY <1>3, <1>4, SkipReady

\* Whatever a lookup is answered, the task goes on as one that serves a request.
LEMMA AfterReady ==
    ASSUME NEW r, Ready(r), r.pc # "answered", NEW found, Answerable(r, found)
    PROVE  Ready(After(r, found))
<1> USE DEF Ready
<1>1. CASE r.look = "search"
  <2> DEFINE titles == IF found = None THEN <<>> ELSE Take(found, r.req.n)
  <2>1. r.req.n \in Nat
    BY <1>1, RequestTyped DEF Coherent, Locals
  <2>2. titles \in Seq(Named)
    <3>1. CASE found = None
      BY <3>1
    <3>2. CASE found # None
      BY <1>1, <2>1, <3>2, TitlesSeqNamed, TakeIsPrefix DEF Answerable
    <3>3. QED
      BY <3>1, <3>2
  <2>3. [r EXCEPT !.todo = titles] \in Locals
    BY <2>2 DEF Locals
  <2>4. After(r, found) = NextTitle([r EXCEPT !.todo = titles])
    BY <1>1 DEF After, AfterSearch
  <2>5. QED
    BY <2>3, <2>4, NextTitleReady
<1>2. CASE r.look = "probe"
  <2> DEFINE title == [kind |-> IF found # None /\ r.req.id \in Aired THEN "tv" ELSE "movie",
                       id |-> r.req.id]
  <2>1. title \in Named
    BY <1>2, RequestTyped DEF Coherent, Locals, Named
  <2>2. <<title>> \in Seq(Named)
    BY <2>1
  <2>3. [r EXCEPT !.todo = <<title>>] \in Locals
    BY <2>2 DEF Locals
  <2>4. After(r, found) = NextTitle([r EXCEPT !.todo = <<title>>])
    BY <1>2 DEF After, AfterProbe
  <2>5. QED
    BY <2>3, <2>4, NextTitleReady
<1>3. CASE r.look = "ext"
  <2>1. After(r, found) = [[r EXCEPT !.ext = found] EXCEPT !.pc = "lookup", !.look = "details"]
    BY <1>3 DEF After, AfterExt, Look
  <2>2. [r EXCEPT !.ext = found] \in Locals /\ [r EXCEPT !.ext = found].todo # <<>>
    BY <1>3 DEF Locals, Coherent, Answerable
  <2>3. QED
    BY <2>1, <2>2 DEF Locals, Coherent, Looks
<1>4. CASE r.look = "details"
  <2>1. r \in Locals /\ r.todo # <<>>
    BY <1>4 DEF Coherent
  <2>2. Ready(Look(r, "genre"))
    BY <2>1 DEF Look, Locals, Coherent, Looks
  <2>3. After(r, found) \in {Skip(r), Look(r, "genre"), Add(r)}
    BY <1>4 DEF After, AfterDetails
  <2>4. QED
    BY <2>1, <2>2, <2>3, SkipReady, AddReady
<1>5. CASE r.look = "genre"
  <2>1. r \in Locals /\ r.todo # <<>>
    BY <1>5 DEF Coherent
  <2>2. After(r, found) = Add(r)
    BY <1>5 DEF After, AfterGenre
  <2>3. QED
    BY <2>1, <2>2, AddReady
<1>6. QED
  BY <1>1, <1>2, <1>3, <1>4, <1>5 DEF Coherent, Looks

LEMMA AfterNothingReady ==
    ASSUME NEW r, Ready(r), r.pc # "answered"
    PROVE  Ready(AfterNothing(r))
<1> DEFINE s == [r EXCEPT !.lost = r.lost \/ r.look \in {"search", "probe", "details"}]
<1>1. (r.lost \/ r.look \in {"search", "probe", "details"}) \in BOOLEAN
  OBVIOUS
<1>2. s \in Locals /\ s.pc # "answered" /\ Coherent(s)
  BY <1>1 DEF Ready, Locals, Coherent
<1>3. Answerable(s, None)
  BY DEF Answerable
<1>4. AfterNothing(r) = After(s, None)
  BY DEF AfterNothing
<1>5. QED
  BY <1>2, <1>3, <1>4, AfterReady DEF Ready

-----------------------------------------------------------------------------
(* The tables                                                              *)

LEMMA AnswersHold ==
    StoreHoldsAnswers <=>
        \A k \in DOMAIN store : store[k] # None => Answers(k, store[k])
BY DEF StoreHoldsAnswers, Answers

\* A lookup under way reads and fills an entry of its own table.
LEMMA KeyTyped ==
    ASSUME NEW r, Ready(r), r.pc # "answered"
    PROVE  /\ Key(r) \in Redb \cup InMemory
           /\ r.look = "search" => Key(r) = <<"principal", r.req.query>> /\ r.req.query \in Queries
           /\ r.look = "ext" => Key(r) = <<"extids", Head(r.todo).id>>
           /\ r.look \in {"ext", "details", "genre"} => Head(r.todo) \in Named
<1> USE DEF Ready
<1>1. r.look \in {"ext", "details", "genre"} => Head(r.todo) \in Named
  BY HeadTailProperties DEF Coherent, Locals
<1>2. CASE r.look = "search"
  BY <1>2, RequestTyped DEF Coherent, Locals, Key, Redb
<1>3. CASE r.look = "probe"
  BY <1>3, RequestTyped DEF Coherent, Locals, Key, Redb, Details
<1>4. CASE r.look = "ext"
  BY <1>1, <1>4 DEF Key, Redb, Named
<1>5. CASE r.look = "details"
  BY <1>1, <1>5 DEF Key, DetailsKey, Redb, Details, Named
<1>6. CASE r.look = "genre"
  BY <1>1, <1>6 DEF Key, InMemory, Named
<1>7. QED
  BY <1>1, <1>2, <1>3, <1>4, <1>5, <1>6 DEF Coherent, Looks

\* What TMDB answers to a lookup may be stored where the lookup says.
LEMMA TruthAnswers ==
    ASSUME NEW r, Ready(r), r.pc # "answered", NEW answer \in Truths(r)
    PROVE  Answers(Key(r), answer) /\ Answerable(r, answer) /\ answer # None
<1> USE PayloadAssumption DEF Ready
<1>1. CASE r.look = "search"
  BY <1>1, KeyTyped, RankingTyped DEF Truths, Answers, Answerable
<1>2. CASE r.look = "probe"
  BY <1>2, SentTyped DEF Truths, Key, Answers, Answerable
<1>3. CASE r.look = "ext"
  BY <1>3 DEF Truths, Key, Answers, Answerable
<1>4. CASE r.look = "details"
  <2>1. Head(r.todo) \in Named /\ Head(r.todo) \in Titles /\ answer \in {Stale, Full}
    BY <1>4, KeyTyped, SentTyped DEF Truths
  <2>2. PICK kind \in {"tv", "movie"}, id \in Numbers : Head(r.todo) = [kind |-> kind, id |-> id]
    BY <2>1 DEF Named
  <2>3. QED
    BY <1>4, <2>1, <2>2 DEF Key, DetailsKey, Answers, Answerable
<1>5. CASE r.look = "genre"
  BY <1>5 DEF Truths, Key, Answers, Answerable
<1>6. QED
  BY <1>1, <1>2, <1>3, <1>4, <1>5 DEF Coherent, Looks

\* So is what the lookup reads there.
LEMMA StoredAnswers ==
    ASSUME StoreTyped, StoreHoldsAnswers, NEW r, Ready(r), r.pc # "answered", Usable(Key(r))
    PROVE  Answerable(r, store[Key(r)])
<1>1. Answers(Key(r), store[Key(r)])
  BY AnswersHold, KeyTyped DEF StoreTyped, Usable
<1>2. CASE r.look = "search"
  BY <1>1, <1>2, KeyTyped, RankingTyped DEF Answers, Answerable
<1>3. CASE r.look = "ext"
  BY <1>1, <1>3, KeyTyped DEF Answers, Answerable
<1>4. CASE r.look \notin {"search", "ext"}
  BY <1>4 DEF Answerable
<1>5. QED
  BY <1>2, <1>3, <1>4

-----------------------------------------------------------------------------
(* The invariant                                                           *)

ResolverInv == StoreTyped /\ TasksReady /\ StoreHoldsAnswers

LEMMA ResolverInvAtStart == Init => ResolverInv
<1> SUFFICES ASSUME Init PROVE ResolverInv
  OBVIOUS
<1>1. StoreTyped /\ TasksReady
  BY DEF Init, StoreTyped, TasksReady, Redb
<1>2. PICK old \in SUBSET {DetailsKey(x) : x \in Titles} :
         store = [k \in Redb \cup InMemory |-> IF k \in old THEN Stale ELSE None]
  BY DEF Init
<1>3. ASSUME NEW k \in DOMAIN store, store[k] # None
      PROVE  Answers(k, store[k])
  <2>1. k \in old /\ store[k] = Stale
    BY <1>2, <1>3
  <2>2. PICK x \in Titles : k = DetailsKey(x)
    BY <2>1
  <2>3. QED
    BY <2>2 DEF DetailsKey, Titles, Answers
<1>4. StoreHoldsAnswers
  BY <1>3, AnswersHold
<1>5. QED
  BY <1>1, <1>4 DEF ResolverInv

\* A new request starts with a lookup it makes.
LEMMA StartReady ==
    ASSUME NEW r \in Locals
    PROVE  /\ r.req.op = "text" => Ready(Look(r, "search"))
           /\ r.req.op = "card" => Ready(NextTitle([r EXCEPT !.todo = <<r.req.title>>]))
           /\ r.req.op = "number" => Ready(Look(r, "probe"))
<1>1. CASE r.req.op = "text"
  BY <1>1 DEF Look, Ready, Locals, Coherent, Looks
<1>2. CASE r.req.op = "card"
  <2>1. r.req.title \in Named
    BY <1>2, RequestTyped DEF Locals
  <2>2. <<r.req.title>> \in Seq(Named)
    BY <2>1
  <2>3. [r EXCEPT !.todo = <<r.req.title>>] \in Locals
    BY <2>2 DEF Locals
  <2>4. QED
    BY <1>2, <2>3, NextTitleReady
<1>3. CASE r.req.op = "number"
  BY <1>3 DEF Look, Ready, Locals, Coherent, Looks
<1>4. QED
  BY <1>1, <1>2, <1>3

LEMMA WarmBoolean ==
    ASSUME NEW req \in Requests
    PROVE  Warm(req) \in BOOLEAN
<1>1. CASE req.op = "text"
  BY <1>1 DEF Warm
<1>2. CASE req.op = "card"
  BY <1>2 DEF Warm, WarmTitle
<1>3. CASE req.op = "number"
  BY <1>3 DEF Warm
<1>4. QED
  BY <1>1, <1>2, <1>3, RequestTyped

\* A task that changes on its own and serves a request leaves the others as they are.
LEMMA OthersReady ==
    ASSUME TasksReady, NEW t \in Tasks, NEW r, Ready(r) \/ r = Idle,
           task' = [task EXCEPT ![t] = r]
    PROVE  TasksReady'
BY DEF TasksReady, Ready, Coherent

\* A task that is past its start is ready.
LEMMA BusyReady ==
    ASSUME TasksReady, NEW t \in Tasks,
           task[t].pc \in {"lookup", "lease", "call", "answered"}
    PROVE  Ready(task[t])
BY DEF TasksReady, Idle

\* Where an answer is stored, the tables stay right.
LEMMA HitKeepsStore ==
    ASSUME StoreTyped, StoreHoldsAnswers, NEW r, Ready(r), r.pc # "answered",
           NEW answer \in Truths(r),
           store' = [store EXCEPT ![Key(r)] = Stored(r, answer)], UNCHANGED paused
    PROVE  StoreTyped' /\ StoreHoldsAnswers'
<1>1. Key(r) \in DOMAIN store /\ Details \subseteq DOMAIN store
  BY KeyTyped DEF StoreTyped, Redb
<1>2. Key(r) \in Details => answer \in {Full, Stale, None}
  <2>1. CASE r.look \in {"probe", "details"}
    BY <2>1, SentTyped DEF Truths
  <2>2. CASE r.look \in {"search", "ext", "genre"}
    BY <2>2 DEF Key, Details
  <2>3. QED
    BY <2>1, <2>2 DEF Ready, Coherent, Looks
<1>3. StoreTyped'
  BY <1>1, <1>2 DEF StoreTyped, Stored
<1>4. StoreHoldsAnswers'
  <2>1. \A k \in DOMAIN store' : store'[k] # None => Answers(k, store'[k])
    BY <1>1, AnswersHold, TruthAnswers DEF Stored
  <2>2. QED
    BY <2>1 DEF StoreHoldsAnswers, Answers
<1>5. QED
  BY <1>3, <1>4

\* One step keeps the invariant.
LEMMA ResolverInvStep ==
    ASSUME ResolverInv, [Next]_vars
    PROVE  ResolverInv'
<1> USE DEF ResolverInv
<1>1. ASSUME UNCHANGED store, UNCHANGED paused \/ paused' \in BOOLEAN
      PROVE  StoreTyped' /\ StoreHoldsAnswers'
  BY <1>1 DEF StoreTyped, StoreHoldsAnswers
<1>2. ASSUME NEW t \in Tasks, Start(t)
      PROVE  ResolverInv'
  <2>1. PICK req \in Requests :
           LET r == [pc |-> "lookup", req |-> req, look |-> None, todo |-> <<>>,
                     ext |-> None, cards |-> <<>>, lost |-> FALSE, warm |-> Warm(req)]
           IN  task' = [task EXCEPT ![t] =
                  CASE req.op = "text"   -> Look(r, "search")
                    [] req.op = "card"   -> NextTitle([r EXCEPT !.todo = <<req.title>>])
                    [] req.op = "number" -> Look(r, "probe")]
    BY <1>2 DEF Start
  <2> DEFINE r == [pc |-> "lookup", req |-> req, look |-> None, todo |-> <<>>,
                   ext |-> None, cards |-> <<>>, lost |-> FALSE, warm |-> Warm(req)]
  <2>2. r \in Locals /\ r.req = req
    BY WarmBoolean DEF Locals
  <2> HIDE DEF r
  <2>3. PICK s : Ready(s) /\ task' = [task EXCEPT ![t] = s]
    <3>1. CASE req.op = "text"
      BY <2>1, <2>2, <3>1, StartReady DEF r
    <3>2. CASE req.op = "card"
      BY <2>1, <2>2, <3>2, StartReady DEF r
    <3>3. CASE req.op = "number"
      BY <2>1, <2>2, <3>3, StartReady DEF r
    <3>4. QED
      BY <3>1, <3>2, <3>3, RequestTyped
  <2>4. TasksReady'
    BY <2>3, OthersReady
  <2>5. QED
    BY <1>1, <1>2, <2>4 DEF Start
<1>3. ASSUME NEW t \in Tasks, Lookup(t)
      PROVE  ResolverInv'
  <2>1. Ready(task[t]) /\ task[t].pc = "lookup" /\ task[t] \in Locals
    BY <1>3, BusyReady DEF Lookup, Ready
  <2>2. CASE Usable(Key(task[t]))
    <3>1. Ready(After(task[t], store[Key(task[t])]))
      BY <2>1, <2>2, StoredAnswers, AfterReady
    <3>2. task' = [task EXCEPT ![t] = After(task[t], store[Key(task[t])])]
      BY <1>3, <2>2 DEF Lookup
    <3>3. QED
      BY <1>1, <1>3, <3>1, <3>2, OthersReady DEF Lookup
  <2>3. CASE ~Usable(Key(task[t]))
    <3>1. Ready([task[t] EXCEPT !.pc = "lease"])
      BY <2>1 DEF Ready, Locals, Coherent
    <3>2. task' = [task EXCEPT ![t] = [task[t] EXCEPT !.pc = "lease"]]
      BY <1>3, <2>3 DEF Lookup
    <3>3. QED
      BY <1>1, <1>3, <3>1, <3>2, OthersReady DEF Lookup
  <2>4. QED
    BY <2>2, <2>3
<1>4. ASSUME NEW t \in Tasks, Granted(t)
      PROVE  ResolverInv'
  <2>1. Ready(task[t]) /\ task[t].pc = "lease" /\ task[t] \in Locals
    BY <1>4, BusyReady DEF Granted, Ready
  <2>2. Ready([task[t] EXCEPT !.pc = "call"])
    BY <2>1 DEF Ready, Locals, Coherent
  <2>3. task' = [task EXCEPT ![t] = [task[t] EXCEPT !.pc = "call"]]
    BY <1>4 DEF Granted
  <2>4. QED
    BY <1>1, <1>4, <2>2, <2>3, OthersReady DEF Granted
<1>5. ASSUME NEW t \in Tasks, DeadlineExceeded(t) \/ Miss(t) \/ RateLimited(t)
      PROVE  ResolverInv'
  <2>1. Ready(task[t]) /\ task[t].pc # "answered"
    BY <1>5, BusyReady DEF DeadlineExceeded, Miss, RateLimited
  <2>2. Ready(AfterNothing(task[t]))
    BY <2>1, AfterNothingReady
  <2>3. task' = [task EXCEPT ![t] = AfterNothing(task[t])]
    BY <1>5 DEF DeadlineExceeded, Miss, RateLimited
  <2>4. UNCHANGED store /\ (UNCHANGED paused \/ paused' \in BOOLEAN)
    BY <1>5 DEF DeadlineExceeded, Miss, RateLimited
  <2>5. QED
    BY <1>1, <2>2, <2>3, <2>4, OthersReady
<1>6. ASSUME NEW t \in Tasks, Hit(t)
      PROVE  ResolverInv'
  <2>1. Ready(task[t]) /\ task[t].pc # "answered"
    BY <1>6, BusyReady DEF Hit
  <2>2. PICK answer \in Truths(task[t]) :
           /\ \/ store' = [store EXCEPT ![Key(task[t])] = Stored(task[t], answer)]
              \/ UNCHANGED store
           /\ task' = [task EXCEPT ![t] = After(task[t], answer)]
    BY <1>6 DEF Hit
  <2>3. Ready(After(task[t], answer))
    BY <2>1, TruthAnswers, AfterReady
  <2>4. TasksReady'
    BY <2>2, <2>3, OthersReady
  <2>5. CASE UNCHANGED store
    BY <1>1, <1>6, <2>4, <2>5 DEF Hit
  <2>6. CASE store' = [store EXCEPT ![Key(task[t])] = Stored(task[t], answer)]
    BY <1>6, <2>1, <2>4, <2>6, HitKeepsStore DEF Hit
  <2>7. QED
    BY <2>2, <2>5, <2>6
<1>7. ASSUME NEW t \in Tasks, Answer(t)
      PROVE  ResolverInv'
  <2>1. TasksReady'
    BY <1>7, OthersReady DEF Answer
  <2>2. QED
    BY <1>1, <1>7, <2>1 DEF Answer
<1>8. CASE Resume
  BY <1>1, <1>8 DEF Resume, TasksReady
<1>9. CASE Restart
  <2>1. TasksReady'
    BY <1>9 DEF Restart, TasksReady
  <2>2. DOMAIN store' = DOMAIN store /\ \A k \in DOMAIN store : store'[k] \in {store[k], None}
    BY <1>9 DEF Restart
  <2>3. \A k \in Details : store'[k] = store[k]
    BY <1>9 DEF Restart, StoreTyped, Details, InMemory, Redb
  <2>4. StoreTyped'
    BY <1>9, <2>2, <2>3 DEF Restart, StoreTyped
  <2>5. StoreHoldsAnswers'
    BY <2>2 DEF StoreHoldsAnswers
  <2>6. QED
    BY <1>9, <2>1, <2>3, <2>4, <2>5
<1>10. CASE UNCHANGED vars
  BY <1>1, <1>10 DEF vars, TasksReady
<1>11. QED
  BY <1>2, <1>3, <1>4, <1>5, <1>6, <1>7, <1>8, <1>9, <1>10 DEF Next, Progress

LEMMA ResolverInvAlways == Spec => []ResolverInv
<1>1. ResolverInv /\ [Next]_vars => ResolverInv'
  BY ResolverInvStep
<1>2. QED
  BY <1>1, ResolverInvAtStart, PTL DEF Spec

-----------------------------------------------------------------------------
(* The theorems                                                            *)

\* Every table holds its own payloads and every task its own locals.
THEOREM ResolverTypeCorrect == Spec => []TypeOK
<1>1. ResolverInv => TypeOK
  <2> SUFFICES ASSUME ResolverInv PROVE TypeOK
    OBVIOUS
  <2>1. ASSUME NEW k \in DOMAIN store, store[k] # None
        PROVE  /\ k[1] = "principal" => store[k] \in Seq(Titles)
               /\ k[1] = "extids" => store[k] \in Titles
               /\ k[1] \notin {"principal", "extids"} => store[k] \in {Full, Stale}
    <3>1. Answers(k, store[k]) /\ k \in Redb \cup InMemory
      BY <2>1, AnswersHold DEF ResolverInv, StoreTyped
    <3>2. CASE k \in {"principal"} \X Queries
      BY <3>1, <3>2, RankingTyped DEF Answers
    <3>3. CASE k \in {"extids"} \X Numbers
      BY <3>1, <3>3 DEF Answers
    <3>4. CASE k \in Details
      BY <2>1, <3>4 DEF ResolverInv, StoreTyped, Details
    <3>5. CASE k \in InMemory
      BY <3>1, <3>5 DEF Answers, InMemory
    <3>6. QED
      BY <3>1, <3>2, <3>3, <3>4, <3>5 DEF Redb
  <2>2. ASSUME NEW t \in Tasks, task[t] # Idle
        PROVE  /\ task[t].pc \in {"lookup", "lease", "call", "answered"}
               /\ task[t].req \in Requests
               /\ task[t].cards \in Seq(Cards)
    BY <2>2 DEF ResolverInv, TasksReady, Ready, Locals
  <2>3. QED
    BY <2>1, <2>2 DEF TypeOK, ResolverInv, StoreTyped
<1>2. QED
  BY <1>1, ResolverInvAlways, PTL

\* What is stored is an answer of TMDB's to a lookup of that key: no failure is
\* remembered, no list is cut, and details are only of a title that exists.  Of
\* external ids it claims the number, not the kind.
THEOREM StoreCorrect == Spec => []StoreHoldsAnswers
<1>1. ResolverInv => StoreHoldsAnswers
  BY DEF ResolverInv
<1>2. QED
  BY <1>1, ResolverInvAlways, PTL

-----------------------------------------------------------------------------
(* A warm request is free                                                  *)

AllWarm(todo) == \A i \in 1 .. Len(todo) : WarmTitle(todo[i])

\* What the next lookup of r reads is stored and settled, and so is everything it
\* may read after that.
WarmAhead(r) ==
    /\ r.look = "search" =>
          /\ Settled(<<"principal", r.req.query>>)
          /\ AllWarm(Take(Ranking[r.req.query], r.req.n))
    /\ r.look = "probe" =>
          /\ Settled(<<"tvdetails", r.req.id>>)
          /\ WarmTitle([kind |-> IF r.req.id \in Aired THEN "tv" ELSE "movie",
                        id |-> r.req.id])
    /\ r.look \in {"ext", "details", "genre"} => AllWarm(r.todo)
    /\ r.look = "genre" => Head(r.todo).kind = "movie"

\* A request that arrived warm only looks up, and never misses.
WarmTask(r) ==
    r.warm => r.pc \in {"lookup", "answered"} /\ (r.pc = "lookup" => WarmAhead(r))

WarmInv == \A t \in Tasks : task[t] # Idle => WarmTask(task[t])

\* An entry that answers and that nobody fetches keeps answering.
SettledStay == \A k \in Redb \cup InMemory : Settled(k) => Settled(k)'

Fetching(r) == r.pc \in {"lease", "call"}

\* An answered lookup leaves its task with another one, or with none.
LEMMA AfterFetching ==
    ASSUME NEW r \in Locals, NEW found
    PROVE  /\ ~Fetching(NextTitle(r)) /\ ~Fetching(Skip(r)) /\ ~Fetching(Add(r))
           /\ r.look \in Looks => ~Fetching(After(r, found))
           /\ r.look \in Looks => ~Fetching(AfterNothing(r))
<1>1. ASSUME NEW s \in Locals
      PROVE  ~Fetching(NextTitle(s)) /\ ~Fetching(Skip(s)) /\ ~Fetching(Add(s))
  BY DEF NextTitle, Skip, Add, Look, Locals, Fetching
<1> DEFINE With(s, w) == [s EXCEPT !.todo = w]
<1>2. ASSUME NEW s \in Locals, NEW w PROVE ~Fetching(NextTitle(With(s, w)))
  BY DEF NextTitle, Look, Locals, Fetching
<1>3. ASSUME NEW s \in Locals, s.look \in Looks, NEW answer
      PROVE  ~Fetching(After(s, answer))
  <2>1. CASE s.look = "search"
    <3>1. PICK w : AfterSearch(s, answer) = NextTitle(With(s, w))
      BY DEF AfterSearch
    <3> HIDE DEF With
    <3>2. QED
      BY <1>2, <2>1, <3>1 DEF After
  <2>2. CASE s.look = "probe"
    <3>1. PICK w : AfterProbe(s, answer) = NextTitle(With(s, w))
      BY DEF AfterProbe
    <3> HIDE DEF With
    <3>2. QED
      BY <1>2, <2>2, <3>1 DEF After
  <2>3. CASE s.look = "ext"
    BY <2>3 DEF After, AfterExt, Look, Locals, Fetching
  <2>4. CASE s.look = "details"
    <3>1. ~Fetching(Look(s, "genre"))
      BY DEF Look, Locals, Fetching
    <3>2. QED
      BY <1>1, <2>4, <3>1 DEF After, AfterDetails
  <2>5. CASE s.look = "genre"
    BY <1>1, <2>5 DEF After, AfterGenre
  <2>6. QED
    BY <1>3, <2>1, <2>2, <2>3, <2>4, <2>5 DEF Looks
<1>4. ASSUME r.look \in Looks PROVE ~Fetching(AfterNothing(r))
  <2> DEFINE more == r.lost \/ r.look \in {"search", "probe", "details"}
             s == [r EXCEPT !.lost = more]
  <2>1. more \in BOOLEAN
    OBVIOUS
  <2> HIDE DEF more
  <2>2. s \in Locals /\ s.look = r.look
    BY <2>1 DEF Locals
  <2>3. AfterNothing(r) = After(s, None)
    BY DEF AfterNothing, more
  <2> HIDE DEF s
  <2>4. QED
    BY <1>3, <1>4, <2>2, <2>3
<1>5. QED
  BY <1>1, <1>3, <1>4

\* It is enough that no task starts to fetch what is usable, and that an answer is
\* stored only where it was asked for.
LEMMA SettledByFetching ==
    ASSUME StoreTyped,
           \A t \in Tasks : Fetching(task'[t]) =>
              \/ Fetching(task[t]) /\ Key(task'[t]) = Key(task[t])
              \/ ~Usable(Key(task'[t])),
           \A k \in Redb \cup InMemory : store'[k] # store[k] =>
              /\ store'[k] # None
              /\ \E t \in Tasks : Fetching(task[t]) /\ Key(task[t]) = k
    PROVE  SettledStay
<1> SUFFICES ASSUME NEW k \in Redb \cup InMemory, Settled(k) PROVE Settled(k)'
  BY DEF SettledStay
<1>1. CASE k \in Details
  <2>1. store'[k] = store[k]
    BY <1>1 DEF Settled, Fetching
  <2>2. \A t \in Tasks : Fetching(task'[t]) => Key(task'[t]) # k
    BY <1>1 DEF Settled, Fetching
  <2>3. QED
    BY <1>1, <2>1, <2>2 DEF Settled, Usable, Fetching, Key, DetailsKey
<1>2. CASE k \notin Details
  BY <1>2 DEF Settled, Usable
<1>3. QED
  BY <1>1, <1>2

LEMMA SettledKept ==
    ASSUME ResolverInv, [Next]_vars
    PROVE  SettledStay \/ Restart
<1> USE DEF ResolverInv
<1>0. ASSUME NEW t \in Tasks, task[t].pc \in {"lookup", "lease", "call"}
      PROVE  task[t] \in Locals /\ task[t].look \in Looks
  BY <1>0, BusyReady DEF Ready, Coherent
<1>1. ASSUME UNCHANGED store, NEW t \in Tasks, NEW r, task' = [task EXCEPT ![t] = r],
             Fetching(r) => \/ Fetching(task[t]) /\ Key(r) = Key(task[t])
                            \/ ~Usable(Key(r))
      PROVE  SettledStay
  <2>1. \A u \in Tasks : task'[u] = IF u = t THEN r ELSE task[u]
    BY <1>1 DEF TasksReady
  <2>2. QED
    BY <1>1, <2>1, SettledByFetching
<1>2. ASSUME NEW t \in Tasks, Start(t) PROVE SettledStay
  <2>1. PICK req \in Requests :
           LET r == [pc |-> "lookup", req |-> req, look |-> None, todo |-> <<>>,
                     ext |-> None, cards |-> <<>>, lost |-> FALSE, warm |-> Warm(req)]
           IN  task' = [task EXCEPT ![t] =
                  CASE req.op = "text"   -> Look(r, "search")
                    [] req.op = "card"   -> NextTitle([r EXCEPT !.todo = <<req.title>>])
                    [] req.op = "number" -> Look(r, "probe")]
    BY <1>2 DEF Start
  <2> DEFINE r == [pc |-> "lookup", req |-> req, look |-> None, todo |-> <<>>,
                   ext |-> None, cards |-> <<>>, lost |-> FALSE, warm |-> Warm(req)]
             s == [r EXCEPT !.todo = <<req.title>>]
  <2>2. ~Fetching(Look(r, "search")) /\ ~Fetching(Look(r, "probe")) /\ ~Fetching(NextTitle(s))
    BY DEF Look, NextTitle, Fetching
  <2> HIDE DEF r, s
  <2>3. CASE req.op = "text"
    BY <1>1, <1>2, <2>1, <2>2, <2>3 DEF Start, r
  <2>4. CASE req.op = "card"
    BY <1>1, <1>2, <2>1, <2>2, <2>4 DEF Start, r, s
  <2>5. CASE req.op = "number"
    BY <1>1, <1>2, <2>1, <2>2, <2>5 DEF Start, r
  <2>6. QED
    BY <2>3, <2>4, <2>5, RequestTyped
<1>3. ASSUME NEW t \in Tasks, Lookup(t) PROVE SettledStay
  <2>1. task[t] \in Locals /\ task[t].look \in Looks
    BY <1>0, <1>3 DEF Lookup
  <2>2. CASE Usable(Key(task[t]))
    BY <1>1, <1>3, <2>1, <2>2, AfterFetching DEF Lookup
  <2>3. CASE ~Usable(Key(task[t]))
    <3>1. Key([task[t] EXCEPT !.pc = "lease"]) = Key(task[t])
      BY <2>1 DEF Locals, Key
    <3>2. QED
      BY <1>1, <1>3, <2>3, <3>1 DEF Lookup
  <2>4. QED
    BY <2>2, <2>3
<1>4. ASSUME NEW t \in Tasks, Granted(t) PROVE SettledStay
  <2>1. task[t] \in Locals /\ Fetching(task[t])
    BY <1>0, <1>4 DEF Granted, Fetching
  <2>2. Key([task[t] EXCEPT !.pc = "call"]) = Key(task[t])
    BY <2>1 DEF Locals, Key
  <2>3. QED
    BY <1>1, <1>4, <2>1, <2>2 DEF Granted
<1>5. ASSUME NEW t \in Tasks, DeadlineExceeded(t) \/ Miss(t) \/ RateLimited(t)
      PROVE  SettledStay
  <2>1. ~Fetching(AfterNothing(task[t]))
    BY <1>0, <1>5, AfterFetching DEF DeadlineExceeded, Miss, RateLimited
  <2>2. QED
    BY <1>1, <1>5, <2>1 DEF DeadlineExceeded, Miss, RateLimited
<1>6. ASSUME NEW t \in Tasks, Hit(t) PROVE SettledStay
  <2>1. Ready(task[t]) /\ task[t].pc # "answered" /\ Fetching(task[t])
    BY <1>6, BusyReady DEF Hit, Fetching
  <2>2. PICK answer \in Truths(task[t]) :
           /\ \/ store' = [store EXCEPT ![Key(task[t])] = Stored(task[t], answer)]
              \/ UNCHANGED store
           /\ task' = [task EXCEPT ![t] = After(task[t], answer)]
    BY <1>6 DEF Hit
  <2>3. ~Fetching(After(task[t], answer))
    BY <1>0, <1>6, AfterFetching DEF Hit
  <2>4. \A u \in Tasks : Fetching(task'[u]) => task'[u] = task[u]
    BY <2>2, <2>3 DEF TasksReady
  <2>5. answer # None
    BY <2>1, TruthAnswers
  <2>6. \A k \in Redb \cup InMemory :
           store'[k] # store[k] => store'[k] # None /\ Key(task[t]) = k
    BY <2>2, <2>5 DEF StoreTyped, Stored
  <2>7. QED
    BY <2>1, <2>4, <2>6, SettledByFetching
<1>7. ASSUME NEW t \in Tasks, Answer(t) PROVE SettledStay
  BY <1>1, <1>7 DEF Answer, Idle, Fetching
<1>8. CASE UNCHANGED <<store, task>>
  BY <1>8, SettledByFetching
<1>9. QED
  BY <1>2, <1>3, <1>4, <1>5, <1>6, <1>7, <1>8 DEF Next, Progress, Resume, vars

LEMMA WarmTitleStays ==
    ASSUME SettledStay, NEW x \in Named, WarmTitle(x)
    PROVE  WarmTitle(x)'
<1>1. /\ <<"extids", x.id>> \in Redb
      /\ DetailsKey(x) \in Redb
      /\ <<"genre_names", "movie">> \in InMemory
  BY DEF Redb, InMemory, Named, DetailsKey, Details
<1>2. Settled(<<"extids", x.id>>)' /\ Settled(DetailsKey(x))'
  BY <1>1 DEF WarmTitle, SettledStay
<1>3. x.kind = "movie" => Settled(<<"genre_names", "movie">>)'
  BY <1>1 DEF WarmTitle, SettledStay
<1>4. QED
  BY <1>2, <1>3 DEF WarmTitle

LEMMA AllWarmStays ==
    ASSUME SettledStay, NEW todo \in Seq(Named), AllWarm(todo)
    PROVE  AllWarm(todo)'
<1>1. ASSUME NEW i \in 1 .. Len(todo) PROVE WarmTitle(todo[i])'
  <2>1. todo[i] \in Named
    BY ElementOfSeq
  <2>2. QED
    BY <2>1, WarmTitleStays DEF AllWarm
<1>2. QED
  BY <1>1 DEF AllWarm

LEMMA WarmTaskStays ==
    ASSUME SettledStay, NEW r, Ready(r), WarmTask(r)
    PROVE  WarmTask(r)'
<1> SUFFICES ASSUME r.warm, r.pc = "lookup"
             PROVE  WarmAhead(r)'
  BY DEF WarmTask
<1>1. WarmAhead(r) /\ r \in Locals /\ Coherent(r)
  BY DEF WarmTask, Ready
<1>2. ASSUME r.look = "search"
      PROVE  Settled(<<"principal", r.req.query>>)' /\ AllWarm(Take(Ranking[r.req.query], r.req.n))'
  <2>1. r.req.query \in Queries /\ r.req.n \in Nat
    BY <1>1, <1>2, RequestTyped DEF Locals, Coherent
  <2>2. Take(Ranking[r.req.query], r.req.n) \in Seq(Named)
    BY <2>1, RankingTyped, TakeIsPrefix, TitlesSeqNamed
  <2>3. QED
    BY <1>1, <1>2, <2>1, <2>2, AllWarmStays DEF WarmAhead, Redb, SettledStay
<1>3. ASSUME r.look = "probe"
      PROVE  /\ Settled(<<"tvdetails", r.req.id>>)'
             /\ WarmTitle([kind |-> IF r.req.id \in Aired THEN "tv" ELSE "movie",
                           id |-> r.req.id])'
  <2>1. r.req.id \in Numbers
    BY <1>1, <1>3, RequestTyped DEF Locals, Coherent
  <2>2. [kind |-> IF r.req.id \in Aired THEN "tv" ELSE "movie", id |-> r.req.id] \in Named
    BY <2>1 DEF Named
  <2>3. QED
    BY <1>1, <1>3, <2>1, <2>2, WarmTitleStays
       DEF WarmAhead, Redb, Details, SettledStay
<1>4. r.look \in {"ext", "details", "genre"} => AllWarm(r.todo)'
  BY <1>1, AllWarmStays DEF WarmAhead, Locals
<1>5. QED
  BY <1>1, <1>2, <1>3, <1>4 DEF WarmAhead

\* The entry a warm request looks up is usable.
LEMMA WarmKeyUsable ==
    ASSUME NEW r, Ready(r), r.pc = "lookup", WarmAhead(r)
    PROVE  Usable(Key(r))
<1>1. ASSUME r.look \in {"ext", "details", "genre"}
      PROVE  WarmTitle(Head(r.todo))
  <2>1. r.todo \in Seq(Named) /\ r.todo # <<>>
    BY <1>1 DEF Ready, Coherent, Locals
  <2>2. 1 \in 1 .. Len(r.todo) /\ Head(r.todo) = r.todo[1]
    BY <2>1, EmptySeq
  <2>3. QED
    BY <1>1, <2>2 DEF WarmAhead, AllWarm
<1>2. CASE r.look = "search"
  BY <1>2 DEF WarmAhead, Key, Settled
<1>3. CASE r.look = "probe"
  BY <1>3 DEF WarmAhead, Key, Settled
<1>4. CASE r.look = "ext"
  BY <1>1, <1>4 DEF WarmTitle, Key, Settled
<1>5. CASE r.look = "details"
  BY <1>1, <1>5 DEF WarmTitle, Key, Settled
<1>6. CASE r.look = "genre"
  BY <1>1, <1>6 DEF WarmAhead, WarmTitle, Key, Settled
<1>7. QED
  BY <1>2, <1>3, <1>4, <1>5, <1>6 DEF Ready, Coherent, Looks

\* Going on to the next title keeps a warm request warm.
LEMMA NextTitleWarm ==
    ASSUME NEW r \in Locals, AllWarm(r.todo)
    PROVE  WarmTask(NextTitle(r))
<1>1. CASE r.todo = <<>>
  BY <1>1 DEF NextTitle, Look, WarmTask, Locals
<1>2. CASE r.todo # <<>>
  <2>1. NextTitle(r) = [r EXCEPT !.pc = "lookup", !.look = "ext"]
    BY <1>2 DEF NextTitle, Look
  <2>2. /\ NextTitle(r).todo = r.todo /\ NextTitle(r).pc = "lookup"
        /\ NextTitle(r).look = "ext"
    BY <2>1 DEF Locals
  <2>3. QED
    BY <2>2 DEF WarmTask, WarmAhead
<1>3. QED
  BY <1>1, <1>2

LEMMA SkipWarm ==
    ASSUME NEW r \in Locals, r.todo # <<>>, AllWarm(r.todo)
    PROVE  WarmTask(Skip(r))
<1> DEFINE s == [r EXCEPT !.todo = Tail(r.todo), !.ext = None]
<1>1. /\ Tail(r.todo) \in Seq(Named) /\ Len(Tail(r.todo)) = Len(r.todo) - 1
      /\ \A i \in 1 .. Len(Tail(r.todo)) : Tail(r.todo)[i] = r.todo[i + 1]
  BY HeadTailProperties DEF Locals
<1>2. s \in Locals /\ s.todo = Tail(r.todo)
  BY <1>1 DEF Locals
<1>3. AllWarm(Tail(r.todo))
  <2>1. ASSUME NEW i \in 1 .. Len(Tail(r.todo)) PROVE WarmTitle(Tail(r.todo)[i])
    <3>1. i + 1 \in 1 .. Len(r.todo)
      BY <1>1, LenProperties DEF Locals
    <3>2. QED
      BY <1>1, <3>1 DEF AllWarm
  <2>2. QED
    BY <2>1 DEF AllWarm
<1>4. Skip(r) = NextTitle(s)
  BY DEF Skip
<1> HIDE DEF s
<1>5. QED
  BY <1>2, <1>3, <1>4, NextTitleWarm

LEMMA AddWarm ==
    ASSUME NEW r \in Locals, r.todo # <<>>, AllWarm(r.todo)
    PROVE  WarmTask(Add(r))
<1> DEFINE card == [title |-> Head(r.todo), ids |-> r.ext]
           s == [r EXCEPT !.cards = Append(r.cards, card)]
<1>1. card \in Cards
  BY HeadTailProperties DEF Locals, Cards, Named
<1>2. Append(r.cards, card) \in Seq(Cards)
  BY <1>1, AppendProperties DEF Locals
<1>3. s \in Locals /\ s.todo = r.todo
  BY <1>2 DEF Locals
<1>4. Add(r) = Skip(s)
  BY DEF Add
<1> HIDE DEF s
<1>5. QED
  BY <1>3, <1>4, SkipWarm

\* The cached answer takes a warm request to its next lookup, warm.
LEMMA AfterWarm ==
    ASSUME StoreTyped, StoreHoldsAnswers, NEW r, Ready(r), r.pc = "lookup", WarmAhead(r)
    PROVE  WarmTask(After(r, store[Key(r)]))
<1> DEFINE found == store[Key(r)]
<1>1. r \in Locals /\ Coherent(r) /\ found # None
  BY WarmKeyUsable DEF Ready, Usable
<1>2. Answers(Key(r), found)
  BY <1>1, AnswersHold, KeyTyped DEF StoreTyped
<1>3. r.look \in {"ext", "details", "genre"} => r.todo # <<>> /\ AllWarm(r.todo)
  BY <1>1 DEF Coherent, WarmAhead
<1> HIDE DEF found
<1>4. CASE r.look = "search"
  <2> DEFINE titles == Take(Ranking[r.req.query], r.req.n)
  <2>1. found = Ranking[r.req.query] /\ AllWarm(titles)
    BY <1>2, <1>4, KeyTyped DEF Answers, WarmAhead
  <2>2. titles \in Seq(Named)
    BY <1>1, <1>4, RequestTyped, RankingTyped, TakeIsPrefix, TitlesSeqNamed
       DEF Coherent, Locals
  <2>3. After(r, found) = NextTitle([r EXCEPT !.todo = titles])
    BY <1>1, <1>4, <2>1 DEF After, AfterSearch
  <2> HIDE DEF titles
  <2>4. [r EXCEPT !.todo = titles] \in Locals /\ [r EXCEPT !.todo = titles].todo = titles
    BY <1>1, <2>2 DEF Locals
  <2>5. QED
    BY <2>1, <2>3, <2>4, NextTitleWarm DEF found
<1>5. CASE r.look = "probe"
  <2> DEFINE x == [kind |-> IF r.req.id \in Aired THEN "tv" ELSE "movie", id |-> r.req.id]
  <2>1. x \in Named /\ WarmTitle(x)
    BY <1>1, <1>5, RequestTyped DEF Coherent, Locals, Named, WarmAhead
  <2>2. After(r, found) = NextTitle([r EXCEPT !.todo = <<x>>])
    BY <1>1, <1>5 DEF After, AfterProbe
  <2> HIDE DEF x
  <2>3. AllWarm(<<x>>) /\ <<x>> \in Seq(Named)
    BY <2>1 DEF AllWarm
  <2>4. [r EXCEPT !.todo = <<x>>] \in Locals /\ [r EXCEPT !.todo = <<x>>].todo = <<x>>
    BY <1>1, <2>3 DEF Locals
  <2>5. QED
    BY <2>2, <2>3, <2>4, NextTitleWarm DEF found
<1>6. CASE r.look = "ext"
  <2>1. found \in Titles
    BY <1>2, <1>6, KeyTyped DEF Answers
  <2>2. After(r, found) = [[r EXCEPT !.ext = found] EXCEPT !.pc = "lookup", !.look = "details"]
    BY <1>6 DEF After, AfterExt, Look
  <2>3. /\ After(r, found).todo = r.todo /\ After(r, found).look = "details"
        /\ After(r, found).pc = "lookup"
    BY <1>1, <2>2 DEF Locals
  <2>4. QED
    BY <1>3, <1>6, <2>3 DEF WarmTask, WarmAhead, found
<1>7. CASE r.look = "details"
  <2>1. WarmTask(Skip(r)) /\ WarmTask(Add(r))
    BY <1>1, <1>3, <1>7, SkipWarm, AddWarm
  <2>2. ASSUME Head(r.todo).kind = "movie" PROVE WarmTask(Look(r, "genre"))
    <3>1. /\ Look(r, "genre").todo = r.todo /\ Look(r, "genre").look = "genre"
          /\ Look(r, "genre").pc = "lookup"
      BY <1>1 DEF Look, Locals
    <3>2. QED
      BY <1>3, <1>7, <2>2, <3>1 DEF WarmTask, WarmAhead
  <2>3. QED
    BY <1>7, <2>1, <2>2 DEF After, AfterDetails, found
<1>8. CASE r.look = "genre"
  BY <1>1, <1>3, <1>8, AddWarm DEF After, AfterGenre, found
<1>9. QED
  BY <1>1, <1>4, <1>5, <1>6, <1>7, <1>8 DEF Coherent, Looks

\* A request that arrives with everything it reads in store is warm.
LEMMA StartWarm ==
    ASSUME StoreTyped, StoreHoldsAnswers, NEW r \in Locals, r.warm = Warm(r.req)
    PROVE  /\ r.req.op = "text" => WarmTask(Look(r, "search"))
           /\ r.req.op = "card" => WarmTask(NextTitle([r EXCEPT !.todo = <<r.req.title>>]))
           /\ r.req.op = "number" => WarmTask(Look(r, "probe"))
<1> DEFINE req == r.req
<1>1. req \in Requests
  BY DEF Locals
<1>2. CASE r.req.op = "text"
  <2>1. req.query \in Queries /\ req.n \in Nat
    BY <1>1, <1>2, RequestTyped
  <2>2. ASSUME r.warm
        PROVE  /\ Settled(<<"principal", req.query>>)
               /\ AllWarm(Take(Ranking[req.query], req.n))
    <3>1. /\ Settled(<<"principal", req.query>>)
          /\ \A i \in 1 .. Len(Take(store[<<"principal", req.query>>], req.n)) :
                WarmTitle(store[<<"principal", req.query>>][i])
      BY <1>2, <2>2 DEF Warm
    <3>2. <<"principal", req.query>> \in DOMAIN store
      BY <2>1 DEF StoreTyped, Redb
    <3>3. Answers(<<"principal", req.query>>, store[<<"principal", req.query>>])
      BY <3>1, <3>2, AnswersHold DEF Settled, Usable
    <3>4. store[<<"principal", req.query>>] = Ranking[req.query]
      BY <3>3 DEF Answers
    <3>5. QED
      BY <2>1, <3>1, <3>4, RankingTyped, TakeIsPrefix DEF AllWarm
  <2>3. /\ Look(r, "search").req = req /\ Look(r, "search").look = "search"
        /\ Look(r, "search").pc = "lookup" /\ Look(r, "search").warm = r.warm
    BY DEF Look, Locals
  <2>4. QED
    BY <1>2, <2>2, <2>3 DEF WarmTask, WarmAhead
<1>3. CASE r.req.op = "card"
  <2> DEFINE s == [r EXCEPT !.todo = <<req.title>>]
  <2>1. req.title \in Named
    BY <1>1, <1>3, RequestTyped
  <2>2. s \in Locals /\ s.todo = <<req.title>> /\ s.warm = r.warm
    <3>1. <<req.title>> \in Seq(Named)
      BY <2>1
    <3>2. QED
      BY <3>1 DEF Locals
  <2>3. CASE r.warm
    <3>1. WarmTitle(req.title)
      BY <1>3, <2>3 DEF Warm
    <3>2. AllWarm(<<req.title>>)
      BY <3>1 DEF AllWarm
    <3>3. QED
      BY <1>3, <2>2, <3>2, NextTitleWarm
  <2>4. CASE ~r.warm
    <3>1. NextTitle(s).warm = s.warm
      BY <2>2 DEF NextTitle, Look, Locals
    <3>2. QED
      BY <1>3, <2>2, <2>4, <3>1 DEF WarmTask
  <2>5. QED
    BY <2>3, <2>4
<1>4. CASE r.req.op = "number"
  <2>1. ASSUME r.warm
        PROVE  /\ Settled(<<"tvdetails", req.id>>)
               /\ WarmTitle([kind |-> IF req.id \in Aired THEN "tv" ELSE "movie",
                             id |-> req.id])
    BY <1>4, <2>1 DEF Warm
  <2>2. /\ Look(r, "probe").req = req /\ Look(r, "probe").look = "probe"
        /\ Look(r, "probe").pc = "lookup" /\ Look(r, "probe").warm = r.warm
    BY DEF Look, Locals
  <2>3. QED
    BY <1>4, <2>1, <2>2 DEF WarmTask, WarmAhead
<1>5. QED
  BY <1>1, <1>2, <1>3, <1>4, RequestTyped

\* Nothing a lookup does changes whether its request arrived warm.
LEMMA WarmIsFixed ==
    ASSUME NEW r \in Locals, NEW found
    PROVE  /\ NextTitle(r).warm = r.warm /\ Skip(r).warm = r.warm /\ Add(r).warm = r.warm
           /\ r.look \in Looks => After(r, found).warm = r.warm
<1>1. /\ NextTitle(r).warm = r.warm /\ Skip(r).warm = r.warm /\ Add(r).warm = r.warm
  BY DEF NextTitle, Skip, Add, Look, Locals
<1> DEFINE With(w) == [r EXCEPT !.todo = w]
<1>a. ASSUME NEW w PROVE NextTitle(With(w)).warm = r.warm
  BY DEF NextTitle, Look, Locals
<1>2. CASE r.look = "search"
  <2>1. PICK w : AfterSearch(r, found) = NextTitle(With(w))
    BY DEF AfterSearch
  <2> HIDE DEF With
  <2>2. After(r, found).warm = r.warm
    BY <1>a, <1>2, <2>1 DEF After
  <2>3. QED
    BY <1>1, <2>2
<1>3. CASE r.look = "probe"
  <2>1. PICK w : AfterProbe(r, found) = NextTitle(With(w))
    BY DEF AfterProbe
  <2> HIDE DEF With
  <2>2. After(r, found).warm = r.warm
    BY <1>a, <1>3, <2>1 DEF After
  <2>3. QED
    BY <1>1, <2>2
<1>4. CASE r.look = "ext"
  BY <1>1, <1>4 DEF After, AfterExt, Look, Locals
<1>5. CASE r.look = "details"
  BY <1>1, <1>5 DEF After, AfterDetails, Look, Locals
<1>6. CASE r.look = "genre"
  BY <1>1, <1>6 DEF After, AfterGenre
<1>7. QED
  BY <1>1, <1>2, <1>3, <1>4, <1>5, <1>6 DEF Looks

\* With what is settled staying so, only the task that takes a step has to be shown warm.
LEMMA OthersWarm ==
    ASSUME SettledStay, TasksReady, WarmInv, NEW t \in Tasks, NEW s,
           task' = [task EXCEPT ![t] = s], s # Idle => WarmTask(s)'
    PROVE  WarmInv'
<1>1. ASSUME NEW u \in Tasks, NEW r, r = task'[u], r # Idle PROVE WarmTask(r)'
  <2>1. CASE u = t
    BY <1>1, <2>1 DEF TasksReady
  <2>2. CASE u # t
    <3>1. r = task[u]
      BY <1>1, <2>2 DEF TasksReady
    <3>2. Ready(r) /\ WarmTask(r)
      BY <1>1, <3>1 DEF TasksReady, WarmInv
    <3>3. QED
      BY <3>2, WarmTaskStays
  <2>3. QED
    BY <2>1, <2>2
<1>2. QED
  BY <1>1 DEF WarmInv

\* One step keeps every warm request warm.
LEMMA WarmInvStep ==
    ASSUME ResolverInv, WarmInv, [Next]_vars
    PROVE  WarmInv'
<1> USE DEF ResolverInv
<1>1. CASE Restart
  BY <1>1 DEF Restart, WarmInv
<1>2. SUFFICES ASSUME SettledStay PROVE WarmInv'
  BY <1>1, SettledKept
<1>3. ASSUME NEW t \in Tasks, Start(t)
      PROVE  WarmInv'
  <2>1. PICK req \in Requests :
           LET r == [pc |-> "lookup", req |-> req, look |-> None, todo |-> <<>>,
                     ext |-> None, cards |-> <<>>, lost |-> FALSE, warm |-> Warm(req)]
           IN  task' = [task EXCEPT ![t] =
                  CASE req.op = "text"   -> Look(r, "search")
                    [] req.op = "card"   -> NextTitle([r EXCEPT !.todo = <<req.title>>])
                    [] req.op = "number" -> Look(r, "probe")]
    BY <1>3 DEF Start
  <2> DEFINE r == [pc |-> "lookup", req |-> req, look |-> None, todo |-> <<>>,
                   ext |-> None, cards |-> <<>>, lost |-> FALSE, warm |-> Warm(req)]
  <2>2. r \in Locals /\ r.req = req /\ r.warm = Warm(r.req)
    BY WarmBoolean DEF Locals
  <2> HIDE DEF r
  <2>3. PICK s : Ready(s) /\ WarmTask(s) /\ task' = [task EXCEPT ![t] = s]
    <3>1. CASE req.op = "text"
      BY <2>1, <2>2, <3>1, StartReady, StartWarm DEF r
    <3>2. CASE req.op = "card"
      BY <2>1, <2>2, <3>2, StartReady, StartWarm DEF r
    <3>3. CASE req.op = "number"
      BY <2>1, <2>2, <3>3, StartReady, StartWarm DEF r
    <3>4. QED
      BY <3>1, <3>2, <3>3, RequestTyped
  <2>4. QED
    BY <1>2, <2>3, WarmTaskStays, OthersWarm
<1>4. ASSUME NEW t \in Tasks, Lookup(t)
      PROVE  WarmInv'
  <2>1. Ready(task[t]) /\ task[t].pc = "lookup" /\ WarmTask(task[t]) /\ task[t] # Idle
    BY <1>4, BusyReady DEF Lookup, WarmInv, Idle
  <2>2. task[t] \in Locals /\ task[t].look \in Looks
    BY <2>1 DEF Ready, Coherent
  <2>3. CASE Usable(Key(task[t]))
    <3>1. task' = [task EXCEPT ![t] = After(task[t], store[Key(task[t])])]
      BY <1>4, <2>3 DEF Lookup
    <3>2. WarmTask(After(task[t], store[Key(task[t])]))
      <4>1. CASE task[t].warm
        BY <2>1, <4>1, AfterWarm DEF WarmTask
      <4>2. CASE ~task[t].warm
        BY <2>2, <4>2, WarmIsFixed DEF WarmTask
      <4>3. QED
        BY <4>1, <4>2
    <3>3. Ready(After(task[t], store[Key(task[t])]))
      BY <2>1, <2>3, StoredAnswers, AfterReady
    <3>4. QED
      BY <1>2, <3>1, <3>2, <3>3, WarmTaskStays, OthersWarm
  <2>4. CASE ~Usable(Key(task[t]))
    <3>1. task' = [task EXCEPT ![t] = [task[t] EXCEPT !.pc = "lease"]]
      BY <1>4, <2>4 DEF Lookup
    <3>2. ~task[t].warm
      BY <2>1, <2>4, WarmKeyUsable DEF WarmTask
    <3>3. PICK s : s = [task[t] EXCEPT !.pc = "lease"]
      OBVIOUS
    <3>4. ~s.warm
      BY <2>2, <3>2, <3>3 DEF Locals
    <3>5. WarmTask(s)'
      BY <3>4 DEF WarmTask
    <3>6. QED
      BY <1>2, <3>1, <3>3, <3>5, OthersWarm
  <2>5. QED
    BY <2>3, <2>4
<1>5. ASSUME NEW t \in Tasks, task[t].pc \in {"lease", "call"}
      PROVE  /\ task[t] \in Locals /\ task[t].look \in Looks
             /\ ~task[t].warm /\ ~AfterNothing(task[t]).warm
  <2>1. Ready(task[t]) /\ WarmTask(task[t])
    BY <1>5, BusyReady DEF WarmInv, Idle
  <2>2. task[t] \in Locals /\ task[t].look \in Looks /\ ~task[t].warm
    BY <1>5, <2>1 DEF Ready, Coherent, WarmTask
  <2> DEFINE s == [task[t] EXCEPT !.lost =
                      task[t].lost \/ task[t].look \in {"search", "probe", "details"}]
  <2>3. s \in Locals /\ s.look \in Looks /\ ~s.warm
    BY <2>2 DEF Locals
  <2>4. AfterNothing(task[t]) = After(s, None)
    BY DEF AfterNothing
  <2> HIDE DEF s
  <2>5. QED
    BY <2>2, <2>3, <2>4, WarmIsFixed
<1>6. ASSUME NEW t \in Tasks, Granted(t)
      PROVE  WarmInv'
  <2>1. PICK s : s = [task[t] EXCEPT !.pc = "call"]
    OBVIOUS
  <2>2. ~s.warm
    BY <1>5, <1>6, <2>1 DEF Granted, Locals
  <2>3. task' = [task EXCEPT ![t] = s]
    BY <1>6, <2>1 DEF Granted
  <2>4. WarmTask(s)'
    BY <2>2 DEF WarmTask
  <2>5. QED
    BY <1>2, <2>3, <2>4, OthersWarm
<1>7. ASSUME NEW t \in Tasks, DeadlineExceeded(t) \/ Miss(t) \/ RateLimited(t)
      PROVE  WarmInv'
  <2>1. /\ task[t].pc \in {"lease", "call"}
        /\ task' = [task EXCEPT ![t] = AfterNothing(task[t])]
        /\ UNCHANGED store
    BY <1>7 DEF DeadlineExceeded, Miss, RateLimited
  <2>2. PICK s : s = AfterNothing(task[t])
    OBVIOUS
  <2>3. WarmTask(s)'
    BY <1>5, <2>1, <2>2 DEF WarmTask
  <2>4. QED
    BY <1>2, <2>1, <2>2, <2>3, OthersWarm
<1>8. ASSUME NEW t \in Tasks, Hit(t)
      PROVE  WarmInv'
  <2>1. PICK answer \in Truths(task[t]) : task' = [task EXCEPT ![t] = After(task[t], answer)]
    BY <1>8 DEF Hit
  <2>2. PICK s : s = After(task[t], answer)
    OBVIOUS
  <2>3. ~s.warm
    BY <1>5, <1>8, <2>2, WarmIsFixed DEF Hit
  <2>4. WarmTask(s)'
    BY <2>3 DEF WarmTask
  <2>5. QED
    BY <1>2, <2>1, <2>2, <2>4, OthersWarm
<1>9. ASSUME NEW t \in Tasks, Answer(t)
      PROVE  WarmInv'
  BY <1>2, <1>9, OthersWarm DEF Answer
<1>10. CASE UNCHANGED task
  <2>1. ASSUME NEW u \in Tasks, NEW r, r = task'[u], r # Idle PROVE WarmTask(r)'
    <3>1. Ready(r) /\ WarmTask(r)
      BY <1>10, <2>1 DEF WarmInv, TasksReady
    <3>2. QED
      BY <1>2, <3>1, WarmTaskStays
  <2>2. QED
    BY <2>1 DEF WarmInv
<1>11. QED
  BY <1>1, <1>3, <1>4, <1>6, <1>7, <1>8, <1>9, <1>10 DEF Next, Progress, Resume, vars

\* A request whose entries are all in store costs nothing, whatever the others do.
THEOREM WarmFree == Spec => []WarmIsFree
<1>1. Init => WarmInv
  BY DEF Init, WarmInv
<1>2. WarmInv => WarmIsFree
  BY DEF WarmInv, WarmIsFree, WarmTask
<1>3. ResolverInv /\ WarmInv /\ [Next]_vars => WarmInv'
  BY WarmInvStep
<1>4. QED
  BY <1>1, <1>2, <1>3, ResolverInvAlways, PTL DEF Spec
-----------------------------------------------------------------------------
(* Text answers                                                            *)

\* The titles a text request is after.
Wanted(req) == Take(Ranking[req.query], req.n)

\* Positions that go up, of cards among titles.
Places(at, cards, titles, done) ==
    /\ at \in [1 .. Len(cards) -> 1 .. done]
    /\ \A i, j \in 1 .. Len(cards) : i < j => at[i] < at[j]
    /\ \A i \in 1 .. Len(cards) : cards[i].title = titles[at[i]]

\* Those still to do are the last ones, the cards are of those that are done, in
\* their order, and of all of them unless a lookup went without an answer.
SliceOf(titles, todo, cards, lost) ==
    \E done \in 0 .. Len(titles) :
        /\ Len(todo) = Len(titles) - done
        /\ \A i \in 1 .. Len(todo) : todo[i] = titles[done + i]
        /\ \E at : Places(at, cards, titles, done)
        /\ ~lost => /\ Len(cards) = done
                    /\ \A i \in 1 .. done : cards[i].title = titles[i]

\* A text request that is being searched for has no cards yet, and a slice from
\* then on.
TextTask(r) ==
    r.req.op = "text" =>
        IF r.look = "search" /\ r.pc # "answered" THEN r.cards = <<>>
        ELSE /\ SliceOf(Wanted(r.req), r.todo, r.cards, r.lost)
             /\ r.pc = "answered" => r.todo = <<>>

TextInv == \A t \in Tasks : task[t] # Idle => TextTask(task[t])

LEMMA WantedTyped ==
    ASSUME NEW req \in Requests, req.op = "text"
    PROVE  Wanted(req) \in Seq(Named)
<1>1. req.query \in Queries /\ req.n \in Nat
  BY RequestTyped
<1>2. QED
  BY <1>1, RankingTyped, TakeIsPrefix, TitlesSeqNamed DEF Wanted

\* Everything is to do at first.
LEMMA SliceAtStart ==
    ASSUME NEW titles \in Seq(Named), NEW lost
    PROVE  SliceOf(titles, titles, <<>>, lost)
<1>1. Len(titles) \in Nat /\ Len(<<>>) = 0
  BY LenProperties
<1>2. PICK done \in 0 .. Len(titles) : done = 0
  BY <1>1
<1>3. Places(<<>>, <<>>, titles, done)
  BY <1>1, <1>2 DEF Places
<1>4. /\ Len(titles) = Len(titles) - done
      /\ \A i \in 1 .. Len(titles) : titles[i] = titles[done + i]
  BY <1>1, <1>2
<1>5. /\ Len(<<>>) = done
      /\ \A i \in 1 .. done : <<>>[i].title = titles[i]
  BY <1>1, <1>2
<1>6. QED
  BY <1>3, <1>4, <1>5 DEF SliceOf

\* A search left without an answer leaves nothing to do.
LEMMA SliceOfNothing ==
    ASSUME NEW titles \in Seq(Named)
    PROVE  SliceOf(titles, <<>>, <<>>, TRUE)
<1> DEFINE done == Len(titles)
<1>1. Len(titles) \in Nat /\ Len(<<>>) = 0
  BY LenProperties
<1>2. Places(<<>>, <<>>, titles, done)
  BY <1>1 DEF Places
<1>3. done \in 0 .. Len(titles) /\ 0 = Len(titles) - done
  BY <1>1
<1>4. QED
  BY <1>1, <1>2, <1>3 DEF SliceOf

LEMMA SliceLost ==
    ASSUME NEW titles, NEW todo, NEW cards, NEW lost, SliceOf(titles, todo, cards, lost)
    PROVE  SliceOf(titles, todo, cards, TRUE)
BY DEF SliceOf

\* A position that stays good when one more title is done.
LEMMA PlacesStay ==
    ASSUME NEW at, NEW cards \in Seq(Cards), NEW titles, NEW done \in Nat,
           Places(at, cards, titles, done)
    PROVE  Places(at, cards, titles, done + 1)
<1>1. 1 .. done \subseteq 1 .. (done + 1)
  OBVIOUS
<1>2. QED
  BY <1>1 DEF Places

\* The next title is passed over.
LEMMA SliceSkip ==
    ASSUME NEW titles \in Seq(Named), NEW todo \in Seq(Named), todo # <<>>,
           NEW cards \in Seq(Cards), SliceOf(titles, todo, cards, TRUE)
    PROVE  SliceOf(titles, Tail(todo), cards, TRUE)
<1>1. /\ Len(Tail(todo)) = Len(todo) - 1
      /\ \A i \in 1 .. Len(Tail(todo)) : Tail(todo)[i] = todo[i + 1]
  BY HeadTailProperties
<1>2. Len(titles) \in Nat /\ Len(todo) \in Nat /\ Len(todo) > 0
  BY LenProperties, EmptySeq
<1>3. PICK done \in 0 .. Len(titles) :
         /\ Len(todo) = Len(titles) - done
         /\ \A i \in 1 .. Len(todo) : todo[i] = titles[done + i]
         /\ \E at : Places(at, cards, titles, done)
  BY DEF SliceOf
<1>4. PICK at : Places(at, cards, titles, done)
  BY <1>3
<1>5. Places(at, cards, titles, done + 1)
  BY <1>2, <1>4, PlacesStay
<1>6. done + 1 \in 0 .. Len(titles) /\ Len(Tail(todo)) = Len(titles) - (done + 1)
  BY <1>1, <1>2, <1>3
<1>7. ASSUME NEW i \in 1 .. Len(Tail(todo)) PROVE Tail(todo)[i] = titles[(done + 1) + i]
  <2>1. i \in Int /\ 1 <= i /\ i <= Len(todo) - 1 /\ done \in Int
    BY <1>1, <1>2
  <2>2. i + 1 \in 1 .. Len(todo) /\ done + (i + 1) = (done + 1) + i
    BY <1>2, <2>1
  <2>3. QED
    BY <1>1, <1>3, <2>2
<1>8. QED
  BY <1>5, <1>6, <1>7 DEF SliceOf

\* The next title gets its card.
LEMMA SliceAdd ==
    ASSUME NEW titles \in Seq(Named), NEW todo \in Seq(Named), todo # <<>>,
           NEW cards \in Seq(Cards), NEW card \in Cards, card.title = Head(todo),
           NEW lost, SliceOf(titles, todo, cards, lost)
    PROVE  SliceOf(titles, Tail(todo), Append(cards, card), lost)
<1> DEFINE more == Append(cards, card)
           n == Len(cards)
<1>1. /\ Len(Tail(todo)) = Len(todo) - 1
      /\ \A i \in 1 .. Len(Tail(todo)) : Tail(todo)[i] = todo[i + 1]
      /\ Head(todo) = todo[1]
  BY HeadTailProperties
<1>2. /\ Len(titles) \in Nat /\ Len(todo) \in Nat /\ Len(todo) > 0 /\ n \in Nat
  BY LenProperties, EmptySeq
<1>3. PICK done \in 0 .. Len(titles) :
         /\ Len(todo) = Len(titles) - done
         /\ \A i \in 1 .. Len(todo) : todo[i] = titles[done + i]
         /\ \E at : Places(at, cards, titles, done)
         /\ ~lost => n = done /\ \A i \in 1 .. done : cards[i].title = titles[i]
  BY DEF SliceOf
<1>4. PICK at : Places(at, cards, titles, done)
  BY <1>3
<1>5. /\ Len(more) = n + 1 /\ more[n + 1] = card
      /\ \A i \in 1 .. n : more[i] = cards[i]
  BY AppendProperties, <1>2
<1>6. done + 1 \in 0 .. Len(titles) /\ Len(Tail(todo)) = Len(titles) - (done + 1)
  BY <1>1, <1>2, <1>3
<1>7. ASSUME NEW i \in 1 .. Len(Tail(todo)) PROVE Tail(todo)[i] = titles[(done + 1) + i]
  <2>1. i \in Int /\ 1 <= i /\ i <= Len(todo) - 1 /\ done \in Int
    BY <1>1, <1>2
  <2>2. i + 1 \in 1 .. Len(todo) /\ done + (i + 1) = (done + 1) + i
    BY <1>2, <2>1
  <2>3. QED
    BY <1>1, <1>3, <2>2
<1>8. card.title = titles[done + 1]
  <2>1. 1 \in 1 .. Len(todo)
    BY <1>2
  <2>2. QED
    BY <1>1, <1>3, <2>1
<1> HIDE DEF more, n
<1>9. \E where : Places(where, more, titles, done + 1)
  <2> DEFINE where == [i \in 1 .. (n + 1) |-> IF i = n + 1 THEN done + 1 ELSE at[i]]
  <2>1. /\ at \in [1 .. n -> 1 .. done]
        /\ \A i, j \in 1 .. n : i < j => at[i] < at[j]
        /\ \A i \in 1 .. n : cards[i].title = titles[at[i]]
    BY <1>4 DEF Places, n
  <2>2. /\ where[n + 1] = done + 1 /\ \A i \in 1 .. n : where[i] = at[i]
        /\ DOMAIN where = 1 .. (n + 1)
    BY <1>2
  <2>3. \A i \in 1 .. (n + 1) : i = n + 1 \/ i \in 1 .. n
    BY <1>2
  <2>4. \A i \in 1 .. n : at[i] \in 1 .. done /\ at[i] < done + 1
    BY <2>1, <1>3
  <2>5. where \in [1 .. (n + 1) -> 1 .. (done + 1)]
    <3>1. \A i \in 1 .. (n + 1) : where[i] \in 1 .. (done + 1)
      BY <1>3, <2>2, <2>3, <2>4
    <3>2. QED
      BY <3>1
  <2> HIDE DEF where
  <2>6. ASSUME NEW i \in 1 .. (n + 1), NEW j \in 1 .. (n + 1), i < j
        PROVE  where[i] < where[j]
    <3>1. i \in 1 .. n
      BY <1>2, <2>6
    <3>2. CASE j = n + 1
      BY <2>2, <2>4, <3>1, <3>2
    <3>3. CASE j \in 1 .. n
      BY <2>1, <2>2, <2>6, <3>1, <3>3
    <3>4. QED
      BY <2>3, <3>2, <3>3
  <2>7. ASSUME NEW i \in 1 .. (n + 1)
        PROVE  more[i].title = titles[where[i]]
    <3>1. CASE i = n + 1
      BY <1>5, <1>8, <2>2, <3>1
    <3>2. CASE i \in 1 .. n
      BY <1>5, <2>1, <2>2, <3>2
    <3>3. QED
      BY <2>3, <3>1, <3>2
  <2>8. QED
    BY <1>5, <2>5, <2>6, <2>7 DEF Places
<1>10. ASSUME ~lost
       PROVE  Len(more) = done + 1 /\ \A i \in 1 .. (done + 1) : more[i].title = titles[i]
  <2>1. n = done /\ \A i \in 1 .. done : cards[i].title = titles[i]
    BY <1>3, <1>10
  <2>2. ASSUME NEW i \in 1 .. (done + 1) PROVE more[i].title = titles[i]
    <3>1. CASE i = done + 1
      BY <1>5, <1>8, <2>1, <3>1
    <3>2. CASE i # done + 1
      <4>1. i \in 1 .. done
        BY <1>3, <3>2
      <4>2. QED
        BY <1>5, <2>1, <4>1
    <3>3. QED
      BY <3>1, <3>2
  <2>3. QED
    BY <1>5, <2>1, <2>2
<1>11. QED
  BY <1>6, <1>7, <1>9, <1>10 DEF SliceOf, more

\* Going on to the next title, or to the answer, keeps the slice.
LEMMA NextTitleText ==
    ASSUME NEW r \in Locals,
           r.req.op = "text" => SliceOf(Wanted(r.req), r.todo, r.cards, r.lost)
    PROVE  TextTask(NextTitle(r))
<1>1. /\ NextTitle(r).req = r.req /\ NextTitle(r).todo = r.todo
      /\ NextTitle(r).cards = r.cards /\ NextTitle(r).lost = r.lost
      /\ NextTitle(r).look # "search" \/ NextTitle(r).pc = "answered"
      /\ NextTitle(r).pc = "answered" => r.todo = <<>>
  BY DEF NextTitle, Look, Locals
<1>2. QED
  BY <1>1 DEF TextTask

LEMMA SkipText ==
    ASSUME NEW r \in Locals, r.todo # <<>>, r.lost,
           r.req.op = "text" => SliceOf(Wanted(r.req), r.todo, r.cards, r.lost)
    PROVE  TextTask(Skip(r))
<1> DEFINE s == [r EXCEPT !.todo = Tail(r.todo), !.ext = None]
<1>1. Tail(r.todo) \in Seq(Named)
  BY HeadTailProperties DEF Locals
<1>2. /\ s \in Locals /\ s.todo = Tail(r.todo) /\ s.req = r.req
      /\ s.cards = r.cards /\ s.lost = TRUE
  BY <1>1 DEF Locals
<1>3. r.req.op = "text" => SliceOf(Wanted(r.req), Tail(r.todo), r.cards, TRUE)
  BY WantedTyped, SliceLost, SliceSkip DEF Locals
<1>4. Skip(r) = NextTitle(s)
  BY DEF Skip
<1> HIDE DEF s
<1>5. QED
  BY <1>2, <1>3, <1>4, NextTitleText

LEMMA AddText ==
    ASSUME NEW r \in Locals, r.todo # <<>>,
           r.req.op = "text" => SliceOf(Wanted(r.req), r.todo, r.cards, r.lost)
    PROVE  TextTask(Add(r))
<1> DEFINE card == [title |-> Head(r.todo), ids |-> r.ext]
           more == Append(r.cards, card)
           a == [r EXCEPT !.cards = more]
           s == [a EXCEPT !.todo = Tail(a.todo), !.ext = None]
<1>1. card \in Cards /\ card.title = Head(r.todo) /\ Tail(r.todo) \in Seq(Named)
  BY HeadTailProperties DEF Locals, Cards, Named
<1>2. more \in Seq(Cards)
  BY <1>1, AppendProperties DEF Locals
<1>3. r.req.op = "text" => SliceOf(Wanted(r.req), Tail(r.todo), more, r.lost)
  BY <1>1, WantedTyped, SliceAdd DEF Locals
<1>4. Add(r) = Skip(a) /\ Skip(a) = NextTitle(s)
  BY DEF Add, Skip
<1> HIDE DEF more
<1>5. /\ a \in Locals /\ a.todo = r.todo /\ a.req = r.req
      /\ a.cards = more /\ a.lost = r.lost
  BY <1>2 DEF Locals
<1> HIDE DEF a
<1>6. /\ s \in Locals /\ s.todo = Tail(r.todo) /\ s.req = r.req
      /\ s.cards = more /\ s.lost = r.lost
  BY <1>1, <1>5 DEF Locals
<1> HIDE DEF s
<1>7. QED
  BY <1>3, <1>4, <1>6, NextTitleText

\* An answer a text request may be given: the whole ranked list, or nothing where
\* that is remembered as lost.
Truthful(r, found) ==
    /\ r.look = "search" =>
          (found = Ranking[r.req.query] /\ found # None) \/ (found = None /\ r.lost)
    /\ r.look = "details" => found # None \/ r.lost

LEMMA AfterText ==
    ASSUME NEW r, Ready(r), r.pc # "answered", TextTask(r), NEW found, Truthful(r, found),
           Answerable(r, found)
    PROVE  TextTask(After(r, found))
<1>1. r \in Locals /\ Coherent(r)
  BY DEF Ready
<1>2. CASE r.look = "search"
  <2> DEFINE titles == IF found = None THEN <<>> ELSE Take(found, r.req.n)
             s == [r EXCEPT !.todo = titles]
  <2>1. r.req.op = "text" /\ r.req \in Requests /\ r.cards = <<>>
    BY <1>1, <1>2 DEF Locals, Coherent, TextTask
  <2>2. Wanted(r.req) \in Seq(Named)
    BY <2>1, WantedTyped
  <2>3. titles \in Seq(Named) /\ SliceOf(Wanted(r.req), titles, r.cards, r.lost)
    <3>1. CASE found = None
      <4>1. r.lost /\ r.lost \in BOOLEAN
        BY <1>1, <1>2, <3>1 DEF Truthful, Locals
      <4>2. r.lost = TRUE
        BY <4>1
      <4>3. titles = <<>> /\ <<>> \in Seq(Named)
        BY <3>1
      <4> HIDE DEF titles
      <4>4. QED
        BY <2>1, <2>2, <4>2, <4>3, SliceOfNothing
    <3>2. CASE found # None
      <4>1. titles = Wanted(r.req)
        BY <1>2, <3>2 DEF Truthful, Wanted
      <4> HIDE DEF titles
      <4>2. QED
        BY <2>1, <2>2, <4>1, SliceAtStart
    <3>3. QED
      BY <3>1, <3>2
  <2>4. After(r, found) = NextTitle(s)
    BY <1>2 DEF After, AfterSearch
  <2> HIDE DEF titles
  <2>5. /\ s \in Locals /\ s.todo = titles /\ s.req = r.req /\ s.cards = r.cards
        /\ s.lost = r.lost
    BY <1>1, <2>3 DEF Locals
  <2> HIDE DEF s
  <2>6. QED
    BY <2>3, <2>4, <2>5, NextTitleText
<1>3. r.look # "search" /\ r.req.op = "text" =>
         SliceOf(Wanted(r.req), r.todo, r.cards, r.lost)
  BY DEF TextTask
<1>4. CASE r.look = "probe"
  <2> DEFINE title == [kind |-> IF found # None /\ r.req.id \in Aired THEN "tv" ELSE "movie",
                       id |-> r.req.id]
             s == [r EXCEPT !.todo = <<title>>]
  <2>1. r.req.op = "number" /\ title \in Named
    BY <1>1, <1>4, RequestTyped DEF Locals, Coherent, Named
  <2>2. After(r, found) = NextTitle(s)
    BY <1>4 DEF After, AfterProbe
  <2> HIDE DEF title
  <2>3. <<title>> \in Seq(Named)
    BY <2>1
  <2>4. s \in Locals /\ s.req = r.req
    BY <1>1, <2>3 DEF Locals
  <2> HIDE DEF s
  <2>5. QED
    BY <2>1, <2>2, <2>4, NextTitleText
<1>5. CASE r.look = "ext"
  <2>1. After(r, found) = [[r EXCEPT !.ext = found] EXCEPT !.pc = "lookup", !.look = "details"]
    BY <1>5 DEF After, AfterExt, Look
  <2>2. /\ After(r, found).req = r.req /\ After(r, found).todo = r.todo
        /\ After(r, found).cards = r.cards /\ After(r, found).lost = r.lost
        /\ After(r, found).look = "details" /\ After(r, found).pc = "lookup"
    BY <1>1, <2>1 DEF Locals
  <2>3. QED
    BY <1>3, <1>5, <2>2 DEF TextTask
<1>6. CASE r.look = "details"
  <2>1. r.todo # <<>>
    BY <1>1, <1>6 DEF Coherent
  <2>2. CASE found = None
    <3>1. r.lost
      BY <1>6, <2>2 DEF Truthful
    <3>2. After(r, found) = Skip(r)
      BY <1>6, <2>2 DEF After, AfterDetails
    <3>3. QED
      BY <1>1, <1>3, <1>6, <2>1, <3>1, <3>2, SkipText
  <2>3. CASE found # None /\ Head(r.todo).kind = "movie"
    <3>1. After(r, found) = [r EXCEPT !.pc = "lookup", !.look = "genre"]
      BY <1>6, <2>3 DEF After, AfterDetails, Look
    <3>2. /\ After(r, found).req = r.req /\ After(r, found).todo = r.todo
          /\ After(r, found).cards = r.cards /\ After(r, found).lost = r.lost
          /\ After(r, found).look = "genre" /\ After(r, found).pc = "lookup"
      BY <1>1, <3>1 DEF Locals
    <3>3. QED
      BY <1>3, <1>6, <3>2 DEF TextTask
  <2>4. CASE found # None /\ Head(r.todo).kind # "movie"
    <3>1. After(r, found) = Add(r)
      BY <1>6, <2>4 DEF After, AfterDetails
    <3>2. QED
      BY <1>1, <1>3, <1>6, <2>1, <3>1, AddText
  <2>5. QED
    BY <2>2, <2>3, <2>4
<1>7. CASE r.look = "genre"
  <2>1. After(r, found) = Add(r) /\ r.todo # <<>>
    BY <1>1, <1>7 DEF After, AfterGenre, Coherent
  <2>2. QED
    BY <1>1, <1>3, <1>7, <2>1, AddText
<1>8. QED
  BY <1>1, <1>2, <1>4, <1>5, <1>6, <1>7 DEF Coherent, Looks

LEMMA AfterNothingText ==
    ASSUME NEW r, Ready(r), r.pc # "answered", TextTask(r)
    PROVE  TextTask(AfterNothing(r))
<1> DEFINE more == r.lost \/ r.look \in {"search", "probe", "details"}
           s == [r EXCEPT !.lost = more]
<1>1. r \in Locals /\ more \in BOOLEAN /\ (r.look \in {"search", "details"} => more)
  BY DEF Ready
<1>2. more = r.lost \/ more = TRUE
  BY <1>1 DEF Locals
<1>3. AfterNothing(r) = After(s, None)
  BY DEF AfterNothing
<1> HIDE DEF more
<1>4. /\ s \in Locals /\ s.pc = r.pc /\ s.req = r.req /\ s.look = r.look
      /\ s.todo = r.todo /\ s.cards = r.cards /\ s.lost = more
  BY <1>1 DEF Locals
<1> HIDE DEF s
<1>5. Ready(s) /\ Truthful(s, None) /\ Answerable(s, None)
  BY <1>1, <1>4 DEF Ready, Coherent, Truthful, Answerable
<1>6. TextTask(s)
  BY <1>2, <1>4, SliceLost DEF TextTask
<1>7. QED
  BY <1>3, <1>4, <1>5, <1>6, AfterText

\* A text request starts with its search and without cards.
LEMMA StartText ==
    ASSUME NEW r \in Locals, r.cards = <<>>
    PROVE  /\ r.req.op = "text" => TextTask(Look(r, "search"))
           /\ r.req.op = "card" => TextTask(NextTitle([r EXCEPT !.todo = <<r.req.title>>]))
           /\ r.req.op = "number" => TextTask(Look(r, "probe"))
<1>1. /\ Look(r, "search").req = r.req /\ Look(r, "search").look = "search"
      /\ Look(r, "search").pc = "lookup" /\ Look(r, "search").cards = r.cards
      /\ Look(r, "probe").req = r.req
  BY DEF Look, Locals
<1>2. CASE r.req.op = "card"
  <2> DEFINE s == [r EXCEPT !.todo = <<r.req.title>>]
  <2>1. r.req.title \in Named
    BY <1>2, RequestTyped DEF Locals
  <2>2. <<r.req.title>> \in Seq(Named)
    BY <2>1
  <2>3. s \in Locals /\ s.req = r.req
    BY <2>2 DEF Locals
  <2> HIDE DEF s
  <2>4. TextTask(NextTitle(s))
    BY <1>2, <2>3, NextTitleText
  <2>5. QED
    BY <1>2, <2>4 DEF s
<1>3. CASE r.req.op # "card"
  BY <1>1, <1>3 DEF TextTask
<1>4. QED
  BY <1>2, <1>3

\* What is stored for a text request is what TMDB ranks.
LEMMA StoredTruthful ==
    ASSUME StoreTyped, StoreHoldsAnswers, NEW r, Ready(r), r.pc # "answered", Usable(Key(r))
    PROVE  Truthful(r, store[Key(r)])
<1>1. Answers(Key(r), store[Key(r)]) /\ store[Key(r)] # None
  BY AnswersHold, KeyTyped DEF StoreTyped, Usable
<1>2. CASE r.look = "search"
  BY <1>1, <1>2, KeyTyped DEF Answers, Truthful
<1>3. CASE r.look # "search"
  BY <1>1, <1>3 DEF Truthful
<1>4. QED
  BY <1>2, <1>3

LEMMA OthersText ==
    ASSUME TasksReady, TextInv, NEW t \in Tasks, NEW r,
           task' = [task EXCEPT ![t] = r], r # Idle => TextTask(r)
    PROVE  TextInv'
<1>1. ASSUME NEW u \in Tasks, task'[u] # Idle PROVE TextTask(task'[u])
  BY <1>1 DEF TasksReady, TextInv
<1>2. QED
  BY <1>1 DEF TextInv, TextTask

\* One step keeps every text request's slice.
LEMMA TextInvStep ==
    ASSUME ResolverInv, TextInv, [Next]_vars
    PROVE  TextInv'
<1> USE DEF ResolverInv
<1>0. ASSUME NEW t \in Tasks, task[t].pc \in {"lookup", "lease", "call"}
      PROVE  Ready(task[t]) /\ task[t].pc # "answered" /\ TextTask(task[t])
  BY <1>0, BusyReady DEF TextInv, Idle
<1>1. ASSUME NEW t \in Tasks, Start(t)
      PROVE  TextInv'
  <2>1. PICK req \in Requests :
           LET r == [pc |-> "lookup", req |-> req, look |-> None, todo |-> <<>>,
                     ext |-> None, cards |-> <<>>, lost |-> FALSE, warm |-> Warm(req)]
           IN  task' = [task EXCEPT ![t] =
                  CASE req.op = "text"   -> Look(r, "search")
                    [] req.op = "card"   -> NextTitle([r EXCEPT !.todo = <<req.title>>])
                    [] req.op = "number" -> Look(r, "probe")]
    BY <1>1 DEF Start
  <2> DEFINE r == [pc |-> "lookup", req |-> req, look |-> None, todo |-> <<>>,
                   ext |-> None, cards |-> <<>>, lost |-> FALSE, warm |-> Warm(req)]
  <2>2. r \in Locals /\ r.req = req /\ r.cards = <<>>
    BY WarmBoolean DEF Locals
  <2> HIDE DEF r
  <2>3. PICK s : TextTask(s) /\ task' = [task EXCEPT ![t] = s]
    <3>1. CASE req.op = "text"
      BY <2>1, <2>2, <3>1, StartText DEF r
    <3>2. CASE req.op = "card"
      BY <2>1, <2>2, <3>2, StartText DEF r
    <3>3. CASE req.op = "number"
      BY <2>1, <2>2, <3>3, StartText DEF r
    <3>4. QED
      BY <3>1, <3>2, <3>3, RequestTyped
  <2>4. QED
    BY <2>3, OthersText
<1>2. ASSUME NEW t \in Tasks, Lookup(t)
      PROVE  TextInv'
  <2>1. Ready(task[t]) /\ task[t].pc # "answered" /\ TextTask(task[t])
    BY <1>0, <1>2 DEF Lookup
  <2>2. CASE Usable(Key(task[t]))
    <3>1. task' = [task EXCEPT ![t] = After(task[t], store[Key(task[t])])]
      BY <1>2, <2>2 DEF Lookup
    <3>2. TextTask(After(task[t], store[Key(task[t])]))
      BY <2>1, <2>2, StoredAnswers, StoredTruthful, AfterText
    <3>3. QED
      BY <3>1, <3>2, OthersText
  <2>3. CASE ~Usable(Key(task[t]))
    <3>1. task' = [task EXCEPT ![t] = [task[t] EXCEPT !.pc = "lease"]]
      BY <1>2, <2>3 DEF Lookup
    <3>2. TextTask([task[t] EXCEPT !.pc = "lease"])
      BY <2>1 DEF TextTask, Ready, Locals
    <3>3. QED
      BY <3>1, <3>2, OthersText
  <2>4. QED
    BY <2>2, <2>3
<1>3. ASSUME NEW t \in Tasks, Granted(t)
      PROVE  TextInv'
  <2>1. task' = [task EXCEPT ![t] = [task[t] EXCEPT !.pc = "call"]]
    BY <1>3 DEF Granted
  <2>2. TextTask([task[t] EXCEPT !.pc = "call"])
    BY <1>0, <1>3 DEF Granted, TextTask, Ready, Locals
  <2>3. QED
    BY <2>1, <2>2, OthersText
<1>4. ASSUME NEW t \in Tasks, DeadlineExceeded(t) \/ Miss(t) \/ RateLimited(t)
      PROVE  TextInv'
  <2>1. /\ task[t].pc \in {"lease", "call"}
        /\ task' = [task EXCEPT ![t] = AfterNothing(task[t])]
    BY <1>4 DEF DeadlineExceeded, Miss, RateLimited
  <2>2. TextTask(AfterNothing(task[t]))
    BY <1>0, <2>1, AfterNothingText
  <2>3. QED
    BY <2>1, <2>2, OthersText
<1>5. ASSUME NEW t \in Tasks, Hit(t)
      PROVE  TextInv'
  <2>1. PICK answer \in Truths(task[t]) : task' = [task EXCEPT ![t] = After(task[t], answer)]
    BY <1>5 DEF Hit
  <2>2. Ready(task[t]) /\ task[t].pc # "answered" /\ TextTask(task[t])
    BY <1>0, <1>5 DEF Hit
  <2>3. Truthful(task[t], answer) /\ Answerable(task[t], answer)
    <3>1. Answerable(task[t], answer) /\ answer # None
      BY <2>2, TruthAnswers
    <3>2. task[t].look = "search" => answer = Ranking[task[t].req.query]
      BY DEF Truths
    <3>3. QED
      BY <3>1, <3>2 DEF Truthful
  <2>4. TextTask(After(task[t], answer))
    BY <2>2, <2>3, AfterText
  <2>5. QED
    BY <2>1, <2>4, OthersText
<1>6. ASSUME NEW t \in Tasks, Answer(t)
      PROVE  TextInv'
  BY <1>6, OthersText DEF Answer
<1>7. CASE UNCHANGED task
  BY <1>7 DEF TextInv, TextTask
<1>8. CASE Restart
  BY <1>8 DEF Restart, TextInv
<1>9. QED
  BY <1>1, <1>2, <1>3, <1>4, <1>5, <1>6, <1>7, <1>8 DEF Next, Progress, Resume, vars

\* A text answer is of the titles TMDB ranks first, in its order, and of all of them
\* unless a lookup of the request was left without an answer.
THEOREM TextAnswersHold == Spec => []TextAnswersAreSlices
<1>1. Init => TextInv
  BY DEF Init, TextInv
<1>2. ResolverInv /\ TextInv => TextAnswersAreSlices
  <2> SUFFICES ASSUME ResolverInv, TextInv, NEW t \in Tasks,
                      task[t].pc = "answered", task[t].req.op = "text"
               PROVE  LET wanted == Take(Ranking[task[t].req.query], task[t].req.n)
                          got == [i \in 1 .. Len(task[t].cards) |-> task[t].cards[i].title]
                      IN  /\ \E at \in [DOMAIN got -> DOMAIN wanted] :
                                /\ \A i, j \in DOMAIN got : i < j => at[i] < at[j]
                                /\ \A i \in DOMAIN got : got[i] = wanted[at[i]]
                          /\ ~task[t].lost => got = wanted
    BY DEF TextAnswersAreSlices
  <2> DEFINE wanted == Wanted(task[t].req)
             cards == task[t].cards
             got == [i \in 1 .. Len(cards) |-> cards[i].title]
  <2>1. Ready(task[t]) /\ TextTask(task[t])
    BY BusyReady DEF ResolverInv, TextInv, Idle
  <2>2. wanted \in Seq(Named) /\ cards \in Seq(Cards)
    BY <2>1, WantedTyped DEF Ready, Locals
  <2>3. SliceOf(wanted, task[t].todo, cards, task[t].lost)
    BY <2>1 DEF TextTask
  <2> HIDE DEF wanted, cards
  <2>4. PICK done \in 0 .. Len(wanted) :
           /\ \E at : Places(at, cards, wanted, done)
           /\ ~task[t].lost => /\ Len(cards) = done
                               /\ \A i \in 1 .. done : cards[i].title = wanted[i]
           /\ Len(task[t].todo) = Len(wanted) - done
    BY <2>3 DEF SliceOf
  <2>5. /\ Len(wanted) \in Nat /\ Len(cards) \in Nat /\ DOMAIN wanted = 1 .. Len(wanted)
        /\ 1 .. done \subseteq 1 .. Len(wanted)
    BY <2>2, LenProperties
  <2>6. PICK at : Places(at, cards, wanted, done)
    BY <2>4
  <2>7. at \in [1 .. Len(cards) -> 1 .. Len(wanted)]
    BY <2>5, <2>6 DEF Places
  <2>8. \A i \in DOMAIN got : got[i] = wanted[at[i]]
    BY <2>6 DEF Places
  <2>9. task[t].todo = <<>>
    BY <2>1 DEF TextTask
  <2>10. ~task[t].lost => got = wanted
    <3>1. SUFFICES ASSUME ~task[t].lost PROVE got = wanted
      OBVIOUS
    <3>2. done = Len(wanted)
      BY <2>4, <2>5, <2>9
    <3>3. Len(cards) = Len(wanted) /\ \A i \in 1 .. Len(wanted) : cards[i].title = wanted[i]
      BY <2>4, <3>1, <3>2
    <3>4. wanted = [i \in 1 .. Len(wanted) |-> wanted[i]]
      BY <2>2
    <3>5. QED
      BY <3>3, <3>4
  <2>11. DOMAIN got = 1 .. Len(cards) /\ DOMAIN wanted = 1 .. Len(wanted)
    BY <2>5
  <2> HIDE DEF got
  <2>12. /\ \E where \in [DOMAIN got -> DOMAIN wanted] :
               /\ \A i, j \in DOMAIN got : i < j => where[i] < where[j]
               /\ \A i \in DOMAIN got : got[i] = wanted[where[i]]
         /\ ~task[t].lost => got = wanted
    BY <2>6, <2>7, <2>8, <2>10, <2>11 DEF Places
  <2>13. QED
    BY <2>12, Zenon DEF got, wanted, cards, Wanted
<1>3. ResolverInv /\ TextInv /\ [Next]_vars => TextInv'
  BY TextInvStep
<1>4. QED
  BY <1>1, <1>2, <1>3, ResolverInvAlways, PTL DEF Spec

=============================================================================
