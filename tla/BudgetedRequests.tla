-------------------------- MODULE BudgetedRequests --------------------------
(***************************************************************************)
(* The requests of tmdb.rs, resolve.rs and discovery.rs on the one budget  *)
(* they share: TmdbBudget with its callers filled in.                      *)
(*                                                                         *)
(* A request makes one lookup after another (left).  A lookup that no      *)
(* cache answers waits for a permit, with the deadline of its kind of      *)
(* lookup, and makes its TMDB call; what is left to do then depends on     *)
(* whether there was an answer.  TmdbResolver and Discovery say what the   *)
(* answers are, this module what they cost and how long they take.         *)
(*                                                                         *)
(* The executor is prompt: the clock advances only while every task waits  *)
(* for it, for TMDB or for a request.                                      *)
(***************************************************************************)
EXTENDS TmdbBudget, Sequences

CONSTANTS Requests,   \* the requests that may arrive
          FoundKinds, \* the kinds of the titles a search finds, best first
          Short,      \* TMDB_DISCOVERY_WAIT_DEADLINE_SECS, in ticks
          Long,       \* TMDB_WAIT_DEADLINE_SECS, in ticks
          Flight,     \* the longest call: TMDB_SEARCH_TIMEOUT_SECS to send it and
                      \* as long again to read the answer, in ticks
          Nobody      \* no request

Kinds == {"tv", "movie"}
Looks == {"search", "ext", "details", "genre", "page"} \X (Kinds \cup {"any"})
Jobs == [req : Requests, left : Seq(Looks), calls : Nat, dry : Nat, flight : Nat,
         knew : BOOLEAN]

ASSUME WaitsAssumption ==
    {Short, Long} \subseteq Deadlines /\ Short <= Long /\ Flight \in Nat
ASSUME RequestsAssumption ==
    /\ Requests \subseteq [op : {"row"}, kind : Kinds, pages : Nat]
                       \cup [op : {"text"}, n : Nat] \cup [op : {"card"}, kind : Kinds]
    /\ FoundKinds \in Seq(Kinds)
ASSUME NobodyAssumption == Nobody \notin Jobs

VARIABLES job,   \* caller -> the request it serves and how far it got
          held   \* Resolver.genre_names: the kinds whose table is held

requestVars == <<vars, job, held>>

-----------------------------------------------------------------------------
(* The lookups of a request                                                *)

\* card_by_id(): only the movie branch reads a genre table.
TitleLookups(kind) ==
    <<<<"ext", kind>>, <<"details", kind>>>>
        \o IF kind = "movie" THEN <<<<"genre", kind>>>> ELSE <<>>

\* cards_for_text(): the titles found, one after another.
UpToTitle == LET upto[i \in 0 .. Len(FoundKinds)] ==
                     IF i = 0 THEN <<>> ELSE upto[i - 1] \o TitleLookups(FoundKinds[i])
             IN  upto
TitlesLookups(n) == UpToTitle[LesserOf(n, Len(FoundKinds))]

\* What a request sets out to do.  (A bare number is a card after one more
\* lookup of details; TmdbResolver has it.)
Plan(req) ==
    CASE req.op = "row"    -> <<<<"genre", req.kind>>>>
                                 \o [p \in 1 .. req.pages |-> <<"page", req.kind>>]
      [] req.op = "text"   -> <<<<"search", "any">>>>
      [] req.op = "card"   -> TitleLookups(req.kind)

\* How long a lookup waits for its permit: briefly where nobody waits for it.
DeadlineInherited(look) == IF look = "genre" THEN Short ELSE Long
Deadline(look) == IF look \in {"genre", "page"} THEN Short ELSE Long

\* What may be left to do after the first lookup, `found` or not.  A page may
\* fill the row or be empty; a row may ask for a genre that no table has named.
Left(j, found) ==
    LET look == Head(j.left)[1]
        kind == Head(j.left)[2]
        rest == Tail(j.left)
    IN  CASE look = "search"  -> {TitlesLookups(IF found THEN j.req.n ELSE 0)}
          [] look = "ext"     -> {rest}
          [] look = "details" -> {IF found \/ kind = "tv" THEN rest ELSE Tail(rest)}
          [] look = "page"    -> IF found THEN {rest, <<>>} ELSE {<<>>}
          [] look = "genre"   -> IF j.req.op = "row" THEN {rest, <<>>} ELSE {rest}

\* The first lookup of c is over.
LookedUp(c, found) ==
    \E left \in Left(job[c], found) : job' = [job EXCEPT ![c].left = left]

-----------------------------------------------------------------------------
(* Requests                                                                *)

RequestInit == Init /\ job = [c \in Callers |-> Nobody] /\ held = {}

\* c serves a request and is between two lookups.
Serving(c) == job[c] # Nobody /\ pc[c] = "idle"

\* Bound: a request arrives early enough to be over before the clock stops.
Horizon(req) ==
    CASE req.op = "row"    -> (1 + req.pages) * (Short + Flight)
      [] req.op = "text"   -> (1 + Len(TitlesLookups(req.n))) * (Long + Flight)
      [] req.op = "card"   -> Len(TitleLookups(req.kind)) * (Long + Flight)

\* A request arrives.  calls, dry (ticks waited for a permit since the last one
\* was granted), flight and knew are history.
Arrive(c) ==
    /\ job[c] = Nobody
    /\ pc[c] = "idle"
    /\ \E req \in Requests :
          /\ now + Horizon(req) <= MaxTime
          /\ job' = [job EXCEPT ![c] =
             [req |-> req, left |-> Plan(req), calls |-> 0, dry |-> 0,
              flight |-> 0, knew |-> req.op = "row" /\ req.kind \in held]]
    /\ UNCHANGED <<vars, held>>

\* The lookup's cache answers: the genre table that is held, or redb.
CachedInRedb(c) ==
    /\ Serving(c) /\ job[c].left # <<>>
    /\ Head(job[c].left)[1] \notin {"page", "genre"}
    /\ LookedUp(c, TRUE)
    /\ UNCHANGED <<vars, held>>

Cached(c) ==
    /\ Serving(c) /\ job[c].left # <<>>
    /\ LET look == Head(job[c].left)
       IN  look[1] # "page" /\ (look[1] = "genre" => look[2] \in held)
    /\ LookedUp(c, TRUE)
    /\ UNCHANGED <<vars, held>>

\* It does not: the lookup asks for a permit.
AskUnlessHeld(c) ==
    /\ Serving(c) /\ job[c].left # <<>>
    /\ Acquire(c)
    /\ give_up_at'[c] = now + Deadline(Head(job[c].left)[1])
    /\ UNCHANGED <<job, held>>

Ask(c) ==
    /\ Serving(c) /\ job[c].left # <<>>
    /\ Head(job[c].left)[1] = "genre" => Head(job[c].left)[2] \notin held
    /\ Acquire(c)
    /\ give_up_at'[c] = now + Deadline(Head(job[c].left)[1])
    /\ UNCHANGED <<job, held>>

\* acquire() goes on; when it grants, the call goes out.
Granted(c) ==
    /\ Grant(c)
    /\ job' = [job EXCEPT ![c].calls = @ + 1, ![c].dry = 0, ![c].flight = 0]
    /\ UNCHANGED held

Waits(c) ==
    /\ Expire(c) \/ Compute(c) \/ Arm(c) \/ Listen(c) \/ Wake(c)
    /\ UNCHANGED <<job, held>>

\* No permit: the lookup is given up.
Refused(c) ==
    /\ pc[c] = "expired"
    /\ Leave(c)
    /\ LookedUp(c, FALSE)
    /\ UNCHANGED held

\* TMDB answers the call; a genre table is then held.
Answered(c) ==
    /\ pc[c] = "granted"
    /\ Leave(c)
    /\ LookedUp(c, TRUE)
    /\ held' = IF Head(job[c].left)[1] = "genre"
               THEN held \cup {Head(job[c].left)[2]} ELSE held

\* TMDB does not, or not in time.
Missed(c) ==
    /\ pc[c] = "granted"
    /\ Leave(c)
    /\ LookedUp(c, FALSE)
    /\ UNCHANGED held

\* TMDB answers 429: note_429(), then the lookup is given up.
Limited(c) ==
    \/ (Note429(c) \/ Pause(c)) /\ UNCHANGED <<job, held>>
    \/ Notify(c) /\ LookedUp(c, FALSE) /\ UNCHANGED held

\* Nothing is left to do: the answer goes out.
Reply(c) ==
    /\ Serving(c)
    /\ job[c].left = <<>>
    /\ job' = [job EXCEPT ![c] = Nobody]
    /\ UNCHANGED <<vars, held>>

\* The request is dropped at an await: in acquire's select! or in the call.
DropUnawares(c) ==
    /\ pc[c] \in {"sleeping", "notified", "granted"}
    /\ job' = [job EXCEPT ![c] = Nobody]
    /\ UNCHANGED <<vars, held>>

Drop(c) ==
    /\ pc[c] \in {"sleeping", "notified", "granted"}
    /\ Leave(c)
    /\ job' = [job EXCEPT ![c] = Nobody]
    /\ UNCHANGED held

\* c waits: for a request, for its timer, or for TMDB within the call's timeout.
Idles(c) ==
    \/ job[c] = Nobody /\ pc[c] = "idle"
    \/ pc[c] = "sleeping" /\ now < wake_at[c]
    \/ pc[c] = "granted" /\ job[c].flight < Flight

Pass ==
    /\ \A c \in Callers : Idles(c)
    /\ Tick
    /\ job' = [c \in Callers |->
          IF pc[c] = "sleeping" THEN [job[c] EXCEPT !.dry = @ + 1]
          ELSE IF pc[c] = "granted" THEN [job[c] EXCEPT !.flight = @ + 1]
          ELSE job[c]]
    /\ UNCHANGED held

Serve(c) ==
    \/ Cached(c) \/ Ask(c) \/ Granted(c) \/ Waits(c)
    \/ Refused(c) \/ Answered(c) \/ Missed(c) \/ Limited(c) \/ Reply(c)

RequestNext == Pass \/ \E c \in Callers : Arrive(c) \/ Serve(c) \/ Drop(c)

\* The clock advances, however many requests the caches answer between two ticks;
\* the executor polls every task, and every call ends.
RequestFairness == SF_requestVars(Pass) /\ \A c \in Callers : WF_requestVars(Serve(c))

RequestSpec == RequestInit /\ [][RequestNext]_requestVars /\ RequestFairness

-----------------------------------------------------------------------------
(* Properties                                                              *)

\* The longest plan a request can come to: the lookups it makes at most.
Lookups(req) ==
    CASE req.op = "row"    -> 1 + req.pages
      [] req.op = "text"   -> 1 + Len(TitlesLookups(req.n))
      [] req.op = "card"   -> Len(TitleLookups(req.kind))

\* Every variable stays in its type; a caller is in the budget only for a
\* request that has a lookup to make.
RequestTypeOK ==
    /\ TypeOK
    /\ held \subseteq Kinds
    /\ job \in [Callers -> Jobs \cup {Nobody}]
    /\ \A c \in Callers :
          IF job[c] = Nobody THEN pc[c] = "idle"
          ELSE /\ Len(job[c].left) <= Lookups(job[c].req)
               /\ pc[c] # "idle" => job[c].left # <<>>

\* The price of an answer: no request, whatever fails, makes more calls than it
\* has lookups, and a row whose genre table is held pays for its pages only.
CallsAreBounded ==
    \A c \in Callers : job[c] # Nobody =>
        LET req == job[c].req
            free == IF job[c].knew THEN 1 ELSE 0
        IN  job[c].calls <= Lookups(req) - free

\* The longest a request waits for permits without getting one.  A row gives up
\* its genre table and one page; any other request up to two lookups a title.
Patience(req) ==
    CASE req.op = "row"    -> 2 * Short
      [] req.op = "text"   -> 2 * Long * GreaterOf(1, LesserOf(req.n, Len(FoundKinds)))
      [] req.op = "card"   -> 2 * Long

\* A pause or an empty bucket does not pin a request: without a permit it ends
\* within its patience, a row within two of its short deadlines ("what a 5 s
\* bail produces"), however the others draw on the budget.
NobodyIsPinned ==
    \A c \in Callers : job[c] # Nobody => job[c].dry <= Patience(job[c].req)

\* Every request is answered or dropped, on the real budget.
EveryRequestEnds == \A c \in Callers : job[c] # Nobody ~> job[c] = Nobody
=============================================================================
