----------------------------- MODULE Relevance -----------------------------
(***************************************************************************)
(* tmdb_client.rs: principal_top_n, which keeps the hits of a TMDB search  *)
(* that look like the query and ranks them by popularity.                  *)
(*                                                                         *)
(* A title and a query are the sequences of words that norm_tokens makes   *)
(* of them.                                                                *)
(***************************************************************************)
EXTENDS Integers, Sequences, SequencesExt, Lists

CONSTANTS HitSet,   \* the hits TMDB may return: media_type, title, popularity
          Queries,  \* the queries they are held against
          MaxHits,  \* bound: the longest list of hits
          Depth     \* CACHED_PRINCIPAL_DEPTH

ASSUME HitSetAssumption ==
    HitSet \subseteq [media_type : STRING, popularity : Int, title : Seq(STRING)]
ASSUME WordsAssumption == Queries \subseteq Seq(STRING)
ASSUME DepthAssumption == Depth \in Nat

VARIABLE hits

-----------------------------------------------------------------------------
(* principal_top_n()                                                       *)

\* The words of the query that are in the title, each as often as the query says it.
OverlapOnce(q, title) == Cardinality(ToSet(q) \cap ToSet(title))
Overlap(q, title) == Len(Kept(q, ToSet(title)))

\* kind() is a movie's or a show's, and half of the query is in the title.
Accepted(q) ==
    {h \in HitSet : h.media_type \in {"movie", "tv"} /\ 2 * Overlap(q, h.title) >= Len(q)}

\* A hit is put behind those as popular as it is: sort_by is stable, hits of one
\* popularity stay in TMDB's order.
Inserted(ranked, h) ==
    LET Stays(k) == k \in DOMAIN ranked /\ ranked[k].popularity >= h.popularity
    IN  [k \in 1 .. Len(ranked) + 1 |->
            IF Stays(k) THEN ranked[k]
            ELSE IF k = 1 \/ Stays(k - 1) THEN h
            ELSE ranked[k - 1]]

RankedSoFar(list) ==
    LET ranked[i \in 0 .. Len(list)] ==
            IF i = 0 THEN <<>> ELSE Inserted(ranked[i - 1], list[i])
    IN  ranked

Ranked(list) == RankedSoFar(list)[Len(list)]

PrincipalTopNCutFirst(list, q, n) ==
    IF q = <<>> THEN <<>> ELSE Ranked(Take(Kept(list, Accepted(q)), n))

PrincipalTopN(list, q, n) ==
    IF q = <<>> THEN <<>> ELSE Take(Ranked(Kept(list, Accepted(q))), n)

-----------------------------------------------------------------------------
(* TMDB's answer, one hit after another.                                   *)

SearchInit == hits = <<>>

Find ==
    /\ Len(hits) < MaxHits
    /\ \E h \in HitSet : hits' = Append(hits, h)

SearchSpec == SearchInit /\ [][Find]_hits

-----------------------------------------------------------------------------
(* Properties                                                              *)

\* At least half of the query, word by word, is in the title of a work.
Confident(i, q) ==
    LET said == {p \in DOMAIN q : \E w \in DOMAIN hits[i].title : hits[i].title[w] = q[p]}
    IN  /\ hits[i].media_type \in {"movie", "tv"}
        /\ Cardinality(said) >= Cardinality(DOMAIN q \ said)

Above(i, j) ==
    \/ hits[i].popularity > hits[j].popularity
    \/ hits[i].popularity = hits[j].popularity /\ i < j

\* "Pick up to n confident anchors, most popular first": the answer is confident
\* hits, each above the next, and none is left out but those below n others.  A
\* query of no words has no answer.
RanksTheConfident ==
    \A q \in Queries, n \in 0 .. Depth + 1 :
        LET top == PrincipalTopN(hits, q, n)
            good == IF q = <<>> THEN {} ELSE {i \in DOMAIN hits : Confident(i, q)}
        IN  /\ Len(top) <= n
            /\ \E at \in [DOMAIN top -> good] :
                  /\ \A k \in DOMAIN top : top[k] = hits[at[k]]
                  /\ \A k, l \in DOMAIN top : k < l => Above(at[k], at[l])
                  /\ \A i \in good :
                        \/ \E k \in DOMAIN top : at[k] = i
                        \/ Len(top) = n /\ \A k \in DOMAIN top : Above(at[k], i)

\* Why the list may be stored once and "sliced on read, so changing the top-N knob
\* never needs a cache wipe": the first n of the stored list are the answer at n.
SlicesAreAnswers ==
    \A q \in Queries, n \in 0 .. Depth :
        Take(PrincipalTopN(hits, q, Depth), n) = PrincipalTopN(hits, q, n)
=============================================================================
