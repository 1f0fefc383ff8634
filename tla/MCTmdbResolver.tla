--------------------------- MODULE MCTmdbResolver ---------------------------
(* Instances of TmdbResolver for TLC. *)
EXTENDS TmdbResolver, TLC

Show(i) == [kind |-> "tv", id |-> i]
Movie(i) == [kind |-> "movie", id |-> i]

\* A search that finds a show and the movie of the same number.
MCRanking == "q" :> <<Show(1), Movie(1)>>

\* The same search at two depths, and the number by itself.
MCRequests ==
    {[op |-> "text", query |-> "q", n |-> n] : n \in {1, 2}}
        \cup {[op |-> "number", id |-> 1]}

\* Tasks are interchangeable: sound for the safety run.
TaskSymmetry == Permutations(Tasks)

\* A show and a movie of the same number, asked for by kind and by number.
TwinRequests ==
    {[op |-> "card", title |-> x] : x \in {Show(1), Movie(1)}}
        \cup {[op |-> "number", id |-> 1]}
=============================================================================
