------------------------- MODULE MCBudgetedRequests -------------------------
(* Instances of BudgetedRequests for TLC. *)
EXTENDS BudgetedRequests

Row == [op |-> "row", kind |-> "movie", pages |-> 2]
Text == [op |-> "text", n |-> 1]
Movie == [op |-> "card", kind |-> "movie"]

\* The best title found is a show.
Found == <<"tv">>
MCRequests == {Row, Movie, Text}
=============================================================================
