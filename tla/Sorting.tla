-------------------------------- MODULE Sorting --------------------------------
(***************************************************************************)
(* Python's sorted(items, key), which is stable: the runner sorts events   *)
(* and latencies by it, the coordinator the providers of an answer.        *)
(***************************************************************************)
EXTENDS Naturals, FiniteSets

\* Items are a function from their places, in the order they were appended in;
\* before says which of two places is first.
InOrder(items, before) ==
    LET rank == [i \in DOMAIN items |->
                    1 + Cardinality({j \in DOMAIN items : <<j, i>> \in before})]
    IN  [k \in 1..Cardinality(DOMAIN items) |->
            items[CHOOSE i \in DOMAIN items : rank[i] = k]]

\* Pairs of places, given which of them have the lesser key.
Stable(places, lesser) ==
    {ij \in places \X places :
        IF ij[1] < ij[2] THEN <<ij[2], ij[1]>> \notin lesser ELSE ij \in lesser}
=============================================================================
