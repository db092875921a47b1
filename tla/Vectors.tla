------------------------------ MODULE Vectors ------------------------------
(* The one operation on Soroban vectors that Sequences does not offer in a  *)
(* form that can be reasoned about: dropping elements.                      *)
EXTENDS Integers, Sequences, FiniteSets

\* Sequence q without the positions outside K, in the same order: the set
\* holds exactly one sequence.
Compacted(q, K) ==
    {[n \in 1 .. Cardinality(K) |-> q[at[n]]] :
        at \in {f \in [1 .. Cardinality(K) -> K] :
                   \A m, n \in 1 .. Cardinality(K) : m < n => f[m] < f[n]}}

=============================================================================
