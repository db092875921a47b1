--------------------------- MODULE MCAttestations ---------------------------
(* Small instances of Attestations for TLC. *)
EXTENDS Attestations, TLC

CONSTANTS shop, p1, p2, admin, att1, att2, lender, rival

OneBusiness == {shop}
OnePeriod == {p1}
TwoPeriods == {p1, p2}
OneAdmin == {admin}
OneAttestor == {att1}
TwoAttestors == {att1, att2}
OneChallenger == {lender}
TwoChallengers == {lender, rival}

Expiring == [time |-> 0, version |-> 1, expiry |-> 1]
ExpiringOnly == {Expiring}

\* Periods and challengers are interchangeable: no definition of Attestations
\* orders them, and the runs check no liveness.
Interchangeable == Permutations({p1, p2}) \cup Permutations({lender, rival})

\* The attestors of the disputes run are too.
WithAttestors == Interchangeable \cup Permutations({att1, att2})
=============================================================================
