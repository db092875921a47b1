-------------------------- MODULE MCRevenueProducts --------------------------
(* A small instance of RevenueProducts for TLC. *)
EXTENDS RevenueProducts

CONSTANTS boss, shop, lena, luis, self, usd, eur

MCAccounts == {boss, shop, lena, luis, self}
MCBusinesses == {shop}
MCAdmins == {boss}
MCHolders == {lena, luis}

OneStreamKey == {<<shop, 1>>}

\* One lump sum with a cliff, one linear schedule of an odd length.
MCSchedules == {Lump(1), Linear(0, 3)}
MCAgreementTerms == {[share |-> 5000, min |-> 1, cap |-> 2]}

MCStakeholderLists ==
    {<<[address |-> lena, bps |-> 3333], [address |-> luis, bps |-> 6667]>>,
     <<[address |-> luis, bps |-> 10000]>>,
     <<[address |-> lena, bps |-> 5000], [address |-> lena, bps |-> 5000]>>}

\* One bond of every structure, the last payment of each larger than what is
\* left; and two whose term covers one of the months only.
MCBondTerms ==
    {[face |-> 3, structure |-> s, share |-> 10000, min |-> 1, max |-> 2,
      maturity |-> 2, issue |-> 1] : s \in {"fixed", "linked", "hybrid"}}
    \cup {[face |-> 3, structure |-> "fixed", share |-> 0, min |-> 1, max |-> 2,
           maturity |-> 1, issue |-> month] : month \in {1, 2}}
=============================================================================
