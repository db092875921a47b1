---------------------------- MODULE RevenueBonds ----------------------------
(***************************************************************************)
(* The revenue-backed bond contract (contracts/revenue-bonds): bonds whose *)
(* periodic redemption follows the attestation of the issuer's period.     *)
(* Months stand for the YYYY-MM strings that parse_period maps to them.    *)
(***************************************************************************)
EXTENDS RevenueWorld

CONSTANTS
    BondTerms,  \* [face, structure, share, min, max, maturity, issue]
    MaxBonds    \* bound on NextBondId

ASSUME BondsAssumption ==
    /\ BondTerms \subseteq [face : Int, structure : {"fixed", "linked", "hybrid"},
                              share : Nat, min : Int, max : Int, maturity : Nat,
                              issue : Nat]
    /\ MaxBonds \in Nat
    /\ Absent \notin [revenue : Nat, amount : Nat]

VARIABLES
    bondAdmin,      \* Admin
    bonds,          \* Bond(id) and BondOwner(id), at position id + 1
    redemptions,    \* Redemption(id, period): the record, or Absent
    totalRedeemed   \* TotalRedeemed(id)

bondVars == <<bondAdmin, bonds, redemptions, totalRedeemed>>

BondIds == 1 .. MaxBonds

BondsInit ==
    /\ bondAdmin = Nobody
    /\ bonds = <<>>
    /\ redemptions = [c \in BondIds \X Months |-> Absent]
    /\ totalRedeemed = [id \in BondIds |-> 0]

BondsInitialize(caller) ==
    /\ bondAdmin = Nobody
    /\ bondAdmin' = caller
    /\ UNCHANGED <<world, bonds, redemptions, totalRedeemed>>

IssueBond(issuer, owner, terms, t) ==
    /\ Len(bonds) < MaxBonds
    /\ terms.face > 0
    /\ terms.share <= BasisPoints
    /\ terms.min >= 0
    /\ terms.max > 0
    /\ terms.max >= terms.min
    /\ terms.maturity > 0
    /\ issuer # owner
    /\ bonds' = Append(bonds, [issuer |-> issuer, owner |-> owner,
                               terms |-> terms, token |-> t,
                               status |-> "active"])
    /\ totalRedeemed' = [totalRedeemed EXCEPT ![Len(bonds) + 1] = 0]
    /\ UNCHANGED <<world, bondAdmin, redemptions>>

\* Mutant: the month the maturity ends in still pays.
WithinLastMonth(terms, p) == p >= terms.issue /\ p <= terms.issue + terms.maturity

\* is_period_within_maturity
WithinMaturity(terms, p) == p >= terms.issue /\ p < terms.issue + terms.maturity

\* calculate_redemption, before the cap of the remaining face value.
CalculateRedemption(terms, revenue) ==
    CASE terms.structure = "fixed" -> terms.min
      [] terms.structure = "linked" ->
            SmallerOf(LargerOf(ShareOf(revenue, terms.share), terms.min),
                      terms.max)
      [] terms.structure = "hybrid" ->
            SmallerOf(terms.min + ShareOf(revenue, terms.share), terms.max)

\* Mutant: the last payment is not cut down to what is left.
Uncapped(amount, remaining) == amount

CappedAt(amount, remaining) == SmallerOf(amount, remaining)

\* redeem: the issuer signs.  The "attested revenue" is the fourth field of
\* what the attestation contract answers.
Redeem(id, p) ==
    /\ id \in DOMAIN bonds
    /\ LET bond == bonds[id]
           k == <<bond.issuer, p>>
           remaining == bond.terms.face - totalRedeemed[id]
       IN  /\ bond.status = "active"
           /\ WithinMaturity(bond.terms, p)
           /\ redemptions[<<id, p>>] = Absent
           /\ InForce(k)
           /\ remaining > 0
           /\ LET revenue == attested[k].fee
                  paid == CappedAt(CalculateRedemption(bond.terms, revenue),
                                   remaining)
              IN  /\ paid <= bond.terms.max
                  /\ Transfer(bond.token, bond.issuer, bond.owner, paid)
                  /\ redemptions' = [redemptions EXCEPT
                                       ![<<id, p>>] = [revenue |-> revenue,
                                                       amount |-> paid]]
                  /\ totalRedeemed' = [totalRedeemed EXCEPT ![id] = @ + paid]
                  /\ bonds' = [bonds EXCEPT
                                 ![id].status =
                                     IF totalRedeemed[id] + paid
                                           >= bond.terms.face
                                     THEN "redeemed" ELSE @]
    /\ UNCHANGED <<product, attested, revoked, expired, now, bondAdmin>>

TransferOwnership(id, owner, newOwner) ==
    /\ id \in DOMAIN bonds
    /\ owner = bonds[id].owner
    /\ newOwner # owner
    /\ bonds[id].status = "active"
    /\ newOwner \notin {bonds[id].issuer, Self}
    /\ bonds' = [bonds EXCEPT ![id].owner = newOwner]
    /\ UNCHANGED <<world, bondAdmin, redemptions, totalRedeemed>>

\* Mutant: a bond can be closed whatever its status is.
CloseAnyBond(caller, id, outcome) ==
    /\ caller = bondAdmin
    /\ id \in DOMAIN bonds
    /\ bonds' = [bonds EXCEPT ![id].status = outcome]
    /\ UNCHANGED <<world, bondAdmin, redemptions, totalRedeemed>>

\* mark_defaulted and mark_matured: neither looks at the grace period, at the
\* clock or at the maturity.
CloseBond(caller, id, outcome) ==
    /\ caller = bondAdmin
    /\ id \in DOMAIN bonds
    /\ bonds[id].status = "active"
    /\ bonds' = [bonds EXCEPT ![id].status = outcome]
    /\ UNCHANGED <<world, bondAdmin, redemptions, totalRedeemed>>

BondsNext ==
    /\ product = "bonds"
    /\ \/ \E caller \in Admins :
             \/ BondsInitialize(caller)
             \/ \E id \in BondIds, outcome \in {"defaulted", "matured"} :
                   CloseBond(caller, id, outcome)
       \/ \E issuer \in Businesses, owner \in Holders, terms \in BondTerms,
             t \in Tokens : IssueBond(issuer, owner, terms, t)
       \/ \E id \in BondIds, p \in Months : Redeem(id, p)
       \/ \E id \in BondIds, owner, newOwner \in Accounts :
             TransferOwnership(id, owner, newOwner)
       \/ AttestationContractStep(Keys) /\ UNCHANGED bondVars

-----------------------------------------------------------------------------
(* Properties *)

\* The running total of a bond is the sum of its redemption records, lies
\* within the face value, and reaches it exactly when the bond is fully
\* redeemed: no default or maturity mark, no change of owner and no revoked
\* attestation in between makes a bond pay twice or more than it promised.
BondBooksBalance ==
    \A id \in DOMAIN bonds :
        /\ totalRedeemed[id] =
              SumFunctionOnSet([p \in Months |->
                                  IF redemptions[<<id, p>>] = Absent THEN 0
                                  ELSE redemptions[<<id, p>>].amount], Months)
        /\ totalRedeemed[id] <= bonds[id].terms.face
        /\ totalRedeemed[id] = bonds[id].terms.face
              <=> bonds[id].status = "redeemed"

\* The balances change by one payment and by nothing else.
Moves(t, from, to, amount) ==
    \A u \in Tokens, a \in Accounts :
        balance'[u][a] = balance[u][a]
                            + (IF u = t /\ a = to THEN amount ELSE 0)
                            - (IF u = t /\ a = from THEN amount ELSE 0)

\* A redemption of bond id for month p in this step is the first for that month,
\* is paid by the issuer to whoever owns the bond now, for a month of the bond's
\* term and while the issuer's attestation is in force.
DuePayment(id, p) ==
    LET bond == bonds[id]
    IN  /\ redemptions[<<id, p>>] = Absent
        /\ bond.status = "active"
        /\ Moves(bond.token, bond.issuer, bond.owner, redemptions'[<<id, p>>].amount)
        /\ InForce(<<bond.issuer, p>>)
        /\ p - bond.terms.issue \in 0 .. bond.terms.maturity - 1

\* Every redemption recorded is a due payment, whatever was closed, transferred
\* or revoked before, and a bond that was closed never pays or changes hands
\* again (the header of revenue-bonds/src/lib.rs, invariants 1, 6 and 8; the bond
\* documentation calls the term informational, which this code does not).
RedemptionsAreDue ==
    [][\A id \in DOMAIN bonds :
          /\ \A p \in Months :
                redemptions'[<<id, p>>] # redemptions[<<id, p>>] => DuePayment(id, p)
          /\ bonds[id].status # "active" => bonds'[id] = bonds[id]]_bondVars

-----------------------------------------------------------------------------
(* What the documentation says and the code does not do *)

\* docs/revenue-backed-bonds.md: a redemption is based on the attested revenue.
RedeemsAttestedRevenue ==
    \A id \in DOMAIN bonds : \A p \in Months :
        redemptions[<<id, p>>] # Absent /\ attested[<<bonds[id].issuer, p>>] # Absent
        => redemptions[<<id, p>>].revenue = attested[<<bonds[id].issuer, p>>].revenue

=============================================================================
