---------------------------- MODULE RevenueCurve ----------------------------
(***************************************************************************)
(* The pricing curve (contracts/revenue-curve): a policy and a list of     *)
(* revenue tiers the admin replaces, and the price computed from them.     *)
(* The validators keep every sum below the u32 the code saturates at.      *)
(***************************************************************************)
EXTENDS ProtocolWorld

CONSTANTS
    Policies,       \* pricing policies a caller may pass
    TierLists,      \* tier lists a caller may pass
    CurveRevenues,  \* revenues priced
    Scores,         \* anomaly scores priced
    FullBps,        \* 10000 basis points
    MaxPremiumBps,  \* largest risk_premium_bps_per_point
    MaxScore,       \* largest anomaly score
    MaxTiers        \* largest number of tiers

PolicyRecords ==
    [min : Nat, max : Nat, base : Nat, premium : Nat, enabled : BOOLEAN]
TierRecords == [min : Int, discount : Nat]

ASSUME CurveAssumption ==
    /\ Policies \subseteq PolicyRecords
    /\ TierLists \subseteq Seq(TierRecords)
    /\ CurveRevenues \subseteq Int
    /\ Scores \subseteq Nat

VARIABLES
    curveAdmin,        \* Admin
    curveAttestation,  \* whether AttestationContract is set
    policy,            \* PricingPolicy
    tiers              \* RevenueTiers

curveVars == <<curveAdmin, curveAttestation, policy, tiers>>

CurveInit ==
    /\ curveAdmin = Nobody
    /\ curveAttestation = FALSE
    /\ policy = Absent
    /\ tiers = Absent

CurveInitialize(admin) ==
    /\ curveAdmin = Nobody
    /\ curveAdmin' = admin
    /\ UNCHANGED <<protocolWorld, curveAttestation, policy, tiers>>

SetAttestationContract(admin) ==
    /\ admin = curveAdmin
    /\ curveAttestation' = TRUE
    /\ UNCHANGED <<protocolWorld, curveAdmin, policy, tiers>>

SetPricingPolicy(admin, p) ==
    /\ admin = curveAdmin
    /\ p.max <= FullBps
    /\ p.min <= p.max
    /\ p.base \in p.min .. p.max
    /\ p.premium <= MaxPremiumBps
    /\ policy' = p
    /\ UNCHANGED <<protocolWorld, curveAdmin, curveAttestation, tiers>>

ValidTiers(list) ==
    /\ Len(list) <= MaxTiers
    /\ \A i \in DOMAIN list :
          /\ list[i].discount <= FullBps
          /\ i > 1 => /\ list[i].min > list[i - 1].min
                      /\ list[i].discount >= list[i - 1].discount

SetRevenueTiers(admin, list) ==
    /\ admin = curveAdmin
    /\ ValidTiers(list)
    /\ tiers' = list
    /\ UNCHANGED <<protocolWorld, curveAdmin, curveAttestation, policy>>

\* find_tier_discount: the scan keeps the first tier with the largest positive
\* discount among those reached.
TierFound(revenue) ==
    LET list == IF tiers = Absent THEN <<>> ELSE tiers
        reached == {i \in DOMAIN list : /\ revenue >= list[i].min
                                        /\ list[i].discount > 0}
        best == {i \in reached : \A j \in reached :
                    \/ list[j].discount < list[i].discount
                    \/ list[j].discount = list[i].discount /\ i <= j}
    IN  IF best = {} THEN [discount |-> 0, level |-> 0]
        ELSE LET i == CHOOSE i \in best : TRUE
             IN  [discount |-> list[i].discount, level |-> i]

\* Mutant: the discount is taken after the clamp.
DiscountLast(p, premium, discount) ==
    LET capped == IF p.base + premium > p.max THEN p.max ELSE p.base + premium
    IN  IF capped < discount THEN 0 ELSE capped - discount

\* assemble_pricing_output
Apr(p, premium, discount) ==
    LET combined == p.base + premium
        net == IF combined < discount THEN 0 ELSE combined - discount
        raised == IF net < p.min THEN p.min ELSE net
    IN  IF raised > p.max THEN p.max ELSE raised

\* get_pricing_quote, and calculate_pricing once the attestation checks pass
Price(revenue, score) ==
    LET tier == TierFound(revenue)
    IN  [apr |-> Apr(policy, score * policy.premium, tier.discount),
         discount |-> tier.discount, level |-> tier.level]

CanPrice(score) == policy # Absent /\ policy.enabled /\ score <= MaxScore

CurveNext ==
    /\ site = "curve"
    /\ \E admin \in Accounts :
          \/ CurveInitialize(admin)
          \/ SetAttestationContract(admin)
          \/ \E p \in Policies : SetPricingPolicy(admin, p)
          \/ \E list \in TierLists : SetRevenueTiers(admin, list)

-----------------------------------------------------------------------------
(* Properties *)

\* Whatever policy and tiers are in force, a price stays within the policy's
\* bounds, never rises with the revenue, never falls with the anomaly score,
\* and its discount is the last reached tier's.
PricingFollowsCurve ==
    \A r \in CurveRevenues, s \in Scores :
        CanPrice(s) =>
            /\ Price(r, s).apr \in policy.min .. policy.max
            /\ \A q \in CurveRevenues : q >= r => Price(q, s).apr <= Price(r, s).apr
            /\ \A t \in Scores :
                  t >= s /\ CanPrice(t) => Price(r, t).apr >= Price(r, s).apr
            /\ tiers # Absent =>
                  \A i \in DOMAIN tiers :
                      /\ r >= tiers[i].min
                      /\ (i = Len(tiers) \/ r < tiers[i + 1].min)
                      => Price(r, s).discount = tiers[i].discount

=============================================================================
