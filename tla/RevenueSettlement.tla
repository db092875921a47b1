-------------------------- MODULE RevenueSettlement --------------------------
(***************************************************************************)
(* The revenue-based lending settlement contract                           *)
(* (contracts/revenue-settlement): agreements between lenders and          *)
(* businesses, settled period by period, several periods netted in one     *)
(* call.  The revenues are the caller's: settle_multi never asks the       *)
(* attestation contract, and neither records the principal.                *)
(***************************************************************************)
EXTENDS RevenueWorld

CONSTANTS
    AgreementTerms,  \* [share, min, cap] a lender may pass
    MaxPeriods,      \* bound on the periods of one call
    MaxSettlementTime, \* bound on the ledger clock while settling
    MaxAgreements    \* bound on NextAgreementId

ASSUME SettlementAssumption ==
    /\ AgreementTerms \subseteq [share : Nat, min : Int, cap : Int]
    /\ MaxPeriods \in Nat
    /\ MaxSettlementTime \in Nat
    /\ MaxAgreements \in Nat

VARIABLES
    settlementAdmin, \* Admin
    agreements,      \* Agreement(id), at position id + 1
    settlements,     \* Settlement(id, period), or Absent
    periodToken      \* BusinessPeriodToken(business, period), or Absent

settlementVars == <<settlementAdmin, agreements, settlements, periodToken>>

AgreementIds == 1 .. MaxAgreements

SettlementInit ==
    /\ settlementAdmin = Nobody
    /\ agreements = <<>>
    /\ settlements = [c \in AgreementIds \X Months |-> Absent]
    /\ periodToken = [k \in Keys |-> Absent]

\* Committed(id, period): written together with the record, with its amount.
Committed(id, p) ==
    IF settlements[<<id, p>>] = Absent THEN 0 ELSE settlements[<<id, p>>].amount

SettlementInitialize(caller) ==
    /\ settlementAdmin = Nobody
    /\ settlementAdmin' = caller
    /\ UNCHANGED <<world, agreements, settlements, periodToken>>

CreateAgreement(lender, business, terms, t) ==
    /\ Len(agreements) < MaxAgreements
    /\ terms.share <= BasisPoints
    /\ terms.min >= 0
    /\ terms.cap > 0
    /\ business # lender
    /\ agreements' = Append(agreements,
                            [lender |-> lender, business |-> business,
                             terms |-> terms, token |-> t,
                             status |-> "active"])
    /\ UNCHANGED <<world, settlementAdmin, settlements, periodToken>>

\* What n periods with revenue `total` together repay: nothing below the
\* summed thresholds, never more than the summed caps.
Repayment(terms, total, n) ==
    IF total >= terms.min * n /\ total > 0
    THEN SmallerOf(ShareOf(total, terms.share), terms.cap * n)
    ELSE 0

\* The part of the repayment recorded for the i-th of n periods: the last one
\* also gets the remainder of the division.
RecordedPart(repaid, i, n) == (repaid \div n) + (IF i = n THEN repaid % n ELSE 0)

\* Mutant: the commitments of the periods are not looked at.
AnyPeriods(id, periods) == TRUE

\* No listed period has a positive commitment.
Uncommitted(id, periods) ==
    \A i \in DOMAIN periods : Committed(id, periods[i]) = 0

\* Every listed period is still free for the agreement's token.
TokenFits(agreement, periods) ==
    \A i \in DOMAIN periods :
        periodToken[<<agreement.business, periods[i]>>]
           \in {Absent, agreement.token}

\* settle_multi, and settle with one period.  A period may be listed twice:
\* the records are written in order, so the last one stays.
SettleMulti(id, periods, revenues) ==
    /\ id \in DOMAIN agreements
    /\ periods # <<>>
    /\ Len(periods) = Len(revenues)
    /\ agreements[id].status = "active"
    /\ TokenFits(agreements[id], periods)
    /\ Uncommitted(id, periods)
    /\ LET agreement == agreements[id]
           n == Len(periods)
           repaid == Repayment(agreement.terms,
                               SumFunctionOnSet(revenues, 1 .. n), n)
           lastAt(p) == CHOOSE i \in 1 .. n :
                           /\ periods[i] = p
                           /\ \A j \in i + 1 .. n : periods[j] # p
       IN  /\ Transfer(agreement.token, agreement.business, agreement.lender,
                       repaid)
           /\ settlements' =
                 [c \in DOMAIN settlements |->
                    IF c[1] = id /\ \E i \in 1 .. n : periods[i] = c[2]
                    THEN [amount |-> RecordedPart(repaid, lastAt(c[2]), n),
                          at |-> now]
                    ELSE settlements[c]]
           /\ periodToken' =
                 [k \in Keys |->
                    IF k[1] = agreement.business
                          /\ \E i \in 1 .. n : periods[i] = k[2]
                    THEN agreement.token ELSE periodToken[k]]
    /\ UNCHANGED <<product, attested, revoked, expired, now, settlementAdmin, agreements>>

\* mark_completed and mark_defaulted
CloseAgreement(caller, id, outcome) ==
    /\ caller = settlementAdmin
    /\ id \in DOMAIN agreements
    /\ agreements[id].status = "active"
    /\ agreements' = [agreements EXCEPT ![id].status = outcome]
    /\ UNCHANGED <<world, settlementAdmin, settlements, periodToken>>

SettlementTick ==
    /\ now < MaxSettlementTime
    /\ now' = now + 1
    /\ UNCHANGED <<product, balance, attested, revoked, expired, settlementVars>>

SettlementNext ==
    /\ product = "settlement"
    /\ \/ \E caller \in Admins :
             \/ SettlementInitialize(caller)
             \/ \E id \in AgreementIds, outcome \in {"completed", "defaulted"} :
                   CloseAgreement(caller, id, outcome)
       \/ \E lender \in Holders, business \in Businesses,
             terms \in AgreementTerms, t \in Tokens :
                CreateAgreement(lender, business, terms, t)
       \/ \E id \in AgreementIds, n \in 1 .. MaxPeriods :
             \E periods \in [1 .. n -> Months], revenues \in [1 .. n -> Revenues] :
                SettleMulti(id, periods, revenues)
       \/ SettlementTick

-----------------------------------------------------------------------------
(* Properties *)

\* A period that was settled with a repayment is never settled again: its
\* record keeps its amount and its time, and a closed agreement settles
\* nothing more.
PaidPeriodsStayPaid ==
    [][\A c \in DOMAIN settlements :
          settlements'[c] # settlements[c] =>
             /\ Committed(c[1], c[2]) = 0
             /\ agreements[c[1]].status = "active"]_<<settlements, agreements>>

=============================================================================
