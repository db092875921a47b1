---------------------------- MODULE RevenueShare ----------------------------
(***************************************************************************)
(* The revenue share contract (contracts/revenue-share): a business        *)
(* distributes the revenue of an attested period among the stakeholders.   *)
(***************************************************************************)
EXTENDS RevenueWorld

CONSTANTS
    StakeholderLists,  \* sequences of [address, bps] an admin may configure
    MaxStakeholders,   \* 50: the longest list of stakeholders
    Oracle,            \* the attestation contract's address
    OtherContract      \* an address that answers no attestation query

ASSUME ShareAssumption ==
    /\ StakeholderLists \subseteq Seq([address : Holders, bps : Nat])
    /\ MaxStakeholders \in Nat
    /\ Absent \notin [total : Nat, amounts : Seq(Int)]

VARIABLES
    shareAdmin,     \* Admin
    shareSource,    \* AttestationContract
    shareToken,     \* Token
    stakeholders,   \* Stakeholders; empty: not configured
    distributions,  \* Distribution(business, period), or Absent
    distributed,    \* DistributionCount(business)
    shareNonces     \* ReplayKey::Nonce

shareVars == <<shareAdmin, shareSource, shareToken, stakeholders,
               distributions, distributed, shareNonces>>

ShareAdminChannel == 1
DistributeChannel == 2

ShareInit ==
    /\ shareAdmin = Nobody
    /\ shareSource = Nobody
    /\ shareToken = Nobody
    /\ stakeholders = <<>>
    /\ distributions = [k \in Keys |-> Absent]
    /\ distributed = [b \in Businesses |-> 0]
    /\ shareNonces = [c \in Accounts \X {ShareAdminChannel, DistributeChannel}
                        |-> 0]

ShareInitialize(caller, nonce, source, t) ==
    /\ shareAdmin = Nobody
    /\ NonceAccepted(shareNonces, caller, ShareAdminChannel, nonce)
    /\ shareNonces' = NonceSpent(shareNonces, caller, ShareAdminChannel)
    /\ shareAdmin' = caller
    /\ shareSource' = source
    /\ shareToken' = t
    /\ UNCHANGED <<world, stakeholders, distributions, distributed>>

\* require_admin_with_nonce
ShareAdminCall(nonce) ==
    /\ shareAdmin # Nobody
    /\ NonceAccepted(shareNonces, shareAdmin, ShareAdminChannel, nonce)
    /\ shareNonces' = NonceSpent(shareNonces, shareAdmin, ShareAdminChannel)
    /\ UNCHANGED <<world, shareAdmin, distributions, distributed>>

\* The stakeholders are distinct and their shares add up to 100%.
WellFormedShares(list) ==
    /\ list # <<>>
    /\ Len(list) <= MaxStakeholders
    /\ \A i \in DOMAIN list : list[i].bps > 0
    /\ \A i, j \in DOMAIN list : i # j => list[i].address # list[j].address
    /\ SumFunctionOnSet([i \in DOMAIN list |-> list[i].bps], DOMAIN list)
          = BasisPoints

ConfigureStakeholders(nonce, list) ==
    /\ ShareAdminCall(nonce)
    /\ WellFormedShares(list)
    /\ stakeholders' = list
    /\ UNCHANGED <<shareSource, shareToken>>

SetAttestationContract(nonce, source) ==
    /\ ShareAdminCall(nonce)
    /\ shareSource' = source
    /\ UNCHANGED <<shareToken, stakeholders>>

SetToken(nonce, t) ==
    /\ ShareAdminCall(nonce)
    /\ shareToken' = t
    /\ UNCHANGED <<shareSource, stakeholders>>

\* Mutant: the rounding residual is dropped.
AmountsRoundedDown(revenue) ==
    [i \in DOMAIN stakeholders |-> ShareOf(revenue, stakeholders[i].bps)]

\* Every stakeholder's cut; the first one also gets the rounding residual.
Amounts(revenue) ==
    LET cut == [i \in DOMAIN stakeholders |->
                  ShareOf(revenue, stakeholders[i].bps)]
        residual == revenue - SumFunctionOnSet(cut, DOMAIN cut)
    IN  [cut EXCEPT ![1] = @ + residual]

\* assert_revenue_attested: the stored root is the hash of the revenue, so a
\* call passes it only with the attested figure.
RevenueAttested(k, revenue) ==
    /\ shareSource = Oracle
    /\ InForce(k)
    /\ k \notin expired
    /\ attested[k].revenue = revenue

\* Mutant: the record of an earlier distribution is not looked at.
AlwaysOpen(k) == TRUE

NotDistributed(k) == distributions[k] = Absent

DistributeRevenue(k, revenue, nonce) ==
    /\ revenue >= 0
    /\ NotDistributed(k)
    /\ RevenueAttested(k, revenue)
    /\ stakeholders # <<>>
    /\ NonceAccepted(shareNonces, k[1], DistributeChannel, nonce)
    /\ shareNonces' = NonceSpent(shareNonces, k[1], DistributeChannel)
    /\ LET amounts == Amounts(revenue)
       IN  /\ balance[shareToken][k[1]] >= revenue
           /\ Pay(shareToken, k[1],
                  [a \in Accounts |->
                     SumFunctionOnSet(amounts,
                                      {i \in DOMAIN amounts :
                                          stakeholders[i].address = a})])
           /\ distributions' = [distributions EXCEPT
                                  ![k] = [total |-> revenue,
                                          amounts |-> amounts]]
    /\ distributed' = [distributed EXCEPT ![k[1]] = @ + 1]
    /\ UNCHANGED <<product, attested, revoked, expired, now, shareAdmin, shareSource,
                   shareToken, stakeholders>>

ShareNext ==
    /\ product = "share"
    /\ \/ \E nonce \in 0 .. NonceMax :
             \/ \E caller \in Admins,
                   source \in {Oracle, OtherContract}, t \in Tokens :
                      ShareInitialize(caller, nonce, source, t)
             \/ \E list \in StakeholderLists : ConfigureStakeholders(nonce, list)
             \/ \E source \in {Oracle, OtherContract} :
                   SetAttestationContract(nonce, source)
             \/ \E t \in Tokens : SetToken(nonce, t)
             \/ \E k \in Keys, revenue \in Revenues :
                   DistributeRevenue(k, revenue, nonce)
       \/ AttestationContractStep(Keys) /\ UNCHANGED shareVars

-----------------------------------------------------------------------------
(* Properties *)

\* What left a business's account, over all tokens, is exactly what the
\* distribution records say was distributed, however the token, the
\* attestation contract or the stakeholders changed in between: nothing is
\* paid twice, and rounding loses nothing.  (No stakeholder is a business.)
PaidAsRecorded ==
    product = "share" =>
    \A b \in Businesses \ Holders :
        SumFunctionOnSet([t \in Tokens |-> Funds - balance[t][b]], Tokens) =
            SumFunctionOnSet([p \in Months |->
                                IF distributions[<<b, p>>] = Absent THEN 0
                                ELSE distributions[<<b, p>>].total], Months)

=============================================================================
