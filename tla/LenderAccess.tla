---------------------------- MODULE LenderAccess ----------------------------
(***************************************************************************)
(* The lender access list (contracts/lender-access-list) and the lender    *)
(* consumer (contracts/lender-consumer) that asks it, on every call,       *)
(* whether the lender's tier suffices.  The consumer also reads the        *)
(* attestation contract, of which this module keeps what it reads: the     *)
(* root under a key, whether it is revoked, whether it is expired.         *)
(*                                                                         *)
(* A root is the SHA-256 of the revenue it commits to; a collision-free    *)
(* hash is modelled by the committed value itself.  Metadata, event        *)
(* payloads and update stamps are left out.                                *)
(***************************************************************************)
EXTENDS ProtocolWorld, SequencesExt

CONSTANTS
    Reports,         \* (business, period) keys
    ReportRevenues,  \* revenues a lender may submit, negative ones too
    Tiers            \* tiers an account may be given

LenderRecords == [tier : Nat, status : {"active", "removed"}]

ASSUME LenderAssumption ==
    /\ ReportRevenues \subseteq Int
    /\ Tiers \subseteq Nat
    /\ Absent \notin Int \cup LenderRecords

VARIABLES
    accAdmin,      \* access list: Admin
    accGov,        \* access list: the accounts with GovernanceRole
    accDelegates,  \* access list: the accounts with DelegatedAdmin
    lenders,       \* access list: Lender(address)
    lenderList,    \* access list: LenderList
    conAdmin,      \* consumer: Admin, with CoreAddress set
    conList,       \* consumer: the access list it asks, this one or another
    verified,      \* consumer: VerifiedRevenue(key)
    disputed,      \* consumer: the keys with DisputeStatus
    anomaly,       \* consumer: the keys with Anomaly
    coreRoots,     \* attestation contract: the root under the key
    coreRevoked,   \* attestation contract: the revoked keys
    coreExpired    \* attestation contract: the expired keys

accessVars == <<accAdmin, accGov, accDelegates, lenders, lenderList>>
consumerVars == <<conAdmin, conList, verified, disputed, anomaly>>
coreVars == <<coreRoots, coreRevoked, coreExpired>>
lenderVars == <<accessVars, consumerVars, coreVars>>

LenderInit ==
    /\ accAdmin = Nobody /\ accGov = {} /\ accDelegates = {}
    /\ lenders = [a \in Accounts |-> Absent]
    /\ lenderList = <<>>
    /\ conAdmin = Nobody /\ conList = "ours"
    /\ verified = [k \in Reports |-> Absent]
    /\ disputed = {} /\ anomaly = {}
    /\ coreRoots = [k \in Reports |-> Absent]
    /\ coreRevoked = {} /\ coreExpired = {}

-----------------------------------------------------------------------------
(* The access list *)

AccInitialize(admin) ==
    /\ accAdmin = Nobody
    /\ accAdmin' = admin
    /\ accGov' = accGov \cup {admin}
    /\ lenderList' = <<>>
    /\ UNCHANGED <<protocolWorld, accDelegates, lenders, consumerVars, coreVars>>

\* The old admin keeps its governance role.
AccTransferAdmin(admin, new) ==
    /\ admin = accAdmin /\ admin # new
    /\ accAdmin' = new
    /\ UNCHANGED <<protocolWorld, accGov, accDelegates, lenders, lenderList,
                   consumerVars, coreVars>>

\* grant_governance, revoke_governance, grant_delegated_admin and
\* revoke_delegated_admin
AccSetRole(admin, account, role, granted) ==
    /\ admin = accAdmin
    /\ LET After(members) == IF granted THEN members \cup {account}
                             ELSE members \ {account}
       IN  \/ /\ role = "governance"
              /\ accGov' = After(accGov) /\ UNCHANGED accDelegates
           \/ /\ role = "delegate"
              /\ accDelegates' = After(accDelegates) /\ UNCHANGED accGov
    /\ UNCHANGED <<protocolWorld, accAdmin, lenders, lenderList, consumerVars, coreVars>>

RequireLenderAdmin(caller) == caller \in accGov \cup accDelegates

AppendLenderToList(lender) ==
    IF lender \in Range(lenderList) THEN lenderList ELSE Append(lenderList, lender)

SetLender(caller, lender, tier) ==
    /\ RequireLenderAdmin(caller)
    /\ lenders' = [lenders EXCEPT ![lender] =
                      [tier |-> tier,
                       status |-> IF tier = 0 THEN "removed" ELSE "active"]]
    /\ lenderList' = IF lenders[lender] = Absent
                     THEN AppendLenderToList(lender) ELSE lenderList
    /\ UNCHANGED <<protocolWorld, accAdmin, accGov, accDelegates, consumerVars, coreVars>>

\* Mutant: the record is erased and the list keeps the lender.
EraseLender(caller, lender) ==
    /\ RequireLenderAdmin(caller)
    /\ lenders[lender] # Absent
    /\ lenders' = [lenders EXCEPT ![lender] = Absent]
    /\ UNCHANGED <<protocolWorld, accAdmin, accGov, accDelegates, lenderList,
                   consumerVars, coreVars>>

RemoveLender(caller, lender) ==
    /\ RequireLenderAdmin(caller)
    /\ lenders[lender] # Absent
    /\ lenders' = [lenders EXCEPT ![lender] = [tier |-> 0, status |-> "removed"]]
    /\ UNCHANGED <<protocolWorld, accAdmin, accGov, accDelegates, lenderList,
                   consumerVars, coreVars>>

IsAllowed(lender, minTier) ==
    \/ minTier = 0
    \/ /\ lenders[lender] # Absent
       /\ lenders[lender].status = "active"
       /\ lenders[lender].tier >= minTier

\* get_active_lenders, as a set
ActiveLenders ==
    {a \in Range(lenderList) :
        /\ lenders[a] # Absent
        /\ lenders[a].status = "active" /\ lenders[a].tier > 0}

-----------------------------------------------------------------------------
(* The consumer *)

ConInitialize(admin) ==
    /\ conAdmin = Nobody
    /\ conAdmin' = admin
    /\ UNCHANGED <<protocolWorld, accessVars, conList, verified, disputed,
                   anomaly, coreVars>>

SetAccessList(admin, list) ==
    /\ admin = conAdmin
    /\ conList' = list
    /\ UNCHANGED <<protocolWorld, accessVars, conAdmin, verified, disputed,
                   anomaly, coreVars>>

\* Another access list may answer anything.
RequireLenderTier(lender, minTier) ==
    conAdmin # Nobody /\ (conList = "ours" => IsAllowed(lender, minTier))

\* verify_with_safeguards: the first reason that applies
Verify(k, root) ==
    IF coreRoots[k] = Absent THEN "notFound"
    ELSE IF k \in coreExpired THEN "expired"
    ELSE IF k \in coreRevoked THEN "revoked"
    ELSE IF k \in disputed THEN "disputed"
    ELSE IF coreRoots[k] # root THEN "rootMismatch" ELSE "valid"

\* Mutant: a negative revenue sets the flag and nothing resets it.
FlagOnly(k, revenue) == IF revenue < 0 THEN anomaly \cup {k} ELSE anomaly

AnomalyAfter(k, revenue) ==
    IF revenue < 0 THEN anomaly \cup {k} ELSE anomaly \ {k}

Record(k, revenue) ==
    /\ verified' = [verified EXCEPT ![k] = revenue]
    /\ anomaly' = AnomalyAfter(k, revenue)
    /\ UNCHANGED <<protocolWorld, accessVars, conAdmin, conList, disputed, coreVars>>

SubmitRevenue(lender, k, revenue) ==
    /\ RequireLenderTier(lender, 1)
    /\ Verify(k, revenue) = "valid"
    /\ Record(k, revenue)

\* Looks at the root only.
SubmitRevenueUnchecked(lender, k, revenue) ==
    /\ RequireLenderTier(lender, 1)
    /\ coreRoots[k] = revenue
    /\ Record(k, revenue)

SetDispute(lender, k, isDisputed) ==
    /\ RequireLenderTier(lender, 2)
    /\ disputed' = IF isDisputed THEN disputed \cup {k} ELSE disputed \ {k}
    /\ UNCHANGED <<protocolWorld, accessVars, conAdmin, conList, verified,
                   anomaly, coreVars>>

ClearAnomaly(admin, k) ==
    /\ admin = conAdmin
    /\ anomaly' = anomaly \ {k}
    /\ UNCHANGED <<protocolWorld, accessVars, conAdmin, conList, verified,
                   disputed, coreVars>>

\* External: the attestation contract submits, migrates, revokes and expires;
\* a cleanup removes an expired attestation.
CoreStep(k) ==
    /\ \/ \E root \in ReportRevenues :
             /\ coreRoots' = [coreRoots EXCEPT ![k] = root]
             /\ k \notin coreRevoked
             /\ UNCHANGED <<coreRevoked, coreExpired>>
       \/ /\ coreRoots[k] # Absent
          /\ coreRevoked' = coreRevoked \cup {k}
          /\ UNCHANGED <<coreRoots, coreExpired>>
       \/ /\ coreRoots[k] # Absent
          /\ coreExpired' = coreExpired \cup {k}
          /\ UNCHANGED <<coreRoots, coreRevoked>>
       \/ /\ k \in coreExpired \ coreRevoked
          /\ coreRoots' = [coreRoots EXCEPT ![k] = Absent]
          /\ coreExpired' = coreExpired \ {k}
          /\ UNCHANGED coreRevoked
    /\ UNCHANGED <<protocolWorld, accessVars, consumerVars>>

EnrolCalls ==
    \E caller \in Accounts :
        \/ AccInitialize(caller)
        \/ \E account \in Accounts :
              \/ \E tier \in Tiers : SetLender(caller, account, tier)
              \/ RemoveLender(caller, account)

RoleCalls ==
    \E caller, account \in Accounts :
        \/ AccTransferAdmin(caller, account)
        \/ \E role \in {"governance", "delegate"}, granted \in BOOLEAN :
              AccSetRole(caller, account, role, granted)

ConsumerCalls ==
    \/ \E caller \in Accounts :
          \/ ConInitialize(caller)
          \/ \E list \in {"ours", "other"} : SetAccessList(caller, list)
          \/ \E k \in Reports :
                \/ \E revenue \in ReportRevenues :
                      \/ SubmitRevenue(caller, k, revenue)
                      \/ SubmitRevenueUnchecked(caller, k, revenue)
                \/ \E isDisputed \in BOOLEAN : SetDispute(caller, k, isDisputed)
                \/ ClearAnomaly(caller, k)
    \/ \E k \in Reports : CoreStep(k)

\* At site "lender" the access list is under study, at site "consumer" the
\* consumer with an access list whose roles stay as they are.
LenderNext ==
    \/ site = "lender" /\ (EnrolCalls \/ RoleCalls)
    \/ site = "consumer" /\ (EnrolCalls \/ ConsumerCalls)

-----------------------------------------------------------------------------
(* Properties *)

\* get_all_lenders lists every account that was ever enrolled, once, and the
\* active ones are exactly those is_allowed accepts at the lowest tier.
LendersListed ==
    /\ IsInjective(lenderList)
    /\ Range(lenderList) = {a \in Accounts : lenders[a] # Absent}
    /\ ActiveLenders = {a \in Accounts : IsAllowed(a, 1)}

\* An anomaly flag speaks of the revenue now stored: however often the period
\* is re-attested, resubmitted and cleared, a flagged key holds a negative
\* verified revenue.
AnomalyIsCurrent ==
    \A k \in anomaly : verified[k] # Absent /\ verified[k] < 0

=============================================================================
