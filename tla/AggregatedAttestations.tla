----------------------- MODULE AggregatedAttestations -----------------------
(***************************************************************************)
(* The aggregated attestations contract (contracts/aggregated-attestations)*)
(* over the snapshot contract it queries: portfolios and their metrics,    *)
(* the roots submitted per time window, and the time-locked change of      *)
(* admin that governance_gating keeps for it.                              *)
(***************************************************************************)
EXTENDS AttestationSnapshot

CONSTANTS
    Portfolios,     \* portfolio ids
    BusinessLists,  \* business lists an admin may register
    RootVersions,   \* versions of a submitted root
    MaxRoots,       \* bound on the roots of a portfolio
    AdminDelays,    \* delays of an admin change
    AggNonceMax     \* u64::MAX of a replay nonce; bounds the admin's calls

ASSUME AggregatedAssumption ==
    /\ RootVersions \subseteq Nat
    /\ BusinessLists \subseteq Seq(SnapshotBusinesses)

VARIABLES
    aggAdmin,      \* Admin
    aggPending,    \* PendingAdmin and AdminActivationTime, or Absent
    portfolio,     \* Portfolio(id); empty if not registered
    roots,         \* PortfolioRoots(id), oldest first
    aggNonces      \* ReplayKey::Nonce on the admin and rotation channels

aggVars == <<aggAdmin, aggPending, portfolio, roots, aggNonces>>

AdminCalls == 1
RotationCalls == 256

AggregatedInit ==
    /\ aggAdmin = Nobody
    /\ aggPending = Absent
    /\ portfolio = [p \in Portfolios |-> <<>>]
    /\ roots = [p \in Portfolios |-> <<>>]
    /\ aggNonces = [c \in Accounts \X {AdminCalls, RotationCalls} |-> 0]

\* verify_and_increment_nonce with the nonce the caller provides.
SpendNonce(actor, channel, provided) ==
    /\ provided = aggNonces[<<actor, channel>>]
    /\ provided < AggNonceMax
    /\ aggNonces' = [aggNonces EXCEPT ![<<actor, channel>>] = @ + 1]

AggInitialize(caller, nonce) ==
    /\ aggAdmin = Nobody
    /\ SpendNonce(caller, AdminCalls, nonce)
    /\ aggAdmin' = caller
    /\ UNCHANGED <<protocolWorld, aggPending, portfolio, roots>>

RegisterPortfolio(caller, nonce, p, list) ==
    /\ caller = aggAdmin
    /\ \A i, j \in DOMAIN list : i # j => list[i] # list[j]
    /\ SpendNonce(caller, AdminCalls, nonce)
    /\ portfolio' = [portfolio EXCEPT ![p] = list]
    /\ UNCHANGED <<protocolWorld, aggAdmin, aggPending, roots>>

\* The record the code compares with: the last one of the highest version.
NewestRoot(p) ==
    LET top == {i \in DOMAIN roots[p] :
                  \A j \in DOMAIN roots[p] :
                     roots[p][j].version <= roots[p][i].version}
    IN  roots[p][CHOOSE i \in top : \A j \in top : j <= i]

\* Mutant: a window may begin anywhere.
AnyWindow(p, start, version) == TRUE

\* A version never goes back, and within one the windows follow each other.
WindowFits(p, start, version) ==
    roots[p] # <<>> =>
        /\ version >= NewestRoot(p).version
        /\ version = NewestRoot(p).version => start >= NewestRoot(p).end

SubmitAggregatedRoot(caller, p, start, end, version) ==
    /\ caller = aggAdmin
    /\ start < end
    /\ end <= clock
    /\ Len(roots[p]) < MaxRoots
    /\ WindowFits(p, start, version)
    /\ roots' = [roots EXCEPT ![p] = Append(@, [start |-> start, end |-> end,
                                                version |-> version])]
    /\ UNCHANGED <<protocolWorld, aggAdmin, aggPending, portfolio, aggNonces>>

\* The roots whose window [start, end) covers the instant t.
CoveringRoots(p, t) ==
    {i \in DOMAIN roots[p] : roots[p][i].start <= t /\ t < roots[p][i].end}

\* get_aggregated_root_at_timestamp: the first record of the highest version
\* that covers t.
RootAt(p, t) ==
    LET covering == CoveringRoots(p, t)
        top == {i \in covering :
                  \A j \in covering : roots[p][j].version <= roots[p][i].version}
    IN  IF covering = {} THEN Absent
        ELSE roots[p][CHOOSE i \in top : \A j \in top : i <= j]

SetPendingAdmin(caller, nonce, new, delay) ==
    /\ caller = aggAdmin
    /\ SpendNonce(caller, RotationCalls, nonce)
    /\ aggPending' = [admin |-> new, active |-> clock + delay]
    /\ UNCHANGED <<protocolWorld, aggAdmin, portfolio, roots>>

\* activate_admin: anyone may call it.
ActivateAdmin ==
    /\ aggPending # Absent
    /\ clock >= aggPending.active
    /\ aggAdmin' = aggPending.admin
    /\ aggPending' = Absent
    /\ UNCHANGED <<protocolWorld, portfolio, roots, aggNonces>>

PortfolioCalls ==
    \E caller \in Accounts, nonce \in 0 .. AggNonceMax :
        \/ AggInitialize(caller, nonce)
        \/ \E p \in Portfolios, list \in BusinessLists :
              RegisterPortfolio(caller, nonce, p, list)

RootCalls ==
    \/ \E caller \in Accounts :
          \/ \E nonce \in 0 .. AggNonceMax, new \in Accounts, delay \in AdminDelays :
                SetPendingAdmin(caller, nonce, new, delay)
          \/ \E p \in Portfolios, start, end \in 0 .. MaxClock[site],
                version \in RootVersions :
                   SubmitAggregatedRoot(caller, p, start, end, version)
    \/ ActivateAdmin

\* At site "aggregated" the roots and the admin are under study, at site
\* "metrics" the portfolios over a snapshot contract that records.
AggregatedNext ==
    \/ /\ site = "aggregated"
       /\ PortfolioCalls \/ RootCalls \/ (ClockTick /\ UNCHANGED aggVars)
       /\ UNCHANGED snapVars
    \/ /\ site = "metrics"
       /\ \/ PortfolioCalls /\ UNCHANGED snapVars
          \/ /\ \/ \E caller \in Accounts : SnapInitialize(caller, FALSE)
                \/ \E caller \in Accounts, k \in SnapshotKeys,
                      revenue \in SnapshotRevenues :
                         RecordSnapshot(caller, k, revenue)
             /\ UNCHANGED aggVars
          \/ ClockTick /\ UNCHANGED <<aggVars, snapVars>>

-----------------------------------------------------------------------------
(* The metrics the contract computes from the snapshots *)

\* get_snapshots_for_business
SnapshotsOf(b) == {e \in businessPeriods[b] : snapshots[<<b, e>>] # Absent}

Contribution(b, keep) ==
    SumFunctionOnSet([e \in keep |-> snapshots[<<b, e>>].revenue], keep)

\* Total, contributing businesses and average (rounded down: revenues here are
\* not negative) over the snapshots that `kept` lists for each business.
Metrics(p, kept) ==
    LET members == {portfolio[p][i] : i \in DOMAIN portfolio[p]}
        with == {b \in members : kept[b] # {}}
        total == SumFunctionOnSet([b \in members |-> Contribution(b, kept[b])],
                                  members)
    IN  [total |-> total, businesses |-> Cardinality(members),
         with |-> Cardinality(with),
         average |-> IF with = {} THEN 0 ELSE total \div Cardinality(with)]

\* get_aggregated_metrics
AggregatedMetrics(p) == Metrics(p, [b \in SnapshotBusinesses |-> SnapshotsOf(b)])

\* Mutant: every snapshot counts towards a batch.
WholeBatch(b, time) == SnapshotsOf(b)

\* The snapshots of b that belong to the batch recorded at `time`.
InBatch(b, time) == {e \in SnapshotsOf(b) : snapshots[<<b, e>>].at = time}

\* get_aggregated_metrics_for_batch
BatchMetrics(p, time) ==
    Metrics(p, [b \in SnapshotBusinesses |-> InBatch(b, time)])

\* check_batch_snapshot_consistency
BatchConsistent(p, time) ==
    \A i \in DOMAIN portfolio[p] :
        \A e \in SnapshotsOf(portfolio[p][i]) :
            snapshots[<<portfolio[p][i], e>>].at = time

-----------------------------------------------------------------------------
(* Properties *)

\* Whatever order roots and versions come in, an instant is covered by at most
\* one window of a version, and what get_aggregated_root_at_timestamp answers
\* for it is the root submitted last among those that cover it: a superseded
\* root never comes back.
RootWindowsDisjoint ==
    \A p \in Portfolios :
        /\ \A i, j \in DOMAIN roots[p] :
              i < j /\ roots[p][i].version = roots[p][j].version =>
                  roots[p][i].end <= roots[p][j].start
        /\ \A t \in 0 .. MaxClock[site], i \in DOMAIN roots[p] :
              i \in CoveringRoots(p, t)
                 /\ (\A j \in CoveringRoots(p, t) : j <= i)
              => RootAt(p, t) = roots[p][i]

\* The batches split the portfolio: the batch totals add up to the aggregated
\* total, and a batch the consistency check accepts is all there is.
BatchesSplitTotals ==
    \A p \in Portfolios :
        /\ AggregatedMetrics(p).total =
              SumFunctionOnSet([t \in 0 .. MaxClock[site] |-> BatchMetrics(p, t).total],
                               0 .. MaxClock[site])
        /\ \A t \in 0 .. MaxClock[site] :
              BatchConsistent(p, t) => BatchMetrics(p, t) = AggregatedMetrics(p)

=============================================================================
