---------------------------- MODULE ProtocolSuite ----------------------------
(***************************************************************************)
(* The contracts and parts of contracts around the attestation records,    *)
(* side by side: `site` says which of them is being called.                *)
(***************************************************************************)
EXTENDS ProtocolDao, GovernanceGating, AttestationRegistry, AggregatedAttestations,
        IntegrationRegistry, LenderAccess, BusinessConfig, NetworkConfig, AuditLog,
        RevenueCurve, RateLimits, SubmissionFees, SlashBinding, MultiPeriod

governanceSide == <<daoVars, gatingVars, networkVars, configVars>>
recordSide == <<snapVars, registryVars, aggVars, auditVars, vars>>
lendingSide == <<registryState, lenderVars, curveVars>>
submissionSide == <<limitVars, feeVars, slashVars>>

suiteVars == <<protocolWorld, governanceSide, recordSide, lendingSide, submissionSide>>

SuiteInit ==
    /\ ProtocolWorldInit
    /\ DaoInit /\ GatingInit /\ NetworkInit /\ ConfigInit
    /\ SnapshotInit /\ RegistryInit /\ AggregatedInit /\ AuditInit /\ Init
    /\ IntegrationInit /\ LenderInit /\ CurveInit
    /\ LimitsInit /\ FeesInit /\ SlashInit

GovernanceSideNext ==
    \/ DaoNext /\ UNCHANGED <<gatingVars, networkVars, configVars>>
    \/ GatingNext /\ UNCHANGED <<daoVars, networkVars, configVars>>
    \/ NetworkNext /\ UNCHANGED <<daoVars, gatingVars, configVars>>
    \/ ConfigNext /\ UNCHANGED <<daoVars, gatingVars, networkVars>>

RecordSideNext ==
    \/ SnapshotNext /\ UNCHANGED <<registryVars, aggVars, auditVars, vars>>
    \/ RegistryNext /\ UNCHANGED <<snapVars, aggVars, auditVars, vars>>
    \/ AggregatedNext /\ UNCHANGED <<registryVars, auditVars, vars>>
    \/ AuditNext /\ UNCHANGED <<snapVars, registryVars, aggVars, vars>>
    \/ /\ site = "ranges" /\ Next
       /\ UNCHANGED <<protocolWorld, snapVars, registryVars, aggVars, auditVars>>

LendingSideNext ==
    \/ IntegrationNext /\ UNCHANGED <<lenderVars, curveVars>>
    \/ LenderNext /\ UNCHANGED <<registryState, curveVars>>
    \/ CurveNext /\ UNCHANGED <<registryState, lenderVars>>

SubmissionSideNext ==
    \/ LimitsNext /\ UNCHANGED <<feeVars, slashVars>>
    \/ FeesNext /\ UNCHANGED <<limitVars, slashVars>>
    \/ SlashNext /\ UNCHANGED <<limitVars, feeVars>>

SuiteNext ==
    \/ GovernanceSideNext /\ UNCHANGED <<recordSide, lendingSide, submissionSide>>
    \/ RecordSideNext /\ UNCHANGED <<governanceSide, lendingSide, submissionSide>>
    \/ LendingSideNext /\ UNCHANGED <<governanceSide, recordSide, submissionSide>>
    \/ SubmissionSideNext /\ UNCHANGED <<governanceSide, recordSide, lendingSide>>

SuiteSpec == SuiteInit /\ [][SuiteNext]_suiteVars

-----------------------------------------------------------------------------
(* Properties *)

\* What a contract keeps or computes twice says the same both times, after any
\* sequence of calls: the two indexes of the snapshots and the batch totals of a
\* portfolio; the lists of providers, lenders, role holders and networks that
\* the readers walk and the records behind them; the anomaly flag and the
\* revenue it is about; the global and the per-network versions; the hash chain
\* and the indexes of the audit log; the fee history and its snapshots; the
\* index of the ranges' roots; and the two implementations a rollback swaps
\* (set_lender, register_provider, append, persist_epoch_snapshot, ...).
SideRecordsAgree ==
    /\ SnapshotIndexesAgree /\ BatchesSplitTotals
    /\ ProvidersListed /\ LendersListed /\ HoldersAndNetworksListed
    /\ AnomalyIsCurrent /\ GlobalVersionCounts
    /\ ChainCoversLog /\ SnapshotsFollowHistory
    /\ IndexFindsNewest /\ RollbackTargetDiffers

=============================================================================
