---------------------------- MODULE SubmissionFees ----------------------------
(***************************************************************************)
(* What a submission to the attestation contract costs:                    *)
(* contracts/attestation/src/dynamic_fees.rs (a base fee with tier and     *)
(* volume discounts, changed at once or behind a timelock) and fees.rs (a  *)
(* flat fee with snapshots per epoch and a two-step change of collector),  *)
(* each overridable by a DAO contract, with the entry points of lib.rs.    *)
(*                                                                         *)
(* Under study are at site "fees" the dynamic fee's configuration, at site *)
(* "discounts" its discounts, at site "flat" the flat fee and at site      *)
(* "epochs" its snapshots; a submission charges both fees.  The admin's    *)
(* nonces are left out: see AuditLog for replay protection.                *)
(***************************************************************************)
EXTENDS ProtocolWorld, SequencesExt, FiniteSetsExt

CONSTANTS
    FeeBusinesses,  \* businesses that submit and pay
    FeeCollectors,  \* addresses that collect fees
    DaoContracts,   \* contracts with get_attestation_fee_config
    NoDao,          \* an address that is not such a contract
    Vault,          \* the attestation contract's own address
    FeeTokens,
    FeePeriods,     \* periods attested
    FeeConfigs,     \* [token, collector, fee, on] the admin or a DAO sets
    Purse,          \* what every payer holds of every token at first
    FeeTiers, MaxTier, Discounts, BracketLists, FullScale,
    FeeTimelock,    \* FEE_TIMELOCK_SECONDS
    BucketWindow,   \* FEE_BUCKET_WINDOW_SECONDS
    FlatEpochs,     \* epochs the admin sets
    MaxHistory,     \* MAX_EPOCH_HISTORY
    MaxRangeFees       \* bound on the multi-period submissions per business

Holders == FeeBusinesses \cup FeeCollectors \cup {Vault}

FeeRecords == [token : FeeTokens, collector : FeeCollectors, fee : Int, on : BOOLEAN]

RotationRecords == [old : FeeCollectors, new : FeeCollectors, token : FeeTokens,
                    escrowed : Int]

\* Payers, collectors and the contract are kept apart, so that a balance tells
\* what was paid, collected or held in escrow.
ASSUME FeesAssumption ==
    /\ FeeConfigs \subseteq FeeRecords
    /\ Absent \notin FeeRecords \cup RotationRecords
    /\ Nobody \notin DaoContracts
    /\ IsFiniteSet(FeeBusinesses) /\ IsFiniteSet(FeeTokens) /\ IsFiniteSet(FeePeriods)
    /\ FeeBusinesses \cap (FeeCollectors \cup {Vault}) = {}
    /\ Vault \notin FeeCollectors
    /\ Purse \in Nat /\ FullScale \in Nat \ {0}
    /\ 0 \in FeeTiers /\ Discounts \subseteq Nat
    /\ BracketLists \subseteq Seq([threshold : Nat, discount : Nat])
    /\ 0 \in FlatEpochs /\ MaxHistory \in Nat \ {0}

VARIABLES
    feeConfig,     \* FeeConfig, or Absent
    feePending,    \* PendingFeeConfig, or Absent
    tierDiscount,  \* TierDiscount(tier)
    tierOf,        \* BusinessTier(business)
    brackets,      \* VolumeThresholds and VolumeDiscounts, paired
    feeDao,        \* Dao, or Nobody
    flatConfig,    \* FlatFeeConfig, or Absent
    flatDao,       \* the flat fee's Dao, or Nobody
    daoRotation,   \* PendingDaoRotation, or Absent
    rotation,      \* CollectorRotationProposal, or Absent
    flatEpoch,     \* CurrentEpoch
    feeSnapshots,  \* EpochSnapshot(epoch)
    history,       \* EpochHistory
    daoAnswer,     \* external: what a DAO contract answers
    purse,         \* external: token balances
    attested,      \* the (business, period) pairs with an attestation
    submitted,     \* BusinessCount(business)
    rangeFees,     \* fee_paid of a business's multi-period ranges
    epochSubs,     \* EpochSubmissions(period)
    epochFees,     \* EpochFees(period)
    feeEpoch,      \* EpochCounter
    lastBucket     \* LastFeeBucket, or Absent

dynamicVars == <<feeConfig, feePending, tierDiscount, tierOf, brackets, feeDao>>
flatVars == <<flatConfig, flatDao, daoRotation, rotation, flatEpoch, feeSnapshots,
              history>>
chargeVars == <<attested, submitted, rangeFees, epochSubs, epochFees, feeEpoch,
                lastBucket>>
feeVars == <<dynamicVars, flatVars, chargeVars, daoAnswer, purse>>

FeesInit ==
    /\ feeConfig = Absent /\ feePending = Absent /\ feeDao = Nobody
    /\ tierDiscount = [t \in FeeTiers |-> 0]
    /\ tierOf = [b \in FeeBusinesses |-> 0]
    /\ brackets = <<>>
    /\ flatConfig = Absent /\ flatDao = Nobody
    /\ daoRotation = Absent /\ rotation = Absent
    /\ flatEpoch = 0 /\ history = <<>>
    /\ feeSnapshots = [e \in FlatEpochs |-> Absent]
    /\ daoAnswer = [d \in DaoContracts |-> Absent]
    /\ purse = [t \in FeeTokens |->
                  [a \in Holders |-> IF a \in FeeBusinesses THEN Purse ELSE 0]]
    /\ attested = {}
    /\ submitted = [b \in FeeBusinesses |-> 0]
    /\ rangeFees = [b \in FeeBusinesses |-> <<>>]
    /\ epochSubs = [p \in FeePeriods |-> 0]
    /\ epochFees = [p \in FeePeriods |-> 0]
    /\ feeEpoch = 0 /\ lastBucket = Absent

\* token::Client::transfer
Moved(p, token, from, to, amount) ==
    [p EXCEPT ![token][from] = @ - amount, ![token][to] = @ + amount]

\* External: the DAO settles on another answer, or on none.
DaoAnswers(d, c) ==
    /\ daoAnswer' = [daoAnswer EXCEPT ![d] = c]
    /\ UNCHANGED <<protocolWorld, dynamicVars, flatVars, chargeVars, purse>>

-----------------------------------------------------------------------------
(* The dynamic fee *)

ConfigureFees(c) ==
    /\ c.fee >= 0
    /\ feeConfig' = c
    /\ UNCHANGED <<protocolWorld, feePending, tierDiscount, tierOf, brackets,
                   feeDao, flatVars, chargeVars, daoAnswer, purse>>

ProposeFeeConfig(c) ==
    /\ c.fee >= 0
    /\ feePending = Absent
    /\ feePending' = [config |-> c, effectiveAt |-> clock + FeeTimelock]
    /\ UNCHANGED <<protocolWorld, feeConfig, tierDiscount, tierOf, brackets,
                   feeDao, flatVars, chargeVars, daoAnswer, purse>>

CommitFeeConfig ==
    /\ feePending # Absent
    /\ clock >= feePending.effectiveAt
    /\ feeConfig' = feePending.config
    /\ feePending' = Absent
    /\ UNCHANGED <<protocolWorld, tierDiscount, tierOf, brackets, feeDao,
                   flatVars, chargeVars, daoAnswer, purse>>

CancelPendingFeeConfig ==
    /\ feePending # Absent
    /\ feePending' = Absent
    /\ UNCHANGED <<protocolWorld, feeConfig, tierDiscount, tierOf, brackets,
                   feeDao, flatVars, chargeVars, daoAnswer, purse>>

SetFeeEnabled(on) ==
    /\ feeConfig # Absent
    /\ feeConfig' = [feeConfig EXCEPT !.on = on]
    /\ UNCHANGED <<protocolWorld, feePending, tierDiscount, tierOf, brackets,
                   feeDao, flatVars, chargeVars, daoAnswer, purse>>

SetTierDiscount(tier, discount) ==
    /\ tier <= MaxTier
    /\ discount <= FullScale
    /\ tierDiscount' = [tierDiscount EXCEPT ![tier] = discount]
    /\ UNCHANGED <<protocolWorld, feeConfig, feePending, tierOf, brackets,
                   feeDao, flatVars, chargeVars, daoAnswer, purse>>

SetBusinessTier(b, tier) ==
    /\ tier <= MaxTier
    /\ tierOf' = [tierOf EXCEPT ![b] = tier]
    /\ UNCHANGED <<protocolWorld, feeConfig, feePending, tierDiscount, brackets,
                   feeDao, flatVars, chargeVars, daoAnswer, purse>>

SetVolumeBrackets(list) ==
    /\ \A i \in 2 .. Len(list) : list[i].threshold > list[i - 1].threshold
    /\ \A i \in DOMAIN list : list[i].discount <= FullScale
    /\ brackets' = list
    /\ UNCHANGED <<protocolWorld, feeConfig, feePending, tierDiscount, tierOf,
                   feeDao, flatVars, chargeVars, daoAnswer, purse>>

\* set_dao asks the DAO nothing: an address that is no DAO contract is taken.
SetDao(d) ==
    /\ feeDao' = d
    /\ UNCHANGED <<protocolWorld, feeConfig, feePending, tierDiscount, tierOf,
                   brackets, flatVars, chargeVars, daoAnswer, purse>>

VolumeDiscountForCount(count) ==
    LET reached == {i \in DOMAIN brackets : count >= brackets[i].threshold}
    IN  IF reached = {} THEN 0 ELSE brackets[Max(reached)].discount

ComputeFee(base, tierDisc, volDisc) ==
    (base * (FullScale - tierDisc) * (FullScale - volDisc))
        \div (FullScale * FullScale)

\* compute_fee panics on a negative fee, which only a DAO's answer can be.
Computable(c) == c # Absent /\ c.on => c.fee >= 0

\* A DAO that is no contract makes the call, and so the submission, fail.
Reachable(d) == d = Nobody \/ d \in DaoContracts

\* get_effective_fee_config and get_effective_flat_fee_config: the DAO's answer
\* if there is one.
EffectiveConfig(d, stored) ==
    IF d # Nobody /\ daoAnswer[d] # Absent THEN daoAnswer[d] ELSE stored

CalculateFee(b) ==
    LET c == EffectiveConfig(feeDao, feeConfig)
    IN  IF c # Absent /\ c.on
        THEN ComputeFee(c.fee, tierDiscount[tierOf[b]],
                        VolumeDiscountForCount(submitted[b]))
        ELSE 0

CalculateFlatFee ==
    LET c == EffectiveConfig(flatDao, flatConfig)
    IN  IF c # Absent /\ c.on /\ c.fee > 0 THEN c.fee ELSE 0

\* collect_fee_from and collect_flat_fee: the balances after a fee was paid
Charged(p, payer, c, fee) ==
    IF fee > 0 THEN Moved(p, c.token, payer, c.collector, fee) ELSE p

Covers(p, payer, c, fee) == fee > 0 => p[c.token][payer] >= fee

\* handle_epoch_rollover: the first submission opens epoch 1, then one epoch per
\* bucket that has passed.
HandleEpochRollover ==
    LET bucket == clock \div BucketWindow
        passed == CASE lastBucket = Absent -> 1
                    [] lastBucket # Absent /\ bucket > lastBucket -> bucket - lastBucket
                    [] OTHER -> 0
    IN  /\ feeEpoch' = feeEpoch + passed
        /\ lastBucket' = bucket

\* Mutant: only the dynamic fee is recorded.
DynamicPart(dynamic, flat) == dynamic

TotalFee(dynamic, flat) == dynamic + flat

\* do_submit_attestation and one item of a batch, for the part about fees; an
\* attestor pays in the place of the business when it submits for it.
SubmitAttestation(payer, b, p) ==
    LET dynamicConfig == EffectiveConfig(feeDao, feeConfig)
        flat == EffectiveConfig(flatDao, flatConfig)
        dynamicFee == CalculateFee(b)
        after == Charged(purse, payer, dynamicConfig, dynamicFee)
        total == TotalFee(dynamicFee, CalculateFlatFee)
    IN  /\ <<b, p>> \notin attested
        /\ Reachable(feeDao) /\ Reachable(flatDao)
        /\ Computable(dynamicConfig)
        /\ HandleEpochRollover
        /\ Covers(purse, payer, dynamicConfig, dynamicFee)
        /\ Covers(after, payer, flat, CalculateFlatFee)
        /\ purse' = Charged(after, payer, flat, CalculateFlatFee)
        /\ attested' = attested \cup {<<b, p>>}
        /\ submitted' = [submitted EXCEPT ![b] = @ + 1]
        /\ epochSubs' = [epochSubs EXCEPT ![p] = @ + 1]
        /\ epochFees' = [epochFees EXCEPT ![p] = @ + total]
        /\ UNCHANGED <<protocolWorld, dynamicVars, flatVars, daoAnswer, rangeFees>>

\* submit_multi_period_attestation charges the dynamic fee only and keeps it
\* with the range.
SubmitMultiPeriod(b) ==
    LET c == EffectiveConfig(feeDao, feeConfig)
    IN  /\ Len(rangeFees[b]) < MaxRangeFees
        /\ Reachable(feeDao)
        /\ Computable(c)
        /\ Covers(purse, b, c, CalculateFee(b))
        /\ purse' = Charged(purse, b, c, CalculateFee(b))
        /\ submitted' = [submitted EXCEPT ![b] = @ + 1]
        /\ rangeFees' = [rangeFees EXCEPT ![b] = Append(@, CalculateFee(b))]
        /\ UNCHANGED <<protocolWorld, dynamicVars, flatVars, daoAnswer, attested,
                       epochSubs, epochFees, feeEpoch, lastBucket>>

-----------------------------------------------------------------------------
(* The flat fee *)

\* Mutant: a full history is cut, its snapshot stays behind.
KeepEvicted(e, config) ==
    /\ feeSnapshots' = [feeSnapshots EXCEPT ![e] = config]
    /\ history' = IF e \in Range(history) THEN history
                  ELSE SubSeq(Append(history, e),
                              IF Len(history) = MaxHistory THEN 2 ELSE 1,
                              Len(history) + 1)

\* persist_epoch_snapshot_for with a configuration: the oldest entry of a full
\* history is evicted together with its snapshot.
PersistEpochSnapshot(e, config) ==
    LET grown == IF e \in Range(history) THEN history ELSE Append(history, e)
        kept == SubSeq(grown, Max({1, Len(grown) - MaxHistory + 1}), Len(grown))
    IN  /\ history' = kept
        /\ feeSnapshots' = [x \in FlatEpochs |->
                            IF x \notin Range(kept) THEN Absent
                            ELSE IF x = e THEN config ELSE feeSnapshots[x]]

\* persist_epoch_snapshot_for: nothing is stored while no fee is in force.
PersistFor(e, config) ==
    IF config = Absent THEN UNCHANGED <<history, feeSnapshots>>
    ELSE PersistEpochSnapshot(e, config)

ConfigureFlatFee(c) ==
    /\ Reachable(flatDao)
    /\ flatConfig' = c
    /\ PersistFor(flatEpoch, EffectiveConfig(flatDao, c))
    /\ UNCHANGED <<protocolWorld, dynamicVars, chargeVars, flatDao, daoRotation,
                   rotation, flatEpoch, daoAnswer, purse>>

\* set_flat_fee_dao by the admin: the snapshot calls the new DAO.
SetFlatFeeDao(d) ==
    /\ d \in DaoContracts
    /\ flatDao' = d
    /\ PersistFor(flatEpoch, EffectiveConfig(d, flatConfig))
    /\ UNCHANGED <<protocolWorld, dynamicVars, chargeVars, flatConfig, daoRotation,
                   rotation, flatEpoch, daoAnswer, purse>>

\* Without a DAO the old one is the contract itself, which signs nothing.
ProposeDaoRotation(d) ==
    /\ daoRotation = Absent
    /\ daoRotation' = [old |-> flatDao, new |-> d]
    /\ UNCHANGED <<protocolWorld, dynamicVars, chargeVars, flatConfig, flatDao,
                   rotation, flatEpoch, feeSnapshots, history, daoAnswer, purse>>

AcceptDaoRotation ==
    /\ daoRotation # Absent
    /\ daoRotation.new \in DaoContracts
    /\ flatDao' = daoRotation.new
    /\ PersistFor(flatEpoch, EffectiveConfig(daoRotation.new, flatConfig))
    /\ daoRotation' = Absent
    /\ UNCHANGED <<protocolWorld, dynamicVars, chargeVars, flatConfig, rotation,
                   flatEpoch, daoAnswer, purse>>

CancelDaoRotation ==
    /\ daoRotation # Absent
    /\ daoRotation.old # Nobody
    /\ daoRotation' = Absent
    /\ UNCHANGED <<protocolWorld, dynamicVars, chargeVars, flatConfig, flatDao,
                   rotation, flatEpoch, feeSnapshots, history, daoAnswer, purse>>

\* The collector's whole balance goes into escrow.
ProposeCollectorRotation(new) ==
    /\ flatConfig # Absent
    /\ flatDao = Nobody
    /\ rotation = Absent
    /\ LET held == purse[flatConfig.token][flatConfig.collector]
       IN  /\ purse' = Moved(purse, flatConfig.token, flatConfig.collector, Vault, held)
           /\ rotation' = [old |-> flatConfig.collector, new |-> new,
                           token |-> flatConfig.token, escrowed |-> held]
    /\ UNCHANGED <<protocolWorld, dynamicVars, chargeVars, flatConfig, flatDao,
                   daoRotation, flatEpoch, feeSnapshots, history, daoAnswer>>

\* accept_collector_rotation: the escrow goes to the new collector in the token
\* it was taken in, whatever token the configuration names by now.
AcceptCollectorRotation ==
    /\ rotation # Absent
    /\ flatConfig # Absent
    /\ flatConfig.collector = rotation.old
    /\ Reachable(flatDao)
    /\ LET c == [flatConfig EXCEPT !.collector = rotation.new]
       IN  /\ flatConfig' = c
           /\ PersistFor(flatEpoch, EffectiveConfig(flatDao, c))
    /\ purse' = Moved(purse, rotation.token, Vault, rotation.new, rotation.escrowed)
    /\ rotation' = Absent
    /\ UNCHANGED <<protocolWorld, dynamicVars, chargeVars, flatDao, daoRotation,
                   flatEpoch, daoAnswer>>

\* advance_epoch and set_current_epoch
SetCurrentEpoch(e) ==
    /\ Reachable(flatDao)
    /\ flatEpoch' = e
    /\ PersistFor(e, EffectiveConfig(flatDao, flatConfig))
    /\ UNCHANGED <<protocolWorld, dynamicVars, chargeVars, flatConfig, flatDao,
                   daoRotation, rotation, daoAnswer, purse>>

-----------------------------------------------------------------------------

DynamicNext ==
    \/ \E c \in FeeConfigs : ConfigureFees(c) \/ ProposeFeeConfig(c)
    \/ CommitFeeConfig \/ CancelPendingFeeConfig
    \/ \E on \in BOOLEAN : SetFeeEnabled(on)
    \/ \E d \in DaoContracts \cup {NoDao} : SetDao(d)

DiscountsNext ==
    \/ \E c \in FeeConfigs : ConfigureFees(c)
    \/ \E t \in FeeTiers, d \in Discounts : SetTierDiscount(t, d)
    \/ \E b \in FeeBusinesses, t \in FeeTiers : SetBusinessTier(b, t)
    \/ \E list \in BracketLists : SetVolumeBrackets(list)

FlatNext ==
    \/ \E c \in FeeConfigs : ConfigureFlatFee(c)
    \/ \E d \in DaoContracts \cup {NoDao} : ProposeDaoRotation(d)
    \/ AcceptDaoRotation \/ CancelDaoRotation
    \/ \E d \in DaoContracts : SetFlatFeeDao(d)
    \/ \E new \in FeeCollectors : ProposeCollectorRotation(new)
    \/ AcceptCollectorRotation

EpochsNext ==
    \/ \E c \in FeeConfigs : ConfigureFlatFee(c)
    \/ \E d \in DaoContracts : SetFlatFeeDao(d)
    \/ \E e \in FlatEpochs : SetCurrentEpoch(e)

SubmitNext ==
    \/ \E payer, b \in FeeBusinesses, p \in FeePeriods : SubmitAttestation(payer, b, p)
    \/ \E b \in FeeBusinesses : SubmitMultiPeriod(b)

DaoNextAnswer == \E d \in DaoContracts, c \in FeeConfigs \cup {Absent} : DaoAnswers(d, c)

FeesNext ==
    \/ /\ site = "fees"
       /\ \/ DynamicNext \/ SubmitNext \/ DaoNextAnswer
          \/ ClockTick /\ UNCHANGED feeVars
    \/ site = "discounts" /\ (DiscountsNext \/ SubmitNext)
    \/ site = "flat" /\ (FlatNext \/ SubmitNext \/ DaoNextAnswer)
    \/ site = "epochs" /\ (EpochsNext \/ DaoNextAnswer)

-----------------------------------------------------------------------------
(* Properties *)

\* Every coin is accounted for: what the payers are short of is what the
\* records of the periods and of the multi-period ranges say was charged
\* (EpochFees, fee_paid), across every change of configuration, DAO and
\* collector in between; and the contract holds exactly the escrow of the open
\* collector rotation.
FeesAccountedFor ==
    LET Spent == SumFunction([t \in FeeTokens |->
                    SumFunction([b \in FeeBusinesses |-> Purse - purse[t][b]])])
        Recorded == SumFunction(epochFees)
                    + SumFunction([b \in FeeBusinesses |-> SumFunction(rangeFees[b])])
    IN  /\ Spent = Recorded
        /\ \A t \in FeeTokens :
              purse[t][Vault] = IF rotation # Absent /\ rotation.token = t
                                THEN rotation.escrowed ELSE 0

\* The epoch history and the snapshots tell the same story: the history lists
\* exactly the epochs with a snapshot, once each and never more than
\* MAX_EPOCH_HISTORY; and while no DAO is in force the current epoch's snapshot
\* is the configuration submissions are charged by.
SnapshotsFollowHistory ==
    /\ IsInjective(history)
    /\ Len(history) <= MaxHistory
    /\ \A e \in FlatEpochs : feeSnapshots[e] # Absent <=> e \in Range(history)
    /\ flatDao = Nobody /\ flatConfig # Absent => feeSnapshots[flatEpoch] = flatConfig

=============================================================================
