# Veritasor contracts: TLA+ models, checks and proofs

Veritasor is a family of Soroban (Stellar) contracts. Businesses publish Merkle
roots of their revenue per period ("attestations"); attestors stake tokens and
vouch for them; lenders and revenue products read them; disputes, multisig
governance and admin-key rotation decide who may change what. The source is
under `contracts/`; paths below are relative to the repository root.

A contract call is one transaction: it runs alone, and when it panics the host
discards every write. What makes these contracts hard is therefore not two
threads in one function but **long sequences of legal calls by different
parties**: a record archived while a dispute about it is open, two governance
proposals voted on different owner sets, a key rotation proposed and then
overtaken by an emergency rotation, a slash in the middle of a queue of
withdrawals. These are the cases the models enumerate.

## 1. Inventory

| Part | State | Operations | Correct when |
|---|---|---|---|
| attestor staking (`contracts/attestor-staking`) | stake and locked amount, queue of pending unstakes, used dispute ids, token balances, unbonding period | stake, request_unstake, withdraw_unstaked, slash, setters | the queue accounts for the locked amount; the contract can pay everybody; each dispute slashes once; nobody leaves early |
| roles and Admin key (`attestation/src/access_control.rs`) | role bitmap per account, holder index, last admin removal, Admin key | initialize, grant/revoke_role, swap_admin | an admin always remains; the index equals the roles |
| key rotation (`common/src/key_rotation.rs`) | configuration, one request, history, count, last rotation | propose, confirm, cancel, emergency, configure | requests are never stale; history is a chain; planned rotations take time |
| multisig and pause (`attestation/src/multisig.rs`) | owners, threshold, proposals with weight snapshots, pause switch and scheduled pause | create, approve, reject, execute, cleanup, pause calls | execution needs the quorum of the proposal's creation; quorum stays reachable; a pause ends by an unpause only |
| attestations (`attestation/src/lib.rs`) | records in two storage tiers, submitter, attestor, archive, revocations and their index and sequence, registry status | submit, batch submit, migrate, extend, clean up, archive, compact, four revocation paths | no record leaves silently; revocation is final; index, sequence and records agree |
| disputes (`attestation/src/dispute.rs`) | disputes with status and outcome, lock count per attestor | open, resolve, witness, close, rollback, deadline | one live dispute per attestation; locks follow open disputes |
| slashing (`attestation/src/lib.rs`) | bound staking contract, pending binding, audit log address | propose/commit/cancel_staking_contract, resolve_dispute, trigger_slash | a slash hits a contract that was announced long enough before, and a dispute id is spent once |
| multi-period ranges (`attestation/src/lib.rs`) | ranges per business, root index | submit, revoke, verify | live ranges never overlap; one root per period; the index finds the newest range |
| fees (`dynamic_fees.rs`, `fees.rs`) | dynamic and flat configuration, pending changes, discounts, DAO overrides, snapshots per epoch, escrow of a collector rotation | configure, propose/commit/cancel, set discounts, rotate, submit | every coin charged is recorded; history and snapshots agree |
| rate limits (`rate_limit.rs`) | timestamps per business, high-water clock | configure, check and record | no more than the limit in any window, whatever the clock does |
| permits, metadata, network settings and events of the attestation contract | stored metadata, event payloads | setters | nothing else depends on it |
| replay protection (`common/src/replay_protection.rs`) | nonce per actor and channel | verify and increment | a signed call is performed once at most, in order |
| governance gating (`common/src/governance_gating.rs`) | thresholds, delegations, emergency pause | set, delegate, revoke, pause | power handed over equals power taken back |
| attestation-registry | current and previous implementation, versions, keys | upgrade, rollback, transfer | a rollback has somewhere else to go |
| attestation-snapshot | snapshots, two indexes, finalized epochs, pending restore | record, finalize, restore dry run and commit | finalized epochs never change; the indexes list what there is |
| aggregated-attestations | portfolios, roots with windows and versions, pending admin | register, submit root, rotate admin, metrics | one answer per instant; batches add up |
| audit-log | entries, hash chain, two indexes, nonce | append | append-only, in nonce order |
| business-config | records per business, defaults, anchors | set, update a section, set defaults, anchor | an anchored section stays put |
| network-config | roles, networks, versions, implementations | grant, revoke, set, upgrade, rollback | lists equal the records; versions add up |
| integration-registry | namespaces, their governance, providers, nonces | register, enable, deprecate, disable, update | lists equal the records |
| lender-access-list, lender-consumer | tiers, delegated admins, lender list; verified revenue, anomalies, disputes | set, remove; submit, flag, clear | list and records agree; a flag speaks of the revenue stored |
| protocol-dao | proposals, tallies, voters, configuration, governed fees and pause | propose, vote, execute, cancel, transfer | only a vote decides; a decision stays |
| protocol-simulation | none of its own | scripted scenarios | test driver |
| revenue-curve | policy, tiers | set, price | prices within bounds and monotone |
| revenue-stream | streams, pause and time remap | create, release, pause, resume | funded; nothing vests while paused; what vested gets paid |
| revenue-settlement | agreements, settlements, token per period | create, settle one or many periods, close | a paid period stays paid |
| revenue-share | stakeholders, distributions | configure, distribute | the records say what was paid |
| revenue-bonds | bonds, owners, redemptions, totals | issue, redeem, transfer, close | never more than the face value, to the owner, while due |

How they interact: the attestation contract asks the staking contract to slash
when a dispute is upheld and the audit log to record a slash; it asks a DAO for
its fees; the registry points at the attestation contract in force; snapshots,
lender-consumer and the revenue products read attestations from it; the
aggregated attestations read the snapshots; executed multisig proposals call
into roles, rotation, pause and fees of the same contract; `key_rotation.rs`,
`governance_gating.rs` and `replay_protection.rs` are libraries whose state
lives in the calling contract.

## 2. The modules

| Module | Models | Composes |
|---|---|---|
| `Vectors` | the removal of positions from a Soroban `Vec` | |
| `AttestorStaking` | attestor-staking, with the token as an external ledger | `Vectors` |
| `AdminKeys` | roles, swap_admin, the Admin key and the whole key-rotation life cycle | |
| `Governance` | multisig and the pause switch | extends `AdminKeys`: an executed proposal acts on its variables |
| `Attestations` | registry, records, archive, revocation, disputes and locks | |
| `MultiPeriod` | ranges over several periods | |
| `RevenueWorld` | the tokens, the clock, the replay nonces and the attestation contract's read interface, as the products see them | |
| `RevenueStream`, `RevenueSettlement`, `RevenueShare`, `RevenueBonds` | one product contract each | `RevenueWorld` |
| `RevenueProducts` | the four products, one of them deployed, with the fairness of `release` | the four |
| `ProtocolWorld` | the clock, the accounts and the site a behaviour is about | |
| `ProtocolDao`, `GovernanceGating`, `AttestationRegistry`, `AttestationSnapshot`, `IntegrationRegistry`, `LenderAccess`, `BusinessConfig`, `NetworkConfig`, `RevenueCurve` | one contract each (`LenderAccess`: access list and consumer, which calls it) | `ProtocolWorld` |
| `AggregatedAttestations` | portfolios and roots | extends `AttestationSnapshot`, which it reads |
| `AuditLog`, `CallLog` | the audit log under an unreliable network, and the abstract log of signed calls it implements | `AuditLog` instantiates `CallLog` |
| `RateLimits`, `SubmissionFees`, `SlashBinding` | parts of the attestation contract: what a submission may cost, how often it may come, and how a dispute reaches the staking contract | `ProtocolWorld` |
| `ProtocolSuite` | all of these side by side, and the ranges | the modules above |
| `SumTheorems` | facts about sums over finite sets, used by the proofs | |
| `*Proofs` | the theorems of a module (`ProtocolSuiteProofs`: of every module of the suite; `RevenueProductsProofs`: of the four products) | extend the module and `TLAPS` |
| `MC*` | the model values of the TLC instances | extend the module |

Correspondence with the code:

* **One action is one successful entry-point call**, with everything the call
  does, down to the helpers in other files. A panic is rolled back by the host,
  so a call that panics is not a step: `panic!`, `assert!` and `unwrap` are the
  guards. `require_auth` on a parameter makes that parameter the signer.
* A storage key is a variable or a function; an absent key is `Nobody`,
  `None`, `Absent`, `NoData`, the empty set or the empty sequence, as the
  declaration says.
* `now` (`clock` in the suite) is the ledger clock (timestamp or sequence
  number, whichever the component reads); `Tick` advances it. It stands still
  between calls of one ledger, so calls in the same ledger interleave in every
  order. `RateLimits` also lets it step back, which its code provides for.
* Hashes, names, Merkle roots and payloads are model values; the audit log's
  hash is a free constructor, so two entries hash alike only if they are alike.
  The restore's batch hash is the tuple of the fields it covers, no others.
* `saturating_add` and `checked_add` keep their limits (`U64Max`, `U32Max`).
* `Governance` keeps of a proposal what decides its fate: status, action,
  approvals, the owner and threshold snapshots and the expiry.
  An `"Absent"` proposal is an id not yet created or cleaned up.
* `MoveToArchive` takes a sequence of keys because the order of the argument
  decides the archive ordinals; batch submission takes a function from keys to
  records because its outcome does not depend on the order.
* The contracts of `ProtocolSuite` do not share state except where one module
  extends another, so each behaviour visits one `site`: the union of the sites'
  state spaces is explored instead of their product. A site is a contract from
  its deployment on; larger contracts have several (`fees`, `discounts`, `flat`
  and `epochs` for the fees, `aggregated` and `metrics` for the aggregates,
  `lender` and `consumer` for the lenders, `gating` and `delegation` for the
  governance gate), each with the calls whose interplay it is about.
* A definition with the comment `Mutant:` is a plausible faulty version of the
  definition after it. No specification uses it; it documents what change of
  the code the properties are sensitive to (`mutants` in `PROJECT.json`).

## 3. What TLC checks

All runs explore their instance exhaustively. The runs of the core check for
deadlock: in every reachable state some call is still possible. `products` and
`platform` do not, because every call of a contract there is bounded by an id, a
nonce or a settled period, and a spent instance may stop.

| Run | Instance and why it is enough | Properties |
|---|---|---|
| `staking` | Two attestors who share the contract's balance, 3 tokens each, amounts {1,2}, queues of 2, two dispute ids, a period within and one beyond the maximum, a clock that reaches the saturation point. A slash then meets a full, partly matured, already emptied queue, twice. | `QueueMatchesLocked`, `QueueInUnlockOrder`, `Solvent`, `SlashCutsNewestFirst`, `OneSlashPerDispute`, `NoEarlyExit` |
| `keys` | The governed contract with two accounts and the zero account, one proposal that grants, revokes, rotates, sets fees or touches the pause, beside every direct call on the keys; three rotations with a history of two, so that trimming happens. | `HoldersMatchRoles`, `SomeAdminRemains`, `PlannedRotationsTakeTime`, `RotationMovesRole`, `ImplementsAdminKeys` (refinement) |
| `governance` | Two proposals at once, each adding or removing an owner or changing the threshold; the owner set changes between creation, vote and execution of the other. Scheduled pauses before, at and after they come due. | `ExecutedHadQuorum`, `QuorumReachable`, `PauseLiftedByUnpause`, `DecidedStaysDecided` |
| `lifecycle` | Two periods, all four revocation paths against archive, compaction, cleanup, migration, extension, pause and resubmission; two archivals. | `SequenceCountsRevocations`, `IndexListsRevoked`, `RevocationIsFinal` |
| `disputes` | Two attestations, two attestors, two challengers, two disputes: one after the other on one attestation, or both attestations at once; a deadline of one tick, expiry, archive and resubmission, also by the other attestor while a dispute names the first. | `OneLiveDispute`, `LocksTrackOpenDisputes`, `NoSilentRemoval` |
| `products` | One business, two months, two tokens, two payees. Two streams (a lump with a cliff and a linear schedule that does not divide the amount) with pauses anywhere in four ticks; two agreements settled over one and two periods, also with a period listed twice; shares of a third, of all, and a list that is refused; one bond of every structure whose last payment exceeds what is left, or whose term covers one of the two months only, so that the other lies before or after it. Attestations appear, expire, are revoked and cleaned up in between. | `StreamsFunded`, `PausedTimeNeverVests`, `PaidAsRecorded`, `BondBooksBalance`, `PaidPeriodsStayPaid`, `RedemptionsAreDue`, `VestedIsPaid` (liveness) |
| `platform` | Two accounts who call everything, including what they are not entitled to; three voters at site `delegation`. The limits of the code (history of 2, submissions of 3, batches of 2, schema version 1) are reached; valid and invalid inputs are in every input set. | `NoOverlap`, `DelegationsBalance`, `RootWindowsDisjoint`, `SideRecordsAgree`, `PricingFollowsCurve`, `WithinRateLimits`, `FeesAccountedFor`, `DaoDecisionsAreVoted`, `FinalizedEpochsFrozen`, `AnchoredStaysPut`, `SlashesWereAnnounced`, `ImplementsCallLog` (refinement) |

`SideRecordsAgree` is the conjunction of what every contract must keep
consistent with itself (`SnapshotIndexesAgree`, `BatchesSplitTotals`,
`ProvidersListed`, `LendersListed`, `HoldersAndNetworksListed`,
`AnomalyIsCurrent`, `GlobalVersionCounts`, `ChainCoversLog`,
`SnapshotsFollowHistory`, `IndexFindsNewest`, `RollbackTargetDiffers`); the
mutants listed for it break one conjunct each.

The bounds (`MaxNow`, `MaxClock`, `MaxRotations`, `MaxProposals`, `MaxProposed`,
`MaxDisputes`, `MaxArchivals`, `MaxRanges`, `MaxStreams`, `MaxAgreements`,
`MaxBonds`, `MaxDaoProposals`, `MaxRoots`, `MaxSigned`, `MaxNetworkSets`,
`MaxConfigVersion`, `MaxRangeFees`, `MaxSlashDisputes`, `NonceMax`, `Funds`,
`Purse`) are guards of the actions they limit. The code's limits (ten queued
requests, the history lengths, fifty stakeholders) are constants given smaller
values where they are to be reached. `Interchangeable` permutes periods and
challengers, `WithAttestors` the attestors too (in staking: attestors), which no
definition orders. With
`MaxDaoProposals = 1` the DAO never executes two proposals in one behaviour; the
interleaving of two proposals is studied in `governance`.

**Fairness.** Nobody is obliged to call a contract, so fairness is assumed in
one place only: `ReleaseFairness`, weak fairness of `release` of every stream.
The call is open to anyone and costs nothing but the transaction, so whoever is
owed keeps calling as long as the call would succeed; nothing is assumed of the
admin, the attestation contract or the clock. Under it `VestedIsPaid` shows that
a stream whose schedule has run out, with its attestation in force and the
contract not paused from some time on, is paid to the last token. What the
documentation says *can* be done is stated as a state predicate on the guards of
the call (`FullQueueCanDrain`, `OpenMeansResolvable`).

**Refinement.** `ImplementsAdminKeys`: the governed contract implements
`AdminKeys` with the identity mapping. `ImplementsCallLog`: with the nonces, the
hash chain and the indexes hidden, the audit log under a network that loses,
delays, reorders and repeats signed requests implements `CallLog`, which says
only that signed calls take effect once at most and in nonce order. The mapping
reads a performed call's nonce off its sequence number, so it also shows that
the two counters never part.

### Where documentation and code part

Each `claim_*` run states a sentence of the docs, of a comment or of a test as a
property; TLC shows a run of the code that contradicts it.

| Run | Claim | What the code does |
|---|---|---|
| `claim_queue_drains` | unlocked requests are removed by a withdrawal | entries emptied by a slash stay; a queue full of them blocks the attestor |
| `claim_read_through` | get_attestation reads both tiers | it reads a tier nothing is submitted to |
| `claim_unlocked` | every resolution unlocks the attestor | a witness does not |
| `claim_bond_revenue` | a redemption is based on the attested revenue | it is based on the fee paid for the attestation |
| `claim_dispute_upheld` | an open dispute can be resolved; the slash is best effort | the slash is part of the call, and its refusal undoes the resolution |

Other sentences the model does not bear out, each visible in one definition:

* a submission exactly one window old has expired
  (docs/attestation-rate-limits.md:43-44 and 97; rate_limit_test.rs:203-217 and
  543-561): `WithinWindow` still counts it, as the comment in
  rate_limit.rs:243-246 says. `WithinRateLimits` does not take sides: it counts
  any `width` consecutive seconds, of whose two boundaries one only is in, and
  holds with the comparison of the code and, but for the second zero where the
  cutoff saturates, with that of the document.
* the maturity of a bond is informational and redemptions may continue after it
  (docs/revenue-backed-bonds.md:305, 416-427 and 505): `Redeem` refuses a month
  outside `[issue, issue + maturity)`, as the header of the contract says
  (revenue-bonds/src/lib.rs:18-19). `RedemptionsAreDue` states the header.
* an agreement settles a period at most once (docs/revenue-settlement.md:209): a
  period settled with nothing, below the threshold, can be settled again, and one
  listed twice in a call of `SettleMulti` is paid twice and recorded once.
  `PaidPeriodsStayPaid` says what holds: a period settled with a repayment in an
  earlier call stays settled.
* an executed proposal is immutable (docs/attestation-multisig.md:153):
  `RejectProposal` does not look at the status. `DecidedStaysDecided` says what
  holds: such a proposal is never executed again.
* a restore commit is bound to the entries the dry run validated
  (docs/attestation-snapshots.md:117): `BatchHash` covers business, period and
  schema version, not the revenue.
* a fee change waits for its timelock (`lib.rs:326-328`, `propose_fee_config`): beside it
  `ConfigureFees` takes effect at once, and a proposal made before it overwrites
  it when committed.
* bonds have a grace period: `CloseBond` looks at neither it nor the clock.
* `SetEmergencyPause(FALSE)` needs no voting power; `SetGlobalDefaults` does not
  validate the fees, and moves anchored sections of businesses that have no
  record of their own; `NetRevokeRole` lets the last admin revoke itself;
  `SubmitRevenueUnchecked` compares the attestation's root only and looks neither
  at its revocation or expiry nor at a dispute; a
  rebound staking contract knows none of the ids slashed before, so
  `SlashesWereAnnounced` speaks of one contract.
* a settlement verifies the attestation and that it is not revoked
  (docs/revenue-settlement.md:213-221): `SettleMulti` makes a client of the
  attestation contract (revenue-settlement lib.rs:186) and never calls it.
* one pending unstake per attestor (docs/attestor-staking.md:114):
  `RequestUnstake` queues up to ten; and a period of at most one year
  (attestor-staking lib.rs:607): `SetUnbondingPeriod` has no bound.
* a swap preserves the admin count (access_control.rs:328): `Swapped` onto an
  account that is an admin already lowers it, and `DoSwapAdmin` neither waits
  for the removal cooldown nor stamps it.
* an emergency rotation is possible at any time
  (docs/emergency-key-rotation.md:150): `DoEmergencyRotate` needs ROLE_ADMIN on
  the Admin key's account, which `DoRevokeRole` can take away.
* threshold changes are spaced by a cooldown (multisig.rs:48): `CreateProposal`
  reads it, `RotateThreshold` does not.
* a misconfigured owner set is recoverable
  (docs/attestation-vote-weight-snapshot.md:15): `InitializeMultisig` accepts
  `<<a, a>>` with threshold 2, which no set of distinct voters meets. The
  instances start from distinct owners, and `QuorumReachable` is about them.
* a period is revoked iff it is indexed
  (docs/attestation-revocation-indexing.md:25): `RevokeAndCleanup` drops the
  index entry; the other direction is `IndexListsRevoked`. A revoked period can
  be submitted again once its record is gone (the same document, line 107):
  `StoreAll` does not read `revoked`.
* only existing attestations are revoked (docs/attestation-revocation.md:14) and
  a witness needs one that is not revoked (dispute.rs:537): `CommitRevoke` and
  `SubmitDisputeWitness` do not look.
* no attestor is on record for a business's own submission (dispute.rs:726):
  `DropRecord` and `MoveToArchive` keep `attestorOf`. This is why
  `LocksTrackOpenDisputes` speaks of disputes whose key still leads to their
  attestor.
* revoking a range advances RevocationSequence
  (docs/attestation-revocation-indexing.md:30): `RevokeRange` does not touch it.

## 4. What is proved

TLAPS checks every proof. The theorems hold for all values of the constants that
satisfy the named assumptions of the modules (`StakingAssumption`,
`AdminKeysAssumption`, `FeesAssumption`, ...): any number of accounts, periods,
tokens, networks and voters, any amounts, limits and configurations. TLC
evaluates the assumptions on every run. They ask for types, for the finiteness of
the sets a total ranges over, and for the distinctness of special addresses and
of the values that stand for an absent key. Those that say more:

* `FeesAssumption`, `RevenueAssumption`: payers, fee collectors and the contract
  are different accounts, as are businesses and the product contract. A business
  that collects its own fee would pay and receive at once, and its balance would
  not tell what it spent.
* `LocksAlwaysTrack` assumes `Businesses \cap Attestors = {}`. `open_dispute`
  names the business when no attestor is on record and locks nobody; were that
  account an attestor, an open dispute would name it with no lock behind it.
* `QuorumStaysReachable` assumes `DistinctLists`: the owners given to
  `initialize_multisig` are distinct, which the code does not check (section 3).

Every property of every passing run but `VestedIsPaid` is stated by a theorem.
A theorem about a contract of the suite is a theorem about `SuiteSpec`: a step of
the suite is a step of that contract or leaves its variables alone.

**`SumTheorems`.** A contract keeps a total beside its parts almost everywhere, so
the proofs need facts about `SumFunctionOnSet`: the type of a sum, adding and
removing a member, changing one summand, monotonicity, disjoint unions,
reindexing along a bijection, partition by a classification, and exchanging two
sums. The operator is a fold with no usable induction principle here; each proof
takes a minimal subset that refutes the claim (`MinimalMember`, from the
well-foundedness of strict inclusion on finite sets) and removes one element.

**`AttestorStakingProofs`.** `StakingInv` joins the types, `LockedWithinStake`,
`QueueInUnlockOrder` and `QueueWithinLimit`; types alone are not inductive,
because `amount - locked` stays a natural number only while locked is within the
stake. `BooksInv` adds `QueueMatchesLocked` and `Solvent`. Their hard case is a
slash: what the cut takes from a queue, position by position from the newest end,
adds up to what it takes from the locked stake. The same lemmas give
`SlashesCutNewestFirst`; `DisputesSlashOnce` and `NobodyExitsEarly` follow from
`StakingInv` step by step.

**`AdminKeysProofs`.** The code counts admins by walking `RoleHolders`, so
`SomeAdminRemains` carries `HoldersMatchRoles` (in `RolesInv`); that a planned
rotation has an admin to move needs `RequestNamesAdmin` (in `RotationInv`).
`KeysInv` is the conjunction.

**`GovernanceProofs`.** `GovernanceImplementsAdminKeys`: initial states map to
initial states, every governed step is a step of `AdminKeys` or leaves the keys
alone, hence `GovernanceKeepsAdmin`. An executed proposal's quorum is a fact about
its past, so `GovInv` carries `Sound(p)` for every stored proposal: its approvals
lie in the snapshot of owners taken when it was created. `DecidedProposalsStay`
needs `FreshIds` (no proposal is stored at an id not yet given out);
`QuorumStaysReachable` needs `OwnersInv` (owners distinct, at least as many as the
threshold); `OnlyUnpauseLifts` looks at each call that writes one of the two pause
keys.

**`MultiPeriodProofs`.** Types, `RangesNeverOverlap`, `PeriodsHaveOneRoot`,
`IndexAlwaysFindsNewest`. `RangesInv` carries them into the suite.

**`AttestationsProofs`.** Three invariants for three parts of the state that the
calls change separately. `RevocationInv`: the sequence counts the revoked keys and
the index lists revoked periods once; the case of interest is the index after the
cleanup call has dropped entries (`CompactedIndex`). `RecordsInv`: the types a
removal rests on; `RecordsNeverVanish` and `RevocationsAreFinal` go through the
calls that write a record (`RecordCalls`). `DisputesInv`: at most one live dispute
per attestation.
`LocksAlwaysTrack` is the deepest of them. The lock count is not a function of the
state: a dispute about an expired record may settle after the key was submitted
again by another attestor, and its unlock then goes to that one. `LocksInv`
therefore says that *there is* an account of whom each settlement unlocked
(`Balanced`) under which the lock count is the number of disputes that named the
attestor less the unlocks it got, and under which a dispute that still owes an
unlock can have been overtaken only by one that an earlier dispute overtook in
turn (`Ledger`). An attestor whose count has reached zero got every unlock it is
owed, or another's instead (`OwedIsHelped`, by counting): this covers the
settlement that finds no lock, and the submission that only an unlocked attestor
may make. In a state in which every dispute finds its attestor, the least dispute
still owed refutes itself, so nothing is owed and the count is that of the open
disputes (`BalancedLocksCount`). Before it was proved, TLC
checked this invariant with three disputes, two attestors and three periods to
depth 17, and by simulation beyond.

**`RevenueProductsProofs`.** `ProductsKeepBooks` is the joint invariant
(`WorldInv`, `StreamInv`, `SettlementInv`, `ShareInv`, `BondsInv`); the theorems on
`StreamsFunded`, `PausedTimeNeverVests`, `PaidAsRecorded`, `BondBooksBalance`,
`PaidPeriodsStayPaid` and `RedemptionsAreDue` are read off it and its step lemma.
The stream part needs `VestingClock`, the equation between the remap, the clock
and the ticks spent paused, and `NothingAhead`, that no stream was released past
its schedule; the share part, that the amounts with the rounding residual add up
to the revenue; the bond part, that a redemption is capped by what
is left and moves its amount from the issuer to the owner (`TransferMoves`).

**`ProtocolSuiteProofs`**, contract by contract:

* `DelegationsAlwaysBalance` (`GatingInv`): a delegation moves one summand from
  one delegate to another, by the amount stored and not by today's balance.
* `AuditLogRefinesCallLog`, step simulation under `AuditInv`: the admin's nonce is
  one more than the length of the log. `ChainInv` proves that the chain and the
  two indexes cover the log (`ChainCoversLog`).
* `AnchorsAreFinal` (`ConfigInv`), `FinalizedEpochsStay` (`SnapInv`: a
  finalization's count is the number of snapshots of its epoch),
  `DaoDecidesByVote` (`DaoInv`: the tally counts the voters),
  `SlashesAreAnnounced` (`BindInv`: the binding in force was proposed a timelock
  ago; `SlashInv`).
* `RootWindowsNeverOverlap` (`RootsInv`: within a version windows follow each
  other, and versions never fall), and `PricesFollowCurve` (`CurveInv`: tiers
  ascend in threshold and discount, so the last tier reached is the best).
* `FeesAlwaysAccountedFor`: `FlatInv` types what a submission computes,
  `AccountInv` equates what the payers are short of with the records of periods
  and ranges over all tokens, and the contract's balance with the open escrow.
* `LimitsAlwaysHold`: `Logged` compares the pruned list the contract stores with
  the list of all submissions accepted under one configuration. From the end both
  read the same, what only the second holds is older than the window, and of any
  `max + 1` accepted submissions the last comes more than a window after the
  first (`Spaced`). That is what any stretch of seconds can be counted by, whether
  its boundary is in or out.
* `SideRecordsAlwaysAgree`: `SideRecordsInv` joins the invariants of the registry,
  lenders, integrations, networks, flat-fee history, ranges, snapshots, the hash
  chain and the portfolio batches (`BatchInv`, with `SumPartition` and
  `SumSwap`: a total over a portfolio is the sum over its batches).

Some theorems state no property of a run: the types, the lock within the stake,
the stored request, the history chain, the one root per period and the products'
books.

**Model-checked only.** `VestedIsPaid` is a liveness property under fairness, and
TLAPS decides neither `ENABLED` nor weak fairness. The five `claim_*` runs are
refutations, which TLC shows by a behaviour. The prover's backends cannot
instantiate the library's induction schemes, whose parameter is an operator; where
a proof needs induction (a sum, the loop of `Pruned`, the brackets of a curve) it
argues by a least counterexample from `WFMin`, which takes sets only
(`MinimalMember`, `LeastNatural`, `EarliestOf`). No module uses a RECURSIVE
operator.

## 5. Not modelled

* Events, logging, error wording and storage TTL extension.
* Merkle verification is an opaque predicate; hashing is not computed.
* In `Attestations`: fees and rate limits, which have their own modules and can
  only refuse a submission there; replay nonces, anomaly escalation, reputation
  gating and permits; and the staking contract, which is treated as not
  configured (`SlashBinding` studies it).
* Overflow of the products' and the suite's amounts: the code saturates or
  panics near the limits of i128, far from the instances' values.
* In `RevenueSettlement`: the revenue stored with a settlement. In the products:
  several attestation contracts at once, and fee-charging tokens.
* Admin weights, business tags, dispute evidence, the snapshot contract's binary
  export, network-config's asset helpers (no entry point calls them) and
  read-only getters that decide nothing.
* The protocol simulation (a scripted driver) and the build-time interface
  checks.

## 6. Plan

Done: the core (staking, keys and rotation, governance and pause, attestation
life cycle, ranges), the surrounding contracts, fees, limits and slashing, and
the products with their liveness; both refinements; and a theorem for every
invariant and action property the passing runs check.

Left:

1. What the stream's last claim needs for `VestedIsPaid` and is a safety
   property: whenever a matured stream still owes, its `release` is enabled by
   the balance.
2. Shared lemmas: the pruning and index arguments of `RateLimits` and
   `Attestations` speak of the removal of positions from a sequence in two ways,
   which a lemma about `Vectors` could join.
3. The parts of the attestation contract that section 5 leaves out, permits and
   reputation gating first.
