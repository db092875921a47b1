---------------------------- MODULE Attestations ----------------------------
(***************************************************************************)
(* The attestation records of contracts/attestation: business registry,    *)
(* submission, expiry, archive, revocation and disputes (lib.rs,           *)
(* dispute.rs, registry.rs).  A key is a (business, period) pair.          *)
(*                                                                         *)
(* Every action is one successful call; a panic rolls the call back, so    *)
(* the panics of the code are the guards here.  Roles do not change in     *)
(* this module (AdminKeys models them), fees and rate limits are left out, *)
(* and no staking contract is configured: try_trigger_slash then only      *)
(* emits an event.                                                         *)
(***************************************************************************)
EXTENDS Vectors, Functions

CONSTANTS
    Businesses,     \* addresses that register and submit for themselves
    Periods,        \* period strings
    Admins,         \* holders of ROLE_ADMIN
    Attestors,      \* holders of ROLE_ATTESTOR
    Challengers,    \* addresses that open disputes
    Nobody,         \* an absent address
    Records,        \* attestation data a caller may submit
    NoData,         \* an absent attestation record
    Versions,       \* version numbers an admin may migrate to
    Expiries,       \* expiry timestamps a business may extend to
    AgeThresholds,  \* age thresholds an admin may archive with
    Retentions,     \* retention policies, in epochs
    Graces,         \* revocation grace windows, the default among them
    DefaultGrace,   \* DEFAULT_REVOKE_GRACE_SECONDS
    Deadlines,      \* dispute deadlines an admin may set
    DefaultDeadline,\* DISPUTE_DEADLINE_SECONDS
    MinDeadline,    \* MIN_DISPUTE_DEADLINE_SECONDS
    MaxDeadline,    \* MAX_DISPUTE_DEADLINE_SECONDS
    EpochLength,    \* FEE_BUCKET_WINDOW_SECONDS
    U64Max,         \* saturation point of a u64 timestamp
    MaxProposed,    \* bound on the revocations proposed at one time
    MaxDisputes,    \* bound on the disputes opened
    MaxArchivals,   \* bound on the archive index
    PauseStates,    \* values governance may give the pause flag
    MaxNow          \* bound on the ledger clock

Keys == Businesses \X Periods
Data == [time : Nat, version : Nat, expiry : Nat]

ASSUME AttestationsAssumption ==
    /\ Nobody \notin Businesses \cup Admins \cup Attestors \cup Challengers
    /\ NoData \notin Data
    /\ Records \subseteq Data
    /\ Versions \subseteq Nat
    /\ Expiries \subseteq Nat \ {0}
    /\ AgeThresholds \subseteq Nat \ {0}
    /\ Retentions \subseteq Nat \ {0}
    /\ Graces \subseteq Nat
    /\ DefaultGrace \in Nat
    /\ Deadlines \subseteq Nat
    /\ MinDeadline \in Nat
    /\ MaxDeadline \in Nat
    /\ DefaultDeadline \in MinDeadline .. MaxDeadline
    /\ EpochLength \in Nat \ {0}
    /\ U64Max \in Nat
    /\ MaxProposed \in Nat
    /\ MaxDisputes \in Nat
    /\ MaxArchivals \in Nat
    /\ PauseStates \subseteq BOOLEAN
    /\ MaxNow \in 0 .. U64Max

VARIABLES
    status,         \* business -> registry status
    att,            \* Attestation(key) in instance storage, or NoData
    persistent,     \* Attestation(key) in persistent storage, or NoData
    attestorOf,     \* Attestor(key) and AttestorByAttestation(key)
    archived,       \* ArchivedAttestation(key), or NoData
    pointer,        \* archive_index of ArchivePointer(key), 0 if none
    archiveIndex,   \* ArchiveIndex
    retention,      \* CompactionRetentionEpochs, 0 if none
    revoked,        \* the keys with a Revoked record
    revokedPeriods, \* business -> RevokedPeriods, oldest first
    revocationSeq,  \* RevocationSequence
    proposal,       \* RevokeProposal(key): the proposing instant, or -1
    grace,          \* RevokeGraceSeconds
    disputes,       \* the disputes, indexed by their id
    lockCount,      \* AttestorLockCount
    deadline,       \* DisputeDeadlineSeconds
    paused,         \* the pause flag
    now             \* ledger timestamp

records == <<att, persistent, attestorOf>>
archive == <<archived, pointer, archiveIndex, retention>>
revocation == <<revoked, revokedPeriods, revocationSeq, proposal, grace>>
disputing == <<disputes, lockCount, deadline>>
vars == <<status, records, archive, revocation, disputing, paused, now>>

NoProposal == -1
Outcomes == {"Upheld", "Rejected", "Settled"}

\* A dispute; attestor is the business when no attestor is on record, and
\* resolver and outcome are Nobody and "None" until it is resolved.
Dispute ==
    [key : Keys, challenger : Challengers, attestor : Attestors \cup Businesses,
     status : {"Open", "Resolved", "Closed"}, time : Nat,
     resolver : Admins \cup Challengers \cup {Nobody},
     outcome : Outcomes \cup {"None"}]

Init ==
    /\ status = [b \in Businesses |-> "Unregistered"]
    /\ att = [k \in Keys |-> NoData]
    /\ persistent = [k \in Keys |-> NoData]
    /\ attestorOf = [k \in Keys |-> Nobody]
    /\ archived = [k \in Keys |-> NoData]
    /\ pointer = [k \in Keys |-> 0]
    /\ archiveIndex = 0
    /\ retention = 0
    /\ revoked = {}
    /\ revokedPeriods = [b \in Businesses |-> <<>>]
    /\ revocationSeq = 0
    /\ proposal = [k \in Keys |-> NoProposal]
    /\ grace = DefaultGrace
    /\ disputes = <<>>
    /\ lockCount = [a \in Attestors |-> 0]
    /\ deadline = DefaultDeadline
    /\ paused = FALSE
    /\ now = 0

-----------------------------------------------------------------------------
(* Helpers *)

\* attestation_expired; an expiry of 0 stands for an absent one.
Expired(data) == data.expiry # 0 /\ now >= data.expiry

\* validate_expiry
ValidExpiry(data) ==
    data.expiry # 0 => data.expiry > data.time /\ data.expiry > now

\* get_attestation reads persistent storage, and a snapshot key that no
\* code writes.
GetAttestation(k) == persistent[k]

\* caller_is_admin || caller == business
MayManage(caller, k) == caller \in Admins \/ caller = k[1]

IsLocked(a) == lockCount[a] > 0

\* has_open_dispute: a resolved dispute counts until it is closed.
Live(i) == disputes[i].status \in {"Open", "Resolved"}

\* Mutant: a resolved dispute no longer counts.
OnlyOpenDisputes(k) ==
    \E i \in DOMAIN disputes : disputes[i].key = k /\ disputes[i].status = "Open"

HasOpenDispute(k) == \E i \in DOMAIN disputes : disputes[i].key = k /\ Live(i)

Overdue(i) ==
    disputes[i].status = "Open" /\ now - disputes[i].time > deadline

\* earliest_commit of a proposal, u64::saturating_add.
EarliestCommit(k) ==
    IF proposal[k] + grace < U64Max THEN proposal[k] + grace ELSE U64Max

\* record_revocation: the flag, the index and the sequence move together.
RecordRevocation(k) ==
    /\ revoked' = revoked \cup {k}
    /\ revokedPeriods' = [revokedPeriods EXCEPT ![k[1]] = Append(@, k[2])]
    /\ revocationSeq' = revocationSeq + 1

\* Mutant: the first resolution releases the attestor altogether.
UnlockCompletely(D) ==
    lockCount' =
        [a \in Attestors |->
            IF \E i \in D : attestorOf[disputes[i].key] = a
            THEN 0 ELSE lockCount[a]]

\* One unlock_attestor for each resolved dispute in D, through the attestor
\* on record for the dispute's key at that moment.
UnlockAttestors(D) ==
    lockCount' =
        [a \in Attestors |->
            LET released == {i \in D : attestorOf[disputes[i].key] = a}
                n == Cardinality(released)
            IN  IF lockCount[a] >= n THEN lockCount[a] - n ELSE 0]

-----------------------------------------------------------------------------
(* Business registry *)

SetStatus(b, from, to) ==
    /\ status[b] = from
    /\ status' = [status EXCEPT ![b] = to]
    /\ UNCHANGED <<records, archive, revocation, disputing, paused, now>>

RegisterBusiness(b) == SetStatus(b, "Unregistered", "Pending")
ApproveBusiness(admin, b) == admin \in Admins /\ SetStatus(b, "Pending", "Active")
SuspendBusiness(admin, b) == admin \in Admins /\ SetStatus(b, "Active", "Suspended")
ReactivateBusiness(admin, b) ==
    admin \in Admins /\ SetStatus(b, "Suspended", "Active")

-----------------------------------------------------------------------------
(* Submission *)

\* execute_submission and execute_batch_submission: all items or none.  A
\* single submission is a batch of one.
StoreAll(items) ==
    /\ ~paused
    /\ \A k \in DOMAIN items : /\ status[k[1]] = "Active"
                               /\ att[k] = NoData
                               /\ ValidExpiry(items[k])
    /\ att' = [k \in Keys |-> IF k \in DOMAIN items THEN items[k] ELSE att[k]]
    /\ UNCHANGED <<status, persistent, archive, revocation, disputing, paused, now>>

\* submit_attestation, submit_attestations_batch: signed by the businesses.
\* The attestor on record for the keys, if any, stays.
SubmitAttestations(items) ==
    /\ StoreAll(items)
    /\ UNCHANGED attestorOf

\* submit_attestation_as_attestor, submit_batch_as_attestor
SubmitAsAttestor(a, items) ==
    /\ ~IsLocked(a)
    /\ StoreAll(items)
    /\ attestorOf' = [k \in Keys |-> IF k \in DOMAIN items THEN a
                                     ELSE attestorOf[k]]

\* Mutant: a revoked attestation is migrated.
MigrateRevoked(admin, k, version) ==
    /\ admin \in Admins
    /\ att[k] # NoData
    /\ version > att[k].version
    /\ ~Expired(att[k])
    /\ att' = [att EXCEPT ![k].version = version]
    /\ UNCHANGED <<status, persistent, attestorOf, archive,
                   revocation, disputing, paused, now>>

MigrateAttestation(admin, k, version) ==
    /\ admin \in Admins
    /\ att[k] # NoData
    /\ version > att[k].version
    /\ ~Expired(att[k])
    /\ k \notin revoked
    /\ att' = [att EXCEPT ![k].version = version]
    /\ UNCHANGED <<status, persistent, attestorOf, archive,
                   revocation, disputing, paused, now>>

ExtendExpiry(k, expiry) ==
    /\ att[k] # NoData
    /\ expiry > att[k].expiry
    /\ expiry > att[k].time
    /\ att' = [att EXCEPT ![k].expiry = expiry]
    /\ UNCHANGED <<status, persistent, attestorOf, archive,
                   revocation, disputing, paused, now>>

\* Removing the record leaves the attestor on record behind.
DropRecord(k) ==
    /\ att' = [att EXCEPT ![k] = NoData]
    /\ UNCHANGED <<persistent, attestorOf>>

\* Mutant: a pending dispute does not keep the record.
CleanupDisputed(caller, k) ==
    /\ MayManage(caller, k)
    /\ att[k] # NoData
    /\ Expired(att[k])
    /\ k \notin revoked
    /\ DropRecord(k)
    /\ UNCHANGED <<status, archive, revocation, disputing, paused, now>>

CleanupExpiredAttestation(caller, k) ==
    /\ MayManage(caller, k)
    /\ att[k] # NoData
    /\ Expired(att[k])
    /\ k \notin revoked
    /\ ~HasOpenDispute(k)
    /\ DropRecord(k)
    /\ UNCHANGED <<status, archive, revocation, disputing, paused, now>>

-----------------------------------------------------------------------------
(* Archive *)

\* The archive_index that key k gets.
Ordinal(order, k) == archiveIndex + (CHOOSE i \in DOMAIN order : order[i] = k)

\* move_to_archive: the caller's list and limit pick the keys, in any order,
\* among the records old enough.
MoveToArchive(admin, order, threshold) ==
    /\ admin \in Admins
    /\ archiveIndex + Len(order) <= MaxArchivals
    /\ \A i \in DOMAIN order :
          att[order[i]] # NoData /\ now - att[order[i]].time >= threshold
    /\ archived' = [k \in Keys |-> IF k \in Range(order) THEN att[k]
                                   ELSE archived[k]]
    /\ pointer' = [k \in Keys |->
                     IF k \in Range(order) THEN Ordinal(order, k)
                     ELSE pointer[k]]
    /\ archiveIndex' = archiveIndex + Len(order)
    /\ att' = [k \in Keys |-> IF k \in Range(order) THEN NoData ELSE att[k]]
    /\ UNCHANGED <<status, persistent, attestorOf, retention, revocation,
                   disputing, paused, now>>

\* set_compaction_retention; clear_compaction_retention sets none (0).
SetCompactionRetention(admin, epochs) ==
    /\ admin \in Admins
    /\ retention' = epochs
    /\ UNCHANGED <<status, records, archived, pointer, archiveIndex,
                   revocation, disputing, paused, now>>

Compactable(k) ==
    /\ archived[k] # NoData
    /\ pointer[k] # 0
    /\ archived[k].expiry # 0
    /\ (now \div EpochLength) - (archived[k].expiry \div EpochLength) >= retention

CompactArchival(admin, chosen) ==
    /\ admin \in Admins
    /\ retention # 0
    /\ \A k \in chosen : Compactable(k)
    /\ archived' = [k \in Keys |-> IF k \in chosen THEN NoData ELSE archived[k]]
    /\ UNCHANGED <<status, records, pointer, archiveIndex, retention,
                   revocation, disputing, paused, now>>

-----------------------------------------------------------------------------
(* Revocation *)

RevokeAttestation(caller, k) ==
    /\ ~paused
    /\ att[k] # NoData
    /\ k \notin revoked
    /\ MayManage(caller, k)
    /\ RecordRevocation(k)
    /\ UNCHANGED <<status, records, archive, proposal, grace, disputing,
                   paused, now>>

\* Mutant: the index gets the period and is not compacted.
RevokeAndKeepIndex(caller, k) ==
    /\ ~paused
    /\ att[k] # NoData
    /\ MayManage(caller, k)
    /\ revoked' = revoked \cup {k}
    /\ revocationSeq' = revocationSeq + (IF k \in revoked THEN 0 ELSE 1)
    /\ revokedPeriods' = [revokedPeriods EXCEPT ![k[1]] = Append(@, k[2])]
    /\ DropRecord(k)
    /\ UNCHANGED <<status, archive, proposal, grace, disputing, paused, now>>

\* revoke_and_cleanup: revokes if need be, then removes the record and every
\* index entry of the period.
RevokeAndCleanup(caller, k) ==
    /\ ~paused
    /\ att[k] # NoData
    /\ MayManage(caller, k)
    /\ revoked' = revoked \cup {k}
    /\ revocationSeq' = revocationSeq + (IF k \in revoked THEN 0 ELSE 1)
    /\ LET index == revokedPeriods[k[1]]
       IN  \E rest \in Compacted(index, {i \in DOMAIN index : index[i] # k[2]}) :
              revokedPeriods' = [revokedPeriods EXCEPT ![k[1]] = rest]
    /\ DropRecord(k)
    /\ UNCHANGED <<status, archive, proposal, grace, disputing, paused, now>>

\* cleanup_revocation_index: anyone may drop the entries whose record is gone.
CleanupRevocationIndex(b) ==
    LET index == revokedPeriods[b]
        kept == {i \in DOMAIN index : att[<<b, index[i]>>] # NoData}
    IN  /\ kept # DOMAIN index
        /\ \E rest \in Compacted(index, kept) :
              revokedPeriods' = [revokedPeriods EXCEPT ![b] = rest]
        /\ UNCHANGED <<status, records, archive, revoked, revocationSeq,
                       proposal, grace, disputing, paused, now>>

ProposeRevoke(caller, k) ==
    /\ ~paused
    /\ att[k] # NoData
    /\ k \notin revoked
    /\ proposal[k] = NoProposal
    /\ MayManage(caller, k)
    /\ Cardinality({l \in Keys : proposal[l] # NoProposal}) < MaxProposed
    /\ proposal' = [proposal EXCEPT ![k] = now]
    /\ UNCHANGED <<status, records, archive, revoked, revokedPeriods,
                   revocationSeq, grace, disputing, paused, now>>

\* Mutant: an attestation revoked in the meantime is revoked again.
CommitRevokeAgain(k) ==
    /\ ~paused
    /\ proposal[k] # NoProposal
    /\ now >= EarliestCommit(k)
    /\ proposal' = [proposal EXCEPT ![k] = NoProposal]
    /\ RecordRevocation(k)
    /\ UNCHANGED <<status, records, archive, grace, disputing, paused, now>>

\* commit_revoke: anyone, once the grace window is over.
CommitRevoke(k) ==
    /\ ~paused
    /\ proposal[k] # NoProposal
    /\ now >= EarliestCommit(k)
    /\ k \notin revoked
    /\ proposal' = [proposal EXCEPT ![k] = NoProposal]
    /\ RecordRevocation(k)
    /\ UNCHANGED <<status, records, archive, grace, disputing, paused, now>>

CancelRevokeProposal(caller, k) ==
    /\ ~paused
    /\ proposal[k] # NoProposal
    /\ MayManage(caller, k)
    /\ now < EarliestCommit(k)
    /\ proposal' = [proposal EXCEPT ![k] = NoProposal]
    /\ UNCHANGED <<status, records, archive, revoked, revokedPeriods,
                   revocationSeq, grace, disputing, paused, now>>

\* set_revoke_grace_seconds applies to pending proposals as well.
SetRevokeGrace(admin, seconds) ==
    /\ admin \in Admins
    /\ grace' = seconds
    /\ UNCHANGED <<status, records, archive, revoked, revokedPeriods,
                   revocationSeq, proposal, disputing, paused, now>>

-----------------------------------------------------------------------------
(* Disputes *)

OpenDispute(c, k) ==
    /\ Len(disputes) < MaxDisputes
    /\ att[k] # NoData
    /\ k \notin revoked
    /\ ~HasOpenDispute(k)
    /\ \A i \in DOMAIN disputes :
          disputes[i].key = k => disputes[i].challenger # c
    /\ LET a == attestorOf[k]
       IN  /\ disputes' = Append(disputes,
                 [key |-> k, challenger |-> c,
                  attestor |-> IF a = Nobody THEN k[1] ELSE a,
                  status |-> "Open", time |-> now,
                  resolver |-> Nobody, outcome |-> "None"])
           /\ lockCount' = [x \in Attestors |->
                              lockCount[x] + (IF x = a THEN 1 ELSE 0)]
    /\ UNCHANGED <<status, records, archive, revocation, deadline, paused, now>>

\* Dispute i with a resolution and the given status.
Settled(i, to, outcome, resolver) ==
    [disputes[i] EXCEPT !.status = to, !.outcome = outcome, !.resolver = resolver]

\* resolve_dispute: a slash event if upheld, and always an unlock.
ResolveDispute(admin, id, outcome) ==
    /\ admin \in Admins
    /\ id \in DOMAIN disputes
    /\ disputes[id].status = "Open"
    /\ disputes' = [disputes EXCEPT ![id] = Settled(id, "Resolved", outcome, admin)]
    /\ UnlockAttestors({id})
    /\ UNCHANGED <<status, records, archive, revocation, deadline, paused, now>>

\* submit_dispute_witness with a proof that verifies against the root now on
\* record: anyone upholds the dispute in the challenger's name.
SubmitDisputeWitness(id) ==
    /\ id \in DOMAIN disputes
    /\ disputes[id].status = "Open"
    /\ att[disputes[id].key] # NoData
    /\ disputes' = [disputes EXCEPT ![id] =
                        Settled(id, "Resolved", "Upheld", @.challenger)]
    /\ UNCHANGED <<status, records, archive, revocation, lockCount, deadline,
                   paused, now>>

CloseDispute(id) ==
    /\ id \in DOMAIN disputes
    /\ disputes[id].status = "Resolved"
    /\ disputes' = [disputes EXCEPT ![id].status = "Closed"]
    /\ UNCHANGED <<status, records, archive, revocation, lockCount, deadline,
                   paused, now>>

\* check_and_rollback_disputes: the caller's list and limit pick D.
RollbackDisputes(admin, D) ==
    /\ admin \in Admins
    /\ \A i \in D : Overdue(i)
    /\ disputes' = [i \in DOMAIN disputes |->
          IF i \in D
          THEN Settled(i, "Closed", "Rejected", disputes[i].challenger)
          ELSE disputes[i]]
    /\ UnlockAttestors(D)
    /\ UNCHANGED <<status, records, archive, revocation, deadline, paused, now>>

SetDisputeDeadline(admin, seconds) ==
    /\ admin \in Admins
    /\ seconds \in MinDeadline .. MaxDeadline
    /\ deadline' = seconds
    /\ UNCHANGED <<status, records, archive, revocation, disputes, lockCount,
                   paused, now>>

-----------------------------------------------------------------------------
(* The environment: governance flips the pause flag, ledgers close. *)

SetPaused(flag) ==
    /\ paused' = flag
    /\ UNCHANGED <<status, records, archive, revocation, disputing, now>>

Tick ==
    /\ now < MaxNow
    /\ now' = now + 1
    /\ UNCHANGED <<status, records, archive, revocation, disputing, paused>>

-----------------------------------------------------------------------------

Callers == Admins \cup Businesses \cup Challengers
Items == UNION {[K -> Records] : K \in SUBSET Keys \ {{}}}
Orders == {order \in UNION {[1 .. n -> Keys] : n \in 1 .. Cardinality(Keys)} :
             IsInjective(order)}

RegistryCall ==
    \E b \in Businesses :
        \/ RegisterBusiness(b)
        \/ \E admin \in Admins : \/ ApproveBusiness(admin, b)
                                 \/ SuspendBusiness(admin, b)
                                 \/ ReactivateBusiness(admin, b)

RecordCall ==
    \/ \E items \in Items : \/ SubmitAttestations(items)
                            \/ \E a \in Attestors : SubmitAsAttestor(a, items)
    \/ \E admin \in Admins, k \in Keys, version \in Versions :
          MigrateAttestation(admin, k, version)
    \/ \E k \in Keys, expiry \in Expiries : ExtendExpiry(k, expiry)
    \/ \E caller \in Callers, k \in Keys : CleanupExpiredAttestation(caller, k)

ArchiveCall ==
    \E admin \in Admins :
        \/ \E order \in Orders, threshold \in AgeThresholds :
              MoveToArchive(admin, order, threshold)
        \/ \E epochs \in Retentions \cup {0} : SetCompactionRetention(admin, epochs)
        \/ \E chosen \in SUBSET Keys \ {{}} : CompactArchival(admin, chosen)

RevocationCall ==
    \/ \E caller \in Callers, k \in Keys :
          \/ RevokeAttestation(caller, k)
          \/ RevokeAndCleanup(caller, k)
          \/ ProposeRevoke(caller, k)
          \/ CancelRevokeProposal(caller, k)
    \/ \E k \in Keys : CommitRevoke(k)
    \/ \E b \in Businesses : CleanupRevocationIndex(b)
    \/ \E admin \in Admins, seconds \in Graces : SetRevokeGrace(admin, seconds)

DisputeCall ==
    \/ \E c \in Challengers, k \in Keys : OpenDispute(c, k)
    \/ \E admin \in Admins, id \in 1 .. MaxDisputes, outcome \in Outcomes :
          ResolveDispute(admin, id, outcome)
    \/ \E id \in 1 .. MaxDisputes : SubmitDisputeWitness(id) \/ CloseDispute(id)
    \/ \E admin \in Admins, D \in SUBSET DOMAIN disputes \ {{}} :
          RollbackDisputes(admin, D)
    \/ \E admin \in Admins, seconds \in Deadlines :
          SetDisputeDeadline(admin, seconds)

Next ==
    RegistryCall \/ RecordCall \/ ArchiveCall \/ RevocationCall \/ DisputeCall
        \/ (\E flag \in PauseStates : SetPaused(flag)) \/ Tick

Spec == Init /\ [][Next]_vars

-----------------------------------------------------------------------------
(* Properties *)

\* RevocationSequence equals the number of revocations ever made, whichever
\* of the four paths made them (docs/attestation-revocation-indexing.md, I2).
SequenceCountsRevocations == revocationSeq = Cardinality(revoked)

\* The per-business index lists a period once at most, and only revoked ones.
IndexListsRevoked ==
    \A b \in Businesses :
        LET index == revokedPeriods[b]
        IN  /\ \A i, j \in DOMAIN index : index[i] = index[j] => i = j
            /\ \A i \in DOMAIN index : <<b, index[i]>> \in revoked

\* Two disputes of one attestation are never pending (open, or resolved and
\* not closed) together.
OneLiveDispute ==
    \A i, j \in DOMAIN disputes :
        /\ disputes[i].key = disputes[j].key
        /\ Live(i)
        /\ Live(j)
        => i = j

\* The attestor's lock count is the number of open disputes that name it, so
\* long as no dispute was upheld by a witness and every dispute still finds
\* its attestor through its key.
LocksTrackOpenDisputes ==
    (\A i \in DOMAIN disputes :
        LET d == disputes[i]
        IN  /\ ~(d.outcome = "Upheld" /\ d.resolver = d.challenger)
            /\ d.attestor = (IF attestorOf[d.key] = Nobody
                             THEN d.key[1] ELSE attestorOf[d.key]))
    => \A a \in Attestors :
          lockCount[a] = Cardinality({i \in DOMAIN disputes :
                                        /\ disputes[i].status = "Open"
                                        /\ disputes[i].attestor = a})

\* A record leaves active storage only into the archive, by revocation, or
\* once expired with no dispute pending.
NoSilentRemoval ==
    [][\A k \in Keys :
          att[k] # NoData /\ att'[k] = NoData =>
             \/ archived'[k] = att[k]
             \/ k \in revoked'
             \/ Expired(att[k]) /\ ~HasOpenDispute(k)]_vars

\* A revoked attestation's content is frozen: its root and version never
\* change again while it is stored, and it stays revoked.
RevocationIsFinal ==
    [][/\ revoked \subseteq revoked'
       /\ \A k \in revoked :
             att[k] # NoData /\ att'[k] # NoData =>
                att'[k].version = att[k].version]_vars

-----------------------------------------------------------------------------
(* What documents and comments say and the code does not do *)

\* docs/attestation-archival-tier.md: get_attestation reads the active record
\* and falls through to the archived one.
ReadThrough ==
    \A k \in Keys :
        GetAttestation(k) = IF att[k] # NoData THEN att[k] ELSE archived[k]

\* dispute.rs, is_attestor_locked: the lock is released with the last active
\* dispute, so an attestor with no open dispute is not locked.
UnlockedWhenResolved ==
    \A a \in Attestors :
        IsLocked(a) => \E i \in DOMAIN disputes :
                          /\ disputes[i].status = "Open"
                          /\ disputes[i].attestor = a

=============================================================================
