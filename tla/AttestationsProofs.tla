------------------------- MODULE AttestationsProofs -------------------------
(***************************************************************************)
(* Proofs about Attestations that hold for every set of businesses,        *)
(* periods, attestors, challengers and records, and every bound.           *)
(*                                                                         *)
(* The state falls into three parts that the calls change separately: the  *)
(* revocations, the records and the disputes.  Each has an inductive       *)
(* invariant of its own.                                                   *)
(***************************************************************************)
EXTENDS Attestations, FiniteSetTheorems, NaturalsInduction, TLAPS

-----------------------------------------------------------------------------
(* Revocations *)

\* A revocation index lists each of its periods once.
ListedOnce(index) == \A i, j \in DOMAIN index : index[i] = index[j] => i = j

\* The index needs its types, and the sequence number needs finitely many
\* revocations.
RevocationInv ==
    /\ revoked \in SUBSET Keys
    /\ IsFiniteSet(revoked)
    /\ revokedPeriods \in [Businesses -> Seq(Periods)]
    /\ SequenceCountsRevocations
    /\ IndexListsRevoked

\* Dropping entries of an index keeps it an index of some of the periods.
LEMMA CompactedIndex ==
    ASSUME NEW index \in Seq(Periods), ListedOnce(index),
           NEW K \in SUBSET DOMAIN index, NEW rest \in Compacted(index, K)
    PROVE  /\ rest \in Seq(Periods)
           /\ ListedOnce(rest)
           /\ \A n \in DOMAIN rest : \E i \in K : rest[n] = index[i]
<1>1. IsFiniteSet(K) /\ Cardinality(K) \in Nat
  <2>1. Len(index) \in Nat /\ DOMAIN index = 1 .. Len(index)
    OBVIOUS
  <2>2. IsFiniteSet(1 .. Len(index))
    BY <2>1, FS_Interval
  <2>. QED
    BY <2>1, <2>2, FS_Subset, FS_CardinalityType
<1>2. PICK at \in [1 .. Cardinality(K) -> K] :
         /\ \A m, n \in 1 .. Cardinality(K) : m < n => at[m] < at[n]
         /\ rest = [n \in 1 .. Cardinality(K) |-> index[at[n]]]
  BY DEF Compacted
<1>3. \A n \in 1 .. Cardinality(K) :
         at[n] \in K /\ at[n] \in Int /\ index[at[n]] \in Periods
  BY <1>2
<1>4. rest \in Seq(Periods) /\ DOMAIN rest = 1 .. Cardinality(K)
  <2>1. rest \in [1 .. Cardinality(K) -> Periods]
    BY <1>2, <1>3
  <2>. QED
    BY <1>1, <2>1
<1>5. ListedOnce(rest)
  <2>1. SUFFICES ASSUME NEW m \in DOMAIN rest, NEW n \in DOMAIN rest,
                        rest[m] = rest[n]
                 PROVE  m = n
    BY DEF ListedOnce
  <2>2. at[m] = at[n]
    BY <1>2, <1>3, <1>4, <2>1 DEF ListedOnce
  <2>. QED
    BY <1>1, <1>2, <1>3, <1>4, <2>2
<1>. QED
  BY <1>2, <1>3, <1>4, <1>5

LEMMA RevocationInvInit == Init => RevocationInv
<1>. SUFFICES ASSUME Init PROVE RevocationInv
  OBVIOUS
<1>1. IsFiniteSet(revoked) /\ Cardinality(revoked) = 0
  BY FS_EmptySet DEF Init
<1>. QED
  BY <1>1
     DEF Init, RevocationInv, SequenceCountsRevocations, IndexListsRevoked

\* record_revocation on a key that is not revoked yet.
LEMMA RecordRevocationStep ==
    ASSUME RevocationInv, NEW k \in Keys, k \notin revoked, RecordRevocation(k)
    PROVE  RevocationInv'
<1>. DEFINE b == k[1]
            p == k[2]
            index == revokedPeriods[b]
<1>1. b \in Businesses /\ p \in Periods /\ k = <<b, p>>
  BY DEF Keys
<1>2. index \in Seq(Periods)
  BY <1>1 DEF RevocationInv
<1>3. /\ revoked' = revoked \cup {k}
      /\ revokedPeriods' = [revokedPeriods EXCEPT ![b] = Append(index, p)]
      /\ revocationSeq' = revocationSeq + 1
  BY DEF RecordRevocation
<1>4. /\ IsFiniteSet(revoked')
      /\ Cardinality(revoked') = Cardinality(revoked) + 1
  BY <1>3, FS_AddElement DEF RevocationInv
<1>5. \A i \in DOMAIN index : index[i] # p
  BY <1>1 DEF RevocationInv, IndexListsRevoked
<1>6. /\ Append(index, p) \in Seq(Periods)
      /\ DOMAIN Append(index, p) = DOMAIN index \cup {Len(index) + 1}
      /\ \A i \in DOMAIN index : Append(index, p)[i] = index[i]
      /\ Append(index, p)[Len(index) + 1] = p
  BY <1>1, <1>2
<1>7. ListedOnce(Append(index, p))
  <2>1. ListedOnce(index)
    BY <1>1 DEF RevocationInv, IndexListsRevoked, ListedOnce
  <2>. HIDE DEF index, p
  <2>. QED
    BY <1>5, <1>6, <2>1 DEF ListedOnce
<1>8. \A i \in DOMAIN Append(index, p) : <<b, Append(index, p)[i]>> \in revoked'
  <2>1. \A i \in DOMAIN index : <<b, index[i]>> \in revoked
    BY <1>1 DEF RevocationInv, IndexListsRevoked
  <2>. HIDE DEF index, p, b
  <2>. QED
    BY <1>1, <1>3, <1>6, <2>1
<1>9. /\ revokedPeriods'[b] = Append(index, p)
      /\ \A c \in Businesses \ {b} : revokedPeriods'[c] = revokedPeriods[c]
      /\ revokedPeriods' \in [Businesses -> Seq(Periods)]
  BY <1>1, <1>3, <1>6 DEF RevocationInv
<1>10. IndexListsRevoked'
  <2>1. ASSUME NEW c \in Businesses
        PROVE  /\ ListedOnce(revokedPeriods'[c])
               /\ \A i \in DOMAIN revokedPeriods'[c] :
                     <<c, revokedPeriods'[c][i]>> \in revoked'
    <3>1. CASE c = b
      BY <1>7, <1>8, <1>9, <3>1
    <3>2. CASE c # b
      BY <1>3, <1>9, <3>2
         DEF RevocationInv, IndexListsRevoked, ListedOnce
    <3>. QED
      BY <3>1, <3>2
  <2>. QED
    BY <2>1 DEF IndexListsRevoked, ListedOnce
<1>11. SequenceCountsRevocations'
  BY <1>3, <1>4 DEF RevocationInv, SequenceCountsRevocations
<1>. QED
  BY <1>3, <1>4, <1>9, <1>10, <1>11 DEF RevocationInv

\* revoke_and_cleanup and cleanup_revocation_index shorten one index.
LEMMA ShortenIndexStep ==
    ASSUME RevocationInv, NEW b \in Businesses,
           revoked \subseteq revoked', revoked' \in SUBSET Keys,
           IsFiniteSet(revoked'), SequenceCountsRevocations',
           NEW K \in SUBSET DOMAIN revokedPeriods[b],
           NEW rest \in Compacted(revokedPeriods[b], K),
           revokedPeriods' = [revokedPeriods EXCEPT ![b] = rest]
    PROVE  RevocationInv'
<1>1. revokedPeriods[b] \in Seq(Periods) /\ ListedOnce(revokedPeriods[b])
  BY DEF RevocationInv, IndexListsRevoked, ListedOnce
<1>2. /\ rest \in Seq(Periods)
      /\ ListedOnce(rest)
      /\ \A n \in DOMAIN rest : \E i \in K : rest[n] = revokedPeriods[b][i]
  BY <1>1, CompactedIndex
<1>3. \A n \in DOMAIN rest : <<b, rest[n]>> \in revoked'
  BY <1>2 DEF RevocationInv, IndexListsRevoked
<1>4. /\ revokedPeriods'[b] = rest
      /\ \A c \in Businesses \ {b} : revokedPeriods'[c] = revokedPeriods[c]
      /\ revokedPeriods' \in [Businesses -> Seq(Periods)]
  BY <1>2 DEF RevocationInv
<1>5. IndexListsRevoked'
  <2>1. ASSUME NEW c \in Businesses
        PROVE  /\ ListedOnce(revokedPeriods'[c])
               /\ \A i \in DOMAIN revokedPeriods'[c] :
                     <<c, revokedPeriods'[c][i]>> \in revoked'
    <3>1. CASE c = b
      BY <1>2, <1>3, <1>4, <3>1
    <3>2. CASE c # b
      BY <1>4, <3>2 DEF RevocationInv, IndexListsRevoked, ListedOnce
    <3>. QED
      BY <3>1, <3>2
  <2>. QED
    BY <2>1 DEF IndexListsRevoked, ListedOnce
<1>. QED
  BY <1>4, <1>5 DEF RevocationInv

\* The calls that touch the revocation records.
LEMMA RevocationCalls ==
    ASSUME [Next]_vars
    PROVE  \/ UNCHANGED <<revoked, revokedPeriods, revocationSeq>>
           \/ \E k \in Keys : k \notin revoked /\ RecordRevocation(k)
           \/ \E caller \in Callers, k \in Keys : RevokeAndCleanup(caller, k)
           \/ \E b \in Businesses : CleanupRevocationIndex(b)
<1>1. CASE UNCHANGED vars
  BY <1>1 DEF vars, revocation
<1>2. CASE RegistryCall
  BY <1>2 DEF RegistryCall, RegisterBusiness, ApproveBusiness, SuspendBusiness,
              ReactivateBusiness, SetStatus, revocation
<1>3. CASE RecordCall
  BY <1>3 DEF RecordCall, SubmitAttestations, SubmitAsAttestor, StoreAll,
              MigrateAttestation, ExtendExpiry, CleanupExpiredAttestation,
              revocation
<1>4. CASE ArchiveCall
  BY <1>4 DEF ArchiveCall, MoveToArchive, SetCompactionRetention,
              CompactArchival, revocation
<1>5. CASE RevocationCall
  BY <1>5 DEF RevocationCall, RevokeAttestation, ProposeRevoke,
              CancelRevokeProposal, CommitRevoke, SetRevokeGrace
<1>6. CASE DisputeCall
  BY <1>6 DEF DisputeCall, OpenDispute, ResolveDispute, SubmitDisputeWitness,
              CloseDispute, RollbackDisputes, SetDisputeDeadline, revocation
<1>7. CASE (\E flag \in PauseStates : SetPaused(flag)) \/ Tick
  BY <1>7 DEF SetPaused, Tick, revocation
<1>. QED
  BY <1>1, <1>2, <1>3, <1>4, <1>5, <1>6, <1>7 DEF Next

LEMMA RevocationInvStep == RevocationInv /\ [Next]_vars => RevocationInv'
<1>. SUFFICES ASSUME RevocationInv, [Next]_vars PROVE RevocationInv'
  OBVIOUS
<1>1. CASE UNCHANGED <<revoked, revokedPeriods, revocationSeq>>
  BY <1>1 DEF RevocationInv, SequenceCountsRevocations, IndexListsRevoked
<1>2. ASSUME NEW k \in Keys, k \notin revoked, RecordRevocation(k)
      PROVE  RevocationInv'
  BY <1>2, RecordRevocationStep
<1>3. ASSUME NEW caller \in Callers, NEW k \in Keys, RevokeAndCleanup(caller, k)
      PROVE  RevocationInv'
  <2>. DEFINE index == revokedPeriods[k[1]]
              K == {i \in DOMAIN index : index[i] # k[2]}
  <2>1. /\ revoked' = revoked \cup {k}
        /\ revocationSeq' = revocationSeq + (IF k \in revoked THEN 0 ELSE 1)
    BY <1>3 DEF RevokeAndCleanup
  <2>2. PICK rest \in Compacted(index, K) :
           revokedPeriods' = [revokedPeriods EXCEPT ![k[1]] = rest]
    BY <1>3 DEF RevokeAndCleanup
  <2>3. k[1] \in Businesses /\ K \in SUBSET DOMAIN index
    BY DEF Keys
  <2>4. /\ IsFiniteSet(revoked')
        /\ Cardinality(revoked') = IF k \in revoked THEN Cardinality(revoked)
                                   ELSE Cardinality(revoked) + 1
        /\ Cardinality(revoked) \in Nat
    BY <2>1, FS_AddElement, FS_CardinalityType DEF RevocationInv
  <2>5. SequenceCountsRevocations'
    BY <2>1, <2>4 DEF RevocationInv, SequenceCountsRevocations
  <2>6. revoked \subseteq revoked' /\ revoked' \in SUBSET Keys
    BY <2>1 DEF RevocationInv
  <2>. HIDE DEF K
  <2>. QED
    BY <2>2, <2>3, <2>4, <2>5, <2>6, ShortenIndexStep
<1>4. ASSUME NEW b \in Businesses, CleanupRevocationIndex(b)
      PROVE  RevocationInv'
  <2>. DEFINE index == revokedPeriods[b]
              K == {i \in DOMAIN index : att[<<b, index[i]>>] # NoData}
  <2>1. UNCHANGED <<revoked, revocationSeq>>
    BY <1>4 DEF CleanupRevocationIndex
  <2>2. PICK rest \in Compacted(index, K) :
           revokedPeriods' = [revokedPeriods EXCEPT ![b] = rest]
    BY <1>4 DEF CleanupRevocationIndex
  <2>3. K \in SUBSET DOMAIN index
    OBVIOUS
  <2>4. /\ IsFiniteSet(revoked') /\ SequenceCountsRevocations'
        /\ revoked \subseteq revoked' /\ revoked' \in SUBSET Keys
    BY <2>1 DEF RevocationInv, SequenceCountsRevocations
  <2>. HIDE DEF K
  <2>. QED
    BY <2>2, <2>3, <2>4, ShortenIndexStep
<1>. QED
  BY <1>1, <1>2, <1>3, <1>4, RevocationCalls

\* The sequence number counts every revocation once, whichever of the paths
\* made it and in whatever order they interleave.
THEOREM SequenceAlwaysCounts == Spec => []SequenceCountsRevocations
<1>1. Spec => []RevocationInv
  BY RevocationInvInit, RevocationInvStep, PTL DEF Spec
<1>2. RevocationInv => SequenceCountsRevocations
  BY DEF RevocationInv
<1>. QED
  BY <1>1, <1>2, PTL

\* The index of a business lists only revoked periods, and each once, through
\* revocations, clean-ups and resubmissions.
THEOREM IndexAlwaysListsRevoked == Spec => []IndexListsRevoked
<1>1. Spec => []RevocationInv
  BY RevocationInvInit, RevocationInvStep, PTL DEF Spec
<1>2. RevocationInv => IndexListsRevoked
  BY DEF RevocationInv
<1>. QED
  BY <1>1, <1>2, PTL

-----------------------------------------------------------------------------
(* Records *)

\* What the removal and the freezing of a record rest on: a stored record is
\* a record.
RecordsInv ==
    /\ att \in [Keys -> Data \cup {NoData}]
    /\ attestorOf \in [Keys -> Attestors \cup {Nobody}]
    /\ now \in Nat

LEMMA RecordsInvInit == Init => RecordsInv
  BY DEF Init, RecordsInv

\* A batch of records is a function into the records a caller may submit.
LEMMA ItemsAreRecords ==
    ASSUME NEW items \in Items
    PROVE  /\ DOMAIN items \subseteq Keys
           /\ \A k \in DOMAIN items : items[k] \in Data
  BY AttestationsAssumption DEF Items

\* The calls that touch the records, and how.
LEMMA RecordCalls ==
    ASSUME [Next]_vars
    PROVE  \/ UNCHANGED <<att, attestorOf>>
           \/ RecordCall
           \/ \E admin \in Admins, order \in Orders, threshold \in AgeThresholds :
                 MoveToArchive(admin, order, threshold)
           \/ \E caller \in Callers, k \in Keys : RevokeAndCleanup(caller, k)
<1>1. CASE UNCHANGED vars
  BY <1>1 DEF vars, records
<1>2. CASE RegistryCall
  BY <1>2 DEF RegistryCall, RegisterBusiness, ApproveBusiness, SuspendBusiness,
              ReactivateBusiness, SetStatus, records
<1>4. CASE ArchiveCall
  BY <1>4 DEF ArchiveCall, SetCompactionRetention, CompactArchival, records
<1>5. CASE RevocationCall
  BY <1>5 DEF RevocationCall, RevokeAttestation, ProposeRevoke,
              CancelRevokeProposal, CommitRevoke, SetRevokeGrace,
              CleanupRevocationIndex, records
<1>6. CASE DisputeCall
  BY <1>6 DEF DisputeCall, OpenDispute, ResolveDispute, SubmitDisputeWitness,
              CloseDispute, RollbackDisputes, SetDisputeDeadline, records
<1>7. CASE (\E flag \in PauseStates : SetPaused(flag)) \/ Tick
  BY <1>7 DEF SetPaused, Tick, records
<1>. QED
  BY <1>1, <1>2, <1>4, <1>5, <1>6, <1>7 DEF Next

\* Only a closing ledger moves the clock.
LEMMA ClockStep ==
    ASSUME [Next]_vars, now \in Nat
    PROVE  now' \in Nat
<1>1. CASE UNCHANGED vars
  BY <1>1 DEF vars
<1>2. CASE RegistryCall
  BY <1>2 DEF RegistryCall, RegisterBusiness, ApproveBusiness, SuspendBusiness,
              ReactivateBusiness, SetStatus
<1>3. CASE RecordCall
  BY <1>3 DEF RecordCall, SubmitAttestations, SubmitAsAttestor, StoreAll,
              MigrateAttestation, ExtendExpiry, CleanupExpiredAttestation
<1>4. CASE ArchiveCall
  BY <1>4 DEF ArchiveCall, MoveToArchive, SetCompactionRetention, CompactArchival
<1>5. CASE RevocationCall
  BY <1>5 DEF RevocationCall, RevokeAttestation, RevokeAndCleanup, ProposeRevoke,
              CancelRevokeProposal, CommitRevoke, SetRevokeGrace,
              CleanupRevocationIndex
<1>6. CASE DisputeCall
  BY <1>6 DEF DisputeCall, OpenDispute, ResolveDispute, SubmitDisputeWitness,
              CloseDispute, RollbackDisputes, SetDisputeDeadline
<1>7. CASE (\E flag \in PauseStates : SetPaused(flag)) \/ Tick
  BY <1>7 DEF SetPaused, Tick
<1>. QED
  BY <1>1, <1>2, <1>3, <1>4, <1>5, <1>6, <1>7 DEF Next

\* What one call may do to one record: store a new one, change its version
\* if it is not revoked, extend its expiry, or remove it for a reason.
RecordStep(k) ==
    \/ att'[k] = att[k]
    \/ att[k] = NoData
    \/ \E version \in Nat : /\ k \notin revoked
                            /\ att'[k] = [att[k] EXCEPT !.version = version]
    \/ \E expiry \in Nat : att'[k] = [att[k] EXCEPT !.expiry = expiry]
    \/ /\ att'[k] = NoData
       /\ \/ archived'[k] = att[k]
          \/ k \in revoked'
          \/ Expired(att[k]) /\ ~HasOpenDispute(k)

\* Every call keeps the records' types and takes each record through a step
\* above.
LEMMA EachRecordStep ==
    ASSUME RecordsInv, [Next]_vars
    PROVE  /\ att' \in [Keys -> Data \cup {NoData}]
           /\ attestorOf' \in [Keys -> Attestors \cup {Nobody}]
           /\ \A k \in Keys : RecordStep(k)
<1>0. /\ att \in [Keys -> Data \cup {NoData}]
      /\ attestorOf \in [Keys -> Attestors \cup {Nobody}]
  BY DEF RecordsInv
<1>1. CASE UNCHANGED <<att, attestorOf>>
  BY <1>0, <1>1 DEF RecordStep
<1>2. ASSUME NEW items \in Items, StoreAll(items),
             attestorOf' \in [Keys -> Attestors \cup {Nobody}]
      PROVE  /\ att' \in [Keys -> Data \cup {NoData}]
             /\ \A k \in Keys : RecordStep(k)
  <2>1. /\ att' = [k \in Keys |-> IF k \in DOMAIN items THEN items[k] ELSE att[k]]
        /\ \A k \in DOMAIN items : att[k] = NoData
    BY <1>2 DEF StoreAll
  <2>2. \A k \in Keys : att'[k] = att[k] \/ att[k] = NoData
    BY <2>1
  <2>3. att' \in [Keys -> Data \cup {NoData}]
    BY <1>0, <2>1, ItemsAreRecords
  <2>. QED
    BY <2>2, <2>3 DEF RecordStep
<1>3. ASSUME NEW items \in Items, SubmitAttestations(items)
      PROVE  attestorOf' \in [Keys -> Attestors \cup {Nobody}] /\ StoreAll(items)
  BY <1>0, <1>3 DEF SubmitAttestations
<1>4. ASSUME NEW items \in Items, NEW a \in Attestors, SubmitAsAttestor(a, items)
      PROVE  attestorOf' \in [Keys -> Attestors \cup {Nobody}] /\ StoreAll(items)
  BY <1>0, <1>4 DEF SubmitAsAttestor
<1>5. ASSUME NEW admin \in Admins, NEW k \in Keys, NEW version \in Versions,
             MigrateAttestation(admin, k, version)
      PROVE  /\ att' \in [Keys -> Data \cup {NoData}]
             /\ attestorOf' = attestorOf
             /\ \A l \in Keys : RecordStep(l)
  <2>1. /\ att' = [att EXCEPT ![k].version = version]
        /\ attestorOf' = attestorOf
        /\ k \notin revoked
        /\ att[k] # NoData
        /\ version \in Nat
    BY <1>5, AttestationsAssumption DEF MigrateAttestation
  <2>2. /\ att'[k] = [att[k] EXCEPT !.version = version]
        /\ \A l \in Keys \ {k} : att'[l] = att[l]
    BY <1>0, <2>1
  <2>3. [att[k] EXCEPT !.version = version] \in Data
    BY <1>0, <2>1 DEF Data
  <2>4. att' \in [Keys -> Data \cup {NoData}]
    BY <1>0, <2>1, <2>3
  <2>. QED
    BY <2>1, <2>2, <2>4 DEF RecordStep
<1>6. ASSUME NEW k \in Keys, NEW expiry \in Expiries, ExtendExpiry(k, expiry)
      PROVE  /\ att' \in [Keys -> Data \cup {NoData}]
             /\ attestorOf' = attestorOf
             /\ \A l \in Keys : RecordStep(l)
  <2>1. /\ att' = [att EXCEPT ![k].expiry = expiry]
        /\ attestorOf' = attestorOf
        /\ att[k] # NoData
        /\ expiry \in Nat
    BY <1>6, AttestationsAssumption DEF ExtendExpiry
  <2>2. /\ att'[k] = [att[k] EXCEPT !.expiry = expiry]
        /\ \A l \in Keys \ {k} : att'[l] = att[l]
    BY <1>0, <2>1
  <2>3. [att[k] EXCEPT !.expiry = expiry] \in Data
    BY <1>0, <2>1 DEF Data
  <2>4. att' \in [Keys -> Data \cup {NoData}]
    BY <1>0, <2>1, <2>3
  <2>. QED
    BY <2>1, <2>2, <2>4 DEF RecordStep
<1>7. ASSUME NEW k \in Keys, DropRecord(k),
             k \in revoked' \/ (Expired(att[k]) /\ ~HasOpenDispute(k))
      PROVE  /\ att' \in [Keys -> Data \cup {NoData}]
             /\ attestorOf' = attestorOf
             /\ \A l \in Keys : RecordStep(l)
  <2>1. att' = [att EXCEPT ![k] = NoData] /\ attestorOf' = attestorOf
    BY <1>7 DEF DropRecord
  <2>2. att'[k] = NoData /\ \A l \in Keys \ {k} : att'[l] = att[l]
    BY <1>0, <2>1
  <2>3. att' \in [Keys -> Data \cup {NoData}]
    BY <1>0, <2>1
  <2>. QED
    BY <1>7, <2>1, <2>2, <2>3 DEF RecordStep
<1>8. ASSUME NEW caller \in Callers, NEW k \in Keys,
             CleanupExpiredAttestation(caller, k)
      PROVE  DropRecord(k) /\ Expired(att[k]) /\ ~HasOpenDispute(k)
  BY <1>8 DEF CleanupExpiredAttestation
<1>9. ASSUME NEW caller \in Callers, NEW k \in Keys, RevokeAndCleanup(caller, k)
      PROVE  DropRecord(k) /\ k \in revoked'
  BY <1>9 DEF RevokeAndCleanup
<1>10. ASSUME NEW admin \in Admins, NEW order \in Orders,
              NEW threshold \in AgeThresholds,
              MoveToArchive(admin, order, threshold)
       PROVE  /\ att' \in [Keys -> Data \cup {NoData}]
              /\ attestorOf' = attestorOf
              /\ \A l \in Keys : RecordStep(l)
  <2>1. /\ att' = [k \in Keys |-> IF k \in Range(order) THEN NoData ELSE att[k]]
        /\ archived' = [k \in Keys |-> IF k \in Range(order) THEN att[k]
                                       ELSE archived[k]]
        /\ attestorOf' = attestorOf
    BY <1>10 DEF MoveToArchive
  <2>2. \A k \in Keys : \/ att'[k] = att[k]
                        \/ att'[k] = NoData /\ archived'[k] = att[k]
    BY <2>1
  <2>3. att' \in [Keys -> Data \cup {NoData}]
    BY <1>0, <2>1
  <2>. QED
    BY <2>1, <2>2, <2>3 DEF RecordStep
<1>11. CASE RecordCall
  BY <1>0, <1>2, <1>3, <1>4, <1>5, <1>6, <1>7, <1>8, <1>11 DEF RecordCall
<1>. QED
  BY <1>0, <1>1, <1>7, <1>9, <1>10, <1>11, RecordCalls

LEMMA RecordsInvStep == RecordsInv /\ [Next]_vars => RecordsInv'
<1>. SUFFICES ASSUME RecordsInv, [Next]_vars PROVE RecordsInv'
  OBVIOUS
<1>1. now' \in Nat
  BY ClockStep DEF RecordsInv
<1>. QED
  BY <1>1, EachRecordStep DEF RecordsInv

\* The step of NoSilentRemoval.
RemovalStep ==
    \A k \in Keys :
        att[k] # NoData /\ att'[k] = NoData =>
           \/ archived'[k] = att[k]
           \/ k \in revoked'
           \/ Expired(att[k]) /\ ~HasOpenDispute(k)

\* A record leaves active storage only into the archive, by revocation, or
\* once expired with no dispute pending, whatever calls interleave.
THEOREM RecordsNeverVanish == Spec => NoSilentRemoval
<1>1. Spec => []RecordsInv
  BY RecordsInvInit, RecordsInvStep, PTL DEF Spec
<1>2. RecordsInv /\ [Next]_vars => [RemovalStep]_vars
  <2>. SUFFICES ASSUME RecordsInv, [Next]_vars, NEW k \in Keys,
                       att[k] # NoData, att'[k] = NoData
                PROVE  \/ archived'[k] = att[k]
                       \/ k \in revoked'
                       \/ Expired(att[k]) /\ ~HasOpenDispute(k)
    BY DEF RemovalStep
  <2>1. RecordStep(k)
    BY EachRecordStep
  <2>2. att[k] \in Data
    BY DEF RecordsInv
  <2>3. \A n \in Nat : /\ [att[k] EXCEPT !.version = n] \in Data
                       /\ [att[k] EXCEPT !.expiry = n] \in Data
    BY <2>2 DEF Data
  <2>4. NoData \notin Data
    BY AttestationsAssumption
  <2>. QED
    BY <2>1, <2>3, <2>4 DEF RecordStep
<1>3. Spec => [][RemovalStep]_vars
  BY <1>1, <1>2, PTL DEF Spec
<1>. QED
  BY <1>3 DEF NoSilentRemoval, RemovalStep

\* The step of RevocationIsFinal.
FinalStep ==
    /\ revoked \subseteq revoked'
    /\ \A k \in revoked :
          att[k] # NoData /\ att'[k] # NoData => att'[k].version = att[k].version

\* A revocation is never undone, and no call, a version migration included,
\* rewrites a revoked record while it is stored.
THEOREM RevocationsAreFinal == Spec => RevocationIsFinal
<1>1. Spec => [](RecordsInv /\ RevocationInv)
  BY RecordsInvInit, RecordsInvStep, RevocationInvInit, RevocationInvStep, PTL
     DEF Spec
<1>2. RecordsInv /\ RevocationInv /\ [Next]_vars => [FinalStep]_vars
  <2>. SUFFICES ASSUME RecordsInv, RevocationInv, [Next]_vars PROVE FinalStep
    OBVIOUS
  <2>1. revoked \subseteq revoked'
    BY RevocationCalls
       DEF RecordRevocation, RevokeAndCleanup, CleanupRevocationIndex
  <2>2. ASSUME NEW k \in revoked, att[k] # NoData, att'[k] # NoData
        PROVE  att'[k].version = att[k].version
    <3>1. k \in Keys /\ att[k] \in Data
      BY <2>2 DEF RecordsInv, RevocationInv
    <3>2. RecordStep(k)
      BY <3>1, EachRecordStep
    <3>3. \A n \in Nat : [att[k] EXCEPT !.expiry = n].version = att[k].version
      BY <3>1 DEF Data
    <3>. QED
      BY <2>2, <3>2, <3>3 DEF RecordStep
  <2>. QED
    BY <2>1, <2>2 DEF FinalStep
<1>3. Spec => [][FinalStep]_vars
  BY <1>1, <1>2, PTL DEF Spec
<1>. QED
  BY <1>3 DEF RevocationIsFinal, FinalStep

-----------------------------------------------------------------------------
(* Disputes *)

\* Two disputes of one attestation are never pending together, and every
\* dispute is one.
DisputesInv ==
    /\ disputes \in Seq(Dispute)
    /\ OneLiveDispute

LEMMA DisputesInvInit == Init => DisputesInv
  BY DEF Init, DisputesInv, OneLiveDispute

\* A step that keeps the keys and makes no dispute live again keeps at most
\* one of them live for each key.
LEMMA LiveDisputesShrink ==
    ASSUME DisputesInv, disputes' \in Seq(Dispute),
           Len(disputes') = Len(disputes),
           \A i \in DOMAIN disputes :
              /\ disputes'[i].key = disputes[i].key
              /\ disputes'[i].status \in {"Open", "Resolved"} => Live(i)
    PROVE  DisputesInv'
<1>1. DOMAIN disputes' = DOMAIN disputes
  BY DEF DisputesInv
<1>2. OneLiveDispute'
  BY <1>1 DEF DisputesInv, OneLiveDispute, Live
<1>. QED
  BY <1>2 DEF DisputesInv

\* The calls that touch the disputes.
LEMMA DisputeCalls ==
    ASSUME [Next]_vars
    PROVE  \/ UNCHANGED disputes
           \/ \E c \in Challengers, k \in Keys : OpenDispute(c, k)
           \/ \E admin \in Admins, id \in 1 .. MaxDisputes, outcome \in Outcomes :
                 ResolveDispute(admin, id, outcome)
           \/ \E id \in 1 .. MaxDisputes : SubmitDisputeWitness(id) \/ CloseDispute(id)
           \/ \E admin \in Admins, D \in SUBSET DOMAIN disputes \ {{}} :
                 RollbackDisputes(admin, D)
<1>1. CASE UNCHANGED vars
  BY <1>1 DEF vars, disputing
<1>2. CASE RegistryCall
  BY <1>2 DEF RegistryCall, RegisterBusiness, ApproveBusiness, SuspendBusiness,
              ReactivateBusiness, SetStatus, disputing
<1>3. CASE RecordCall
  BY <1>3 DEF RecordCall, SubmitAttestations, SubmitAsAttestor, StoreAll,
              MigrateAttestation, ExtendExpiry, CleanupExpiredAttestation,
              disputing
<1>4. CASE ArchiveCall
  BY <1>4 DEF ArchiveCall, MoveToArchive, SetCompactionRetention,
              CompactArchival, disputing
<1>5. CASE RevocationCall
  BY <1>5 DEF RevocationCall, RevokeAttestation, RevokeAndCleanup, ProposeRevoke,
              CancelRevokeProposal, CommitRevoke, SetRevokeGrace,
              CleanupRevocationIndex, disputing
<1>6. CASE DisputeCall
  BY <1>6 DEF DisputeCall, SetDisputeDeadline
<1>7. CASE (\E flag \in PauseStates : SetPaused(flag)) \/ Tick
  BY <1>7 DEF SetPaused, Tick, disputing
<1>. QED
  BY <1>1, <1>2, <1>3, <1>4, <1>5, <1>6, <1>7 DEF Next

\* open_dispute appends a dispute of a key that has none pending.
LEMMA OpenDisputeStep ==
    ASSUME DisputesInv, RecordsInv, NEW c \in Challengers, NEW k \in Keys,
           OpenDispute(c, k)
    PROVE  DisputesInv'
<1>. DEFINE a == attestorOf[k]
            d == [key |-> k, challenger |-> c,
                  attestor |-> IF a = Nobody THEN k[1] ELSE a,
                  status |-> "Open", time |-> now,
                  resolver |-> Nobody, outcome |-> "None"]
<1>1. disputes' = Append(disputes, d) /\ ~HasOpenDispute(k)
  BY DEF OpenDispute
<1>2. d \in Dispute
  <2>1. k[1] \in Businesses /\ a \in Attestors \cup {Nobody} /\ now \in Nat
    BY DEF Keys, RecordsInv
  <2>. QED
    BY <2>1 DEF Dispute
<1>3. d.key = k /\ d.status = "Open"
  OBVIOUS
<1>4. disputes \in Seq(Dispute)
  BY DEF DisputesInv
<1>. HIDE DEF d
<1>5. /\ disputes' \in Seq(Dispute)
      /\ DOMAIN disputes' = DOMAIN disputes \cup {Len(disputes) + 1}
      /\ \A i \in DOMAIN disputes : disputes'[i] = disputes[i]
      /\ disputes'[Len(disputes) + 1] = d
  BY <1>1, <1>2, <1>4
<1>6. \A i \in DOMAIN disputes : disputes[i].key = k => ~Live(i)
  BY <1>1 DEF HasOpenDispute
<1>7. OneLiveDispute'
  <2>. SUFFICES ASSUME NEW i \in DOMAIN disputes', NEW j \in DOMAIN disputes',
                       disputes'[i].key = disputes'[j].key,
                       disputes'[i].status \in {"Open", "Resolved"},
                       disputes'[j].status \in {"Open", "Resolved"}
                PROVE  i = j
    BY DEF OneLiveDispute, Live
  <2>1. CASE i \in DOMAIN disputes /\ j \in DOMAIN disputes
    BY <1>5, <2>1 DEF DisputesInv, OneLiveDispute, Live
  <2>2. CASE i \in DOMAIN disputes /\ j = Len(disputes) + 1
    BY <1>3, <1>5, <1>6, <2>2 DEF Live
  <2>3. CASE i = Len(disputes) + 1 /\ j \in DOMAIN disputes
    BY <1>3, <1>5, <1>6, <2>3 DEF Live
  <2>. QED
    BY <1>5, <2>1, <2>2, <2>3
<1>. QED
  BY <1>5, <1>7 DEF DisputesInv

\* Settling a dispute keeps it one.
LEMMA SettledIsDispute ==
    ASSUME disputes \in Seq(Dispute), NEW i \in DOMAIN disputes,
           NEW to \in {"Resolved", "Closed"}, NEW outcome \in Outcomes,
           NEW resolver \in Admins \cup Challengers
    PROVE  /\ Settled(i, to, outcome, resolver) \in Dispute
           /\ Settled(i, to, outcome, resolver).key = disputes[i].key
           /\ Settled(i, to, outcome, resolver).status = to
<1>1. disputes[i] \in Dispute
  OBVIOUS
<1>. QED
  BY <1>1 DEF Settled, Dispute

LEMMA DisputesInvStep ==
    DisputesInv /\ RecordsInv /\ [Next]_vars => DisputesInv'
<1>. SUFFICES ASSUME DisputesInv, RecordsInv, [Next]_vars PROVE DisputesInv'
  OBVIOUS
<1>0. disputes \in Seq(Dispute)
  BY DEF DisputesInv
<1>1. CASE UNCHANGED disputes
  BY <1>1 DEF DisputesInv, OneLiveDispute, Live
<1>2. ASSUME NEW c \in Challengers, NEW k \in Keys, OpenDispute(c, k)
      PROVE  DisputesInv'
  BY <1>2, OpenDisputeStep
\* One dispute that is open is resolved.
<1>3. ASSUME NEW id \in DOMAIN disputes, disputes[id].status = "Open",
             NEW outcome \in Outcomes, NEW resolver \in Admins \cup Challengers,
             disputes' = [disputes EXCEPT ![id] =
                             Settled(id, "Resolved", outcome, resolver)]
      PROVE  DisputesInv'
  <2>. DEFINE d == Settled(id, "Resolved", outcome, resolver)
  <2>1. d \in Dispute /\ d.key = disputes[id].key
    BY <1>0, <1>3, SettledIsDispute
  <2>. HIDE DEF d
  <2>2. disputes' = [disputes EXCEPT ![id] = d]
    BY <1>3 DEF d
  <2>3. disputes' \in Seq(Dispute) /\ Len(disputes') = Len(disputes)
    BY <1>0, <2>1, <2>2
  <2>4. \A i \in DOMAIN disputes :
           disputes'[i] = IF i = id THEN d ELSE disputes[i]
    BY <1>0, <2>2
  <2>5. \A i \in DOMAIN disputes :
           /\ disputes'[i].key = disputes[i].key
           /\ disputes'[i].status \in {"Open", "Resolved"} => Live(i)
    BY <1>3, <2>1, <2>4 DEF Live
  <2>. QED
    BY <2>3, <2>5, LiveDisputesShrink
<1>4. ASSUME NEW admin \in Admins, NEW id \in 1 .. MaxDisputes,
             NEW outcome \in Outcomes, ResolveDispute(admin, id, outcome)
      PROVE  DisputesInv'
  BY <1>3, <1>4 DEF ResolveDispute
<1>5. ASSUME NEW id \in 1 .. MaxDisputes, SubmitDisputeWitness(id)
      PROVE  DisputesInv'
  <2>1. /\ id \in DOMAIN disputes
        /\ disputes[id].status = "Open"
        /\ disputes' = [disputes EXCEPT ![id] =
                          Settled(id, "Resolved", "Upheld",
                                  disputes[id].challenger)]
    BY <1>5 DEF SubmitDisputeWitness
  <2>2. disputes[id].challenger \in Challengers /\ "Upheld" \in Outcomes
    <3>1. disputes[id] \in Dispute
      BY <1>0, <2>1
    <3>. QED
      BY <3>1 DEF Dispute, Outcomes
  <2>. QED
    BY <1>3, <2>1, <2>2
<1>6. ASSUME NEW id \in 1 .. MaxDisputes, CloseDispute(id)
      PROVE  DisputesInv'
  <2>1. /\ id \in DOMAIN disputes
        /\ disputes' = [disputes EXCEPT ![id] =
                           [disputes[id] EXCEPT !.status = "Closed"]]
    BY <1>6 DEF CloseDispute
  <2>. DEFINE d == [disputes[id] EXCEPT !.status = "Closed"]
  <2>2. d \in Dispute /\ d.key = disputes[id].key /\ d.status = "Closed"
    <3>1. disputes[id] \in Dispute
      BY <1>0, <2>1
    <3>. QED
      BY <3>1 DEF Dispute
  <2>3. disputes' = [disputes EXCEPT ![id] = d]
    BY <2>1
  <2>. HIDE DEF d
  <2>4. disputes' \in Seq(Dispute) /\ Len(disputes') = Len(disputes)
    BY <1>0, <2>1, <2>2, <2>3
  <2>5. \A i \in DOMAIN disputes :
           disputes'[i] = IF i = id THEN d ELSE disputes[i]
    BY <1>0, <2>1, <2>3
  <2>6. \A i \in DOMAIN disputes :
           /\ disputes'[i].key = disputes[i].key
           /\ disputes'[i].status \in {"Open", "Resolved"} => Live(i)
    BY <2>2, <2>5 DEF Live
  <2>. QED
    BY <2>4, <2>6, LiveDisputesShrink
<1>7. ASSUME NEW admin \in Admins, NEW D \in SUBSET DOMAIN disputes,
             RollbackDisputes(admin, D)
      PROVE  DisputesInv'
  <2>. DEFINE d(i) == Settled(i, "Closed", "Rejected", disputes[i].challenger)
  <2>1. disputes' = [i \in DOMAIN disputes |->
                        IF i \in D THEN d(i) ELSE disputes[i]]
    BY <1>7 DEF RollbackDisputes
  <2>2. ASSUME NEW i \in DOMAIN disputes
        PROVE  /\ d(i) \in Dispute
               /\ d(i).key = disputes[i].key
               /\ d(i).status = "Closed"
    <3>1. disputes[i].challenger \in Challengers /\ "Rejected" \in Outcomes
      <4>1. disputes[i] \in Dispute
        BY <1>0, <2>2
      <4>. QED
        BY <4>1 DEF Dispute, Outcomes
    <3>. QED
      BY <1>0, <2>2, <3>1, SettledIsDispute
  <2>. HIDE DEF d
  <2>3. disputes' \in [1 .. Len(disputes) -> Dispute]
    BY <1>0, <2>1, <2>2
  <2>4. disputes' \in Seq(Dispute) /\ Len(disputes') = Len(disputes)
    BY <1>0, <2>3
  <2>5. \A i \in DOMAIN disputes :
           /\ disputes'[i].key = disputes[i].key
           /\ disputes'[i].status \in {"Open", "Resolved"} => Live(i)
    BY <2>1, <2>2 DEF Live
  <2>. QED
    BY <2>4, <2>5, LiveDisputesShrink
<1>. QED
  BY <1>1, <1>2, <1>4, <1>5, <1>6, <1>7, DisputeCalls

\* No two disputes of one attestation are pending together, through any order
\* of openings, resolutions, witnesses, closings and rollbacks.
THEOREM DisputesStayUnique == Spec => []OneLiveDispute
<1>1. Spec => [](RecordsInv /\ DisputesInv)
  BY RecordsInvInit, RecordsInvStep, DisputesInvInit, DisputesInvStep, PTL
     DEF Spec
<1>2. DisputesInv => OneLiveDispute
  BY DEF DisputesInv
<1>. QED
  BY <1>1, <1>2, PTL

-----------------------------------------------------------------------------
(* Locks: every unlock is accounted for *)

\* What the locks are about: the attestor each dispute names, whom its key
\* leads to now, and which disputes are open.
Named == [i \in DOMAIN disputes |-> disputes[i].attestor]
FoundNow == [i \in DOMAIN disputes |-> attestorOf[disputes[i].key]]
StillOpen == {i \in DOMAIN disputes : disputes[i].status = "Open"}

\* h is a dispute of somebody else whose settlement unlocked the attestor of
\* dispute i, and it was opened before i.
FreedBy(h, i, name, unlocked) ==
    /\ h < i
    /\ name[h] # name[i]
    /\ unlocked[h] = name[i]

Helped(i, name, unlocked) == \E h \in DOMAIN name : FreedBy(h, i, name, unlocked)

\* Dispute j of somebody else unlocks a, or would if it were settled now.
Releases(j, a, name, found, open, unlocked) ==
    /\ name[j] # a
    /\ unlocked[j] = a \/ (j \in open /\ found[j] = a)

\* `unlocked` tells for each dispute whom its settlement unlocked.  The lock
\* count of an attestor is the number of disputes that name it less the number
\* of unlocks it got; and a dispute that still owes its attestor an unlock can
\* have been overtaken by another's unlock only if an earlier one came first.
Ledger(name, found, open, lock, unlocked) ==
    /\ \A i \in open : unlocked[i] = Nobody
    /\ \A a \in Attestors :
          lock[a] = Cardinality({i \in DOMAIN name : name[i] = a})
                       - Cardinality({i \in DOMAIN name : unlocked[i] = a})
    /\ \A i, j \in DOMAIN name :
          /\ name[i] \in Attestors
          /\ unlocked[i] # name[i]
          /\ Releases(j, name[i], name, found, open, unlocked)
          => j < i \/ Helped(i, name, unlocked)
    /\ \A i \in DOMAIN name \ open :
          IF name[i] \in Attestors
          THEN unlocked[i] # name[i] => found[i] # name[i] \/ Helped(i, name, unlocked)
          ELSE unlocked[i] # Nobody => found[i] # Nobody

Balanced(name, found, open, lock) ==
    \E unlocked \in [DOMAIN name -> Attestors \cup {Nobody}] :
        Ledger(name, found, open, lock, unlocked)

ByWitness(d) == d.outcome = "Upheld" /\ d.resolver = d.challenger

LocksInv ==
    /\ lockCount \in [Attestors -> Nat]
    /\ \A i \in StillOpen : disputes[i].outcome = "None"
    /\ \A i \in DOMAIN disputes :
          disputes[i].attestor \in Attestors => attestorOf[disputes[i].key] # Nobody
    /\ (\A i \in DOMAIN disputes : ~ByWitness(disputes[i]))
       => Balanced(Named, FoundNow, StillOpen, lockCount)

\* A non-empty set of naturals has a least member.
LEMMA EarliestOf ==
    ASSUME NEW S, S \subseteq Nat, S # {}
    PROVE  \E m \in S : \A x \in S : m <= x
<1>1. IsWellFoundedOn(OpToRel(<, Nat), Nat)
  BY NatLessThanWellFounded
<1>2. PICK m \in S : \A x \in S : ~(<<x, m>> \in OpToRel(<, Nat))
  BY <1>1, WFMin
<1>3. \A x \in S : ~(x < m)
  BY <1>2 DEF OpToRel
<1>. QED
  BY <1>3

LedgerTypes(n, name, found, open, lock, unlocked) ==
    /\ n \in Nat
    /\ name \in [1 .. n -> Attestors \cup Businesses]
    /\ found \in [1 .. n -> Attestors \cup {Nobody}]
    /\ open \subseteq 1 .. n
    /\ lock \in [Attestors -> Nat]
    /\ unlocked \in [1 .. n -> Attestors \cup {Nobody}]

\* The disputes whose entry in f is a.
Fibre(n, f, a) == {i \in 1 .. n : f[i] = a}

LEMMA FibreFinite ==
    ASSUME NEW n \in Nat, NEW f, NEW a
    PROVE  IsFiniteSet(Fibre(n, f, a)) /\ Cardinality(Fibre(n, f, a)) \in Nat
<1>1. IsFiniteSet(1 .. n)
  BY FS_Interval
<1>2. Fibre(n, f, a) \subseteq 1 .. n
  BY DEF Fibre
<1>3. IsFiniteSet(Fibre(n, f, a))
  BY <1>1, <1>2, FS_Subset
<1>. QED
  BY <1>3, FS_CardinalityType

\* An attestor without a lock got every unlock it is owed, or another's instead.
LEMMA OwedIsHelped ==
    ASSUME NEW n, NEW name, NEW found, NEW open, NEW lock, NEW unlocked,
           LedgerTypes(n, name, found, open, lock, unlocked),
           Ledger(name, found, open, lock, unlocked),
           NEW i \in 1 .. n, name[i] \in Attestors, unlocked[i] # name[i],
           lock[name[i]] = 0
    PROVE  Helped(i, name, unlocked)
<1>. SUFFICES ASSUME ~Helped(i, name, unlocked) PROVE FALSE
  OBVIOUS
<1>. DEFINE a == name[i]
            N == Fibre(n, name, a)
            U == Fibre(n, unlocked, a)
<1>1. n \in Nat /\ DOMAIN name = 1 .. n
  BY DEF LedgerTypes
<1>2. Cardinality(N) - Cardinality(U) = 0
  BY <1>1 DEF Ledger, Fibre
<1>3. ASSUME NEW j \in U, name[j] # a
      PROVE  FALSE
  <2>1. j \in 1 .. n /\ unlocked[j] = a
    BY DEF Fibre
  <2>2. Releases(j, name[i], name, found, open, unlocked)
    BY <1>3, <2>1 DEF Releases
  <2>3. j < i
    BY <1>1, <2>1, <2>2 DEF Ledger
  <2>. QED
    BY <1>1, <1>3, <2>1, <2>3 DEF Helped, FreedBy
<1>4. U \subseteq N \ {i}
  BY <1>3 DEF Fibre
<1>5. IsFiniteSet(N) /\ IsFiniteSet(U) /\ i \in N
  <2>1. i \in N
    BY DEF Fibre
  <2>. QED
    BY <1>1, <2>1, FibreFinite
<1>. HIDE DEF N, U
<1>6. IsFiniteSet(N \ {i}) /\ Cardinality(N \ {i}) = Cardinality(N) - 1
  BY <1>5, FS_RemoveElement
<1>7. Cardinality(U) <= Cardinality(N \ {i})
  BY <1>4, <1>6, FS_Subset
<1>8. Cardinality(N) \in Nat /\ Cardinality(U) \in Nat
  BY <1>5, FS_CardinalityType
<1>. QED
  BY <1>2, <1>6, <1>7, <1>8

\* Every key leads to the attestor the dispute names, if it names one.
LeadsBack(n, name, found) ==
    \A i \in 1 .. n : IF name[i] \in Attestors THEN found[i] = name[i]
                                             ELSE found[i] = Nobody

\* The lock of an attestor counts the open disputes that name it.
CountsOpen(open, name, lock, a) == lock[a] = Cardinality({i \in open : name[i] = a})

\* With every key leading to the attestor the dispute names, the count of locks
\* is the count of open disputes.
LEMMA BalancedLocksCount ==
    ASSUME NEW n, NEW name, NEW found, NEW open, NEW lock, NEW unlocked,
           LedgerTypes(n, name, found, open, lock, unlocked),
           Ledger(name, found, open, lock, unlocked),
           LeadsBack(n, name, found), NEW a \in Attestors
    PROVE  CountsOpen(open, name, lock, a)
<1>. USE DEF LeadsBack, CountsOpen
<1>. DEFINE Owing == {i \in 1 .. n : /\ i \notin open
                                     /\ name[i] \in Attestors
                                     /\ unlocked[i] # name[i]}
<1>1. n \in Nat /\ DOMAIN name = 1 .. n /\ open \subseteq 1 .. n
  BY DEF LedgerTypes
<1>2. ASSUME NEW j \in 1 .. n, unlocked[j] \in Attestors, unlocked[j] # name[j]
      PROVE  j \in Owing
  <2>1. j \notin open
    BY <1>2, AttestationsAssumption DEF Ledger
  <2>2. name[j] \in Attestors
    BY <1>1, <1>2, <2>1, AttestationsAssumption DEF Ledger
  <2>. QED
    BY <1>2, <2>1, <2>2
<1>3. Owing = {}
  <2>. SUFFICES ASSUME Owing # {} PROVE FALSE
    OBVIOUS
  <2>1. PICK i \in Owing : \A j \in Owing : i <= j
    <3>1. Owing \subseteq Nat
      BY <1>1
    <3>. HIDE DEF Owing
    <3>. QED
      BY <3>1, EarliestOf
  <2>2. i \in 1 .. n /\ i \notin open /\ name[i] \in Attestors /\ unlocked[i] # name[i]
    OBVIOUS
  <2>3. found[i] = name[i]
    BY <2>2
  <2>4. Helped(i, name, unlocked)
    BY <1>1, <2>2, <2>3 DEF Ledger
  <2>5. PICK h \in 1 .. n : h < i /\ name[h] # name[i] /\ unlocked[h] = name[i]
    BY <1>1, <2>4 DEF Helped, FreedBy
  <2>6. h \in Owing
    BY <1>2, <2>2, <2>5
  <2>. QED
    BY <1>1, <2>1, <2>2, <2>5, <2>6
<1>. DEFINE N == Fibre(n, name, a)
            U == Fibre(n, unlocked, a)
            O == {i \in open : name[i] = a}
<1>4. U = N \ O
  <2>1. ASSUME NEW i \in U
        PROVE  i \in N \ O
    <3>1. i \in 1 .. n /\ unlocked[i] = a
      BY DEF Fibre
    <3>2. name[i] = a
      BY <1>2, <1>3, <3>1
    <3>3. i \notin open
      BY <3>1, AttestationsAssumption DEF Ledger
    <3>. QED
      BY <3>1, <3>2, <3>3 DEF Fibre
  <2>2. ASSUME NEW i \in N \ O
        PROVE  i \in U
    <3>1. i \in 1 .. n /\ name[i] = a /\ i \notin open
      BY DEF Fibre
    <3>. QED
      BY <1>3, <3>1 DEF Fibre
  <2>. QED
    BY <2>1, <2>2
<1>5. O \subseteq N
  BY <1>1 DEF Fibre
<1>6. IsFiniteSet(N)
  BY <1>1, FibreFinite
<1>7. lock[a] = Cardinality(N) - Cardinality(U)
  BY <1>1 DEF Ledger, Fibre
<1>. HIDE DEF N, U, O, Owing
<1>8. Cardinality(N \ O) = Cardinality(N) - Cardinality(N \cap O)
  BY <1>6, FS_Difference
<1>9. N \cap O = O /\ IsFiniteSet(O)
  BY <1>5, <1>6, FS_Subset
<1>10. Cardinality(N) \in Nat /\ Cardinality(O) \in Nat
  BY <1>6, <1>9, FS_CardinalityType
<1>11. Cardinality(U) = Cardinality(N) - Cardinality(O)
  BY <1>4, <1>8, <1>9
<1>12. lock[a] = Cardinality(O)
  BY <1>7, <1>10, <1>11
<1>. QED
  BY <1>12 DEF O

\* Types of what Balanced is about.
BookTypes(n, name, found, open, lock) ==
    /\ n \in Nat
    /\ name \in [1 .. n -> Attestors \cup Businesses]
    /\ found \in [1 .. n -> Attestors \cup {Nobody}]
    /\ open \subseteq 1 .. n
    /\ lock \in [Attestors -> Nat]

OneUnlocked(lock, a) ==
    [x \in Attestors |-> IF x = a /\ lock[x] > 0 THEN lock[x] - 1 ELSE lock[x]]

\* One dispute is settled, and the attestor its key leads to is unlocked.
LEMMA SettleKeepsBalance ==
    ASSUME NEW n, NEW name, NEW found, NEW open, NEW lock,
           BookTypes(n, name, found, open, lock), Balanced(name, found, open, lock),
           NEW j \in open
    PROVE  Balanced(name, found, open \ {j}, OneUnlocked(lock, found[j]))
<1>. DEFINE b == found[j]
            lock1 == OneUnlocked(lock, b)
            open1 == open \ {j}
<1>1. /\ n \in Nat /\ DOMAIN name = 1 .. n /\ j \in 1 .. n /\ open \subseteq 1 .. n
      /\ b \in Attestors \cup {Nobody}
      /\ \A i \in 1 .. n : name[i] \in Attestors \cup Businesses
  BY DEF BookTypes
<1>2. PICK u \in [1 .. n -> Attestors \cup {Nobody}] : Ledger(name, found, open, lock, u)
  BY <1>1 DEF Balanced
<1>3. LedgerTypes(n, name, found, open, lock, u)
  BY DEF BookTypes, LedgerTypes
<1>. DEFINE to == IF b \in Attestors /\ lock[b] > 0 THEN b ELSE Nobody
            u1 == [u EXCEPT ![j] = to]
<1>4. u[j] = Nobody
  BY <1>2 DEF Ledger
<1>5. /\ u1 \in [1 .. n -> Attestors \cup {Nobody}] /\ u1[j] = to
      /\ \A i \in 1 .. n : i # j => u1[i] = u[i]
      /\ Nobody \notin Attestors \cup Businesses
  BY <1>1, AttestationsAssumption
<1>6. /\ to = Nobody \/ to = b
      /\ to # Nobody => b \in Attestors /\ lock[b] > 0
      /\ to = Nobody /\ b \in Attestors => lock[b] = 0
  BY <1>1, AttestationsAssumption DEF BookTypes
<1>. HIDE DEF u1, to
\* Whoever was helped still is.
<1>7. ASSUME NEW i \in 1 .. n, Helped(i, name, u)
      PROVE  Helped(i, name, u1)
  <2>1. PICK h \in 1 .. n : FreedBy(h, i, name, u)
    BY <1>1, <1>7 DEF Helped
  <2>2. h # j
    BY <1>1, <1>4, <1>5, <2>1 DEF FreedBy
  <2>3. FreedBy(h, i, name, u1)
    BY <1>5, <2>1, <2>2 DEF FreedBy
  <2>. QED
    BY <1>1, <2>3 DEF Helped
<1>8. \A i \in open1 : u1[i] = Nobody
  BY <1>1, <1>2, <1>5 DEF Ledger
<1>9. ASSUME NEW a \in Attestors
      PROVE  lock1[a] = Cardinality(Fibre(n, name, a)) - Cardinality(Fibre(n, u1, a))
  <2>1. lock[a] = Cardinality(Fibre(n, name, a)) - Cardinality(Fibre(n, u, a))
    BY <1>1, <1>2 DEF Ledger, Fibre
  <2>2. CASE to = a
    <3>1. b = a /\ lock[a] > 0 /\ lock1[a] = lock[a] - 1
      BY <1>5, <1>6, <2>2 DEF OneUnlocked
    <3>2. Fibre(n, u1, a) = Fibre(n, u, a) \cup {j} /\ j \notin Fibre(n, u, a)
      BY <1>1, <1>4, <1>5, <2>2 DEF Fibre
    <3>3. IsFiniteSet(Fibre(n, u, a))
      BY <1>1, FibreFinite
    <3>4. Cardinality(Fibre(n, u1, a)) = Cardinality(Fibre(n, u, a)) + 1
      BY <3>2, <3>3, FS_AddElement
    <3>5. Cardinality(Fibre(n, name, a)) \in Nat /\ Cardinality(Fibre(n, u, a)) \in Nat
      BY <1>1, FibreFinite
    <3>. QED
      BY <2>1, <3>1, <3>4, <3>5
  <2>3. CASE to # a
    <3>1. lock1[a] = lock[a]
      BY <1>6, <2>3 DEF OneUnlocked, BookTypes
    <3>2. Fibre(n, u1, a) = Fibre(n, u, a)
      BY <1>1, <1>4, <1>5, <2>3 DEF Fibre
    <3>. QED
      BY <2>1, <3>1, <3>2
  <2>. QED
    BY <2>2, <2>3
<1>10. ASSUME NEW i \in 1 .. n, NEW l \in 1 .. n, name[i] \in Attestors, u1[i] # name[i],
              Releases(l, name[i], name, found, open1, u1)
       PROVE  l < i \/ Helped(i, name, u1)
  <2>1. u[i] # name[i]
    BY <1>4, <1>5, <1>10
  <2>2. Releases(l, name[i], name, found, open, u)
    <3>1. CASE l = j
      BY <1>5, <1>6, <1>10, <3>1 DEF Releases
    <3>2. CASE l # j
      BY <1>5, <1>10, <3>2 DEF Releases
    <3>. QED
      BY <3>1, <3>2
  <2>3. l < i \/ Helped(i, name, u)
    BY <1>1, <1>2, <1>10, <2>1, <2>2 DEF Ledger
  <2>. QED
    BY <1>7, <2>3
<1>11. ASSUME NEW i \in 1 .. n, i \notin open1
       PROVE  IF name[i] \in Attestors
              THEN u1[i] # name[i] => found[i] # name[i] \/ Helped(i, name, u1)
              ELSE u1[i] # Nobody => found[i] # Nobody
  <2>1. CASE i # j
    <3>1. IF name[i] \in Attestors
          THEN u[i] # name[i] => found[i] # name[i] \/ Helped(i, name, u)
          ELSE u[i] # Nobody => found[i] # Nobody
      BY <1>1, <1>2, <1>11, <2>1 DEF Ledger
    <3>. QED
      BY <1>5, <1>7, <2>1, <3>1
  <2>2. CASE i = j /\ name[j] \in Attestors
    <3>1. ASSUME u1[j] # name[j], found[j] = name[j]
          PROVE  Helped(j, name, u1)
      <4>1. lock[name[j]] = 0 /\ u[j] # name[j]
        BY <1>4, <1>5, <1>6, <2>2, <3>1
      <4>2. Helped(j, name, u)
        BY <1>1, <1>2, <1>3, <2>2, <4>1, OwedIsHelped
      <4>. QED
        BY <1>1, <1>7, <4>2
    <3>. QED
      BY <2>2, <3>1
  <2>3. CASE i = j /\ name[j] \notin Attestors
    BY <1>5, <1>6, <2>3, AttestationsAssumption
  <2>. QED
    BY <2>1, <2>2, <2>3
<1>12. Ledger(name, found, open1, lock1, u1)
  <2>1. \A a \in Attestors :
           lock1[a] = Cardinality({i \in DOMAIN name : name[i] = a})
                         - Cardinality({i \in DOMAIN name : u1[i] = a})
    BY <1>1, <1>9 DEF Fibre
  <2>. HIDE DEF lock1, open1
  <2>. QED
    BY <1>1, <1>8, <1>10, <1>11, <2>1 DEF Ledger
<1>. QED
  BY <1>1, <1>5, <1>12 DEF Balanced

Extended(n, f, v) == [i \in 1 .. n + 1 |-> IF i = n + 1 THEN v ELSE f[i]]

Locked(lock, a) == [x \in Attestors |-> lock[x] + (IF x = a THEN 1 ELSE 0)]

\* A dispute is opened, and locks the attestor it names or nobody.
LEMMA OpenKeepsBalance ==
    ASSUME NEW n, NEW name, NEW found, NEW open, NEW lock,
           BookTypes(n, name, found, open, lock), Balanced(name, found, open, lock),
           NEW v, NEW x,
           \/ x \in Attestors /\ v = x
           \/ x = Nobody /\ v \in Businesses \ Attestors
    PROVE  Balanced(Extended(n, name, v), Extended(n, found, x),
                    open \cup {n + 1}, Locked(lock, x))
<1>. DEFINE name1 == Extended(n, name, v)
            found1 == Extended(n, found, x)
            open1 == open \cup {n + 1}
            lock1 == Locked(lock, x)
<1>1. /\ n \in Nat /\ DOMAIN name = 1 .. n /\ open \subseteq 1 .. n
      /\ \A i \in 1 .. n : name[i] \in Attestors \cup Businesses
  BY DEF BookTypes
<1>2. PICK u \in [1 .. n -> Attestors \cup {Nobody}] : Ledger(name, found, open, lock, u)
  BY <1>1 DEF Balanced
<1>. DEFINE u1 == Extended(n, u, Nobody)
<1>3. /\ DOMAIN name1 = 1 .. n + 1 /\ name1[n + 1] = v
      /\ found1[n + 1] = x /\ u1[n + 1] = Nobody
      /\ \A i \in 1 .. n : name1[i] = name[i] /\ found1[i] = found[i] /\ u1[i] = u[i]
  BY <1>1 DEF Extended
<1>4. u1 \in [1 .. n + 1 -> Attestors \cup {Nobody}]
  BY <1>1 DEF Extended
<1>. HIDE DEF name1, found1, u1
<1>5. \A i \in 1 .. n + 1 : i \in 1 .. n \/ i = n + 1
  BY <1>1
<1>6. n + 1 \in 1 .. n + 1 /\ n + 1 \notin 1 .. n /\ 1 .. n \subseteq 1 .. n + 1
  BY <1>1
<1>7. \A i \in open1 : u1[i] = Nobody
  BY <1>1, <1>2, <1>3 DEF Ledger
<1>8. ASSUME NEW a \in Attestors
      PROVE  lock1[a] = Cardinality(Fibre(n + 1, name1, a))
                           - Cardinality(Fibre(n + 1, u1, a))
  <2>1. lock[a] = Cardinality(Fibre(n, name, a)) - Cardinality(Fibre(n, u, a))
    BY <1>1, <1>2 DEF Ledger, Fibre
  <2>2. Fibre(n + 1, u1, a) = Fibre(n, u, a)
    BY <1>3, <1>5, <1>6, AttestationsAssumption DEF Fibre
  <2>3. /\ IsFiniteSet(Fibre(n, name, a))
        /\ Cardinality(Fibre(n, name, a)) \in Nat /\ Cardinality(Fibre(n, u, a)) \in Nat
    BY <1>1, FibreFinite
  <2>4. CASE x = a
    <3>1. Fibre(n + 1, name1, a) = Fibre(n, name, a) \cup {n + 1}
      BY <1>3, <1>5, <1>6, <2>4, AttestationsAssumption DEF Fibre
    <3>2. n + 1 \notin Fibre(n, name, a)
      BY <1>6 DEF Fibre
    <3>3. Cardinality(Fibre(n + 1, name1, a)) = Cardinality(Fibre(n, name, a)) + 1
      BY <2>3, <3>1, <3>2, FS_AddElement
    <3>4. lock1[a] = lock[a] + 1
      BY <2>4 DEF Locked
    <3>. QED
      BY <2>1, <2>2, <2>3, <3>3, <3>4
  <2>5. CASE x # a
    <3>1. v # a
      BY <2>5
    <3>2. Fibre(n + 1, name1, a) = Fibre(n, name, a)
      BY <1>3, <1>5, <1>6, <3>1 DEF Fibre
    <3>3. lock1[a] = lock[a]
      BY <2>5 DEF Locked, BookTypes
    <3>. QED
      BY <2>1, <2>2, <3>2, <3>3
  <2>. QED
    BY <2>4, <2>5
<1>9. ASSUME NEW i \in 1 .. n, Helped(i, name, u)
      PROVE  Helped(i, name1, u1)
  <2>1. PICK h \in 1 .. n : FreedBy(h, i, name, u)
    BY <1>1, <1>9 DEF Helped
  <2>2. FreedBy(h, i, name1, u1)
    BY <1>3, <2>1 DEF FreedBy
  <2>. QED
    BY <1>3, <1>6, <2>2 DEF Helped
<1>10. ASSUME NEW i \in 1 .. n + 1, NEW l \in 1 .. n + 1, name1[i] \in Attestors,
              u1[i] # name1[i], Releases(l, name1[i], name1, found1, open1, u1)
       PROVE  l < i \/ Helped(i, name1, u1)
  <2>1. CASE l = n + 1
    BY <1>3, <1>10, <2>1, AttestationsAssumption DEF Releases
  <2>2. CASE l \in 1 .. n /\ i = n + 1
    BY <1>1, <2>2
  <2>3. CASE l \in 1 .. n /\ i \in 1 .. n
    <3>1. Releases(l, name[i], name, found, open, u)
      BY <1>3, <1>6, <1>10, <2>3 DEF Releases
    <3>2. l < i \/ Helped(i, name, u)
      BY <1>1, <1>2, <1>3, <1>10, <2>3, <3>1 DEF Ledger
    <3>. QED
      BY <1>9, <2>3, <3>2
  <2>. QED
    BY <1>5, <2>1, <2>2, <2>3
<1>11. ASSUME NEW i \in 1 .. n + 1, i \notin open1
       PROVE  IF name1[i] \in Attestors
              THEN u1[i] # name1[i] => found1[i] # name1[i] \/ Helped(i, name1, u1)
              ELSE u1[i] # Nobody => found1[i] # Nobody
  <2>1. i \in 1 .. n /\ i \notin open
    BY <1>5, <1>11
  <2>2. IF name[i] \in Attestors
        THEN u[i] # name[i] => found[i] # name[i] \/ Helped(i, name, u)
        ELSE u[i] # Nobody => found[i] # Nobody
    BY <1>1, <1>2, <2>1 DEF Ledger
  <2>. QED
    BY <1>3, <1>9, <2>1, <2>2
<1>12. Ledger(name1, found1, open1, lock1, u1)
  <2>1. \A a \in Attestors :
           lock1[a] = Cardinality({i \in DOMAIN name1 : name1[i] = a})
                         - Cardinality({i \in DOMAIN name1 : u1[i] = a})
    BY <1>3, <1>8 DEF Fibre
  <2>. HIDE DEF lock1, open1
  <2>. QED
    BY <1>3, <1>7, <1>10, <1>11, <2>1 DEF Ledger
<1>. QED
  BY <1>3, <1>4, <1>12 DEF Balanced, name1, found1

\* An attestor that is not locked submits again for keys with disputes.
LEMMA SubmissionKeepsBalance ==
    ASSUME NEW n, NEW name, NEW found, NEW open, NEW lock,
           BookTypes(n, name, found, open, lock), Balanced(name, found, open, lock),
           NEW a \in Attestors, lock[a] = 0, NEW found1,
           \A i \in 1 .. n : found1[i] = found[i] \/ found1[i] = a
    PROVE  Balanced(name, found1, open, lock)
<1>1. /\ n \in Nat /\ DOMAIN name = 1 .. n /\ open \subseteq 1 .. n
      /\ a # Nobody
  BY AttestationsAssumption DEF BookTypes
<1>2. PICK u \in [1 .. n -> Attestors \cup {Nobody}] : Ledger(name, found, open, lock, u)
  BY <1>1 DEF Balanced
<1>3. LedgerTypes(n, name, found, open, lock, u)
  BY DEF BookTypes, LedgerTypes
<1>4. ASSUME NEW i \in 1 .. n, name[i] = a, u[i] # a
      PROVE  Helped(i, name, u)
  BY <1>2, <1>3, <1>4, OwedIsHelped
<1>5. ASSUME NEW i \in 1 .. n, NEW l \in 1 .. n, name[i] \in Attestors, u[i] # name[i],
             Releases(l, name[i], name, found1, open, u)
      PROVE  l < i \/ Helped(i, name, u)
  <2>1. CASE name[i] = a
    BY <1>4, <1>5, <2>1
  <2>2. CASE name[i] # a
    <3>1. Releases(l, name[i], name, found, open, u)
      BY <1>5, <2>2 DEF Releases
    <3>. QED
      BY <1>1, <1>2, <1>5, <3>1 DEF Ledger
  <2>. QED
    BY <2>1, <2>2
<1>6. ASSUME NEW i \in 1 .. n, i \notin open
      PROVE  IF name[i] \in Attestors
             THEN u[i] # name[i] => found1[i] # name[i] \/ Helped(i, name, u)
             ELSE u[i] # Nobody => found1[i] # Nobody
  <2>1. IF name[i] \in Attestors
        THEN u[i] # name[i] => found[i] # name[i] \/ Helped(i, name, u)
        ELSE u[i] # Nobody => found[i] # Nobody
    BY <1>1, <1>2, <1>6 DEF Ledger
  <2>2. found1[i] = found[i] \/ found1[i] = a
    OBVIOUS
  <2>. QED
    BY <1>1, <1>4, <2>1, <2>2
<1>7. Ledger(name, found1, open, lock, u)
  <2>1. /\ \A i \in open : u[i] = Nobody
        /\ \A b \in Attestors :
              lock[b] = Cardinality({i \in DOMAIN name : name[i] = b})
                           - Cardinality({i \in DOMAIN name : u[i] = b})
    BY <1>2 DEF Ledger
  <2>. QED
    BY <1>1, <1>5, <1>6, <2>1 DEF Ledger
<1>. QED
  BY <1>1, <1>2, <1>7 DEF Balanced

\* One unlock for each dispute in D, through whom its key leads to.
AllUnlocked(lock, found, D) ==
    [a \in Attestors |->
        LET c == Cardinality({i \in D : found[i] = a})
        IN  IF lock[a] >= c THEN lock[a] - c ELSE 0]

\* Any number of open disputes are settled in one call.
LEMMA SettleAllKeepsBalance ==
    ASSUME NEW n, NEW name, NEW found, NEW open, NEW lock,
           BookTypes(n, name, found, open, lock), Balanced(name, found, open, lock),
           NEW D, D \subseteq open
    PROVE  Balanced(name, found, open \ D, AllUnlocked(lock, found, D))
<1>1. /\ n \in Nat /\ open \subseteq 1 .. n /\ IsFiniteSet(1 .. n)
      /\ lock \in [Attestors -> Nat]
  <2>1. n \in Nat
    BY DEF BookTypes
  <2>2. IsFiniteSet(1 .. n)
    BY <2>1, FS_Interval
  <2>. QED
    BY <2>1, <2>2 DEF BookTypes
<1>2. ASSUME NEW T, T \subseteq D
      PROVE  /\ IsFiniteSet(T) /\ Cardinality(T) \in Nat
             /\ \A a : /\ IsFiniteSet({i \in T : found[i] = a})
                       /\ Cardinality({i \in T : found[i] = a}) \in Nat
  <2>1. IsFiniteSet(T)
    BY <1>1, <1>2, FS_Subset
  <2>2. ASSUME NEW a
        PROVE  IsFiniteSet({i \in T : found[i] = a})
    BY <2>1, FS_Subset
  <2>. QED
    BY <2>1, <2>2, FS_CardinalityType
<1>3. ASSUME NEW T, T \subseteq D
      PROVE  AllUnlocked(lock, found, T) \in [Attestors -> Nat]
  <2>1. ASSUME NEW a \in Attestors
        PROVE  AllUnlocked(lock, found, T)[a] \in Nat
    <3>. DEFINE c == Cardinality({i \in T : found[i] = a})
    <3>1. c \in Nat /\ lock[a] \in Nat
      BY <1>1, <1>2, <1>3
    <3>2. AllUnlocked(lock, found, T)[a] = IF lock[a] >= c THEN lock[a] - c ELSE 0
      BY DEF AllUnlocked
    <3>. HIDE DEF c
    <3>. QED
      BY <3>1, <3>2
  <2>. QED
    BY <2>1 DEF AllUnlocked
<1>. DEFINE Good(T) == Balanced(name, found, open \ T, AllUnlocked(lock, found, T))
            Bad == {T \in SUBSET D : ~Good(T)}
<1>4. SUFFICES ASSUME Bad # {} PROVE FALSE
  OBVIOUS
<1>5. PICK T \in Bad : \A R \in Bad : Cardinality(T) <= Cardinality(R)
  <2>. DEFINE Sizes == {Cardinality(R) : R \in Bad}
  <2>1. Sizes \subseteq Nat /\ Sizes # {}
    BY <1>2, <1>4
  <2>. HIDE DEF Sizes
  <2>2. PICK m \in Sizes : \A x \in Sizes : m <= x
    BY <2>1, EarliestOf
  <2>. QED
    BY <2>2 DEF Sizes
<1>6. T \subseteq D /\ ~Good(T)
  BY <1>5
<1>7. CASE T = {}
  <2>1. AllUnlocked(lock, found, T) = lock
    <3>1. ASSUME NEW a \in Attestors
          PROVE  AllUnlocked(lock, found, T)[a] = lock[a]
      <4>1. {i \in T : found[i] = a} = {} /\ Cardinality({}) = 0 /\ lock[a] \in Nat
        BY <1>1, <1>7, FS_EmptySet
      <4>. QED
        BY <4>1 DEF AllUnlocked
    <3>. QED
      BY <1>1, <3>1 DEF AllUnlocked
  <2>2. open \ T = open
    BY <1>7
  <2>. QED
    BY <1>6, <2>1, <2>2
<1>8. CASE T # {}
  <2>1. PICK j \in T : TRUE
    BY <1>8
  <2>. DEFINE R == T \ {j}
              lock1 == AllUnlocked(lock, found, R)
  <2>2. R \subseteq D /\ j \in open /\ j \notin R
    BY <1>6, <2>1
  <2>3. Cardinality(R) = Cardinality(T) - 1 /\ Cardinality(T) \in Nat
    BY <1>2, <1>6, <2>1, FS_RemoveElement
  <2>4. R \notin Bad
    <3>. HIDE DEF R, Bad
    <3>. QED
      BY <1>2, <1>5, <2>2, <2>3
  <2>5. Balanced(name, found, open \ R, lock1)
    BY <2>2, <2>4
  <2>6. BookTypes(n, name, found, open \ R, lock1)
    BY <1>3, <2>2 DEF BookTypes
  <2>7. j \in open \ R
    BY <2>2
  <2>8. Balanced(name, found, (open \ R) \ {j}, OneUnlocked(lock1, found[j]))
    <3>. HIDE DEF R, lock1
    <3>. QED
      BY <2>5, <2>6, <2>7, SettleKeepsBalance
  <2>9. (open \ R) \ {j} = open \ T
    BY <1>6, <2>1
  <2>10. OneUnlocked(lock1, found[j]) = AllUnlocked(lock, found, T)
    <3>1. ASSUME NEW a \in Attestors
          PROVE  OneUnlocked(lock1, found[j])[a] = AllUnlocked(lock, found, T)[a]
      <4>. DEFINE FR == {i \in R : found[i] = a}
                  FT == {i \in T : found[i] = a}
      <4>1. /\ IsFiniteSet(FR) /\ Cardinality(FR) \in Nat /\ Cardinality(FT) \in Nat
            /\ lock[a] \in Nat
        BY <1>1, <1>2, <1>6, <2>2
      <4>2. /\ lock1[a] = IF lock[a] >= Cardinality(FR)
                          THEN lock[a] - Cardinality(FR) ELSE 0
            /\ AllUnlocked(lock, found, T)[a] =
                  IF lock[a] >= Cardinality(FT) THEN lock[a] - Cardinality(FT) ELSE 0
            /\ OneUnlocked(lock1, found[j])[a] =
                  IF a = found[j] /\ lock1[a] > 0 THEN lock1[a] - 1 ELSE lock1[a]
        BY DEF AllUnlocked, OneUnlocked
      <4>3. CASE found[j] = a
        <5>1. FT = FR \cup {j} /\ j \notin FR
          BY <2>1, <4>3
        <5>2. Cardinality(FT) = Cardinality(FR) + 1
          <6>. HIDE DEF FR, FT
          <6>. QED
            BY <4>1, <5>1, FS_AddElement
        <5>. HIDE DEF FR, FT, lock1, R
        <5>. QED
          BY <4>1, <4>2, <4>3, <5>2
      <4>4. CASE found[j] # a
        <5>1. FT = FR
          BY <2>1, <4>4
        <5>. HIDE DEF FR, FT, lock1, R
        <5>. QED
          BY <4>1, <4>2, <4>4, <5>1
      <4>. QED
        BY <4>3, <4>4
    <3>. HIDE DEF lock1
    <3>. QED
      BY <3>1 DEF OneUnlocked, AllUnlocked
  <2>. QED
    BY <1>6, <2>8, <2>9, <2>10
<1>. QED
  BY <1>7, <1>8

LEMMA LocksInvInit == Init => LocksInv
<1>. SUFFICES ASSUME Init PROVE LocksInv
  OBVIOUS
<1>1. DOMAIN disputes = {} /\ Named = <<>> /\ FoundNow = <<>> /\ StillOpen = {}
  <2>1. disputes = <<>> /\ DOMAIN <<>> = {}
    BY DEF Init
  <2>. QED
    BY <2>1 DEF Named, FoundNow, StillOpen
<1>2. lockCount = [a \in Attestors |-> 0]
  BY DEF Init
<1>3. Balanced(<<>>, <<>>, {}, lockCount)
  <2>1. DOMAIN <<>> = {} /\ <<>> \in [{} -> Attestors \cup {Nobody}]
    OBVIOUS
  <2>2. ASSUME NEW a \in Attestors
        PROVE  lockCount[a] = Cardinality({i \in DOMAIN <<>> : <<>>[i] = a})
                                - Cardinality({i \in DOMAIN <<>> : <<>>[i] = a})
    <3>1. {i \in DOMAIN <<>> : <<>>[i] = a} = {} /\ Cardinality({}) = 0
      BY <2>1, FS_EmptySet
    <3>. QED
      BY <1>2, <3>1
  <2>3. Ledger(<<>>, <<>>, {}, lockCount, <<>>)
    BY <2>1, <2>2 DEF Ledger
  <2>. QED
    BY <2>1, <2>3 DEF Balanced
<1>. QED
  BY <1>1, <1>2, <1>3 DEF LocksInv

\* The calls that touch what the locks are about.
LEMMA LockCalls ==
    ASSUME [Next]_vars
    PROVE  \/ UNCHANGED <<disputes, lockCount, attestorOf>>
           \/ \E a \in Attestors, items \in Items : SubmitAsAttestor(a, items)
           \/ \E c \in Challengers, k \in Keys : OpenDispute(c, k)
           \/ \E admin \in Admins, id \in 1 .. MaxDisputes, outcome \in Outcomes :
                 ResolveDispute(admin, id, outcome)
           \/ \E id \in 1 .. MaxDisputes : SubmitDisputeWitness(id) \/ CloseDispute(id)
           \/ \E admin \in Admins, D \in SUBSET DOMAIN disputes \ {{}} :
                 RollbackDisputes(admin, D)
<1>1. CASE UNCHANGED vars
  BY <1>1 DEF vars, disputing, records
<1>2. CASE RegistryCall
  BY <1>2 DEF RegistryCall, RegisterBusiness, ApproveBusiness, SuspendBusiness,
              ReactivateBusiness, SetStatus, disputing, records
<1>3. CASE RecordCall
  BY <1>3 DEF RecordCall, SubmitAttestations, StoreAll, MigrateAttestation,
              ExtendExpiry, CleanupExpiredAttestation, DropRecord, disputing
<1>4. CASE ArchiveCall
  BY <1>4 DEF ArchiveCall, MoveToArchive, SetCompactionRetention,
              CompactArchival, disputing, records
<1>5. CASE RevocationCall
  BY <1>5 DEF RevocationCall, RevokeAttestation, RevokeAndCleanup, ProposeRevoke,
              CancelRevokeProposal, CommitRevoke, SetRevokeGrace, DropRecord,
              CleanupRevocationIndex, disputing, records
<1>6. CASE DisputeCall
  BY <1>6 DEF DisputeCall, SetDisputeDeadline, records
<1>7. CASE (\E flag \in PauseStates : SetPaused(flag)) \/ Tick
  BY <1>7 DEF SetPaused, Tick, disputing, records
<1>. QED
  BY <1>1, <1>2, <1>3, <1>4, <1>5, <1>6, <1>7 DEF Next

Unwitnessed == \A i \in DOMAIN disputes : ~ByWitness(disputes[i])

LEMMA BooksAreTyped ==
    ASSUME DisputesInv, RecordsInv, LocksInv
    PROVE  BookTypes(Len(disputes), Named, FoundNow, StillOpen, lockCount)
<1>1. Len(disputes) \in Nat /\ DOMAIN disputes = 1 .. Len(disputes)
  BY DEF DisputesInv
<1>2. ASSUME NEW i \in DOMAIN disputes
      PROVE  /\ disputes[i].attestor \in Attestors \cup Businesses
             /\ attestorOf[disputes[i].key] \in Attestors \cup {Nobody}
  <2>1. disputes[i] \in Dispute
    BY DEF DisputesInv
  <2>. QED
    BY <2>1 DEF Dispute, RecordsInv
<1>3. /\ Named \in [1 .. Len(disputes) -> Attestors \cup Businesses]
      /\ FoundNow \in [1 .. Len(disputes) -> Attestors \cup {Nobody}]
      /\ StillOpen \subseteq 1 .. Len(disputes)
  BY <1>1, <1>2 DEF Named, FoundNow, StillOpen
<1>. QED
  BY <1>1, <1>3 DEF BookTypes, LocksInv

\* The open disputes in D are settled, one unlock each.
LEMMA SettleStep ==
    ASSUME DisputesInv, RecordsInv, LocksInv, NEW D, D \subseteq StillOpen,
           DOMAIN disputes' = DOMAIN disputes,
           \A i \in DOMAIN disputes :
              /\ disputes'[i].key = disputes[i].key
              /\ disputes'[i].attestor = disputes[i].attestor
              /\ i \in D => disputes'[i].status # "Open"
              /\ i \notin D => disputes'[i] = disputes[i],
           UnlockAttestors(D), UNCHANGED attestorOf
    PROVE  LocksInv'
<1>1. BookTypes(Len(disputes), Named, FoundNow, StillOpen, lockCount)
  BY BooksAreTyped
<1>2. Named' = Named /\ FoundNow' = FoundNow
  BY DEF Named, FoundNow
<1>3. StillOpen' = StillOpen \ D
  BY DEF StillOpen
<1>4. lockCount' = AllUnlocked(lockCount, FoundNow, D)
  <2>1. ASSUME NEW a \in Attestors
        PROVE  {i \in D : attestorOf[disputes[i].key] = a} = {i \in D : FoundNow[i] = a}
    BY DEF FoundNow, StillOpen
  <2>. QED
    BY <2>1 DEF UnlockAttestors, AllUnlocked
<1>5. Unwitnessed' => Unwitnessed
  <2>. SUFFICES ASSUME Unwitnessed', NEW i \in DOMAIN disputes PROVE ~ByWitness(disputes[i])
    BY DEF Unwitnessed
  <2>1. CASE i \in D
    BY <2>1 DEF LocksInv, ByWitness
  <2>2. CASE i \notin D
    BY <2>2 DEF Unwitnessed, ByWitness
  <2>. QED
    BY <2>1, <2>2
<1>6. ASSUME Unwitnessed'
      PROVE  Balanced(Named, FoundNow, StillOpen \ D, lockCount')
  BY <1>1, <1>4, <1>5, <1>6, SettleAllKeepsBalance DEF LocksInv, Unwitnessed
<1>7. lockCount' \in [Attestors -> Nat]
  <2>1. ASSUME NEW a \in Attestors
        PROVE  lockCount'[a] \in Nat
    <3>. DEFINE F == {i \in D : FoundNow[i] = a}
                c == Cardinality(F)
    <3>1. F \subseteq 1 .. Len(disputes) /\ Len(disputes) \in Nat /\ lockCount[a] \in Nat
      BY <1>1 DEF BookTypes
    <3>2. c \in Nat
      <4>1. IsFiniteSet(1 .. Len(disputes))
        BY <3>1, FS_Interval
      <4>. QED
        BY <3>1, <4>1, FS_Subset, FS_CardinalityType
    <3>3. lockCount'[a] = IF lockCount[a] >= c THEN lockCount[a] - c ELSE 0
      BY <1>4 DEF AllUnlocked
    <3>. HIDE DEF c
    <3>. QED
      BY <3>1, <3>2, <3>3
  <2>. QED
    BY <1>4, <2>1 DEF AllUnlocked
<1>8. \A i \in StillOpen' : disputes'[i].outcome = "None"
  BY <1>3 DEF LocksInv, StillOpen
<1>9. \A i \in DOMAIN disputes' :
         disputes'[i].attestor \in Attestors => attestorOf'[disputes'[i].key] # Nobody
  BY DEF LocksInv
<1>10. Unwitnessed' => Balanced(Named', FoundNow', StillOpen', lockCount')
  BY <1>2, <1>3, <1>6
<1>. QED
  BY <1>7, <1>8, <1>9, <1>10 DEF LocksInv, Unwitnessed

LEMMA LocksInvStep ==
    ASSUME Businesses \cap Attestors = {}, DisputesInv, RecordsInv, LocksInv, [Next]_vars
    PROVE  LocksInv'
<1>0. /\ disputes \in Seq(Dispute) /\ Len(disputes) \in Nat
      /\ DOMAIN disputes = 1 .. Len(disputes)
      /\ BookTypes(Len(disputes), Named, FoundNow, StillOpen, lockCount)
  BY BooksAreTyped DEF DisputesInv
<1>1. ASSUME UNCHANGED <<disputes, lockCount, attestorOf>>
      PROVE  LocksInv'
  BY <1>1 DEF LocksInv, Named, FoundNow, StillOpen
<1>2. ASSUME NEW a \in Attestors, NEW items \in Items, SubmitAsAttestor(a, items)
      PROVE  LocksInv'
  <2>1. /\ lockCount[a] = 0 /\ UNCHANGED <<disputes, lockCount>>
        /\ attestorOf' = [k \in Keys |-> IF k \in DOMAIN items THEN a ELSE attestorOf[k]]
    BY <1>2 DEF SubmitAsAttestor, StoreAll, IsLocked, LocksInv, disputing
  <2>2. ASSUME NEW i \in DOMAIN disputes
        PROVE  /\ disputes[i].key \in Keys
               /\ \/ attestorOf'[disputes[i].key] = attestorOf[disputes[i].key]
                  \/ attestorOf'[disputes[i].key] = a
    <3>1. disputes[i] \in Dispute
      BY <1>0
    <3>2. disputes[i].key \in Keys
      BY <3>1 DEF Dispute
    <3>. QED
      BY <2>1, <3>2
  <2>3. Named' = Named /\ StillOpen' = StillOpen
    BY <2>1 DEF Named, StillOpen
  <2>4. \A i \in 1 .. Len(disputes) : FoundNow'[i] = FoundNow[i] \/ FoundNow'[i] = a
    BY <1>0, <2>1, <2>2 DEF FoundNow
  <2>5. Unwitnessed => Balanced(Named, FoundNow', StillOpen, lockCount)
    BY <1>0, <2>1, <2>4, SubmissionKeepsBalance DEF LocksInv, Unwitnessed
  <2>6. Unwitnessed' => Unwitnessed
    BY <2>1 DEF Unwitnessed
  <2>7. \A i \in DOMAIN disputes :
           disputes[i].attestor \in Attestors => attestorOf'[disputes[i].key] # Nobody
    BY <2>2, AttestationsAssumption DEF LocksInv
  <2>8. Unwitnessed' => Balanced(Named', FoundNow', StillOpen', lockCount')
    BY <2>1, <2>3, <2>5, <2>6
  <2>. QED
    BY <2>1, <2>3, <2>7, <2>8 DEF LocksInv, Unwitnessed
<1>3. ASSUME NEW c \in Challengers, NEW k \in Keys, OpenDispute(c, k)
      PROVE  LocksInv'
  <2>. DEFINE x == attestorOf[k]
              v == IF x = Nobody THEN k[1] ELSE x
              d == [key |-> k, challenger |-> c, attestor |-> v,
                    status |-> "Open", time |-> now,
                    resolver |-> Nobody, outcome |-> "None"]
              n == Len(disputes)
  <2>1. /\ disputes' = Append(disputes, d) /\ UNCHANGED attestorOf
        /\ lockCount' = [y \in Attestors |-> lockCount[y] + (IF y = x THEN 1 ELSE 0)]
    BY <1>3 DEF OpenDispute, records
  <2>2. k[1] \in Businesses /\ x \in Attestors \cup {Nobody}
    BY DEF Keys, RecordsInv
  <2>3. \/ x \in Attestors /\ v = x
        \/ x = Nobody /\ v \in Businesses \ Attestors
    BY <2>2, AttestationsAssumption
  <2>4. /\ d.key = k /\ d.attestor = v /\ d.status = "Open"
        /\ d.outcome = "None"
    OBVIOUS
  <2>. HIDE DEF d, v, x
  <2>5. /\ DOMAIN disputes' = 1 .. n + 1 /\ disputes'[n + 1] = d
        /\ \A i \in 1 .. n : disputes'[i] = disputes[i]
    BY <1>0, <2>1
  <2>6. lockCount' = Locked(lockCount, x)
    BY <2>1 DEF Locked
  <2>7. n \in Nat /\ DOMAIN disputes = 1 .. n
    BY <1>0
  <2>. HIDE DEF n
  <2>8. \A i \in 1 .. n + 1 : i \in 1 .. n \/ i = n + 1
    BY <2>7
  <2>9. n + 1 \in 1 .. n + 1 /\ n + 1 \notin 1 .. n /\ 1 .. n \subseteq 1 .. n + 1
    BY <2>7
  <2>10. Named' = Extended(n, Named, v)
    <3>1. \A i \in 1 .. n + 1 : disputes'[i].attestor =
                                   IF i = n + 1 THEN v ELSE disputes[i].attestor
      BY <2>4, <2>5, <2>8, <2>9
    <3>2. \A i \in 1 .. n + 1 : disputes'[i].attestor =
                                   IF i = n + 1 THEN v ELSE Named[i]
      BY <2>7, <2>8, <3>1 DEF Named
    <3>3. Named' = [i \in 1 .. n + 1 |-> disputes'[i].attestor]
      BY <2>5 DEF Named
    <3>. QED
      BY <3>2, <3>3 DEF Extended
  <2>11. FoundNow' = Extended(n, FoundNow, x)
    <3>1. \A i \in 1 .. n + 1 : attestorOf[disputes'[i].key] =
                                   IF i = n + 1 THEN x ELSE attestorOf[disputes[i].key]
      BY <2>4, <2>5, <2>8, <2>9 DEF x
    <3>2. \A i \in 1 .. n + 1 : attestorOf[disputes'[i].key] =
                                   IF i = n + 1 THEN x ELSE FoundNow[i]
      BY <2>7, <2>8, <3>1 DEF FoundNow
    <3>3. FoundNow' = [i \in 1 .. n + 1 |-> attestorOf[disputes'[i].key]]
      BY <2>1, <2>5 DEF FoundNow
    <3>. QED
      BY <3>2, <3>3 DEF Extended
  <2>12. StillOpen' = StillOpen \cup {n + 1}
    BY <2>4, <2>5, <2>7, <2>8, <2>9 DEF StillOpen
  <2>13. Unwitnessed' => Unwitnessed
    BY <2>5, <2>7, <2>9 DEF Unwitnessed, ByWitness
  <2>14. Unwitnessed' => Balanced(Named', FoundNow', StillOpen', lockCount')
    <3>1. BookTypes(n, Named, FoundNow, StillOpen, lockCount)
      BY <1>0 DEF n
    <3>2. ASSUME Unwitnessed
          PROVE  Balanced(Named, FoundNow, StillOpen, lockCount)
      BY <3>2 DEF LocksInv, Unwitnessed
    <3>3. ASSUME Unwitnessed
          PROVE  Balanced(Extended(n, Named, v), Extended(n, FoundNow, x),
                          StillOpen \cup {n + 1}, Locked(lockCount, x))
      BY <2>3, <3>1, <3>2, <3>3, OpenKeepsBalance
    <3>. QED
      BY <2>6, <2>10, <2>11, <2>12, <2>13, <3>3
  <2>15. lockCount' \in [Attestors -> Nat]
    BY <2>1 DEF LocksInv
  <2>16. \A i \in StillOpen' : disputes'[i].outcome = "None"
    BY <2>4, <2>5, <2>7, <2>12 DEF LocksInv, StillOpen
  <2>17. \A i \in DOMAIN disputes' :
            disputes'[i].attestor \in Attestors => attestorOf'[disputes'[i].key] # Nobody
    <3>1. v \in Attestors => x # Nobody
      BY <2>3, AttestationsAssumption
    <3>. QED
      BY <2>1, <2>4, <2>5, <2>7, <2>8, <3>1 DEF LocksInv, x
  <2>. QED
    BY <2>14, <2>15, <2>16, <2>17 DEF LocksInv, Unwitnessed
<1>4. ASSUME NEW admin \in Admins, NEW id \in 1 .. MaxDisputes, NEW outcome \in Outcomes,
             ResolveDispute(admin, id, outcome)
      PROVE  LocksInv'
  <2>. DEFINE d == Settled(id, "Resolved", outcome, admin)
  <2>1. /\ id \in DOMAIN disputes /\ disputes[id].status = "Open"
        /\ disputes' = [disputes EXCEPT ![id] = d]
        /\ UnlockAttestors({id}) /\ UNCHANGED attestorOf
    BY <1>4 DEF ResolveDispute, records
  <2>2. d.key = disputes[id].key /\ d.attestor = disputes[id].attestor /\ d.status = "Resolved"
    <3>1. disputes[id] \in Dispute
      BY <1>0, <2>1
    <3>. QED
      BY <3>1 DEF Settled, Dispute
  <2>. HIDE DEF d
  <2>3. /\ DOMAIN disputes' = DOMAIN disputes
        /\ \A i \in DOMAIN disputes : disputes'[i] = IF i = id THEN d ELSE disputes[i]
    BY <1>0, <2>1
  <2>4. {id} \subseteq StillOpen
    BY <2>1 DEF StillOpen
  <2>. QED
    BY <2>1, <2>2, <2>3, <2>4, SettleStep
<1>5. ASSUME NEW id \in 1 .. MaxDisputes, SubmitDisputeWitness(id)
      PROVE  LocksInv'
  <2>. DEFINE d == Settled(id, "Resolved", "Upheld", disputes[id].challenger)
  <2>1. /\ id \in DOMAIN disputes /\ disputes' = [disputes EXCEPT ![id] = d]
        /\ UNCHANGED <<lockCount, attestorOf>>
    BY <1>5 DEF SubmitDisputeWitness, records
  <2>2. /\ d.key = disputes[id].key /\ d.attestor = disputes[id].attestor
        /\ d.status = "Resolved" /\ ByWitness(d)
    <3>1. disputes[id] \in Dispute
      BY <1>0, <2>1
    <3>. QED
      BY <3>1 DEF Settled, Dispute, ByWitness
  <2>. HIDE DEF d
  <2>3. /\ DOMAIN disputes' = DOMAIN disputes
        /\ \A i \in DOMAIN disputes : disputes'[i] = IF i = id THEN d ELSE disputes[i]
    BY <1>0, <2>1
  <2>4. ~Unwitnessed'
    BY <2>1, <2>2, <2>3 DEF Unwitnessed, ByWitness
  <2>5. \A i \in StillOpen' : disputes'[i].outcome = "None"
    BY <2>2, <2>3 DEF LocksInv, StillOpen
  <2>6. \A i \in DOMAIN disputes' :
           disputes'[i].attestor \in Attestors => attestorOf'[disputes'[i].key] # Nobody
    BY <2>1, <2>2, <2>3 DEF LocksInv
  <2>. QED
    BY <2>1, <2>4, <2>5, <2>6 DEF LocksInv, Unwitnessed
<1>6. ASSUME NEW id \in 1 .. MaxDisputes, CloseDispute(id)
      PROVE  LocksInv'
  <2>. DEFINE d == [disputes[id] EXCEPT !.status = "Closed"]
  <2>1. /\ id \in DOMAIN disputes /\ disputes[id].status = "Resolved"
        /\ disputes' = [disputes EXCEPT ![id] = [disputes[id] EXCEPT !.status = "Closed"]]
        /\ UNCHANGED <<lockCount, attestorOf>>
    BY <1>6 DEF CloseDispute, records
  <2>2. /\ d.key = disputes[id].key /\ d.attestor = disputes[id].attestor
        /\ d.status = "Closed" /\ (ByWitness(d) <=> ByWitness(disputes[id]))
        /\ disputes' = [disputes EXCEPT ![id] = d]
    <3>1. disputes[id] \in Dispute
      BY <1>0, <2>1
    <3>. QED
      BY <2>1, <3>1 DEF Dispute, ByWitness
  <2>. HIDE DEF d
  <2>3. /\ DOMAIN disputes' = DOMAIN disputes
        /\ \A i \in DOMAIN disputes : disputes'[i] = IF i = id THEN d ELSE disputes[i]
    BY <1>0, <2>1, <2>2
  <2>4. Named' = Named /\ FoundNow' = FoundNow
    BY <2>1, <2>2, <2>3 DEF Named, FoundNow
  <2>5. StillOpen' = StillOpen
    BY <2>1, <2>2, <2>3 DEF StillOpen
  <2>6. Unwitnessed' => Unwitnessed
    BY <2>2, <2>3 DEF Unwitnessed, ByWitness
  <2>7. \A i \in StillOpen' : disputes'[i].outcome = "None"
    BY <2>1, <2>2, <2>3, <2>5 DEF LocksInv, StillOpen
  <2>8. \A i \in DOMAIN disputes' :
           disputes'[i].attestor \in Attestors => attestorOf'[disputes'[i].key] # Nobody
    BY <2>1, <2>2, <2>3 DEF LocksInv
  <2>9. Unwitnessed' => Balanced(Named', FoundNow', StillOpen', lockCount')
    BY <2>1, <2>4, <2>5, <2>6 DEF LocksInv, Unwitnessed
  <2>. QED
    BY <2>1, <2>7, <2>8, <2>9 DEF LocksInv, Unwitnessed
<1>7. ASSUME NEW admin \in Admins, NEW D \in SUBSET DOMAIN disputes,
             RollbackDisputes(admin, D)
      PROVE  LocksInv'
  <2>. DEFINE d(i) == Settled(i, "Closed", "Rejected", disputes[i].challenger)
  <2>1. /\ disputes' = [i \in DOMAIN disputes |-> IF i \in D THEN d(i) ELSE disputes[i]]
        /\ UnlockAttestors(D) /\ UNCHANGED attestorOf
        /\ \A i \in D : disputes[i].status = "Open"
    BY <1>7 DEF RollbackDisputes, Overdue, records
  <2>2. ASSUME NEW i \in DOMAIN disputes
        PROVE  /\ d(i).key = disputes[i].key
               /\ d(i).attestor = disputes[i].attestor
               /\ d(i).status = "Closed"
    <3>1. disputes[i] \in Dispute
      BY <1>0
    <3>. QED
      BY <3>1 DEF Settled, Dispute
  <2>. HIDE DEF d
  <2>3. /\ DOMAIN disputes' = DOMAIN disputes
        /\ \A i \in DOMAIN disputes : disputes'[i] = IF i \in D THEN d(i) ELSE disputes[i]
    BY <2>1
  <2>4. D \subseteq StillOpen
    BY <2>1 DEF StillOpen
  <2>. QED
    BY <2>1, <2>2, <2>3, <2>4, SettleStep
<1>. QED
  BY <1>1, <1>2, <1>3, <1>4, <1>5, <1>6, <1>7, LockCalls

\* Where no business is an attestor as well: as long as no witness settled a
\* dispute, once every dispute again finds its attestor through its key each
\* lock count is the number of open disputes that name the attestor, whatever
\* was archived, submitted anew and settled in between (open_dispute,
\* resolve_dispute, check_and_rollback_disputes, submit_attestation_as_attestor).
THEOREM LocksAlwaysTrack ==
    ASSUME Businesses \cap Attestors = {}
    PROVE  Spec => []LocksTrackOpenDisputes
<1>1. Init => RecordsInv /\ DisputesInv /\ LocksInv
  BY RecordsInvInit, DisputesInvInit, LocksInvInit
<1>2. RecordsInv /\ DisputesInv /\ LocksInv /\ [Next]_vars
         => RecordsInv' /\ DisputesInv' /\ LocksInv'
  BY RecordsInvStep, DisputesInvStep, LocksInvStep
<1>3. ASSUME RecordsInv, DisputesInv, LocksInv
      PROVE  LocksTrackOpenDisputes
  <2>. SUFFICES ASSUME Unwitnessed,
                       \A i \in DOMAIN disputes :
                          disputes[i].attestor =
                             (IF attestorOf[disputes[i].key] = Nobody
                              THEN disputes[i].key[1] ELSE attestorOf[disputes[i].key]),
                       NEW a \in Attestors
                PROVE  lockCount[a] = Cardinality({i \in DOMAIN disputes :
                                                      /\ disputes[i].status = "Open"
                                                      /\ disputes[i].attestor = a})
    BY DEF LocksTrackOpenDisputes, Unwitnessed, ByWitness
  <2>1. BookTypes(Len(disputes), Named, FoundNow, StillOpen, lockCount)
    BY <1>3, BooksAreTyped
  <2>2. DOMAIN Named = 1 .. Len(disputes) /\ DOMAIN disputes = 1 .. Len(disputes)
    BY <1>3 DEF DisputesInv, Named
  <2>3. PICK u \in [1 .. Len(disputes) -> Attestors \cup {Nobody}] :
           Ledger(Named, FoundNow, StillOpen, lockCount, u)
    BY <1>3, <2>2 DEF LocksInv, Unwitnessed, Balanced
  <2>4. LedgerTypes(Len(disputes), Named, FoundNow, StillOpen, lockCount, u)
    BY <2>1 DEF BookTypes, LedgerTypes
  <2>5. ASSUME NEW i \in 1 .. Len(disputes)
        PROVE  IF Named[i] \in Attestors THEN FoundNow[i] = Named[i]
                                         ELSE FoundNow[i] = Nobody
    <3>1. disputes[i] \in Dispute /\ i \in DOMAIN disputes
      BY <1>3, <2>2 DEF DisputesInv
    <3>2. /\ disputes[i].attestor \in Attestors => attestorOf[disputes[i].key] # Nobody
          /\ attestorOf[disputes[i].key] \in Attestors \cup {Nobody}
      BY <1>3, <3>1 DEF LocksInv, RecordsInv, Dispute
    <3>3. FoundNow[i] = attestorOf[disputes[i].key] /\ Named[i] = disputes[i].attestor
      BY <3>1 DEF FoundNow, Named
    <3>. QED
      BY <3>1, <3>2, <3>3
  <2>6. lockCount[a] = Cardinality({i \in StillOpen : Named[i] = a})
    <3>1. LeadsBack(Len(disputes), Named, FoundNow)
      BY <2>5 DEF LeadsBack
    <3>2. CountsOpen(StillOpen, Named, lockCount, a)
      BY <2>3, <2>4, <3>1, BalancedLocksCount
    <3>. QED
      BY <3>2 DEF CountsOpen
  <2>7. {i \in StillOpen : Named[i] = a} = {i \in DOMAIN disputes :
                                              /\ disputes[i].status = "Open"
                                              /\ disputes[i].attestor = a}
    BY DEF StillOpen, Named
  <2>. QED
    BY <2>6, <2>7
<1>. QED
  BY <1>1, <1>2, <1>3, PTL DEF Spec

=============================================================================
