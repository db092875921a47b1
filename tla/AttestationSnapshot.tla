------------------------- MODULE AttestationSnapshot -------------------------
(***************************************************************************)
(* The attestation snapshot contract (contracts/attestation-snapshot):     *)
(* snapshots per business and period, their indexes, epochs that are       *)
(* finalized, and the two-step restore of a batch.  An epoch is a period.  *)
(***************************************************************************)
EXTENDS ProtocolWorld

CONSTANTS
    SnapshotBusinesses,  \* businesses with snapshots
    Epochs,              \* periods
    SnapshotRevenues,    \* trailing revenues a writer may record
    WriterSets,          \* sets of writers the admin settles on
    RestoreBatches,      \* sequences of restore entries an admin may pass
    SchemaVersion,       \* SNAPSHOT_SCHEMA_VERSION
    CommitWindow,        \* RESTORE_COMMIT_WINDOW_LEDGERS
    MaxBusinessPeriods,  \* MAX_BUSINESS_PERIODS
    MaxEpochBusinesses   \* MAX_EPOCH_BUSINESSES

SnapshotKeys == SnapshotBusinesses \X Epochs

SnapshotRecords == [revenue : Int, at : Nat]

ASSUME SnapshotAssumption ==
    /\ IsFiniteSet(SnapshotBusinesses) /\ IsFiniteSet(Epochs)
    /\ SnapshotRevenues \subseteq Int
    /\ \A batch \in RestoreBatches : \A i \in DOMAIN batch :
          batch[i].key \in SnapshotKeys /\ batch[i].record \in SnapshotRecords
    /\ Absent \notin SnapshotRecords \cup Nat

VARIABLES
    snapAdmin,        \* Admin
    snapWriters,      \* the accounts a with Writer(a) = true
    snapSource,       \* whether an AttestationContract is set
    snapInForce,      \* external: keys attested and not revoked
    snapshots,        \* Snapshot(business, period), or Absent
    businessPeriods,  \* BusinessPeriods(business), without its order
    epochBusinesses,  \* EpochBusinesses(epoch), without its order
    allEpochs,        \* AllEpochs, without its order
    finalization,     \* EpochFinalization(epoch).snapshot_count, or Absent
    pendingRestore,   \* PendingRestore(admin), or Absent
    lastRestore       \* LastRestoreId, or Absent

snapIndexes == <<businessPeriods, epochBusinesses, allEpochs>>
snapRoles == <<snapAdmin, snapWriters, snapSource>>
snapVars == <<snapRoles, snapInForce, snapshots, snapIndexes, finalization,
              pendingRestore, lastRestore>>

SnapshotInit ==
    /\ snapAdmin = Nobody
    /\ snapWriters = {}
    /\ snapSource = FALSE
    /\ snapInForce = {}
    /\ snapshots = [k \in SnapshotKeys |-> Absent]
    /\ businessPeriods = [b \in SnapshotBusinesses |-> {}]
    /\ epochBusinesses = [e \in Epochs |-> {}]
    /\ allEpochs = {}
    /\ finalization = [e \in Epochs |-> Absent]
    /\ pendingRestore = [a \in Accounts |-> Absent]
    /\ lastRestore = Absent

SnapInitialize(caller, source) ==
    /\ snapAdmin = Nobody
    /\ snapAdmin' = caller
    /\ snapSource' = source
    /\ UNCHANGED <<protocolWorld, snapWriters, snapInForce, snapshots,
                   snapIndexes, finalization, pendingRestore, lastRestore>>

SetSnapshotSource(caller, source) ==
    /\ caller = snapAdmin
    /\ snapSource' = source
    /\ UNCHANGED <<protocolWorld, snapAdmin, snapWriters, snapInForce,
                   snapshots, snapIndexes, finalization, pendingRestore,
                   lastRestore>>

\* add_writer and remove_writer
SetWriters(caller, writers) ==
    /\ caller = snapAdmin
    /\ snapWriters' = writers
    /\ UNCHANGED <<protocolWorld, snapAdmin, snapSource, snapInForce, snapshots,
                   snapIndexes, finalization, pendingRestore, lastRestore>>

\* Mutant: the entry is not listed under its epoch.
IndexPeriodOnly(keys) ==
    /\ businessPeriods' = [b \in SnapshotBusinesses |->
                             businessPeriods[b] \cup {k[2] : k \in {x \in keys : x[1] = b}}]
    /\ UNCHANGED epochBusinesses

\* index_period_for_business and index_business_for_epoch, for several keys:
\* a key that is listed stays as it is, a new one needs room.
IndexKeys(keys) ==
    LET periods(b) == businessPeriods[b] \cup {k[2] : k \in {x \in keys : x[1] = b}}
        businesses(e) == epochBusinesses[e]
                            \cup {k[1] : k \in {x \in keys : x[2] = e}}
    IN  /\ \A k \in keys : /\ Cardinality(periods(k[1])) <= MaxBusinessPeriods
                           /\ Cardinality(businesses(k[2])) <= MaxEpochBusinesses
        /\ businessPeriods' = [b \in SnapshotBusinesses |-> periods(b)]
        /\ epochBusinesses' = [e \in Epochs |-> businesses(e)]

\* Mutant: a finalized epoch still takes snapshots.
AlwaysWritable(e) == TRUE

NotFinalized(e) == finalization[e] = Absent

RecordSnapshot(caller, k, revenue) ==
    /\ snapAdmin # Nobody
    /\ caller \in snapWriters \cup {snapAdmin}
    /\ NotFinalized(k[2])
    /\ snapSource => k \in snapInForce
    /\ snapshots' = [snapshots EXCEPT ![k] = [revenue |-> revenue, at |-> clock]]
    /\ IndexKeys({k})
    /\ allEpochs' = allEpochs \cup {k[2]}
    /\ UNCHANGED <<protocolWorld, snapRoles, snapInForce, finalization,
                   pendingRestore, lastRestore>>

FinalizeEpoch(caller, e) ==
    /\ caller = snapAdmin
    /\ NotFinalized(e)
    /\ epochBusinesses[e] # {}
    /\ finalization' = [finalization EXCEPT ![e] = Cardinality(epochBusinesses[e])]
    /\ UNCHANGED <<protocolWorld, snapRoles, snapInForce, snapshots,
                   snapIndexes, pendingRestore, lastRestore>>

\* compute_batch_hash: business, period and schema of every entry, in order.
BatchHash(batch) == [i \in DOMAIN batch |-> <<batch[i].key, batch[i].schema>>]

\* The checks of restore_dry_run: nothing recorded in the future, no key twice,
\* times that never go back within one business.
BatchValid(batch) ==
    /\ \A i \in DOMAIN batch : batch[i].record.at <= clock
    /\ \A i, j \in DOMAIN batch :
          i < j => /\ batch[i].key # batch[j].key
                   /\ batch[i].key[1] = batch[j].key[1]
                         => batch[i].record.at <= batch[j].record.at

\* A dry run of a batch with the right schema arms a token for its caller; a
\* batch with violations only gets a report.
RestoreDryRun(caller, batch) ==
    /\ caller = snapAdmin
    /\ \A i \in DOMAIN batch : batch[i].schema = SchemaVersion
    /\ BatchValid(batch)
    /\ pendingRestore' = [pendingRestore EXCEPT
                            ![caller] = [hash |-> BatchHash(batch),
                                         expires |-> clock + CommitWindow]]
    /\ UNCHANGED <<protocolWorld, snapRoles, snapInForce, snapshots,
                   snapIndexes, finalization, lastRestore>>

\* Every business has as many entries as its first entry declares.
CountsMatch(batch) ==
    \A i \in DOMAIN batch :
        (\A j \in DOMAIN batch : j < i => batch[j].key[1] # batch[i].key[1])
        => batch[i].count =
              Cardinality({j \in DOMAIN batch : batch[j].key[1] = batch[i].key[1]})

\* Entries of finalized epochs are skipped.  The epochs restored are not added
\* to AllEpochs.
RestoreCommit(caller, batch) ==
    /\ caller = snapAdmin
    /\ pendingRestore[caller] # Absent
    /\ clock <= pendingRestore[caller].expires
    /\ BatchHash(batch) = pendingRestore[caller].hash
    /\ \A i \in DOMAIN batch : batch[i].schema = SchemaVersion
    /\ CountsMatch(batch)
    /\ LET written == {i \in DOMAIN batch : NotFinalized(batch[i].key[2])}
       IN  /\ snapshots' =
                 [k \in SnapshotKeys |->
                    IF \E i \in written : batch[i].key = k
                    THEN batch[CHOOSE i \in written : batch[i].key = k].record
                    ELSE snapshots[k]]
           /\ IndexKeys({batch[i].key : i \in written})
    /\ pendingRestore' = [pendingRestore EXCEPT ![caller] = Absent]
    /\ lastRestore' = BatchHash(batch)
    /\ UNCHANGED <<protocolWorld, snapRoles, snapInForce, allEpochs,
                   finalization>>

\* External: the attestation contract gains or loses an attestation in force.
SourceChanges(k) ==
    /\ snapInForce' = IF k \in snapInForce THEN snapInForce \ {k}
                      ELSE snapInForce \cup {k}
    /\ UNCHANGED <<protocolWorld, snapRoles, snapshots, snapIndexes,
                   finalization, pendingRestore, lastRestore>>

SnapshotCalls ==
    \/ \E caller \in Accounts :
          \/ \E source \in BOOLEAN :
                SnapInitialize(caller, source) \/ SetSnapshotSource(caller, source)
          \/ \E writers \in WriterSets : SetWriters(caller, writers)
          \/ \E k \in SnapshotKeys, revenue \in SnapshotRevenues :
                RecordSnapshot(caller, k, revenue)
          \/ \E e \in Epochs : FinalizeEpoch(caller, e)
          \/ \E batch \in RestoreBatches :
                RestoreDryRun(caller, batch) \/ RestoreCommit(caller, batch)
    \/ \E k \in SnapshotKeys : SourceChanges(k)

SnapshotNext ==
    /\ site = "snapshot"
    /\ SnapshotCalls \/ (ClockTick /\ UNCHANGED snapVars)

-----------------------------------------------------------------------------
(* Properties *)

\* Both indexes list exactly the snapshots there are, whether they were
\* recorded or restored: get_snapshots_for_business and the count of a
\* finalization leave nothing out.
SnapshotIndexesAgree ==
    \A b \in SnapshotBusinesses, e \in Epochs :
        /\ snapshots[<<b, e>>] # Absent <=> e \in businessPeriods[b]
        /\ snapshots[<<b, e>>] # Absent <=> b \in epochBusinesses[e]

\* A finalized epoch is frozen: no writer, and no restore whose dry run came
\* before the finalization, changes or adds a snapshot of it, and its recorded
\* count stays the number of its snapshots.
FinalizedEpochsFrozen ==
    [][\A e \in Epochs : finalization[e] # Absent =>
          /\ finalization'[e] = finalization[e]
          /\ \A b \in SnapshotBusinesses : snapshots'[<<b, e>>] = snapshots[<<b, e>>]
          /\ finalization[e] =
                Cardinality({b \in SnapshotBusinesses :
                                snapshots[<<b, e>>] # Absent})]_snapVars

=============================================================================
