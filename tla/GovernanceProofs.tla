-------------------------- MODULE GovernanceProofs --------------------------
(* Proofs about Governance, for every owner list, threshold, proposal and   *)
(* bound: what executed proposals do to the keys is what AdminKeys allows,  *)
(* so that the theorems about the keys hold of the composed contract; no    *)
(* proposal is executed without the quorum of its creation; a decided one   *)
(* stays decided; governance cannot lock itself out; a pause that is in     *)
(* force or due is lifted by an unpause only.                               *)
EXTENDS Governance, AdminKeysProofs

\* What is known of one stored proposal.
Sound(p) ==
    /\ p.status # "Absent" => /\ p.action \in ProposalAction
                              /\ p.need > 0
                              /\ p.approvals \subseteq p.snapshot
    /\ p.status = "Executed" => Cardinality(p.approvals) >= p.need

\* The inductive invariant: types, owners exist only under an admin, and
\* every stored proposal is sound.
GovInv ==
    /\ owners \in Seq(Addresses)
    /\ owners # <<>> => admin # Nobody
    /\ threshold \in Nat \ {0}
    /\ nextId \in 0 .. MaxProposals
    /\ proposals \in [Ids -> Proposal]
    /\ \A id \in Ids : Sound(proposals[id])
    /\ lastQuorumChange \in Nat
    /\ grace \in Nat
    /\ paused \in BOOLEAN
    /\ pendingPause \in Nat \cup {None}
    /\ feeConfig \in Nat \cup {None}

-----------------------------------------------------------------------------
(* Execution acts on the keys as AdminKeys says *)

\* A key action is dispatched for an owner, so an admin exists, and its
\* payload is one the quorum of AdminKeys may use.
LEMMA DispatchIsQuorumCall ==
  ASSUME admin # Nobody, NEW action \in ProposalAction, DispatchKeys(action)
  PROVE  QuorumCall
<1>1. action.who \in Addresses /\ action.mask \in SUBSET Roles
  BY DEF ProposalAction
<1>2. CASE /\ DoGrantRole(action.who, action.mask)
           /\ UNCHANGED <<admin, rotationVars>> /\ now' = now
  BY <1>1, <1>2 DEF QuorumCall, QuorumGrantRole
<1>3. CASE /\ DoRevokeRole(action.who, action.mask)
           /\ UNCHANGED <<admin, rotationVars>> /\ now' = now
  BY <1>1, <1>3 DEF QuorumCall, QuorumRevokeRole
<1>4. CASE DoEmergencyRotate(action.who) /\ now' = now
  BY <1>1, <1>4 DEF QuorumCall, EmergencyRotate
<1> QED
  BY <1>2, <1>3, <1>4 DEF DispatchKeys

\* Whoever is an owner, the multisig was initialized by an admin.
LEMMA OwnersHaveAdmin ==
  ASSUME GovInv, NEW a, IsOwner(a)
  PROVE  admin # Nobody
<1>1. owners # <<>>
  BY DEF IsOwner
<1> QED
  BY <1>1 DEF GovInv

\* Executing a pending proposal.
LEMMA ExecuteOnKeys ==
  ASSUME GovInv, NEW executor, NEW id \in Ids, ExecuteProposal(executor, id)
  PROVE  QuorumCall \/ UNCHANGED keyVars
<1>1. admin # Nobody
  BY OwnersHaveAdmin DEF ExecuteProposal, SignedByOwner
<1>2. proposals[id].action \in ProposalAction
  BY DEF GovInv, Sound, ExecuteProposal, MarkExecuted
<1> QED
  BY <1>1, <1>2, DispatchIsQuorumCall
  DEF ExecuteProposal, DispatchPause, DispatchOwners, DispatchFees

\* Every step of the composed system is a step of AdminKeys or leaves the
\* keys alone.
LEMMA GovStepOnKeys ==
  ASSUME GovInv, [GovNext]_vars
  PROVE  [Next]_keyVars
<1>1. CASE PauseCall
  BY <1>1 DEF PauseCall, Pause, Unpause, SchedulePause, CancelScheduledPause,
              EmergencyPause
<1>2. CASE MultisigCall
  <2>1. ASSUME NEW owner \in Addresses, NEW id \in Ids,
               ExecuteProposal(owner, id)
        PROVE  [Next]_keyVars
    BY <2>1, ExecuteOnKeys DEF Next
  <2> QED
    BY <1>2, <2>1 DEF MultisigCall, InitializeMultisig, CreateProposal,
       ApproveProposal, RejectProposal, CleanupExpiredProposals,
       SetProposalExpiryGrace
<1>3. CASE KeyCall
  BY <1>3 DEF KeyCall, Next
<1>4. CASE UNCHANGED vars
  BY <1>4 DEF vars
<1> QED
  BY <1>1, <1>2, <1>3, <1>4 DEF GovNext

-----------------------------------------------------------------------------
(* The inductive invariant *)

\* The Admin key is never cleared once it is set.
LEMMA AdminStaysSet ==
  ASSUME admin # Nobody, [Next]_keyVars
  PROVE  admin' # Nobody
  BY AdminKeysAssumption
  DEF Next, RoleCall, RotationCall, QuorumCall, Initialize, GrantRole,
      RevokeRole, SwapAdmin, ConfigureKeyRotation, ProposeKeyRotation,
      ConfirmKeyRotation, CancelKeyRotation, QuorumGrantRole, QuorumRevokeRole,
      EmergencyRotate, DoEmergencyRotate, Tick, keyVars

\* A call that stores no proposal, owner or threshold.
LEMMA ProposalsUnchanged ==
  ASSUME GovInv, [Next]_keyVars, UNCHANGED <<owners, threshold, nextId,
                                             proposals, lastQuorumChange>>,
         grace' \in Nat, paused' \in BOOLEAN,
         pendingPause' \in Nat \cup {None}, feeConfig' \in Nat \cup {None}
  PROVE  GovInv'
  BY AdminStaysSet DEF GovInv

\* Replacing the proposals by sound ones.
LEMMA ProposalsReplaced ==
  ASSUME GovInv, UNCHANGED <<admin, owners, threshold, lastQuorumChange, grace,
                             pauseVars, feeConfig>>,
         nextId' \in 0 .. MaxProposals, proposals' \in [Ids -> Proposal],
         \A id \in Ids : Sound(proposals'[id])
  PROVE  GovInv'
  BY DEF GovInv, pauseVars

\* initialize_multisig stores a positive threshold, under an admin.
LEMMA InitializeMultisigOK ==
  ASSUME GovInv, NEW list \in OwnerLists, NEW t \in Thresholds,
         InitializeMultisig(list, t)
  PROVE  GovInv'
<1>1. list \in Seq(Addresses) /\ t \in Nat
  BY GovernanceAssumption
<1>2. /\ admin' = admin
      /\ admin # Nobody
      /\ t > 0
      /\ owners' = list
      /\ threshold' = t
      /\ UNCHANGED <<proposalVars, pauseVars, feeConfig>>
  BY DEF InitializeMultisig, SignedByAdminKey, keyVars
<1> QED
  BY <1>1, <1>2 DEF GovInv, proposalVars, pauseVars

\* A new proposal is approved by its proposer, an owner of the snapshot.
LEMMA CreateOK ==
  ASSUME GovInv, now \in Nat, NEW proposer \in Addresses,
         NEW action \in Actions, CreateProposal(proposer, action)
  PROVE  GovInv'
<1> DEFINE p == [status |-> "Pending", action |-> action,
                 approvals |-> {proposer},
                 snapshot |-> {a \in Addresses : IsOwner(a)},
                 need |-> threshold, expiry |-> now + Expiry]
<1>1. action \in ProposalAction /\ Expiry \in Nat /\ MaxProposals \in Nat
  BY GovernanceAssumption
<1>2. threshold \in Nat \ {0} /\ nextId \in 0 .. MaxProposals
  BY DEF GovInv
<1>3. /\ IsOwner(proposer)
      /\ nextId < MaxProposals
      /\ nextId' = nextId + 1
      /\ proposals' = [proposals EXCEPT ![nextId] = p]
      /\ UNCHANGED <<admin, owners, threshold, lastQuorumChange, grace,
                     pauseVars, feeConfig>>
  BY DEF CreateProposal, SignedByOwner, keyVars, ownerVars
<1>4. p \in Proposal
  BY <1>1, <1>2 DEF Proposal, Statuses
<1>5. Sound(p)
  BY <1>1, <1>2, <1>3 DEF Sound
<1> HIDE DEF p
<1>6. nextId \in Ids /\ nextId' \in 0 .. MaxProposals
  BY <1>1, <1>2, <1>3 DEF Ids
<1>7. proposals' \in [Ids -> Proposal] /\ \A id \in Ids : Sound(proposals'[id])
  BY <1>3, <1>4, <1>5, <1>6 DEF GovInv
<1> QED
  BY <1>3, <1>6, <1>7, ProposalsReplaced

\* A vote comes from the snapshot.
LEMMA ApproveOK ==
  ASSUME GovInv, NEW approver \in Addresses, NEW id \in Ids,
         ApproveProposal(approver, id)
  PROVE  GovInv'
<1> DEFINE p == [proposals[id] EXCEPT !.approvals = @ \cup {approver}]
<1>1. /\ proposals[id].status = "Pending"
      /\ approver \in proposals[id].snapshot
      /\ proposals' = [proposals EXCEPT ![id] = p]
      /\ UNCHANGED <<admin, owners, threshold, nextId, lastQuorumChange, grace,
                     pauseVars, feeConfig>>
  BY DEF ApproveProposal, keyVars, ownerVars
<1>2. proposals[id] \in Proposal /\ Sound(proposals[id])
  BY DEF GovInv
<1>3. p \in Proposal
  BY <1>2 DEF Proposal
<1>4. /\ p.status = "Pending"
      /\ p.action = proposals[id].action
      /\ p.need = proposals[id].need
      /\ p.snapshot = proposals[id].snapshot
      /\ p.approvals = proposals[id].approvals \cup {approver}
  BY <1>1, <1>2 DEF Proposal
<1> HIDE DEF p
<1>5. Sound(p)
  BY <1>1, <1>2, <1>4 DEF Sound
<1>6. proposals' \in [Ids -> Proposal] /\ \A i \in Ids : Sound(proposals'[i])
  BY <1>1, <1>3, <1>5 DEF GovInv
<1> QED
  BY <1>1, <1>6, ProposalsReplaced DEF GovInv

\* A proposal that only gets another status stays sound, if an executed one
\* has its quorum.
LEMMA StatusOK ==
  ASSUME GovInv, NEW id \in Ids, NEW to \in {"Executed", "Rejected"},
         proposals[id].status # "Absent",
         to = "Executed" => Cardinality(proposals[id].approvals) >= proposals[id].need,
         proposals' = [proposals EXCEPT ![id].status = to]
  PROVE  /\ proposals' \in [Ids -> Proposal]
         /\ \A i \in Ids : Sound(proposals'[i])
<1> DEFINE p == [proposals[id] EXCEPT !.status = to]
<1>1. proposals[id] \in Proposal /\ Sound(proposals[id])
  BY DEF GovInv
<1>2. p \in Proposal
  BY <1>1 DEF Proposal, Statuses
<1>3. /\ p.status = to
      /\ p.action = proposals[id].action
      /\ p.need = proposals[id].need
      /\ p.snapshot = proposals[id].snapshot
      /\ p.approvals = proposals[id].approvals
  BY <1>1 DEF Proposal
<1>4. proposals' = [proposals EXCEPT ![id] = p]
  OBVIOUS
<1> HIDE DEF p
<1>5. Sound(p)
  BY <1>1, <1>3 DEF Sound
<1> QED
  BY <1>2, <1>4, <1>5 DEF GovInv

\* mark_executed counts the approvals of the snapshot, which are all of them.
LEMMA MarkOK ==
  ASSUME GovInv, now \in Nat, NEW id \in Ids, MarkExecuted(id)
  PROVE  /\ proposals' \in [Ids -> Proposal]
         /\ \A i \in Ids : Sound(proposals'[i])
         /\ lastQuorumChange' \in Nat
<1>1. /\ proposals[id].status = "Pending"
      /\ Approved(id)
      /\ proposals' = [proposals EXCEPT ![id].status = "Executed"]
      /\ lastQuorumChange' \in {now, lastQuorumChange}
  BY DEF MarkExecuted
<1>2. proposals[id].approvals \cap proposals[id].snapshot = proposals[id].approvals
  BY <1>1 DEF GovInv, Sound
<1>3. Cardinality(proposals[id].approvals) >= proposals[id].need
  BY <1>1, <1>2 DEF Approved
<1> QED
  BY <1>1, <1>3, StatusOK DEF GovInv

\* remove_owner leaves owners.
LEMMA RemoveOwnerType ==
  ASSUME GovInv, NEW who, RemoveOwner(who)
  PROVE  owners' \in Seq(Addresses)
<1> DEFINE K == {i \in DOMAIN owners : owners[i] # who}
<1>1. owners \in Seq(Addresses) /\ owners' \in Compacted(owners, K)
  BY DEF GovInv, RemoveOwner
<1>2. IsFiniteSet(1 .. Len(owners))
  BY <1>1, FS_Interval
<1>3. K \subseteq 1 .. Len(owners) /\ Cardinality(K) \in Nat
  BY <1>1, <1>2, FS_Subset, FS_CardinalityType
<1>4. PICK at \in [1 .. Cardinality(K) -> K] :
         owners' = [n \in 1 .. Cardinality(K) |-> owners[at[n]]]
  BY <1>1 DEF Compacted
<1>5. \A n \in 1 .. Cardinality(K) : owners[at[n]] \in Addresses
  BY <1>1, <1>3, <1>4
<1>6. owners' \in [1 .. Cardinality(K) -> Addresses]
  BY <1>4, <1>5
<1> HIDE DEF K
<1>7. ASSUME NEW n \in Nat, NEW f \in [1 .. n -> Addresses]
      PROVE  f \in Seq(Addresses)
  OBVIOUS
<1> QED
  BY <1>3, <1>6, <1>7

\* Executing a proposal: the status, and one of the four kinds of effect.
LEMMA ExecuteOK ==
  ASSUME GovInv, KeysInv, NEW executor, NEW id \in Ids,
         ExecuteProposal(executor, id)
  PROVE  GovInv'
<1> DEFINE action == proposals[id].action
<1>1. now \in Nat
  BY DEF KeysInv, RotationInv, RotationTypes
<1>2. MarkExecuted(id) /\ IsOwner(executor) /\ UNCHANGED <<nextId, grace>>
  BY DEF ExecuteProposal, SignedByOwner
<1>3. /\ proposals' \in [Ids -> Proposal]
      /\ \A i \in Ids : Sound(proposals'[i])
      /\ lastQuorumChange' \in Nat
  BY <1>1, <1>2, MarkOK
<1>4. admin # Nobody /\ admin' # Nobody
  BY <1>2, OwnersHaveAdmin, ExecuteOnKeys, AdminStaysSet DEF Next
<1>5. action \in ProposalAction
  BY <1>2 DEF GovInv, Sound, MarkExecuted
<1>6. action.who \in Addresses /\ action.n \in Nat
  BY <1>5 DEF ProposalAction
<1>7. /\ owners \in Seq(Addresses)
      /\ threshold \in Nat \ {0}
      /\ paused \in BOOLEAN
      /\ pendingPause \in Nat \cup {None}
      /\ feeConfig \in Nat \cup {None}
      /\ nextId' \in 0 .. MaxProposals
      /\ grace' \in Nat
  BY <1>2 DEF GovInv
<1> HIDE DEF action
<1>8. CASE DispatchPause(action)
  <2>1. paused' \in BOOLEAN /\ pendingPause' \in {None, pendingPause}
    BY <1>8 DEF DispatchPause, ApplyAndSetPaused
  <2>2. UNCHANGED <<owners, threshold, feeConfig>>
    BY <1>8 DEF DispatchPause, ownerVars
  <2> QED
    BY <1>3, <1>4, <1>7, <2>1, <2>2 DEF GovInv
<1>9. CASE DispatchOwners(action)
  <2>1. UNCHANGED <<paused, pendingPause, feeConfig>>
    BY <1>9 DEF DispatchOwners, pauseVars
  <2>2. CASE AddOwner(action.who)
    <3>1. owners' \in Seq(Addresses) /\ threshold' = threshold
      BY <1>6, <1>7, <2>2 DEF AddOwner
    <3> QED
      BY <1>3, <1>4, <1>7, <2>1, <3>1 DEF GovInv
  <2>3. CASE RemoveOwner(action.who)
    <3>1. owners' \in Seq(Addresses) /\ threshold' = threshold
      BY <2>3, RemoveOwnerType DEF RemoveOwner
    <3> QED
      BY <1>3, <1>4, <1>7, <2>1, <3>1 DEF GovInv
  <2>4. CASE RotateThreshold(action.n)
    <3>1. threshold' \in Nat \ {0} /\ owners' = owners
      BY <1>6, <2>4 DEF RotateThreshold
    <3> QED
      BY <1>3, <1>4, <1>7, <2>1, <3>1 DEF GovInv
  <2> QED
    BY <1>9, <2>2, <2>3, <2>4 DEF DispatchOwners
<1>10. CASE DispatchKeys(action)
  <2>1. UNCHANGED <<owners, threshold, paused, pendingPause, feeConfig>>
    BY <1>10 DEF DispatchKeys, ownerVars, pauseVars
  <2> QED
    BY <1>3, <1>4, <1>7, <2>1 DEF GovInv
<1>11. CASE DispatchFees(action)
  <2>1. feeConfig' \in Nat /\ UNCHANGED <<owners, threshold, paused, pendingPause>>
    BY <1>6, <1>11 DEF DispatchFees, ownerVars, pauseVars
  <2> QED
    BY <1>3, <1>4, <1>7, <2>1 DEF GovInv
<1> QED
  BY <1>8, <1>9, <1>10, <1>11 DEF ExecuteProposal, action

\* cleanup_expired_proposals removes proposals and touches no other.
LEMMA CleanupOK ==
  ASSUME GovInv, NEW limit, CleanupExpiredProposals(limit)
  PROVE  GovInv'
<1>1. NoProposal \in Proposal /\ Sound(NoProposal)
  BY DEF NoProposal, Proposal, Statuses, Sound
<1>2. /\ proposals' \in [Ids -> Proposal]
      /\ \A id \in Ids : Sound(proposals'[id])
  BY <1>1 DEF GovInv, CleanupExpiredProposals
<1>3. UNCHANGED <<admin, owners, threshold, nextId, lastQuorumChange, grace,
                  pauseVars, feeConfig>>
  BY DEF CleanupExpiredProposals, keyVars, ownerVars
<1> QED
  BY <1>2, <1>3, ProposalsReplaced DEF GovInv

\* The pause calls store a flag and a time.
LEMMA PauseOK ==
  ASSUME GovInv, PauseCall
  PROVE  GovInv'
<1>1. paused' \in BOOLEAN /\ pendingPause' \in Nat \cup {None}
  BY GovernanceAssumption
  DEF GovInv, PauseCall, Pause, Unpause, SchedulePause, CancelScheduledPause,
      EmergencyPause, ApplyAndSetPaused, EffectivelyPaused, PauseDue
<1>2. UNCHANGED <<admin, owners, threshold, nextId, proposals, lastQuorumChange,
                  grace, feeConfig>>
  BY DEF PauseCall, Pause, Unpause, SchedulePause, CancelScheduledPause,
         EmergencyPause, keyVars, ownerVars, proposalVars
<1> QED
  BY <1>1, <1>2 DEF GovInv

\* Every step keeps the inductive invariant.
LEMMA GovStep ==
  ASSUME GovInv, KeysInv, [GovNext]_vars
  PROVE  GovInv'
<1>1. now \in Nat
  BY DEF KeysInv, RotationInv, RotationTypes
<1>2. CASE PauseCall
  BY <1>2, PauseOK
<1>3. CASE MultisigCall
  <2>1. ASSUME NEW owner \in Addresses, NEW id \in Ids,
               RejectProposal(owner, id)
        PROVE  GovInv'
    <3>1. /\ proposals[id].status # "Absent"
          /\ proposals' = [proposals EXCEPT ![id].status = "Rejected"]
          /\ UNCHANGED <<admin, owners, threshold, nextId, lastQuorumChange,
                         grace, pauseVars, feeConfig>>
      BY <2>1 DEF RejectProposal, keyVars, ownerVars
    <3>2. /\ proposals' \in [Ids -> Proposal]
          /\ \A i \in Ids : Sound(proposals'[i])
      BY <3>1, StatusOK
    <3> QED
      BY <3>1, <3>2, ProposalsReplaced DEF GovInv
  <2>2. ASSUME NEW caller, NEW g \in Graces, SetProposalExpiryGrace(caller, g)
        PROVE  GovInv'
    <3>1. grace' \in Nat
      BY <2>2, GovernanceAssumption DEF SetProposalExpiryGrace
    <3>2. UNCHANGED <<admin, owners, threshold, nextId, proposals,
                      lastQuorumChange, paused, pendingPause, feeConfig>>
      BY <2>2 DEF SetProposalExpiryGrace, keyVars, ownerVars, pauseVars
    <3> QED
      BY <3>1, <3>2 DEF GovInv
  <2> QED
    BY <1>1, <1>3, <2>1, <2>2, InitializeMultisigOK, CreateOK, ApproveOK,
       ExecuteOK, CleanupOK
    DEF MultisigCall
<1>4. CASE KeyCall
  <2>1. [Next]_keyVars /\ UNCHANGED govVars
    BY <1>4 DEF KeyCall, Next
  <2> QED
    BY <2>1, ProposalsUnchanged
    DEF GovInv, govVars, ownerVars, proposalVars, pauseVars
<1>5. CASE UNCHANGED vars
  BY <1>5, ProposalsUnchanged
  DEF GovInv, vars, govVars, ownerVars, proposalVars, pauseVars
<1> QED
  BY <1>2, <1>3, <1>4, <1>5 DEF GovNext

\* The initial state satisfies both inductive invariants.
LEMMA GovInitOK == ASSUME GovInit PROVE GovInv /\ KeysInv
<1>1. NoProposal \in Proposal /\ Sound(NoProposal)
  BY DEF NoProposal, Proposal, Statuses, Sound
<1>2. /\ proposals \in [Ids -> Proposal]
      /\ \A id \in Ids : Sound(proposals[id])
  BY <1>1 DEF GovInit
<1>3. owners \in Seq(Addresses) /\ owners = <<>>
  BY DEF GovInit
<1>4. /\ threshold \in Nat \ {0}
      /\ nextId \in 0 .. MaxProposals
      /\ lastQuorumChange \in Nat
      /\ grace \in Nat
  BY GovernanceAssumption DEF GovInit
<1>5. /\ paused \in BOOLEAN
      /\ pendingPause \in Nat \cup {None}
      /\ feeConfig \in Nat \cup {None}
  BY DEF GovInit
<1>6. GovInv
  BY <1>2, <1>3, <1>4, <1>5 DEF GovInv
<1> QED
  BY <1>6, KeysInit DEF GovInit

\* Both inductive invariants hold in every behaviour of the composed system.
LEMMA GovInvariant == GovSpec => [](GovInv /\ KeysInv)
<1>1. GovInit => GovInv /\ KeysInv
  BY GovInitOK
<1>2. GovInv /\ KeysInv /\ [GovNext]_vars => (GovInv /\ KeysInv)'
  BY GovStep, GovStepOnKeys, KeysStep
<1> QED
  BY <1>1, <1>2, PTL DEF GovSpec

-----------------------------------------------------------------------------
(* What follows, for every value of the constants *)

\* The governed contract implements AdminKeys: executed proposals change the
\* keys only as the quorum calls of AdminKeys do.
THEOREM GovernanceImplementsAdminKeys == GovSpec => ImplementsAdminKeys
<1>1. GovInit => Init
  BY DEF GovInit
<1>2. GovInv /\ [GovNext]_vars => [Next]_keyVars
  BY GovStepOnKeys
<1> QED
  BY <1>1, <1>2, GovInvariant, PTL DEF GovSpec, ImplementsAdminKeys

\* Hence no sequence of proposals leaves the contract without an admin.
THEOREM GovernanceKeepsAdmin == GovSpec => []SomeAdminRemains
<1>1. ImplementsAdminKeys => Spec
  BY DEF ImplementsAdminKeys, Spec
<1> QED
  BY <1>1, GovernanceImplementsAdminKeys, AdminAlwaysRemains, PTL

\* Owners, proposals and the pause switch keep their types.
THEOREM GovernanceTypeCorrect == GovSpec => []GovernanceTypeOK
<1>1. GovInv => GovernanceTypeOK
  BY DEF GovInv, GovernanceTypeOK
<1> QED
  BY <1>1, GovInvariant, PTL

\* Every executed proposal had the quorum of its creation among the owners of
\* that time.
THEOREM ExecutionNeedsQuorum == GovSpec => []ExecutedHadQuorum
<1>1. GovInv => ExecutedHadQuorum
  BY DEF GovInv, Sound, ExecutedHadQuorum
<1> QED
  BY <1>1, GovInvariant, PTL

-----------------------------------------------------------------------------
(* Decided proposals *)

\* Ids that were not given out yet hold no proposal.
FreshIds == \A id \in Ids : id >= nextId => proposals[id].status = "Absent"

\* The step of DecidedStaysDecided.
DecidedStep ==
    \A id \in Ids :
        /\ proposals[id].status \in {"Executed", "Rejected"} =>
              proposals'[id].status
                  \in {proposals[id].status, "Rejected", "Absent"}
        /\ proposals[id].status # "Absent" /\ proposals'[id].status # "Absent"
              => /\ proposals'[id].snapshot = proposals[id].snapshot
                 /\ proposals'[id].need = proposals[id].need
                 /\ proposals'[id].action = proposals[id].action
        /\ id < nextId /\ proposals[id].status = "Absent" =>
              proposals'[id].status = "Absent"

\* What one call may do to the stored proposals.
ProposalStep(id) ==
    \/ proposals'[id] = proposals[id] /\ nextId' >= nextId
    \/ id = nextId /\ nextId' = nextId + 1
    \/ /\ proposals[id].status # "Absent"
       /\ nextId' = nextId
       /\ \/ proposals'[id].status = "Absent"
          \/ /\ \/ proposals'[id].status = proposals[id].status
                \/ proposals'[id].status = "Rejected"
                \/ proposals[id].status = "Pending"
             /\ proposals'[id].snapshot = proposals[id].snapshot
             /\ proposals'[id].need = proposals[id].need
             /\ proposals'[id].action = proposals[id].action

\* Every call takes each proposal through one of these steps.
LEMMA EachProposalStep ==
  ASSUME GovInv, [GovNext]_vars
  PROVE  \A id \in Ids : ProposalStep(id)
<1>1. /\ proposals \in [Ids -> Proposal]
      /\ nextId \in Nat
  BY GovernanceAssumption DEF GovInv
<1>2. CASE UNCHANGED <<nextId, proposals>>
  BY <1>1, <1>2 DEF ProposalStep
<1>3. ASSUME NEW owner \in Addresses, NEW action \in Actions,
             CreateProposal(owner, action)
      PROVE  \A id \in Ids : ProposalStep(id)
  <2>1. /\ nextId' = nextId + 1
        /\ \A id \in Ids \ {nextId} : proposals'[id] = proposals[id]
    BY <1>1, <1>3 DEF CreateProposal
  <2> QED
    BY <1>1, <2>1 DEF ProposalStep
<1>4. ASSUME NEW id \in Ids, proposals[id].status # "Absent",
             nextId' = nextId,
             NEW p, proposals' = [proposals EXCEPT ![id] = p],
             \/ p.status = proposals[id].status
             \/ p.status = "Rejected"
             \/ proposals[id].status = "Pending",
             p.snapshot = proposals[id].snapshot,
             p.need = proposals[id].need, p.action = proposals[id].action
      PROVE  \A i \in Ids : ProposalStep(i)
  <2>1. /\ proposals'[id] = p
        /\ \A i \in Ids \ {id} : proposals'[i] = proposals[i]
    BY <1>1, <1>4
  <2> QED
    BY <1>1, <1>4, <2>1 DEF ProposalStep
<1>5. ASSUME NEW id \in Ids, NEW approver \in Addresses,
             ApproveProposal(approver, id)
      PROVE  \A i \in Ids : ProposalStep(i)
  <2> DEFINE p == [proposals[id] EXCEPT
                      !.approvals = proposals[id].approvals \cup {approver}]
  <2>1. /\ proposals[id].status # "Absent"
        /\ nextId' = nextId
        /\ proposals' = [proposals EXCEPT ![id] = p]
    BY <1>5 DEF ApproveProposal
  <2>2. /\ p.status = proposals[id].status
        /\ p.snapshot = proposals[id].snapshot
        /\ p.need = proposals[id].need
        /\ p.action = proposals[id].action
    BY <1>1 DEF Proposal
  <2> HIDE DEF p
  <2> QED
    BY <1>4, <2>1, <2>2
<1>6. ASSUME NEW id \in Ids, NEW to,
             proposals[id].status # "Absent", nextId' = nextId,
             to = "Rejected" \/ proposals[id].status = "Pending",
             proposals' = [proposals EXCEPT ![id].status = to]
      PROVE  \A i \in Ids : ProposalStep(i)
  <2> DEFINE p == [proposals[id] EXCEPT !.status = to]
  <2>1. /\ proposals' = [proposals EXCEPT ![id] = p]
    BY <1>6
  <2>2. /\ p.status = to
        /\ p.snapshot = proposals[id].snapshot
        /\ p.need = proposals[id].need
        /\ p.action = proposals[id].action
    BY <1>1 DEF Proposal
  <2> HIDE DEF p
  <2> QED
    BY <1>4, <1>6, <2>1, <2>2
<1>7. ASSUME NEW id \in Ids, NEW owner \in Addresses,
             RejectProposal(owner, id) \/ ExecuteProposal(owner, id)
      PROVE  \A i \in Ids : ProposalStep(i)
  <2>1. CASE RejectProposal(owner, id)
    BY <1>6, <2>1 DEF RejectProposal
  <2>2. CASE ExecuteProposal(owner, id)
    BY <1>6, <2>2 DEF ExecuteProposal, MarkExecuted
  <2> QED
    BY <1>7, <2>1, <2>2
<1>8. ASSUME NEW limit \in Limits, CleanupExpiredProposals(limit)
      PROVE  \A i \in Ids : ProposalStep(i)
  <2>1. \A id \in Ids : \/ proposals'[id] = proposals[id]
                        \/ /\ proposals[id].status # "Absent"
                           /\ proposals'[id] = NoProposal
    BY <1>1, <1>8 DEF CleanupExpiredProposals
  <2>2. nextId' = nextId
    BY <1>8 DEF CleanupExpiredProposals
  <2>3. NoProposal.status = "Absent"
    BY DEF NoProposal
  <2> QED
    BY <1>1, <2>1, <2>2, <2>3 DEF ProposalStep
<1>9. CASE PauseCall
  BY <1>2, <1>9 DEF PauseCall, Pause, Unpause, SchedulePause,
     CancelScheduledPause, EmergencyPause, proposalVars
<1>10. CASE MultisigCall
  BY <1>2, <1>3, <1>5, <1>7, <1>8, <1>10
  DEF MultisigCall, InitializeMultisig, SetProposalExpiryGrace, proposalVars
<1>11. CASE KeyCall
  BY <1>2, <1>11 DEF KeyCall, govVars, proposalVars
<1>12. CASE UNCHANGED vars
  BY <1>2, <1>12 DEF vars, govVars, proposalVars
<1> QED
  BY <1>9, <1>10, <1>11, <1>12 DEF GovNext

\* Fresh ids stay fresh: a proposal is stored at nextId, which grows with it.
LEMMA FreshIdsStep ==
  ASSUME GovInv, GovInv', FreshIds, [GovNext]_vars
  PROVE  FreshIds'
<1>1. nextId \in Nat /\ Ids \subseteq Int
  BY GovernanceAssumption DEF GovInv, Ids
<1>2. nextId' \in Nat
  BY GovernanceAssumption DEF GovInv
<1>3. ASSUME NEW id \in Ids, id >= nextId'
      PROVE  proposals'[id].status = "Absent"
  BY <1>1, <1>2, <1>3, EachProposalStep DEF FreshIds, ProposalStep
<1> QED
  BY <1>3 DEF FreshIds

\* A decided proposal is never pending or executed again, its snapshot and
\* action never change, and a removed one never comes back.
THEOREM DecidedProposalsStay == GovSpec => DecidedStaysDecided
<1>1. GovInit => FreshIds
  BY DEF GovInit, FreshIds, NoProposal
<1>2. GovSpec => [](GovInv /\ FreshIds)
  BY <1>1, GovInvariant, FreshIdsStep, PTL DEF GovSpec
<1>3. GovInv /\ FreshIds /\ [GovNext]_vars => [DecidedStep]_vars
  <2> SUFFICES ASSUME GovInv, FreshIds, [GovNext]_vars PROVE DecidedStep
    OBVIOUS
  <2>1. nextId \in Nat /\ Ids \subseteq Int
    BY GovernanceAssumption DEF GovInv, Ids
  <2> QED
    BY <2>1, EachProposalStep DEF DecidedStep, FreshIds, ProposalStep
<1>4. GovSpec => [][DecidedStep]_vars
  BY <1>2, <1>3, PTL DEF GovSpec
<1> QED
  BY <1>4 DEF DecidedStaysDecided, DecidedStep

-----------------------------------------------------------------------------
(* The quorum can be reached *)

Distinct(list) == \A i, j \in DOMAIN list : list[i] = list[j] => i = j

\* What initialize_multisig does not check: the owners passed are distinct.
DistinctLists == \A list \in OwnerLists : Distinct(list)

\* The owners stay distinct and as many as the threshold.
OwnersInv ==
    /\ Distinct(owners)
    /\ owners # <<>> => threshold <= Len(owners)

\* Distinct owners are as many as the vector is long.
LEMMA OwnersCounted ==
  ASSUME GovInv, OwnersInv
  PROVE  Cardinality({a \in Addresses : IsOwner(a)}) = Len(owners)
<1> DEFINE D == 1 .. Len(owners)
           S == {a \in Addresses : IsOwner(a)}
<1>1. owners \in Seq(Addresses) /\ Len(owners) \in Nat /\ DOMAIN owners = D
  BY DEF GovInv
<1>2. IsFiniteSet(D) /\ Cardinality(D) = Len(owners)
  <2>1. \A n \in Nat : IsFiniteSet(1 .. n) /\ Cardinality(1 .. n) = n
    BY ONLY FS_Interval
  <2>. QED
    BY ONLY <1>1, <2>1 DEF D
<1>3. owners \in [D -> S]
  BY <1>1 DEF IsOwner
<1>4. \A a \in S : \E i \in D : owners[i] = a
  BY <1>1 DEF IsOwner
<1>5. \A i, j \in D : owners[i] = owners[j] => i = j
  BY <1>1 DEF OwnersInv, Distinct
<1> HIDE DEF D, S
<1>6. owners \in Bijection(D, S)
  BY <1>3, <1>4, <1>5 DEF Bijection, Injection, IsInjective, Surjection
<1>7. ExistsBijection(D, S)
  BY <1>6 DEF ExistsBijection
<1>8. Cardinality(S) = Cardinality(D)
  BY <1>2, <1>7, FS_Bijection
<1> QED
  BY <1>2, <1>8 DEF S

\* remove_owner keeps the others, each once.
LEMMA RemoveOwnerDistinct ==
  ASSUME GovInv, OwnersInv, NEW who, RemoveOwner(who)
  PROVE  OwnersInv'
<1> DEFINE K == {i \in DOMAIN owners : owners[i] # who}
<1>1. owners \in Seq(Addresses) /\ Len(owners') >= threshold
      /\ owners' \in Compacted(owners, K) /\ threshold' = threshold
  BY DEF GovInv, RemoveOwner
<1>2. IsFiniteSet(1 .. Len(owners))
  BY <1>1, FS_Interval
<1>3. K \subseteq Int /\ Cardinality(K) \in Nat
  <2>1. K \subseteq 1 .. Len(owners) /\ Len(owners) \in Nat
    BY <1>1
  <2> QED
    BY <1>2, <2>1, FS_Subset, FS_CardinalityType
<1>4. PICK at \in [1 .. Cardinality(K) -> K] :
         /\ \A m, n \in 1 .. Cardinality(K) : m < n => at[m] < at[n]
         /\ owners' = [n \in 1 .. Cardinality(K) |-> owners[at[n]]]
  BY <1>1 DEF Compacted
<1>5. K \subseteq DOMAIN owners
  OBVIOUS
<1> HIDE DEF K
<1>6. \A m, n \in 1 .. Cardinality(K) : at[m] = at[n] => m = n
  <2>1. \A n \in 1 .. Cardinality(K) : at[n] \in Int
    <3>1. \A n \in 1 .. Cardinality(K) : at[n] \in K
      BY <1>4
    <3> QED
      BY <1>3, <3>1
  <2>2. \A n \in 1 .. Cardinality(K) : n \in Int
    BY <1>3
  <2> QED
    BY <1>4, <2>1, <2>2
<1>7. \A m, n \in 1 .. Cardinality(K) : owners[at[m]] = owners[at[n]] => m = n
  BY <1>4, <1>5, <1>6 DEF OwnersInv, Distinct
<1>8. Distinct(owners')
  BY <1>4, <1>7 DEF Distinct
<1>9. owners' \in Seq(Addresses) /\ threshold \in Nat
  BY RemoveOwnerType DEF GovInv
<1> QED
  BY <1>1, <1>8, <1>9 DEF OwnersInv

\* Every step keeps the owners distinct and enough of them.
LEMMA OwnersStep ==
  ASSUME DistinctLists, GovInv, OwnersInv, [GovNext]_vars
  PROVE  OwnersInv'
<1>1. owners \in Seq(Addresses) /\ threshold \in Nat
  BY DEF GovInv
<1>2. CASE UNCHANGED <<owners, threshold>>
  BY <1>2 DEF OwnersInv
<1>3. ASSUME NEW list \in OwnerLists, NEW t \in Thresholds,
             InitializeMultisig(list, t)
      PROVE  OwnersInv'
  BY <1>3 DEF InitializeMultisig, OwnersInv, DistinctLists
<1>4. ASSUME NEW who \in Addresses, owners # <<>>, AddOwner(who)
      PROVE  OwnersInv'
  <2>1. /\ owners' = Append(owners, who)
        /\ threshold' = threshold
        /\ threshold <= Len(owners)
        /\ \A i \in DOMAIN owners : owners[i] # who
    BY <1>4 DEF AddOwner, IsOwner, OwnersInv
  <2>2. /\ Len(owners') = Len(owners) + 1
        /\ DOMAIN owners' = DOMAIN owners \cup {Len(owners) + 1}
        /\ \A i \in DOMAIN owners : owners'[i] = owners[i]
        /\ owners'[Len(owners) + 1] = who
    BY <1>1, <2>1
  <2>3. Distinct(owners')
    BY <2>1, <2>2 DEF OwnersInv, Distinct
  <2> QED
    BY <1>1, <2>1, <2>2, <2>3 DEF OwnersInv
<1>5. ASSUME NEW t, RotateThreshold(t)
      PROVE  OwnersInv'
  BY <1>5 DEF RotateThreshold, OwnersInv
<1>6. ASSUME NEW owner \in Addresses, NEW id \in Ids, ExecuteProposal(owner, id)
      PROVE  OwnersInv'
  <2> DEFINE action == proposals[id].action
  <2>1. owners # <<>>
    BY <1>6 DEF ExecuteProposal, SignedByOwner, IsOwner
  <2>2. action.who \in Addresses
    BY <1>6 DEF GovInv, Sound, ExecuteProposal, MarkExecuted, ProposalAction
  <2>3. \/ DispatchPause(action) \/ DispatchOwners(action)
        \/ DispatchKeys(action) \/ DispatchFees(action)
    BY <1>6 DEF ExecuteProposal
  <2> HIDE DEF action
  <2>4. CASE DispatchOwners(action)
    BY <1>4, <1>5, <2>1, <2>2, <2>4, RemoveOwnerDistinct DEF DispatchOwners
  <2> QED
    BY <1>2, <2>3, <2>4 DEF DispatchPause, DispatchKeys, DispatchFees, ownerVars
<1>7. CASE PauseCall
  BY <1>2, <1>7 DEF PauseCall, Pause, Unpause, SchedulePause,
     CancelScheduledPause, EmergencyPause, ownerVars
<1>8. CASE MultisigCall
  BY <1>2, <1>3, <1>6, <1>8
  DEF MultisigCall, CreateProposal, ApproveProposal, RejectProposal,
      CleanupExpiredProposals, SetProposalExpiryGrace, ownerVars
<1>9. CASE KeyCall
  BY <1>2, <1>9 DEF KeyCall, govVars, ownerVars
<1>10. CASE UNCHANGED vars
  BY <1>2, <1>10 DEF vars, govVars, ownerVars
<1> QED
  BY <1>7, <1>8, <1>9, <1>10 DEF GovNext

\* Started from distinct owners, governance never locks itself out: whatever
\* proposals are executed, in whatever order and however old their snapshots,
\* the distinct owners are enough for the threshold.
THEOREM QuorumStaysReachable ==
  ASSUME DistinctLists
  PROVE  GovSpec => []QuorumReachable
<1>1. GovInit => OwnersInv
  BY DEF GovInit, OwnersInv, Distinct
<1>2. GovInv /\ OwnersInv /\ [GovNext]_vars => OwnersInv'
  BY OwnersStep
<1>3. GovInv /\ OwnersInv => QuorumReachable
  BY OwnersCounted DEF GovInv, OwnersInv, QuorumReachable
<1> QED
  BY <1>1, <1>2, <1>3, GovInvariant, PTL DEF GovSpec

-----------------------------------------------------------------------------
(* The pause switch *)

\* The ledger only moves forward.
LEMMA LedgerMovesForward ==
  ASSUME now \in Nat, [Next]_keyVars
  PROVE  now' \in {now, now + 1}
  BY DEF Next, RoleCall, RotationCall, QuorumCall, Initialize, GrantRole,
     RevokeRole, SwapAdmin, ConfigureKeyRotation, ProposeKeyRotation,
     ConfirmKeyRotation, CancelKeyRotation, QuorumGrantRole, QuorumRevokeRole,
     EmergencyRotate, Tick, keyVars

\* The step of PauseLiftedByUnpause.
LiftStep ==
    EffectivelyPaused /\ ~EffectivelyPaused' =>
        \/ \E caller \in Addresses : Unpause(caller)
        \/ \E id \in Ids : /\ proposals[id].action # None
                           /\ proposals[id].action.kind = "Unpause"
                           /\ proposals[id].status = "Pending"
                           /\ proposals'[id].status = "Executed"

\* A step that leaves the pause switch alone leaves a pause in force.
LEMMA PauseStays ==
  ASSUME GovInv, KeysInv, [GovNext]_vars, UNCHANGED pauseVars, EffectivelyPaused
  PROVE  EffectivelyPaused'
<1>1. now \in Nat /\ pendingPause \in Nat \cup {None}
  BY DEF KeysInv, RotationInv, RotationTypes, GovInv
<1>2. now' \in {now, now + 1}
  BY <1>1, GovStepOnKeys, LedgerMovesForward
<1> QED
  BY <1>1, <1>2 DEF EffectivelyPaused, PauseDue, pauseVars

\* Executing a proposal lifts a pause only if it is an Unpause.
LEMMA ExecuteLift ==
  ASSUME GovInv, KeysInv, [GovNext]_vars, NEW id \in Ids, NEW owner,
         ExecuteProposal(owner, id), EffectivelyPaused, ~EffectivelyPaused'
  PROVE  /\ proposals[id].action # None
         /\ proposals[id].action.kind = "Unpause"
         /\ proposals[id].status = "Pending"
         /\ proposals'[id].status = "Executed"
<1> DEFINE action == proposals[id].action
<1>1. proposals[id].status = "Pending" /\ action \in ProposalAction
  BY DEF GovInv, Sound, ExecuteProposal, MarkExecuted
<1>2. proposals'[id].status = "Executed"
  <2>1. proposals' = [proposals EXCEPT ![id].status = "Executed"]
    BY DEF ExecuteProposal, MarkExecuted
  <2>2. proposals[id] \in Proposal /\ proposals \in [Ids -> Proposal]
    BY DEF GovInv
  <2> QED
    BY <2>1, <2>2 DEF Proposal
<1>3. action # None
  BY <1>1, GovernanceAssumption
<1>4. \/ DispatchPause(action) \/ UNCHANGED pauseVars
  BY DEF ExecuteProposal, DispatchOwners, DispatchKeys, DispatchFees
<1>5. ~ UNCHANGED pauseVars
  BY PauseStays
<1>6. action.kind = "Unpause"
  BY <1>4, <1>5 DEF DispatchPause, ApplyAndSetPaused, EffectivelyPaused
<1> QED
  BY <1>1, <1>2, <1>3, <1>6

\* A pause in force, or only due, ends by an unpause and by nothing else: not
\* by scheduling, cancelling or repeating a pause, nor by any other proposal.
THEOREM OnlyUnpauseLifts == GovSpec => PauseLiftedByUnpause
<1>1. GovInv /\ KeysInv /\ [GovNext]_vars => [LiftStep]_vars
  <2> SUFFICES ASSUME GovInv, KeysInv, [GovNext]_vars, EffectivelyPaused,
                      ~EffectivelyPaused'
               PROVE  LiftStep
    BY DEF LiftStep
  <2>1. ~ UNCHANGED pauseVars
    BY PauseStays
  <2>2. ASSUME NEW caller \in Addresses,
               \/ Pause(caller)
               \/ \E at \in PauseTimes : SchedulePause(caller, at)
               \/ CancelScheduledPause(caller)
               \/ \E s1, s2 \in Addresses : EmergencyPause(caller, s1, s2)
        PROVE  FALSE
    BY <2>2 DEF Pause, SchedulePause, CancelScheduledPause, EmergencyPause,
       ApplyAndSetPaused, EffectivelyPaused
  <2>3. ASSUME NEW owner \in Addresses, NEW id \in Ids,
               ExecuteProposal(owner, id)
        PROVE  LiftStep
    BY <2>3, ExecuteLift DEF LiftStep
  <2>4. CASE PauseCall
    BY <2>2, <2>4 DEF PauseCall, LiftStep
  <2>5. CASE MultisigCall
    BY <2>1, <2>3, <2>5
    DEF MultisigCall, InitializeMultisig, CreateProposal, ApproveProposal,
        RejectProposal, CleanupExpiredProposals, SetProposalExpiryGrace
  <2>6. CASE KeyCall \/ UNCHANGED vars
    BY <2>1, <2>6 DEF KeyCall, vars, govVars
  <2> QED
    BY <2>4, <2>5, <2>6 DEF GovNext
<1>2. GovSpec => [][LiftStep]_vars
  BY <1>1, GovInvariant, PTL DEF GovSpec
<1> QED
  BY <1>2 DEF PauseLiftedByUnpause, LiftStep

=============================================================================
