----------------------------- MODULE Governance -----------------------------
(***************************************************************************)
(* Multisignature governance of the attestation contract                   *)
(* (contracts/attestation/src/multisig.rs, dispatched by                   *)
(* contracts/attestation/src/lib.rs) and the pause switch                  *)
(* (access_control.rs), composed with AdminKeys, on which executed         *)
(* proposals act.                                                          *)
(*                                                                         *)
(* A proposal's Proposal, Approvals, ProposalExpiry and VoteWeightSnapshot *)
(* entries are written and removed together: they are one record here.     *)
(* revoke_approval has no entry point in lib.rs and is no action.  The     *)
(* replay nonce of each call is left out: it only orders one actor's calls. *)
(***************************************************************************)
EXTENDS AdminKeys, Vectors

CONSTANTS
    OwnerLists,      \* owner lists the admin may pass to initialize_multisig
    Thresholds,      \* thresholds the admin may pass to it
    Actions,         \* ProposalAction values an owner may propose
    Graces,          \* expiry graces the admin may set
    Limits,          \* limits a caller may pass to cleanup
    PauseTimes,      \* effective_at values of schedule_pause
    Expiry,          \* DEFAULT_PROPOSAL_EXPIRY
    QuorumCooldown,  \* PROPOSAL_COOLDOWN_LEDGERS
    DefaultGrace,    \* DEFAULT_PROPOSAL_EXPIRY_GRACE
    PauseNotice,     \* the notice window of schedule_pause
    MaxProposals     \* bound on the number of proposals

Kinds == {"Pause", "Unpause", "EmergencyPause", "AddOwner", "RemoveOwner",
          "ChangeThreshold", "GrantRole", "RevokeRole", "UpdateFeeConfig",
          "EmergencyRotateAdmin"}

\* who, n and mask are the payload; an action ignores the ones it lacks.
ProposalAction == [kind : Kinds, who : Addresses, n : Nat,
                   mask : SUBSET Roles]

ASSUME GovernanceAssumption ==
    /\ OwnerLists \subseteq Seq(Addresses) \ {<<>>}
    /\ Thresholds \subseteq Nat
    /\ Actions \subseteq ProposalAction
    /\ None \notin ProposalAction
    /\ Graces \subseteq Nat
    /\ Limits \subseteq Nat
    /\ PauseTimes \subseteq Nat
    /\ Expiry \in Nat
    /\ QuorumCooldown \in Nat
    /\ DefaultGrace \in Nat
    /\ PauseNotice \in Nat
    /\ MaxProposals \in Nat

VARIABLES
    owners,           \* Owners, a vector: empty before initialize_multisig
    threshold,        \* Threshold, 1 while unset
    nextId,           \* NextProposalId
    proposals,        \* Proposal(id) with its approvals, expiry and snapshot
    lastQuorumChange, \* LastQuorumChange, 0 while unset
    grace,            \* ProposalExpiryGrace
    paused,           \* Paused
    pendingPause,     \* PendingPauseEffectiveAt
    feeConfig         \* FeeConfig: its base fee, None while unset

pauseVars == <<paused, pendingPause>>
ownerVars == <<owners, threshold>>
proposalVars == <<nextId, proposals, lastQuorumChange, grace>>
govVars == <<ownerVars, proposalVars, pauseVars, feeConfig>>
vars == <<keyVars, govVars>>

Ids == 0 .. MaxProposals - 1

Statuses == {"Absent", "Pending", "Executed", "Rejected"}

\* snapshot and need are the VoteWeightSnapshot's owners and threshold.
Proposal == [status : Statuses, action : ProposalAction \cup {None},
             approvals : SUBSET Addresses, snapshot : SUBSET Addresses,
             need : Nat, expiry : Nat]

NoProposal == [status |-> "Absent", action |-> None, approvals |-> {},
               snapshot |-> {}, need |-> 0, expiry |-> 0]

GovInit ==
    /\ Init
    /\ owners = <<>>
    /\ threshold = 1
    /\ nextId = 0
    /\ proposals = [id \in Ids |-> NoProposal]
    /\ lastQuorumChange = 0
    /\ grace = DefaultGrace
    /\ paused = FALSE
    /\ pendingPause = None
    /\ feeConfig = None

-----------------------------------------------------------------------------
(* The pause switch *)

\* A scheduled pause whose time has come, applied by the next call that looks.
PauseDue == pendingPause # None /\ now >= pendingPause

\* What require_not_paused refuses.
EffectivelyPaused == paused \/ PauseDue

\* check_and_apply_pending_pause followed by set_paused(b).
ApplyAndSetPaused(b) ==
    /\ paused' = b
    /\ pendingPause' = IF PauseDue THEN None ELSE pendingPause

Pause(caller) ==
    /\ SignedByAdmin(caller)
    /\ ApplyAndSetPaused(TRUE)
    /\ UNCHANGED <<keyVars, ownerVars, proposalVars, feeConfig>>

Unpause(caller) ==
    /\ SignedByAdmin(caller)
    /\ ApplyAndSetPaused(FALSE)
    /\ UNCHANGED <<keyVars, ownerVars, proposalVars, feeConfig>>

\* Mutant: a pause that is already due is overwritten instead of applied.
ScheduleOverDue(caller, at) ==
    /\ SignedByAdmin(caller)
    /\ at >= now + PauseNotice
    /\ PauseDue \/ pendingPause = None
    /\ pendingPause' = at
    /\ UNCHANGED <<keyVars, ownerVars, proposalVars, paused, feeConfig>>

SchedulePause(caller, at) ==
    /\ SignedByAdmin(caller)
    /\ at >= now + PauseNotice
    /\ PauseDue \/ pendingPause = None
    /\ paused' = EffectivelyPaused
    /\ pendingPause' = at
    /\ UNCHANGED <<keyVars, ownerVars, proposalVars, feeConfig>>

\* A pause that is already due is applied first and cannot be cancelled.
CancelScheduledPause(caller) ==
    /\ SignedByAdmin(caller)
    /\ pendingPause # None
    /\ ~PauseDue
    /\ pendingPause' = None
    /\ UNCHANGED <<keyVars, ownerVars, proposalVars, paused, feeConfig>>

IsOwner(a) == \E i \in DOMAIN owners : owners[i] = a

\* An owner that can sign.
SignedByOwner(a) == a # ZeroAccount /\ IsOwner(a)

\* The dual-key pause does not look at the scheduled one.
EmergencyPause(caller, signer1, signer2) ==
    /\ SignedByAdmin(caller)
    /\ signer1 # signer2
    /\ SignedByOwner(signer1)
    /\ SignedByOwner(signer2)
    /\ ~paused
    /\ paused' = TRUE
    /\ UNCHANGED <<keyVars, ownerVars, proposalVars, pendingPause, feeConfig>>

-----------------------------------------------------------------------------
(* Owners and proposals *)

InitializeMultisig(list, t) ==
    /\ SignedByAdminKey
    /\ t > 0
    /\ t <= Len(list)
    /\ owners = <<>>
    /\ owners' = list
    /\ threshold' = t
    /\ UNCHANGED <<keyVars, proposalVars, pauseVars, feeConfig>>

Expired(id) == now > proposals[id].expiry

\* The proposer approves; later votes are counted against the owners and the
\* threshold of this moment.
CreateProposal(proposer, action) ==
    /\ SignedByOwner(proposer)
    /\ action.kind = "ChangeThreshold" =>
          now >= lastQuorumChange + QuorumCooldown
    /\ now + Expiry <= U32Max
    /\ nextId < MaxProposals
    /\ nextId' = nextId + 1
    /\ proposals' = [proposals EXCEPT ![nextId] =
                       [status |-> "Pending", action |-> action,
                        approvals |-> {proposer},
                        snapshot |-> {a \in Addresses : IsOwner(a)},
                        need |-> threshold, expiry |-> now + Expiry]]
    /\ UNCHANGED <<keyVars, ownerVars, lastQuorumChange, grace, pauseVars,
                   feeConfig>>

\* The expired branch stores Expired and panics: the store is rolled back.
ApproveProposal(approver, id) ==
    /\ proposals[id].status = "Pending"
    /\ ~Expired(id)
    /\ approver \in proposals[id].snapshot
    /\ SignedByOwner(approver)
    /\ approver \notin proposals[id].approvals
    /\ proposals' = [proposals EXCEPT ![id].approvals = @ \cup {approver}]
    /\ UNCHANGED <<keyVars, ownerVars, nextId, lastQuorumChange, grace,
                   pauseVars, feeConfig>>

\* Any owner, any status, any time.
RejectProposal(rejecter, id) ==
    /\ SignedByOwner(rejecter)
    /\ proposals[id].status # "Absent"
    /\ proposals' = [proposals EXCEPT ![id].status = "Rejected"]
    /\ UNCHANGED <<keyVars, ownerVars, nextId, lastQuorumChange, grace,
                   pauseVars, feeConfig>>

\* Mutant: votes are counted against the threshold of today.
ApprovedToday(id) == Cardinality(proposals[id].approvals) >= threshold

Approved(id) ==
    Cardinality(proposals[id].approvals \cap proposals[id].snapshot)
        >= proposals[id].need

\* Mutant: the status is not checked.
MarkAgain(id) ==
    /\ proposals[id].status # "Absent"
    /\ ~Expired(id)
    /\ Approved(id)
    /\ proposals' = [proposals EXCEPT ![id].status = "Executed"]
    /\ UNCHANGED lastQuorumChange

\* mark_executed.
MarkExecuted(id) ==
    /\ proposals[id].status = "Pending"
    /\ ~Expired(id)
    /\ Approved(id)
    /\ proposals' = [proposals EXCEPT ![id].status = "Executed"]
    /\ lastQuorumChange' = IF proposals[id].action.kind = "ChangeThreshold"
                           THEN now ELSE lastQuorumChange

\* add_owner needs the new owner's signature too.
AddOwner(who) ==
    /\ who # ZeroAccount
    /\ ~IsOwner(who)
    /\ owners' = Append(owners, who)
    /\ UNCHANGED threshold

\* Mutant: the threshold may exceed the owners that remain.
RemoveOwnerUnchecked(who) ==
    /\ IsOwner(who)
    /\ Len(owners) > 1
    /\ owners' \in Compacted(owners, {i \in DOMAIN owners : owners[i] # who})
    /\ UNCHANGED threshold

RemoveOwner(who) ==
    /\ IsOwner(who)
    /\ Len(owners) > 1
    /\ \E next \in Compacted(owners, {i \in DOMAIN owners : owners[i] # who}) :
          /\ next # <<>>
          /\ Len(next) >= threshold
          /\ owners' = next
    /\ UNCHANGED threshold

RotateThreshold(t) ==
    /\ t > 0
    /\ t <= Len(owners)
    /\ threshold' = t
    /\ UNCHANGED owners

\* dispatch_multisig_action, by the variables the action kind touches.
DispatchPause(action) ==
    /\ \/ /\ action.kind \in {"Pause", "EmergencyPause"}
          /\ ApplyAndSetPaused(TRUE)
       \/ /\ action.kind = "Unpause"
          /\ ApplyAndSetPaused(FALSE)
    /\ UNCHANGED <<keyVars, ownerVars, feeConfig>>

DispatchOwners(action) ==
    /\ \/ action.kind = "AddOwner" /\ AddOwner(action.who)
       \/ action.kind = "RemoveOwner" /\ RemoveOwner(action.who)
       \/ action.kind = "ChangeThreshold" /\ RotateThreshold(action.n)
    /\ UNCHANGED <<keyVars, pauseVars, feeConfig>>

\* Mutant: an emergency rotation changes the Admin key alone.
RotateKeyOnly(action) ==
    /\ action.kind = "EmergencyRotateAdmin"
    /\ admin' = action.who
    /\ UNCHANGED <<roleVars, rotationVars, now, ownerVars, pauseVars, feeConfig>>

DispatchKeys(action) ==
    /\ \/ /\ action.kind = "GrantRole"
          /\ DoGrantRole(action.who, action.mask)
          /\ UNCHANGED <<admin, rotationVars>>
       \/ /\ action.kind = "RevokeRole"
          /\ DoRevokeRole(action.who, action.mask)
          /\ UNCHANGED <<admin, rotationVars>>
       \/ /\ action.kind = "EmergencyRotateAdmin"
          /\ DoEmergencyRotate(action.who)
    /\ UNCHANGED <<now, ownerVars, pauseVars, feeConfig>>

DispatchFees(action) ==
    /\ action.kind = "UpdateFeeConfig"
    /\ feeConfig' = action.n
    /\ UNCHANGED <<keyVars, ownerVars, pauseVars>>

\* The status change and the effect are one transaction: an effect that
\* panics leaves the proposal pending.
ExecuteProposal(executor, id) ==
    /\ SignedByOwner(executor)
    /\ MarkExecuted(id)
    /\ LET action == proposals[id].action
       IN  \/ DispatchPause(action)
           \/ DispatchOwners(action)
           \/ DispatchKeys(action)
           \/ DispatchFees(action)
    /\ UNCHANGED <<nextId, grace>>

\* Only the first `limit` ids are looked at.  An overflow of expiry + grace
\* at any of them fails the whole call.
CleanupExpiredProposals(limit) ==
    LET scanned == {id \in Ids : /\ id < limit
                                 /\ id < nextId
                                 /\ proposals[id].status # "Absent"}
    IN  /\ \A id \in scanned : proposals[id].expiry + grace <= U32Max
        /\ proposals' = [id \in Ids |->
                           IF id \in scanned /\ now > proposals[id].expiry + grace
                           THEN NoProposal ELSE proposals[id]]
        /\ UNCHANGED <<keyVars, ownerVars, nextId, lastQuorumChange, grace,
                       pauseVars, feeConfig>>

SetProposalExpiryGrace(caller, g) ==
    /\ SignedByAdmin(caller)
    /\ grace' = g
    /\ UNCHANGED <<keyVars, ownerVars, nextId, proposals, lastQuorumChange,
                   pauseVars, feeConfig>>

PauseCall ==
    \E caller \in Addresses :
        \/ Pause(caller)
        \/ Unpause(caller)
        \/ \E at \in PauseTimes : SchedulePause(caller, at)
        \/ CancelScheduledPause(caller)
        \/ \E s1, s2 \in Addresses : EmergencyPause(caller, s1, s2)

MultisigCall ==
    \/ \E list \in OwnerLists, t \in Thresholds : InitializeMultisig(list, t)
    \/ \E owner \in Addresses, action \in Actions : CreateProposal(owner, action)
    \/ \E owner \in Addresses, id \in Ids :
          \/ ApproveProposal(owner, id)
          \/ RejectProposal(owner, id)
          \/ ExecuteProposal(owner, id)
    \/ \E limit \in Limits : CleanupExpiredProposals(limit)
    \/ \E caller \in Addresses, g \in Graces : SetProposalExpiryGrace(caller, g)

KeyCall == (RoleCall \/ RotationCall \/ Tick) /\ UNCHANGED govVars

GovNext == PauseCall \/ MultisigCall \/ KeyCall

GovSpec == GovInit /\ [][GovNext]_vars

-----------------------------------------------------------------------------
(* Properties *)

\* Every stored value has its type.
GovernanceTypeOK ==
    /\ owners \in Seq(Addresses)
    /\ threshold \in Nat
    /\ nextId \in 0 .. MaxProposals
    /\ proposals \in [Ids -> Proposal]
    /\ lastQuorumChange \in Nat
    /\ grace \in Nat
    /\ paused \in BOOLEAN
    /\ pendingPause \in Nat \cup {None}
    /\ feeConfig \in Nat \cup {None}

\* No action is performed before the threshold of its proposal's creation is
\* met by distinct owners of that time: an owner added later never counts,
\* and lowering the threshold later does not help.
ExecutedHadQuorum ==
    \A id \in Ids : proposals[id].status = "Executed" =>
        /\ proposals[id].approvals \subseteq proposals[id].snapshot
        /\ Cardinality(proposals[id].approvals) >= proposals[id].need
        /\ proposals[id].need > 0

\* Governance cannot lock itself out: however proposals that were approved
\* under another owner set interleave, enough distinct owners remain to reach
\* the threshold.
QuorumReachable ==
    owners # <<>> =>
        /\ threshold > 0
        /\ Cardinality({a \in Addresses : IsOwner(a)}) >= threshold

\* No re-execution: a proposal that was executed or rejected never becomes
\* pending or executed (again), and its snapshot never changes while stored.
DecidedStaysDecided ==
    [][\A id \in Ids :
          /\ proposals[id].status \in {"Executed", "Rejected"} =>
                proposals'[id].status
                    \in {proposals[id].status, "Rejected", "Absent"}
          /\ proposals[id].status # "Absent" /\ proposals'[id].status # "Absent"
                => /\ proposals'[id].snapshot = proposals[id].snapshot
                   /\ proposals'[id].need = proposals[id].need
                   /\ proposals'[id].action = proposals[id].action
          /\ id < nextId /\ proposals[id].status = "Absent" =>
                proposals'[id].status = "Absent"]_vars

\* A pause in force, even one that is only due, is lifted only by an unpause:
\* a call of an admin or an executed Unpause proposal.
PauseLiftedByUnpause ==
    [][EffectivelyPaused /\ ~EffectivelyPaused' =>
          \/ \E caller \in Addresses : Unpause(caller)
          \/ \E id \in Ids : /\ proposals[id].action # None
                             /\ proposals[id].action.kind = "Unpause"
                             /\ proposals[id].status = "Pending"
                             /\ proposals'[id].status = "Executed"]_vars

\* What governance does to the keys is what AdminKeys allows: its theorems
\* hold of the composed system.
ImplementsAdminKeys == Init /\ [][Next]_keyVars

=============================================================================
