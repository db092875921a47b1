----------------------------- MODULE SlashBinding -----------------------------
(***************************************************************************)
(* How the attestation contract reaches the staking contract: the          *)
(* timelocked binding (propose, commit and cancel_staking_contract) and    *)
(* the calls of slash, from resolve_dispute and from trigger_slash, each   *)
(* made inside the caller's transaction.  Of a staking contract only the   *)
(* stakes and the dispute ids it has processed are kept; AttestorStaking   *)
(* models it whole.  The slash a second submission triggers is rolled back *)
(* by the panic that follows it, so no step of it is left.                 *)
(***************************************************************************)
EXTENDS ProtocolWorld

CONSTANTS
    StakingContracts,
    Slashable,        \* attestors and businesses a dispute may name
    FullStake,        \* what an attestor stakes
    SlashAmount,      \* the 1000 units of an upheld dispute
    BindTimelock,     \* FEE_TIMELOCK_SECONDS
    SlashIds,         \* ids trigger_slash may name
    MaxSlashDisputes  \* bound on the disputes opened

PendingBinds == [new : StakingContracts, effectiveAt : Nat, proposedAt : Nat]

ASSUME SlashAssumption ==
    /\ FullStake \in Nat /\ SlashAmount \in Nat /\ BindTimelock \in Nat
    /\ MaxSlashDisputes \in Nat /\ 1 .. MaxSlashDisputes \subseteq SlashIds
    /\ Nobody \notin StakingContracts
    /\ Absent \notin Nat \cup PendingBinds

VARIABLES
    bound,        \* AttestorStakingContract, or Nobody
    pendingBind,  \* PendingStakingContract, or Absent
    quarrels,     \* the disputes: attestor, status and outcome
    auditTrail,   \* AuditLogContract: "open" when there is none or the contract
                  \* administers it, "foreign" when somebody else does
    stakes,       \* external: Stake(attestor) of every staking contract
    processed,    \* external: Slashed(id) of every staking contract
    boundSince    \* ghost: when the binding in force was proposed

slashVars == <<bound, pendingBind, quarrels, auditTrail, stakes, processed, boundSince>>

SlashInit ==
    /\ bound = Nobody
    /\ pendingBind = Absent
    /\ quarrels = <<>>
    /\ auditTrail = "open"
    /\ stakes = [s \in StakingContracts |-> [a \in Slashable |-> Absent]]
    /\ processed = [s \in StakingContracts |-> {}]
    /\ boundSince = 0

-----------------------------------------------------------------------------
(* The binding.  set_attestor_staking_contract always panics. *)

ProposeStakingContract(s) ==
    /\ pendingBind = Absent
    /\ pendingBind' = [new |-> s, effectiveAt |-> clock + BindTimelock,
                       proposedAt |-> clock]
    /\ UNCHANGED <<protocolWorld, bound, quarrels, auditTrail, stakes, processed,
                   boundSince>>

\* Mutant: the timelock is not looked at.
CommitAtOnce ==
    /\ pendingBind # Absent
    /\ bound' = pendingBind.new
    /\ boundSince' = pendingBind.proposedAt
    /\ pendingBind' = Absent
    /\ UNCHANGED <<protocolWorld, quarrels, auditTrail, stakes, processed>>

CommitStakingContract ==
    /\ pendingBind # Absent
    /\ clock >= pendingBind.effectiveAt
    /\ bound' = pendingBind.new
    /\ boundSince' = pendingBind.proposedAt
    /\ pendingBind' = Absent
    /\ UNCHANGED <<protocolWorld, quarrels, auditTrail, stakes, processed>>

CancelPendingStakingContract ==
    /\ pendingBind # Absent
    /\ pendingBind' = Absent
    /\ UNCHANGED <<protocolWorld, bound, quarrels, auditTrail, stakes, processed,
                   boundSince>>

SetAuditLogContract(kind) ==
    /\ auditTrail' = kind
    /\ UNCHANGED <<protocolWorld, bound, pendingBind, quarrels, stakes, processed,
                   boundSince>>

-----------------------------------------------------------------------------
(* Slashing *)

\* External: an attestor stakes with a staking contract.
Stakes(s, a) ==
    /\ stakes[s][a] = Absent
    /\ stakes' = [stakes EXCEPT ![s][a] = FullStake]
    /\ UNCHANGED <<protocolWorld, bound, pendingBind, quarrels, auditTrail, processed,
                   boundSince>>

\* slash of the staking contract panics on a processed id and without a stake.
SlashAccepted(s, a, id) == id \notin processed[s] /\ stakes[s][a] # Absent

\* Mutant: the staking contract forgets which disputes it has processed.
SlashUnmarked(s, a, amount, id) ==
    /\ SlashAccepted(s, a, id)
    /\ stakes' = [stakes EXCEPT ![s][a] = IF amount < @ THEN @ - amount ELSE 0]
    /\ UNCHANGED processed

\* slash: an empty stake is left as it is, and so is the id.
Slash(s, a, amount, id) ==
    /\ SlashAccepted(s, a, id)
    /\ IF stakes[s][a] = 0 THEN UNCHANGED <<stakes, processed>>
       ELSE /\ stakes' = [stakes EXCEPT ![s][a] = IF amount < @ THEN @ - amount ELSE 0]
            /\ processed' = [processed EXCEPT ![s] = @ \cup {id}]

\* try_trigger_slash: without a staking contract there is only an event.
TryTriggerSlash(a, id) ==
    IF bound = Nobody THEN UNCHANGED <<stakes, processed>>
    ELSE Slash(bound, a, SlashAmount, id)

\* open_dispute names the attestor on record, or the business.
OpenQuarrel(a) ==
    /\ Len(quarrels) < MaxSlashDisputes
    /\ quarrels' = Append(quarrels, [attestor |-> a, open |-> TRUE, upheld |-> FALSE])
    /\ UNCHANGED <<protocolWorld, bound, pendingBind, auditTrail, stakes, processed,
                   boundSince>>

\* resolve_dispute: a slash that fails takes the resolution with it.
ResolveQuarrel(id, upheld) ==
    /\ quarrels[id].open
    /\ quarrels' = [quarrels EXCEPT ![id].open = FALSE, ![id].upheld = upheld]
    /\ IF upheld THEN TryTriggerSlash(quarrels[id].attestor, id)
       ELSE UNCHANGED <<stakes, processed>>
    /\ UNCHANGED <<protocolWorld, bound, pendingBind, auditTrail, boundSince>>

\* submit_dispute_witness upholds the dispute and slashes nobody.
UpholdByWitness(id) ==
    /\ quarrels[id].open
    /\ quarrels' = [quarrels EXCEPT ![id].open = FALSE, ![id].upheld = TRUE]
    /\ UNCHANGED <<protocolWorld, bound, pendingBind, auditTrail, stakes, processed,
                   boundSince>>

\* trigger_slash by an admin, for any attestor and any id: the entry in the
\* audit log needs the contract to be the log's admin.
TriggerSlash(a, amount, id) ==
    /\ bound # Nobody
    /\ amount > 0
    /\ Slash(bound, a, amount, id)
    /\ auditTrail # "foreign"
    /\ UNCHANGED <<protocolWorld, bound, pendingBind, quarrels, auditTrail, boundSince>>

SlashNext ==
    /\ site = "slashing"
    /\ \/ \E s \in StakingContracts :
             ProposeStakingContract(s) \/ \E a \in Slashable : Stakes(s, a)
       \/ CommitStakingContract
       \/ CancelPendingStakingContract
       \/ \E kind \in {"open", "foreign"} : SetAuditLogContract(kind)
       \/ \E a \in Slashable :
             \/ OpenQuarrel(a)
             \/ \E amount \in {SlashAmount - 1, SlashAmount}, id \in SlashIds :
                   TriggerSlash(a, amount, id)
       \/ \E id \in DOMAIN quarrels :
             \/ \E upheld \in BOOLEAN : ResolveQuarrel(id, upheld)
             \/ UpholdByWitness(id)
       \/ ClockTick /\ UNCHANGED slashVars

-----------------------------------------------------------------------------
(* Properties *)

\* A step that slashes takes no more than one dispute is worth from one
\* attestor, in the contract bound at that moment, which was proposed at least
\* the timelock before, whatever was proposed and cancelled in between; it
\* spends an id that contract had not seen, so one dispute never cuts twice into
\* the stakes of one contract
\* (propose/commit_staking_contract, resolve_dispute, trigger_slash).
SlashesWereAnnounced ==
    [][(\E s \in StakingContracts, a \in Slashable :
              stakes[s][a] # Absent /\ stakes'[s][a] < stakes[s][a]) =>
          /\ clock >= boundSince + BindTimelock
          /\ \E id \in SlashIds, a \in Slashable :
                /\ id \notin processed[bound]
                /\ processed' = [processed EXCEPT ![bound] = @ \cup {id}]
                /\ stakes' = [stakes EXCEPT ![bound][a] = stakes'[bound][a]]
                /\ stakes[bound][a] - stakes'[bound][a] \in 1 .. SlashAmount]_slashVars

\* Claim (docs/attestation-disputes.md:140-143): resolve_dispute refuses only a
\* dispute that does not exist or is not open, and a caller without the role.
\* So an open dispute can be upheld: no slash stands in the way.
OpenMeansResolvable ==
    \A id \in DOMAIN quarrels :
        quarrels[id].open /\ bound # Nobody
            => SlashAccepted(bound, quarrels[id].attestor, id)

=============================================================================
