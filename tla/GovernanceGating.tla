--------------------------- MODULE GovernanceGating ---------------------------
(***************************************************************************)
(* The shared governance gating helpers                                    *)
(* (contracts/common/src/governance_gating.rs), with a contract that       *)
(* offers each of them as a call: token thresholds, delegation, role       *)
(* escalation and the emergency pause.                                     *)
(***************************************************************************)
EXTENDS ProtocolWorld

CONSTANTS
    Thresholds,   \* thresholds a caller may pass (i128)
    Voters,       \* accounts that may hold governance tokens
    GovSupply,    \* governance tokens in all
    Issuer        \* the account that holds them at first

ASSUME GatingAssumption ==
    /\ IsFiniteSet(Voters)
    /\ Accounts \subseteq Voters
    /\ Nobody \notin Voters
    /\ GovSupply \in Nat

VARIABLES
    gate,            \* the configuration keys, or Absent before initialize
    govBalance,      \* external: account -> governance tokens
    delegation,      \* Delegation(a), or Nobody
    delegatedAmount, \* DelegationAmount(a), zero if none
    delegatedPower   \* DelegatedPower(a)

gatingVars == <<gate, govBalance, delegation, delegatedAmount, delegatedPower>>

GatingInit ==
    /\ gate = Absent
    /\ govBalance = [a \in Voters |-> IF a = Issuer THEN GovSupply ELSE 0]
    /\ delegation = [a \in Voters |-> Nobody]
    /\ delegatedAmount = [a \in Voters |-> 0]
    /\ delegatedPower = [a \in Voters |-> 0]

InitializeGovernance(threshold, enabled) ==
    /\ gate = Absent
    /\ threshold >= 0
    /\ gate' = [threshold |-> threshold, enabled |-> enabled,
                escalation |-> threshold, useDelegated |-> FALSE,
                paused |-> FALSE, override |-> Nobody]
    /\ UNCHANGED <<protocolWorld, govBalance, delegation, delegatedAmount,
                   delegatedPower>>

VotingPower(a) ==
    (IF delegation[a] = Nobody THEN govBalance[a] ELSE 0) + delegatedPower[a]

EscalationPower(a) ==
    IF gate.useDelegated THEN VotingPower(a) ELSE govBalance[a]

\* The emergency pause blocks everyone but the override admin.
NotBlocked(a) == gate.paused => a = gate.override

\* require_role_escalation_threshold
MayEscalate(a) ==
    /\ gate # Absent
    /\ gate.enabled
    /\ NotBlocked(a)
    /\ EscalationPower(a) >= gate.escalation

\* A higher governance threshold takes the escalation threshold with it.
RaiseEscalation(escalation, threshold) ==
    IF escalation < threshold THEN threshold ELSE escalation

SetGovernanceThreshold(threshold) ==
    /\ gate # Absent
    /\ threshold >= 0
    /\ gate' = [gate EXCEPT !.threshold = threshold,
                            !.escalation = RaiseEscalation(@, threshold)]
    /\ UNCHANGED <<protocolWorld, govBalance, delegation, delegatedAmount,
                   delegatedPower>>

SetRoleEscalationThreshold(threshold) ==
    /\ gate # Absent
    /\ threshold >= gate.threshold
    /\ gate' = [gate EXCEPT !.escalation = threshold]
    /\ UNCHANGED <<protocolWorld, govBalance, delegation, delegatedAmount,
                   delegatedPower>>

\* set_governance_enabled and set_role_escalation_use_delegated_power
SetGateFlag(flag, value) ==
    /\ gate # Absent
    /\ gate' = [gate EXCEPT ![flag] = value]
    /\ UNCHANGED <<protocolWorld, govBalance, delegation, delegatedAmount,
                   delegatedPower>>

\* Only the pause needs the escalation threshold; anyone may lift it.
SetEmergencyPause(caller, paused) ==
    /\ gate # Absent
    /\ paused => MayEscalate(caller)
    /\ gate' = [gate EXCEPT !.paused = paused]
    /\ UNCHANGED <<protocolWorld, govBalance, delegation, delegatedAmount,
                   delegatedPower>>

SetEmergencyOverrideAdmin(caller, override) ==
    /\ MayEscalate(caller)
    /\ gate' = [gate EXCEPT !.override = override]
    /\ UNCHANGED <<protocolWorld, govBalance, delegation, delegatedAmount,
                   delegatedPower>>

\* Mutant: what is taken back is the balance of now, not what was delegated.
ReturnedByBalance(a) == govBalance[a]

\* What a delegate loses when a's delegation ends: the recorded amount.
Returned(a) == delegatedAmount[a]

\* The delegated powers with a's delegation, if it has one, taken back.  The
\* code panics when a delegate would get a negative power.
PowerWithout(a) ==
    IF delegation[a] = Nobody THEN delegatedPower
    ELSE [delegatedPower EXCEPT ![delegation[a]] = @ - Returned(a)]

DelegateVotingPower(a, to) ==
    /\ gate # Absent
    /\ a # to
    /\ delegation' = [delegation EXCEPT ![a] = to]
    /\ delegatedAmount' = [delegatedAmount EXCEPT ![a] = govBalance[a]]
    /\ delegatedPower' = [PowerWithout(a) EXCEPT ![to] = @ + govBalance[a]]
    /\ UNCHANGED <<protocolWorld, gate, govBalance>>

RevokeDelegation(a) ==
    /\ delegation[a] # Nobody
    /\ delegatedPower' = PowerWithout(a)
    /\ delegation' = [delegation EXCEPT ![a] = Nobody]
    /\ delegatedAmount' = [delegatedAmount EXCEPT ![a] = 0]
    /\ UNCHANGED <<protocolWorld, gate, govBalance>>

\* External: a governance token changes hands.
GovTokenMoves(from, to) ==
    /\ from # to
    /\ govBalance[from] > 0
    /\ govBalance' = [govBalance EXCEPT ![from] = @ - 1, ![to] = @ + 1]
    /\ UNCHANGED <<protocolWorld, gate, delegation, delegatedAmount,
                   delegatedPower>>

GateCalls ==
    \/ \E threshold \in Thresholds :
          SetGovernanceThreshold(threshold) \/ SetRoleEscalationThreshold(threshold)
    \/ \E flag \in {"enabled", "useDelegated"}, value \in BOOLEAN :
          SetGateFlag(flag, value)
    \/ \E caller \in Accounts :
          \/ \E value \in BOOLEAN : SetEmergencyPause(caller, value)
          \/ \E override \in Accounts \cup {Nobody} :
                SetEmergencyOverrideAdmin(caller, override)

DelegationCalls(voters) ==
    \E caller \in voters :
        \/ \E to \in voters :
              DelegateVotingPower(caller, to) \/ GovTokenMoves(caller, to)
        \/ RevokeDelegation(caller)

\* At site "gating" the gate is under study, at site "delegation" the
\* delegations of more voters.
GatingNext ==
    \/ /\ site \in {"gating", "delegation"}
       /\ \E threshold \in Thresholds, enabled \in BOOLEAN :
             InitializeGovernance(threshold, enabled)
    \/ site = "gating" /\ (GateCalls \/ DelegationCalls(Accounts))
    \/ site = "delegation" /\ DelegationCalls(Voters)

-----------------------------------------------------------------------------
(* Properties *)

\* A delegate holds exactly what its delegators handed over, although tokens
\* move and delegations change after the snapshot: no revocation underflows,
\* and no power outlives the delegation it came from.
DelegationsBalance ==
    \A a \in Voters :
        delegatedPower[a] =
            SumFunctionOnSet(delegatedAmount,
                             {x \in Voters : delegation[x] = a})

=============================================================================
