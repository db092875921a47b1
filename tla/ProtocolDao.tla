----------------------------- MODULE ProtocolDao -----------------------------
(***************************************************************************)
(* The protocol DAO (contracts/protocol-dao): token holders propose, vote, *)
(* and anyone executes what has quorum and majority.  Nothing but the      *)
(* admin's calls needs an initialized contract: before initialize no token *)
(* is required and the defaults apply.                                     *)
(***************************************************************************)
EXTENDS ProtocolWorld

CONSTANTS
    DaoConfigs,      \* [min, duration] a caller may pass; 0 means default
    DefaultMinVotes, \* DEFAULT_MIN_VOTES
    DefaultDuration, \* DEFAULT_PROPOSAL_DURATION
    MaxMinVotes,     \* MAX_MIN_VOTES
    DaoFees,         \* base fees a proposal may name
    HolderSets,      \* sets of accounts that come to hold governance tokens
    MaxDaoProposals  \* bound on NextProposalId

ASSUME DaoAssumption ==
    /\ DefaultMinVotes \in Nat \ {0} /\ DefaultDuration \in Nat
    /\ MaxDaoProposals \in Nat

VARIABLES
    daoAdmin,      \* Admin
    daoPending,    \* PendingAdmin
    daoTokenSet,   \* whether GovernanceToken is set
    daoHolders,    \* external: the accounts with a positive token balance
    daoConfig,     \* MinVotes and ProposalDuration
    daoProposals,  \* Proposal(id), at position id + 1
    daoTally,      \* VotesFor(id) and VotesAgainst(id)
    daoVoted,      \* HasVoted(id, voter)
    daoFeeConfig,  \* AttestationFeeConfig, or Absent
    daoPaused      \* AttestationPaused

daoEffects == <<daoFeeConfig, daoPaused>>
daoVars == <<daoAdmin, daoPending, daoTokenSet, daoHolders, daoConfig,
             daoProposals, daoTally, daoVoted, daoEffects>>

DaoIds == 1 .. MaxDaoProposals

DaoInit ==
    /\ daoAdmin = Nobody
    /\ daoPending = Nobody
    /\ daoTokenSet = FALSE
    /\ daoHolders = {}
    /\ daoConfig = [min |-> DefaultMinVotes, duration |-> DefaultDuration]
    /\ daoProposals = <<>>
    /\ daoTally = [id \in DaoIds |-> [yes |-> 0, no |-> 0]]
    /\ daoVoted = [id \in DaoIds |-> {}]
    /\ daoFeeConfig = Absent
    /\ daoPaused = FALSE

\* validate_min_votes; every u32 is a valid duration.
ValidConfig(config) == config.min <= MaxMinVotes

NormalizeConfig(config) ==
    [min |-> IF config.min = 0 THEN DefaultMinVotes ELSE config.min,
     duration |-> IF config.duration = 0 THEN DefaultDuration
                  ELSE config.duration]

\* require_token_holder
MayTakePart(who) == daoTokenSet => who \in daoHolders

\* is_expired: with the duration configured now, not the one at creation.
DaoExpired(id) == clock > daoProposals[id].created + daoConfig.duration

QuorumMet(id) == daoTally[id].yes + daoTally[id].no >= daoConfig.min

\* Mutant: a tie is a majority.
TieWins(id) == daoTally[id].yes >= daoTally[id].no

HasMajority(id) == daoTally[id].yes > daoTally[id].no

DaoOpen(id) ==
    /\ id \in DOMAIN daoProposals
    /\ daoProposals[id].status = "pending"
    /\ ~DaoExpired(id)

DaoInitialize(caller, withToken, config) ==
    /\ daoAdmin = Nobody
    /\ ValidConfig(config)
    /\ daoAdmin' = caller
    /\ daoTokenSet' = (daoTokenSet \/ withToken)
    /\ daoConfig' = NormalizeConfig(config)
    /\ UNCHANGED <<protocolWorld, daoPending, daoHolders, daoProposals,
                   daoTally, daoVoted, daoEffects>>

TransferAdmin(caller, new) ==
    /\ caller = daoAdmin
    /\ new # daoAdmin
    /\ daoPending' = new
    /\ UNCHANGED <<protocolWorld, daoAdmin, daoTokenSet, daoHolders, daoConfig,
                   daoProposals, daoTally, daoVoted, daoEffects>>

AcceptAdmin(caller) ==
    /\ caller = daoPending
    /\ daoAdmin' = caller
    /\ daoPending' = Nobody
    /\ UNCHANGED <<protocolWorld, daoTokenSet, daoHolders, daoConfig,
                   daoProposals, daoTally, daoVoted, daoEffects>>

SetGovernanceToken(caller) ==
    /\ caller = daoAdmin
    /\ daoTokenSet' = TRUE
    /\ UNCHANGED <<protocolWorld, daoAdmin, daoPending, daoHolders, daoConfig,
                   daoProposals, daoTally, daoVoted, daoEffects>>

SetVotingConfig(caller, config) ==
    /\ caller = daoAdmin
    /\ ValidConfig(config)
    /\ daoConfig' = NormalizeConfig(config)
    /\ UNCHANGED <<protocolWorld, daoAdmin, daoPending, daoTokenSet, daoHolders,
                   daoProposals, daoTally, daoVoted, daoEffects>>

\* What a create_*_proposal call may store, checked and normalized.
DaoActions ==
    [kind : {"feeConfig"}, fee : {f \in DaoFees : f >= 0}, enabled : BOOLEAN]
    \cup [kind : {"feeToggle"}, enabled : BOOLEAN]
    \cup [kind : {"govConfig"},
          config : {NormalizeConfig(c) :
                       c \in {d \in DaoConfigs : ValidConfig(d)}}]
    \cup [kind : {"pause", "unpause"}]

DaoCreate(creator, action) ==
    /\ Len(daoProposals) < MaxDaoProposals
    /\ MayTakePart(creator)
    /\ daoProposals' = Append(daoProposals,
                              [creator |-> creator, action |-> action,
                               status |-> "pending", created |-> clock])
    /\ UNCHANGED <<protocolWorld, daoAdmin, daoPending, daoTokenSet, daoHolders,
                   daoConfig, daoTally, daoVoted, daoEffects>>

NotVotedYet(id, voter) == voter \notin daoVoted[id]

\* vote_for and vote_against
DaoVote(voter, id, side) ==
    /\ MayTakePart(voter)
    /\ DaoOpen(id)
    /\ NotVotedYet(id, voter)
    /\ daoTally' = [daoTally EXCEPT ![id][side] = @ + 1]
    /\ daoVoted' = [daoVoted EXCEPT ![id] = @ \cup {voter}]
    /\ UNCHANGED <<protocolWorld, daoAdmin, daoPending, daoTokenSet, daoHolders,
                   daoConfig, daoProposals, daoEffects>>

\* apply_action: a toggle without a fee configuration panics, so the proposal
\* stays pending.
ApplyAction(action) ==
    /\ action.kind = "feeToggle" => daoFeeConfig # Absent
    /\ daoFeeConfig' =
          CASE action.kind = "feeConfig" ->
                  [fee |-> action.fee, enabled |-> action.enabled]
            [] action.kind = "feeToggle" ->
                  [daoFeeConfig EXCEPT !.enabled = action.enabled]
            [] OTHER -> daoFeeConfig
    /\ daoConfig' = IF action.kind = "govConfig" THEN action.config
                    ELSE daoConfig
    /\ daoPaused' = CASE action.kind = "pause" -> TRUE
                      [] action.kind = "unpause" -> FALSE
                      [] OTHER -> daoPaused

DaoExecute(id) ==
    /\ DaoOpen(id)
    /\ QuorumMet(id)
    /\ HasMajority(id)
    /\ ApplyAction(daoProposals[id].action)
    /\ daoProposals' = [daoProposals EXCEPT ![id].status = "executed"]
    /\ UNCHANGED <<protocolWorld, daoAdmin, daoPending, daoTokenSet, daoHolders,
                   daoTally, daoVoted>>

\* Mutant: an executed proposal can be cancelled.
CancelExecuted(caller, id) ==
    /\ id \in DOMAIN daoProposals
    /\ caller \in {daoProposals[id].creator, daoAdmin}
    /\ daoProposals' = [daoProposals EXCEPT ![id].status = "rejected"]
    /\ UNCHANGED <<protocolWorld, daoAdmin, daoPending, daoTokenSet, daoHolders,
                   daoConfig, daoTally, daoVoted, daoEffects>>

\* cancel_proposal does not look at the expiry.
DaoCancel(caller, id) ==
    /\ id \in DOMAIN daoProposals
    /\ daoProposals[id].status = "pending"
    /\ caller \in {daoProposals[id].creator, daoAdmin}
    /\ daoProposals' = [daoProposals EXCEPT ![id].status = "rejected"]
    /\ UNCHANGED <<protocolWorld, daoAdmin, daoPending, daoTokenSet, daoHolders,
                   daoConfig, daoTally, daoVoted, daoEffects>>

\* External: governance tokens change hands.
HoldersChange(holders) ==
    /\ daoTokenSet
    /\ daoHolders' = holders
    /\ UNCHANGED <<protocolWorld, daoAdmin, daoPending, daoTokenSet, daoConfig,
                   daoProposals, daoTally, daoVoted, daoEffects>>

DaoNext ==
    /\ site = "dao"
    /\ \/ \E caller \in Accounts :
             \/ \E withToken \in BOOLEAN, config \in DaoConfigs :
                   DaoInitialize(caller, withToken, config)
             \/ \E new \in Accounts : TransferAdmin(caller, new)
             \/ AcceptAdmin(caller)
             \/ SetGovernanceToken(caller)
             \/ \E config \in DaoConfigs : SetVotingConfig(caller, config)
             \/ \E action \in DaoActions : DaoCreate(caller, action)
             \/ \E id \in DaoIds, side \in {"yes", "no"} :
                   DaoVote(caller, id, side)
             \/ \E id \in DaoIds : DaoCancel(caller, id)
       \/ \E id \in DaoIds : DaoExecute(id)
       \/ \E holders \in HolderSets : HoldersChange(holders)
       \/ ClockTick /\ UNCHANGED daoVars

-----------------------------------------------------------------------------
(* Properties *)

\* Nothing outside a vote decides what the DAO governs: the fee configuration
\* and the pause change only in a step that executes a proposal for which more
\* distinct accounts voted than against and whose voters reach the quorum now
\* in force; and a decided proposal stays decided, with its tally.
DaoDecisionsAreVoted ==
    [][\A id \in DOMAIN daoProposals :
          /\ daoEffects' # daoEffects =>
                \E e \in DOMAIN daoProposals :
                   /\ daoProposals[e].status = "pending"
                   /\ daoProposals'[e].status = "executed"
          /\ daoProposals'[id].status = "executed"
                /\ daoProposals[id].status # "executed" =>
                LET voters == Cardinality(daoVoted[id])
                IN  2 * daoTally[id].yes > voters /\ voters >= daoConfig.min
          /\ daoProposals[id].status # "pending" =>
                /\ daoProposals'[id] = daoProposals[id]
                /\ daoTally'[id] = daoTally[id]]_daoVars

=============================================================================
