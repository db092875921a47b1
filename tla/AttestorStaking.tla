-------------------------- MODULE AttestorStaking --------------------------
(***************************************************************************)
(* The attestor staking contract (contracts/attestor-staking/src/lib.rs):  *)
(* stakes, the queue of pending unstakes, slashing and its configuration.  *)
(*                                                                         *)
(* Every action is one successful contract call.  A call that panics is    *)
(* rolled back by the host and changes nothing, so it is no step; the      *)
(* panics of the code are the guards here.  An address parameter whose     *)
(* require_auth the code demands is the address that signed the call.      *)
(***************************************************************************)
EXTENDS Vectors, Functions

CONSTANTS
    Addresses,      \* every address that can hold tokens or call
    Attestors,      \* the addresses that stake
    Contract,       \* the staking contract's own address
    Treasury,       \* receiver of slashed funds
    Nobody,         \* "no admin yet": the contract is not initialized
    Amounts,        \* amounts a caller may pass (i128, positive)
    MinStakes,      \* minimum stakes a caller may set
    Periods,        \* unbonding periods a caller may pass (u64 seconds)
    DisputeIds,     \* dispute ids a caller may pass to slash
    Funds,          \* tokens every attestor owns at the start
    MaxPending,     \* length limit of the unstake queue (10 in the code)
    MaxUnbonding,   \* MAX_UNBONDING_PERIOD
    U64Max,         \* saturation point of a u64 timestamp
    MaxNow          \* bound on the ledger clock

ASSUME StakingAssumption ==
    /\ Attestors \subseteq Addresses
    /\ IsFiniteSet(Attestors)
    /\ Contract \in Addresses \ Attestors
    /\ Treasury \in Addresses
    /\ Treasury # Contract
    /\ Nobody \notin Addresses
    /\ Amounts \subseteq Nat \ {0}
    /\ MinStakes \subseteq Nat \ {0}
    /\ Periods \subseteq Nat
    /\ Funds \in Nat
    /\ MaxPending \in Nat
    /\ MaxUnbonding \in Nat
    /\ U64Max \in Nat
    /\ MaxNow \in 0 .. U64Max

VARIABLES
    admin,           \* Admin, Nobody before initialize
    disputeContract, \* DisputeContract
    minStake,        \* MinStake
    unbonding,       \* UnbondingPeriod
    stakers,         \* the addresses with a Stake record
    stake,           \* Stake(a): [amount, locked], zero without a record
    pending,         \* PendingUnstake(a), oldest first; empty: no record
    slashed,         \* the ids with a Slashed(id) record
    balance,         \* the staking token's ledger
    now              \* ledger timestamp

config == <<admin, disputeContract, minStake, unbonding>>
vars == <<config, stakers, stake, pending, slashed, balance, now>>

Record == [amount : Nat, locked : Nat]
PendingUnstake == [amount : Nat, unlock : Nat]

Init ==
    /\ admin = Nobody
    /\ disputeContract = Nobody
    /\ minStake = 0
    /\ unbonding = 0
    /\ stakers = {}
    /\ stake = [a \in Attestors |-> [amount |-> 0, locked |-> 0]]
    /\ pending = [a \in Attestors |-> <<>>]
    /\ slashed = {}
    /\ balance = [x \in Addresses |-> IF x \in Attestors THEN Funds ELSE 0]
    /\ now = 0

-----------------------------------------------------------------------------
(* Helpers *)

MinOf(x, y) == IF x < y THEN x ELSE y
MaxOf(x, y) == IF x < y THEN y ELSE x

\* u64::saturating_add on timestamps.
SaturatingAdd(x, y) == MinOf(x + y, U64Max)

\* The queued amount of a set of positions of queue q.
QueuedAt(q, positions) ==
    SumFunctionOnSet([i \in positions |-> q[i].amount], positions)

TotalPending(q) == QueuedAt(q, DOMAIN q)

\* Mutant: a request unlocks one tick early.
UnlockedEarly(entry) == now + 1 >= entry.unlock

Unlocked(entry) == now >= entry.unlock

MaturedAmount(a) ==
    QueuedAt(pending[a], {i \in DOMAIN pending[a] : Unlocked(pending[a][i])})

\* The token's transfer, a call into the external token contract: it fails
\* when the sender cannot pay.
Transfer(from, to, amount) ==
    /\ from \in Addresses
    /\ to \in Addresses
    /\ balance[from] >= amount
    /\ balance' = [x \in Addresses |->
                     balance[x] + (IF x = to THEN amount ELSE 0)
                                - (IF x = from THEN amount ELSE 0)]

-----------------------------------------------------------------------------
(* Contract calls *)

Initialize(caller, min, dispute, period) ==
    /\ admin = Nobody
    /\ min > 0
    /\ period <= MaxUnbonding
    /\ dispute \notin {Contract, Treasury}
    /\ caller # Treasury
    /\ admin' = caller
    /\ disputeContract' = dispute
    /\ minStake' = min
    /\ unbonding' = period
    /\ UNCHANGED <<stakers, stake, pending, slashed, balance, now>>

\* Mutant: the stake is credited and the tokens are not collected.
StakeUnpaid(a, amount) ==
    /\ admin # Nobody
    /\ stakers' = stakers \cup {a}
    /\ stake' = [stake EXCEPT ![a].amount = @ + amount]
    /\ UNCHANGED <<config, pending, slashed, balance, now>>

Stake(a, amount) ==
    /\ admin # Nobody
    /\ amount > 0
    /\ stakers' = stakers \cup {a}
    /\ stake' = [stake EXCEPT ![a].amount = @ + amount]
    /\ Transfer(a, Contract, amount)
    /\ UNCHANGED <<config, pending, slashed, now>>

\* Mutant: the period in force now decides, whatever is queued ahead.
UnlockTimeUnordered(a) == SaturatingAdd(now, unbonding)

\* A new request never unlocks before the request queued ahead of it.
UnlockTime(a) ==
    LET due == SaturatingAdd(now, unbonding)
    IN  IF pending[a] = <<>>
        THEN due
        ELSE MaxOf(due, pending[a][Len(pending[a])].unlock)

RequestUnstake(a, amount) ==
    /\ amount > 0
    /\ Len(pending[a]) < MaxPending
    /\ a \in stakers
    /\ stake[a].amount - stake[a].locked >= amount
    /\ stake' = [stake EXCEPT ![a].locked = @ + amount]
    /\ pending' = [pending EXCEPT
                     ![a] = Append(@, [amount |-> amount,
                                       unlock |-> UnlockTime(a)])]
    /\ UNCHANGED <<config, stakers, slashed, balance, now>>

WithdrawUnstaked(a) ==
    /\ pending[a] # <<>>
    /\ a \in stakers
    /\ \E total \in 1 .. stake[a].locked :
          /\ total = MaturedAmount(a)
          /\ stake[a].amount >= total
          /\ stake' = [stake EXCEPT ![a] = [amount |-> @.amount - total,
                                            locked |-> @.locked - total]]
          /\ Transfer(Contract, a, total)
    /\ LET kept == {i \in DOMAIN pending[a] : ~Unlocked(pending[a][i])}
       IN  \E rest \in Compacted(pending[a], kept) :
              pending' = [pending EXCEPT ![a] = rest]
    /\ UNCHANGED <<config, stakers, slashed, now>>

\* Mutant: the queue is left as it was.
QueueKept(q, room) == {q}

\* Mutant: the oldest entries are emptied first.
CutOldestFirst(q, room) ==
    IF TotalPending(q) <= room
    THEN {q}
    ELSE {cut \in UNION {{[i \in DOMAIN q |->
                             [q[i] EXCEPT !.amount = IF i > k THEN @
                                                     ELSE IF i = k THEN left
                                                     ELSE 0]]
                          : left \in 0 .. q[k].amount} : k \in DOMAIN q} :
            TotalPending(cut) = room}

\* What slash makes of queue q when only `room` tokens stay locked: nothing
\* if the queue fits, otherwise the newest entries are emptied (but kept) and
\* one entry is cut so that the rest adds up to `room`.
CutQueues(q, room) ==
    IF TotalPending(q) <= room
    THEN {q}
    ELSE {cut \in UNION {{[i \in DOMAIN q |->
                             [q[i] EXCEPT !.amount = IF i < k THEN @
                                                     ELSE IF i = k THEN left
                                                     ELSE 0]]
                          : left \in 0 .. q[k].amount} : k \in DOMAIN q} :
            TotalPending(cut) = room}

\* A slash takes what it can get.
Taken(a, amount) == MinOf(amount, stake[a].amount)

\* Mutant: the locked part survives the slash.
LockedKept(a, left) == stake[a].locked

\* What stays locked when only `left` tokens of stake remain.
LockedAfter(a, left) == MinOf(stake[a].locked, left)

\* Mutant: the Slashed record is not consulted.
ReplayAllowed(id) == TRUE

FreshDispute(id) == id \notin slashed

\* slash: with nothing left to take the call returns NoSlash and records
\* nothing, so the dispute id stays unused.
Slash(caller, a, amount, id) ==
    /\ admin # Nobody
    /\ caller = disputeContract
    /\ amount > 0
    /\ FreshDispute(id)
    /\ a \in stakers
    /\ LET taken == Taken(a, amount)
           left == stake[a].amount - taken
           stillLocked == LockedAfter(a, left)
       IN  /\ taken # 0
           /\ stake' = [stake EXCEPT ![a] = [amount |-> left,
                                             locked |-> stillLocked]]
           /\ \E cut \in CutQueues(pending[a], stillLocked) :
                 pending' = [pending EXCEPT ![a] = cut]
           /\ Transfer(Contract, Treasury, taken)
    /\ slashed' = slashed \cup {id}
    /\ UNCHANGED <<config, stakers, now>>

SetMinStake(caller, min) ==
    /\ caller = admin
    /\ min > 0
    /\ minStake' = min
    /\ UNCHANGED <<admin, disputeContract, unbonding, stakers, stake, pending,
                   slashed, balance, now>>

SetDisputeContract(caller, dispute) ==
    /\ caller = admin
    /\ disputeContract' = dispute
    /\ UNCHANGED <<admin, minStake, unbonding, stakers, stake, pending,
                   slashed, balance, now>>

SetUnbondingPeriod(caller, period) ==
    /\ caller = admin
    /\ unbonding' = period
    /\ UNCHANGED <<admin, disputeContract, minStake, stakers, stake, pending,
                   slashed, balance, now>>

\* A ledger closes: time passes between calls.
Tick ==
    /\ now < MaxNow
    /\ now' = now + 1
    /\ UNCHANGED <<config, stakers, stake, pending, slashed, balance>>

AdminCall ==
    \E caller \in Addresses :
        \/ \E min \in MinStakes : SetMinStake(caller, min)
        \/ \E dispute \in Addresses : SetDisputeContract(caller, dispute)
        \/ \E period \in Periods : SetUnbondingPeriod(caller, period)

Next ==
    \/ \E caller, dispute \in Addresses, min \in MinStakes, period \in Periods :
          Initialize(caller, min, dispute, period)
    \/ \E a \in Attestors, amount \in Amounts :
          Stake(a, amount) \/ RequestUnstake(a, amount)
    \/ \E a \in Attestors : WithdrawUnstaked(a)
    \/ \E caller \in Addresses, a \in Attestors, amount \in Amounts,
          id \in DisputeIds : Slash(caller, a, amount, id)
    \/ AdminCall
    \/ Tick

Spec == Init /\ [][Next]_vars

-----------------------------------------------------------------------------
(* Properties *)

\* Every stored field has its type, and a Stake record is the only way to own
\* stake or queued unstakes.
TypeOK ==
    /\ admin \in Addresses \cup {Nobody}
    /\ disputeContract \in Addresses \cup {Nobody}
    /\ minStake \in Nat
    /\ unbonding \in Nat
    /\ stakers \subseteq Attestors
    /\ stake \in [Attestors -> Record]
    /\ pending \in [Attestors -> Seq(PendingUnstake)]
    /\ slashed \subseteq DisputeIds
    /\ balance \in [Addresses -> Nat]
    /\ now \in 0 .. MaxNow

\* stake.locked never exceeds stake.amount (docs/attestor-staking.md, state
\* invariants), whatever mix of requests, withdrawals and slashes happened.
LockedWithinStake ==
    \A a \in Attestors : stake[a].locked <= stake[a].amount

\* A request never unlocks before one queued earlier, even when the admin
\* shortens the unbonding period in between (lib.rs header, point 2).
QueueInUnlockOrder ==
    \A a \in Attestors : \A i, j \in DOMAIN pending[a] :
        i < j => pending[a][i].unlock <= pending[a][j].unlock

\* The queue never outgrows the limit request_unstake enforces.
QueueWithinLimit ==
    \A a \in Attestors : Len(pending[a]) <= MaxPending

\* The queue accounts for exactly the locked stake: withdraw_unstaked can
\* never hit its "locked invariant violated" assertion, and no token stays
\* locked without a request that will release it.
QueueMatchesLocked ==
    \A a \in Attestors : TotalPending(pending[a]) = stake[a].locked

\* The contract holds exactly the tokens its Stake records promise.
Solvent ==
    balance[Contract] =
        SumFunctionOnSet([a \in Attestors |-> stake[a].amount], Attestors)

\* A slash takes free stake before queued stake, cuts the queue from its
\* newest end only, and never touches an entry's unlock time.
SlashCutsNewestFirst ==
    [][\A a \in Attestors :
          slashed' # slashed =>
             LET q == pending[a]
                 taken == stake[a].amount - stake[a].amount'
                 free == stake[a].amount - stake[a].locked
             IN  /\ DOMAIN q' = DOMAIN q
                 /\ TotalPending(q) - TotalPending(q') = MaxOf(0, taken - free)
                 /\ \A i, j \in DOMAIN q :
                       i < j /\ q'[i] # q[i] => q'[j].amount = 0
                 /\ \A i \in DOMAIN q : q'[i].unlock = q[i].unlock]_vars

\* A dispute id pays the treasury at most once: the treasury only gains in a
\* step that uses up a fresh id, and used ids are never forgotten.
OneSlashPerDispute ==
    [][/\ slashed \subseteq slashed'
       /\ Treasury \notin Attestors
             /\ balance[Treasury]' # balance[Treasury]
             => Cardinality(slashed' \ slashed) = 1]_vars

\* Stake leaves only through the queue or through a slash: an attestor gets
\* back no more than the requests that were already unlocked.
NoEarlyExit ==
    [][\A a \in Attestors :
          balance[a]' > balance[a] /\ a # Treasury =>
             balance[a]' - balance[a] =
                QueuedAt(pending[a],
                         {i \in DOMAIN pending[a] :
                             now >= pending[a][i].unlock})]_vars

-----------------------------------------------------------------------------
(* What the documentation says and the code does not do *)

\* docs/attestor-staking.md, Withdraw: once every request of a full queue has
\* unlocked, withdraw_unstaked succeeds and removes them.
FullQueueCanDrain ==
    \A a \in Attestors :
        /\ Len(pending[a]) = MaxPending
        /\ \A i \in DOMAIN pending[a] : Unlocked(pending[a][i])
        => MaturedAmount(a) > 0

=============================================================================
