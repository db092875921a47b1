\* docs/attestor-staking.md: unlocked requests can be withdrawn.
CONSTANTS
    alice = alice
    bob = bob
    self = self
    vault = vault
    Nobody = Nobody
    Addresses <- MCAddresses
    Attestors <- OneAttestor
    Contract <- self
    Treasury <- vault
    Amounts = {1, 2}
    MinStakes = {1}
    Periods = {0, 1, 2}
    DisputeIds = {1, 2}
    Funds = 4
    MaxPending = 1
    MaxUnbonding = 1
    U64Max = 3
    MaxNow = 2
SPECIFICATION Spec
INVARIANT FullQueueCanDrain
