\* Two attestors, queues of 2, periods on both sides of the maximum.
CONSTANTS
    alice = alice
    bob = bob
    self = self
    vault = vault
    Nobody = Nobody
    Addresses <- MCAddresses
    Attestors <- MCAttestors
    Contract <- self
    Treasury <- vault
    Amounts = {1, 2}
    MinStakes = {1}
    Periods = {0, 1}
    DisputeIds = {1, 2}
    Funds = 3
    MaxPending = 2
    MaxUnbonding = 0
    U64Max = 2
    MaxNow = 2
SYMMETRY Interchangeable
SPECIFICATION Spec
INVARIANTS QueueMatchesLocked QueueInUnlockOrder Solvent
PROPERTIES SlashCutsNewestFirst OneSlashPerDispute NoEarlyExit
