--------------------------- MODULE ProtocolWorld ---------------------------
(***************************************************************************)
(* What the protocol's side contracts share: the accounts that call them   *)
(* and the ledger clock.  The contracts keep separate storage and do not   *)
(* call each other; `site` is the one under study.                         *)
(*                                                                         *)
(* As in the other modules, an action is one successful call; a panic      *)
(* rolls the whole call back, so the panics of the code are guards.        *)
(***************************************************************************)
EXTENDS Integers, FiniteSets, Sequences, Functions

CONSTANTS
    Accounts,  \* every address that signs calls
    Nobody,    \* an absent address
    Absent,    \* an absent record
    Sites,     \* the contracts under study
    MaxClock,  \* bound on the ledger clock, per contract under study
    MaxNonce   \* bound on the nonces used up per account and channel

ASSUME ProtocolAssumption ==
    /\ Nobody \notin Accounts
    /\ MaxClock \in [Sites -> Nat]
    /\ MaxNonce \in Nat

VARIABLES
    site,   \* the contract under study
    clock   \* ledger timestamp, or sequence number where the code uses that

protocolWorld == <<site, clock>>

ProtocolWorldInit == site \in Sites /\ clock = 0

ClockTick == clock < MaxClock[site] /\ clock' = clock + 1 /\ UNCHANGED site

=============================================================================
