---------------------------- MODULE RevenueWorld ----------------------------
(***************************************************************************)
(* What the revenue contracts (stream, settlement, share, bonds) share:    *)
(* the tokens they move, the attestation contract they query, the ledger   *)
(* clock and the replay nonces of contracts/common.                        *)
(*                                                                         *)
(* As in the other modules, an action is one successful call; a panic      *)
(* rolls the whole call back, so the panics of the code are guards.        *)
(***************************************************************************)
EXTENDS Integers, FiniteSets, Sequences, Functions

CONSTANTS
    Accounts,     \* every address that holds tokens or signs calls
    Admins,       \* accounts that initialize contracts
    Businesses,   \* the accounts that attest revenue
    Holders,      \* accounts that receive payments: beneficiaries, lenders,
                  \* stakeholders, bond owners
    Self,         \* the product contract's own address
    Nobody,       \* an absent address: "not initialized"
    Tokens,       \* token contracts
    Months,       \* periods, as month numbers (parse_period)
    Revenues,     \* revenues a caller may claim
    AttestedRevenues, \* revenues a business may attest
    Fees,         \* fees an attestation may have cost
    Absent,       \* an absent record
    Funds,        \* tokens of each kind every account starts with
    BasisPoints,  \* 10000: the denominator of a share
    NonceMax,     \* u64::MAX of a replay nonce; bounds the calls of an actor
    MaxNow        \* bound on the ledger clock

ASSUME RevenueAssumption ==
    /\ Admins \subseteq Accounts
    /\ Businesses \subseteq Accounts
    /\ Holders \subseteq Accounts
    /\ Self \in Accounts \ (Businesses \cup Admins)
    /\ Nobody \notin Accounts
    /\ Months \subseteq Nat
    /\ IsFiniteSet(Accounts) /\ IsFiniteSet(Tokens) /\ IsFiniteSet(Months)
    /\ Absent \notin [revenue : Nat, fee : Nat]
    /\ Revenues \subseteq Int
    /\ AttestedRevenues \subseteq Nat
    /\ Fees \subseteq Nat
    /\ Funds \in Nat
    /\ BasisPoints \in Nat \ {0}
    /\ NonceMax \in Nat
    /\ MaxNow \in Nat

Keys == Businesses \X Months

\* The product contracts; they share nothing but the world around them.
Products == {"stream", "settlement", "share", "bonds"}

VARIABLES
    product,   \* the contract at address Self
    balance,   \* token -> account -> tokens
    attested,  \* key -> what get_attestation answers, or Absent
    revoked,   \* the keys with revocation info
    expired,   \* the keys for which is_expired answers true
    now        \* ledger timestamp

world == <<product, balance, attested, revoked, expired, now>>

WorldInit ==
    /\ product \in Products
    /\ balance = [t \in Tokens |->
                    [a \in Accounts |-> IF a = Self THEN 0 ELSE Funds]]
    /\ attested = [k \in Keys |-> Absent]
    /\ revoked = {}
    /\ expired = {}
    /\ now = 0

\* Shares are cut by integer division, towards zero.
ShareOf(amount, bps) == (amount * bps) \div BasisPoints

SmallerOf(x, y) == IF x < y THEN x ELSE y
LargerOf(x, y) == IF x < y THEN y ELSE x

\* A debit of `from` that credits each account with credit[account], as the
\* token's transfers do: they fail when `from` cannot pay.
Pay(t, from, credit) ==
    LET total == SumFunctionOnSet(credit, Accounts)
    IN  /\ balance[t][from] >= total
        /\ balance' = [balance EXCEPT
                         ![t] = [a \in Accounts |->
                                   @[a] + credit[a]
                                        - (IF a = from THEN total ELSE 0)]]

Transfer(t, from, to, amount) ==
    Pay(t, from, [a \in Accounts |-> IF a = to THEN amount ELSE 0])

-----------------------------------------------------------------------------
(* Replay protection: one counter per actor and channel *)

NonceAccepted(nonces, actor, channel, provided) ==
    /\ provided = nonces[<<actor, channel>>]
    /\ nonces[<<actor, channel>>] < NonceMax

NonceSpent(nonces, actor, channel) ==
    [nonces EXCEPT ![<<actor, channel>>] = @ + 1]

-----------------------------------------------------------------------------
(* The attestation contract, as its read interface shows it: Attestations   *)
(* models what is behind it.  The fourth field of an answer is the fee.     *)

AttestationAppears(k, revenue, fee) ==
    /\ attested[k] = Absent
    /\ attested' = [attested EXCEPT ![k] = [revenue |-> revenue, fee |-> fee]]
    /\ UNCHANGED <<product, balance, revoked, expired, now>>

AttestationRevoked(k) ==
    /\ attested[k] # Absent
    /\ k \notin revoked
    /\ revoked' = revoked \cup {k}
    /\ UNCHANGED <<product, balance, attested, expired, now>>

AttestationExpires(k) ==
    /\ attested[k] # Absent
    /\ k \notin expired
    /\ expired' = expired \cup {k}
    /\ UNCHANGED <<product, balance, attested, revoked, now>>

\* cleanup_expired_attestation
AttestationCleaned(k) ==
    /\ k \in expired
    /\ k \notin revoked
    /\ attested' = [attested EXCEPT ![k] = Absent]
    /\ expired' = expired \ {k}
    /\ UNCHANGED <<product, balance, revoked, now>>

AttestationContractStep(keys) ==
    \E k \in keys :
        \/ \E revenue \in AttestedRevenues, fee \in Fees :
              AttestationAppears(k, revenue, fee)
        \/ AttestationRevoked(k)
        \/ AttestationExpires(k)
        \/ AttestationCleaned(k)

\* The check release, redeem and distribute_revenue make.
InForce(k) == attested[k] # Absent /\ k \notin revoked

=============================================================================
