---------------------------- MODULE MultiPeriod ----------------------------
(***************************************************************************)
(* Multi-period attestations of contracts/attestation/src/lib.rs: ranges   *)
(* of periods attested under one root, and the index from a root to the    *)
(* range it was last used for.  Fees and the caller's own timestamp, which *)
(* validate_expiry also compares with the expiry, are left out.            *)
(***************************************************************************)
EXTENDS Integers, Sequences

CONSTANTS
    Businesses,     \* the addresses that submit
    Roots,          \* Merkle roots
    MaxPeriod,      \* largest period number used
    Expiries,       \* expiry timestamps a business may submit, 0: none
    MaxRanges,      \* bound on the ranges of one business
    MaxNow          \* bound on the ledger clock

ASSUME MultiPeriodAssumption ==
    /\ MaxPeriod \in Nat
    /\ Expiries \subseteq Nat
    /\ MaxRanges \in Nat
    /\ MaxNow \in Nat

VARIABLES
    ranges,         \* Ranges(business), oldest first
    rootIndex,      \* RootIndex(business, root), counted from 1; 0: none
    now             \* ledger timestamp

vars == <<ranges, rootIndex, now>>

PeriodNumbers == 0 .. MaxPeriod
AttestationRange ==
    [start : PeriodNumbers, end : PeriodNumbers, root : Roots, expiry : Nat,
     revoked : BOOLEAN]

Init ==
    /\ ranges = [b \in Businesses |-> <<>>]
    /\ rootIndex = [b \in Businesses |-> [r \in Roots |-> 0]]
    /\ now = 0

-----------------------------------------------------------------------------

\* Two ranges have a period in common.
Overlap(x, y) == x.start <= y.end /\ x.end >= y.start

\* Mutant: only the start of the new range is looked up.
StartConflicts(range, stored) ==
    ~stored.revoked /\ range.start \in stored.start .. stored.end

Conflicts(range, stored) == ~stored.revoked /\ Overlap(range, stored)

\* Mutant: the index keeps the first range of a root.
IndexFirst(b, root) ==
    rootIndex' = [rootIndex EXCEPT ![b][root] =
                    IF @ = 0 THEN Len(ranges[b]) + 1 ELSE @]

IndexRoot(b, root) ==
    rootIndex' = [rootIndex EXCEPT ![b][root] = Len(ranges[b]) + 1]

\* A revoked range frees its periods; an expired one does not.
SubmitRange(b, range) ==
    /\ Len(ranges[b]) < MaxRanges
    /\ range.start <= range.end
    /\ range.expiry # 0 => range.expiry > now
    /\ ~range.revoked
    /\ \A i \in DOMAIN ranges[b] : ~Conflicts(range, ranges[b][i])
    /\ ranges' = [ranges EXCEPT ![b] = Append(@, range)]
    /\ IndexRoot(b, range.root)
    /\ UNCHANGED now

RevokeRange(b, root) ==
    /\ rootIndex[b][root] \in DOMAIN ranges[b]
    /\ ranges' = [ranges EXCEPT ![b][rootIndex[b][root]].revoked = TRUE]
    /\ UNCHANGED <<rootIndex, now>>

\* verify_multi_period_attestation
Verifies(b, period, root) ==
    \E i \in DOMAIN ranges[b] :
        LET range == ranges[b][i]
        IN  /\ ~range.revoked
            /\ period \in range.start .. range.end
            /\ range.expiry # 0 => now < range.expiry
            /\ range.root = root

Tick ==
    /\ now < MaxNow
    /\ now' = now + 1
    /\ UNCHANGED <<ranges, rootIndex>>

NewRanges ==
    [start : PeriodNumbers, end : PeriodNumbers, root : Roots,
     expiry : Expiries, revoked : {FALSE}]

Next ==
    \/ \E b \in Businesses, range \in NewRanges : SubmitRange(b, range)
    \/ \E b \in Businesses, root \in Roots : RevokeRange(b, root)
    \/ Tick

Spec == Init /\ [][Next]_vars

-----------------------------------------------------------------------------
(* Properties *)

\* Every stored value has its type.
MultiPeriodTypeOK ==
    /\ ranges \in [Businesses -> Seq(AttestationRange)]
    /\ rootIndex \in [Businesses -> [Roots -> Nat]]
    /\ now \in Nat

\* Ranges that are not revoked never share a period, however submissions and
\* revocations are mixed (docs/security-invariants.md, SI-007).
NoOverlap ==
    \A b \in Businesses : \A i, j \in DOMAIN ranges[b] :
        /\ i # j
        /\ ~ranges[b][i].revoked
        /\ ~ranges[b][j].revoked
        => ~Overlap(ranges[b][i], ranges[b][j])

\* The index leads from a root to the newest range submitted under it, so
\* revoking a root never hits a range with another root.
IndexFindsNewest ==
    \A b \in Businesses, root \in Roots :
        LET used == {i \in DOMAIN ranges[b] : ranges[b][i].root = root}
        IN  IF used = {}
            THEN rootIndex[b][root] = 0
            ELSE /\ rootIndex[b][root] \in used
                 /\ \A i \in used : i <= rootIndex[b][root]

\* At any time a period is attested under at most one root.
OneRootPerPeriod ==
    \A b \in Businesses, period \in PeriodNumbers, r, s \in Roots :
        Verifies(b, period, r) /\ Verifies(b, period, s) => r = s

=============================================================================
