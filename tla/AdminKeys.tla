----------------------------- MODULE AdminKeys -----------------------------
(***************************************************************************)
(* Who administers the attestation contract: the Admin key, the role       *)
(* bitmaps (contracts/attestation/src/access_control.rs) and the two-step  *)
(* or emergency rotation of the Admin key                                  *)
(* (contracts/common/src/key_rotation.rs, wired up in                      *)
(* contracts/attestation/src/lib.rs).                                      *)
(*                                                                         *)
(* The Admin key and ROLE_ADMIN are two records: some entry points ask for *)
(* the one, some for the other.  A successful call is one action; a call   *)
(* that panics is rolled back and is no step.  `now` stands for the ledger *)
(* sequence and the ledger timestamp, which advance together.              *)
(***************************************************************************)
EXTENDS Integers, Sequences, FiniteSets

CONSTANTS
    Addresses,        \* accounts and contracts
    ZeroAccount,      \* the all-zero account, which nobody controls
    Nobody,           \* "Admin is not set"
    None,             \* an absent Option
    ADMIN,            \* ROLE_ADMIN
    Roles,            \* the roles of ROLE_VALID_MASK
    Masks,            \* role bitmaps a caller may pass, as sets of roles
    Configs,          \* RotationConfig values the admin may set
    DefaultConfig,    \* the RotationConfig in force before any is set
    RemovalCooldown,  \* ADMIN_REMOVAL_COOLDOWN_SECS
    MaxHistory,       \* MAX_ROTATION_HISTORY
    U32Max,           \* u32::MAX; exceeding it panics
    MaxRotations,     \* bound on the number of rotations
    MaxNow            \* bound on the ledger clock

RotationConfig == [timelock : Nat \ {0}, window : Nat \ {0},
                   cooldown : Nat, grace : Nat]

ASSUME AdminKeysAssumption ==
    /\ ZeroAccount \in Addresses
    /\ Nobody \notin Addresses
    /\ None \notin Nat
    /\ ADMIN \in Roles
    /\ Masks \subseteq (SUBSET Roles) \ {{}}
    /\ Configs \subseteq RotationConfig
    /\ DefaultConfig \in RotationConfig
    /\ RemovalCooldown \in Nat
    /\ MaxHistory \in Nat \ {0}
    /\ U32Max \in Nat
    /\ MaxRotations \in Nat
    /\ MaxNow \in 0 .. U32Max

VARIABLES
    admin,        \* DataKey::Admin
    roles,        \* Roles(account)
    holders,      \* RoleHolders
    lastRemoved,  \* LastAdminRemovedAt
    config,       \* RotationConfig
    request,      \* PendingRotation: {} or {the request}
    history,      \* RotationHistory, oldest first
    lastRotation, \* LastRotationLedger, 0 before the first rotation
    rotations,    \* RotationCount
    now           \* ledger sequence and timestamp

roleVars == <<roles, holders, lastRemoved>>
rotationVars == <<config, request, history, lastRotation, rotations>>
keyVars == <<admin, roleVars, rotationVars, now>>

RotationRequest == [old : Addresses, new : Addresses, proposed : Nat,
                    timelock : Nat, expires : Nat]
RotationRecord == [old : Addresses, new : Addresses, completed : Nat,
                   emergency : BOOLEAN, graceEnd : Nat]

Init ==
    /\ admin = Nobody
    /\ roles = [a \in Addresses |-> {}]
    /\ holders = {}
    /\ lastRemoved = None
    /\ config = DefaultConfig
    /\ request = {}
    /\ history = <<>>
    /\ lastRotation = 0
    /\ rotations = 0
    /\ now = 0

-----------------------------------------------------------------------------
(* Roles *)

HasAdminRole(a) == a \in Addresses /\ ADMIN \in roles[a]

\* admin_count walks the RoleHolders index.
Admins == {a \in holders : HasAdminRole(a)}

\* require_admin: signed by a holder of ROLE_ADMIN; nobody signs for the
\* zero account.
SignedByAdmin(caller) == caller # ZeroAccount /\ HasAdminRole(caller)

\* Mutant: the index keeps accounts whose last role is gone.
SetRolesIndexGrows(changed, newRoles) ==
    roles' = newRoles /\ holders' = holders \cup changed

\* set_roles for every account at once: the index lists the non-empty bitmaps
\* of the accounts it is called for.
SetRoles(changed, newRoles) ==
    /\ roles' = newRoles
    /\ holders' = {a \in Addresses : IF a \in changed THEN newRoles[a] # {}
                                     ELSE a \in holders}

\* grant_role, without the caller's authorisation.
DoGrantRole(account, mask) ==
    /\ mask # {}
    /\ ADMIN \in mask => account # ZeroAccount
    /\ SetRoles({account}, [roles EXCEPT ![account] = @ \cup mask])
    /\ UNCHANGED lastRemoved

CooldownOver == lastRemoved # None => now - lastRemoved >= RemovalCooldown

\* Mutant: MIN_ADMIN_COUNT is not checked.
LastAdminRemovable == CooldownOver

\* require_admin_removal_allowed: a second admin, and the cooldown.
AdminRemovalAllowed == Cardinality(Admins) > 1 /\ CooldownOver

\* revoke_role, without the caller's authorisation.
DoRevokeRole(account, mask) ==
    /\ mask # {}
    /\ SetRoles({account}, [roles EXCEPT ![account] = @ \ mask])
    /\ IF ADMIN \in mask /\ HasAdminRole(account)
       THEN AdminRemovalAllowed /\ lastRemoved' = now
       ELSE UNCHANGED lastRemoved

\* Mutant: the old account keeps ADMIN.
SwappedKeepingOld(old, new) == [roles EXCEPT ![new] = @ \cup {ADMIN}]

\* The old account loses ADMIN, then the new one gains it.
Swapped(old, new) == [a \in Addresses |->
                        IF a = new THEN roles[a] \cup {ADMIN}
                        ELSE IF a = old THEN roles[a] \ {ADMIN}
                        ELSE roles[a]]

\* The swap shared by swap_admin and swap_admin_after_verified_rotation.
DoSwapAdmin(old, new) ==
    /\ HasAdminRole(old)
    /\ new # ZeroAccount
    /\ SetRoles({old, new}, Swapped(old, new))
    /\ UNCHANGED lastRemoved

Initialize(caller) ==
    /\ admin = Nobody
    /\ caller # ZeroAccount
    /\ admin' = caller
    /\ DoGrantRole(caller, {ADMIN})
    /\ UNCHANGED <<rotationVars, now>>

GrantRole(caller, account, mask) ==
    /\ SignedByAdmin(caller)
    /\ DoGrantRole(account, mask)
    /\ UNCHANGED <<admin, rotationVars, now>>

RevokeRole(caller, account, mask) ==
    /\ SignedByAdmin(caller)
    /\ DoRevokeRole(account, mask)
    /\ UNCHANGED <<admin, rotationVars, now>>

\* swap_admin moves the role and leaves the Admin key alone.
SwapAdmin(caller, old, new) ==
    /\ SignedByAdmin(caller)
    /\ DoSwapAdmin(old, new)
    /\ UNCHANGED <<admin, rotationVars, now>>

-----------------------------------------------------------------------------
(* Key rotation *)

\* require_admin of dynamic_fees.rs: the Admin key itself signs.
SignedByAdminKey == admin \notin {Nobody, ZeroAccount}

\* has_pending_rotation: an expired request no longer counts, but stays stored.
HasPendingRotation == \E r \in request : now <= r.expires

\* The end of the old key's grace period; an emergency grants none.
GraceEnd(emergency) == IF emergency THEN now ELSE now + config.grace

\* The oldest record above the limit goes.
Trimmed(q) == IF Len(q) > MaxHistory THEN Tail(q) ELSE q

RequestCleared == request' = {}

\* finalize_rotation: record the rotation, drop the oldest record above the
\* limit, and clear whatever request is stored.
Finalize(old, new, emergency) ==
    LET record == [old |-> old, new |-> new, completed |-> now,
                   emergency |-> emergency, graceEnd |-> GraceEnd(emergency)]
    IN  /\ emergency \/ now + config.grace <= U32Max
        /\ rotations < MaxRotations
        /\ history' = Trimmed(Append(history, record))
        /\ lastRotation' = now
        /\ rotations' = rotations + 1
        /\ RequestCleared
        /\ UNCHANGED config

ConfigureKeyRotation(c) ==
    /\ SignedByAdminKey
    /\ c.timelock > 0
    /\ c.window > 0
    /\ config' = c
    /\ UNCHANGED <<admin, roleVars, request, history, lastRotation, rotations,
                   now>>

ProposeKeyRotation(new) ==
    /\ SignedByAdminKey
    /\ admin # new
    /\ ~HasPendingRotation
    /\ lastRotation > 0 =>
          /\ lastRotation + config.cooldown <= U32Max
          /\ now >= lastRotation + config.cooldown
    /\ now + config.timelock + config.window <= U32Max
    /\ request' = {[old |-> admin, new |-> new, proposed |-> now,
                    timelock |-> now + config.timelock,
                    expires |-> now + config.timelock + config.window]}
    /\ UNCHANGED <<admin, roleVars, config, history, lastRotation, rotations,
                   now>>

\* Mutant: the timelock is not awaited.
MatureAtOnce(r) == now <= r.expires

\* The timelock is over and the confirmation window is not.
Mature(r) == r.timelock <= now /\ now <= r.expires

ConfirmKeyRotation(caller) ==
    /\ admin # Nobody
    /\ caller # ZeroAccount
    /\ \E r \in request :
          /\ caller = r.new
          /\ Mature(r)
          /\ Finalize(r.old, r.new, FALSE)
    /\ admin' = caller
    /\ DoSwapAdmin(admin, caller)
    /\ UNCHANGED now

CancelKeyRotation ==
    /\ SignedByAdminKey
    /\ \E r \in request : r.old = admin
    /\ request' = {}
    /\ UNCHANGED <<admin, roleVars, config, history, lastRotation, rotations,
                   now>>

\* The EmergencyRotateAdmin branch of dispatch_multisig_action.
DoEmergencyRotate(new) ==
    /\ admin \notin {Nobody, new}
    /\ Finalize(admin, new, TRUE)
    /\ admin' = new
    /\ DoSwapAdmin(admin, new)

-----------------------------------------------------------------------------
(* The component on its own: whatever the owners' quorum executes on these   *)
(* keys may happen at any time.                                              *)

QuorumGrantRole(account, mask) ==
    DoGrantRole(account, mask) /\ UNCHANGED <<admin, rotationVars, now>>

QuorumRevokeRole(account, mask) ==
    DoRevokeRole(account, mask) /\ UNCHANGED <<admin, rotationVars, now>>

EmergencyRotate(new) ==
    DoEmergencyRotate(new) /\ UNCHANGED now

Tick ==
    /\ now < MaxNow
    /\ now' = now + 1
    /\ UNCHANGED <<admin, roleVars, rotationVars>>

RoleCall ==
    \/ \E caller \in Addresses : Initialize(caller)
    \/ \E caller, account \in Addresses, mask \in Masks :
          GrantRole(caller, account, mask) \/ RevokeRole(caller, account, mask)
    \/ \E caller, old, new \in Addresses : SwapAdmin(caller, old, new)

RotationCall ==
    \/ \E c \in Configs : ConfigureKeyRotation(c)
    \/ \E new \in Addresses : ProposeKeyRotation(new)
    \/ \E caller \in Addresses : ConfirmKeyRotation(caller)
    \/ CancelKeyRotation

QuorumCall ==
    /\ admin # Nobody
    /\ \/ \E account \in Addresses, mask \in SUBSET Roles :
             \/ QuorumGrantRole(account, mask)
             \/ QuorumRevokeRole(account, mask)
       \/ \E new \in Addresses : EmergencyRotate(new)

Next == RoleCall \/ RotationCall \/ QuorumCall \/ Tick

Spec == Init /\ [][Next]_keyVars

-----------------------------------------------------------------------------
(* Properties *)

\* Every stored value has its type.
AdminKeysTypeOK ==
    /\ admin \in Addresses \cup {Nobody}
    /\ roles \in [Addresses -> SUBSET Roles]
    /\ holders \subseteq Addresses
    /\ lastRemoved \in Nat \cup {None}
    /\ config \in RotationConfig
    /\ request \subseteq RotationRequest
    /\ history \in Seq(RotationRecord)
    /\ lastRotation \in Nat
    /\ rotations \in Nat
    /\ now \in Nat

\* The RoleHolders index lists exactly the accounts with a role, whichever
\* path changed the bitmap: admin_count never misses an admin.
HoldersMatchRoles == holders = {a \in Addresses : roles[a] # {}}

\* Once initialized the contract always has an account with ROLE_ADMIN
\* (MIN_ADMIN_COUNT), through revocations, swaps and rotations, and the
\* uncontrolled zero account is never one of them.
SomeAdminRemains ==
    /\ admin # Nobody => \E a \in Addresses : ADMIN \in roles[a]
    /\ ADMIN \notin roles[ZeroAccount]

\* A stored rotation request, expired or not, was made by the admin it would
\* replace: the admin can always cancel it and it never displaces another.
RequestNamesAdmin ==
    \A r \in request : r.old = admin /\ r.new # admin

\* The history is an audit trail: the latest rotations without a gap, in
\* order of time, ending at the current admin.
AuditTrail ==
    /\ Len(history) = IF rotations < MaxHistory THEN rotations ELSE MaxHistory
    /\ \A i \in 1 .. Len(history) - 1 :
          /\ history[i].new = history[i + 1].old
          /\ history[i].completed <= history[i + 1].completed
    /\ history # <<>> =>
          /\ history[Len(history)].new = admin
          /\ history[Len(history)].completed = lastRotation
    /\ lastRotation <= now

\* A planned rotation completes in a later ledger than the rotation before
\* it, and the stored request matures after it: nobody can chain rotations
\* in one ledger except by emergency.
PlannedRotationsTakeTime ==
    /\ \A i \in 1 .. Len(history) - 1 :
          ~history[i + 1].emergency =>
              history[i].completed < history[i + 1].completed
    /\ \A r \in request : lastRotation < r.timelock

\* Changing the Admin key moves ROLE_ADMIN with it, clears the stored request
\* and leaves every other role of every account as it was.
RotationMovesRole ==
    [][admin' # admin /\ admin # Nobody =>
          /\ ADMIN \in roles'[admin']
          /\ ADMIN \notin roles'[admin]
          /\ request' = {}
          /\ \A a \in Addresses : roles'[a] \ {ADMIN} = roles[a] \ {ADMIN}
          /\ \A a \in Addresses \ {admin, admin'} : roles'[a] = roles[a]]_keyVars

=============================================================================
