-------------------------- MODULE AdminKeysProofs --------------------------
(* Proofs about AdminKeys, for every set of accounts and roles, every       *)
(* configuration and every bound: type correctness, that an admin always    *)
(* remains, that a stored rotation request always names the present admin,  *)
(* and that the rotation history is a gapless audit trail.                  *)
EXTENDS AdminKeys, FiniteSetTheorems, TLAPS

(* The role half of the inductive invariant. *)

RoleTypes ==
    /\ roles \in [Addresses -> SUBSET Roles]
    /\ holders \subseteq Addresses
    /\ lastRemoved \in Nat \cup {None}

AdminExists == \E a \in Addresses : ADMIN \in roles[a]

RolesInv == RoleTypes /\ HoldersMatchRoles /\ ADMIN \notin roles[ZeroAccount]

\* set_roles keeps the RoleHolders index in step with the bitmaps.
LEMMA SetRolesOK ==
  ASSUME NEW changed, NEW new \in [Addresses -> SUBSET Roles],
         RoleTypes, HoldersMatchRoles, SetRoles(changed, new),
         \A a \in Addresses : a \notin changed => new[a] = roles[a]
  PROVE  /\ roles' = new
         /\ holders' \subseteq Addresses
         /\ HoldersMatchRoles'
  BY DEF SetRoles, HoldersMatchRoles, RoleTypes

\* grant_role never loses an admin and never empowers the zero account.
LEMMA GrantOK ==
  ASSUME NEW account \in Addresses, NEW mask \in SUBSET Roles,
         RolesInv, DoGrantRole(account, mask)
  PROVE  /\ RolesInv'
         /\ AdminExists \/ ADMIN \in mask => AdminExists'
<1> DEFINE new == [roles EXCEPT ![account] = @ \cup mask]
<1>1. new \in [Addresses -> SUBSET Roles]
  BY DEF RolesInv, RoleTypes
<1>2. \A a \in Addresses : a \notin {account} => new[a] = roles[a]
  BY DEF RolesInv, RoleTypes
<1>3. SetRoles({account}, new) /\ lastRemoved' = lastRemoved
  BY DEF DoGrantRole
<1>4. roles' = new /\ holders' \subseteq Addresses /\ HoldersMatchRoles'
  <2> HIDE DEF new
  <2> QED
    BY <1>1, <1>2, <1>3, SetRolesOK DEF RolesInv
<1>5. \A a \in Addresses : roles[a] \subseteq new[a]
  BY DEF RolesInv, RoleTypes
<1>6. mask \subseteq new[account]
  BY DEF RolesInv, RoleTypes
<1>7. ADMIN \notin new[ZeroAccount]
  BY AdminKeysAssumption DEF RolesInv, RoleTypes, DoGrantRole
<1>8. RolesInv'
  BY <1>1, <1>3, <1>4, <1>7 DEF RolesInv, RoleTypes
<1>9. ASSUME AdminExists \/ ADMIN \in mask PROVE AdminExists'
  BY <1>4, <1>5, <1>6, <1>9 DEF AdminExists
<1> QED
  BY <1>8, <1>9

\* Two admins in the index: one of them is not `account`.
LEMMA SecondAdmin ==
  ASSUME NEW account \in Addresses, RolesInv, Cardinality(Admins) > 1
  PROVE  \E b \in Addresses : b # account /\ ADMIN \in roles[b]
<1> SUFFICES ASSUME \A b \in Addresses : b # account => ADMIN \notin roles[b]
             PROVE  FALSE
  OBVIOUS
<1>1. Admins \subseteq {account}
  BY DEF Admins, HasAdminRole
<1>2. Admins = {} \/ Admins = {account}
  BY <1>1
<1>3. Cardinality({}) = 0 /\ Cardinality({account}) = 1
  BY FS_EmptySet, FS_Singleton
<1> QED
  BY <1>2, <1>3

\* revoke_role never removes the last admin.
LEMMA RevokeOK ==
  ASSUME NEW account \in Addresses, NEW mask \in SUBSET Roles, now \in Nat,
         RolesInv, DoRevokeRole(account, mask)
  PROVE  /\ RolesInv'
         /\ AdminExists => AdminExists'
<1> DEFINE new == [roles EXCEPT ![account] = @ \ mask]
<1>1. new \in [Addresses -> SUBSET Roles]
  BY DEF RolesInv, RoleTypes
<1>2. \A a \in Addresses : a \notin {account} => new[a] = roles[a]
  BY DEF RolesInv, RoleTypes
<1>3. SetRoles({account}, new) /\ lastRemoved' \in Nat \cup {None}
  BY DEF DoRevokeRole, RolesInv, RoleTypes
<1>4. roles' = new /\ holders' \subseteq Addresses /\ HoldersMatchRoles'
  <2> HIDE DEF new
  <2> QED
    BY <1>1, <1>2, <1>3, SetRolesOK DEF RolesInv
<1>5. ADMIN \notin new[ZeroAccount]
  BY AdminKeysAssumption DEF RolesInv, RoleTypes
<1>6. RolesInv'
  BY <1>1, <1>3, <1>4, <1>5 DEF RolesInv, RoleTypes
<1>7. ASSUME AdminExists PROVE AdminExists'
  <2>1. CASE ADMIN \in mask /\ ADMIN \in roles[account]
    <3>1. Cardinality(Admins) > 1
      BY <2>1 DEF DoRevokeRole, AdminRemovalAllowed, HasAdminRole
    <3>2. PICK b \in Addresses : b # account /\ ADMIN \in roles[b]
      BY <3>1, SecondAdmin
    <3> QED
      BY <1>2, <1>4, <3>2 DEF AdminExists
  <2>2. CASE ~(ADMIN \in mask /\ ADMIN \in roles[account])
    <3>1. PICK b \in Addresses : ADMIN \in roles[b]
      BY <1>7 DEF AdminExists
    <3>2. ADMIN \in new[b]
      BY <2>2, <3>1 DEF RolesInv, RoleTypes
    <3> QED
      BY <1>4, <3>2 DEF AdminExists
  <2> QED
    BY <2>1, <2>2
<1> QED
  BY <1>6, <1>7

\* A swap leaves its new account with ROLE_ADMIN.
LEMMA SwapOK ==
  ASSUME NEW old \in Addresses, NEW next \in Addresses,
         RolesInv, DoSwapAdmin(old, next)
  PROVE  RolesInv' /\ AdminExists'
<1> DEFINE new == [a \in Addresses |-> IF a = next THEN roles[a] \cup {ADMIN}
                                       ELSE IF a = old THEN roles[a] \ {ADMIN}
                                       ELSE roles[a]]
<1>1. new \in [Addresses -> SUBSET Roles]
  BY AdminKeysAssumption DEF RolesInv, RoleTypes
<1>2. \A a \in Addresses : a \notin {old, next} => new[a] = roles[a]
  OBVIOUS
<1>3. SetRoles({old, next}, new) /\ lastRemoved' = lastRemoved
  BY DEF DoSwapAdmin, Swapped
<1>4. roles' = new /\ holders' \subseteq Addresses /\ HoldersMatchRoles'
  <2> HIDE DEF new
  <2> QED
    BY <1>1, <1>2, <1>3, SetRolesOK DEF RolesInv
<1>5. ADMIN \notin new[ZeroAccount]
  BY AdminKeysAssumption DEF RolesInv, DoSwapAdmin
<1>6. ADMIN \in new[next]
  OBVIOUS
<1> QED
  BY <1>1, <1>3, <1>4, <1>5, <1>6 DEF RolesInv, RoleTypes, AdminExists

-----------------------------------------------------------------------------
(* The rotation half of the inductive invariant. *)

RotationTypes ==
    /\ admin \in Addresses \cup {Nobody}
    /\ config \in RotationConfig
    /\ request \subseteq RotationRequest
    /\ history \in Seq(RotationRecord)
    /\ lastRotation \in Nat
    /\ rotations \in Nat
    /\ now \in Nat

RotationInv ==
    RotationTypes /\ RequestNamesAdmin /\ AuditTrail /\ PlannedRotationsTakeTime

\* finalize_rotation extends the audit trail by the new admin, and drops the
\* oldest record only when the history is full.
LEMMA FinalizeOK ==
  ASSUME NEW new \in Addresses, NEW emergency \in BOOLEAN,
         RotationInv, admin \in Addresses, emergency \/ lastRotation < now,
         Finalize(admin, new, emergency), admin' = new, now' = now
  PROVE  RotationInv'
<1> DEFINE record == [old |-> admin, new |-> new, completed |-> now,
                      emergency |-> emergency,
                      graceEnd |-> IF emergency THEN now ELSE now + config.grace]
           longer == Append(history, record)
           n == Len(history)
<1>1. /\ history \in Seq(RotationRecord)
      /\ n \in Nat
      /\ config.grace \in Nat
      /\ now \in Nat
      /\ lastRotation \in Nat
      /\ rotations \in Nat
  BY DEF RotationInv, RotationTypes, RotationConfig
<1>2. record \in RotationRecord
  BY <1>1 DEF RotationRecord
<1>3. /\ history' = IF Len(longer) > MaxHistory THEN Tail(longer) ELSE longer
      /\ lastRotation' = now
      /\ rotations' = rotations + 1
      /\ request' = {}
      /\ config' = config
  BY DEF Finalize, GraceEnd, Trimmed, RequestCleared
<1>4. /\ record.old = admin
      /\ record.new = new
      /\ record.completed = now
      /\ record.emergency = emergency
  OBVIOUS
<1> HIDE DEF record
<1>5. /\ longer \in Seq(RotationRecord)
      /\ Len(longer) = n + 1
      /\ \A i \in 1 .. n : longer[i] = history[i]
      /\ longer[n + 1] = record
  BY <1>1, <1>2
<1>6. /\ MaxHistory \in Nat \ {0}
      /\ n = IF rotations < MaxHistory THEN rotations ELSE MaxHistory
      /\ \A i \in 1 .. n - 1 :
            /\ history[i].new = history[i + 1].old
            /\ history[i].completed <= history[i + 1].completed
      /\ history # <<>> =>
            /\ history[n].new = admin
            /\ history[n].completed = lastRotation
      /\ lastRotation <= now
      /\ \A i \in 1 .. n - 1 :
            ~history[i + 1].emergency =>
                history[i].completed < history[i + 1].completed
  BY AdminKeysAssumption DEF RotationInv, AuditTrail, PlannedRotationsTakeTime
<1> DEFINE Linked(q) ==
             \A i \in 1 .. Len(q) - 1 :
                /\ q[i].new = q[i + 1].old
                /\ q[i].completed <= q[i + 1].completed
                /\ ~q[i + 1].emergency => q[i].completed < q[i + 1].completed
<1>7. Linked(longer)
  <2> SUFFICES ASSUME NEW i \in 1 .. n
               PROVE  /\ longer[i].new = longer[i + 1].old
                      /\ longer[i].completed <= longer[i + 1].completed
                      /\ ~longer[i + 1].emergency =>
                            longer[i].completed < longer[i + 1].completed
    BY <1>1, <1>5
  <2>1. CASE i < n
    <3>1. i \in 1 .. n - 1 /\ i + 1 \in 1 .. n
      BY <1>1, <2>1
    <3>2. longer[i] = history[i] /\ longer[i + 1] = history[i + 1]
      BY <1>5, <3>1
    <3> QED
      BY <1>6, <3>1, <3>2
  <2>2. CASE i = n
    <3>1. history # <<>> /\ longer[i] = history[n] /\ longer[i + 1] = record
      BY <1>1, <1>5, <2>2
    <3>2. history[n].new = admin /\ history[n].completed = lastRotation
      BY <1>6, <3>1
    <3> QED
      BY <1>1, <1>4, <1>6, <3>1, <3>2
  <2> QED
    BY <1>1, <2>1, <2>2
<1>10. ASSUME NEW m \in Nat, m > 0, history' \in Seq(RotationRecord),
              Len(history') = m, history'[m] = record, Linked(history'),
              m = IF rotations' < MaxHistory THEN rotations' ELSE MaxHistory
       PROVE  AuditTrail' /\ PlannedRotationsTakeTime'
  <2>1. \A i \in 1 .. Len(history') - 1 :
           /\ history'[i].new = history'[i + 1].old
           /\ history'[i].completed <= history'[i + 1].completed
    BY <1>10
  <2>2. \A i \in 1 .. Len(history') - 1 :
           ~history'[i + 1].emergency =>
               history'[i].completed < history'[i + 1].completed
    BY <1>10
  <2> HIDE DEF Linked
  <2>3. /\ history'[Len(history')].new = admin'
        /\ history'[Len(history')].completed = lastRotation'
        /\ lastRotation' <= now'
    BY <1>1, <1>3, <1>4, <1>10
  <2>4. AuditTrail'
    BY <1>10, <2>1, <2>3 DEF AuditTrail
  <2>5. PlannedRotationsTakeTime'
    BY <1>3, <2>2 DEF PlannedRotationsTakeTime
  <2> QED
    BY <2>4, <2>5
<1>8. CASE n + 1 <= MaxHistory
  <2>1. history' = longer
    BY <1>1, <1>3, <1>5, <1>6, <1>8
  <2>2. Len(history') = n + 1 /\ history'[n + 1] = record /\ history' # <<>>
    BY <1>1, <1>5, <2>1
  <2>3. Len(history') = IF rotations' < MaxHistory THEN rotations' ELSE MaxHistory
    BY <1>1, <1>3, <1>6, <1>8, <2>2
  <2>4. AuditTrail' /\ PlannedRotationsTakeTime'
    <3>1. history' \in Seq(RotationRecord)
      BY <1>5, <2>1
    <3>2. Linked(history')
      BY <1>7, <2>1
    <3> HIDE DEF longer, Linked
    <3> QED
      BY <1>1, <1>10, <2>2, <2>3, <3>1, <3>2
  <2>5. RotationTypes'
    BY <1>1, <1>3, <1>5, <2>1 DEF RotationInv, RotationTypes
  <2> QED
    BY <1>3, <2>4, <2>5 DEF RotationInv, RequestNamesAdmin
<1>9. CASE n + 1 > MaxHistory
  <2>1. history' = Tail(longer)
    BY <1>3, <1>5, <1>9
  <2>2. /\ history' \in Seq(RotationRecord)
        /\ Len(history') = n
        /\ \A i \in 1 .. n : history'[i] = longer[i + 1]
    BY <1>1, <1>5, <2>1
  <2>3. n = MaxHistory /\ n > 0 /\ ~(rotations + 1 < MaxHistory)
    BY <1>1, <1>6, <1>9
  <2>4. history'[n] = record /\ history' # <<>>
    BY <1>1, <1>5, <2>2, <2>3
  <2>5. Linked(history')
    <3> SUFFICES ASSUME NEW i \in 1 .. n - 1
                 PROVE  /\ history'[i].new = history'[i + 1].old
                        /\ history'[i].completed <= history'[i + 1].completed
                        /\ ~history'[i + 1].emergency =>
                              history'[i].completed < history'[i + 1].completed
      BY <2>2
    <3>1. i + 1 \in 1 .. n /\ i \in 1 .. n /\ i + 1 \in 1 .. (n + 1) - 1
      BY <1>1
    <3>2. history'[i] = longer[i + 1] /\ history'[i + 1] = longer[(i + 1) + 1]
      BY <2>2, <3>1
    <3> QED
      BY <1>5, <1>7, <3>1, <3>2
  <2>6. AuditTrail' /\ PlannedRotationsTakeTime'
    <3>1. n = IF rotations' < MaxHistory THEN rotations' ELSE MaxHistory
      BY <1>3, <2>3
    <3> HIDE DEF longer, Linked
    <3> QED
      BY <1>1, <1>10, <2>2, <2>3, <2>4, <2>5, <3>1
  <2>7. RotationTypes'
    BY <1>1, <1>3, <2>2 DEF RotationInv, RotationTypes
  <2> QED
    BY <1>3, <2>6, <2>7 DEF RotationInv, RequestNamesAdmin
<1> QED
  BY <1>1, <1>6, <1>8, <1>9

-----------------------------------------------------------------------------
(* The inductive invariant. *)

KeysInv == RolesInv /\ RotationInv /\ (admin # Nobody => AdminExists)

\* A call that leaves the rotation state and the Admin key alone.
LEMMA RotationUnchanged ==
  ASSUME RotationInv, UNCHANGED <<admin, rotationVars, now>>
  PROVE  RotationInv'
  BY DEF RotationInv, RotationTypes, RequestNamesAdmin, AuditTrail,
         PlannedRotationsTakeTime, rotationVars

\* A call that leaves the roles alone.
LEMMA RolesUnchanged ==
  ASSUME RolesInv, UNCHANGED roleVars
  PROVE  RolesInv' /\ (AdminExists <=> AdminExists')
  BY DEF RolesInv, RoleTypes, HoldersMatchRoles, AdminExists, roleVars

\* Storing another configuration, request or clock value keeps the trail.
LEMMA TrailUnchanged ==
  ASSUME RotationInv, UNCHANGED <<admin, history, lastRotation, rotations>>,
         now' \in Nat, now <= now', config' \in RotationConfig,
         request' \subseteq RotationRequest, RequestNamesAdmin',
         \A r \in request' : lastRotation < r.timelock
  PROVE  RotationInv'
<1>1. now \in Nat /\ lastRotation \in Nat
  BY DEF RotationInv, RotationTypes
<1>2. RotationTypes'
  BY DEF RotationInv, RotationTypes
<1>3. AuditTrail'
  BY <1>1 DEF RotationInv, AuditTrail
<1>4. PlannedRotationsTakeTime'
  BY DEF RotationInv, PlannedRotationsTakeTime
<1> QED
  BY <1>2, <1>3, <1>4 DEF RotationInv

\* initialize finds no request and no history: both would name an admin.
LEMMA InitializeOK ==
  ASSUME KeysInv, NEW caller \in Addresses, Initialize(caller)
  PROVE  KeysInv'
<1>1. /\ admin = Nobody
      /\ admin' = caller
      /\ DoGrantRole(caller, {ADMIN})
      /\ UNCHANGED <<rotationVars, now>>
  BY DEF Initialize
<1>2. RolesInv' /\ AdminExists'
  BY <1>1, GrantOK, AdminKeysAssumption DEF KeysInv
<1>3. request = {}
  BY <1>1, AdminKeysAssumption
  DEF KeysInv, RotationInv, RotationTypes, RequestNamesAdmin, RotationRequest
<1>4. history = <<>>
  <2> SUFFICES ASSUME history # <<>> PROVE FALSE
    OBVIOUS
  <2>1. history \in Seq(RotationRecord)
    BY DEF KeysInv, RotationInv, RotationTypes
  <2>2. history[Len(history)] \in RotationRecord
    BY <2>1
  <2>3. history[Len(history)].new = Nobody
    BY <1>1 DEF KeysInv, RotationInv, AuditTrail
  <2> QED
    BY <2>2, <2>3, AdminKeysAssumption DEF RotationRecord
<1>5. /\ request' = {}
      /\ history' = <<>>
      /\ config' = config
      /\ lastRotation' = lastRotation
      /\ rotations' = rotations
      /\ now' = now
  BY <1>1, <1>3, <1>4 DEF rotationVars
<1>6. RotationTypes' /\ RequestNamesAdmin'
  BY <1>1, <1>4, <1>5 DEF KeysInv, RotationInv, RotationTypes, RequestNamesAdmin
<1>7. AuditTrail'
  BY <1>4, <1>5 DEF KeysInv, RotationInv, AuditTrail
<1>8. PlannedRotationsTakeTime'
  BY <1>4, <1>5 DEF PlannedRotationsTakeTime
<1> QED
  BY <1>2, <1>6, <1>7, <1>8 DEF KeysInv, RotationInv

\* propose_rotation names the present admin and matures in a later ledger.
LEMMA ProposeOK ==
  ASSUME KeysInv, NEW new \in Addresses, ProposeKeyRotation(new)
  PROVE  KeysInv'
<1> DEFINE r == [old |-> admin, new |-> new, proposed |-> now,
                 timelock |-> now + config.timelock,
                 expires |-> now + config.timelock + config.window]
<1>1. /\ admin # Nobody
      /\ admin # new
      /\ request' = {r}
      /\ UNCHANGED <<admin, roleVars, config, history, lastRotation, rotations,
                     now>>
  BY DEF ProposeKeyRotation, SignedByAdminKey
<1>2. /\ admin \in Addresses
      /\ now \in Nat
      /\ lastRotation \in Nat
      /\ lastRotation <= now
      /\ config \in RotationConfig
  BY <1>1 DEF KeysInv, RotationInv, RotationTypes, AuditTrail
<1>3. config.timelock \in Nat \ {0} /\ config.window \in Nat \ {0}
  BY <1>2 DEF RotationConfig
<1>4. r \in RotationRequest
  BY <1>2, <1>3 DEF RotationRequest
<1>5. r.old = admin /\ r.new = new /\ lastRotation < r.timelock
  BY <1>2, <1>3
<1> HIDE DEF r
<1>6. RequestNamesAdmin'
  BY <1>1, <1>5 DEF RequestNamesAdmin
<1>7. RotationInv'
  BY <1>1, <1>2, <1>4, <1>5, <1>6, TrailUnchanged DEF KeysInv
<1> QED
  BY <1>1, <1>7, RolesUnchanged DEF KeysInv

\* confirm_rotation replaces the admin the request names, which is the
\* present one, in a later ledger than the rotation before.
LEMMA ConfirmOK ==
  ASSUME KeysInv, NEW caller \in Addresses, ConfirmKeyRotation(caller)
  PROVE  KeysInv'
<1>1. PICK r \in request : /\ caller = r.new
                           /\ r.timelock <= now
                           /\ Finalize(r.old, r.new, FALSE)
  BY DEF ConfirmKeyRotation, Mature
<1>2. /\ admin # Nobody
      /\ admin' = caller
      /\ now' = now
      /\ DoSwapAdmin(admin, caller)
  BY DEF ConfirmKeyRotation
<1>3. r.old = admin /\ lastRotation < r.timelock
  BY DEF KeysInv, RotationInv, RequestNamesAdmin, PlannedRotationsTakeTime
<1>4. r \in RotationRequest /\ now \in Nat /\ lastRotation \in Nat
  BY DEF KeysInv, RotationInv, RotationTypes
<1>5. r.timelock \in Nat
  BY <1>4 DEF RotationRequest
<1>6. lastRotation < now
  BY <1>1, <1>3, <1>4, <1>5
<1>7. admin \in Addresses
  BY <1>2 DEF KeysInv, RotationInv, RotationTypes
<1>8. RotationInv'
  BY <1>1, <1>2, <1>3, <1>6, <1>7, FinalizeOK DEF KeysInv
<1> QED
  BY <1>2, <1>7, <1>8, SwapOK DEF KeysInv

\* Every call keeps the inductive invariant.
LEMMA KeysStep ==
  ASSUME KeysInv, [Next]_keyVars
  PROVE  KeysInv'
<1> USE DEF KeysInv
<1>1. now \in Nat /\ (admin # Nobody => admin \in Addresses)
  BY DEF RotationInv, RotationTypes
<1>2. ASSUME NEW caller \in Addresses, Initialize(caller) PROVE KeysInv'
  BY <1>2, InitializeOK
<1>3. ASSUME NEW caller \in Addresses, NEW account \in Addresses,
             NEW mask \in Masks, GrantRole(caller, account, mask)
      PROVE  KeysInv'
  <2>1. mask \in SUBSET Roles
    BY AdminKeysAssumption
  <2> QED
    BY <1>3, <2>1, GrantOK, RotationUnchanged DEF GrantRole
<1>4. ASSUME NEW caller \in Addresses, NEW account \in Addresses,
             NEW mask \in Masks, RevokeRole(caller, account, mask)
      PROVE  KeysInv'
  <2>1. mask \in SUBSET Roles
    BY AdminKeysAssumption
  <2> QED
    BY <1>1, <1>4, <2>1, RevokeOK, RotationUnchanged DEF RevokeRole
<1>5. ASSUME NEW caller \in Addresses, NEW old \in Addresses,
             NEW new \in Addresses, SwapAdmin(caller, old, new)
      PROVE  KeysInv'
  BY <1>5, SwapOK, RotationUnchanged DEF SwapAdmin
<1>6. ASSUME NEW c \in Configs, ConfigureKeyRotation(c) PROVE KeysInv'
  <2>1. /\ config' = c
        /\ UNCHANGED <<admin, roleVars, request, history, lastRotation,
                       rotations, now>>
    BY <1>6 DEF ConfigureKeyRotation
  <2>2. c \in RotationConfig
    BY AdminKeysAssumption
  <2>3. request' \subseteq RotationRequest /\ RequestNamesAdmin'
    BY <2>1 DEF RotationInv, RotationTypes, RequestNamesAdmin
  <2>4. \A r \in request' : lastRotation < r.timelock
    BY <2>1 DEF RotationInv, PlannedRotationsTakeTime
  <2>5. RotationInv'
    BY <1>1, <2>1, <2>2, <2>3, <2>4, TrailUnchanged
  <2> QED
    BY <2>1, <2>5, RolesUnchanged
<1>7. ASSUME NEW new \in Addresses, ProposeKeyRotation(new) PROVE KeysInv'
  BY <1>7, ProposeOK
<1>8. ASSUME NEW caller \in Addresses, ConfirmKeyRotation(caller) PROVE KeysInv'
  BY <1>8, ConfirmOK
<1>9. CASE CancelKeyRotation
  <2>1. /\ request' = {}
        /\ UNCHANGED <<admin, roleVars, config, history, lastRotation,
                       rotations, now>>
    BY <1>9 DEF CancelKeyRotation
  <2>2. config' \in RotationConfig /\ RequestNamesAdmin'
    BY <2>1 DEF RotationInv, RotationTypes, RequestNamesAdmin
  <2>3. RotationInv'
    BY <1>1, <2>1, <2>2, TrailUnchanged
  <2> QED
    BY <2>1, <2>3, RolesUnchanged
<1>10. ASSUME NEW account \in Addresses, NEW mask \in SUBSET Roles,
              QuorumGrantRole(account, mask)
       PROVE  KeysInv'
  BY <1>10, GrantOK, RotationUnchanged DEF QuorumGrantRole
<1>11. ASSUME NEW account \in Addresses, NEW mask \in SUBSET Roles,
              QuorumRevokeRole(account, mask)
       PROVE  KeysInv'
  BY <1>1, <1>11, RevokeOK, RotationUnchanged DEF QuorumRevokeRole
<1>12. ASSUME NEW new \in Addresses, EmergencyRotate(new) PROVE KeysInv'
  <2>1. /\ admin # Nobody
        /\ Finalize(admin, new, TRUE)
        /\ admin' = new
        /\ DoSwapAdmin(admin, new)
        /\ now' = now
    BY <1>12 DEF EmergencyRotate, DoEmergencyRotate
  <2>2. RotationInv'
    BY <1>1, <2>1, FinalizeOK
  <2> QED
    BY <1>1, <2>1, <2>2, SwapOK
<1>13. CASE Tick
  <2>1. now' = now + 1 /\ UNCHANGED <<admin, roleVars, rotationVars>>
    BY <1>13 DEF Tick
  <2>2. /\ config' \in RotationConfig
        /\ request' \subseteq RotationRequest
        /\ RequestNamesAdmin'
    BY <2>1 DEF RotationInv, RotationTypes, RequestNamesAdmin, rotationVars
  <2>3. \A r \in request' : lastRotation < r.timelock
    BY <2>1 DEF RotationInv, PlannedRotationsTakeTime, rotationVars
  <2>4. RotationInv'
    BY <1>1, <2>1, <2>2, <2>3, TrailUnchanged DEF rotationVars
  <2> QED
    BY <2>1, <2>4, RolesUnchanged
<1>14. CASE UNCHANGED keyVars
  BY <1>14, RolesUnchanged, RotationUnchanged DEF keyVars
<1> QED
  BY <1>2, <1>3, <1>4, <1>5, <1>6, <1>7, <1>8, <1>9, <1>10, <1>11, <1>12,
     <1>13, <1>14
  DEF Next, RoleCall, RotationCall, QuorumCall

\* The initial state satisfies the inductive invariant.
LEMMA KeysInit == ASSUME Init PROVE KeysInv
<1>1. RolesInv
  BY AdminKeysAssumption
  DEF Init, RolesInv, RoleTypes, HoldersMatchRoles
<1>2. RotationTypes /\ RequestNamesAdmin
  BY AdminKeysAssumption DEF Init, RotationTypes, RequestNamesAdmin
<1>3. AuditTrail /\ PlannedRotationsTakeTime
  BY AdminKeysAssumption DEF Init, AuditTrail, PlannedRotationsTakeTime
<1> QED
  BY <1>1, <1>2, <1>3 DEF Init, KeysInv, RotationInv

\* Hence the inductive invariant holds in every behaviour.
LEMMA KeysInvariant == Spec => []KeysInv
<1>1. Init => KeysInv
  BY KeysInit
<1>2. KeysInv /\ [Next]_keyVars => KeysInv'
  BY KeysStep
<1> QED
  BY <1>1, <1>2, PTL DEF Spec

-----------------------------------------------------------------------------
(* What follows, for every value of the constants *)

\* Roles, keys, requests and records keep their types.
THEOREM AdminKeysTypeCorrect == Spec => []AdminKeysTypeOK
<1>1. KeysInv => AdminKeysTypeOK
  BY DEF KeysInv, RolesInv, RoleTypes, RotationInv, RotationTypes,
         AdminKeysTypeOK
<1> QED
  BY <1>1, KeysInvariant, PTL

\* The RoleHolders index that admin_count walks never misses an account.
THEOREM HoldersAlwaysMatchRoles == Spec => []HoldersMatchRoles
<1>1. KeysInv => HoldersMatchRoles
  BY DEF KeysInv, RolesInv
<1> QED
  BY <1>1, KeysInvariant, PTL

\* After initialize there is always an account with ROLE_ADMIN, and it is
\* not the zero account.
THEOREM AdminAlwaysRemains == Spec => []SomeAdminRemains
<1>1. KeysInv => SomeAdminRemains
  BY DEF KeysInv, RolesInv, AdminExists, SomeAdminRemains
<1> QED
  BY <1>1, KeysInvariant, PTL

\* A stored rotation request always names the present admin.
THEOREM RequestsNameAdmin == Spec => []RequestNamesAdmin
<1>1. KeysInv => RequestNamesAdmin
  BY DEF KeysInv, RotationInv
<1> QED
  BY <1>1, KeysInvariant, PTL

\* The rotation history is always a gapless trail ending at the present admin.
THEOREM HistoryIsAuditTrail == Spec => []AuditTrail
<1>1. KeysInv => AuditTrail
  BY DEF KeysInv, RotationInv
<1> QED
  BY <1>1, KeysInvariant, PTL

\* Two rotations of one ledger: the second was an emergency.
THEOREM PlannedRotationsAlwaysTakeTime == Spec => []PlannedRotationsTakeTime
<1>1. KeysInv => PlannedRotationsTakeTime
  BY DEF KeysInv, RotationInv
<1> QED
  BY <1>1, KeysInvariant, PTL

\* What RotationMovesRole says of one step.
MovesRole ==
    admin' # admin /\ admin # Nobody =>
       /\ ADMIN \in roles'[admin']
       /\ ADMIN \notin roles'[admin]
       /\ request' = {}
       /\ \A a \in Addresses : roles'[a] \ {ADMIN} = roles[a] \ {ADMIN}
       /\ \A a \in Addresses \ {admin, admin'} : roles'[a] = roles[a]

\* The swap of a rotation touches ROLE_ADMIN of the two accounts only.
LEMMA SwapMovesRole ==
  ASSUME KeysInv, admin # Nobody, NEW new \in Addresses, admin' = new,
         request' = {}, DoSwapAdmin(admin, new)
  PROVE  MovesRole
<1>1. admin \in Addresses /\ roles \in [Addresses -> SUBSET Roles]
  BY DEF KeysInv, RolesInv, RoleTypes, RotationInv, RotationTypes
<1>2. roles' = [a \in Addresses |-> IF a = new THEN roles[a] \cup {ADMIN}
                                    ELSE IF a = admin THEN roles[a] \ {ADMIN}
                                    ELSE roles[a]]
  BY DEF DoSwapAdmin, Swapped, SetRoles
<1> QED
  BY <1>1, <1>2 DEF MovesRole

\* Only confirm and the emergency rotation change the Admin key once it is
\* set, and both move ROLE_ADMIN with it and clear the stored request.
THEOREM RotationsMoveRole == Spec => RotationMovesRole
<1>1. KeysInv /\ [Next]_keyVars => MovesRole
  <2> SUFFICES ASSUME KeysInv, [Next]_keyVars, admin' # admin, admin # Nobody
               PROVE  MovesRole
    BY DEF MovesRole
  <2>1. PICK new \in Addresses : ConfirmKeyRotation(new) \/ EmergencyRotate(new)
    BY DEF Next, RoleCall, RotationCall, QuorumCall, Initialize, GrantRole,
           RevokeRole, SwapAdmin, ConfigureKeyRotation, ProposeKeyRotation,
           CancelKeyRotation, QuorumGrantRole, QuorumRevokeRole, Tick, keyVars
  <2>2. admin' = new /\ request' = {} /\ DoSwapAdmin(admin, new)
    BY <2>1 DEF ConfirmKeyRotation, EmergencyRotate, DoEmergencyRotate, Finalize,
        RequestCleared
  <2> QED
    BY <2>2, SwapMovesRole
<1>2. MovesRole => [admin' # admin /\ admin # Nobody =>
          /\ ADMIN \in roles'[admin']
          /\ ADMIN \notin roles'[admin]
          /\ request' = {}
          /\ \A a \in Addresses : roles'[a] \ {ADMIN} = roles[a] \ {ADMIN}
          /\ \A a \in Addresses \ {admin, admin'} : roles'[a] = roles[a]]_keyVars
  BY DEF MovesRole
<1> QED
  BY <1>1, <1>2, KeysInvariant, PTL DEF Spec, RotationMovesRole

=============================================================================
