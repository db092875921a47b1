------------------------- MODULE AttestationRegistry -------------------------
(***************************************************************************)
(* The attestation registry (contracts/attestation-registry): the current  *)
(* implementation and the one before it, upgrade and rollback, and the     *)
(* attestation keys that can be registered once.                           *)
(***************************************************************************)
EXTENDS ProtocolWorld

CONSTANTS
    Implementations,   \* contract addresses an upgrade may name
    RegistryVersions,  \* version numbers a caller may pass
    AttestationNames   \* attestation keys

ASSUME RegistryAssumption == RegistryVersions \subseteq Nat

VARIABLES
    regAdmin,     \* Admin, Nobody before initialize
    current,      \* CurrentImplementation and CurrentVersion, or Absent
    previous,     \* PreviousImplementation and PreviousVersion, or Absent
    attestKeys    \* AttestationKey(attester, key)

registryVars == <<regAdmin, current, previous, attestKeys>>

Deployed(impl, version) == [impl |-> impl, version |-> version]

RegistryInit ==
    /\ regAdmin = Nobody
    /\ current = Absent
    /\ previous = Absent
    /\ attestKeys = {}

RegInitialize(caller, impl, version) ==
    /\ regAdmin = Nobody
    /\ regAdmin' = caller
    /\ current' = Deployed(impl, version)
    /\ UNCHANGED <<protocolWorld, previous, attestKeys>>

\* Mutant: any address is a valid implementation.
AnyImplementation(impl) == TRUE

\* validate_implementation: a real change, and not the admin's own address.
ValidateImplementation(impl) == impl \notin {current.impl, regAdmin}

Upgrade(impl, version) ==
    /\ regAdmin # Nobody
    /\ ValidateImplementation(impl)
    /\ version > current.version
    /\ previous' = current
    /\ current' = Deployed(impl, version)
    /\ UNCHANGED <<protocolWorld, regAdmin, attestKeys>>

Rollback ==
    /\ regAdmin # Nobody
    /\ previous # Absent
    /\ current' = previous
    /\ previous' = current
    /\ UNCHANGED <<protocolWorld, regAdmin, attestKeys>>

RegisterAttestationKey(attester, key) ==
    /\ regAdmin # Nobody
    /\ <<attester, key>> \notin attestKeys
    /\ attestKeys' = attestKeys \cup {<<attester, key>>}
    /\ UNCHANGED <<protocolWorld, regAdmin, current, previous>>

RegTransferAdmin(new) ==
    /\ regAdmin # Nobody
    /\ regAdmin' = new
    /\ UNCHANGED <<protocolWorld, current, previous, attestKeys>>

RegistryNext ==
    /\ site = "registry"
    /\ \/ \E impl \in Implementations, version \in RegistryVersions :
             \/ \E caller \in Accounts : RegInitialize(caller, impl, version)
             \/ Upgrade(impl, version)
       \/ Rollback
       \/ \E attester \in Accounts, key \in AttestationNames :
             RegisterAttestationKey(attester, key)
       \/ \E new \in Accounts : RegTransferAdmin(new)

-----------------------------------------------------------------------------
(* Properties *)

\* A rollback is always a real one: through any mix of upgrades, rollbacks and
\* admin transfers, the implementation and the version kept for it differ from
\* the current ones.
RollbackTargetDiffers ==
    current # Absent /\ previous # Absent =>
        current.impl # previous.impl /\ current.version # previous.version

=============================================================================
