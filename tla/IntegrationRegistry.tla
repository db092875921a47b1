------------------------- MODULE IntegrationRegistry -------------------------
(***************************************************************************)
(* The integration registry (contracts/integration-registry): providers    *)
(* registered per namespace and moved through their lifecycle by the       *)
(* admin, by global governance or by the namespace's own governors.  Every *)
(* call consumes the caller's nonce on a channel; a call passes the nonce  *)
(* get_replay_nonce shows, any other one panics.                           *)
(***************************************************************************)
EXTENDS ProtocolWorld, SequencesExt

CONSTANTS
    Namespaces,      \* namespace names
    ProviderIds,     \* provider identifiers
    ProviderData,    \* metadata a caller may pass: the length of each field
    MetadataLimits   \* MAX_PROVIDER_METADATA_*_BYTES, per field

VARIABLES
    intAdmin,      \* Admin
    globalGov,     \* the accounts whose GovernanceRole is true
    nsGov,         \* NamespaceGovernance(namespace, account): absent, or a flag
    nsList,        \* NamespaceList
    providers,     \* Provider(namespace, id)
    providerList,  \* NamespaceProviderList(namespace)
    intNonces      \* the nonces used up, per account and channel

registryState == <<intAdmin, globalGov, nsGov, nsList, providers, providerList,
                   intNonces>>

NonceChannels == {"admin", "governance", "namespace"}

Provider ==
    [status : {"registered", "enabled", "deprecated", "disabled"},
     metadata : ProviderData, by : Accounts]

ASSUME IntegrationAssumption == Absent \notin Provider

IntegrationInit ==
    /\ intAdmin = Nobody
    /\ globalGov = {}
    /\ nsGov = [k \in Namespaces \X Accounts |-> "absent"]
    /\ nsList = <<>>
    /\ providers = [k \in Namespaces \X ProviderIds |-> Absent]
    /\ providerList = [n \in Namespaces |-> <<>>]
    /\ intNonces = [k \in Accounts \X NonceChannels |-> 0]

\* verify_and_increment_nonce
UseNonce(caller, channel) ==
    /\ intNonces[<<caller, channel>>] < MaxNonce
    /\ intNonces' = [intNonces EXCEPT ![<<caller, channel>>] = @ + 1]

RequireIntAdmin(caller) == caller = intAdmin

RequireGovernance(caller) == caller = intAdmin \/ caller \in globalGov

HasNamespaceGovernance(ns, account) ==
    RequireGovernance(account) \/ nsGov[<<ns, account>>] = "granted"

ValidProviderMetadata(metadata) ==
    \A f \in DOMAIN metadata : metadata[f] \in 1 .. MetadataLimits[f]

IntInitialize(admin) ==
    /\ intAdmin = Nobody
    /\ UseNonce(admin, "admin")
    /\ intAdmin' = admin
    /\ globalGov' = globalGov \cup {admin}
    /\ UNCHANGED <<protocolWorld, nsGov, nsList, providers, providerList>>

IntGrantGovernance(admin, account) ==
    /\ RequireIntAdmin(admin)
    /\ UseNonce(admin, "admin")
    /\ globalGov' = globalGov \cup {account}
    /\ UNCHANGED <<protocolWorld, intAdmin, nsGov, nsList, providers, providerList>>

IntRevokeGovernance(admin, account) ==
    /\ RequireIntAdmin(admin)
    /\ UseNonce(admin, "admin")
    /\ globalGov' = globalGov \ {account}
    /\ UNCHANGED <<protocolWorld, intAdmin, nsGov, nsList, providers, providerList>>

\* An owner who was revoked keeps the stored key, so is never "new" again.
RegisterNamespace(caller, ns, owner) ==
    /\ RequireGovernance(caller)
    /\ UseNonce(caller, "governance")
    /\ nsGov[<<ns, owner>>] = "absent"
    /\ nsGov' = [nsGov EXCEPT ![<<ns, owner>>] = "granted"]
    /\ nsList' = IF ns \in Range(nsList) THEN nsList ELSE Append(nsList, ns)
    /\ UNCHANGED <<protocolWorld, intAdmin, globalGov, providers, providerList>>

\* grant_namespace_governance and revoke_namespace_governance
GrantNamespaceGovernance(caller, ns, account) ==
    /\ HasNamespaceGovernance(ns, caller)
    /\ UseNonce(caller, "namespace")
    /\ nsGov' = [nsGov EXCEPT ![<<ns, account>>] = "granted"]
    /\ UNCHANGED <<protocolWorld, intAdmin, globalGov, nsList, providers,
                   providerList>>

RevokeNamespaceGovernance(caller, ns, account) ==
    /\ HasNamespaceGovernance(ns, caller)
    /\ UseNonce(caller, "namespace")
    /\ nsGov' = [nsGov EXCEPT ![<<ns, account>>] = "revoked"]
    /\ UNCHANGED <<protocolWorld, intAdmin, globalGov, nsList, providers,
                   providerList>>

\* Mutant: an id may be registered again.
RegisterAgain(ns, id) == TRUE

NotRegistered(ns, id) == providers[<<ns, id>>] = Absent

\* The namespace itself need not be registered when the caller is the admin or
\* has global governance.
RegisterProvider(caller, ns, id, metadata) ==
    /\ HasNamespaceGovernance(ns, caller)
    /\ UseNonce(caller, "governance")
    /\ ValidProviderMetadata(metadata)
    /\ NotRegistered(ns, id)
    /\ providers' = [providers EXCEPT ![<<ns, id>>] =
                        [status |-> "registered", metadata |-> metadata,
                         by |-> caller]]
    /\ providerList' = [providerList EXCEPT ![ns] = Append(@, id)]
    /\ UNCHANGED <<protocolWorld, intAdmin, globalGov, nsGov, nsList>>

\* A lifecycle call: from one of the statuses `from` to the status `to`.
MoveProvider(caller, ns, id, from, to) ==
    /\ HasNamespaceGovernance(ns, caller)
    /\ UseNonce(caller, "governance")
    /\ providers[<<ns, id>>] # Absent
    /\ providers[<<ns, id>>].status \in from
    /\ providers' = [providers EXCEPT ![<<ns, id>>].status = to]
    /\ UNCHANGED <<protocolWorld, intAdmin, globalGov, nsGov, nsList, providerList>>

EnableProvider(caller, ns, id) ==
    MoveProvider(caller, ns, id, {"registered", "deprecated", "disabled"}, "enabled")

DeprecateProvider(caller, ns, id) ==
    MoveProvider(caller, ns, id, {"enabled"}, "deprecated")

DisableProvider(caller, ns, id) ==
    MoveProvider(caller, ns, id, {"registered", "enabled", "deprecated"}, "disabled")

UpdateMetadata(caller, ns, id, metadata) ==
    /\ HasNamespaceGovernance(ns, caller)
    /\ UseNonce(caller, "governance")
    /\ ValidProviderMetadata(metadata)
    /\ providers[<<ns, id>>] # Absent
    /\ providers' = [providers EXCEPT ![<<ns, id>>].metadata = metadata]
    /\ UNCHANGED <<protocolWorld, intAdmin, globalGov, nsGov, nsList, providerList>>

IntegrationNext ==
    /\ site = "integration"
    /\ \E caller \in Accounts :
          \/ IntInitialize(caller)
          \/ \E account \in Accounts :
                \/ IntGrantGovernance(caller, account)
                \/ IntRevokeGovernance(caller, account)
                \/ \E ns \in Namespaces :
                      \/ RegisterNamespace(caller, ns, account)
                      \/ GrantNamespaceGovernance(caller, ns, account)
                      \/ RevokeNamespaceGovernance(caller, ns, account)
          \/ \E ns \in Namespaces, id \in ProviderIds :
                \/ EnableProvider(caller, ns, id)
                \/ DeprecateProvider(caller, ns, id)
                \/ DisableProvider(caller, ns, id)
                \/ \E metadata \in ProviderData :
                      \/ RegisterProvider(caller, ns, id, metadata)
                      \/ UpdateMetadata(caller, ns, id, metadata)

-----------------------------------------------------------------------------
(* Properties *)

\* get_namespace_providers lists every provider of the namespace, once, and
\* nothing else; get_all_namespaces lists a namespace once.
ProvidersListed ==
    /\ IsInjective(nsList)
    /\ \A ns \in Namespaces :
          /\ IsInjective(providerList[ns])
          /\ Range(providerList[ns]) =
                {id \in ProviderIds : providers[<<ns, id>>] # Absent}

=============================================================================
