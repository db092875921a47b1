---------------------------- MODULE NetworkConfig ----------------------------
(***************************************************************************)
(* Network configuration (contracts/network-config): roles kept as a bit   *)
(* set and a list of their holders, network records with a version each    *)
(* and one for all, and the implementation pointer with its rollback.  The *)
(* pause flag, the asset table and the default network are stored but no   *)
(* entry point changes or reads them after initialize.                     *)
(***************************************************************************)
EXTENDS ProtocolWorld, SequencesExt

CONSTANTS
    NetworkIds,        \* network ids a caller may pass, 0 included
    NetworkRecords,    \* [valid]: configurations, accepted or not
    NetImplementations,\* implementations an upgrade may name
    NetVersions,       \* version numbers an upgrade may name
    MaxNetworkSets     \* bound on GlobalVersion

ASSUME NetworkAssumption ==
    /\ IsFiniteSet(NetworkIds)
    /\ Absent \notin NetworkRecords

VARIABLES
    netAdmin,     \* Admin, with Initialized
    netRoles,     \* Role(account): the set of roles whose bit is set
    roleHolders,  \* RoleHolders
    networks,     \* NetworkConfig(id)
    netList,      \* RegisteredNetworks
    netVersion,   \* NetworkVersion(id)
    netGlobal,    \* GlobalVersion
    netCurrent,   \* CurrentImplementation and CurrentVersion
    netPrevious   \* PreviousImplementation and PreviousVersion

networkVars == <<netAdmin, netRoles, roleHolders, networks, netList, netVersion,
                 netGlobal, netCurrent, netPrevious>>

NetRoles == {"admin", "governance", "operator"}

NetworkInit ==
    /\ netAdmin = Nobody
    /\ netRoles = [a \in Accounts |-> {}]
    /\ roleHolders = <<>>
    /\ networks = [n \in NetworkIds |-> Absent]
    /\ netList = <<>>
    /\ netVersion = [n \in NetworkIds |-> 0]
    /\ netGlobal = 0
    /\ netCurrent = Absent
    /\ netPrevious = Absent

RequireNetGovernance(caller) == netRoles[caller] \cap {"admin", "governance"} # {}

ListedWith(list, account) ==
    IF account \in Range(list) THEN list ELSE Append(list, account)

\* Granting no bit at all still lists the account.
GrantedRoles(account, roles) == [netRoles EXCEPT ![account] = @ \cup roles]

\* Mutant: an account leaves the list on any revocation.
DelistedAlways(account, roles) == RemoveFirst(roleHolders, account)

DelistedWhenBare(account, roles) ==
    IF netRoles[account] \subseteq roles
    THEN RemoveFirst(roleHolders, account)
    ELSE roleHolders

NetInitialize(admin, dao) ==
    /\ netAdmin = Nobody
    /\ netAdmin' = admin
    /\ netRoles' = [a \in Accounts |->
                       netRoles[a] \cup (IF a = admin THEN {"admin"} ELSE {})
                          \cup (IF a = dao THEN {"governance"} ELSE {})]
    /\ roleHolders' = LET listed == ListedWith(roleHolders, admin)
                      IN  IF dao = Nobody THEN listed ELSE ListedWith(listed, dao)
    /\ UNCHANGED <<protocolWorld, networks, netList, netVersion, netGlobal,
                   netCurrent, netPrevious>>

NetGrantRole(caller, account, roles) ==
    /\ "admin" \in netRoles[caller]
    /\ netRoles' = GrantedRoles(account, roles)
    /\ roleHolders' = ListedWith(roleHolders, account)
    /\ UNCHANGED <<protocolWorld, netAdmin, networks, netList, netVersion,
                   netGlobal, netCurrent, netPrevious>>

\* The last admin may revoke itself.
NetRevokeRole(caller, account, roles) ==
    /\ "admin" \in netRoles[caller]
    /\ netRoles' = [netRoles EXCEPT ![account] = @ \ roles]
    /\ roleHolders' = DelistedWhenBare(account, roles)
    /\ UNCHANGED <<protocolWorld, netAdmin, networks, netList, netVersion,
                   netGlobal, netCurrent, netPrevious>>

\* Mutant: only a new network counts in the global version.
CountNewOnly(n) == IF networks[n] = Absent THEN netGlobal + 1 ELSE netGlobal

IncrementGlobalVersion(n) == netGlobal + 1

\* storage::set_network_config
StoreNetworkConfig(n, record) ==
    /\ networks' = [networks EXCEPT ![n] = record]
    /\ netVersion' = [netVersion EXCEPT ![n] = @ + 1]
    /\ netList' = ListedWith(netList, n)

SetNetworkConfig(caller, n, record) ==
    /\ RequireNetGovernance(caller)
    /\ n # 0
    /\ record.valid
    /\ netGlobal < MaxNetworkSets
    /\ StoreNetworkConfig(n, record)
    /\ netGlobal' = IncrementGlobalVersion(n)
    /\ UNCHANGED <<protocolWorld, netAdmin, netRoles, roleHolders, netCurrent,
                   netPrevious>>

\* Unlike the attestation registry's, this upgrade accepts the implementation
\* already in use; the first one leaves nothing to roll back to.
NetUpgrade(caller, impl, version) ==
    /\ netAdmin # Nobody
    /\ RequireNetGovernance(caller)
    /\ version > (IF netCurrent = Absent THEN 0 ELSE netCurrent.version)
    /\ netPrevious' = IF netCurrent = Absent THEN netPrevious ELSE netCurrent
    /\ netCurrent' = [impl |-> impl, version |-> version]
    /\ UNCHANGED <<protocolWorld, netAdmin, netRoles, roleHolders, networks,
                   netList, netVersion, netGlobal>>

NetRollback(caller) ==
    /\ netAdmin # Nobody
    /\ RequireNetGovernance(caller)
    /\ netPrevious # Absent
    /\ netCurrent' = netPrevious
    /\ netPrevious' = netCurrent
    /\ UNCHANGED <<protocolWorld, netAdmin, netRoles, roleHolders, networks,
                   netList, netVersion, netGlobal>>

NetworkNext ==
    /\ site = "network"
    /\ \E caller \in Accounts :
          \/ \E dao \in Accounts \cup {Nobody} : NetInitialize(caller, dao)
          \/ \E account \in Accounts, roles \in SUBSET NetRoles :
                \/ NetGrantRole(caller, account, roles)
                \/ NetRevokeRole(caller, account, roles)
          \/ \E n \in NetworkIds, record \in NetworkRecords :
                SetNetworkConfig(caller, n, record)
          \/ \E impl \in NetImplementations, version \in NetVersions :
                NetUpgrade(caller, impl, version)
          \/ NetRollback(caller)

-----------------------------------------------------------------------------
(* Properties *)

\* get_role_holders lists every account with a role once, and
\* RegisteredNetworks every configured network once.
HoldersAndNetworksListed ==
    /\ IsInjective(roleHolders)
    /\ \A a \in Accounts : netRoles[a] # {} => a \in Range(roleHolders)
    /\ IsInjective(netList)
    /\ Range(netList) = {n \in NetworkIds : networks[n] # Absent}

\* The global version counts every change of every network: a reader that
\* polls it misses no update of a network's own version.
GlobalVersionCounts ==
    netGlobal = SumFunctionOnSet(netVersion, NetworkIds)

=============================================================================
