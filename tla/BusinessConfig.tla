--------------------------- MODULE BusinessConfig ---------------------------
(***************************************************************************)
(* Per-business configuration (contracts/business-config): five sections   *)
(* per business, global defaults for a business without a record of its    *)
(* own, and anchors that lock a section for good.                          *)
(*                                                                         *)
(* A section's content is a member of a small set.  The invalid members    *)
(* of the anomaly and fee sections are the ones the validators reject.     *)
(***************************************************************************)
EXTENDS ProtocolWorld

CONSTANTS
    Firms,            \* businesses
    ConfigSections,   \* the sections: anomaly, fees, and those not validated
    SectionContents,  \* contents a caller may pass for a section
    InvalidContents,  \* the ones a validator rejects
    BuiltIn,          \* the contents create_default_config fills in
    MaxConfigVersion  \* bound on a configuration's version

ASSUME BusinessConfigAssumption ==
    /\ BuiltIn \in SectionContents \ InvalidContents
    /\ {"anomaly", "fees"} \subseteq ConfigSections
    /\ Absent \notin [contents : [ConfigSections -> SectionContents], version : Nat]

VARIABLES
    cfgAdmin,     \* Admin, with Initialized
    cfgDefaults,  \* GlobalDefaults
    cfgOwn,       \* BusinessConfig(business)
    cfgAnchors    \* AnchorConfig(business): the anchored sections

configVars == <<cfgAdmin, cfgDefaults, cfgOwn, cfgAnchors>>

Contents == [ConfigSections -> SectionContents]

\* create_default_config
DefaultConfig == [contents |-> [s \in ConfigSections |-> BuiltIn], version |-> 0]

ConfigInit ==
    /\ cfgAdmin = Nobody
    /\ cfgDefaults = Absent
    /\ cfgOwn = [b \in Firms |-> Absent]
    /\ cfgAnchors = [b \in Firms |-> {}]

ConfigOrDefault(b) ==
    IF cfgOwn[b] # Absent THEN cfgOwn[b]
    ELSE IF cfgDefaults # Absent THEN cfgDefaults ELSE DefaultConfig

ValidateAnomalyPolicy(content) == content \notin InvalidContents

ValidateCustomFees(content) == content \notin InvalidContents

\* The validator of a section, where it has one.
Validate(s, content) ==
    CASE s = "anomaly" -> ValidateAnomalyPolicy(content)
      [] s = "fees" -> ValidateCustomFees(content)
      [] OTHER -> TRUE

CfgInitialize(admin) ==
    /\ cfgAdmin = Nobody
    /\ cfgAdmin' = admin
    /\ cfgDefaults' = DefaultConfig
    /\ UNCHANGED <<protocolWorld, cfgOwn, cfgAnchors>>

\* Mutant: a full replace does not look at the anchors.
ReplaceAnyway(b) == TRUE

\* The anchors bind a full replace only once a record exists.
MayReplace(b) == cfgOwn[b] = Absent \/ cfgAnchors[b] = {}

SetBusinessConfig(caller, b, contents) ==
    /\ caller = cfgAdmin
    /\ Validate("anomaly", contents["anomaly"])
    /\ Validate("fees", contents["fees"])
    /\ MayReplace(b)
    /\ LET version == IF cfgOwn[b] = Absent THEN 1 ELSE cfgOwn[b].version + 1
       IN  /\ version <= MaxConfigVersion
           /\ cfgOwn' = [cfgOwn EXCEPT ![b] =
                            [contents |-> contents, version |-> version]]
    /\ UNCHANGED <<protocolWorld, cfgAdmin, cfgDefaults, cfgAnchors>>

\* update_anomaly_policy, update_integrations, update_expiry_config,
\* update_custom_fees and update_compliance: a business without a record of its
\* own gets a copy of the defaults as they are now.
UpdateSection(caller, b, s, content) ==
    /\ caller = cfgAdmin
    /\ Validate(s, content)
    /\ s \notin cfgAnchors[b]
    /\ LET config == ConfigOrDefault(b)
       IN  /\ config.version < MaxConfigVersion
           /\ cfgOwn' = [cfgOwn EXCEPT ![b] =
                            [contents |-> [config.contents EXCEPT ![s] = content],
                             version |-> config.version + 1]]
    /\ UNCHANGED <<protocolWorld, cfgAdmin, cfgDefaults, cfgAnchors>>

\* The fee section of the defaults is not validated.
SetGlobalDefaults(caller, contents) ==
    /\ caller = cfgAdmin
    /\ Validate("anomaly", contents["anomaly"])
    /\ cfgDefaults' = [contents |-> contents, version |-> 1]
    /\ UNCHANGED <<protocolWorld, cfgAdmin, cfgOwn, cfgAnchors>>

MergedAnchors(b, anchors) == cfgAnchors[b] \cup anchors

SetAnchorConfig(caller, b, anchors) ==
    /\ caller = cfgAdmin
    /\ cfgAnchors' = [cfgAnchors EXCEPT ![b] = MergedAnchors(b, anchors)]
    /\ UNCHANGED <<protocolWorld, cfgAdmin, cfgDefaults, cfgOwn>>

ConfigNext ==
    /\ site = "config"
    /\ \E caller \in Accounts :
          \/ CfgInitialize(caller)
          \/ \E contents \in Contents : SetGlobalDefaults(caller, contents)
          \/ \E b \in Firms :
                \/ \E contents \in Contents : SetBusinessConfig(caller, b, contents)
                \/ \E s \in ConfigSections, content \in SectionContents :
                      UpdateSection(caller, b, s, content)
                \/ \E anchors \in SUBSET ConfigSections :
                      SetAnchorConfig(caller, b, anchors)

-----------------------------------------------------------------------------
(* Properties *)

\* Anchoring is final: once a business has a record of its own, no sequence of
\* updates, full replaces, new defaults or further anchor calls changes an
\* anchored section of what get_config answers, or lifts the anchor.
AnchoredStaysPut ==
    [][\A b \in Firms : \A s \in cfgAnchors[b] :
          /\ s \in cfgAnchors'[b]
          /\ cfgOwn[b] # Absent =>
                ConfigOrDefault(b)'.contents[s] = ConfigOrDefault(b).contents[s]
      ]_configVars

=============================================================================
