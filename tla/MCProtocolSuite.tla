--------------------------- MODULE MCProtocolSuite ---------------------------
(* A small instance of ProtocolSuite for TLC. *)
EXTENDS ProtocolSuite

CONSTANTS ann, bob, shop, r1, r2, till, box, dao, vault, usd, eur, sOld, sNew

MCSites == {"dao", "gating", "delegation", "network", "config", "snapshot",
            "registry", "aggregated", "metrics", "audit", "ranges",
            "integration", "lender", "consumer", "curve", "limits", "fees",
            "discounts", "flat", "epochs", "slashing"}
OnlySlashing == {"slashing"}
MCAccounts == {ann, bob}
MCMaxClock ==
    [s \in Sites |-> CASE s \in {"dao", "aggregated", "metrics", "slashing"} -> 2
                         [] s = "limits" -> 4
                         [] s \in {"flat", "epochs"} -> 0
                         [] OTHER -> 1]

\* Defaults and a duration that is over within the run.
MCDaoConfigs == {[min |-> 0, duration |-> 0], [min |-> 2, duration |-> 1],
                 [min |-> 3, duration |-> 1]}

MCHolderSets == {{ann}}

MCNetworkRecords == {[valid |-> TRUE], [valid |-> FALSE]}
MCProviderData == {[name |-> 1, url |-> 2], [name |-> 0, url |-> 1]}
MCMetadataLimits == [name |-> 1, url |-> 2]

\* One business in two epochs; batches that agree with each other in what the
\* batch hash covers and differ in what it does not.
Entry(e, revenue, at, schema) ==
    [key |-> <<shop, e>>, record |-> [revenue |-> revenue, at |-> at],
     schema |-> schema, count |-> 1]
MCRestoreBatches ==
    {<<Entry(1, 1, 0, 1)>>, <<Entry(1, 2, 0, 1)>>, <<Entry(2, 1, 0, 1)>>,
     <<Entry(1, 1, 0, 2)>>, <<Entry(1, 1, 0, 1), Entry(2, 1, 0, 1)>>}
MCWriterSets == {{}, {bob}}
MCBusinessLists == {<<shop>>}

MCReportRevenues == {-1, 1}

MCPolicies ==
    {[min |-> 1, max |-> 6, base |-> 2, premium |-> 1, enabled |-> TRUE],
     [min |-> 0, max |-> 3, base |-> 1, premium |-> 2, enabled |-> TRUE],
     [min |-> 0, max |-> 9, base |-> 1, premium |-> 1, enabled |-> FALSE],
     [min |-> 3, max |-> 2, base |-> 2, premium |-> 0, enabled |-> TRUE]}
Tier(min, discount) == [min |-> min, discount |-> discount]
MCTierLists ==
    {<<>>, <<Tier(1, 1)>>, <<Tier(0, 0), Tier(2, 2)>>, <<Tier(1, 2), Tier(2, 1)>>,
     <<Tier(2, 3), Tier(3, 3)>>, <<Tier(1, 11)>>}

Limit(max, window, burst, burstWindow, enabled) ==
    [max |-> max, window |-> window, burst |-> burst,
     burstWindow |-> burstWindow, enabled |-> enabled]
MCLimitConfigs ==
    {Limit(3, 3, 2, 1, TRUE), Limit(2, 2, 1, 1, TRUE), Limit(3, 3, 2, 1, FALSE),
     Limit(4, 3, 2, 1, TRUE)}

Fee(token, collector, fee) ==
    [token |-> token, collector |-> collector, fee |-> fee, on |-> TRUE]
MCFeeConfigs == {Fee(usd, till, 2), Fee(eur, box, 1)}
Bracket(threshold, discount) == [threshold |-> threshold, discount |-> discount]
MCBracketLists == {<<Bracket(1, 50), Bracket(2, 100)>>, <<Bracket(2, 50), Bracket(1, 0)>>}
=============================================================================
