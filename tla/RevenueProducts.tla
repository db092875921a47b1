--------------------------- MODULE RevenueProducts ---------------------------
(***************************************************************************)
(* The four product contracts over one world of tokens and attestations.   *)
(* One of them is deployed at Self; they meet only in that world.          *)
(***************************************************************************)
EXTENDS RevenueStream, RevenueSettlement, RevenueShare, RevenueBonds

productVars == <<streamVars, settlementVars, shareVars, bondVars>>
productsVars == <<world, productVars>>

ProductsInit ==
    /\ WorldInit
    /\ StreamInit
    /\ SettlementInit
    /\ ShareInit
    /\ BondsInit

ProductsNext ==
    \/ StreamNext /\ UNCHANGED <<settlementVars, shareVars, bondVars>>
    \/ SettlementNext /\ UNCHANGED <<streamVars, shareVars, bondVars>>
    \/ ShareNext /\ UNCHANGED <<streamVars, settlementVars, bondVars>>
    \/ BondsNext /\ UNCHANGED <<streamVars, settlementVars, shareVars>>

\* release is open to anyone: whoever is owed calls it as long as the call
\* would succeed.  Nothing is assumed of the admin, of the attestation contract
\* or of the clock.
ReleaseFairness ==
    \A i \in 1 .. MaxStreams :
        WF_productsVars(Release(i) /\ UNCHANGED <<settlementVars, shareVars,
                                                  bondVars>>)

ProductsSpec ==
    ProductsInit /\ [][ProductsNext]_productsVars /\ ReleaseFairness

=============================================================================
