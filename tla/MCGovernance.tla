---------------------------- MODULE MCGovernance ----------------------------
(* Small instances of Governance for TLC. *)
EXTENDS Governance

CONSTANTS a1, a2, zero

MCAddresses == {a1, a2, zero}
MCRoles == {ADMIN}
AdminMask == {{ADMIN}}
Short == [timelock |-> 1, window |-> 1, cooldown |-> 1, grace |-> 2]
OneConfig == {Short}

\* A timelock beyond u32::MAX: no planned rotation can be proposed.
NoRotation == [Short EXCEPT !.timelock = 9]

Act(kind, who, n) == [kind |-> kind, who |-> who, n |-> n, mask |-> {ADMIN}]

OneOrTwoOwners == {<<a1>>, <<a1, a2>>}
TwoOwners == {<<a1, a2>>}

\* Every change of the owner set and of the threshold.
OwnerActions == {Act("AddOwner", a2, 0), Act("RemoveOwner", a2, 0),
                 Act("ChangeThreshold", a1, 1), Act("ChangeThreshold", a1, 2)}

\* Proposals that reach the keys, the fees and the pause switch.
KeyActions == {Act("GrantRole", a2, 0), Act("RevokeRole", a1, 0),
               Act("EmergencyRotateAdmin", a2, 0), Act("UpdateFeeConfig", a1, 1),
               Act("EmergencyPause", a1, 0), Act("Unpause", a1, 0)}

=============================================================================
