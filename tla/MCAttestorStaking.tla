-------------------------- MODULE MCAttestorStaking --------------------------
(* A small instance of AttestorStaking for TLC. *)
EXTENDS AttestorStaking, TLC

CONSTANTS alice, bob, self, vault

MCAddresses == {alice, bob, self, vault}
MCAttestors == {alice, bob}
OneAttestor == {alice}

\* No definition of AttestorStaking orders the attestors, and the runs check
\* no liveness.
Interchangeable == Permutations(MCAttestors)
=============================================================================
