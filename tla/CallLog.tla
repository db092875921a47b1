------------------------------- MODULE CallLog -------------------------------
(***************************************************************************)
(* What replay protection promises a log of signed calls, whatever the     *)
(* network does to them: only signed calls are performed, each at most     *)
(* once, in the order of their nonces.                                     *)
(***************************************************************************)
EXTENDS Integers, Sequences

CONSTANT Requests   \* signed calls: records with a nonce

VARIABLES
    signed,    \* the calls signed so far
    performed  \* the calls that took effect, in order

CallLogInit == signed = {} /\ performed = <<>>

Sign(r) ==
    /\ signed' = signed \cup {r}
    /\ UNCHANGED performed

\* In nonce order, so never twice.
Perform(r) ==
    /\ r \in signed
    /\ \A i \in 1 .. Len(performed) : performed[i].nonce < r.nonce
    /\ performed' = Append(performed, r)
    /\ UNCHANGED signed

CallLogNext == \E r \in Requests : Sign(r) \/ Perform(r)

CallLogSpec == CallLogInit /\ [][CallLogNext]_<<signed, performed>>

=============================================================================
