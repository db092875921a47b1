------------------------------- MODULE AuditLog -------------------------------
(***************************************************************************)
(* The audit log (contracts/audit-log) behind replay protection            *)
(* (contracts/common/src/replay_protection.rs).  The admin's signed append *)
(* requests are in the network's hands: `requests` only grows, a request   *)
(* may be delivered never, late, out of order or again and again, and the  *)
(* admin may sign ahead or sign two requests with one nonce.               *)
(***************************************************************************)
EXTENDS ProtocolWorld, SequencesExt

CONSTANTS
    Sources,       \* contracts an entry may name
    AuditActions,  \* actions with their payloads
    MaxSigned      \* bound on the requests signed

VARIABLES
    audAdmin,    \* Admin
    audNonces,   \* Nonce(account, NONCE_CHANNEL_ADMIN)
    entries,     \* Entry(seq), at position seq + 1
    lastHash,    \* LastHash
    byActor,     \* ActorIndex(actor)
    bySource,    \* ContractIndex(contract)
    requests     \* external: the requests the admin has signed

auditVars == <<audAdmin, audNonces, entries, lastHash, byActor, bySource, requests>>

Calls == [actor : Accounts, source : Sources, action : AuditActions]
AuditRequests == [nonce : 0 .. MaxNonce, call : Calls]

ZeroHash == "zero"

\* compute_entry_hash: SHA-256 over the record's fields and the hash before it,
\* free of collisions.
EntryHash(seq, call, prev) == <<"sha256", seq, call, prev>>

AuditInit ==
    /\ audAdmin = Nobody
    /\ audNonces = [a \in Accounts |-> 0]
    /\ entries = <<>>
    /\ lastHash = ZeroHash
    /\ byActor = [a \in Accounts |-> <<>>]
    /\ bySource = [s \in Sources |-> <<>>]
    /\ requests = {}

\* Mutant: any nonce at or above the current one is accepted.
AcceptAhead(account, provided) ==
    /\ provided >= audNonces[account]
    /\ audNonces' = [audNonces EXCEPT ![account] = provided + 1]

\* verify_and_increment_nonce: overflow is out of reach of the bound.
VerifyAndIncrementNonce(account, provided) ==
    /\ provided = audNonces[account]
    /\ audNonces' = [audNonces EXCEPT ![account] = provided + 1]

AudInitialize(admin, nonce) ==
    /\ VerifyAndIncrementNonce(admin, nonce)
    /\ audAdmin = Nobody
    /\ audAdmin' = admin
    /\ lastHash' = ZeroHash
    /\ UNCHANGED <<protocolWorld, entries, byActor, bySource, requests>>

SignRequest(r) ==
    /\ audAdmin # Nobody
    /\ Cardinality(requests) < MaxSigned
    /\ requests' = requests \cup {r}
    /\ UNCHANGED <<protocolWorld, audAdmin, audNonces, entries, lastHash,
                   byActor, bySource>>

\* append, called with a request that was signed once
DeliverAppend(r) ==
    /\ audAdmin # Nobody
    /\ r \in requests
    /\ VerifyAndIncrementNonce(audAdmin, r.nonce)
    /\ LET seq == Len(entries)
           hash == EntryHash(seq, r.call, lastHash)
       IN  /\ entries' = Append(entries, [seq |-> seq, call |-> r.call,
                                          prev |-> lastHash, hash |-> hash])
           /\ lastHash' = hash
           /\ byActor' = [byActor EXCEPT ![r.call.actor] = Append(@, seq)]
           /\ bySource' = [bySource EXCEPT ![r.call.source] = Append(@, seq)]
    /\ UNCHANGED <<protocolWorld, audAdmin, requests>>

AuditNext ==
    /\ site = "audit"
    /\ \/ \E admin \in Accounts, nonce \in 0 .. MaxNonce : AudInitialize(admin, nonce)
       \/ \E r \in AuditRequests : SignRequest(r) \/ DeliverAppend(r)

-----------------------------------------------------------------------------
(* Properties *)

\* An index with exactly these sequence numbers, once each and in order.
Lists(index, seqs) ==
    /\ Range(index) = seqs
    /\ \A i, j \in DOMAIN index : i < j => index[i] < index[j]

\* The sequence numbers of the entries with this value of a field.
SeqsOf(field, value) ==
    {entries[i].seq : i \in {j \in DOMAIN entries : entries[j].call[field] = value}}

\* The hash chain and the two indexes describe the same log: every entry's hash
\* covers its fields and the hash before it, LastHash is the last one's, and an
\* index lists the entries of its actor or contract, in order.
ChainCoversLog ==
    LET Hash(i) == IF i = 0 THEN ZeroHash ELSE entries[i].hash
    IN  /\ lastHash = Hash(Len(entries))
        /\ \A i \in DOMAIN entries :
              /\ entries[i].prev = Hash(i - 1)
              /\ entries[i].hash = EntryHash(i - 1, entries[i].call, Hash(i - 1))
        /\ \A a \in Accounts : Lists(byActor[a], SeqsOf("actor", a))
        /\ \A s \in Sources : Lists(bySource[s], SeqsOf("source", s))

\* The nonce initialize consumed is 0, so the entry with sequence number n was
\* appended with nonce n + 1.
Performed == [i \in DOMAIN entries |->
                 [nonce |-> entries[i].seq + 1, call |-> entries[i].call]]

CL == INSTANCE CallLog WITH Requests <- AuditRequests, signed <- requests,
                            performed <- Performed

\* The audit log under a network that loses, delays, reorders and repeats
\* requests implements CallLog: every entry comes from a signed request, no
\* request is logged twice, and the log is in nonce order.
ImplementsCallLog == CL!CallLogSpec

=============================================================================
