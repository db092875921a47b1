---------------------------- MODULE RevenueStream ----------------------------
(***************************************************************************)
(* The time-locked revenue stream contract (contracts/revenue-stream):     *)
(* funded streams that vest along a schedule, are paid out on anyone's     *)
(* call, and whose vesting clock stops while the admin pauses it.          *)
(***************************************************************************)
EXTENDS RevenueWorld

CONSTANTS
    Schedules,      \* vesting schedules an admin may pass
    StreamAmounts,  \* amounts an admin may fund
    StreamKeys,     \* the attestations streams may refer to
    MaxStreams      \* bound on NextStreamId

ASSUME StreamAssumption ==
    /\ Schedules \subseteq [kind : {"lump"}, cliff : Nat]
                             \cup [kind : {"linear"}, start : Nat, end : Nat]
    /\ StreamAmounts \subseteq Int
    /\ StreamKeys \subseteq Keys
    /\ MaxStreams \in Nat
    /\ Absent \notin [eff : Nat, at : Nat]

Lump(cliff) == [kind |-> "lump", cliff |-> cliff]
Linear(start, end) == [kind |-> "linear", start |-> start, end |-> end]

VARIABLES
    streamAdmin,   \* Admin
    streams,       \* Stream(id), at position id + 1
    paused,        \* Paused
    frozenAt,      \* PauseSnapshotT
    remap,         \* VestTimeRemap, or Absent
    streamNonces,  \* ReplayKey::Nonce
    pausedTicks    \* history: how long the contract has been paused in all

streamVars == <<streamAdmin, streams, paused, frozenAt, remap, streamNonces,
                pausedTicks>>

AdminChannel == 1

StreamInit ==
    /\ streamAdmin = Nobody
    /\ streams = <<>>
    /\ paused = FALSE
    /\ frozenAt = 0
    /\ remap = Absent
    /\ streamNonces = [c \in Accounts \X {AdminChannel} |-> 0]
    /\ pausedTicks = 0

\* Mutant: resuming lets the schedule catch up with the ledger.
LedgerTime == IF paused THEN frozenAt ELSE now

EffectiveTime ==
    IF paused THEN frozenAt
    ELSE IF remap = Absent THEN now
    ELSE remap.eff + LargerOf(now - remap.at, 0)

\* Mutant: what one tick vests is rounded first, and then multiplied.
VestedPerTick(s, t) ==
    IF s.vesting.kind = "lump"
    THEN IF t < s.vesting.cliff THEN 0 ELSE s.amount
    ELSE IF t <= s.vesting.start THEN 0
    ELSE (s.amount \div (s.vesting.end - s.vesting.start))
            * (SmallerOf(t, s.vesting.end) - s.vesting.start)

\* The part of a stream the schedule has released at time t.
VestedBySchedule(s, t) ==
    IF s.vesting.kind = "lump"
    THEN IF t < s.vesting.cliff THEN 0 ELSE s.amount
    ELSE IF t <= s.vesting.start THEN 0
    ELSE IF t >= s.vesting.end THEN s.amount
    ELSE (s.amount * (t - s.vesting.start))
            \div (s.vesting.end - s.vesting.start)

FullyPaid(s) == s.released >= s.amount

StreamInitialize(caller) ==
    /\ streamAdmin = Nobody
    /\ NonceAccepted(streamNonces, caller, AdminChannel, 0)
    /\ streamNonces' = NonceSpent(streamNonces, caller, AdminChannel)
    /\ streamAdmin' = caller
    /\ UNCHANGED <<world, streams, paused, frozenAt, remap, pausedTicks>>

\* What every later admin call begins with.
StreamAdminCall(caller, nonce) ==
    /\ caller = streamAdmin
    /\ NonceAccepted(streamNonces, caller, AdminChannel, nonce)
    /\ streamNonces' = NonceSpent(streamNonces, caller, AdminChannel)
    /\ UNCHANGED streamAdmin

\* Mutant: the stream is recorded and never funded.
CreateUnfunded(caller, nonce, k, to, t, amount, vesting) ==
    /\ StreamAdminCall(caller, nonce)
    /\ Len(streams) < MaxStreams
    /\ streams' = Append(streams, [key |-> k, beneficiary |-> to, token |-> t,
                                   amount |-> amount, vesting |-> vesting,
                                   released |-> 0])
    /\ UNCHANGED <<world, paused, frozenAt, remap, pausedTicks>>

CreateStream(caller, nonce, k, to, t, amount, vesting) ==
    /\ StreamAdminCall(caller, nonce)
    /\ Len(streams) < MaxStreams
    /\ amount > 0
    /\ vesting.kind = "linear" => vesting.start < vesting.end
    /\ streams' = Append(streams, [key |-> k, beneficiary |-> to, token |-> t,
                                   amount |-> amount, vesting |-> vesting,
                                   released |-> 0])
    /\ Transfer(t, caller, Self, amount)
    /\ UNCHANGED <<product, attested, revoked, expired, now, paused, frozenAt, remap,
                   pausedTicks>>

\* release: anyone may call it.  The cliff test of the code is implied by a
\* positive payment.
Release(i) ==
    /\ i \in DOMAIN streams
    /\ ~paused
    /\ LET s == streams[i]
           due == VestedBySchedule(s, EffectiveTime) - s.released
       IN  /\ ~FullyPaid(s)
           /\ due > 0
           /\ InForce(s.key)
           /\ streams' = [streams EXCEPT ![i].released = @ + due]
           /\ Transfer(s.token, Self, s.beneficiary, due)
    /\ UNCHANGED <<product, attested, revoked, expired, now, streamAdmin, paused,
                   frozenAt, remap, streamNonces, pausedTicks>>

PauseStream(caller, nonce) ==
    /\ StreamAdminCall(caller, nonce)
    /\ ~paused
    /\ frozenAt' = EffectiveTime
    /\ paused' = TRUE
    /\ UNCHANGED <<world, streams, remap, pausedTicks>>

ResumeStream(caller, nonce) ==
    /\ StreamAdminCall(caller, nonce)
    /\ paused
    /\ remap' = [eff |-> frozenAt, at |-> now]
    /\ paused' = FALSE
    /\ frozenAt' = 0
    /\ UNCHANGED <<world, streams, pausedTicks>>

StreamTick ==
    /\ now < MaxNow
    /\ now' = now + 1
    /\ pausedTicks' = pausedTicks + (IF paused THEN 1 ELSE 0)
    /\ UNCHANGED <<product, balance, attested, revoked, expired, streamAdmin, streams,
                   paused, frozenAt, remap, streamNonces>>

StreamNext ==
    /\ product = "stream"
    /\ \/ \E caller \in Admins :
             \/ StreamInitialize(caller)
             \/ \E nonce \in 0 .. NonceMax :
                   \/ PauseStream(caller, nonce)
                   \/ ResumeStream(caller, nonce)
                   \/ \E k \in StreamKeys, to \in Holders, t \in Tokens,
                         amount \in StreamAmounts, vesting \in Schedules :
                            CreateStream(caller, nonce, k, to, t, amount, vesting)
       \/ \E i \in 1 .. MaxStreams : Release(i)
       \/ StreamTick
       \/ AttestationContractStep(StreamKeys) /\ UNCHANGED streamVars

-----------------------------------------------------------------------------
(* Properties *)

\* The contract holds, token by token, at least what the streams still owe
\* (a beneficiary may be the contract itself): no stream is ever paid from
\* another stream's deposit.
StreamsFunded ==
    \A t \in Tokens :
        balance[t][Self] >=
            SumFunctionOnSet(
                [i \in DOMAIN streams |->
                    IF streams[i].token = t
                    THEN streams[i].amount - streams[i].released ELSE 0],
                DOMAIN streams)

\* No accrual is credited for the time the contract was paused, however often
\* it was paused and resumed (docs/revenue-stream-accrual.md), and nothing is
\* paid ahead of the schedule.
PausedTimeNeverVests ==
    /\ EffectiveTime = now - pausedTicks
    /\ \A i \in DOMAIN streams :
          streams[i].released <= VestedBySchedule(streams[i], EffectiveTime)

\* The instant, on the clock that stops in pauses, at which a schedule is over.
EndOf(vesting) == IF vesting.kind = "lump" THEN vesting.cliff ELSE vesting.end

\* A stream whose schedule has run out and whose attestation stays in force
\* while the contract is not paused is paid to the last token: rounding and
\* partial releases never strand a remainder, and the deposit is always there.
VestedIsPaid ==
    \A i \in 1 .. MaxStreams :
        <>[](/\ i \in DOMAIN streams
             /\ ~paused
             /\ InForce(streams[i].key)
             /\ EffectiveTime >= EndOf(streams[i].vesting))
        => <>(i \in DOMAIN streams /\ FullyPaid(streams[i]))

=============================================================================
