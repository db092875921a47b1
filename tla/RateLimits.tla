------------------------------ MODULE RateLimits ------------------------------
(***************************************************************************)
(* Per-business limits on attestation submissions                          *)
(* (contracts/attestation/src/rate_limit.rs).  A submission, single or one *)
(* item of a batch, checks the limits and records its time in one call.    *)
(* The ledger clock may step back: the code keeps a high-water mark for    *)
(* that case.                                                              *)
(***************************************************************************)
EXTENDS ProtocolWorld, Sequences, FiniteSets

CONSTANTS
    Limited,        \* businesses that submit
    LimitConfigs,   \* the configurations the admin tries
    MaxLimit,       \* MAX_SUBMISSIONS_LIMIT
    MaxWindow,      \* MAX_WINDOW_SECONDS
    MaxSubmissions  \* bound on the submissions per business under one config

ASSUME LimitsAssumption ==
    /\ MaxLimit \in Nat /\ MaxWindow \in Nat
    /\ Absent \notin LimitConfigs

VARIABLES
    limit,      \* RateLimitConfig, or Absent
    stamps,     \* SubmissionTimestamps(business)
    highWater,  \* RateLimitHighWaterTimestamp(business), 0 when unset
    taken       \* ghost: the times of the submissions accepted under `limit`

limitVars == <<limit, stamps, highWater, taken>>

LimitsInit ==
    /\ limit = Absent
    /\ stamps = [b \in Limited |-> <<>>]
    /\ highWater = [b \in Limited |-> 0]
    /\ taken = [b \in Limited |-> <<>>]

ValidLimit(c) ==
    /\ c.max \in 1 .. MaxLimit
    /\ c.window \in 1 .. MaxWindow
    /\ c.burst \in 1 .. c.max
    /\ c.burstWindow \in 1 .. c.window

\* configure_rate_limit by the admin
ConfigureRateLimit(c) ==
    /\ ValidLimit(c)
    /\ limit' = c
    /\ taken' = [b \in Limited |-> <<>>]
    /\ UNCHANGED <<protocolWorld, stamps, highWater>>

Enforced == limit # Absent /\ limit.enabled

\* Mutant: the ledger clock itself, as if there were no high-water mark.
RawTimestamp(b) == clock

EffectiveTimestamp(b) == IF clock > highWater[b] THEN clock ELSE highWater[b]

\* ts >= now.saturating_sub(width); no time is below zero.  The boundary is in.
WithinWindow(ts, now, width) == ts >= now - width

\* analyze_submission_windows: the loop keeps the entries still in a window of
\* this width; kept[n] is what it holds after n of them.
Pruned(list, now, width) ==
    LET kept[n \in 0 .. Len(list)] ==
           IF n = 0 THEN <<>>
           ELSE IF WithinWindow(list[n], now, width)
                THEN Append(kept[n - 1], list[n])
                ELSE kept[n - 1]
    IN  kept[Len(list)]

\* Mutant: both counts are taken over the burst window.
ActiveInBurst(b, width) ==
    Pruned(stamps[b], EffectiveTimestamp(b), limit.burstWindow)

Active(b, width) == Pruned(stamps[b], EffectiveTimestamp(b), width)

\* check_rate_limit, then record_submission, which prunes what the check saw
SubmitLimited(b) ==
    /\ Enforced
    /\ Len(taken[b]) < MaxSubmissions
    /\ Len(Active(b, limit.window)) < limit.max
    /\ Len(Active(b, limit.burstWindow)) < limit.burst
    /\ stamps' = [stamps EXCEPT ![b] = Append(Active(b, limit.window),
                                              EffectiveTimestamp(b))]
    /\ highWater' = [highWater EXCEPT ![b] = EffectiveTimestamp(b)]
    /\ taken' = [taken EXCEPT ![b] = Append(@, EffectiveTimestamp(b))]
    /\ UNCHANGED <<protocolWorld, limit>>

\* External: a ledger whose timestamp is before that of an earlier one.
ClockStepsBack ==
    /\ \E t \in 0 .. MaxClock[site] : t < clock /\ clock' = t
    /\ UNCHANGED <<site, limitVars>>

LimitsNext ==
    /\ site = "limits"
    /\ \/ \E c \in LimitConfigs : ConfigureRateLimit(c)
       \/ \E b \in Limited : SubmitLimited(b)
       \/ ClockTick /\ UNCHANGED limitVars
       \/ ClockStepsBack

-----------------------------------------------------------------------------
(* Properties *)

\* Under one configuration no `width` consecutive seconds, wherever they lie,
\* hold more accepted submissions of a business than that configuration allows,
\* neither over the full nor over the burst window and whatever the ledger clock
\* does; and the stored vector never outgrows MAX_SUBMISSIONS_LIMIT, whatever
\* limits were in force before (rate_limit.rs, check_rate_limit and
\* record_submission).  This much holds whether a submission exactly one window
\* old still counts, as the code has it, or has expired, as
\* docs/attestation-rate-limits.md and rate_limit_test.rs say.
WithinRateLimits ==
    \A b \in Limited :
        /\ Len(stamps[b]) <= MaxLimit
        /\ limit # Absent =>
              \A end \in 0 .. MaxClock[site] :
                 LET Held(width) == {i \in DOMAIN taken[b] :
                                        taken[b][i] \in (end - width) + 1 .. end}
                 IN  /\ Cardinality(Held(limit.window)) <= limit.max
                     /\ Cardinality(Held(limit.burstWindow)) <= limit.burst

=============================================================================
