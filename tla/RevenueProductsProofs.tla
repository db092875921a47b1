------------------------ MODULE RevenueProductsProofs ------------------------
(***************************************************************************)
(* Proofs about the revenue products, for every set of accounts, tokens,   *)
(* periods, schedules, terms and stakeholder lists.                        *)
(***************************************************************************)
EXTENDS RevenueProducts, SumTheorems, TLAPS

-----------------------------------------------------------------------------
(* Integer division, by which schedules and shares are cut *)

LEMMA DivNat ==
    ASSUME NEW n \in Nat, NEW d \in Nat \ {0}
    PROVE  n \div d \in Nat
  OBVIOUS

LEMMA MulNat ==
    ASSUME NEW m \in Nat, NEW n \in Nat
    PROVE  m * n \in Nat
  OBVIOUS

LEMMA MulMono ==
    ASSUME NEW a \in Nat, NEW x \in Int, NEW y \in Int, x <= y
    PROVE  a * x <= a * y
  OBVIOUS

LEMMA DivBounds ==
    ASSUME NEW n \in Int, NEW d \in Nat \ {0}
    PROVE  n \div d \in Int /\ d * (n \div d) <= n /\ n < d * (n \div d) + d
  OBVIOUS

\* A larger numerator never gives a smaller quotient.
LEMMA DivMono ==
    ASSUME NEW m \in Int, NEW n \in Int, m <= n, NEW d \in Nat \ {0}
    PROVE  m \div d <= n \div d
<1>. DEFINE p == m \div d
            q == n \div d
<1>1. p \in Int /\ q \in Int /\ d * p <= m /\ n < d * q + d
  BY DivBounds
<1>. HIDE DEF p, q
<1>2. SUFFICES ASSUME q + 1 <= p PROVE FALSE
  BY <1>1 DEF p, q
<1>3. d * (q + 1) <= d * p
  BY <1>1, <1>2, MulMono
<1>4. d * (q + 1) = d * q + d
  BY <1>1
<1>. QED
  BY <1>1, <1>3, <1>4

\* The part x / d of an amount is at most the amount.
LEMMA DivCap ==
    ASSUME NEW a \in Nat, NEW d \in Nat \ {0}, NEW x \in Int, x <= d
    PROVE  (a * x) \div d <= a
<1>1. a * x <= a * d
  BY MulMono
<1>2. (a * d) \div d = a
  OBVIOUS
<1>. QED
  BY <1>1, <1>2, DivMono

\* A share of a natural amount is a natural amount.
LEMMA ShareOfNat ==
    ASSUME NEW n \in Nat, NEW bps \in Nat
    PROVE  ShareOf(n, bps) \in Nat
<1>1. n * bps \in Nat
  BY MulNat
<1>. QED
  BY <1>1, DivNat, RevenueAssumption DEF ShareOf

-----------------------------------------------------------------------------
(* The world: what a payment does to the balances *)

Balances == [Tokens -> [Accounts -> Nat]]

Answers == [revenue : Nat, fee : Nat]

WorldInv ==
    /\ product \in Products
    /\ balance \in Balances
    /\ attested \in [Keys -> Answers \cup {Absent}]
    /\ now \in Nat

\* A payment that succeeds leaves no account overdrawn.
LEMMA PayEffect ==
    ASSUME balance \in Balances, NEW t \in Tokens, NEW from \in Accounts,
           NEW credit, \A a \in Accounts : credit[a] \in Nat,
           Pay(t, from, credit)
    PROVE  /\ SumFunctionOnSet(credit, Accounts) \in Nat
           /\ SumFunctionOnSet(credit, Accounts) <= balance[t][from]
           /\ balance' \in Balances
           /\ \A u \in Tokens \ {t} : balance'[u] = balance[u]
           /\ \A a \in Accounts :
                 balance'[t][a] =
                    balance[t][a] + credit[a]
                       - (IF a = from THEN SumFunctionOnSet(credit, Accounts)
                          ELSE 0)
<1>. DEFINE total == SumFunctionOnSet(credit, Accounts)
            row == [a \in Accounts |->
                      balance[t][a] + credit[a]
                         - (IF a = from THEN total ELSE 0)]
<1>1. total \in Nat
  BY SumNat, RevenueAssumption
<1>2. balance[t][from] >= total /\ balance' = [balance EXCEPT ![t] = row]
  BY DEF Pay
<1>. HIDE DEF total
<1>3. \A a \in Accounts : balance[t][a] \in Nat
  BY DEF Balances
<1>4. row \in [Accounts -> Nat]
  BY <1>1, <1>2, <1>3
<1>5. balance' \in Balances
  BY <1>2, <1>4 DEF Balances
<1>6. balance'[t] = row /\ \A u \in Tokens \ {t} : balance'[u] = balance[u]
  BY <1>2 DEF Balances
<1>7. balance[t][from] \in Nat /\ total <= balance[t][from]
  BY <1>1, <1>2, <1>3
<1>. QED
  BY <1>1, <1>5, <1>6, <1>7 DEF total

LEMMA TransferEffect ==
    ASSUME balance \in Balances, NEW t \in Tokens,
           NEW from \in Accounts, NEW to \in Accounts, NEW amount \in Nat,
           Transfer(t, from, to, amount)
    PROVE  /\ amount <= balance[t][from]
           /\ balance' \in Balances
           /\ \A u \in Tokens \ {t} : balance'[u] = balance[u]
           /\ \A a \in Accounts :
                 balance'[t][a] = balance[t][a] + (IF a = to THEN amount ELSE 0)
                                     - (IF a = from THEN amount ELSE 0)
<1>. DEFINE credit == [a \in Accounts |-> IF a = to THEN amount ELSE 0]
<1>1. /\ \A a \in Accounts : credit[a] \in Nat
      /\ \A a \in Accounts : credit[a] = IF a = to THEN amount ELSE 0
      /\ credit[to] = amount
      /\ \A a \in Accounts \ {to} : credit[a] = 0
  OBVIOUS
<1>2. Pay(t, from, credit)
  BY DEF Transfer
<1>. HIDE DEF credit
<1>3. SumFunctionOnSet(credit, Accounts) = amount
  BY <1>1, SumPoint, RevenueAssumption
<1>4. /\ SumFunctionOnSet(credit, Accounts) <= balance[t][from]
      /\ balance' \in Balances
      /\ \A u \in Tokens \ {t} : balance'[u] = balance[u]
      /\ \A a \in Accounts :
            balance'[t][a] =
               balance[t][a] + credit[a]
                  - (IF a = from THEN SumFunctionOnSet(credit, Accounts)
                     ELSE 0)
  BY <1>1, <1>2, PayEffect
<1>. QED
  BY <1>1, <1>3, <1>4

\* The attestation contract touches neither the tokens nor the clock.
LEMMA OracleStep ==
    ASSUME WorldInv, NEW keys \in SUBSET Keys, AttestationContractStep(keys)
    PROVE  /\ attested' \in [Keys -> Answers \cup {Absent}]
           /\ UNCHANGED <<product, balance, now>>
<1>1. PICK k \in keys :
         \/ \E revenue \in AttestedRevenues, fee \in Fees :
               AttestationAppears(k, revenue, fee)
         \/ AttestationRevoked(k)
         \/ AttestationExpires(k)
         \/ AttestationCleaned(k)
  BY DEF AttestationContractStep
<1>2. CASE \E revenue \in AttestedRevenues, fee \in Fees :
               AttestationAppears(k, revenue, fee)
  <2>1. PICK revenue \in AttestedRevenues, fee \in Fees :
           AttestationAppears(k, revenue, fee)
    BY <1>2
  <2>2. [revenue |-> revenue, fee |-> fee] \in Answers
    BY RevenueAssumption DEF Answers
  <2>. QED
    BY <2>1, <2>2 DEF AttestationAppears, WorldInv
<1>3. CASE AttestationRevoked(k)
  BY <1>3 DEF AttestationRevoked, WorldInv
<1>4. CASE AttestationExpires(k)
  BY <1>4 DEF AttestationExpires, WorldInv
<1>5. CASE AttestationCleaned(k)
  BY <1>5 DEF AttestationCleaned, WorldInv
<1>. QED
  BY <1>1, <1>2, <1>3, <1>4, <1>5

-----------------------------------------------------------------------------
(* The revenue stream *)

Vestings ==
    [kind : {"lump"}, cliff : Nat]
       \cup {v \in [kind : {"linear"}, start : Nat, end : Nat] : v.start < v.end}

StreamRecords ==
    [key : Keys, beneficiary : Holders, token : Tokens, amount : Nat,
     vesting : Vestings, released : Nat]

\* What a schedule releases grows with time and never exceeds the deposit.
LEMMA VestingGrows ==
    ASSUME NEW s \in StreamRecords, NEW t \in Nat, NEW u \in Nat, t <= u
    PROVE  /\ VestedBySchedule(s, t) \in Nat
           /\ VestedBySchedule(s, t) <= s.amount
           /\ VestedBySchedule(s, t) <= VestedBySchedule(s, u)
<1>1. s.vesting \in Vestings /\ s.amount \in Nat
  BY DEF StreamRecords
<1>2. CASE s.vesting \in [kind : {"lump"}, cliff : Nat]
  BY <1>1, <1>2 DEF VestedBySchedule
<1>3. CASE s.vesting \in [kind : {"linear"}, start : Nat, end : Nat]
           /\ s.vesting.start < s.vesting.end
  <2>. DEFINE a == s.amount
              b == s.vesting.start
              d == s.vesting.end - s.vesting.start
              Part(x) == (a * (x - b)) \div d
  <2>1. a \in Nat /\ b \in Nat /\ d \in Nat \ {0} /\ s.vesting.end = b + d
    BY <1>1, <1>3
  <2>2. \A x \in Nat :
           VestedBySchedule(s, x) = IF x <= b THEN 0
                                    ELSE IF x >= b + d THEN a ELSE Part(x)
    BY <1>3, <2>1 DEF VestedBySchedule
  <2>. HIDE DEF a, b, d
  <2>3. ASSUME NEW x \in Nat, b <= x, x <= b + d
        PROVE  Part(x) \in Nat /\ Part(x) <= a
    <3>1. x - b \in Nat /\ x - b <= d
      BY <2>1, <2>3
    <3>2. a * (x - b) \in Nat
      BY <2>1, <3>1, MulNat
    <3>3. Part(x) \in Nat
      BY <2>1, <3>2, DivNat
    <3>. QED
      BY <2>1, <3>1, <3>3, DivCap
  <2>4. ASSUME b <= t PROVE Part(t) <= Part(u)
    <3>1. a * (t - b) <= a * (u - b) /\ a * (t - b) \in Int /\ a * (u - b) \in Int
      BY <2>1, MulMono
    <3>. QED
      BY <2>1, <3>1, DivMono
  <2>5. Part(t) \in Int /\ Part(u) \in Int
    BY <2>1, DivBounds
  <2>. HIDE DEF Part
  <2>. QED
    BY <2>1, <2>2, <2>3, <2>4, <2>5 DEF a
<1>. QED
  BY <1>1, <1>2, <1>3 DEF Vestings

\* What the streams still owe in token t.
Owed(list, t) ==
    SumFunctionOnSet([i \in DOMAIN list |->
                        IF list[i].token = t
                        THEN list[i].amount - list[i].released ELSE 0],
                     DOMAIN list)

LEMMA OwedAppend ==
    ASSUME NEW list \in Seq(StreamRecords), NEW s \in StreamRecords,
           NEW t \in Tokens
    PROVE  /\ Owed(list, t) \in Int
           /\ Owed(Append(list, s), t) =
                 Owed(list, t)
                    + (IF s.token = t THEN s.amount - s.released ELSE 0)
<1>. DEFINE n == Len(list) + 1
            longer == Append(list, s)
            f == [i \in DOMAIN list |-> IF list[i].token = t
                    THEN list[i].amount - list[i].released ELSE 0]
            g == [i \in DOMAIN longer |-> IF longer[i].token = t
                    THEN longer[i].amount - longer[i].released ELSE 0]
            more == IF s.token = t THEN s.amount - s.released ELSE 0
<1>1. /\ DOMAIN list = 1 .. Len(list) /\ DOMAIN longer = DOMAIN list \cup {n}
      /\ n \notin DOMAIN list /\ Len(list) \in Nat
  OBVIOUS
<1>2. IsFiniteSet(DOMAIN list)
  BY <1>1, FS_Interval
<1>3. \A i \in DOMAIN list : list[i] \in StreamRecords
  BY <1>1
<1>4. \A i \in DOMAIN list : f[i] \in Int
  BY <1>3 DEF StreamRecords
<1>5. \A i \in DOMAIN list : longer[i] = list[i]
  OBVIOUS
<1>6. longer[n] = s
  OBVIOUS
<1>7. \A i \in DOMAIN list : g[i] = f[i]
  BY <1>1, <1>5
<1>8. g[n] = more /\ more \in Int
  BY <1>1, <1>6 DEF StreamRecords
<1>9. /\ Owed(list, t) = SumFunctionOnSet(f, DOMAIN list)
      /\ Owed(longer, t) = SumFunctionOnSet(g, DOMAIN list \cup {n})
  BY <1>1 DEF Owed
<1>. HIDE DEF f, g, longer, n, more
<1>10. SumFunctionOnSet(g, DOMAIN list \cup {n})
          = more + SumFunctionOnSet(g, DOMAIN list)
  BY <1>1, <1>2, <1>4, <1>7, <1>8, SumAdd
<1>11. SumFunctionOnSet(g, DOMAIN list) = SumFunctionOnSet(f, DOMAIN list)
  BY <1>2, <1>7, SumCongruence
<1>12. SumFunctionOnSet(f, DOMAIN list) \in Int
  BY <1>2, <1>4, SumType
<1>. QED
  BY <1>8, <1>9, <1>10, <1>11, <1>12 DEF longer, more

LEMMA OwedReleased ==
    ASSUME NEW list \in Seq(StreamRecords), NEW i \in DOMAIN list,
           NEW paid \in Nat, NEW t \in Tokens
    PROVE  /\ [list EXCEPT ![i].released = @ + paid] \in Seq(StreamRecords)
           /\ Owed([list EXCEPT ![i].released = @ + paid], t) =
                 Owed(list, t) - (IF list[i].token = t THEN paid ELSE 0)
<1>. DEFINE after == [list EXCEPT ![i].released = @ + paid]
            f == [j \in DOMAIN list |-> IF list[j].token = t
                    THEN list[j].amount - list[j].released ELSE 0]
            g == [j \in DOMAIN after |-> IF after[j].token = t
                    THEN after[j].amount - after[j].released ELSE 0]
<1>1. DOMAIN list = 1 .. Len(list) /\ Len(list) \in Nat /\ DOMAIN after = DOMAIN list
  OBVIOUS
<1>2. IsFiniteSet(DOMAIN list)
  BY <1>1, FS_Interval
<1>3. \A j \in DOMAIN list : list[j] \in StreamRecords
  BY <1>1
<1>4. \A j \in DOMAIN list \ {i} : after[j] = list[j]
  OBVIOUS
<1>5. /\ after[i] \in StreamRecords
      /\ after[i].token = list[i].token /\ after[i].amount = list[i].amount
      /\ after[i].released = list[i].released + paid
  <2>. DEFINE r == list[i]
  <2>1. after[i] = [r EXCEPT !.released = r.released + paid] /\ r \in StreamRecords
    BY <1>3
  <2>. HIDE DEF r, after
  <2>2. after[i] \in StreamRecords
    <3>1. r.released + paid \in Nat
      BY <2>1 DEF StreamRecords
    <3>. QED
      BY <2>1, <3>1 DEF StreamRecords
  <2>3. /\ after[i].token = r.token /\ after[i].amount = r.amount
        /\ after[i].released = r.released + paid
    BY <2>1 DEF StreamRecords
  <2>. QED
    BY <2>1, <2>2, <2>3 DEF r
<1>6. after \in Seq(StreamRecords)
  <2>1. \A j \in 1 .. Len(list) : after[j] \in StreamRecords
    BY <1>1, <1>3, <1>4, <1>5
  <2>2. after \in [1 .. Len(list) -> StreamRecords]
    BY <1>1, <2>1
  <2>. QED
    BY <1>1, <2>2
<1>7. \A j \in DOMAIN list : f[j] \in Int
  BY <1>3 DEF StreamRecords
<1>8. \A j \in DOMAIN list \ {i} : g[j] = f[j]
  BY <1>1, <1>4
<1>9. g[i] = f[i] - (IF list[i].token = t THEN paid ELSE 0) /\ g[i] \in Int
  BY <1>1, <1>3, <1>5 DEF StreamRecords
<1>10. /\ Owed(list, t) = SumFunctionOnSet(f, DOMAIN list)
       /\ Owed(after, t) = SumFunctionOnSet(g, DOMAIN list)
  BY <1>1 DEF Owed
<1>. HIDE DEF f, g, after
<1>11. SumFunctionOnSet(g, DOMAIN list)
          = SumFunctionOnSet(f, DOMAIN list) + g[i] - f[i]
  <2>. DEFINE D == DOMAIN list
  <2>1. /\ IsFiniteSet(D) /\ i \in D /\ g[i] \in Int
        /\ \A j \in D : f[j] \in Int
        /\ \A j \in D \ {i} : g[j] = f[j]
    BY <1>2, <1>7, <1>8, <1>9
  <2>. HIDE DEF D
  <2>2. SumFunctionOnSet(g, D) = SumFunctionOnSet(f, D) + g[i] - f[i]
    BY <2>1, SumUpdate
  <2>. QED
    BY <2>2 DEF D
<1>12. SumFunctionOnSet(f, DOMAIN list) \in Int /\ f[i] \in Int
  BY <1>2, <1>7, SumType
<1>. QED
  BY <1>6, <1>9, <1>10, <1>11, <1>12 DEF after

\* The vesting clock: whatever the pauses and resumes so far, it shows the
\* ledger time less the time spent paused.
VestingClock ==
    /\ paused \in BOOLEAN
    /\ pausedTicks \in Nat
    /\ pausedTicks <= now
    /\ paused => frozenAt = now - pausedTicks
    /\ ~paused /\ remap = Absent => pausedTicks = 0
    /\ ~paused /\ remap # Absent =>
          /\ remap \in [eff : Nat, at : Nat]
          /\ remap.at <= now
          /\ remap.eff + (now - remap.at) = now - pausedTicks

\* No stream has been paid ahead of its schedule.
NothingAhead ==
    \A i \in DOMAIN streams :
        streams[i].released <= VestedBySchedule(streams[i], now - pausedTicks)

StreamIdle ==
    streams = <<>> /\ paused = FALSE /\ remap = Absent /\ pausedTicks = 0

StreamInv ==
    /\ product # "stream" => StreamIdle
    /\ streams \in Seq(StreamRecords)
    /\ VestingClock
    /\ StreamsFunded
    /\ NothingAhead

LEMMA EffectiveIsClock ==
    ASSUME now \in Nat, VestingClock
    PROVE  EffectiveTime = now - pausedTicks /\ EffectiveTime \in Nat
<1>1. CASE paused
  BY <1>1 DEF VestingClock, EffectiveTime
<1>2. CASE ~paused /\ remap = Absent
  BY <1>2 DEF VestingClock, EffectiveTime
<1>3. CASE ~paused /\ remap # Absent
  <2>1. remap.eff \in Nat /\ remap.at \in Nat /\ remap.at <= now
    BY <1>3 DEF VestingClock
  <2>2. EffectiveTime = remap.eff + (now - remap.at)
    BY <1>3, <2>1 DEF EffectiveTime, LargerOf
  <2>. QED
    BY <1>3, <2>2 DEF VestingClock
<1>. QED
  BY <1>1, <1>2, <1>3

\* Time passes and nothing is paid: nothing gets ahead of the schedule.
LEMMA AheadKept ==
    ASSUME now \in Nat, VestingClock, now' \in Nat, VestingClock',
           now - pausedTicks <= now' - pausedTicks',
           streams \in Seq(StreamRecords), NothingAhead, UNCHANGED streams
    PROVE  NothingAhead'
<1>. DEFINE t == now - pausedTicks
            u == now' - pausedTicks'
<1>1. t \in Nat /\ u \in Nat /\ t <= u
  <2>1. pausedTicks \in Nat /\ pausedTicks <= now
    BY DEF VestingClock
  <2>2. pausedTicks' \in Nat /\ pausedTicks' <= now' /\ now' \in Nat
    BY DEF VestingClock
  <2>3. t \in Nat
    BY <2>1
  <2>4. u \in Nat
    <3>1. \A x, y \in Nat : y <= x => x - y \in Nat
      OBVIOUS
    <3>2. now' - pausedTicks' \in Nat
      BY <2>2, <3>1
    <3>. QED
      BY <3>2
  <2>5. t <= u
    BY <2>1, <2>2
  <2>. QED
    BY <2>3, <2>4, <2>5
<1>2. ASSUME NEW i \in DOMAIN streams
      PROVE  streams[i].released <= VestedBySchedule(streams[i], u)
  <2>1. streams[i] \in StreamRecords
    OBVIOUS
  <2>2. streams[i].released \in Nat
    BY <2>1 DEF StreamRecords
  <2>. HIDE DEF t, u
  <2>3. /\ VestedBySchedule(streams[i], t) \in Nat
        /\ VestedBySchedule(streams[i], u) \in Nat
        /\ VestedBySchedule(streams[i], t) <= VestedBySchedule(streams[i], u)
    <3>1. u <= u
      BY <1>1
    <3>. QED
      BY <1>1, <2>1, <3>1, VestingGrows
  <2>4. streams[i].released <= VestedBySchedule(streams[i], t)
    BY DEF NothingAhead, t
  <2>. QED
    BY <2>2, <2>3, <2>4
<1>. QED
  BY <1>2 DEF NothingAhead, VestedBySchedule

LEMMA FundedMeans ==
    StreamsFunded <=> \A t \in Tokens : balance[t][Self] >= Owed(streams, t)
  BY DEF StreamsFunded, Owed

LEMMA OwedNothing ==
    ASSUME NEW t
    PROVE  Owed(<<>>, t) = 0
  BY SumEmpty DEF Owed

\* The calls that touch neither tokens nor streams, and the clock.
LEMMA StreamControlStep ==
    ASSUME WorldInv, StreamInv, product = "stream",
           \/ \E caller \in Admins : StreamInitialize(caller)
           \/ \E caller \in Admins, nonce \in 0 .. NonceMax :
                 PauseStream(caller, nonce) \/ ResumeStream(caller, nonce)
           \/ StreamTick
           \/ AttestationContractStep(StreamKeys) /\ UNCHANGED streamVars
    PROVE  WorldInv' /\ StreamInv'
<1>. USE DEF StreamInv, WorldInv
<1>0. now \in Nat /\ now - pausedTicks \in Nat
  BY DEF VestingClock
<1>1. /\ UNCHANGED <<product, balance, streams>>
      /\ attested' \in [Keys -> Answers \cup {Absent}]
      /\ now' \in Nat
      /\ VestingClock'
      /\ now - pausedTicks <= now' - pausedTicks'
  <2>1. ASSUME NEW caller \in Admins, StreamInitialize(caller)
        PROVE  <1>1!:
    BY <1>0, <2>1 DEF StreamInitialize, world, VestingClock
  <2>2. ASSUME NEW caller \in Admins, NEW nonce \in 0 .. NonceMax,
               PauseStream(caller, nonce)
        PROVE  <1>1!:
    <3>1. /\ UNCHANGED <<product, balance, streams, attested, now, remap,
                         pausedTicks>>
          /\ frozenAt' = now - pausedTicks /\ paused' = TRUE
      BY <2>2, EffectiveIsClock DEF PauseStream, world
    <3>2. VestingClock'
      BY <1>0, <3>1 DEF VestingClock
    <3>. QED
      BY <1>0, <3>1, <3>2
  <2>3. ASSUME NEW caller \in Admins, NEW nonce \in 0 .. NonceMax,
               ResumeStream(caller, nonce)
        PROVE  <1>1!:
    <3>1. /\ UNCHANGED <<product, balance, streams, attested, now, pausedTicks>>
          /\ paused /\ paused' = FALSE
          /\ remap' = [eff |-> frozenAt, at |-> now]
      BY <2>3 DEF ResumeStream, world
    <3>2. frozenAt = now - pausedTicks
      BY <3>1 DEF VestingClock
    <3>3. remap' \in [eff : Nat, at : Nat] /\ remap'.eff = frozenAt /\ remap'.at = now
      BY <1>0, <3>1, <3>2
    <3>4. remap' # Absent
      BY <3>3, StreamAssumption
    <3>5. remap'.eff + (now' - remap'.at) = now' - pausedTicks' /\ remap'.at <= now'
      BY <1>0, <3>1, <3>2, <3>3
    <3>6. pausedTicks' \in Nat /\ pausedTicks' <= now'
      BY <3>1 DEF VestingClock
    <3>7. VestingClock'
      BY <3>1, <3>3, <3>4, <3>5, <3>6 DEF VestingClock
    <3>. QED
      BY <1>0, <3>1, <3>7
  <2>4. ASSUME StreamTick PROVE <1>1!:
    <3>1. /\ UNCHANGED <<product, balance, attested, streams, paused, frozenAt,
                         remap>>
          /\ now' = now + 1
          /\ pausedTicks' = pausedTicks + (IF paused THEN 1 ELSE 0)
      BY <2>4 DEF StreamTick
    <3>2. pausedTicks \in Nat /\ pausedTicks <= now
      BY DEF VestingClock
    <3>3. CASE paused
      <4>1. pausedTicks' = pausedTicks + 1 /\ frozenAt = now - pausedTicks
        BY <3>1, <3>3 DEF VestingClock
      <4>2. now' - pausedTicks' = now - pausedTicks
        BY <1>0, <3>1, <3>2, <4>1
      <4>3. VestingClock'
        BY <1>0, <3>1, <3>2, <3>3, <4>1, <4>2 DEF VestingClock
      <4>. QED
        BY <1>0, <3>1, <4>2, <4>3
    <3>4. CASE ~paused
      <4>1. pausedTicks' = pausedTicks
        BY <3>1, <3>2, <3>4
      <4>2. now' - pausedTicks' = (now - pausedTicks) + 1
        BY <1>0, <3>1, <3>2, <4>1
      <4>3. remap # Absent =>
               remap'.eff + (now' - remap'.at) = now' - pausedTicks'
        <5>1. SUFFICES ASSUME remap # Absent
                       PROVE  remap.eff + ((now + 1) - remap.at)
                                 = (now - pausedTicks) + 1
          BY <3>1, <4>2
        <5>2. /\ remap.eff \in Nat /\ remap.at \in Nat
              /\ remap.eff + (now - remap.at) = now - pausedTicks
          BY <3>4, <5>1 DEF VestingClock
        <5>. QED
          BY <1>0, <5>2
      <4>4. remap # Absent =>
               remap' \in [eff : Nat, at : Nat] /\ remap'.at <= now'
        BY <1>0, <3>1, <3>4 DEF VestingClock
      <4>5. remap = Absent => pausedTicks' = 0
        BY <3>4, <4>1 DEF VestingClock
      <4>6. pausedTicks' \in Nat /\ pausedTicks' <= now' /\ paused' = FALSE
        BY <1>0, <3>1, <3>2, <3>4, <4>1 DEF VestingClock
      <4>7. VestingClock'
        BY <3>1, <4>3, <4>4, <4>5, <4>6 DEF VestingClock
      <4>. QED
        BY <1>0, <3>1, <4>2, <4>7
    <3>. QED
      BY <3>3, <3>4
  <2>5. ASSUME AttestationContractStep(StreamKeys), UNCHANGED streamVars
        PROVE  <1>1!:
    <3>1. /\ attested' \in [Keys -> Answers \cup {Absent}]
          /\ UNCHANGED <<product, balance, now>>
      BY <2>5, OracleStep, StreamAssumption
    <3>. QED
      BY <1>0, <2>5, <3>1 DEF streamVars, VestingClock
  <2>. QED
    BY <2>1, <2>2, <2>3, <2>4, <2>5
<1>2. NothingAhead'
  BY <1>1, AheadKept
<1>3. StreamsFunded'
  BY <1>1 DEF StreamsFunded
<1>. QED
  BY <1>1, <1>2, <1>3

LEMMA CreateStreamStep ==
    ASSUME WorldInv, StreamInv, product = "stream",
           NEW caller \in Admins, NEW nonce \in 0 .. NonceMax,
           NEW k \in StreamKeys, NEW to \in Holders, NEW t \in Tokens,
           NEW amount \in StreamAmounts, NEW vesting \in Schedules,
           CreateStream(caller, nonce, k, to, t, amount, vesting)
    PROVE  WorldInv' /\ StreamInv'
<1>. USE DEF StreamInv, WorldInv
<1>. DEFINE s == [key |-> k, beneficiary |-> to, token |-> t, amount |-> amount,
                  vesting |-> vesting, released |-> 0]
<1>1. /\ UNCHANGED <<product, attested, now, paused, frozenAt, remap, pausedTicks>>
      /\ streams' = Append(streams, s)
      /\ Transfer(t, caller, Self, amount)
      /\ amount \in Nat
      /\ vesting.kind = "linear" => vesting.start < vesting.end
  BY StreamAssumption DEF CreateStream
<1>2. vesting \in Vestings
  BY <1>1, StreamAssumption DEF Vestings
<1>3. s \in StreamRecords /\ s.token = t /\ s.amount = amount /\ s.released = 0
  BY <1>1, <1>2, StreamAssumption DEF StreamRecords
<1>. HIDE DEF s
<1>4. streams' \in Seq(StreamRecords)
  BY <1>1, <1>3
<1>5. caller \in Accounts /\ Self \in Accounts /\ caller # Self
  BY RevenueAssumption
<1>6. /\ balance' \in Balances
      /\ \A u \in Tokens \ {t} : balance'[u] = balance[u]
      /\ balance'[t][Self] = balance[t][Self] + amount
  <2>1. /\ balance' \in Balances
        /\ \A u \in Tokens \ {t} : balance'[u] = balance[u]
        /\ \A a \in Accounts :
              balance'[t][a] = balance[t][a] + (IF a = Self THEN amount ELSE 0)
                                  - (IF a = caller THEN amount ELSE 0)
    BY <1>1, <1>5, TransferEffect
  <2>2. balance[t][Self] \in Nat
    BY <1>5 DEF Balances
  <2>. QED
    BY <1>1, <1>5, <2>1, <2>2
<1>7. VestingClock'
  BY <1>1 DEF VestingClock
<1>8. StreamsFunded'
  <2>1. SUFFICES ASSUME NEW u \in Tokens
                 PROVE  balance'[u][Self] >= Owed(streams', u)
    BY DEF StreamsFunded, Owed
  <2>2. balance[u][Self] >= Owed(streams, u) /\ balance[u][Self] \in Nat
    BY <1>5, FundedMeans DEF Balances
  <2>3. /\ Owed(streams, u) \in Int
        /\ Owed(streams', u) = Owed(streams, u) + (IF t = u THEN amount ELSE 0)
    <3>1. /\ Owed(streams, u) \in Int
          /\ Owed(streams', u) =
                Owed(streams, u)
                   + (IF s.token = u THEN s.amount - s.released ELSE 0)
      BY <1>1, <1>3, OwedAppend
    <3>. QED
      BY <1>1, <1>3, <3>1
  <2>. QED
    BY <1>1, <1>6, <2>2, <2>3
<1>9. NothingAhead'
  <2>. DEFINE x == now - pausedTicks
  <2>1. x \in Nat /\ x <= x /\ now' - pausedTicks' = x
    BY <1>1 DEF VestingClock
  <2>. HIDE DEF x
  <2>2. ASSUME NEW i \in DOMAIN streams'
        PROVE  streams'[i].released <= VestedBySchedule(streams'[i], x)
    <3>1. CASE i \in DOMAIN streams
      BY <1>1, <3>1 DEF NothingAhead, x
    <3>2. CASE i = Len(streams) + 1
      <4>1. streams'[i] = s
        BY <1>1, <3>2
      <4>2. VestedBySchedule(s, x) \in Nat
        BY <1>3, <2>1, VestingGrows
      <4>. QED
        BY <1>3, <4>1, <4>2
    <3>. QED
      BY <1>1, <3>1, <3>2
  <2>. QED
    BY <2>1, <2>2 DEF NothingAhead, VestedBySchedule
<1>. QED
  BY <1>1, <1>4, <1>6, <1>7, <1>8, <1>9

LEMMA ReleaseStep ==
    ASSUME WorldInv, StreamInv, product = "stream", NEW i \in 1 .. MaxStreams,
           Release(i)
    PROVE  WorldInv' /\ StreamInv'
<1>. USE DEF StreamInv, WorldInv
<1>. DEFINE s == streams[i]
            x == now - pausedTicks
            vested == VestedBySchedule(s, x)
            due == vested - s.released
<1>1. x = EffectiveTime /\ x \in Nat /\ x <= x
  BY EffectiveIsClock
<1>2. i \in DOMAIN streams /\ s \in StreamRecords
  BY DEF Release
<1>3. /\ UNCHANGED <<product, attested, now, paused, frozenAt, remap, pausedTicks>>
      /\ streams' = [streams EXCEPT ![i].released = @ + due]
      /\ Transfer(s.token, Self, s.beneficiary, due)
      /\ due > 0
  BY <1>1 DEF Release
<1>. HIDE DEF x
<1>4. vested \in Nat /\ s.released \in Nat /\ s.token \in Tokens
  <2>1. vested \in Nat
    BY <1>1, <1>2, VestingGrows
  <2>. QED
    BY <1>2, <2>1 DEF StreamRecords
<1>5. due \in Nat
  BY <1>3, <1>4
<1>6. s.beneficiary \in Accounts /\ Self \in Accounts
  BY <1>2, RevenueAssumption DEF StreamRecords
<1>. HIDE DEF due
<1>7. /\ balance' \in Balances
      /\ \A u \in Tokens \ {s.token} : balance'[u] = balance[u]
      /\ balance'[s.token][Self] >= balance[s.token][Self] - due
  <2>1. /\ balance' \in Balances
        /\ \A u \in Tokens \ {s.token} : balance'[u] = balance[u]
        /\ \A a \in Accounts :
              balance'[s.token][a] =
                 balance[s.token][a] + (IF a = s.beneficiary THEN due ELSE 0)
                    - (IF a = Self THEN due ELSE 0)
    BY <1>3, <1>4, <1>5, <1>6, TransferEffect
  <2>2. balance[s.token][Self] \in Nat
    BY <1>4, <1>6 DEF Balances
  <2>3. balance'[s.token][Self] =
           balance[s.token][Self] + (IF Self = s.beneficiary THEN due ELSE 0) - due
    BY <1>6, <2>1
  <2>. HIDE DEF s
  <2>. QED
    BY <1>5, <2>1, <2>2, <2>3
<1>8. /\ streams' \in Seq(StreamRecords)
      /\ \A u \in Tokens :
            Owed(streams', u) = Owed(streams, u) - (IF s.token = u THEN due ELSE 0)
  <2>1. ASSUME NEW u \in Tokens
        PROVE  /\ [streams EXCEPT ![i].released = @ + due] \in Seq(StreamRecords)
               /\ Owed([streams EXCEPT ![i].released = @ + due], u) =
                     Owed(streams, u) - (IF streams[i].token = u THEN due ELSE 0)
    BY <1>2, <1>5, OwedReleased
  <2>. QED
    BY <1>3, <1>4, <2>1
<1>9. VestingClock'
  BY <1>3 DEF VestingClock
<1>10. StreamsFunded'
  <2>1. SUFFICES ASSUME NEW u \in Tokens
                 PROVE  balance'[u][Self] >= Owed(streams', u)
    BY DEF StreamsFunded, Owed
  <2>2. balance[u][Self] >= Owed(streams, u) /\ balance[u][Self] \in Nat
    BY <1>6, FundedMeans DEF Balances
  <2>3. Owed(streams, u) \in Int
    BY <1>2, OwedAppend
  <2>4. balance'[u][Self] \in Nat
    BY <1>6, <1>7 DEF Balances
  <2>5. CASE u = s.token
    <3>1. Owed(streams', u) = Owed(streams, u) - due
      BY <1>8, <2>5
    <3>. QED
      <4>1. due \in Nat /\ balance'[u][Self] >= balance[u][Self] - due
        BY <1>5, <1>7, <2>5
      <4>. QED
        BY <2>2, <2>3, <2>4, <3>1, <4>1
  <2>6. CASE u # s.token
    <3>1. Owed(streams', u) = Owed(streams, u) - 0
      BY <1>8, <2>6
    <3>. QED
      BY <1>7, <2>2, <2>3, <2>6, <3>1
  <2>. QED
    BY <2>5, <2>6
<1>11. NothingAhead'
  <2>1. /\ DOMAIN streams' = DOMAIN streams
        /\ \A j \in DOMAIN streams \ {i} : streams'[j] = streams[j]
        /\ streams'[i] = [s EXCEPT !.released = s.released + due]
    BY <1>2, <1>3
  <2>. HIDE DEF s
  <2>2. /\ streams'[i].released = vested
        /\ streams'[i].amount = s.amount /\ streams'[i].vesting = s.vesting
    BY <1>2, <1>4, <2>1 DEF StreamRecords, due
  <2>3. VestedBySchedule(streams'[i], x) = vested
    BY <2>2 DEF VestedBySchedule
  <2>4. ASSUME NEW j \in DOMAIN streams'
        PROVE  streams'[j].released <= VestedBySchedule(streams'[j], x)
    <3>1. CASE j = i
      BY <1>4, <2>2, <2>3, <3>1
    <3>2. CASE j # i
      BY <2>1, <3>2 DEF NothingAhead, x
    <3>. QED
      BY <3>1, <3>2
  <2>5. now' - pausedTicks' = x
    BY <1>3 DEF x
  <2>. QED
    BY <2>4, <2>5 DEF NothingAhead, VestedBySchedule
<1>. QED
  BY <1>3, <1>7, <1>8, <1>9, <1>10, <1>11

LEMMA StreamStep ==
    ASSUME WorldInv, StreamInv, StreamNext
    PROVE  WorldInv' /\ StreamInv'
<1>1. product = "stream"
  BY DEF StreamNext
<1>2. CASE \/ \E caller \in Admins : StreamInitialize(caller)
           \/ \E caller \in Admins, nonce \in 0 .. NonceMax :
                 PauseStream(caller, nonce) \/ ResumeStream(caller, nonce)
           \/ StreamTick
           \/ AttestationContractStep(StreamKeys) /\ UNCHANGED streamVars
  BY <1>1, <1>2, StreamControlStep
<1>3. CASE \E caller \in Admins, nonce \in 0 .. NonceMax, k \in StreamKeys,
              to \in Holders, t \in Tokens, amount \in StreamAmounts,
              vesting \in Schedules :
                 CreateStream(caller, nonce, k, to, t, amount, vesting)
  BY <1>1, <1>3, CreateStreamStep
<1>4. CASE \E i \in 1 .. MaxStreams : Release(i)
  BY <1>1, <1>4, ReleaseStep
<1>. QED
  BY <1>2, <1>3, <1>4 DEF StreamNext

\* A step of another product finds no stream at Self.
LEMMA StreamElsewhere ==
    ASSUME WorldInv, WorldInv', StreamInv, product # "stream",
           UNCHANGED product, UNCHANGED streamVars
    PROVE  StreamInv'
<1>1. StreamIdle /\ StreamIdle'
  BY DEF StreamInv, StreamIdle, streamVars
<1>2. streams' \in Seq(StreamRecords) /\ NothingAhead'
  BY <1>1 DEF StreamIdle, NothingAhead
<1>3. VestingClock'
  <2>1. now' \in Nat
    BY DEF WorldInv
  <2>2. paused' = FALSE /\ remap' = Absent /\ pausedTicks' = 0 /\ 0 <= now'
    BY <1>1, <2>1 DEF StreamIdle
  <2>. QED
    BY <2>2 DEF VestingClock
<1>4. StreamsFunded'
  <2>1. SUFFICES ASSUME NEW t \in Tokens
                 PROVE  balance'[t][Self] >= Owed(streams', t)
    BY DEF StreamsFunded, Owed
  <2>2. Owed(streams', t) = 0
    BY <1>1, OwedNothing DEF StreamIdle
  <2>3. balance'[t][Self] \in Nat
    BY RevenueAssumption DEF WorldInv, Balances
  <2>. QED
    BY <2>2, <2>3
<1>. QED
  BY <1>1, <1>2, <1>3, <1>4 DEF StreamInv

-----------------------------------------------------------------------------
(* The lending settlement *)

AgreementRecords ==
    [lender : Holders, business : Businesses,
     terms : [share : Nat, min : Nat, cap : Nat], token : Tokens,
     status : {"active", "completed", "defaulted"}]

SettlementInv ==
    /\ agreements \in Seq(AgreementRecords)
    /\ DOMAIN settlements = AgreementIds \X Months

\* What PaidPeriodsStayPaid says of one step.
PaidStep ==
    \A c \in DOMAIN settlements :
        settlements'[c] # settlements[c] =>
           /\ Committed(c[1], c[2]) = 0
           /\ agreements[c[1]].status = "active"

\* A netted repayment is never negative, whatever revenues are claimed.
LEMMA RepaymentNat ==
    ASSUME NEW terms \in [share : Nat, min : Nat, cap : Nat],
           NEW total \in Int, NEW n \in Nat
    PROVE  Repayment(terms, total, n) \in Nat
<1>1. CASE total >= terms.min * n /\ total > 0
  <2>1. ShareOf(total, terms.share) \in Nat
    BY <1>1, ShareOfNat
  <2>2. terms.cap * n \in Nat
    BY MulNat
  <2>3. Repayment(terms, total, n) =
           SmallerOf(ShareOf(total, terms.share), terms.cap * n)
    BY <1>1 DEF Repayment
  <2>. QED
    BY <2>1, <2>2, <2>3 DEF SmallerOf
<1>2. CASE ~(total >= terms.min * n /\ total > 0)
  <2>1. Repayment(terms, total, n) = 0
    BY <1>2 DEF Repayment
  <2>. QED
    BY <2>1
<1>. QED
  BY <1>1, <1>2

LEMMA SettleMultiStep ==
    ASSUME WorldInv, SettlementInv, NEW id \in AgreementIds,
           NEW n \in 1 .. MaxPeriods,
           NEW periods \in [1 .. n -> Months],
           NEW revenues \in [1 .. n -> Revenues],
           SettleMulti(id, periods, revenues)
    PROVE  WorldInv' /\ SettlementInv' /\ UNCHANGED product /\ PaidStep
<1>. USE DEF WorldInv, SettlementInv
<1>1. Len(periods) = n /\ n \in Nat
  BY SettlementAssumption
<1>2. /\ id \in DOMAIN agreements /\ agreements[id].status = "active"
      /\ Uncommitted(id, periods)
      /\ UNCHANGED <<product, attested, now, agreements>>
  BY DEF SettleMulti
<1>. DEFINE agreement == agreements[id]
            total == SumFunctionOnSet(revenues, 1 .. n)
            repaid == Repayment(agreement.terms, total, n)
            lastAt(p) == CHOOSE i \in 1 .. n :
                            /\ periods[i] = p
                            /\ \A j \in i + 1 .. n : periods[j] # p
            after == [c \in DOMAIN settlements |->
                        IF c[1] = id /\ \E i \in 1 .. n : periods[i] = c[2]
                        THEN [amount |-> RecordedPart(repaid, lastAt(c[2]), n),
                              at |-> now]
                        ELSE settlements[c]]
<1>3. /\ Transfer(agreement.token, agreement.business, agreement.lender, repaid)
      /\ settlements' = after
  BY <1>1 DEF SettleMulti
<1>4. agreement \in AgreementRecords
  BY <1>2
<1>5. /\ agreement.terms \in [share : Nat, min : Nat, cap : Nat]
      /\ agreement.token \in Tokens
      /\ agreement.business \in Accounts /\ agreement.lender \in Accounts
  BY <1>4, RevenueAssumption DEF AgreementRecords
<1>6. repaid \in Nat
  <2>1. \A i \in 1 .. n : revenues[i] \in Int
    BY RevenueAssumption
  <2>2. IsFiniteSet(1 .. n)
    BY <1>1, FS_Interval
  <2>3. total \in Int
    BY <2>1, <2>2, SumType
  <2>. HIDE DEF total, agreement
  <2>. QED
    BY <1>1, <1>5, <2>3, RepaymentNat
<1>. HIDE DEF agreement, repaid, lastAt
<1>7. balance' \in Balances
  BY <1>3, <1>5, <1>6, TransferEffect
<1>8. DOMAIN settlements' = AgreementIds \X Months
  BY <1>3
<1>9. PaidStep
  <2>1. SUFFICES ASSUME NEW c \in DOMAIN settlements,
                        settlements'[c] # settlements[c]
                 PROVE  /\ Committed(c[1], c[2]) = 0
                        /\ agreements[c[1]].status = "active"
    BY DEF PaidStep
  <2>2. c[1] = id /\ \E i \in 1 .. n : periods[i] = c[2]
    BY <1>3, <2>1
  <2>3. PICK i \in 1 .. n : periods[i] = c[2]
    BY <2>2
  <2>4. Committed(id, periods[i]) = 0
    BY <1>2 DEF Uncommitted
  <2>. QED
    BY <1>2, <2>2, <2>3, <2>4
<1>. QED
  BY <1>2, <1>7, <1>8, <1>9

LEMMA SettlementStep ==
    ASSUME WorldInv, SettlementInv, SettlementNext
    PROVE  WorldInv' /\ SettlementInv' /\ UNCHANGED product /\ PaidStep
<1>. USE DEF WorldInv, SettlementInv, PaidStep
<1>1. ASSUME NEW caller \in Admins, SettlementInitialize(caller)
      PROVE  WorldInv' /\ SettlementInv' /\ UNCHANGED product /\ PaidStep
  BY <1>1 DEF SettlementInitialize, world
<1>2. ASSUME NEW caller \in Admins, NEW id \in AgreementIds,
             NEW outcome \in {"completed", "defaulted"},
             CloseAgreement(caller, id, outcome)
      PROVE  WorldInv' /\ SettlementInv' /\ UNCHANGED product /\ PaidStep
  <2>1. /\ UNCHANGED <<world, settlements>> /\ id \in DOMAIN agreements
        /\ agreements' = [agreements EXCEPT ![id].status = outcome]
    BY <1>2 DEF CloseAgreement
  <2>2. \A j \in DOMAIN agreements : agreements[j] \in AgreementRecords
    OBVIOUS
  <2>3. [agreements[id] EXCEPT !.status = outcome] \in AgreementRecords
    <3>1. agreements[id] \in AgreementRecords
      BY <2>1, <2>2
    <3>. QED
      BY <3>1 DEF AgreementRecords
  <2>4. agreements' \in Seq(AgreementRecords)
    <3>1. agreements' \in [1 .. Len(agreements) -> AgreementRecords]
      BY <2>1, <2>2, <2>3
    <3>. QED
      BY <3>1
  <2>. QED
    BY <2>1, <2>4 DEF world
<1>3. ASSUME NEW lender \in Holders, NEW business \in Businesses,
             NEW terms \in AgreementTerms, NEW t \in Tokens,
             CreateAgreement(lender, business, terms, t)
      PROVE  WorldInv' /\ SettlementInv' /\ UNCHANGED product /\ PaidStep
  <2>. DEFINE new == [lender |-> lender, business |-> business, terms |-> terms,
                      token |-> t, status |-> "active"]
  <2>1. /\ UNCHANGED <<world, settlements>>
        /\ agreements' = Append(agreements, new)
        /\ terms.min >= 0 /\ terms.cap > 0
    BY <1>3 DEF CreateAgreement
  <2>2. terms \in [share : Nat, min : Nat, cap : Nat]
    BY <2>1, SettlementAssumption
  <2>3. new \in AgreementRecords
    BY <2>2 DEF AgreementRecords
  <2>. HIDE DEF new
  <2>. QED
    BY <2>1, <2>3 DEF world
<1>4. ASSUME NEW id \in AgreementIds, NEW n \in 1 .. MaxPeriods,
             NEW periods \in [1 .. n -> Months],
             NEW revenues \in [1 .. n -> Revenues],
             SettleMulti(id, periods, revenues)
      PROVE  WorldInv' /\ SettlementInv' /\ UNCHANGED product /\ PaidStep
  BY <1>4, SettleMultiStep
<1>5. ASSUME SettlementTick
      PROVE  WorldInv' /\ SettlementInv' /\ UNCHANGED product /\ PaidStep
  BY <1>5 DEF SettlementTick, settlementVars
<1>. HIDE DEF WorldInv, SettlementInv, PaidStep
<1>. QED
  BY <1>1, <1>2, <1>3, <1>4, <1>5 DEF SettlementNext

-----------------------------------------------------------------------------
(* The revenue share *)

Shares == [address : Holders, bps : Nat]

DistributionRecords == [total : Nat, amounts : Seq(Int)]

ShareInv ==
    /\ shareAdmin # Nobody => shareToken \in Tokens
    /\ stakeholders \in Seq(Shares)
    /\ stakeholders # <<>> =>
          shareAdmin # Nobody /\ WellFormedShares(stakeholders)
    /\ distributions \in [Keys -> DistributionRecords \cup {Absent}]
    /\ PaidAsRecorded

\* The stakeholders' amounts are natural numbers and add up to the revenue:
\* the cuts never exceed it, and the residual goes to the first stakeholder.
LEMMA AmountsAddUp ==
    ASSUME stakeholders \in Seq(Shares), WellFormedShares(stakeholders),
           NEW revenue \in Nat
    PROVE  /\ DOMAIN Amounts(revenue) = DOMAIN stakeholders
           /\ \A i \in DOMAIN stakeholders : Amounts(revenue)[i] \in Nat
           /\ SumFunctionOnSet(Amounts(revenue), DOMAIN stakeholders) = revenue
<1>. DEFINE D == DOMAIN stakeholders
            bps == [i \in D |-> stakeholders[i].bps]
            cut == [i \in D |-> ShareOf(revenue, stakeholders[i].bps)]
            whole == [i \in D |-> revenue * bps[i]]
            scaled == [i \in D |-> BasisPoints * cut[i]]
            residual == revenue - SumFunctionOnSet(cut, D)
<1>1. D = 1 .. Len(stakeholders) /\ Len(stakeholders) \in Nat \ {0}
  BY DEF WellFormedShares
<1>2. IsFiniteSet(D) /\ 1 \in D
  BY <1>1, FS_Interval
<1>3. \A i \in D : stakeholders[i] \in Shares
  BY <1>1
<1>4. \A i \in D : bps[i] \in Nat
  BY <1>3 DEF Shares
<1>5. \A i \in D : cut[i] = (revenue * bps[i]) \div BasisPoints /\ cut[i] \in Nat
  <2>1. \A i \in D : cut[i] = ShareOf(revenue, bps[i])
    OBVIOUS
  <2>. HIDE DEF bps, cut
  <2>. QED
    BY <1>4, <2>1, ShareOfNat DEF ShareOf
<1>6. Amounts(revenue) = [cut EXCEPT ![1] = @ + residual]
  BY DEF Amounts
<1>7. SumFunctionOnSet(bps, D) = BasisPoints
  BY DEF WellFormedShares
<1>8. \A i \in D : whole[i] = revenue * bps[i] /\ scaled[i] = BasisPoints * cut[i]
  OBVIOUS
<1>9. DOMAIN cut = D
  OBVIOUS
<1>. DEFINE sum == SumFunctionOnSet(cut, D)
<1>. HIDE DEF D, bps, cut, whole, scaled
<1>10. sum \in Nat
  BY <1>2, <1>5, SumNat
<1>11. SumFunctionOnSet(scaled, D) = BasisPoints * sum
  BY <1>2, <1>5, <1>8, SumScale, RevenueAssumption
<1>12. SumFunctionOnSet(whole, D) = revenue * BasisPoints
  <2>1. SumFunctionOnSet(whole, D) = revenue * SumFunctionOnSet(bps, D)
    BY <1>2, <1>4, <1>8, SumScale
  <2>. QED
    BY <1>7, <2>1
<1>13. SumFunctionOnSet(scaled, D) <= SumFunctionOnSet(whole, D)
  <2>1. ASSUME NEW i \in D
        PROVE  scaled[i] \in Int /\ whole[i] \in Int /\ scaled[i] <= whole[i]
    <3>. DEFINE w == revenue * bps[i]
    <3>1. w \in Nat /\ whole[i] = w
      BY <1>4, <1>8, MulNat
    <3>. HIDE DEF w
    <3>2. scaled[i] = BasisPoints * (w \div BasisPoints)
      BY <1>5, <1>8 DEF w
    <3>. QED
      BY <3>1, <3>2, DivBounds, RevenueAssumption
  <2>. QED
    BY <1>2, <2>1, SumMonotonic
<1>14. sum <= revenue
  <2>1. BasisPoints * sum <= revenue * BasisPoints
    BY <1>11, <1>12, <1>13
  <2>2. SUFFICES ASSUME revenue + 1 <= sum PROVE FALSE
    BY <1>10
  <2>3. BasisPoints * (revenue + 1) <= BasisPoints * sum
    BY <1>10, <2>2, MulMono, RevenueAssumption
  <2>4. BasisPoints * (revenue + 1) = revenue * BasisPoints + BasisPoints
    BY RevenueAssumption
  <2>5. /\ revenue * BasisPoints \in Nat /\ BasisPoints * sum \in Nat
        /\ BasisPoints \in Nat /\ BasisPoints > 0
    BY <1>10, MulNat, RevenueAssumption
  <2>. QED
    BY <2>1, <2>3, <2>4, <2>5
<1>. DEFINE amounts == [cut EXCEPT ![1] = @ + residual]
<1>15. /\ DOMAIN amounts = D
       /\ amounts[1] = cut[1] + residual
       /\ \A i \in D \ {1} : amounts[i] = cut[i]
  BY <1>2, <1>9
<1>16. residual \in Nat /\ residual = revenue - sum
  BY <1>10, <1>14
<1>. HIDE DEF amounts, residual
<1>17. \A i \in D : amounts[i] \in Nat
  BY <1>2, <1>5, <1>15, <1>16
<1>18. SumFunctionOnSet(amounts, D) = sum + amounts[1] - cut[1]
  <2>1. \A i \in D : cut[i] \in Int
    BY <1>5
  <2>2. amounts[1] \in Int
    BY <1>2, <1>17
  <2>. QED
    BY <1>2, <1>15, <2>1, <2>2, SumUpdate
<1>. HIDE DEF sum
<1>19. SumFunctionOnSet(amounts, D) = revenue
  BY <1>2, <1>5, <1>10, <1>15, <1>16, <1>18
<1>. QED
  BY <1>6, <1>15, <1>17, <1>19 DEF D, amounts

\* The part of a distribution that reaches account a.
ReceivedBy(revenue, a) ==
    SumFunctionOnSet(Amounts(revenue),
                     {i \in DOMAIN Amounts(revenue) : stakeholders[i].address = a})

\* A distribution costs the business exactly the revenue.
LEMMA ReceivedAddsUp ==
    ASSUME stakeholders \in Seq(Shares), WellFormedShares(stakeholders),
           NEW revenue \in Nat,
           NEW credit, credit = [a \in Accounts |-> ReceivedBy(revenue, a)]
    PROVE  /\ \A a \in Accounts : credit[a] \in Nat
           /\ \A a \in Accounts \ Holders : credit[a] = 0
           /\ SumFunctionOnSet(credit, Accounts) = revenue
<1>. DEFINE D == DOMAIN stakeholders
            amounts == Amounts(revenue)
            to == [i \in D |-> stakeholders[i].address]
<1>1. /\ DOMAIN amounts = D /\ \A i \in D : amounts[i] \in Nat
      /\ SumFunctionOnSet(amounts, D) = revenue
  BY AmountsAddUp
<1>2. D = 1 .. Len(stakeholders) /\ Len(stakeholders) \in Nat
  OBVIOUS
<1>3. IsFiniteSet(D)
  BY <1>2, FS_Interval
<1>4. \A i \in D : stakeholders[i] \in Shares
  BY <1>2
<1>5. to \in [D -> Accounts] /\ \A i \in D : to[i] \in Holders
  BY <1>4, RevenueAssumption DEF Shares
<1>6. ASSUME NEW a \in Accounts
      PROVE  credit[a] = SumFunctionOnSet(amounts, Fibre(D, to, a))
  <2>1. {i \in DOMAIN amounts : stakeholders[i].address = a} = Fibre(D, to, a)
    BY <1>1 DEF Fibre
  <2>2. credit[a] =
           SumFunctionOnSet(amounts,
                            {i \in DOMAIN amounts : stakeholders[i].address = a})
    BY DEF ReceivedBy
  <2>. QED
    BY <2>1, <2>2
<1>. HIDE DEF D, amounts, to
<1>7. ASSUME NEW a \in Accounts
      PROVE  credit[a] \in Nat
  <2>1. IsFiniteSet(Fibre(D, to, a)) /\ \A i \in Fibre(D, to, a) : amounts[i] \in Nat
    BY <1>1, <1>3, FS_Subset DEF Fibre
  <2>2. SumFunctionOnSet(amounts, Fibre(D, to, a)) \in Nat
    BY <2>1, SumNat
  <2>. QED
    BY <1>6, <2>2
<1>8. ASSUME NEW a \in Accounts \ Holders
      PROVE  credit[a] = 0
  <2>1. Fibre(D, to, a) = {}
    BY <1>5 DEF Fibre
  <2>. QED
    BY <1>6, <2>1, SumEmpty
<1>9. SumFunctionOnSet(credit, Accounts) = SumFunctionOnSet(amounts, D)
  <2>1. \A i \in D : amounts[i] \in Int
    BY <1>1
  <2>. QED
    BY <1>3, <1>5, <1>6, <2>1, SumPartition, RevenueAssumption
<1>. QED
  BY <1>1, <1>7, <1>8, <1>9

LEMMA DistributeStep ==
    ASSUME WorldInv, ShareInv, product = "share", NEW k \in Keys,
           NEW revenue \in Revenues, NEW nonce \in 0 .. NonceMax,
           DistributeRevenue(k, revenue, nonce)
    PROVE  WorldInv' /\ ShareInv'
<1>. USE DEF WorldInv, ShareInv
<1>. DEFINE credit == [a \in Accounts |-> ReceivedBy(revenue, a)]
            record == [total |-> revenue, amounts |-> Amounts(revenue)]
            b == k[1]
            tok == shareToken
<1>1. /\ UNCHANGED <<product, attested, now, shareAdmin, shareToken, stakeholders>>
      /\ Pay(tok, b, credit)
      /\ distributions' = [distributions EXCEPT ![k] = record]
      /\ distributions[k] = Absent
      /\ stakeholders # <<>>
      /\ revenue \in Nat
  BY RevenueAssumption DEF DistributeRevenue, NotDistributed, ReceivedBy
<1>2. /\ WellFormedShares(stakeholders) /\ tok \in Tokens
      /\ b \in Businesses /\ b \in Accounts /\ k[2] \in Months /\ k = <<b, k[2]>>
  BY <1>1, RevenueAssumption DEF Keys
<1>3. /\ \A a \in Accounts : credit[a] \in Nat
      /\ \A a \in Accounts \ Holders : credit[a] = 0
      /\ SumFunctionOnSet(credit, Accounts) = revenue
  <2>1. credit = [a \in Accounts |-> ReceivedBy(revenue, a)]
    OBVIOUS
  <2>. HIDE DEF credit
  <2>. QED
    BY <1>1, <1>2, <2>1, ReceivedAddsUp
<1>. HIDE DEF credit
<1>4. /\ balance' \in Balances
      /\ \A u \in Tokens \ {tok} : balance'[u] = balance[u]
      /\ \A a \in Accounts :
            balance'[tok][a] = balance[tok][a] + credit[a]
                                  - (IF a = b THEN revenue ELSE 0)
  <2>1. /\ balance' \in Balances
        /\ \A u \in Tokens \ {tok} : balance'[u] = balance[u]
        /\ \A a \in Accounts :
              balance'[tok][a] =
                 balance[tok][a] + credit[a]
                    - (IF a = b THEN SumFunctionOnSet(credit, Accounts) ELSE 0)
    <3>. HIDE DEF tok, b
    <3>. QED
      BY <1>1, <1>2, <1>3, PayEffect
  <2>. QED
    BY <1>3, <2>1
<1>5. record \in DistributionRecords /\ record.total = revenue /\ record # Absent
  <2>1. /\ DOMAIN Amounts(revenue) = DOMAIN stakeholders
        /\ \A i \in DOMAIN stakeholders : Amounts(revenue)[i] \in Nat
    BY <1>1, <1>2, AmountsAddUp
  <2>2. Amounts(revenue) = [i \in DOMAIN stakeholders |-> Amounts(revenue)[i]]
    BY <2>1 DEF Amounts
  <2>3. Amounts(revenue) \in Seq(Int)
    <3>1. Amounts(revenue) \in [1 .. Len(stakeholders) -> Int]
      BY <2>1, <2>2
    <3>. QED
      BY <3>1
  <2>4. record \in DistributionRecords
    BY <1>1, <2>3 DEF DistributionRecords
  <2>. QED
    BY <2>4, ShareAssumption DEF DistributionRecords
<1>. HIDE DEF record
<1>6. distributions' \in [Keys -> DistributionRecords \cup {Absent}]
  BY <1>1, <1>5
<1>7. PaidAsRecorded'
  <2>1. SUFFICES ASSUME NEW x \in Businesses \ Holders
                 PROVE  SumFunctionOnSet([t \in Tokens |-> Funds - balance'[t][x]],
                                         Tokens) =
                        SumFunctionOnSet([p \in Months |->
                                            IF distributions'[<<x, p>>] = Absent THEN 0
                                            ELSE distributions'[<<x, p>>].total],
                                         Months)
    BY DEF PaidAsRecorded
  <2>. DEFINE spent == [t \in Tokens |-> Funds - balance[t][x]]
              spent2 == [t \in Tokens |-> Funds - balance'[t][x]]
              noted == [p \in Months |-> IF distributions[<<x, p>>] = Absent THEN 0
                                         ELSE distributions[<<x, p>>].total]
              noted2 == [p \in Months |-> IF distributions'[<<x, p>>] = Absent THEN 0
                                          ELSE distributions'[<<x, p>>].total]
              paid == IF x = b THEN revenue ELSE 0
  <2>2. SumFunctionOnSet(spent, Tokens) = SumFunctionOnSet(noted, Months)
    BY DEF PaidAsRecorded
  <2>3. x \in Accounts /\ \A t \in Tokens : balance[t][x] \in Nat
    BY RevenueAssumption DEF Balances
  <2>4. /\ \A t \in Tokens : spent[t] \in Int
        /\ \A t \in Tokens \ {tok} : spent2[t] = spent[t]
        /\ spent2[tok] = spent[tok] + paid
        /\ paid \in Nat
    <3>1. credit[x] = 0
      BY <1>3, <2>3
    <3>2. balance'[tok][x] = balance[tok][x] - paid
      BY <1>1, <1>2, <1>4, <2>3, <3>1
    <3>3. \A u \in Tokens \ {tok} : balance'[u] = balance[u]
      BY <1>4
    <3>4. Funds \in Nat /\ revenue \in Nat /\ balance[tok][x] \in Nat /\ tok \in Tokens
      BY <1>1, <1>2, <2>3, RevenueAssumption
    <3>. QED
      BY <2>3, <3>2, <3>3, <3>4
  <2>5. \A p \in Months : noted[p] \in Int
    <3>1. \A p \in Months : distributions[<<x, p>>] \in DistributionRecords \cup {Absent}
      BY DEF Keys
    <3>. QED
      BY <3>1 DEF DistributionRecords
  <2>6. /\ IsFiniteSet(Tokens) /\ IsFiniteSet(Months)
    BY RevenueAssumption
  <2>7. x = b => /\ \A p \in Months \ {k[2]} : noted2[p] = noted[p]
                 /\ noted[k[2]] = 0 /\ noted2[k[2]] = revenue
    <3>1. SUFFICES ASSUME x = b
                   PROVE  /\ \A p \in Months \ {k[2]} : noted2[p] = noted[p]
                          /\ noted[k[2]] = 0 /\ noted2[k[2]] = revenue
      OBVIOUS
    <3>2. /\ distributions[<<x, k[2]>>] = Absent
          /\ distributions'[<<x, k[2]>>] = record
      BY <1>1, <1>2, <3>1
    <3>3. \A p \in Months \ {k[2]} : distributions'[<<x, p>>] = distributions[<<x, p>>]
      BY <1>1, <1>2, <3>1 DEF Keys
    <3>. QED
      BY <1>2, <1>5, <3>2, <3>3
  <2>8. x # b => \A p \in Months : noted2[p] = noted[p]
    <3>1. x # b => \A p \in Months : distributions'[<<x, p>>] = distributions[<<x, p>>]
      BY <1>1, <1>2 DEF Keys
    <3>. QED
      BY <3>1
  <2>. HIDE DEF spent, spent2, noted, noted2
  <2>9. SumFunctionOnSet(spent2, Tokens) = SumFunctionOnSet(spent, Tokens) + paid
    <3>1. spent[tok] \in Int /\ spent2[tok] \in Int /\ tok \in Tokens
      BY <1>2, <2>4
    <3>. HIDE DEF tok
    <3>2. SumFunctionOnSet(spent2, Tokens)
             = SumFunctionOnSet(spent, Tokens) + spent2[tok] - spent[tok]
      BY <2>4, <2>6, <3>1, SumUpdate
    <3>3. SumFunctionOnSet(spent, Tokens) \in Int
      BY <2>4, <2>6, SumType
    <3>. QED
      BY <2>4, <3>1, <3>2, <3>3
  <2>10. SumFunctionOnSet(noted2, Months) = SumFunctionOnSet(noted, Months) + paid
    <3>1. SumFunctionOnSet(noted, Months) \in Int
      BY <2>5, <2>6, SumType
    <3>2. CASE x = b
      <4>. DEFINE m == k[2]
      <4>1. /\ m \in Months /\ noted2[m] \in Int /\ noted2[m] = revenue
            /\ noted[m] = 0 /\ \A p \in Months \ {m} : noted2[p] = noted[p]
        BY <1>1, <1>2, <2>7, <3>2
      <4>. HIDE DEF m
      <4>2. SumFunctionOnSet(noted2, Months)
               = SumFunctionOnSet(noted, Months) + noted2[m] - noted[m]
        BY <2>5, <2>6, <4>1, SumUpdate
      <4>. QED
        BY <1>1, <3>1, <3>2, <4>1, <4>2
    <3>3. CASE x # b
      <4>1. SumFunctionOnSet(noted2, Months) = SumFunctionOnSet(noted, Months)
        BY <2>6, <2>8, <3>3, SumCongruence
      <4>. QED
        BY <3>1, <3>3, <4>1
    <3>. QED
      BY <3>2, <3>3
  <2>. QED
    BY <2>2, <2>9, <2>10 DEF spent2, noted2
<1>8. WellFormedShares(stakeholders)'
  BY <1>1, <1>2 DEF WellFormedShares
<1>. QED
  BY <1>1, <1>4, <1>6, <1>7, <1>8

LEMMA ShareStep ==
    ASSUME WorldInv, ShareInv, ShareNext
    PROVE  WorldInv' /\ ShareInv' /\ UNCHANGED product
<1>0. product = "share"
  BY DEF ShareNext
<1>1. ASSUME NEW k \in Keys, NEW revenue \in Revenues,
             NEW nonce \in 0 .. NonceMax, DistributeRevenue(k, revenue, nonce)
      PROVE  WorldInv' /\ ShareInv' /\ UNCHANGED product
  BY <1>0, <1>1, DistributeStep DEF DistributeRevenue
<1>. USE DEF WorldInv, ShareInv, PaidAsRecorded, WellFormedShares
<1>2. ASSUME NEW caller \in Admins, NEW source \in {Oracle, OtherContract},
             NEW t \in Tokens, NEW nonce \in 0 .. NonceMax,
             ShareInitialize(caller, nonce, source, t)
      PROVE  WorldInv' /\ ShareInv' /\ UNCHANGED product
  <2>1. /\ UNCHANGED <<world, stakeholders, distributions>>
        /\ shareToken' = t /\ shareAdmin' # Nobody
    BY <1>2, RevenueAssumption DEF ShareInitialize
  <2>. QED
    BY <2>1 DEF world
<1>3. ASSUME NEW nonce \in 0 .. NonceMax, NEW list \in StakeholderLists,
             ConfigureStakeholders(nonce, list)
      PROVE  WorldInv' /\ ShareInv' /\ UNCHANGED product
  <2>1. /\ UNCHANGED <<world, distributions, shareAdmin, shareToken>>
        /\ shareAdmin # Nobody /\ stakeholders' = list /\ WellFormedShares(list)
    BY <1>3 DEF ConfigureStakeholders, ShareAdminCall
  <2>2. list \in Seq(Shares)
    BY ShareAssumption DEF Shares
  <2>. QED
    BY <2>1, <2>2 DEF world
<1>4. ASSUME NEW nonce \in 0 .. NonceMax, NEW source \in {Oracle, OtherContract},
             SetAttestationContract(nonce, source)
      PROVE  WorldInv' /\ ShareInv' /\ UNCHANGED product
  <2>1. UNCHANGED <<world, distributions, shareAdmin, shareToken, stakeholders>>
    BY <1>4 DEF SetAttestationContract, ShareAdminCall
  <2>. QED
    BY <2>1 DEF world
<1>5. ASSUME NEW nonce \in 0 .. NonceMax, NEW t \in Tokens, SetToken(nonce, t)
      PROVE  WorldInv' /\ ShareInv' /\ UNCHANGED product
  <2>1. /\ UNCHANGED <<world, distributions, shareAdmin, stakeholders>>
        /\ shareToken' = t
    BY <1>5 DEF SetToken, ShareAdminCall
  <2>. QED
    BY <2>1 DEF world
<1>6. ASSUME AttestationContractStep(Keys), UNCHANGED shareVars
      PROVE  WorldInv' /\ ShareInv' /\ UNCHANGED product
  <2>1. /\ attested' \in [Keys -> Answers \cup {Absent}]
        /\ UNCHANGED <<product, balance, now>>
    BY <1>6, OracleStep
  <2>. QED
    BY <1>6, <2>1 DEF shareVars
<1>. HIDE DEF WorldInv, ShareInv, PaidAsRecorded, WellFormedShares
<1>. QED
  BY <1>1, <1>2, <1>3, <1>4, <1>5, <1>6 DEF ShareNext

LEMMA ShareElsewhere ==
    ASSUME ShareInv, product # "share", UNCHANGED product, UNCHANGED shareVars
    PROVE  ShareInv'
  BY DEF ShareInv, shareVars, PaidAsRecorded, WellFormedShares

-----------------------------------------------------------------------------
(* The revenue bonds *)

Terms ==
    [face : Nat, structure : {"fixed", "linked", "hybrid"}, share : Nat,
     min : Nat, max : Nat, maturity : Nat, issue : Nat]

BondRecords ==
    [issuer : Businesses, owner : Accounts, terms : Terms, token : Tokens,
     status : {"active", "redeemed", "defaulted", "matured"}]

RedemptionRecords == [revenue : Nat, amount : Nat]

\* What the redemption records of a bond add up to.
Repaid(table, id) ==
    SumFunctionOnSet([p \in Months |-> IF table[<<id, p>>] = Absent THEN 0
                                       ELSE table[<<id, p>>].amount], Months)

BondsInv ==
    /\ bonds \in Seq(BondRecords)
    /\ Len(bonds) <= MaxBonds
    /\ redemptions \in [BondIds \X Months -> RedemptionRecords \cup {Absent}]
    /\ totalRedeemed \in [BondIds -> Nat]
    /\ \A id \in BondIds \ DOMAIN bonds, p \in Months :
          redemptions[<<id, p>>] = Absent
    /\ BondBooksBalance

\* A transfer is one payment.
LEMMA TransferMoves ==
    ASSUME balance \in Balances, NEW t \in Tokens,
           NEW from \in Accounts, NEW to \in Accounts, NEW amount \in Nat,
           Transfer(t, from, to, amount)
    PROVE  Moves(t, from, to, amount)
<1>1. /\ \A u \in Tokens \ {t} : balance'[u] = balance[u]
      /\ \A a \in Accounts :
            balance'[t][a] = balance[t][a] + (IF a = to THEN amount ELSE 0)
                                - (IF a = from THEN amount ELSE 0)
  BY TransferEffect
<1>2. ASSUME NEW u \in Tokens, NEW a \in Accounts
      PROVE  balance'[u][a] = balance[u][a]
                                 + (IF u = t /\ a = to THEN amount ELSE 0)
                                 - (IF u = t /\ a = from THEN amount ELSE 0)
  <2>1. balance[u][a] \in Nat
    BY DEF Balances
  <2>2. CASE u = t
    BY <1>1, <2>2
  <2>3. CASE u # t
    <3>1. balance'[u] = balance[u]
      BY <1>1, <2>3
    <3>. QED
      BY <2>1, <2>3, <3>1
  <2>. QED
    BY <2>2, <2>3
<1>. QED
  BY <1>2 DEF Moves

\* What BondBooksBalance says of one bond.
BookBalances(bond, total, repaid) ==
    /\ total = repaid
    /\ total <= bond.terms.face
    /\ total = bond.terms.face <=> bond.status = "redeemed"

\* What RedemptionsAreDue says of one step.
DueStep ==
    \A id \in DOMAIN bonds :
        /\ \A p \in Months :
              redemptions'[<<id, p>>] # redemptions[<<id, p>>] => DuePayment(id, p)
        /\ bonds[id].status # "active" => bonds'[id] = bonds[id]

LEMMA BooksMeans ==
    BondBooksBalance <=>
       \A id \in DOMAIN bonds :
           BookBalances(bonds[id], totalRedeemed[id], Repaid(redemptions, id))
  BY DEF BondBooksBalance, BookBalances, Repaid

\* A due payment is never negative.
LEMMA CalculateNat ==
    ASSUME NEW terms \in Terms, NEW revenue \in Nat
    PROVE  CalculateRedemption(terms, revenue) \in Nat
<1>1. terms.min \in Nat /\ terms.max \in Nat /\ terms.share \in Nat
  BY DEF Terms
<1>2. ShareOf(revenue, terms.share) \in Nat
  BY <1>1, ShareOfNat
<1>3. CASE terms.structure = "fixed"
  BY <1>1, <1>3 DEF CalculateRedemption
<1>4. CASE terms.structure = "linked"
  <2>1. CalculateRedemption(terms, revenue) =
           SmallerOf(LargerOf(ShareOf(revenue, terms.share), terms.min), terms.max)
    BY <1>4 DEF CalculateRedemption
  <2>. QED
    BY <1>1, <1>2, <2>1 DEF SmallerOf, LargerOf
<1>5. CASE terms.structure = "hybrid"
  <2>1. CalculateRedemption(terms, revenue) =
           SmallerOf(terms.min + ShareOf(revenue, terms.share), terms.max)
    BY <1>5 DEF CalculateRedemption
  <2>. QED
    BY <1>1, <1>2, <2>1 DEF SmallerOf
<1>. QED
  BY <1>3, <1>4, <1>5 DEF Terms

\* Replacing one bond by one of the same kind.
LEMMA BondReplaced ==
    ASSUME bonds \in Seq(BondRecords), NEW id \in DOMAIN bonds,
           NEW bond \in BondRecords, bonds' = [bonds EXCEPT ![id] = bond]
    PROVE  /\ bonds' \in Seq(BondRecords) /\ Len(bonds') = Len(bonds)
           /\ DOMAIN bonds' = DOMAIN bonds /\ bonds'[id] = bond
           /\ \A j \in DOMAIN bonds \ {id} : bonds'[j] = bonds[j]
<1>1. bonds' \in [1 .. Len(bonds) -> BondRecords]
  <2>1. \A j \in 1 .. Len(bonds) : bonds[j] \in BondRecords
    OBVIOUS
  <2>. QED
    BY <2>1
<1>. QED
  BY <1>1

LEMMA IssueBondStep ==
    ASSUME WorldInv, BondsInv, NEW issuer \in Businesses, NEW owner \in Holders,
           NEW terms \in BondTerms, NEW t \in Tokens,
           IssueBond(issuer, owner, terms, t)
    PROVE  WorldInv' /\ BondsInv' /\ UNCHANGED product /\ DueStep
<1>. USE DEF BondsInv
<1>. DEFINE new == [issuer |-> issuer, owner |-> owner, terms |-> terms,
                    token |-> t, status |-> "active"]
            n == Len(bonds) + 1
<1>1. /\ UNCHANGED <<world, redemptions>>
      /\ Len(bonds) < MaxBonds
      /\ bonds' = Append(bonds, new)
      /\ totalRedeemed' = [totalRedeemed EXCEPT ![n] = 0]
      /\ terms.face > 0 /\ terms.min >= 0 /\ terms.max > 0
  BY DEF IssueBond
<1>2. terms \in Terms
  BY <1>1, BondsAssumption DEF Terms
<1>3. new \in BondRecords /\ new.status = "active" /\ new.terms = terms
  BY <1>2, RevenueAssumption DEF BondRecords
<1>. HIDE DEF new
<1>4. /\ bonds' \in Seq(BondRecords) /\ Len(bonds') <= MaxBonds
      /\ DOMAIN bonds' = DOMAIN bonds \cup {n} /\ bonds'[n] = new
      /\ n \in BondIds \ DOMAIN bonds
      /\ \A j \in DOMAIN bonds : bonds'[j] = bonds[j]
  <2>1. bonds \in Seq(BondRecords) /\ Len(bonds) \in Nat /\ MaxBonds \in Nat
        /\ DOMAIN bonds = 1 .. Len(bonds)
    BY BondsAssumption
  <2>2. n \in BondIds \ DOMAIN bonds
    BY <1>1, <2>1 DEF BondIds
  <2>3. /\ bonds' \in Seq(BondRecords) /\ Len(bonds') = n
        /\ bonds'[n] = new /\ \A j \in DOMAIN bonds : bonds'[j] = bonds[j]
    BY <1>1, <1>3, <2>1
  <2>. QED
    BY <1>1, <2>1, <2>2, <2>3
<1>. HIDE DEF n
<1>5. /\ totalRedeemed' \in [BondIds -> Nat] /\ totalRedeemed'[n] = 0
      /\ \A j \in DOMAIN bonds : totalRedeemed'[j] = totalRedeemed[j]
  BY <1>1, <1>4
<1>6. Repaid(redemptions, n) = 0
  <2>. DEFINE f == [p \in Months |-> IF redemptions[<<n, p>>] = Absent THEN 0
                                     ELSE redemptions[<<n, p>>].amount]
  <2>1. \A p \in Months : f[p] = 0
    BY <1>4
  <2>. HIDE DEF f
  <2>2. SumFunctionOnSet(f, Months) = 0
    BY <2>1, SumZero, RevenueAssumption
  <2>. QED
    BY <2>2 DEF Repaid, f
<1>7. BondBooksBalance'
  <2>1. SUFFICES ASSUME NEW id \in DOMAIN bonds'
                 PROVE  BookBalances(bonds'[id], totalRedeemed'[id],
                                     Repaid(redemptions, id))
    BY <1>1 DEF BondBooksBalance, BookBalances, Repaid
  <2>2. CASE id = n
    <3>1. terms.face \in Nat /\ terms.face > 0
      BY <1>1, <1>2 DEF Terms
    <3>. QED
      BY <1>3, <1>4, <1>5, <1>6, <2>2, <3>1 DEF BookBalances
  <2>3. CASE id \in DOMAIN bonds
    BY <1>4, <1>5, <2>3, BooksMeans
  <2>. QED
    BY <1>4, <2>2, <2>3
<1>8. DueStep
  BY <1>1, <1>4 DEF DueStep
<1>9. \A id \in BondIds \ DOMAIN bonds', p \in Months :
         redemptions'[<<id, p>>] = Absent
  BY <1>1, <1>4
<1>. QED
  BY <1>1, <1>4, <1>5, <1>7, <1>8, <1>9 DEF WorldInv, world

LEMMA RedeemStep ==
    ASSUME WorldInv, BondsInv, NEW id \in BondIds, NEW p \in Months, Redeem(id, p)
    PROVE  WorldInv' /\ BondsInv' /\ UNCHANGED product /\ DueStep
<1>. USE DEF BondsInv
<1>. DEFINE bond == bonds[id]
            terms == bond.terms
            k == <<bond.issuer, p>>
            total == totalRedeemed[id]
            remaining == terms.face - total
            revenue == attested[k].fee
            paid == CappedAt(CalculateRedemption(terms, revenue), remaining)
            record == [revenue |-> revenue, amount |-> paid]
            status == IF total + paid >= terms.face THEN "redeemed" ELSE bond.status
            after == [bond EXCEPT !.status = status]
<1>1. /\ UNCHANGED <<product, attested, now>>
      /\ id \in DOMAIN bonds /\ bond.status = "active"
      /\ WithinMaturity(terms, p)
      /\ redemptions[<<id, p>>] = Absent
      /\ attested[k] # Absent /\ k \notin revoked
      /\ remaining > 0
      /\ Transfer(bond.token, bond.issuer, bond.owner, paid)
      /\ redemptions' = [redemptions EXCEPT ![<<id, p>>] = record]
      /\ totalRedeemed' = [totalRedeemed EXCEPT ![id] = total + paid]
      /\ bonds' = [bonds EXCEPT ![id] = after]
  BY DEF Redeem, InForce
<1>2. bond \in BondRecords /\ total \in Nat
  BY <1>1
<1>. HIDE DEF bond, total
<1>3. /\ terms \in Terms /\ bond.token \in Tokens /\ bond.issuer \in Businesses
      /\ bond.issuer \in Accounts /\ bond.owner \in Accounts
  BY <1>2, RevenueAssumption DEF BondRecords
<1>4. revenue \in Nat
  <2>1. k \in Keys
    BY <1>3 DEF Keys
  <2>2. attested[k] \in Answers
    BY <1>1, <2>1 DEF WorldInv
  <2>. QED
    BY <2>2 DEF Answers
<1>. HIDE DEF revenue, terms
<1>5. terms.face \in Nat /\ terms.issue \in Nat /\ terms.maturity \in Nat
  BY <1>3 DEF Terms
<1>6. remaining \in Nat
  BY <1>1, <1>2, <1>5
<1>7. paid \in Nat /\ paid <= remaining
  <2>1. CalculateRedemption(terms, revenue) \in Nat
    BY <1>3, <1>4, CalculateNat
  <2>. HIDE DEF remaining
  <2>. QED
    BY <1>6, <2>1 DEF CappedAt, SmallerOf
<1>. HIDE DEF paid
<1>8. record \in RedemptionRecords /\ record.amount = paid /\ record # Absent
  BY <1>3, <1>4, <1>7, BondsAssumption DEF RedemptionRecords
<1>9. after \in BondRecords /\ after.terms = terms /\ after.status = status
  <2>1. status \in {"active", "redeemed", "defaulted", "matured"}
    BY <1>1
  <2>. HIDE DEF status
  <2>. QED
    BY <1>2, <2>1 DEF BondRecords, terms
<1>10. total + paid <= terms.face
  BY <1>2, <1>5, <1>7
<1>11. total + paid = terms.face <=> status = "redeemed"
  BY <1>1, <1>2, <1>5, <1>7, <1>10
<1>. HIDE DEF record, after, status, k
<1>12. balance' \in Balances
  BY <1>1, <1>3, <1>7, TransferEffect DEF WorldInv
<1>13. /\ bonds' \in Seq(BondRecords) /\ Len(bonds') = Len(bonds)
       /\ DOMAIN bonds' = DOMAIN bonds /\ bonds'[id] = after
       /\ \A j \in DOMAIN bonds \ {id} : bonds'[j] = bonds[j]
  BY <1>1, <1>9, BondReplaced
<1>14. /\ totalRedeemed' \in [BondIds -> Nat] /\ totalRedeemed'[id] = total + paid
       /\ \A j \in BondIds \ {id} : totalRedeemed'[j] = totalRedeemed[j]
  BY <1>1, <1>2, <1>7
<1>15. /\ redemptions' \in [BondIds \X Months -> RedemptionRecords \cup {Absent}]
       /\ redemptions'[<<id, p>>] = record
       /\ \A j \in BondIds, q \in Months :
             <<j, q>> # <<id, p>> => redemptions'[<<j, q>>] = redemptions[<<j, q>>]
  BY <1>1, <1>8
<1>16. Repaid(redemptions', id) = Repaid(redemptions, id) + paid
  <2>. DEFINE f == [q \in Months |-> IF redemptions[<<id, q>>] = Absent THEN 0
                                     ELSE redemptions[<<id, q>>].amount]
              g == [q \in Months |-> IF redemptions'[<<id, q>>] = Absent THEN 0
                                     ELSE redemptions'[<<id, q>>].amount]
  <2>1. \A q \in Months : f[q] \in Int
    <3>1. \A q \in Months : redemptions[<<id, q>>] \in RedemptionRecords \cup {Absent}
      OBVIOUS
    <3>. QED
      BY <3>1 DEF RedemptionRecords
  <2>2. f[p] = 0 /\ g[p] = paid /\ g[p] \in Int
    BY <1>1, <1>7, <1>8, <1>15
  <2>3. \A q \in Months \ {p} : g[q] = f[q]
    BY <1>15
  <2>4. /\ Repaid(redemptions, id) = SumFunctionOnSet(f, Months)
        /\ Repaid(redemptions', id) = SumFunctionOnSet(g, Months)
    BY DEF Repaid
  <2>. HIDE DEF f, g
  <2>5. SumFunctionOnSet(g, Months) = SumFunctionOnSet(f, Months) + g[p] - f[p]
    <3>1. IsFiniteSet(Months)
      BY RevenueAssumption
    <3>. QED
      BY <2>1, <2>2, <2>3, <3>1, SumUpdate
  <2>6. SumFunctionOnSet(f, Months) \in Int
    BY <2>1, SumType, RevenueAssumption
  <2>. QED
    BY <1>7, <2>2, <2>4, <2>5, <2>6
<1>17. \A j \in BondIds \ {id} : Repaid(redemptions', j) = Repaid(redemptions, j)
  <2>1. SUFFICES ASSUME NEW j \in BondIds \ {id}
                 PROVE  Repaid(redemptions', j) = Repaid(redemptions, j)
    OBVIOUS
  <2>2. \A q \in Months : redemptions'[<<j, q>>] = redemptions[<<j, q>>]
    BY <1>15
  <2>3. [q \in Months |-> IF redemptions'[<<j, q>>] = Absent THEN 0
                          ELSE redemptions'[<<j, q>>].amount]
        = [q \in Months |-> IF redemptions[<<j, q>>] = Absent THEN 0
                            ELSE redemptions[<<j, q>>].amount]
    BY <2>2
  <2>. QED
    BY <2>3 DEF Repaid
<1>18. BondBooksBalance'
  <2>1. SUFFICES ASSUME NEW j \in DOMAIN bonds'
                 PROVE  BookBalances(bonds'[j], totalRedeemed'[j],
                                     Repaid(redemptions', j))
    BY DEF BondBooksBalance, BookBalances, Repaid
  <2>2. CASE j = id
    <3>1. Repaid(redemptions, id) = total
      BY <1>1, BooksMeans DEF BookBalances, total
    <3>. QED
      BY <1>9, <1>10, <1>11, <1>13, <1>14, <1>16, <2>2, <3>1 DEF BookBalances
  <2>3. CASE j # id
    <3>1. j \in DOMAIN bonds /\ j \in BondIds
      BY <1>13, <2>1, BondsAssumption DEF BondIds
    <3>. QED
      BY <1>13, <1>14, <1>17, <2>3, <3>1, BooksMeans
  <2>. QED
    BY <2>2, <2>3
<1>19. DueStep
  <2>1. SUFFICES ASSUME NEW j \in DOMAIN bonds
                 PROVE  /\ \A q \in Months :
                              redemptions'[<<j, q>>] # redemptions[<<j, q>>] =>
                                 DuePayment(j, q)
                        /\ bonds[j].status # "active" => bonds'[j] = bonds[j]
    BY DEF DueStep
  <2>2. j \in BondIds
    BY BondsAssumption DEF BondIds
  <2>3. p - terms.issue \in 0 .. terms.maturity - 1
    <3>1. p >= terms.issue /\ p < terms.issue + terms.maturity
      BY <1>1 DEF WithinMaturity
    <3>2. p \in Nat
      BY RevenueAssumption
    <3>. QED
      BY <1>5, <3>1, <3>2
  <2>4. ASSUME NEW q \in Months,
               redemptions'[<<j, q>>] # redemptions[<<j, q>>]
        PROVE  j = id /\ q = p
    BY <1>15, <2>2, <2>4
  <2>5. bonds[j].status # "active" => bonds'[j] = bonds[j]
    BY <1>1, <1>13 DEF bond
  <2>6. Moves(bond.token, bond.issuer, bond.owner, redemptions'[<<id, p>>].amount)
    BY <1>1, <1>3, <1>7, <1>8, <1>15, TransferMoves DEF WorldInv
  <2>7. DuePayment(id, p)
    BY <1>1, <2>3, <2>6 DEF DuePayment, InForce, bond, terms, k
  <2>. QED
    BY <2>4, <2>5, <2>7
<1>20. \A j \in BondIds \ DOMAIN bonds', q \in Months :
          redemptions'[<<j, q>>] = Absent
  <2>1. SUFFICES ASSUME NEW j \in BondIds \ DOMAIN bonds', NEW q \in Months
                 PROVE  redemptions'[<<j, q>>] = Absent
    OBVIOUS
  <2>2. j # id /\ j \in BondIds \ DOMAIN bonds
    BY <1>1, <1>13, <2>1
  <2>3. redemptions'[<<j, q>>] = redemptions[<<j, q>>]
    BY <1>15, <2>2
  <2>. QED
    BY <2>2, <2>3
<1>. QED
  BY <1>1, <1>12, <1>13, <1>14, <1>15, <1>18, <1>19, <1>20 DEF WorldInv

LEMMA BondsStep ==
    ASSUME WorldInv, BondsInv, BondsNext
    PROVE  WorldInv' /\ BondsInv' /\ UNCHANGED product /\ DueStep
<1>1. ASSUME NEW issuer \in Businesses, NEW owner \in Holders,
             NEW terms \in BondTerms, NEW t \in Tokens,
             IssueBond(issuer, owner, terms, t)
      PROVE  WorldInv' /\ BondsInv' /\ UNCHANGED product /\ DueStep
  BY <1>1, IssueBondStep
<1>2. ASSUME NEW id \in BondIds, NEW p \in Months, Redeem(id, p)
      PROVE  WorldInv' /\ BondsInv' /\ UNCHANGED product /\ DueStep
  BY <1>2, RedeemStep
<1>3. ASSUME NEW id \in DOMAIN bonds, NEW bond \in BondRecords,
             bonds[id].status = "active", bond.terms = bonds[id].terms,
             bond.status # "redeemed", bonds' = [bonds EXCEPT ![id] = bond],
             UNCHANGED <<world, redemptions, totalRedeemed>>
      PROVE  WorldInv' /\ BondsInv' /\ UNCHANGED product /\ DueStep
  <2>1. /\ bonds' \in Seq(BondRecords) /\ Len(bonds') = Len(bonds)
        /\ DOMAIN bonds' = DOMAIN bonds /\ bonds'[id] = bond
        /\ \A j \in DOMAIN bonds \ {id} : bonds'[j] = bonds[j]
    BY <1>3, BondReplaced DEF BondsInv
  <2>2. BondBooksBalance'
    <3>1. SUFFICES ASSUME NEW j \in DOMAIN bonds
                   PROVE  BookBalances(bonds'[j], totalRedeemed[j],
                                       Repaid(redemptions, j))
      BY <1>3, <2>1 DEF BondBooksBalance, BookBalances, Repaid
    <3>2. BookBalances(bonds[j], totalRedeemed[j], Repaid(redemptions, j))
      BY BooksMeans DEF BondsInv
    <3>. QED
      BY <1>3, <2>1, <3>2 DEF BookBalances
  <2>3. DueStep
    BY <1>3, <2>1 DEF DueStep
  <2>. QED
    BY <1>3, <2>1, <2>2, <2>3 DEF WorldInv, BondsInv, world
<1>4. ASSUME NEW caller \in Admins, BondsInitialize(caller)
      PROVE  WorldInv' /\ BondsInv' /\ UNCHANGED product /\ DueStep
  <2>1. UNCHANGED <<world, bonds, redemptions, totalRedeemed>>
    BY <1>4 DEF BondsInitialize
  <2>. QED
    BY <2>1 DEF WorldInv, BondsInv, world, DueStep, BondBooksBalance
<1>5. ASSUME NEW caller \in Admins, NEW id \in BondIds,
             NEW outcome \in {"defaulted", "matured"},
             CloseBond(caller, id, outcome)
      PROVE  WorldInv' /\ BondsInv' /\ UNCHANGED product /\ DueStep
  <2>. DEFINE bond == [bonds[id] EXCEPT !.status = outcome]
  <2>1. /\ id \in DOMAIN bonds /\ bonds[id].status = "active"
        /\ bonds' = [bonds EXCEPT ![id] = bond]
        /\ UNCHANGED <<world, redemptions, totalRedeemed>>
    BY <1>5 DEF CloseBond
  <2>2. bonds[id] \in BondRecords
    BY <2>1 DEF BondsInv
  <2>3. /\ bond \in BondRecords /\ bond.terms = bonds[id].terms
        /\ bond.status # "redeemed"
    BY <2>2 DEF BondRecords
  <2>. HIDE DEF bond
  <2>. QED
    BY <1>3, <2>1, <2>3
<1>6. ASSUME NEW id \in BondIds, NEW owner \in Accounts, NEW newOwner \in Accounts,
             TransferOwnership(id, owner, newOwner)
      PROVE  WorldInv' /\ BondsInv' /\ UNCHANGED product /\ DueStep
  <2>. DEFINE bond == [bonds[id] EXCEPT !.owner = newOwner]
  <2>1. /\ id \in DOMAIN bonds /\ bonds[id].status = "active"
        /\ bonds' = [bonds EXCEPT ![id] = bond]
        /\ UNCHANGED <<world, redemptions, totalRedeemed>>
    BY <1>6 DEF TransferOwnership
  <2>2. bonds[id] \in BondRecords
    BY <2>1 DEF BondsInv
  <2>3. /\ bond \in BondRecords /\ bond.terms = bonds[id].terms
        /\ bond.status # "redeemed"
    BY <2>1, <2>2 DEF BondRecords
  <2>. HIDE DEF bond
  <2>. QED
    BY <1>3, <2>1, <2>3
<1>7. ASSUME AttestationContractStep(Keys), UNCHANGED bondVars
      PROVE  WorldInv' /\ BondsInv' /\ UNCHANGED product /\ DueStep
  <2>1. /\ attested' \in [Keys -> Answers \cup {Absent}]
        /\ UNCHANGED <<product, balance, now>>
    BY <1>7, OracleStep
  <2>. QED
    BY <1>7, <2>1 DEF WorldInv, BondsInv, bondVars, DueStep, BondBooksBalance
<1>. QED
  BY <1>1, <1>2, <1>4, <1>5, <1>6, <1>7 DEF BondsNext

-----------------------------------------------------------------------------
(* The products together *)

ProductsInv == WorldInv /\ StreamInv /\ SettlementInv /\ ShareInv /\ BondsInv

LEMMA ProductsInitially ==
    ProductsInit => ProductsInv
<1>. SUFFICES ASSUME ProductsInit PROVE ProductsInv
  OBVIOUS
<1>. USE DEF ProductsInit
<1>1. WorldInv
  <2>1. balance \in Balances
    BY RevenueAssumption DEF WorldInit, Balances
  <2>. QED
    BY <2>1 DEF WorldInit, WorldInv
<1>2. StreamInv
  <2>1. StreamIdle /\ streams \in Seq(StreamRecords) /\ NothingAhead
    BY DEF StreamInit, StreamIdle, NothingAhead
  <2>2. VestingClock
    <3>1. now \in Nat
      BY DEF WorldInit
    <3>2. paused = FALSE /\ remap = Absent /\ pausedTicks = 0 /\ 0 <= now
      BY <3>1 DEF StreamInit
    <3>. QED
      BY <3>2 DEF VestingClock
  <2>3. StreamsFunded
    <3>1. SUFFICES ASSUME NEW t \in Tokens
                   PROVE  balance[t][Self] >= Owed(streams, t)
      BY FundedMeans
    <3>2. Owed(streams, t) = 0
      BY <2>1, OwedNothing DEF StreamIdle
    <3>3. balance[t][Self] \in Nat
      BY <1>1, RevenueAssumption DEF WorldInv, Balances
    <3>. QED
      BY <3>2, <3>3
  <2>. QED
    BY <2>1, <2>2, <2>3 DEF StreamInv
<1>3. SettlementInv
  BY DEF SettlementInit, SettlementInv
<1>4. ShareInv
  <2>1. PaidAsRecorded
    <3>1. SUFFICES ASSUME NEW b \in Businesses \ Holders
                   PROVE  SumFunctionOnSet([t \in Tokens |-> Funds - balance[t][b]],
                                           Tokens) =
                          SumFunctionOnSet([p \in Months |->
                                              IF distributions[<<b, p>>] = Absent
                                              THEN 0
                                              ELSE distributions[<<b, p>>].total],
                                           Months)
      BY DEF PaidAsRecorded
    <3>. DEFINE f == [t \in Tokens |-> Funds - balance[t][b]]
                g == [p \in Months |-> IF distributions[<<b, p>>] = Absent THEN 0
                                       ELSE distributions[<<b, p>>].total]
    <3>2. \A t \in Tokens : f[t] = 0
      <4>1. \A t \in Tokens : balance[t][b] = Funds
        BY RevenueAssumption DEF WorldInit
      <4>. QED
        BY <4>1, RevenueAssumption
    <3>3. \A p \in Months : g[p] = 0
      BY DEF ShareInit, Keys
    <3>. HIDE DEF f, g
    <3>4. SumFunctionOnSet(f, Tokens) = 0 /\ SumFunctionOnSet(g, Months) = 0
      BY <3>2, <3>3, SumZero, RevenueAssumption
    <3>. QED
      BY <3>4 DEF f, g
  <2>. QED
    BY <2>1 DEF ShareInit, ShareInv
<1>5. BondsInv
  BY BondsAssumption DEF BondsInit, BondsInv, BondBooksBalance
<1>. QED
  BY <1>1, <1>2, <1>3, <1>4, <1>5 DEF ProductsInv

LEMMA ProductsStep ==
    ASSUME ProductsInv, [ProductsNext]_productsVars
    PROVE  /\ ProductsInv'
           /\ [PaidStep]_<<settlements, agreements>>
           /\ [DueStep]_bondVars
<1>. USE DEF ProductsInv
<1>1. CASE StreamNext /\ UNCHANGED <<settlementVars, shareVars, bondVars>>
  <2>1. WorldInv' /\ StreamInv' /\ UNCHANGED product /\ product = "stream"
    <3>1. product = "stream"
      BY <1>1 DEF StreamNext
    <3>2. ASSUME AttestationContractStep(StreamKeys) PROVE UNCHANGED product
      BY <3>2, OracleStep, StreamAssumption
    <3>3. UNCHANGED product
      BY <1>1, <3>2, ZenonT(30)
         DEF StreamNext, StreamInitialize, PauseStream, ResumeStream, CreateStream,
             Release, StreamTick, world
    <3>. QED
      BY <1>1, <3>1, <3>3, StreamStep
  <2>2. ShareInv'
    BY <1>1, <2>1, ShareElsewhere
  <2>3. SettlementInv' /\ BondsInv'
    BY <1>1 DEF SettlementInv, settlementVars, BondsInv, bondVars, BondBooksBalance
  <2>. QED
    BY <1>1, <2>1, <2>2, <2>3 DEF settlementVars
<1>2. CASE SettlementNext /\ UNCHANGED <<streamVars, shareVars, bondVars>>
  <2>1. /\ WorldInv' /\ SettlementInv' /\ UNCHANGED product /\ PaidStep
        /\ product = "settlement"
    BY <1>2, SettlementStep DEF SettlementNext
  <2>2. ShareInv' /\ StreamInv'
    BY <1>2, <2>1, ShareElsewhere, StreamElsewhere
  <2>3. BondsInv'
    BY <1>2 DEF BondsInv, bondVars, BondBooksBalance
  <2>. QED
    BY <1>2, <2>1, <2>2, <2>3
<1>3. CASE ShareNext /\ UNCHANGED <<streamVars, settlementVars, bondVars>>
  <2>1. WorldInv' /\ ShareInv' /\ UNCHANGED product /\ product = "share"
    BY <1>3, ShareStep DEF ShareNext
  <2>2. StreamInv'
    BY <1>3, <2>1, StreamElsewhere
  <2>3. SettlementInv' /\ BondsInv'
    BY <1>3 DEF SettlementInv, settlementVars, BondsInv, bondVars, BondBooksBalance
  <2>. QED
    BY <1>3, <2>1, <2>2, <2>3 DEF settlementVars
<1>4. CASE BondsNext /\ UNCHANGED <<streamVars, settlementVars, shareVars>>
  <2>1. /\ WorldInv' /\ BondsInv' /\ UNCHANGED product /\ DueStep
        /\ product = "bonds"
    BY <1>4, BondsStep DEF BondsNext
  <2>2. ShareInv' /\ StreamInv'
    BY <1>4, <2>1, ShareElsewhere, StreamElsewhere
  <2>3. SettlementInv'
    BY <1>4 DEF SettlementInv, settlementVars
  <2>. QED
    BY <1>4, <2>1, <2>2, <2>3 DEF settlementVars
<1>5. CASE UNCHANGED productsVars
  <2>1. WorldInv'
    BY <1>5 DEF productsVars, world, WorldInv
  <2>2. StreamInv'
    BY <1>5 DEF productsVars, productVars, world, streamVars, StreamInv, StreamIdle,
                VestingClock, StreamsFunded, NothingAhead, VestedBySchedule
  <2>3. SettlementInv' /\ UNCHANGED <<settlements, agreements>>
    BY <1>5 DEF productsVars, productVars, settlementVars, SettlementInv
  <2>4. ShareInv'
    BY <1>5 DEF productsVars, productVars, world, shareVars, ShareInv,
                PaidAsRecorded, WellFormedShares
  <2>5. BondsInv' /\ UNCHANGED bondVars
    BY <1>5 DEF productsVars, productVars, bondVars, BondsInv, BondBooksBalance
  <2>. QED
    BY <2>1, <2>2, <2>3, <2>4, <2>5
<1>. QED
  BY <1>1, <1>2, <1>3, <1>4, <1>5 DEF ProductsNext

\* The four products and the world keep their books: the inductive invariant
\* behind the theorems below.
THEOREM ProductsKeepBooks == ProductsSpec => []ProductsInv
<1>1. ProductsInv /\ [ProductsNext]_productsVars => ProductsInv'
  BY ProductsStep
<1>. QED
  BY <1>1, ProductsInitially, PTL DEF ProductsSpec

\* Whatever is created, paused, resumed and released, the stream contract holds
\* what all its streams still owe, token by token.
THEOREM StreamsStayFunded == ProductsSpec => []StreamsFunded
<1>1. ProductsInv => StreamsFunded
  BY DEF ProductsInv, StreamInv
<1>. QED
  BY <1>1, ProductsKeepBooks, PTL

\* The vesting clock of the stream contract leaves out exactly the time spent
\* paused, and release never pays ahead of it.
THEOREM PausesNeverVest == ProductsSpec => []PausedTimeNeverVests
<1>1. ProductsInv => PausedTimeNeverVests
  <2>. SUFFICES ASSUME ProductsInv PROVE PausedTimeNeverVests
    OBVIOUS
  <2>1. now \in Nat /\ VestingClock /\ NothingAhead
    BY DEF ProductsInv, WorldInv, StreamInv
  <2>2. EffectiveTime = now - pausedTicks
    BY <2>1, EffectiveIsClock
  <2>. QED
    BY <2>1, <2>2 DEF PausedTimeNeverVests, NothingAhead
<1>. QED
  BY <1>1, ProductsKeepBooks, PTL

\* distribute_revenue takes from a business exactly what its records say, for
\* every list of shares and however the cuts round.
THEOREM DistributionsPaidInFull == ProductsSpec => []PaidAsRecorded
<1>1. ProductsInv => PaidAsRecorded
  BY DEF ProductsInv, ShareInv
<1>. QED
  BY <1>1, ProductsKeepBooks, PTL

\* redeem never pays a bond beyond its face value, and the running total, the
\* records and the status agree.
THEOREM BondBooksAlwaysBalance == ProductsSpec => []BondBooksBalance
<1>1. ProductsInv => BondBooksBalance
  BY DEF ProductsInv, BondsInv
<1>. QED
  BY <1>1, ProductsKeepBooks, PTL

\* A period settled with a repayment keeps its record, and a closed agreement
\* settles nothing.
THEOREM SettledPeriodsStay == ProductsSpec => PaidPeriodsStayPaid
<1>1. ProductsInv /\ [ProductsNext]_productsVars
         => [PaidStep]_<<settlements, agreements>>
  BY ProductsStep
<1>2. ProductsSpec => [][PaidStep]_<<settlements, agreements>>
  BY <1>1, ProductsKeepBooks, PTL DEF ProductsSpec
<1>. QED
  BY <1>2 DEF PaidPeriodsStayPaid, PaidStep

\* redeem pays the owner of the moment, once a month, in the bond's term and
\* while the attestation is in force; a closed bond is closed for good.
THEOREM OnlyDueRedemptions == ProductsSpec => RedemptionsAreDue
<1>1. ProductsInv /\ [ProductsNext]_productsVars => [DueStep]_bondVars
  BY ProductsStep
<1>2. ProductsSpec => [][DueStep]_bondVars
  BY <1>1, ProductsKeepBooks, PTL DEF ProductsSpec
<1>. QED
  BY <1>2 DEF RedemptionsAreDue, DueStep

=============================================================================
