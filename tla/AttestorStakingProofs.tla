----------------------- MODULE AttestorStakingProofs -----------------------
(***************************************************************************)
(* Proofs about AttestorStaking that hold for every set of attestors,      *)
(* every amount, every queue limit and every clock bound.                  *)
(***************************************************************************)
EXTENDS AttestorStaking, SumTheorems, TLAPS

\* The parts of the queue's shape that every call preserves together: the
\* withdrawal of a prefix needs the order, the order needs the types.
QueueOrdered(q) ==
    \A i, j \in DOMAIN q : i < j => q[i].unlock <= q[j].unlock

StakingInv ==
    /\ TypeOK
    /\ LockedWithinStake
    /\ QueueInUnlockOrder
    /\ QueueWithinLimit

-----------------------------------------------------------------------------
(* Lemmas about the operators *)

\* Dropping entries keeps a queue a queue: typed, ordered and no longer than
\* before (the loop of withdraw_unstaked).
LEMMA CompactedQueue ==
    ASSUME NEW q \in Seq(PendingUnstake), QueueOrdered(q),
           NEW K \in SUBSET DOMAIN q, NEW rest \in Compacted(q, K)
    PROVE  /\ rest \in Seq(PendingUnstake)
           /\ Len(rest) <= Len(q)
           /\ QueueOrdered(rest)
<1>1. IsFiniteSet(1 .. Len(q)) /\ Cardinality(1 .. Len(q)) = Len(q)
  <2>1. Len(q) \in Nat
    OBVIOUS
  <2>2. /\ IsFiniteSet(1 .. Len(q))
        /\ Cardinality(1 .. Len(q)) = IF 1 > Len(q) THEN 0 ELSE Len(q) - 1 + 1
    BY <2>1, FS_Interval
  <2>. QED
    BY <2>1, <2>2
<1>2. /\ K \subseteq 1 .. Len(q)
      /\ Cardinality(K) \in Nat
      /\ Cardinality(K) <= Len(q)
  BY <1>1, FS_Subset, FS_CardinalityType
<1>3. PICK at \in [1 .. Cardinality(K) -> K] :
         /\ \A m, n \in 1 .. Cardinality(K) : m < n => at[m] < at[n]
         /\ rest = [n \in 1 .. Cardinality(K) |-> q[at[n]]]
  BY DEF Compacted
<1>4. rest \in Seq(PendingUnstake) /\ Len(rest) = Cardinality(K)
  <2>1. \A n \in 1 .. Cardinality(K) : q[at[n]] \in PendingUnstake
    BY <1>2, <1>3
  <2>2. rest \in [1 .. Cardinality(K) -> PendingUnstake]
    BY <1>3, <2>1
  <2>. QED
    BY <1>2, <2>2
<1>5. ASSUME NEW m \in DOMAIN rest, NEW n \in DOMAIN rest, m < n
      PROVE  rest[m].unlock <= rest[n].unlock
  BY <1>2, <1>3, <1>4, <1>5 DEF QueueOrdered
<1>. QED
  BY <1>2, <1>4, <1>5 DEF QueueOrdered

\* What a set of positions of a queue holds, and that it adds up.
LEMMA QueuedSum ==
    ASSUME NEW q \in Seq(PendingUnstake), NEW P \in SUBSET DOMAIN q
    PROVE  /\ IsFiniteSet(P)
           /\ \A i \in P : q[i].amount \in Nat
           /\ QueuedAt(q, P) \in Nat
<1>1. IsFiniteSet(DOMAIN q)
  <2>1. Len(q) \in Nat /\ DOMAIN q = 1 .. Len(q)
    OBVIOUS
  <2>. QED
    BY <2>1, FS_Interval
<1>2. IsFiniteSet(P)
  BY <1>1, FS_Subset
<1>3. \A i \in P : q[i].amount \in Nat
  <2>1. \A i \in P : q[i] \in PendingUnstake
    OBVIOUS
  <2>. QED
    BY <2>1 DEF PendingUnstake
<1>. DEFINE f == [i \in P |-> q[i].amount]
<1>4. \A i \in P : f[i] \in Nat
  BY <1>3
<1>5. SumFunctionOnSet(f, P) \in Nat
  <2>. HIDE DEF f
  <2>. QED
    BY <1>2, <1>4, SumNat
<1>. QED
  BY <1>2, <1>3, <1>5 DEF QueuedAt

\* The positions kept and the positions dropped hold the whole queue.
LEMMA QueuedSplit ==
    ASSUME NEW q \in Seq(PendingUnstake),
           NEW P \in SUBSET DOMAIN q, NEW R \in SUBSET DOMAIN q,
           P \cap R = {}, P \cup R = DOMAIN q
    PROVE  TotalPending(q) = QueuedAt(q, P) + QueuedAt(q, R)
<1>. DEFINE f == [i \in DOMAIN q |-> q[i].amount]
            fP == [i \in P |-> q[i].amount]
            fR == [i \in R |-> q[i].amount]
<1>1. IsFiniteSet(P) /\ IsFiniteSet(R)
  BY QueuedSum
<1>2. \A i \in P \cup R : f[i] \in Int
  <2>1. \A i \in DOMAIN q : q[i].amount \in Nat
    BY QueuedSum
  <2>. QED
    BY <2>1
<1>3. \A i \in P : f[i] = fP[i]
  OBVIOUS
<1>4. \A i \in R : f[i] = fR[i]
  OBVIOUS
<1>. HIDE DEF f, fP, fR
<1>5. SumFunctionOnSet(f, P \cup R) = SumFunctionOnSet(f, P) + SumFunctionOnSet(f, R)
  BY <1>1, <1>2, SumDisjoint
<1>6. SumFunctionOnSet(f, P) = SumFunctionOnSet(fP, P)
  BY <1>1, <1>3, SumCongruence
<1>7. SumFunctionOnSet(f, R) = SumFunctionOnSet(fR, R)
  BY <1>1, <1>4, SumCongruence
<1>. QED
  BY <1>5, <1>6, <1>7 DEF TotalPending, QueuedAt, f, fP, fR

\* A queue that drops the positions outside K holds what K held.
LEMMA CompactedTotal ==
    ASSUME NEW q \in Seq(PendingUnstake),
           NEW K \in SUBSET DOMAIN q, NEW rest \in Compacted(q, K)
    PROVE  TotalPending(rest) = QueuedAt(q, K)
<1>. DEFINE n == Cardinality(K)
            A == 1 .. n
<1>1. IsFiniteSet(K) /\ n \in Nat /\ \A i \in K : q[i].amount \in Nat
  BY QueuedSum, FS_CardinalityType
<1>2. IsFiniteSet(A) /\ Cardinality(A) = n
  BY <1>1, FS_Interval
<1>3. PICK at \in [A -> K] :
         /\ \A i, j \in A : i < j => at[i] < at[j]
         /\ rest = [i \in A |-> q[at[i]]]
  BY DEF Compacted
<1>4. \A i, j \in A : at[i] = at[j] => i = j
  <2>1. \A i \in A : at[i] \in Int
    BY <1>3
  <2>. QED
    BY <1>1, <1>3, <2>1
<1>5. at \in Bijection(A, K)
  <2>1. at \in Injection(A, K)
    BY <1>4 DEF Injection, IsInjective
  <2>2. at \in Surjection(A, K)
    BY <1>1, <1>2, <2>1, FS_Injection
  <2>. QED
    BY <2>1, <2>2 DEF Bijection
<1>. DEFINE f == [k \in K |-> q[k].amount]
            g == [i \in A |-> rest[i].amount]
<1>6. \A k \in K : f[k] \in Int
  BY <1>1
<1>7. \A i \in A : g[i] = f[at[i]]
  <2>1. \A i \in A : at[i] \in K /\ rest[i] = q[at[i]]
    BY <1>3
  <2>. QED
    BY <2>1
<1>8. SumFunctionOnSet(g, A) = SumFunctionOnSet(f, K)
  <2>. HIDE DEF f, g, A
  <2>. QED
    BY <1>2, <1>5, <1>6, <1>7, SumReindex
<1>9. DOMAIN rest = A
  BY <1>3
<1>. QED
  BY <1>8, <1>9 DEF TotalPending, QueuedAt

\* A new request adds its amount.
LEMMA AppendedTotal ==
    ASSUME NEW q \in Seq(PendingUnstake), NEW entry \in PendingUnstake
    PROVE  TotalPending(Append(q, entry)) = TotalPending(q) + entry.amount
<1>. DEFINE r == Append(q, entry)
            n == Len(q) + 1
            f == [i \in DOMAIN q |-> q[i].amount]
            g == [i \in DOMAIN r |-> r[i].amount]
<1>1. /\ DOMAIN r = DOMAIN q \cup {n} /\ n \notin DOMAIN q
      /\ r[n] = entry
      /\ \A i \in DOMAIN q : r[i] = q[i]
  OBVIOUS
<1>2. entry.amount \in Nat
  BY DEF PendingUnstake
<1>3. /\ IsFiniteSet(DOMAIN q)
      /\ \A i \in DOMAIN q : q[i].amount \in Nat
      /\ SumFunctionOnSet(f, DOMAIN q) \in Nat
  BY QueuedSum DEF QueuedAt
<1>4. /\ \A i \in DOMAIN q \cup {n} : g[i] \in Int
      /\ \A i \in DOMAIN q : g[i] = f[i]
      /\ g[n] = entry.amount
  BY <1>1, <1>2, <1>3
<1>5. TotalPending(r) = SumFunctionOnSet(g, DOMAIN q \cup {n})
  BY <1>1 DEF TotalPending, QueuedAt
<1>6. TotalPending(q) = SumFunctionOnSet(f, DOMAIN q)
  BY DEF TotalPending, QueuedAt
<1>. HIDE DEF f, g, n, r
<1>7. SumFunctionOnSet(g, DOMAIN q \cup {n}) = g[n] + SumFunctionOnSet(g, DOMAIN q)
  BY <1>1, <1>3, <1>4, SumAdd
<1>8. SumFunctionOnSet(g, DOMAIN q) = SumFunctionOnSet(f, DOMAIN q)
  BY <1>3, <1>4, SumCongruence
<1>9. TotalPending(r) = entry.amount + TotalPending(q)
  BY <1>4, <1>5, <1>6, <1>7, <1>8
<1>10. TotalPending(q) \in Nat
  BY <1>3, <1>6
<1>11. TotalPending(r) = TotalPending(q) + entry.amount
  BY <1>2, <1>9, <1>10
<1>. QED
  BY <1>11 DEF r

LEMMA EmptyQueueTotal == TotalPending(<<>>) = 0
<1>1. DOMAIN <<>> = {}
  OBVIOUS
<1>. QED
  BY <1>1, SumEmpty DEF TotalPending, QueuedAt

\* The cut of slash keeps positions and unlock times (the LIFO loop).
LEMMA CutQueue ==
    ASSUME NEW q \in Seq(PendingUnstake), NEW room,
           NEW cut \in CutQueues(q, room)
    PROVE  /\ cut \in Seq(PendingUnstake)
           /\ Len(cut) = Len(q)
           /\ \A i \in DOMAIN q : cut[i].unlock = q[i].unlock
<1>1. CASE cut = q
  BY <1>1
<1>2. CASE cut # q
  <2>1. PICK k \in DOMAIN q : \E left \in 0 .. q[k].amount :
           cut = [i \in DOMAIN q |->
                    [q[i] EXCEPT !.amount = IF i < k THEN @
                                            ELSE IF i = k THEN left
                                            ELSE 0]]
    BY <1>2 DEF CutQueues
  <2>2. ASSUME NEW i \in DOMAIN q
        PROVE  cut[i] \in PendingUnstake /\ cut[i].unlock = q[i].unlock
    <3>1. q[i] \in PendingUnstake /\ q[k] \in PendingUnstake
      OBVIOUS
    <3>2. PICK left \in 0 .. q[k].amount :
             cut[i] = [q[i] EXCEPT !.amount = IF i < k THEN @
                                              ELSE IF i = k THEN left ELSE 0]
      BY <2>1
    <3>3. left \in Nat
      BY <3>1 DEF PendingUnstake
    <3>4. PICK n \in Nat : cut[i] = [q[i] EXCEPT !.amount = n]
      BY <3>1, <3>2, <3>3 DEF PendingUnstake
    <3>. QED
      BY <3>1, <3>4 DEF PendingUnstake
  <2>3. cut \in Seq(PendingUnstake) /\ Len(cut) = Len(q)
    BY <2>1, <2>2
  <2>. QED
    BY <2>2, <2>3
<1>. QED
  BY <1>1, <1>2

\* A successful token transfer leaves every balance a natural number.
LEMMA TransferType ==
    ASSUME balance \in [Addresses -> Nat], NEW from, NEW to, NEW amount \in Nat,
           Transfer(from, to, amount)
    PROVE  balance' \in [Addresses -> Nat]
  BY DEF Transfer

-----------------------------------------------------------------------------
(* The inductive invariant *)

LEMMA StakingInvInit == Init => StakingInv
  BY StakingAssumption
     DEF Init, StakingInv, TypeOK, LockedWithinStake, QueueInUnlockOrder,
         QueueWithinLimit, Record

LEMMA StakeStep ==
    ASSUME StakingInv, NEW a \in Attestors, NEW amount \in Amounts,
           Stake(a, amount)
    PROVE  StakingInv'
<1>1. amount \in Nat
  BY StakingAssumption
<1>2. balance' \in [Addresses -> Nat]
  BY <1>1, TransferType DEF StakingInv, TypeOK, Stake
<1>3. TypeOK'
  <2>1. stake' \in [Attestors -> Record]
    <3>1. stake \in [Attestors -> [amount : Nat, locked : Nat]]
      BY DEF StakingInv, TypeOK, Record
    <3>2. stake' = [stake EXCEPT ![a].amount = stake[a].amount + amount]
      BY DEF Stake
    <3>. QED
      BY <1>1, <3>1, <3>2 DEF Record
  <2>2. stakers' \subseteq Attestors
    BY DEF StakingInv, TypeOK, Stake
  <2>. QED
    BY <1>2, <2>1, <2>2 DEF StakingInv, TypeOK, Stake, config
<1>4. LockedWithinStake'
  BY <1>1 DEF StakingInv, TypeOK, LockedWithinStake, Stake, Record
<1>. QED
  BY <1>3, <1>4
     DEF StakingInv, QueueInUnlockOrder, QueueWithinLimit, Stake

LEMMA RequestUnstakeStep ==
    ASSUME StakingInv, NEW a \in Attestors, NEW amount \in Amounts,
           RequestUnstake(a, amount)
    PROVE  StakingInv'
<1>. DEFINE q == pending[a]
            entry == [amount |-> amount, unlock |-> UnlockTime(a)]
<1>1. /\ amount \in Nat
      /\ q \in Seq(PendingUnstake)
      /\ now \in Nat /\ unbonding \in Nat /\ U64Max \in Nat
      /\ Len(q) < MaxPending /\ MaxPending \in Nat
  BY StakingAssumption DEF StakingInv, TypeOK, RequestUnstake
<1>2. q # <<>> => /\ Len(q) \in DOMAIN q
                  /\ q[Len(q)].unlock \in Nat
  <2>1. ASSUME q # <<>>
        PROVE  Len(q) \in DOMAIN q /\ q[Len(q)] \in PendingUnstake
    BY <1>1, <2>1
  <2>. QED
    BY <2>1 DEF PendingUnstake
<1>3. /\ UnlockTime(a) \in Nat
      /\ q # <<>> => q[Len(q)].unlock <= UnlockTime(a)
  BY <1>1, <1>2 DEF UnlockTime, SaturatingAdd, MinOf, MaxOf
<1>4. entry \in PendingUnstake
  BY <1>1, <1>3 DEF PendingUnstake
<1>5. /\ pending' = [pending EXCEPT ![a] = Append(q, entry)]
      /\ Append(q, entry) \in Seq(PendingUnstake)
      /\ Len(Append(q, entry)) <= MaxPending
  BY <1>1, <1>4 DEF RequestUnstake
<1>6. QueueOrdered(Append(q, entry))
  <2>1. QueueOrdered(q)
    BY DEF StakingInv, QueueInUnlockOrder, QueueOrdered
  <2>2. ASSUME NEW i \in DOMAIN Append(q, entry),
               NEW j \in DOMAIN Append(q, entry), i < j
        PROVE  Append(q, entry)[i].unlock <= Append(q, entry)[j].unlock
    <3>1. i \in DOMAIN q /\ Append(q, entry)[i] = q[i]
      BY <1>1, <1>4, <2>2
    <3>2. CASE j \in DOMAIN q
      BY <1>1, <1>4, <2>1, <2>2, <3>1, <3>2 DEF QueueOrdered
    <3>3. CASE j = Len(q) + 1
      <4>1. q # <<>> /\ Append(q, entry)[j] = entry
        BY <1>1, <1>4, <3>1, <3>3
      <4>2. q[i].unlock <= q[Len(q)].unlock
        <5>1. i \in 1 .. Len(q) /\ Len(q) \in DOMAIN q
          BY <1>1, <1>2, <3>1, <4>1
        <5>2. CASE i = Len(q)
          BY <1>2, <4>1, <5>2
        <5>3. CASE i # Len(q)
          BY <2>1, <5>1, <5>3 DEF QueueOrdered
        <5>. QED
          BY <5>2, <5>3
      <4>3. q[i].unlock \in Nat
        <5>1. q[i] \in PendingUnstake
          BY <1>1, <3>1
        <5>. QED
          BY <5>1 DEF PendingUnstake
      <4>. QED
        BY <1>2, <1>3, <3>1, <4>1, <4>2, <4>3
    <3>. QED
      BY <1>1, <1>4, <2>2, <3>2, <3>3
  <2>. QED
    BY <2>2 DEF QueueOrdered
<1>7. TypeOK'
  <2>1. stake' \in [Attestors -> Record]
    <3>1. stake \in [Attestors -> [amount : Nat, locked : Nat]]
      BY DEF StakingInv, TypeOK, Record
    <3>2. stake' = [stake EXCEPT ![a].locked = stake[a].locked + amount]
      BY DEF RequestUnstake
    <3>3. stake[a].locked + amount \in Nat
      BY <1>1, <3>1
    <3>. QED
      BY <3>1, <3>2, <3>3 DEF Record
  <2>. QED
    BY <1>5, <2>1 DEF StakingInv, TypeOK, RequestUnstake, config
<1>8. LockedWithinStake'
  BY <1>1 DEF StakingInv, TypeOK, LockedWithinStake, RequestUnstake, Record
<1>9. QueueInUnlockOrder' /\ QueueWithinLimit'
  BY <1>5, <1>6
     DEF StakingInv, TypeOK, QueueInUnlockOrder, QueueWithinLimit, QueueOrdered
<1>. QED
  BY <1>7, <1>8, <1>9 DEF StakingInv

LEMMA WithdrawUnstakedStep ==
    ASSUME StakingInv, NEW a \in Attestors, WithdrawUnstaked(a)
    PROVE  StakingInv'
<1>1. PICK total \in 1 .. stake[a].locked :
         /\ stake[a].amount >= total
         /\ stake' = [stake EXCEPT ![a] = [amount |-> stake[a].amount - total,
                                           locked |-> stake[a].locked - total]]
         /\ Transfer(Contract, a, total)
  BY DEF WithdrawUnstaked
<1>. DEFINE K == {i \in DOMAIN pending[a] : ~Unlocked(pending[a][i])}
<1>2. PICK rest \in Compacted(pending[a], K) :
         pending' = [pending EXCEPT ![a] = rest]
  BY DEF WithdrawUnstaked
<1>3. /\ rest \in Seq(PendingUnstake)
      /\ Len(rest) <= Len(pending[a])
      /\ QueueOrdered(rest)
  <2>1. pending[a] \in Seq(PendingUnstake) /\ QueueOrdered(pending[a])
    BY DEF StakingInv, TypeOK, QueueInUnlockOrder, QueueOrdered
  <2>. QED
    BY <2>1, CompactedQueue
<1>4. stake[a].amount \in Nat /\ stake[a].locked \in Nat /\ total \in Nat
  BY DEF StakingInv, TypeOK, Record
<1>5. balance' \in [Addresses -> Nat]
  BY <1>1, <1>4, TransferType DEF StakingInv, TypeOK
<1>6. TypeOK'
  <2>1. stake' \in [Attestors -> Record]
    BY <1>1, <1>4 DEF StakingInv, TypeOK, Record
  <2>2. pending' \in [Attestors -> Seq(PendingUnstake)]
    BY <1>2, <1>3 DEF StakingInv, TypeOK
  <2>. QED
    BY <1>5, <2>1, <2>2 DEF StakingInv, TypeOK, WithdrawUnstaked, config
<1>7. LockedWithinStake'
  BY <1>1, <1>4 DEF StakingInv, TypeOK, LockedWithinStake, Record
<1>8. QueueInUnlockOrder'
  BY <1>2, <1>3 DEF StakingInv, TypeOK, QueueInUnlockOrder, QueueOrdered
<1>9. QueueWithinLimit'
  BY <1>2, <1>3, StakingAssumption DEF StakingInv, TypeOK, QueueWithinLimit
<1>. QED
  BY <1>6, <1>7, <1>8, <1>9 DEF StakingInv

LEMMA SlashStep ==
    ASSUME StakingInv, NEW caller \in Addresses, NEW a \in Attestors,
           NEW amount \in Amounts, NEW id \in DisputeIds,
           Slash(caller, a, amount, id)
    PROVE  StakingInv'
<1>. DEFINE taken == MinOf(amount, stake[a].amount)
            left == stake[a].amount - taken
            stillLocked == MinOf(stake[a].locked, left)
<1>1. amount \in Nat /\ stake[a].amount \in Nat /\ stake[a].locked \in Nat
  BY StakingAssumption DEF StakingInv, TypeOK, Record
<1>2. /\ taken \in Nat /\ left \in Nat /\ stillLocked \in Nat
      /\ stillLocked <= left
  BY <1>1 DEF MinOf
<1>3. stake' = [stake EXCEPT ![a] = [amount |-> left, locked |-> stillLocked]]
  BY DEF Slash, Taken, LockedAfter
<1>4. PICK cut \in CutQueues(pending[a], stillLocked) :
         pending' = [pending EXCEPT ![a] = cut]
  BY DEF Slash, Taken, LockedAfter
<1>5. /\ cut \in Seq(PendingUnstake)
      /\ Len(cut) = Len(pending[a])
      /\ \A i \in DOMAIN pending[a] : cut[i].unlock = pending[a][i].unlock
  <2>1. pending[a] \in Seq(PendingUnstake)
    BY DEF StakingInv, TypeOK
  <2>. QED
    BY <2>1, CutQueue
<1>6. balance' \in [Addresses -> Nat]
  BY <1>2, TransferType DEF StakingInv, TypeOK, Slash, Taken
<1>7. TypeOK'
  BY <1>2, <1>3, <1>4, <1>5, <1>6
     DEF StakingInv, TypeOK, Slash, FreshDispute, config, Record
<1>8. LockedWithinStake'
  BY <1>2, <1>3 DEF StakingInv, TypeOK, LockedWithinStake, Record
<1>9. QueueInUnlockOrder' /\ QueueWithinLimit'
  <2>1. pending[a] \in Seq(PendingUnstake)
    BY DEF StakingInv, TypeOK
  <2>2. DOMAIN cut = DOMAIN pending[a]
    BY <1>5, <2>1
  <2>. QED
    BY <1>4, <1>5, <2>1, <2>2
       DEF StakingInv, TypeOK, QueueInUnlockOrder, QueueWithinLimit
<1>. QED
  BY <1>7, <1>8, <1>9 DEF StakingInv

\* Calls that only change the configuration, and the passing of time.
LEMMA ConfigStep ==
    ASSUME StakingInv,
           \/ \E caller, dispute \in Addresses, min \in MinStakes,
                 period \in Periods : Initialize(caller, min, dispute, period)
           \/ AdminCall
           \/ Tick
    PROVE  StakingInv'
<1>1. /\ MinStakes \subseteq Nat /\ Periods \subseteq Nat /\ MaxNow \in Nat
      /\ UNCHANGED <<stakers, stake, pending, slashed, balance>>
  BY StakingAssumption
     DEF AdminCall, Initialize, SetMinStake, SetDisputeContract,
         SetUnbondingPeriod, Tick
<1>2. TypeOK'
  BY <1>1
     DEF StakingInv, TypeOK, config, AdminCall, Initialize, SetMinStake,
         SetDisputeContract, SetUnbondingPeriod, Tick
<1>. QED
  BY <1>1, <1>2
     DEF StakingInv, LockedWithinStake, QueueInUnlockOrder, QueueWithinLimit

LEMMA StakingInvStep == StakingInv /\ [Next]_vars => StakingInv'
<1>. SUFFICES ASSUME StakingInv, [Next]_vars
              PROVE  StakingInv'
  OBVIOUS
<1>1. CASE UNCHANGED vars
  BY <1>1
     DEF vars, config, StakingInv, TypeOK, LockedWithinStake,
         QueueInUnlockOrder, QueueWithinLimit
<1>. QED
  BY <1>1, ConfigStep, StakeStep, RequestUnstakeStep, WithdrawUnstakedStep,
     SlashStep DEF Next

-----------------------------------------------------------------------------
(* Theorems *)

\* Every call of the staking contract keeps its storage well typed.
THEOREM StakingTypeCorrect == Spec => []TypeOK
<1>1. Spec => []StakingInv
  BY StakingInvInit, StakingInvStep, PTL DEF Spec
<1>2. StakingInv => TypeOK
  BY DEF StakingInv
<1>. QED
  BY <1>1, <1>2, PTL

\* Locked stake never exceeds the stake, for any mix of requests, withdrawals
\* and slashes of any size.
THEOREM LockedNeverExceedsStake == Spec => []LockedWithinStake
<1>1. Spec => []StakingInv
  BY StakingInvInit, StakingInvStep, PTL DEF Spec
<1>2. StakingInv => LockedWithinStake
  BY DEF StakingInv
<1>. QED
  BY <1>1, <1>2, PTL

\* Requests unlock in the order they were made, however often the admin
\* changes the unbonding period (saturation at u64::MAX included).
THEOREM RequestsUnlockInOrder == Spec => []QueueInUnlockOrder
<1>1. Spec => []StakingInv
  BY StakingInvInit, StakingInvStep, PTL DEF Spec
<1>2. StakingInv => QueueInUnlockOrder
  BY DEF StakingInv
<1>. QED
  BY <1>1, <1>2, PTL

-----------------------------------------------------------------------------
(* The books: queued amounts against locked stake, tokens against stakes *)

\* The queue covers the locked stake and the contract's balance covers the
\* stakes; with them a slash finds queued entries to cut and a withdrawal the
\* tokens to pay.
BooksInv ==
    /\ StakingInv
    /\ QueueMatchesLocked
    /\ Solvent

Staked == [a \in Attestors |-> stake[a].amount]

\* One attestor's stake changes and the contract's balance with it.
LEMMA SolventStep ==
    ASSUME TypeOK, TypeOK', Solvent, NEW a \in Attestors,
           \A b \in Attestors \ {a} : stake'[b] = stake[b],
           balance'[Contract] - balance[Contract] =
              stake'[a].amount - stake[a].amount
    PROVE  Solvent'
<1>1. /\ IsFiniteSet(Attestors)
      /\ \A b \in Attestors : Staked[b] \in Int
      /\ Staked'[a] \in Int
      /\ \A b \in Attestors \ {a} : Staked'[b] = Staked[b]
  <2>1. /\ \A b \in Attestors : stake[b].amount \in Nat
        /\ stake'[a].amount \in Nat
    BY DEF TypeOK, Record
  <2>2. \A b \in Attestors : /\ Staked[b] = stake[b].amount
                             /\ Staked'[b] = stake'[b].amount
    BY DEF Staked
  <2>. QED
    BY <2>1, <2>2, StakingAssumption
<1>2. SumFunctionOnSet(Staked', Attestors) =
         SumFunctionOnSet(Staked, Attestors) + Staked'[a] - Staked[a]
  <2>. DEFINE new == Staked'
  <2>1. /\ new[a] \in Int
        /\ \A b \in Attestors \ {a} : new[b] = Staked[b]
    BY <1>1
  <2>2. SumFunctionOnSet(new, Attestors) =
           SumFunctionOnSet(Staked, Attestors) + new[a] - Staked[a]
    <3>. HIDE DEF new
    <3>. QED
      BY <1>1, <2>1, SumUpdate
  <2>. QED
    BY <2>2
<1>3. Staked[a] = stake[a].amount /\ Staked'[a] = stake'[a].amount
  BY DEF Staked
<1>4. /\ balance[Contract] \in Int /\ balance'[Contract] \in Int
      /\ Staked[a] \in Int /\ Staked'[a] \in Int
  BY <1>1, StakingAssumption DEF TypeOK
<1>5. balance[Contract] = SumFunctionOnSet(Staked, Attestors)
  BY DEF Solvent, Staked
<1>6. balance'[Contract] = SumFunctionOnSet(Staked', Attestors)
  BY <1>2, <1>3, <1>4, <1>5
<1>. QED
  BY <1>6 DEF Solvent, Staked

LEMMA BooksInvInit == Init => BooksInv
<1>. SUFFICES ASSUME Init PROVE BooksInv
  OBVIOUS
<1>1. QueueMatchesLocked
  BY EmptyQueueTotal DEF Init, QueueMatchesLocked
<1>2. Solvent
  <2>1. balance[Contract] = 0
    BY StakingAssumption DEF Init
  <2>2. \A a \in Attestors : Staked[a] = 0
    BY DEF Init, Staked
  <2>3. SumFunctionOnSet(Staked, Attestors) = 0
    BY <2>2, StakingAssumption, SumZero
  <2>. QED
    BY <2>1, <2>3 DEF Solvent, Staked
<1>. QED
  BY <1>1, <1>2, StakingInvInit DEF BooksInv

LEMMA StakeBooks ==
    ASSUME BooksInv, StakingInv', NEW a \in Attestors, NEW amount \in Amounts,
           Stake(a, amount)
    PROVE  QueueMatchesLocked' /\ Solvent'
<1>1. amount \in Nat /\ a # Contract /\ Contract \in Addresses
  BY StakingAssumption
<1>2. /\ stake'[a].amount = stake[a].amount + amount
      /\ \A b \in Attestors : stake'[b].locked = stake[b].locked
      /\ \A b \in Attestors \ {a} : stake'[b] = stake[b]
  BY DEF BooksInv, StakingInv, TypeOK, Stake, Record
<1>3. balance'[Contract] = balance[Contract] + amount
  BY <1>1 DEF Stake, Transfer, BooksInv, StakingInv, TypeOK
<1>4. Solvent'
  <2>1. balance[Contract] \in Nat /\ stake[a].amount \in Nat
    BY <1>1 DEF BooksInv, StakingInv, TypeOK, Record
  <2>2. balance'[Contract] - balance[Contract] = stake'[a].amount - stake[a].amount
    BY <1>1, <1>2, <1>3, <2>1
  <2>. QED
    BY <1>2, <2>2, SolventStep DEF BooksInv, StakingInv
<1>5. QueueMatchesLocked'
  BY <1>2 DEF BooksInv, QueueMatchesLocked, Stake
<1>. QED
  BY <1>4, <1>5

LEMMA RequestUnstakeBooks ==
    ASSUME BooksInv, StakingInv', NEW a \in Attestors, NEW amount \in Amounts,
           RequestUnstake(a, amount)
    PROVE  QueueMatchesLocked' /\ Solvent'
<1>. DEFINE q == pending[a]
            entry == [amount |-> amount, unlock |-> UnlockTime(a)]
<1>1. /\ amount \in Nat /\ stake[a].amount \in Nat /\ stake[a].locked \in Nat
      /\ q \in Seq(PendingUnstake)
  BY StakingAssumption DEF BooksInv, StakingInv, TypeOK, Record
<1>2. /\ stake'[a].locked = stake[a].locked + amount
      /\ stake'[a].amount = stake[a].amount
      /\ \A b \in Attestors \ {a} : stake'[b] = stake[b]
      /\ UNCHANGED balance
  BY DEF BooksInv, StakingInv, TypeOK, RequestUnstake, Record
<1>3. pending' = [pending EXCEPT ![a] = Append(q, entry)]
  BY DEF RequestUnstake
<1>4. entry \in PendingUnstake
  <2>1. pending'[a] = Append(q, entry) /\ pending'[a] \in Seq(PendingUnstake)
    BY <1>3 DEF BooksInv, StakingInv, TypeOK
  <2>2. Len(q) \in Nat
    BY <1>1
  <2>3. /\ Len(Append(q, entry)) = Len(q) + 1
        /\ Append(q, entry)[Len(q) + 1] = entry
    OBVIOUS
  <2>. HIDE DEF q, entry
  <2>. QED
    BY <2>1, <2>2, <2>3
<1>5. TotalPending(pending'[a]) = TotalPending(q) + amount
  BY <1>1, <1>3, <1>4, AppendedTotal DEF BooksInv, StakingInv, TypeOK
<1>6. Solvent'
  <2>1. balance[Contract] \in Nat
    BY StakingAssumption DEF BooksInv, StakingInv, TypeOK
  <2>2. balance'[Contract] - balance[Contract] = stake'[a].amount - stake[a].amount
    BY <1>1, <1>2, <2>1
  <2>. QED
    BY <1>2, <2>2, SolventStep DEF BooksInv, StakingInv
<1>7. QueueMatchesLocked'
  <2>1. TotalPending(pending'[a]) = stake'[a].locked
    BY <1>2, <1>5 DEF BooksInv, QueueMatchesLocked
  <2>2. ASSUME NEW b \in Attestors, b # a
        PROVE  TotalPending(pending'[b]) = stake'[b].locked
    BY <1>2, <1>3, <2>2 DEF BooksInv, StakingInv, TypeOK, QueueMatchesLocked
  <2>. QED
    BY <2>1, <2>2 DEF QueueMatchesLocked
<1>. QED
  BY <1>6, <1>7

\* The entries that have unlocked hold what the others do not.
LEMMA MaturedPlusKept ==
    ASSUME BooksInv, NEW a \in Attestors
    PROVE  LET K == {i \in DOMAIN pending[a] : ~Unlocked(pending[a][i])}
           IN  /\ MaturedAmount(a) \in Nat
               /\ QueuedAt(pending[a], K) \in Nat
               /\ stake[a].locked = MaturedAmount(a) + QueuedAt(pending[a], K)
<1>. DEFINE q == pending[a]
            K == {i \in DOMAIN q : ~Unlocked(q[i])}
            M == {i \in DOMAIN q : Unlocked(q[i])}
<1>1. q \in Seq(PendingUnstake)
  BY DEF BooksInv, StakingInv, TypeOK
<1>2. M \subseteq DOMAIN q /\ K \subseteq DOMAIN q /\ M \cap K = {} /\ M \cup K = DOMAIN q
  OBVIOUS
<1>3. TotalPending(q) = QueuedAt(q, M) + QueuedAt(q, K)
  <2>. HIDE DEF q, K, M
  <2>. QED
    BY <1>1, <1>2, QueuedSplit
<1>4. QueuedAt(q, M) \in Nat /\ QueuedAt(q, K) \in Nat
  <2>. HIDE DEF q, K, M
  <2>. QED
    BY <1>1, <1>2, QueuedSum
<1>5. MaturedAmount(a) = QueuedAt(q, M)
  BY DEF MaturedAmount
<1>6. stake[a].locked = TotalPending(q)
  BY DEF BooksInv, QueueMatchesLocked
<1>. QED
  BY <1>3, <1>4, <1>5, <1>6

LEMMA WithdrawUnstakedBooks ==
    ASSUME BooksInv, StakingInv', NEW a \in Attestors, WithdrawUnstaked(a)
    PROVE  QueueMatchesLocked' /\ Solvent'
<1>. DEFINE q == pending[a]
            K == {i \in DOMAIN q : ~Unlocked(q[i])}
            total == MaturedAmount(a)
<1>1. /\ stake' = [stake EXCEPT ![a] = [amount |-> stake[a].amount - total,
                                        locked |-> stake[a].locked - total]]
      /\ Transfer(Contract, a, total)
  BY DEF WithdrawUnstaked
<1>2. PICK rest \in Compacted(q, K) : pending' = [pending EXCEPT ![a] = rest]
  BY DEF WithdrawUnstaked
<1>3. /\ stake[a].amount \in Nat /\ stake[a].locked \in Nat
      /\ q \in Seq(PendingUnstake)
      /\ balance[Contract] \in Nat
      /\ a # Contract /\ Contract \in Addresses
  BY StakingAssumption DEF BooksInv, StakingInv, TypeOK, Record
<1>4. /\ total \in Nat /\ QueuedAt(q, K) \in Nat
      /\ stake[a].locked = total + QueuedAt(q, K)
  BY MaturedPlusKept
<1>5. TotalPending(rest) = QueuedAt(q, K)
  <2>1. K \subseteq DOMAIN q
    OBVIOUS
  <2>. HIDE DEF q, K
  <2>. QED
    BY <1>2, <1>3, <2>1, CompactedTotal
<1>6. /\ stake'[a].amount = stake[a].amount - total
      /\ stake'[a].locked = stake[a].locked - total
      /\ \A b \in Attestors \ {a} : stake'[b] = stake[b]
  BY <1>1 DEF BooksInv, StakingInv, TypeOK
<1>7. Solvent'
  <2>1. balance'[Contract] = balance[Contract] - total
    BY <1>1, <1>3, <1>4 DEF Transfer
  <2>. HIDE DEF total
  <2>2. balance'[Contract] - balance[Contract] = stake'[a].amount - stake[a].amount
    BY <1>3, <1>4, <1>6, <2>1
  <2>. QED
    BY <1>6, <2>2, SolventStep DEF BooksInv, StakingInv
<1>8. QueueMatchesLocked'
  <2>1. TotalPending(pending'[a]) = stake'[a].locked
    <3>1. pending'[a] = rest
      BY <1>2 DEF BooksInv, StakingInv, TypeOK
    <3>. HIDE DEF total, K, q
    <3>. QED
      BY <1>3, <1>4, <1>5, <1>6, <3>1
  <2>2. ASSUME NEW b \in Attestors, b # a
        PROVE  TotalPending(pending'[b]) = stake'[b].locked
    BY <1>2, <1>6, <2>2 DEF BooksInv, StakingInv, TypeOK, QueueMatchesLocked
  <2>. QED
    BY <2>1, <2>2 DEF QueueMatchesLocked
<1>. QED
  BY <1>7, <1>8

\* After a slash the queue holds what stays locked.
LEMMA CutTotal ==
    ASSUME NEW q \in Seq(PendingUnstake), NEW room \in Nat,
           room <= TotalPending(q), NEW cut \in CutQueues(q, room)
    PROVE  TotalPending(cut) = room
<1>1. TotalPending(q) \in Nat
  BY QueuedSum DEF TotalPending
<1>2. CASE TotalPending(q) <= room
  BY <1>1, <1>2 DEF CutQueues
<1>3. CASE ~(TotalPending(q) <= room)
  BY <1>3 DEF CutQueues
<1>. QED
  BY <1>2, <1>3

LEMMA SlashBooks ==
    ASSUME BooksInv, StakingInv', NEW caller \in Addresses,
           NEW a \in Attestors, NEW amount \in Amounts, NEW id \in DisputeIds,
           Slash(caller, a, amount, id)
    PROVE  QueueMatchesLocked' /\ Solvent'
<1>. DEFINE taken == MinOf(amount, stake[a].amount)
            left == stake[a].amount - taken
            stillLocked == MinOf(stake[a].locked, left)
            q == pending[a]
<1>1. /\ stake[a].amount \in Nat /\ stake[a].locked \in Nat /\ amount \in Nat
      /\ q \in Seq(PendingUnstake)
      /\ balance[Contract] \in Nat
      /\ Treasury # Contract /\ Contract \in Addresses
      /\ TotalPending(q) = stake[a].locked
  BY StakingAssumption
     DEF BooksInv, StakingInv, TypeOK, Record, QueueMatchesLocked
<1>2. /\ taken \in Nat /\ left \in Nat /\ stillLocked \in Nat
      /\ stillLocked <= TotalPending(q)
  BY <1>1 DEF MinOf
<1>3. /\ stake' = [stake EXCEPT ![a] = [amount |-> left, locked |-> stillLocked]]
      /\ Transfer(Contract, Treasury, taken)
  BY DEF Slash, Taken, LockedAfter
<1>4. PICK cut \in CutQueues(q, stillLocked) :
         pending' = [pending EXCEPT ![a] = cut]
  BY DEF Slash, Taken, LockedAfter
<1>5. TotalPending(cut) = stillLocked
  <2>. HIDE DEF q, stillLocked
  <2>. QED
    BY <1>1, <1>2, <1>4, CutTotal
<1>6. /\ stake'[a].amount = left
      /\ stake'[a].locked = stillLocked
      /\ \A b \in Attestors \ {a} : stake'[b] = stake[b]
  BY <1>3 DEF BooksInv, StakingInv, TypeOK
<1>7. Solvent'
  <2>1. balance'[Contract] = balance[Contract] - taken
    BY <1>1, <1>2, <1>3 DEF Transfer
  <2>2. balance'[Contract] - balance[Contract] = stake'[a].amount - stake[a].amount
    <3>. HIDE DEF taken
    <3>. QED
      BY <1>1, <1>2, <1>6, <2>1
  <2>. QED
    BY <1>6, <2>2, SolventStep DEF BooksInv, StakingInv
<1>8. QueueMatchesLocked'
  <2>1. TotalPending(pending'[a]) = stake'[a].locked
    <3>1. pending'[a] = cut
      BY <1>4 DEF BooksInv, StakingInv, TypeOK
    <3>. QED
      BY <1>5, <1>6, <3>1
  <2>2. ASSUME NEW b \in Attestors, b # a
        PROVE  TotalPending(pending'[b]) = stake'[b].locked
    BY <1>4, <1>6, <2>2 DEF BooksInv, StakingInv, TypeOK, QueueMatchesLocked
  <2>. QED
    BY <2>1, <2>2 DEF QueueMatchesLocked
<1>. QED
  BY <1>7, <1>8

LEMMA BooksInvStep == BooksInv /\ [Next]_vars => BooksInv'
<1>. SUFFICES ASSUME BooksInv, [Next]_vars
              PROVE  BooksInv'
  OBVIOUS
<1>1. StakingInv'
  BY StakingInvStep DEF BooksInv
<1>2. CASE UNCHANGED <<stake, pending, balance>>
  BY <1>1, <1>2 DEF BooksInv, QueueMatchesLocked, Solvent
<1>3. CASE UNCHANGED vars
  BY <1>2, <1>3 DEF vars
<1>4. CASE \/ \E caller, dispute \in Addresses, min \in MinStakes,
                 period \in Periods : Initialize(caller, min, dispute, period)
           \/ AdminCall
           \/ Tick
  BY <1>2, <1>4
     DEF AdminCall, Initialize, SetMinStake, SetDisputeContract,
         SetUnbondingPeriod, Tick
<1>5. ASSUME NEW a \in Attestors, NEW amount \in Amounts,
             Stake(a, amount) \/ RequestUnstake(a, amount)
      PROVE  BooksInv'
  BY <1>1, <1>5, StakeBooks, RequestUnstakeBooks DEF BooksInv
<1>6. ASSUME NEW a \in Attestors, WithdrawUnstaked(a)
      PROVE  BooksInv'
  BY <1>1, <1>6, WithdrawUnstakedBooks DEF BooksInv
<1>7. ASSUME NEW caller \in Addresses, NEW a \in Attestors,
             NEW amount \in Amounts, NEW id \in DisputeIds,
             Slash(caller, a, amount, id)
      PROVE  BooksInv'
  BY <1>1, <1>7, SlashBooks DEF BooksInv
<1>. QED
  BY <1>3, <1>4, <1>5, <1>6, <1>7 DEF Next

\* The queue accounts for exactly the locked stake, for any number of requests
\* and any slash: the assertion "locked invariant violated" of
\* withdraw_unstaked cannot fire and no locked token is without a request.
THEOREM QueueAlwaysMatchesLocked == Spec => []QueueMatchesLocked
<1>1. Spec => []BooksInv
  BY BooksInvInit, BooksInvStep, PTL DEF Spec
<1>2. BooksInv => QueueMatchesLocked
  BY DEF BooksInv
<1>. QED
  BY <1>1, <1>2, PTL

\* The staking contract holds exactly the tokens its Stake records promise.
THEOREM ContractStaysSolvent == Spec => []Solvent
<1>1. Spec => []BooksInv
  BY BooksInvInit, BooksInvStep, PTL DEF Spec
<1>2. BooksInv => Solvent
  BY DEF BooksInv
<1>. QED
  BY <1>1, <1>2, PTL

-----------------------------------------------------------------------------
(* What a step may do *)

\* Only slash uses up a dispute id, and it uses up exactly one.
LEMMA OnlySlashUsesIds ==
    ASSUME StakingInv, [Next]_vars
    PROVE  \/ UNCHANGED slashed
           \/ \E caller \in Addresses, a \in Attestors, amount \in Amounts,
                 id \in DisputeIds : Slash(caller, a, amount, id)
  BY DEF Next, vars, AdminCall, Initialize, Stake, RequestUnstake,
         WithdrawUnstaked, SetMinStake, SetDisputeContract,
         SetUnbondingPeriod, Tick

\* What the cut of slash does to the entries.
LEMMA CutNewestFirst ==
    ASSUME NEW q \in Seq(PendingUnstake), NEW room,
           NEW cut \in CutQueues(q, room)
    PROVE  \A i, j \in DOMAIN q : i < j /\ cut[i] # q[i] => cut[j].amount = 0
<1>1. CASE cut = q
  BY <1>1
<1>2. CASE cut # q
  <2>1. PICK k \in DOMAIN q : \E left \in 0 .. q[k].amount :
           cut = [i \in DOMAIN q |->
                    [q[i] EXCEPT !.amount = IF i < k THEN @
                                            ELSE IF i = k THEN left
                                            ELSE 0]]
    BY <1>2 DEF CutQueues
  <2>2. PICK left \in 0 .. q[k].amount :
           cut = [i \in DOMAIN q |->
                    [q[i] EXCEPT !.amount = IF i < k THEN @
                                            ELSE IF i = k THEN left
                                            ELSE 0]]
    BY <2>1
  <2>3. \A i \in DOMAIN q : q[i] \in [amount : Nat, unlock : Nat] /\ i \in Int
    <3>1. \A i \in DOMAIN q : q[i] \in PendingUnstake /\ i \in Int
      OBVIOUS
    <3>. QED
      BY <3>1 DEF PendingUnstake
  <2>4. \A i \in DOMAIN q : i < k => cut[i] = q[i]
    <3>1. \A i \in DOMAIN q : i < k => cut[i] = [q[i] EXCEPT !.amount = q[i].amount]
      BY <2>2
    <3>. QED
      BY <2>3, <3>1
  <2>5. \A j \in DOMAIN q : k < j => cut[j].amount = 0
    <3>1. ASSUME NEW j \in DOMAIN q, k < j
          PROVE  cut[j] = [q[j] EXCEPT !.amount = 0]
      <4>1. j \in Int /\ k \in Int /\ ~(j < k) /\ j # k
        BY <2>3, <3>1
      <4>. QED
        BY <2>2, <4>1
    <3>. QED
      BY <2>3, <3>1
  <2>. QED
    BY <2>3, <2>4, <2>5
<1>. QED
  BY <1>1, <1>2

\* What SlashCutsNewestFirst says of one step.
CutsNewestFirst ==
    \A a \in Attestors :
       slashed' # slashed =>
          LET q == pending[a]
              taken == stake[a].amount - stake[a].amount'
              free == stake[a].amount - stake[a].locked
          IN  /\ DOMAIN q' = DOMAIN q
              /\ TotalPending(q) - TotalPending(q') = MaxOf(0, taken - free)
              /\ \A i, j \in DOMAIN q :
                    i < j /\ q'[i] # q[i] => q'[j].amount = 0
              /\ \A i \in DOMAIN q : q'[i].unlock = q[i].unlock

LEMMA SlashStepCuts ==
    ASSUME BooksInv, NEW caller \in Addresses, NEW a \in Attestors,
           NEW amount \in Amounts, NEW id \in DisputeIds,
           Slash(caller, a, amount, id), BooksInv'
    PROVE  CutsNewestFirst
<1>. DEFINE taken == MinOf(amount, stake[a].amount)
            left == stake[a].amount - taken
            stillLocked == MinOf(stake[a].locked, left)
<1>1. /\ stake \in [Attestors -> Record]
      /\ pending \in [Attestors -> Seq(PendingUnstake)]
      /\ \A b \in Attestors : /\ stake[b].amount \in Nat
                               /\ stake[b].locked \in Nat
                               /\ stake[b].locked <= stake[b].amount
      /\ amount \in Nat
  BY StakingAssumption
     DEF BooksInv, StakingInv, TypeOK, Record, LockedWithinStake
<1>2. stake' = [stake EXCEPT ![a] = [amount |-> left, locked |-> stillLocked]]
  BY DEF Slash, Taken, LockedAfter
<1>3. PICK cut \in CutQueues(pending[a], stillLocked) :
         pending' = [pending EXCEPT ![a] = cut]
  BY DEF Slash, Taken, LockedAfter
<1>4. \A b \in Attestors : /\ TotalPending(pending[b]) = stake[b].locked
                           /\ TotalPending(pending'[b]) = stake'[b].locked
  BY DEF BooksInv, QueueMatchesLocked
<1>5. ASSUME NEW b \in Attestors
      PROVE  TotalPending(pending[b]) - TotalPending(pending'[b]) =
                MaxOf(0, (stake[b].amount - stake'[b].amount)
                            - (stake[b].amount - stake[b].locked))
  <2>1. CASE b = a
    <3>1. stake'[b].amount = left /\ stake'[b].locked = stillLocked
      BY <1>1, <1>2, <2>1
    <3>2. taken \in Nat /\ left \in Nat
      BY <1>1 DEF MinOf
    <3>. HIDE DEF taken
    <3>. QED
      <4>1. TotalPending(pending[b]) = stake[b].locked
        BY <1>4
      <4>2. TotalPending(pending'[b]) = stillLocked
        BY <1>4, <3>1
      <4>3. /\ stake[b].amount \in Nat /\ stake[b].locked \in Nat
            /\ stake[b].locked <= stake[b].amount
        BY <1>1
      <4>. QED
        BY <2>1, <3>1, <3>2, <4>1, <4>2, <4>3 DEF MinOf, MaxOf
  <2>2. CASE b # a
    <3>1. stake'[b] = stake[b]
      BY <1>1, <1>2, <2>2
    <3>. QED
      BY <1>1, <1>4, <3>1 DEF MaxOf
  <2>. QED
    BY <2>1, <2>2
<1>6. ASSUME NEW b \in Attestors
      PROVE  /\ DOMAIN pending'[b] = DOMAIN pending[b]
             /\ \A i, j \in DOMAIN pending[b] :
                   i < j /\ pending'[b][i] # pending[b][i]
                   => pending'[b][j].amount = 0
             /\ \A i \in DOMAIN pending[b] :
                   pending'[b][i].unlock = pending[b][i].unlock
  <2>1. CASE b = a
    <3>1. pending'[b] = cut /\ pending[b] \in Seq(PendingUnstake)
      BY <1>1, <1>3, <2>1
    <3>2. /\ cut \in Seq(PendingUnstake) /\ Len(cut) = Len(pending[b])
          /\ \A i \in DOMAIN pending[b] : cut[i].unlock = pending[b][i].unlock
      BY <1>3, <2>1, <3>1, CutQueue
    <3>3. \A i, j \in DOMAIN pending[b] :
             i < j /\ cut[i] # pending[b][i] => cut[j].amount = 0
      BY <1>3, <2>1, <3>1, CutNewestFirst
    <3>. QED
      BY <3>1, <3>2, <3>3
  <2>2. CASE b # a
    BY <1>1, <1>3, <2>2
  <2>. QED
    BY <2>1, <2>2
<1>. QED
  BY <1>5, <1>6 DEF CutsNewestFirst

\* A slash takes free stake before queued stake and cuts the queue from its
\* newest end, whatever its size and however long the queue.
THEOREM SlashesCutNewestFirst == Spec => SlashCutsNewestFirst
<1>1. BooksInv /\ BooksInv' /\ [Next]_vars => [CutsNewestFirst]_vars
  <2>. SUFFICES ASSUME BooksInv, BooksInv', [Next]_vars PROVE CutsNewestFirst
    OBVIOUS
  <2>1. CASE UNCHANGED slashed
    BY <2>1 DEF CutsNewestFirst
  <2>2. ASSUME NEW caller \in Addresses, NEW a \in Attestors,
               NEW amount \in Amounts, NEW id \in DisputeIds,
               Slash(caller, a, amount, id)
        PROVE  CutsNewestFirst
    BY <2>2, SlashStepCuts
  <2>. QED
    BY <2>1, <2>2, OnlySlashUsesIds DEF BooksInv
<1>2. Spec => []BooksInv
  BY BooksInvInit, BooksInvStep, PTL DEF Spec
<1>3. Spec => [][CutsNewestFirst]_vars
  BY <1>1, <1>2, PTL DEF Spec
<1>. QED
  BY <1>3 DEF SlashCutsNewestFirst, CutsNewestFirst

\* What OneSlashPerDispute says of one step.
SlashesOnce ==
    /\ slashed \subseteq slashed'
    /\ Treasury \notin Attestors
          /\ balance[Treasury]' # balance[Treasury]
          => Cardinality(slashed' \ slashed) = 1

\* A dispute id pays the treasury at most once, and stays used up.
THEOREM DisputesSlashOnce == Spec => OneSlashPerDispute
<1>1. StakingInv /\ [Next]_vars => [SlashesOnce]_vars
  <2>. SUFFICES ASSUME StakingInv, [Next]_vars PROVE SlashesOnce
    OBVIOUS
  <2>1. CASE UNCHANGED slashed
    <3>1. ASSUME Treasury \notin Attestors
          PROVE  balance'[Treasury] = balance[Treasury]
      <4>1. /\ balance \in [Addresses -> Nat]
            /\ Treasury \in Addresses /\ Treasury # Contract
            /\ Amounts \subseteq Nat
        BY StakingAssumption DEF StakingInv, TypeOK
      <4>2. ASSUME NEW from \in Addresses \ {Treasury},
                   NEW to \in Addresses \ {Treasury}, NEW n,
                   Transfer(from, to, n)
            PROVE  balance'[Treasury] = balance[Treasury]
        BY <4>1, <4>2 DEF Transfer
      <4>3. ASSUME NEW a \in Attestors, NEW amount \in Amounts, Stake(a, amount)
            PROVE  balance'[Treasury] = balance[Treasury]
        BY <3>1, <4>1, <4>2, <4>3, StakingAssumption DEF Stake
      <4>4. ASSUME NEW a \in Attestors, WithdrawUnstaked(a)
            PROVE  balance'[Treasury] = balance[Treasury]
        BY <3>1, <4>1, <4>2, <4>4, StakingAssumption DEF WithdrawUnstaked
      <4>5. ASSUME NEW caller \in Addresses, NEW a \in Attestors,
                   NEW amount \in Amounts, NEW id \in DisputeIds,
                   Slash(caller, a, amount, id)
            PROVE  FALSE
        BY <2>1, <4>5 DEF Slash, FreshDispute
      <4>. QED
        BY <4>3, <4>4, <4>5
           DEF Next, vars, AdminCall, Initialize, RequestUnstake, SetMinStake,
               SetDisputeContract, SetUnbondingPeriod, Tick
    <3>. QED
      BY <2>1, <3>1 DEF SlashesOnce
  <2>2. ASSUME NEW caller \in Addresses, NEW a \in Attestors,
               NEW amount \in Amounts, NEW id \in DisputeIds,
               Slash(caller, a, amount, id)
        PROVE  SlashesOnce
    <3>1. slashed' = slashed \cup {id} /\ id \notin slashed
      BY <2>2 DEF Slash, FreshDispute
    <3>2. slashed' \ slashed = {id}
      BY <3>1
    <3>3. Cardinality(slashed' \ slashed) = 1
      BY <3>2, FS_Singleton
    <3>. QED
      BY <3>1, <3>3 DEF SlashesOnce
  <2>. QED
    BY <2>1, <2>2, OnlySlashUsesIds
<1>2. Spec => []StakingInv
  BY StakingInvInit, StakingInvStep, PTL DEF Spec
<1>3. Spec => [][SlashesOnce]_vars
  BY <1>1, <1>2, PTL DEF Spec
<1>. QED
  BY <1>3 DEF OneSlashPerDispute, SlashesOnce

\* What NoEarlyExit says of one step.
ExitsOnTime ==
    \A a \in Attestors :
       balance[a]' > balance[a] /\ a # Treasury =>
          balance[a]' - balance[a] =
             QueuedAt(pending[a],
                      {i \in DOMAIN pending[a] : now >= pending[a][i].unlock})

\* An attestor's tokens come back only in a withdrawal, and then exactly the
\* requests that had unlocked.
THEOREM NobodyExitsEarly == Spec => NoEarlyExit
<1>1. StakingInv /\ [Next]_vars => [ExitsOnTime]_vars
  <2>. SUFFICES ASSUME StakingInv, [Next]_vars, NEW a \in Attestors,
                       balance'[a] > balance[a], a # Treasury
                PROVE  balance'[a] - balance[a] =
                          QueuedAt(pending[a],
                                   {i \in DOMAIN pending[a] :
                                       now >= pending[a][i].unlock})
    BY DEF ExitsOnTime
  <2>1. /\ balance \in [Addresses -> Nat]
        /\ a \in Addresses /\ a # Contract
        /\ Amounts \subseteq Nat
        /\ stake \in [Attestors -> Record]
    BY StakingAssumption DEF StakingInv, TypeOK
  <2>2. ASSUME NEW from, NEW to, NEW n \in Nat, Transfer(from, to, n)
        PROVE  /\ a = to
               /\ from # a => balance'[a] - balance[a] = n
    BY <2>1, <2>2 DEF Transfer
  <2>3. ASSUME NEW b \in Attestors, NEW amount \in Amounts, Stake(b, amount)
        PROVE  FALSE
    BY <2>1, <2>2, <2>3 DEF Stake
  <2>4. ASSUME NEW caller \in Addresses, NEW b \in Attestors,
               NEW amount \in Amounts, NEW id \in DisputeIds,
               Slash(caller, b, amount, id)
        PROVE  FALSE
    <3>1. Taken(b, amount) \in Nat
      BY <2>1 DEF Taken, MinOf, Record
    <3>. QED
      BY <2>2, <2>4, <3>1 DEF Slash
  <2>5. ASSUME NEW b \in Attestors, WithdrawUnstaked(b)
        PROVE  balance'[a] - balance[a] = MaturedAmount(a)
    <3>1. PICK total \in 1 .. stake[b].locked :
             total = MaturedAmount(b) /\ Transfer(Contract, b, total)
      BY <2>5 DEF WithdrawUnstaked
    <3>2. total \in Nat
      BY <2>1 DEF Record
    <3>. QED
      BY <2>1, <2>2, <3>1, <3>2
  <2>6. ASSUME UNCHANGED balance PROVE FALSE
    BY <2>1, <2>6
  <2>7. \/ UNCHANGED balance
        \/ \E b \in Attestors, amount \in Amounts : Stake(b, amount)
        \/ \E b \in Attestors : WithdrawUnstaked(b)
        \/ \E caller \in Addresses, b \in Attestors, amount \in Amounts,
              id \in DisputeIds : Slash(caller, b, amount, id)
    BY DEF Next, vars, AdminCall, Initialize, RequestUnstake, SetMinStake,
           SetDisputeContract, SetUnbondingPeriod, Tick
  <2>8. balance'[a] - balance[a] = MaturedAmount(a)
    <3>1. \E b \in Attestors : WithdrawUnstaked(b)
      BY <2>3, <2>4, <2>6, <2>7
    <3>. QED
      BY <2>5, <3>1
  <2>. QED
    BY <2>8 DEF MaturedAmount, Unlocked
<1>2. Spec => []StakingInv
  BY StakingInvInit, StakingInvStep, PTL DEF Spec
<1>3. Spec => [][ExitsOnTime]_vars
  BY <1>1, <1>2, PTL DEF Spec
<1>. QED
  BY <1>3, PTL DEF NoEarlyExit, ExitsOnTime
=============================================================================
