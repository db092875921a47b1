------------------------- MODULE ProtocolSuiteProofs -------------------------
(***************************************************************************)
(* Proofs about the protocol's side contracts, for every set of accounts,  *)
(* voters, portfolios, proposals and requests and every bound.             *)
(*                                                                         *)
(* The contracts share only the site and the clock, so each has an         *)
(* invariant of its own: a step of the suite is a step of its next-state   *)
(* relation or leaves its variables alone.                                 *)
(***************************************************************************)
EXTENDS ProtocolSuite, MultiPeriodProofs, SumTheorems, SequenceTheorems,
        NaturalsInduction, TLAPS

-----------------------------------------------------------------------------
(* Governance gating: delegations *)

\* Who delegates to a.
Delegators(d, a) == {x \in Voters : d[x] = a}

GatingInv ==
    /\ govBalance \in [Voters -> Nat]
    /\ delegation \in [Voters -> Voters \cup {Nobody}]
    /\ delegatedAmount \in [Voters -> Nat]
    /\ delegatedPower \in [Voters -> Int]
    /\ DelegationsBalance

LEMMA BalanceMeans ==
    DelegationsBalance <=>
       \A a \in Voters :
           delegatedPower[a] =
              SumFunctionOnSet(delegatedAmount, Delegators(delegation, a))
  BY DEF DelegationsBalance, Delegators

LEMMA DelegatorsFinite ==
    ASSUME NEW d, NEW a
    PROVE  IsFiniteSet(Delegators(d, a)) /\ Delegators(d, a) \subseteq Voters
  BY GatingAssumption, FS_Subset DEF Delegators

\* What a delegation to `to` gives to a.
Given(to, amount, a) == IF to = a THEN amount ELSE 0

\* When v's delegation changes from d, m to e, n, what a's delegators hand over
\* changes by what v gave and what v gives.
Rebooked(d, m, e, n, v, a) ==
    SumFunctionOnSet(n, Delegators(e, a)) =
       SumFunctionOnSet(m, Delegators(d, a))
          - Given(d[v], m[v], a) + Given(e[v], n[v], a)

\* Taking one delegation back, or giving one, moves exactly its amount.
LEMMA DelegatorsChange ==
    ASSUME NEW d \in [Voters -> Voters \cup {Nobody}], NEW m \in [Voters -> Nat],
           NEW e \in [Voters -> Voters \cup {Nobody}], NEW n \in [Voters -> Nat],
           NEW v \in Voters, \A x \in Voters \ {v} : n[x] = m[x] /\ e[x] = d[x],
           NEW a \in Voters
    PROVE  Rebooked(d, m, e, n, v, a)
<1>. DEFINE Old == Delegators(d, a)
            New == Delegators(e, a)
            Rest == Old \ {v}
<1>1. /\ IsFiniteSet(Old) /\ Old \subseteq Voters
      /\ IsFiniteSet(New) /\ New \subseteq Voters
      /\ IsFiniteSet(Rest) /\ Rest \subseteq Voters
  BY DelegatorsFinite, FS_RemoveElement
<1>2. /\ New \ {v} = Rest
      /\ v \in New <=> e[v] = a
      /\ v \in Old <=> d[v] = a
  BY DEF Delegators
<1>3. /\ \A x \in Voters : n[x] \in Int /\ m[x] \in Int
      /\ \A x \in Rest : n[x] = m[x]
  BY <1>1
<1>. HIDE DEF Old, New
<1>4. SumFunctionOnSet(n, Rest) = SumFunctionOnSet(m, Rest)
  <2>. HIDE DEF Rest
  <2>. QED
    BY <1>1, <1>3, SumCongruence
<1>5. SumFunctionOnSet(m, Old) =
         SumFunctionOnSet(m, Rest) + Given(d[v], m[v], a)
  <2>1. CASE d[v] = a
    <3>1. SumFunctionOnSet(m, Old) = m[v] + SumFunctionOnSet(m, Old \ {v})
      BY <1>1, <1>2, <1>3, <2>1, SumRemove
    <3>2. SumFunctionOnSet(m, Rest) \in Int
      BY <1>1, <1>3, SumType
    <3>3. Given(d[v], m[v], a) = m[v] /\ m[v] \in Int
      BY <1>3, <2>1 DEF Given
    <3>. HIDE DEF Rest
    <3>4. SumFunctionOnSet(m, Old) = m[v] + SumFunctionOnSet(m, Rest)
      BY <3>1 DEF Rest
    <3>. QED
      BY <3>2, <3>3, <3>4
  <2>2. CASE d[v] # a
    <3>1. Rest = Old
      BY <1>2, <2>2
    <3>2. SumFunctionOnSet(m, Old) \in Int
      BY <1>1, <1>3, SumType
    <3>. QED
      BY <2>2, <3>1, <3>2 DEF Given
  <2>. QED
    BY <2>1, <2>2
<1>6. SumFunctionOnSet(n, New) =
         SumFunctionOnSet(n, Rest) + Given(e[v], n[v], a)
  <2>1. CASE e[v] = a
    <3>1. SumFunctionOnSet(n, New) = n[v] + SumFunctionOnSet(n, New \ {v})
      BY <1>1, <1>2, <1>3, <2>1, SumRemove
    <3>2. SumFunctionOnSet(n, Rest) \in Int
      BY <1>1, <1>3, SumType
    <3>3. SumFunctionOnSet(n, New \ {v}) = SumFunctionOnSet(n, Rest)
      BY <1>2
    <3>. QED
      BY <1>3, <2>1, <3>1, <3>2, <3>3 DEF Given
  <2>2. CASE e[v] # a
    <3>1. Rest = New
      BY <1>2, <2>2
    <3>2. SumFunctionOnSet(n, New) \in Int
      BY <1>1, <1>3, SumType
    <3>. QED
      BY <2>2, <3>1, <3>2 DEF Given
  <2>. QED
    BY <2>1, <2>2
<1>7. SumFunctionOnSet(m, Rest) \in Int
  BY <1>1, <1>3, SumType
<1>8. Given(d[v], m[v], a) \in Int /\ Given(e[v], n[v], a) \in Int
  BY <1>3 DEF Given
<1>9. SumFunctionOnSet(n, New) =
         SumFunctionOnSet(m, Old) - Given(d[v], m[v], a)
            + Given(e[v], n[v], a)
  BY <1>4, <1>5, <1>6, <1>7, <1>8
<1>. QED
  BY <1>9 DEF Old, New, Rebooked

LEMMA DelegationStep ==
    ASSUME GatingInv, NEW voters \in SUBSET Voters, DelegationCalls(voters)
    PROVE  GatingInv'
<1>. USE DEF GatingInv
<1>1. ASSUME NEW v \in Voters, NEW to \in Voters, DelegateVotingPower(v, to)
      PROVE  GatingInv'
  <2>. DEFINE amount == govBalance[v]
              left == PowerWithout(v)
  <2>1. /\ delegation' = [delegation EXCEPT ![v] = to]
        /\ delegatedAmount' = [delegatedAmount EXCEPT ![v] = amount]
        /\ delegatedPower' = [left EXCEPT ![to] = @ + amount]
        /\ UNCHANGED govBalance /\ amount \in Nat
    BY <1>1 DEF DelegateVotingPower
  <2>2. /\ left \in [Voters -> Int]
        /\ \A a \in Voters :
              left[a] = delegatedPower[a]
                           - Given(delegation[v], delegatedAmount[v], a)
    <3>1. CASE delegation[v] = Nobody
      <4>1. left = delegatedPower
        BY <3>1 DEF PowerWithout
      <4>2. \A a \in Voters : delegation[v] # a
        BY <3>1, GatingAssumption
      <4>. QED
        BY <4>1, <4>2 DEF Given
    <3>2. CASE delegation[v] # Nobody
      <4>1. left = [delegatedPower EXCEPT ![delegation[v]] = @ - delegatedAmount[v]]
        BY <3>2 DEF PowerWithout, Returned
      <4>2. delegation[v] \in Voters /\ delegatedAmount[v] \in Nat
        BY <3>2
      <4>. QED
        BY <4>1, <4>2 DEF Given
    <3>. QED
      BY <3>1, <3>2
  <2>. HIDE DEF left, amount
  <2>3. \A a \in Voters :
           delegatedPower'[a] = left[a] + Given(to, amount, a)
    BY <2>1, <2>2 DEF Given
  <2>4. /\ delegation' \in [Voters -> Voters \cup {Nobody}]
        /\ delegatedAmount' \in [Voters -> Nat] /\ delegatedPower' \in [Voters -> Int]
    BY <2>1, <2>2
  <2>5. DelegationsBalance'
    <3>1. SUFFICES ASSUME NEW a \in Voters
                   PROVE  delegatedPower'[a] =
                             SumFunctionOnSet(delegatedAmount',
                                              Delegators(delegation', a))
      BY DEF DelegationsBalance, Delegators
    <3>2. SumFunctionOnSet(delegatedAmount', Delegators(delegation', a)) =
             SumFunctionOnSet(delegatedAmount, Delegators(delegation, a))
                - Given(delegation[v], delegatedAmount[v], a)
                + Given(to, amount, a)
      <4>1. \A x \in Voters \ {v} : /\ delegatedAmount'[x] = delegatedAmount[x]
                                     /\ delegation'[x] = delegation[x]
        BY <2>1
      <4>2. delegatedAmount'[v] = amount /\ delegation'[v] = to
        BY <1>1, <2>1
      <4>3. Rebooked(delegation, delegatedAmount, delegation', delegatedAmount', v, a)
        BY <1>1, <2>4, <3>1, <4>1, DelegatorsChange
      <4>. QED
        BY <4>2, <4>3 DEF Rebooked
    <3>3. delegatedPower[a] =
             SumFunctionOnSet(delegatedAmount, Delegators(delegation, a))
      BY BalanceMeans
    <3>. QED
      BY <2>2, <2>3, <3>2, <3>3
  <2>. QED
    BY <2>1, <2>4, <2>5
<1>2. ASSUME NEW v \in Voters, RevokeDelegation(v)
      PROVE  GatingInv'
  <2>1. /\ delegation' = [delegation EXCEPT ![v] = Nobody]
        /\ delegatedAmount' = [delegatedAmount EXCEPT ![v] = 0]
        /\ delegation[v] \in Voters /\ delegatedAmount[v] \in Nat
        /\ delegatedPower' =
              [delegatedPower EXCEPT ![delegation[v]] = @ - delegatedAmount[v]]
        /\ UNCHANGED govBalance
    BY <1>2 DEF RevokeDelegation, PowerWithout, Returned
  <2>2. /\ delegation' \in [Voters -> Voters \cup {Nobody}]
        /\ delegatedAmount' \in [Voters -> Nat] /\ delegatedPower' \in [Voters -> Int]
    BY <2>1
  <2>3. DelegationsBalance'
    <3>1. SUFFICES ASSUME NEW a \in Voters
                   PROVE  delegatedPower'[a] =
                             SumFunctionOnSet(delegatedAmount',
                                              Delegators(delegation', a))
      BY DEF DelegationsBalance, Delegators
    <3>2. SumFunctionOnSet(delegatedAmount', Delegators(delegation', a)) =
             SumFunctionOnSet(delegatedAmount, Delegators(delegation, a))
                - Given(delegation[v], delegatedAmount[v], a)
                + Given(Nobody, 0, a)
      <4>1. \A x \in Voters \ {v} : /\ delegatedAmount'[x] = delegatedAmount[x]
                                     /\ delegation'[x] = delegation[x]
        BY <2>1
      <4>2. delegatedAmount'[v] = 0 /\ delegation'[v] = Nobody
        BY <1>2, <2>1
      <4>3. Rebooked(delegation, delegatedAmount, delegation', delegatedAmount', v, a)
        BY <1>2, <2>2, <3>1, <4>1, DelegatorsChange
      <4>. QED
        BY <4>2, <4>3 DEF Rebooked
    <3>3. delegatedPower[a] =
             SumFunctionOnSet(delegatedAmount, Delegators(delegation, a))
      BY BalanceMeans
    <3>4. delegatedPower'[a] =
             delegatedPower[a]
                - Given(delegation[v], delegatedAmount[v], a)
      BY <2>1 DEF Given
    <3>. QED
      BY <2>1, <3>2, <3>3, <3>4 DEF Given
  <2>. QED
    BY <2>1, <2>2, <2>3
<1>3. ASSUME NEW from \in Voters, NEW to \in Voters, GovTokenMoves(from, to)
      PROVE  GatingInv'
  <2>1. govBalance' \in [Voters -> Nat]
    BY <1>3 DEF GovTokenMoves
  <2>. QED
    BY <1>3, <2>1 DEF GovTokenMoves, DelegationsBalance
<1>. HIDE DEF GatingInv
<1>. QED
  BY <1>1, <1>2, <1>3 DEF DelegationCalls

\* A step of the suite is a step of the gating contract or leaves it alone.
LEMMA GatingStep ==
    ASSUME GatingInv, [SuiteNext]_suiteVars
    PROVE  GatingInv'
<1>1. GatingNext \/ UNCHANGED gatingVars
  BY DEF SuiteNext, GovernanceSideNext, governanceSide, suiteVars
<1>2. CASE \/ DelegationCalls(Accounts) \/ DelegationCalls(Voters)
  BY <1>2, DelegationStep, GatingAssumption
<1>3. CASE UNCHANGED <<govBalance, delegation, delegatedAmount, delegatedPower>>
  BY <1>3 DEF GatingInv, DelegationsBalance
<1>4. ASSUME GatingNext, ~(DelegationCalls(Accounts) \/ DelegationCalls(Voters))
      PROVE  UNCHANGED <<govBalance, delegation, delegatedAmount, delegatedPower>>
  BY <1>4 DEF GatingNext, InitializeGovernance, GateCalls, SetGovernanceThreshold,
              SetRoleEscalationThreshold, SetGateFlag, SetEmergencyPause,
              SetEmergencyOverrideAdmin
<1>. QED
  BY <1>1, <1>2, <1>3, <1>4 DEF gatingVars

\* Whoever delegates, revokes and moves tokens, a delegate's power is exactly
\* what its present delegators handed over: delegate_voting_power and
\* revoke_delegation never strand power and never underflow.
THEOREM DelegationsAlwaysBalance == SuiteSpec => []DelegationsBalance
<1>1. SuiteInit => GatingInv
  <2>. SUFFICES ASSUME SuiteInit PROVE GatingInv
    OBVIOUS
  <2>1. GatingInit
    BY DEF SuiteInit
  <2>2. /\ govBalance \in [Voters -> Nat]
        /\ delegation \in [Voters -> Voters \cup {Nobody}]
        /\ delegatedAmount \in [Voters -> Nat]
        /\ delegatedPower \in [Voters -> Int]
    BY <2>1, GatingAssumption DEF GatingInit
  <2>3. DelegationsBalance
    <3>1. SUFFICES ASSUME NEW a \in Voters
                   PROVE  delegatedPower[a] =
                             SumFunctionOnSet(delegatedAmount,
                                              Delegators(delegation, a))
      BY BalanceMeans
    <3>2. Delegators(delegation, a) = {}
      BY <2>1, GatingAssumption DEF GatingInit, Delegators
    <3>. QED
      BY <2>1, <3>2, SumEmpty DEF GatingInit
  <2>. QED
    BY <2>2, <2>3 DEF GatingInv
<1>2. GatingInv /\ [SuiteNext]_suiteVars => GatingInv'
  BY GatingStep
<1>3. GatingInv => DelegationsBalance
  BY DEF GatingInv
<1>. QED
  BY <1>1, <1>2, <1>3, PTL DEF SuiteSpec

-----------------------------------------------------------------------------
(* Sequences that only grow *)

IsSequence(s) == s \in Seq({s[i] : i \in DOMAIN s})

\* What Append does to a sequence, elements of any kind.
Grown(s, e) ==
    /\ IsSequence(Append(s, e))
    /\ DOMAIN Append(s, e) = DOMAIN s \cup {Len(s) + 1}
    /\ Len(Append(s, e)) = Len(s) + 1
    /\ \A i \in DOMAIN s : Append(s, e)[i] = s[i]
    /\ Append(s, e)[Len(s) + 1] = e

LEMMA SequenceGrows ==
    ASSUME NEW s, IsSequence(s), NEW e
    PROVE  Grown(s, e)
<1>. DEFINE R == {s[i] : i \in DOMAIN s} \cup {e}
            t == Append(s, e)
<1>1. s \in Seq(R) /\ e \in R
  BY DEF IsSequence
<1>. HIDE DEF R
<1>2. /\ t \in Seq(R) /\ Len(t) = Len(s) + 1
      /\ Len(s) \in Nat /\ DOMAIN s = 1 .. Len(s) /\ DOMAIN t = 1 .. Len(t)
      /\ \A i \in 1 .. Len(s) : t[i] = s[i]
      /\ t[Len(s) + 1] = e
  BY <1>1
<1>3. t \in Seq({t[i] : i \in DOMAIN t})
  <2>. HIDE DEF t
  <2>. QED
    BY <1>2
<1>4. DOMAIN t = DOMAIN s \cup {Len(s) + 1}
  <2>. HIDE DEF t
  <2>. QED
    BY <1>2
<1>. QED
  BY <1>2, <1>3, <1>4 DEF Grown, IsSequence

LEMMA SequenceFacts ==
    ASSUME NEW s, IsSequence(s)
    PROVE  Len(s) \in Nat /\ DOMAIN s = 1 .. Len(s)
  BY DEF IsSequence

-----------------------------------------------------------------------------
(* The audit log implements CallLog *)

\* The admin's nonce counts the entries, and initialize's own call.
AuditInv ==
    /\ IsSequence(entries)
    /\ \A i \in DOMAIN entries : entries[i].seq = i - 1
    /\ audNonces \in [Accounts -> Nat]
    /\ audAdmin \in Accounts \cup {Nobody}
    /\ audAdmin = Nobody => entries = <<>> /\ \A a \in Accounts : audNonces[a] = 0
    /\ audAdmin # Nobody => audNonces[audAdmin] = Len(entries) + 1

LEMMA AuditStep ==
    ASSUME AuditInv, [SuiteNext]_suiteVars
    PROVE  AuditInv' /\ [CL!CallLogNext]_<<requests, Performed>>
<1>. USE DEF AuditInv
<1>1. ASSUME NEW admin \in Accounts, NEW nonce \in 0 .. MaxNonce,
             AudInitialize(admin, nonce)
      PROVE  AuditInv' /\ UNCHANGED <<requests, Performed>>
  <2>1. /\ UNCHANGED <<requests, entries>> /\ entries = <<>>
        /\ audAdmin' = admin /\ admin # Nobody /\ admin \in Accounts
        /\ audNonces' = [audNonces EXCEPT ![admin] = nonce + 1] /\ nonce = 0
    BY <1>1, ProtocolAssumption DEF AudInitialize, VerifyAndIncrementNonce
  <2>2. audNonces' \in [Accounts -> Nat] /\ audNonces'[admin] = 1
    BY <2>1
  <2>3. Len(entries) = 0
    BY <2>1
  <2>. QED
    BY <2>1, <2>2, <2>3 DEF Performed, IsSequence
<1>2. ASSUME NEW r \in AuditRequests, SignRequest(r)
      PROVE  AuditInv' /\ CL!Sign(r)
  <2>1. UNCHANGED <<audAdmin, audNonces, entries>> /\ requests' = requests \cup {r}
    BY <1>2 DEF SignRequest
  <2>. QED
    BY <2>1 DEF CL!Sign, Performed, IsSequence
<1>3. ASSUME NEW r \in AuditRequests, DeliverAppend(r)
      PROVE  AuditInv' /\ CL!Perform(r)
  <2>. DEFINE e == [seq |-> Len(entries), call |-> r.call, prev |-> lastHash,
                    hash |-> EntryHash(Len(entries), r.call, lastHash)]
              p == Performed
              q == Performed'
  <2>1. /\ audAdmin # Nobody /\ audAdmin \in Accounts /\ r \in requests
        /\ r.nonce = audNonces[audAdmin]
        /\ audNonces' = [audNonces EXCEPT ![audAdmin] = r.nonce + 1]
        /\ entries' = Append(entries, e)
        /\ UNCHANGED <<audAdmin, requests>>
    BY <1>3 DEF DeliverAppend, VerifyAndIncrementNonce
  <2>2. e.seq = Len(entries) /\ e.call = r.call
    OBVIOUS
  <2>. HIDE DEF e
  <2>3. Grown(entries, e)
    BY SequenceGrows
  <2>4. Len(entries) \in Nat /\ DOMAIN entries = 1 .. Len(entries)
    BY SequenceFacts
  <2>5. /\ IsSequence(entries') /\ Len(entries') = Len(entries) + 1
        /\ DOMAIN entries' = 1 .. Len(entries) + 1
        /\ \A i \in 1 .. Len(entries) : entries'[i] = entries[i]
        /\ entries'[Len(entries) + 1] = e
    BY <2>1, <2>3, <2>4 DEF Grown
  <2>6. AuditInv'
    <3>1. \A i \in DOMAIN entries' : entries'[i].seq = i - 1
      BY <2>2, <2>4, <2>5
    <3>2. /\ audNonces' \in [Accounts -> Nat]
          /\ audNonces'[audAdmin'] = Len(entries') + 1
      BY <2>1, <2>4, <2>5
    <3>. QED
      BY <2>1, <2>5, <3>1, <3>2
  <2>7. r = [nonce |-> Len(entries) + 1, call |-> r.call]
    BY <2>1 DEF AuditRequests
  <2>8. /\ p = [i \in 1 .. Len(entries) |->
                  [nonce |-> entries[i].seq + 1, call |-> entries[i].call]]
        /\ q = [i \in 1 .. Len(entries) + 1 |->
                  [nonce |-> entries'[i].seq + 1, call |-> entries'[i].call]]
    BY <2>4, <2>5 DEF Performed
  <2>9. \A i \in 1 .. Len(entries) : p[i].nonce = i /\ q[i] = p[i]
    BY <2>4, <2>5, <2>8
  <2>10. q[Len(entries) + 1] = r
    BY <2>2, <2>4, <2>5, <2>7, <2>8
  <2>11. /\ IsSequence(p) /\ Len(p) = Len(entries) /\ DOMAIN p = 1 .. Len(entries)
         /\ DOMAIN q = 1 .. Len(entries) + 1
    <3>. DEFINE n == Len(entries)
                f(i) == [nonce |-> entries[i].seq + 1, call |-> entries[i].call]
    <3>1. p = [i \in 1 .. n |-> f(i)] /\ n \in Nat
      BY <2>4, <2>8
    <3>. HIDE DEF p, n, f
    <3>2. IsSequence(p) /\ Len(p) = n /\ DOMAIN p = 1 .. n
      <4>1. p = [i \in 1 .. n |-> p[i]] /\ DOMAIN p = 1 .. n
        BY <3>1
      <4>. DEFINE R == {p[i] : i \in DOMAIN p}
      <4>2. p \in [1 .. n -> R]
        BY <4>1
      <4>. HIDE DEF R
      <4>3. p \in Seq(R) /\ Len(p) = n
        BY <3>1, <4>2
      <4>. QED
        BY <4>1, <4>3 DEF IsSequence, R
    <3>. QED
      BY <2>8, <3>2 DEF n
  <2>. HIDE DEF p, q
  <2>12. Grown(p, r)
    BY <2>11, SequenceGrows
  <2>13. q = Append(p, r)
    <3>. DEFINE t == Append(p, r)
    <3>1. /\ DOMAIN t = 1 .. Len(entries) + 1 /\ t[Len(entries) + 1] = r
          /\ \A i \in 1 .. Len(entries) : t[i] = p[i]
          /\ IsSequence(t)
      BY <2>4, <2>11, <2>12 DEF Grown
    <3>2. t = [i \in DOMAIN t |-> t[i]] /\ q = [i \in DOMAIN q |-> q[i]]
      <4>1. t = [i \in DOMAIN t |-> t[i]]
        <5>. HIDE DEF t
        <5>. QED
          BY <3>1 DEF IsSequence
      <4>. QED
        BY <2>8, <4>1 DEF q
    <3>. HIDE DEF t
    <3>3. \A i \in 1 .. Len(entries) + 1 : q[i] = t[i]
      BY <2>4, <2>9, <2>10, <3>1
    <3>4. q = t
      BY <2>11, <3>1, <3>2, <3>3
    <3>. QED
      BY <3>4 DEF t
  <2>14. \A i \in 1 .. Len(p) : p[i].nonce < r.nonce
    BY <2>1, <2>4, <2>9, <2>11
  <2>. QED
    BY <2>1, <2>6, <2>13, <2>14 DEF CL!Perform, p, q
<1>4. CASE UNCHANGED auditVars
  BY <1>4 DEF auditVars, Performed, IsSequence
<1>5. AuditNext \/ UNCHANGED auditVars
  BY DEF SuiteNext, RecordSideNext, recordSide, suiteVars
<1>. HIDE DEF AuditInv
<1>6. ASSUME AuditNext
      PROVE  AuditInv' /\ [CL!CallLogNext]_<<requests, Performed>>
  BY <1>1, <1>2, <1>3, <1>6 DEF AuditNext, CL!CallLogNext
<1>. QED
  BY <1>4, <1>5, <1>6 DEF auditVars, Performed

\* Whatever the network does with the requests, the audit log behaves as
\* CallLog allows: replay protection performs only signed calls, each at most
\* once, in nonce order (verify_and_increment_nonce, append).
THEOREM AuditLogRefinesCallLog == SuiteSpec => ImplementsCallLog
<1>1. SuiteInit => AuditInv /\ CL!CallLogInit
  BY ProtocolAssumption DEF SuiteInit, AuditInit, AuditInv, CL!CallLogInit, Performed, IsSequence
<1>2. AuditInv /\ [SuiteNext]_suiteVars
         => AuditInv' /\ [CL!CallLogNext]_<<requests, Performed>>
  BY AuditStep
<1>. QED
  BY <1>1, <1>2, PTL DEF SuiteSpec, ImplementsCallLog, CL!CallLogSpec

-----------------------------------------------------------------------------
(* The site and the clock *)

WorldInv == site \in Sites /\ clock \in 0 .. MaxClock[site]

\* A call leaves the site and the clock alone, or lets time pass; at site
\* "limits" the clock may go back.
PassesTime ==
    \/ UNCHANGED protocolWorld
    \/ ClockTick
    \/ site = "limits" /\ ClockStepsBack

WorldStep ==
    /\ site' = site
    /\ clock' \in 0 .. MaxClock[site]
    /\ site # "limits" => clock' >= clock

LEMMA GovernanceWorld ==
    ASSUME GovernanceSideNext
    PROVE  PassesTime
<1>. USE DEF PassesTime
<1>1. CASE DaoNext
  BY <1>1 DEF DaoNext, DaoInitialize, TransferAdmin, AcceptAdmin, SetGovernanceToken,
              SetVotingConfig, DaoCreate, DaoVote, DaoCancel, DaoExecute,
              HoldersChange
<1>2. CASE GatingNext
  <2>1. ASSUME NEW V, DelegationCalls(V) PROVE UNCHANGED protocolWorld
    BY <2>1 DEF DelegationCalls, DelegateVotingPower, GovTokenMoves, RevokeDelegation
  <2>2. ASSUME GateCalls PROVE UNCHANGED protocolWorld
    BY <2>2 DEF GateCalls, SetGovernanceThreshold, SetRoleEscalationThreshold,
                SetGateFlag, SetEmergencyPause, SetEmergencyOverrideAdmin
  <2>. QED
    BY <1>2, <2>1, <2>2 DEF GatingNext, InitializeGovernance
<1>3. CASE NetworkNext
  BY <1>3 DEF NetworkNext, NetInitialize, NetGrantRole, NetRevokeRole,
              SetNetworkConfig, NetUpgrade, NetRollback
<1>4. CASE ConfigNext
  BY <1>4 DEF ConfigNext, CfgInitialize, SetGlobalDefaults, SetBusinessConfig,
              UpdateSection, SetAnchorConfig
<1>. QED
  BY <1>1, <1>2, <1>3, <1>4 DEF GovernanceSideNext

LEMMA RecordWorld ==
    ASSUME RecordSideNext
    PROVE  PassesTime
<1>. USE DEF PassesTime
<1>1. CASE SnapshotNext
  BY <1>1 DEF SnapshotNext, SnapshotCalls, SnapInitialize, SetSnapshotSource,
              SetWriters, RecordSnapshot, FinalizeEpoch, RestoreDryRun,
              RestoreCommit, SourceChanges
<1>2. CASE RegistryNext
  BY <1>2 DEF RegistryNext, RegInitialize, Upgrade, Rollback,
              RegisterAttestationKey, RegTransferAdmin
<1>3. CASE AggregatedNext
  <2>1. ASSUME PortfolioCalls \/ RootCalls PROVE UNCHANGED protocolWorld
    BY <2>1 DEF PortfolioCalls, RootCalls, AggInitialize, RegisterPortfolio,
                SetPendingAdmin, SubmitAggregatedRoot, ActivateAdmin
  <2>. QED
    BY <1>3, <2>1 DEF AggregatedNext, SnapInitialize, RecordSnapshot
<1>4. CASE AuditNext
  BY <1>4 DEF AuditNext, AudInitialize, SignRequest, DeliverAppend
<1>. QED
  BY <1>1, <1>2, <1>3, <1>4 DEF RecordSideNext

LEMMA LendingWorld ==
    ASSUME LendingSideNext
    PROVE  PassesTime
<1>. USE DEF PassesTime
<1>1. CASE IntegrationNext
  <2>1. ASSUME NEW caller, NEW ns, NEW id,
               \/ EnableProvider(caller, ns, id) \/ DeprecateProvider(caller, ns, id)
               \/ DisableProvider(caller, ns, id)
        PROVE  UNCHANGED protocolWorld
    BY <2>1 DEF EnableProvider, DeprecateProvider, DisableProvider, MoveProvider
  <2>2. ASSUME NEW caller, NEW ns, NEW id, NEW m,
               RegisterProvider(caller, ns, id, m) \/ UpdateMetadata(caller, ns, id, m)
        PROVE  UNCHANGED protocolWorld
    BY <2>2 DEF RegisterProvider, UpdateMetadata
  <2>3. ASSUME NEW caller, NEW ns, NEW account,
               \/ RegisterNamespace(caller, ns, account)
               \/ GrantNamespaceGovernance(caller, ns, account)
               \/ RevokeNamespaceGovernance(caller, ns, account)
        PROVE  UNCHANGED protocolWorld
    BY <2>3 DEF RegisterNamespace, GrantNamespaceGovernance, RevokeNamespaceGovernance
  <2>4. ASSUME NEW caller, NEW account,
               \/ IntInitialize(caller) \/ IntGrantGovernance(caller, account)
               \/ IntRevokeGovernance(caller, account)
        PROVE  UNCHANGED protocolWorld
    BY <2>4 DEF IntInitialize, IntGrantGovernance, IntRevokeGovernance
  <2>. QED
    BY <1>1, <2>1, <2>2, <2>3, <2>4 DEF IntegrationNext
<1>2. CASE LenderNext
  <2>1. ASSUME EnrolCalls \/ RoleCalls PROVE UNCHANGED protocolWorld
    BY <2>1 DEF EnrolCalls, RoleCalls, AccInitialize, SetLender, RemoveLender,
                AccTransferAdmin, AccSetRole
  <2>2. ASSUME ConsumerCalls PROVE UNCHANGED protocolWorld
    BY <2>2 DEF ConsumerCalls, ConInitialize, SetAccessList, SubmitRevenue,
                SubmitRevenueUnchecked, Record, SetDispute, ClearAnomaly, CoreStep
  <2>. QED
    BY <1>2, <2>1, <2>2 DEF LenderNext
<1>3. CASE CurveNext
  BY <1>3 DEF CurveNext, CurveInitialize, SetAttestationContract,
              SetPricingPolicy, SetRevenueTiers
<1>. QED
  BY <1>1, <1>2, <1>3 DEF LendingSideNext

LEMMA SubmissionWorld ==
    ASSUME SubmissionSideNext
    PROVE  PassesTime
<1>. USE DEF PassesTime
<1>1. CASE LimitsNext
  BY <1>1 DEF LimitsNext, ConfigureRateLimit, SubmitLimited
<1>2. CASE FeesNext
  <2>1. ASSUME DynamicNext \/ DiscountsNext PROVE UNCHANGED protocolWorld
    BY <2>1 DEF DynamicNext, DiscountsNext, ConfigureFees, ProposeFeeConfig,
                CommitFeeConfig, CancelPendingFeeConfig, SetFeeEnabled, SetDao,
                SetTierDiscount, SetBusinessTier, SetVolumeBrackets
  <2>2. ASSUME FlatNext \/ EpochsNext PROVE UNCHANGED protocolWorld
    BY <2>2 DEF FlatNext, EpochsNext, ConfigureFlatFee, ProposeDaoRotation,
                AcceptDaoRotation, CancelDaoRotation, SetFlatFeeDao,
                ProposeCollectorRotation, AcceptCollectorRotation, SetCurrentEpoch
  <2>3. ASSUME SubmitNext \/ DaoNextAnswer PROVE UNCHANGED protocolWorld
    BY <2>3 DEF SubmitNext, DaoNextAnswer, SubmitAttestation, SubmitMultiPeriod,
                DaoAnswers
  <2>. QED
    BY <1>2, <2>1, <2>2, <2>3 DEF FeesNext
<1>3. CASE SlashNext
  BY <1>3 DEF SlashNext, ProposeStakingContract, Stakes, CommitStakingContract,
              CancelPendingStakingContract, SetAuditLogContract, OpenQuarrel,
              TriggerSlash, ResolveQuarrel, UpholdByWitness
<1>. QED
  BY <1>1, <1>2, <1>3 DEF SubmissionSideNext

LEMMA SuiteWorld ==
    ASSUME WorldInv, [SuiteNext]_suiteVars
    PROVE  WorldStep /\ WorldInv'
<1>1. PassesTime
  BY GovernanceWorld, RecordWorld, LendingWorld, SubmissionWorld
     DEF SuiteNext, suiteVars, PassesTime
<1>2. MaxClock[site] \in Nat
  BY ProtocolAssumption DEF WorldInv
<1>3. WorldStep
  BY <1>1, <1>2 DEF PassesTime, ClockTick, ClockStepsBack, protocolWorld,
                    WorldStep, WorldInv
<1>. QED
  BY <1>3 DEF WorldStep, WorldInv

-----------------------------------------------------------------------------
(* Business configuration: anchored sections *)

ConfigRecords == [contents : Contents, version : Nat]

ConfigInv ==
    /\ cfgOwn \in [Firms -> ConfigRecords \cup {Absent}]
    /\ cfgDefaults \in ConfigRecords \cup {Absent}
    /\ cfgAnchors \in [Firms -> SUBSET ConfigSections]

AnchorStep ==
    \A b \in Firms : \A s \in cfgAnchors[b] :
        /\ s \in cfgAnchors'[b]
        /\ cfgOwn[b] # Absent =>
              ConfigOrDefault(b)'.contents[s] = ConfigOrDefault(b).contents[s]

LEMMA ConfigStep ==
    ASSUME ConfigInv, [SuiteNext]_suiteVars
    PROVE  ConfigInv' /\ [AnchorStep]_configVars
<1>. USE DEF ConfigInv
<1>1. Absent \notin ConfigRecords
  BY BusinessConfigAssumption DEF ConfigRecords, Contents
<1>2. DefaultConfig \in ConfigRecords
  BY BusinessConfigAssumption DEF DefaultConfig, ConfigRecords, Contents
<1>3. \A b \in Firms : ConfigOrDefault(b) \in ConfigRecords
  BY <1>2 DEF ConfigOrDefault
<1>4. \A c \in ConfigRecords : c.contents \in Contents /\ c.version \in Nat
  BY DEF ConfigRecords
<1>5. \A m \in Contents, v \in Nat : [contents |-> m, version |-> v] \in ConfigRecords
  BY DEF ConfigRecords
<1>6. ASSUME NEW b \in Firms, cfgOwn[b] # Absent
      PROVE  ConfigOrDefault(b) = cfgOwn[b]
  BY <1>6 DEF ConfigOrDefault
<1>7. ASSUME NEW b \in Firms, cfgOwn'[b] # Absent
      PROVE  ConfigOrDefault(b)' = cfgOwn'[b]
  BY <1>7 DEF ConfigOrDefault
<1>8. ASSUME NEW admin \in Accounts, CfgInitialize(admin)
      PROVE  ConfigInv' /\ AnchorStep
  BY <1>2, <1>6, <1>7, <1>8 DEF CfgInitialize, AnchorStep
<1>9. ASSUME NEW caller, NEW contents \in Contents, SetGlobalDefaults(caller, contents)
      PROVE  ConfigInv' /\ AnchorStep
  BY <1>5, <1>6, <1>7, <1>9 DEF SetGlobalDefaults, AnchorStep
<1>10. ASSUME NEW caller, NEW b \in Firms, NEW contents \in Contents,
              SetBusinessConfig(caller, b, contents)
       PROVE  ConfigInv' /\ AnchorStep
  <2>. DEFINE v == IF cfgOwn[b] = Absent THEN 1 ELSE cfgOwn[b].version + 1
  <2>1. v \in Nat /\ cfgOwn' = [cfgOwn EXCEPT ![b] =
                                   [contents |-> contents, version |-> v]]
    BY <1>4, <1>10 DEF SetBusinessConfig
  <2>. HIDE DEF v
  <2>2. UNCHANGED <<cfgDefaults, cfgAnchors>> /\ MayReplace(b)
    BY <1>10 DEF SetBusinessConfig
  <2>3. [contents |-> contents, version |-> v] \in ConfigRecords
    BY <1>5, <2>1
  <2>4. ConfigInv'
    BY <2>1, <2>2, <2>3
  <2>5. AnchorStep
    <3>1. SUFFICES ASSUME NEW f \in Firms, NEW s \in cfgAnchors[f],
                          cfgOwn[f] # Absent
                   PROVE  ConfigOrDefault(f)'.contents[s]
                             = ConfigOrDefault(f).contents[s]
      BY <2>2 DEF AnchorStep
    <3>2. f # b
      BY <2>2, <3>1 DEF MayReplace
    <3>. QED
      BY <1>6, <1>7, <2>1, <3>1, <3>2
  <2>. QED
    BY <2>4, <2>5
<1>11. ASSUME NEW caller, NEW b \in Firms, NEW s \in ConfigSections,
              NEW content \in SectionContents, UpdateSection(caller, b, s, content)
       PROVE  ConfigInv' /\ AnchorStep
  <2>. DEFINE old == ConfigOrDefault(b)
              new == [contents |-> [old.contents EXCEPT ![s] = content],
                      version |-> old.version + 1]
  <2>1. /\ UNCHANGED <<cfgDefaults, cfgAnchors>> /\ s \notin cfgAnchors[b]
        /\ cfgOwn' = [cfgOwn EXCEPT ![b] = new]
    BY <1>11 DEF UpdateSection
  <2>2. old.contents \in Contents /\ old.version \in Nat
    BY <1>3, <1>4
  <2>3. [old.contents EXCEPT ![s] = content] \in Contents
    BY <2>2 DEF Contents
  <2>4. new \in ConfigRecords
    BY <1>5, <2>2, <2>3
  <2>5. \A x \in ConfigSections \ {s} : new.contents[x] = old.contents[x]
    BY <2>2 DEF Contents
  <2>. HIDE DEF new
  <2>6. ConfigInv'
    BY <2>1, <2>4
  <2>7. AnchorStep
    <3>1. SUFFICES ASSUME NEW f \in Firms, NEW x \in cfgAnchors[f],
                          cfgOwn[f] # Absent
                   PROVE  ConfigOrDefault(f)'.contents[x]
                             = ConfigOrDefault(f).contents[x]
      BY <2>1 DEF AnchorStep
    <3>2. CASE f = b
      <4>1. cfgOwn'[b] = new /\ new # Absent
        BY <1>1, <2>1, <2>4
      <4>2. x \in ConfigSections \ {s}
        BY <2>1, <3>1, <3>2
      <4>. QED
        BY <1>7, <2>5, <3>2, <4>1, <4>2
    <3>3. CASE f # b
      <4>1. cfgOwn'[f] = cfgOwn[f]
        BY <2>1, <3>3
      <4>. QED
        BY <1>6, <1>7, <3>1, <4>1
    <3>. QED
      BY <3>2, <3>3
  <2>. QED
    BY <2>6, <2>7
<1>12. ASSUME NEW caller, NEW b \in Firms, NEW anchors \in SUBSET ConfigSections,
              SetAnchorConfig(caller, b, anchors)
       PROVE  ConfigInv' /\ AnchorStep
  <2>1. /\ UNCHANGED <<cfgDefaults, cfgOwn>>
        /\ cfgAnchors' = [cfgAnchors EXCEPT ![b] = cfgAnchors[b] \cup anchors]
    BY <1>12 DEF SetAnchorConfig, MergedAnchors
  <2>2. ConfigInv' /\ \A f \in Firms : cfgAnchors[f] \subseteq cfgAnchors'[f]
    BY <2>1
  <2>. QED
    BY <1>6, <1>7, <2>1, <2>2 DEF AnchorStep
<1>13. ConfigNext \/ UNCHANGED configVars
  BY DEF SuiteNext, GovernanceSideNext, governanceSide, suiteVars
<1>14. CASE UNCHANGED configVars
  BY <1>14 DEF configVars
<1>. HIDE DEF ConfigInv
<1>15. CASE ConfigNext
  BY <1>8, <1>9, <1>10, <1>11, <1>12, <1>15 DEF ConfigNext
<1>. QED
  BY <1>13, <1>14, <1>15

\* Anchoring is final, for any businesses, sections and contents: update_*,
\* set_business_config, set_global_defaults and set_anchor_config never change
\* an anchored section that get_config answers from a business's own record.
THEOREM AnchorsAreFinal == SuiteSpec => AnchoredStaysPut
<1>1. SuiteInit => ConfigInv
  BY DEF SuiteInit, ConfigInit, ConfigInv
<1>2. ConfigInv /\ [SuiteNext]_suiteVars => ConfigInv' /\ [AnchorStep]_configVars
  BY ConfigStep
<1>3. SuiteSpec => [][AnchorStep]_configVars
  BY <1>1, <1>2, PTL DEF SuiteSpec
<1>. QED
  BY <1>3 DEF AnchoredStaysPut, AnchorStep

-----------------------------------------------------------------------------
(* Snapshots and finalized epochs *)

\* The businesses with a snapshot of the epoch.
Snapped(e) == {b \in SnapshotBusinesses : snapshots[<<b, e>>] # Absent}

SnapInv ==
    /\ snapshots \in [SnapshotKeys -> SnapshotRecords \cup {Absent}]
    /\ businessPeriods \in [SnapshotBusinesses -> SUBSET Epochs]
    /\ epochBusinesses \in [Epochs -> SUBSET SnapshotBusinesses]
    /\ finalization \in [Epochs -> Nat \cup {Absent}]
    /\ SnapshotIndexesAgree
    /\ \A e \in Epochs :
          finalization[e] # Absent => finalization[e] = Cardinality(Snapped(e))

FrozenStep ==
    \A e \in Epochs : finalization[e] # Absent =>
        /\ finalization'[e] = finalization[e]
        /\ \A b \in SnapshotBusinesses : snapshots'[<<b, e>>] = snapshots[<<b, e>>]
        /\ finalization[e] = Cardinality({b \in SnapshotBusinesses :
                                             snapshots[<<b, e>>] # Absent})

\* A call that writes records under keys of open epochs and indexes the keys.
Writes(keys) ==
    /\ keys \subseteq SnapshotKeys
    /\ \A k \in keys : NotFinalized(k[2]) /\ snapshots'[k] # Absent
    /\ \A k \in SnapshotKeys \ keys : snapshots'[k] = snapshots[k]
    /\ snapshots' \in [SnapshotKeys -> SnapshotRecords \cup {Absent}]
    /\ IndexKeys(keys)
    /\ UNCHANGED finalization

LEMMA WritesKeepIndexes ==
    ASSUME SnapInv, NEW keys, Writes(keys)
    PROVE  SnapInv' /\ FrozenStep
<1>. USE DEF SnapInv
<1>1. /\ keys \subseteq SnapshotKeys
      /\ \A k \in keys : finalization[k[2]] = Absent /\ snapshots'[k] # Absent
      /\ \A k \in SnapshotKeys \ keys : snapshots'[k] = snapshots[k]
      /\ snapshots' \in [SnapshotKeys -> SnapshotRecords \cup {Absent}]
      /\ UNCHANGED finalization
  BY DEF Writes, NotFinalized
<1>2. /\ businessPeriods' = [b \in SnapshotBusinesses |->
            businessPeriods[b] \cup {k[2] : k \in {x \in keys : x[1] = b}}]
      /\ epochBusinesses' = [e \in Epochs |->
            epochBusinesses[e] \cup {k[1] : k \in {x \in keys : x[2] = e}}]
  BY DEF Writes, IndexKeys
<1>3. ASSUME NEW b \in SnapshotBusinesses, NEW e \in Epochs
      PROVE  /\ e \in businessPeriods'[b] <=>
                   e \in businessPeriods[b] \/ <<b, e>> \in keys
             /\ b \in epochBusinesses'[e] <=>
                   b \in epochBusinesses[e] \/ <<b, e>> \in keys
             /\ snapshots'[<<b, e>>] # Absent <=>
                   snapshots[<<b, e>>] # Absent \/ <<b, e>> \in keys
  <2>1. <<b, e>> \in SnapshotKeys
    BY DEF SnapshotKeys
  <2>2. \A k \in keys : k = <<k[1], k[2]>>
    BY <1>1 DEF SnapshotKeys
  <2>3. e \in {k[2] : k \in {x \in keys : x[1] = b}} <=> <<b, e>> \in keys
    BY <2>2
  <2>4. b \in {k[1] : k \in {x \in keys : x[2] = e}} <=> <<b, e>> \in keys
    BY <2>2
  <2>. QED
    BY <1>1, <1>2, <2>1, <2>3, <2>4
<1>4. /\ businessPeriods' \in [SnapshotBusinesses -> SUBSET Epochs]
      /\ epochBusinesses' \in [Epochs -> SUBSET SnapshotBusinesses]
  <2>1. \A k \in keys : k[1] \in SnapshotBusinesses /\ k[2] \in Epochs
    BY <1>1 DEF SnapshotKeys
  <2>. QED
    BY <1>2, <2>1
<1>5. SnapshotIndexesAgree'
  BY <1>3 DEF SnapshotIndexesAgree
<1>6. \A e \in Epochs, b \in SnapshotBusinesses :
         finalization[e] # Absent => snapshots'[<<b, e>>] = snapshots[<<b, e>>]
  BY <1>1 DEF SnapshotKeys
<1>7. \A e \in Epochs : finalization[e] # Absent => Snapped(e)' = Snapped(e)
  BY <1>6 DEF Snapped
<1>8. FrozenStep
  BY <1>1, <1>6 DEF FrozenStep, Snapped
<1>9. \A e \in Epochs :
         finalization'[e] # Absent => finalization'[e] = Cardinality(Snapped(e)')
  BY <1>1, <1>7
<1>. QED
  BY <1>1, <1>4, <1>5, <1>8, <1>9

LEMMA SnapshotStep ==
    ASSUME WorldInv, SnapInv, [SuiteNext]_suiteVars
    PROVE  SnapInv' /\ [FrozenStep]_snapVars
<1>1. ASSUME NEW caller, NEW k \in SnapshotKeys, NEW revenue \in SnapshotRevenues,
             RecordSnapshot(caller, k, revenue)
      PROVE  SnapInv' /\ FrozenStep
  <2>. DEFINE r == [revenue |-> revenue, at |-> clock]
  <2>1. /\ snapshots' = [snapshots EXCEPT ![k] = r]
        /\ NotFinalized(k[2]) /\ IndexKeys({k}) /\ UNCHANGED finalization
    BY <1>1 DEF RecordSnapshot
  <2>2. clock \in Nat
    BY DEF WorldInv
  <2>3. r \in SnapshotRecords /\ r # Absent
    BY <2>2, SnapshotAssumption DEF SnapshotRecords
  <2>. HIDE DEF r
  <2>4. Writes({k})
    BY <2>1, <2>3 DEF Writes, SnapInv
  <2>. QED
    BY <2>4, WritesKeepIndexes
<1>2. ASSUME NEW caller, NEW batch \in RestoreBatches, RestoreCommit(caller, batch)
      PROVE  SnapInv' /\ FrozenStep
  <2>. DEFINE written == {i \in DOMAIN batch : NotFinalized(batch[i].key[2])}
              keys == {batch[i].key : i \in written}
              At(k) == CHOOSE i \in written : batch[i].key = k
  <2>1. /\ snapshots' = [k \in SnapshotKeys |->
                           IF \E i \in written : batch[i].key = k
                           THEN batch[At(k)].record ELSE snapshots[k]]
        /\ IndexKeys(keys) /\ UNCHANGED finalization
    BY <1>2 DEF RestoreCommit
  <2>2. \A i \in written : /\ batch[i].key \in SnapshotKeys
                           /\ batch[i].record \in SnapshotRecords
                           /\ batch[i].record # Absent
                           /\ NotFinalized(batch[i].key[2])
    BY SnapshotAssumption
  <2>3. keys \subseteq SnapshotKeys /\ \A k \in keys : NotFinalized(k[2])
    BY <2>2
  <2>4. \A k \in keys : At(k) \in written
    OBVIOUS
  <2>5. \A k \in keys : snapshots'[k] = batch[At(k)].record
    BY <2>1, <2>3
  <2>6. \A k \in SnapshotKeys \ keys : snapshots'[k] = snapshots[k]
    BY <2>1
  <2>. HIDE DEF At, written
  <2>7. \A k \in keys : snapshots'[k] \in SnapshotRecords /\ snapshots'[k] # Absent
    BY <2>2, <2>4, <2>5
  <2>8. snapshots' \in [SnapshotKeys -> SnapshotRecords \cup {Absent}]
    <3>. HIDE DEF keys
    <3>1. \A k \in SnapshotKeys : snapshots'[k] \in SnapshotRecords \cup {Absent}
      BY <2>6, <2>7 DEF SnapInv
    <3>2. snapshots' = [k \in SnapshotKeys |-> snapshots'[k]]
      BY <2>1
    <3>. QED
      BY <3>1, <3>2
  <2>. HIDE DEF keys
  <2>9. Writes(keys)
    BY <2>1, <2>3, <2>6, <2>7, <2>8 DEF Writes
  <2>. QED
    BY <2>9, WritesKeepIndexes
<1>3. ASSUME NEW caller, NEW e \in Epochs, FinalizeEpoch(caller, e)
      PROVE  SnapInv' /\ FrozenStep
  <2>1. /\ finalization[e] = Absent
        /\ finalization' = [finalization EXCEPT ![e] = Cardinality(epochBusinesses[e])]
        /\ UNCHANGED <<snapshots, businessPeriods, epochBusinesses>>
    BY <1>3 DEF FinalizeEpoch, NotFinalized, snapIndexes
  <2>2. epochBusinesses[e] = Snapped(e)
    BY DEF SnapInv, SnapshotIndexesAgree, Snapped
  <2>3. Cardinality(Snapped(e)) \in Nat
    <3>1. IsFiniteSet(Snapped(e))
      BY SnapshotAssumption, FS_Subset DEF Snapped
    <3>. QED
      BY <3>1, FS_CardinalityType
  <2>4. \A x \in Epochs : Snapped(x)' = Snapped(x)
    BY <2>1 DEF Snapped
  <2>5. finalization' \in [Epochs -> Nat \cup {Absent}]
    BY <2>1, <2>2, <2>3 DEF SnapInv
  <2>6. \A x \in Epochs :
           finalization'[x] # Absent => finalization'[x] = Cardinality(Snapped(x)')
    BY <2>1, <2>2, <2>4 DEF SnapInv
  <2>7. SnapInv'
    BY <2>1, <2>5, <2>6 DEF SnapInv, SnapshotIndexesAgree
  <2>8. FrozenStep
    BY <2>1 DEF SnapInv, FrozenStep, Snapped
  <2>. QED
    BY <2>7, <2>8
<1>4. CASE UNCHANGED <<snapshots, businessPeriods, epochBusinesses, finalization>>
  BY <1>4 DEF SnapInv, SnapshotIndexesAgree, FrozenStep, Snapped
<1>5. ASSUME SnapshotNext \/ AggregatedNext
      PROVE  \/ UNCHANGED <<snapshots, businessPeriods, epochBusinesses, finalization>>
             \/ \E caller \in Accounts :
                   \/ \E k \in SnapshotKeys, revenue \in SnapshotRevenues :
                         RecordSnapshot(caller, k, revenue)
                   \/ \E e \in Epochs : FinalizeEpoch(caller, e)
                   \/ \E batch \in RestoreBatches : RestoreCommit(caller, batch)
  BY <1>5 DEF SnapshotNext, SnapshotCalls, AggregatedNext, SnapInitialize,
              SetSnapshotSource, SetWriters, RestoreDryRun, SourceChanges,
              snapVars, snapIndexes
<1>6. SnapshotNext \/ AggregatedNext \/ UNCHANGED snapVars
  BY DEF SuiteNext, RecordSideNext, recordSide, suiteVars
<1>7. UNCHANGED snapVars =>
         UNCHANGED <<snapshots, businessPeriods, epochBusinesses, finalization>>
  BY DEF snapVars, snapIndexes
<1>. QED
  BY <1>1, <1>2, <1>3, <1>4, <1>5, <1>6, <1>7

LEMMA SnapshotsInitially == SuiteInit => WorldInv /\ SnapInv
<1>. SUFFICES ASSUME SuiteInit PROVE WorldInv /\ SnapInv
  OBVIOUS
<1>1. WorldInv
  BY ProtocolAssumption DEF SuiteInit, ProtocolWorldInit, WorldInv
<1>2. SnapshotInit
  BY DEF SuiteInit
<1>3. SnapshotIndexesAgree
  BY <1>2 DEF SnapshotInit, SnapshotIndexesAgree, SnapshotKeys
<1>4. SnapInv
  BY <1>2, <1>3 DEF SnapshotInit, SnapInv
<1>. QED
  BY <1>1, <1>4

\* A finalized epoch is frozen for good and its count is right, whoever records
\* and restores, dry runs from before the finalization included
\* (finalize_epoch, record_snapshot, restore_commit).
THEOREM FinalizedEpochsStay == SuiteSpec => FinalizedEpochsFrozen
<1>1. WorldInv /\ SnapInv /\ [SuiteNext]_suiteVars
         => WorldInv' /\ SnapInv' /\ [FrozenStep]_snapVars
  BY SnapshotStep, SuiteWorld
<1>2. SuiteSpec => [][FrozenStep]_snapVars
  BY <1>1, SnapshotsInitially, PTL DEF SuiteSpec
<1>. QED
  BY <1>2, PTL DEF FinalizedEpochsFrozen, FrozenStep

-----------------------------------------------------------------------------
(* The DAO: nothing is decided without a vote *)

DaoRecords == [creator : Accounts, action : DaoActions,
               status : {"pending", "executed", "rejected"}, created : Nat]

\* The tally counts the accounts that voted.
TallyMatches(id) ==
    /\ IsFiniteSet(daoVoted[id])
    /\ daoTally[id].yes + daoTally[id].no = Cardinality(daoVoted[id])

DaoInv ==
    /\ daoProposals \in Seq(DaoRecords)
    /\ Len(daoProposals) <= MaxDaoProposals
    /\ daoTally \in [DaoIds -> [yes : Nat, no : Nat]]
    /\ daoVoted \in [DaoIds -> SUBSET Accounts]
    /\ \A id \in DaoIds : TallyMatches(id)

DaoStep ==
    \A id \in DOMAIN daoProposals :
        /\ daoEffects' # daoEffects =>
              \E e \in DOMAIN daoProposals :
                 /\ daoProposals[e].status = "pending"
                 /\ daoProposals'[e].status = "executed"
        /\ daoProposals'[id].status = "executed"
              /\ daoProposals[id].status # "executed" =>
              LET voters == Cardinality(daoVoted[id])
              IN  2 * daoTally[id].yes > voters /\ voters >= daoConfig.min
        /\ daoProposals[id].status # "pending" =>
              /\ daoProposals'[id] = daoProposals[id]
              /\ daoTally'[id] = daoTally[id]

LEMMA DaoVoteCounts ==
    ASSUME DaoInv, NEW voter \in Accounts, NEW id \in DaoIds,
           NEW side \in {"yes", "no"}, DaoVote(voter, id, side)
    PROVE  DaoInv' /\ DaoStep
<1>. USE DEF DaoInv
<1>1. /\ UNCHANGED <<daoProposals, daoEffects>>
      /\ daoTally' = [daoTally EXCEPT ![id][side] = @ + 1]
      /\ daoVoted' = [daoVoted EXCEPT ![id] = @ \cup {voter}]
      /\ voter \notin daoVoted[id]
      /\ daoProposals[id].status = "pending"
  BY DEF DaoVote, NotVotedYet, DaoOpen
<1>2. daoTally[id] \in [yes : Nat, no : Nat]
  OBVIOUS
<1>3. PICK t \in [yes : Nat, no : Nat] :
         /\ daoTally' = [daoTally EXCEPT ![id] = t]
         /\ t.yes + t.no = daoTally[id].yes + daoTally[id].no + 1
  <2>1. CASE side = "yes"
    <3>. DEFINE t == [daoTally[id] EXCEPT !.yes = @ + 1]
    <3>1. t \in [yes : Nat, no : Nat]
          /\ t.yes + t.no = daoTally[id].yes + daoTally[id].no + 1
      BY <1>2
    <3>2. daoTally' = [daoTally EXCEPT ![id] = t]
      BY <1>1, <1>2, <2>1
    <3>. QED
      BY <3>1, <3>2
  <2>2. CASE side = "no"
    <3>. DEFINE t == [daoTally[id] EXCEPT !.no = @ + 1]
    <3>1. t \in [yes : Nat, no : Nat]
          /\ t.yes + t.no = daoTally[id].yes + daoTally[id].no + 1
      BY <1>2
    <3>2. daoTally' = [daoTally EXCEPT ![id] = t]
      BY <1>1, <1>2, <2>2
    <3>. QED
      BY <3>1, <3>2
  <2>. QED
    BY <2>1, <2>2
<1>4. /\ IsFiniteSet(daoVoted[id] \cup {voter})
      /\ Cardinality(daoVoted[id] \cup {voter}) = Cardinality(daoVoted[id]) + 1
  BY <1>1, FS_AddElement DEF TallyMatches
<1>5. \A x \in DaoIds : TallyMatches(x)'
  <2>1. SUFFICES ASSUME NEW x \in DaoIds PROVE TallyMatches(x)'
    OBVIOUS
  <2>2. CASE x = id
    <3>1. daoTally'[x] = t /\ daoVoted'[x] = daoVoted[id] \cup {voter}
      BY <1>1, <1>3, <2>2
    <3>. QED
      BY <1>3, <1>4, <3>1 DEF TallyMatches
  <2>3. CASE x # id
    <3>1. daoTally'[x] = daoTally[x] /\ daoVoted'[x] = daoVoted[x]
      BY <1>1, <1>3, <2>3
    <3>. QED
      BY <3>1 DEF TallyMatches
  <2>. QED
    BY <2>2, <2>3
<1>6. DaoInv'
  <2>1. daoTally' \in [DaoIds -> [yes : Nat, no : Nat]]
    BY <1>3
  <2>2. daoVoted' \in [DaoIds -> SUBSET Accounts]
    BY <1>1
  <2>. QED
    BY <1>1, <1>5, <2>1, <2>2
<1>7. \A x \in DOMAIN daoProposals : daoProposals[x].status # "pending" =>
         daoTally'[x] = daoTally[x]
  <2>1. DOMAIN daoProposals \subseteq DaoIds
    <3>1. /\ daoProposals \in Seq(DaoRecords) /\ Len(daoProposals) <= MaxDaoProposals
          /\ MaxDaoProposals \in Nat
      BY DaoAssumption DEF DaoInv
    <3>. QED
      BY <3>1 DEF DaoIds
  <2>. QED
    BY <1>1, <1>3, <2>1
<1>. QED
  BY <1>1, <1>6, <1>7 DEF DaoStep

\* A pending proposal's status changes: the other proposals stay as they are.
LEMMA DaoStatusChange ==
    ASSUME DaoInv, NEW id \in DOMAIN daoProposals,
           NEW status \in {"executed", "rejected"},
           daoProposals[id].status = "pending",
           daoProposals' = [daoProposals EXCEPT ![id].status = status],
           UNCHANGED <<daoTally, daoVoted>>
    PROVE  /\ DaoInv'
           /\ daoProposals'[id].status = status
           /\ \A x \in DOMAIN daoProposals \ {id} : daoProposals'[x] = daoProposals[x]
<1>. USE DEF DaoInv
<1>. DEFINE r == [daoProposals[id] EXCEPT !.status = status]
<1>1. daoProposals[id] \in DaoRecords
  OBVIOUS
<1>2. r \in DaoRecords /\ r.status = status
  BY <1>1 DEF DaoRecords
<1>3. daoProposals' = [daoProposals EXCEPT ![id] = r]
  OBVIOUS
<1>. HIDE DEF r
<1>4. /\ daoProposals' \in Seq(DaoRecords) /\ Len(daoProposals') = Len(daoProposals)
      /\ daoProposals'[id] = r
      /\ \A x \in DOMAIN daoProposals \ {id} : daoProposals'[x] = daoProposals[x]
  <2>. DEFINE n == Len(daoProposals)
  <2>1. n \in Nat /\ daoProposals \in [1 .. n -> DaoRecords] /\ id \in 1 .. n
    OBVIOUS
  <2>. HIDE DEF n
  <2>2. daoProposals' \in [1 .. n -> DaoRecords]
    BY <1>2, <1>3, <2>1
  <2>3. daoProposals' \in Seq(DaoRecords) /\ Len(daoProposals') = n
    BY <2>1, <2>2
  <2>. QED
    BY <1>3, <2>1, <2>3 DEF n
<1>. QED
  BY <1>2, <1>4 DEF TallyMatches

LEMMA DaoSteps ==
    ASSUME WorldInv, DaoInv, [SuiteNext]_suiteVars
    PROVE  DaoInv' /\ [DaoStep]_daoVars
<1>1. ASSUME NEW creator \in Accounts, NEW action \in DaoActions,
             DaoCreate(creator, action)
      PROVE  DaoInv' /\ DaoStep
  <2>. DEFINE r == [creator |-> creator, action |-> action,
                    status |-> "pending", created |-> clock]
  <2>1. /\ daoProposals' = Append(daoProposals, r)
        /\ Len(daoProposals) < MaxDaoProposals
        /\ UNCHANGED <<daoTally, daoVoted, daoEffects>>
    BY <1>1 DEF DaoCreate
  <2>2. r \in DaoRecords
    BY DEF WorldInv, DaoRecords
  <2>. HIDE DEF r
  <2>3. /\ daoProposals' \in Seq(DaoRecords)
        /\ Len(daoProposals') <= MaxDaoProposals
        /\ \A x \in DOMAIN daoProposals : daoProposals'[x] = daoProposals[x]
    BY <2>1, <2>2, DaoAssumption DEF DaoInv
  <2>. QED
    BY <2>1, <2>3 DEF DaoInv, DaoStep, TallyMatches
<1>2. ASSUME NEW voter \in Accounts, NEW id \in DaoIds, NEW side \in {"yes", "no"},
             DaoVote(voter, id, side)
      PROVE  DaoInv' /\ DaoStep
  BY <1>2, DaoVoteCounts
<1>3. ASSUME NEW caller \in Accounts, NEW id \in DaoIds, DaoCancel(caller, id)
      PROVE  DaoInv' /\ DaoStep
  <2>1. /\ id \in DOMAIN daoProposals
        /\ daoProposals[id].status = "pending"
        /\ daoProposals' = [daoProposals EXCEPT ![id].status = "rejected"]
        /\ UNCHANGED <<daoTally, daoVoted, daoEffects>>
    BY <1>3 DEF DaoCancel
  <2>2. /\ DaoInv'
        /\ daoProposals'[id].status = "rejected"
        /\ \A x \in DOMAIN daoProposals \ {id} : daoProposals'[x] = daoProposals[x]
    BY <2>1, DaoStatusChange
  <2>. QED
    BY <2>1, <2>2 DEF DaoStep
<1>4. ASSUME NEW id \in DaoIds, DaoExecute(id)
      PROVE  DaoInv' /\ DaoStep
  <2>1. /\ id \in DOMAIN daoProposals
        /\ daoProposals[id].status = "pending"
        /\ QuorumMet(id) /\ HasMajority(id)
        /\ daoProposals' = [daoProposals EXCEPT ![id].status = "executed"]
        /\ UNCHANGED <<daoTally, daoVoted>>
    BY <1>4 DEF DaoExecute, DaoOpen
  <2>2. /\ DaoInv'
        /\ daoProposals'[id].status = "executed"
        /\ \A x \in DOMAIN daoProposals \ {id} : daoProposals'[x] = daoProposals[x]
    BY <2>1, DaoStatusChange
  <2>3. /\ 2 * daoTally[id].yes > Cardinality(daoVoted[id])
        /\ Cardinality(daoVoted[id]) >= daoConfig.min
    <3>1. /\ daoTally[id].yes \in Nat /\ daoTally[id].no \in Nat
          /\ daoTally[id].yes + daoTally[id].no = Cardinality(daoVoted[id])
      BY DEF DaoInv, TallyMatches
    <3>. QED
      BY <2>1, <3>1 DEF QuorumMet, HasMajority
  <2>. QED
    BY <2>1, <2>2, <2>3 DEF DaoStep
<1>5. CASE UNCHANGED <<daoProposals, daoTally, daoVoted, daoEffects>>
  BY <1>5 DEF DaoInv, DaoStep, TallyMatches
<1>6. ASSUME DaoNext
      PROVE  \/ UNCHANGED <<daoProposals, daoTally, daoVoted, daoEffects>>
             \/ \E caller \in Accounts :
                   \/ \E action \in DaoActions : DaoCreate(caller, action)
                   \/ \E id \in DaoIds, side \in {"yes", "no"} :
                         DaoVote(caller, id, side)
                   \/ \E id \in DaoIds : DaoCancel(caller, id)
             \/ \E id \in DaoIds : DaoExecute(id)
  BY <1>6 DEF DaoNext, DaoInitialize, TransferAdmin, AcceptAdmin,
              SetGovernanceToken, SetVotingConfig, HoldersChange, daoVars
<1>7. DaoNext \/ UNCHANGED daoVars
  BY DEF SuiteNext, GovernanceSideNext, governanceSide, suiteVars
<1>8. UNCHANGED daoVars => UNCHANGED <<daoProposals, daoTally, daoVoted, daoEffects>>
  BY DEF daoVars
<1>. QED
  BY <1>1, <1>2, <1>3, <1>4, <1>5, <1>6, <1>7, <1>8

\* For any accounts, configurations and number of proposals: what the DAO
\* governs changes only in a step that executes a proposal a majority of its
\* distinct voters, at least the quorum in force, voted for; and a decided
\* proposal stays decided (execute_proposal, vote_for, vote_against,
\* cancel_proposal).
THEOREM DaoDecidesByVote == SuiteSpec => DaoDecisionsAreVoted
<1>1. SuiteInit => WorldInv /\ DaoInv
  <2>. SUFFICES ASSUME SuiteInit PROVE WorldInv /\ DaoInv
    OBVIOUS
  <2>1. WorldInv
    BY SnapshotsInitially
  <2>2. DaoInit
    BY DEF SuiteInit
  <2>3. daoProposals \in Seq(DaoRecords) /\ Len(daoProposals) = 0
    BY <2>2 DEF DaoInit
  <2>4. \A id \in DaoIds : TallyMatches(id)
    BY <2>2, FS_EmptySet DEF DaoInit, TallyMatches
  <2>. QED
    BY <2>1, <2>2, <2>3, <2>4, DaoAssumption DEF DaoInit, DaoInv
<1>2. WorldInv /\ DaoInv /\ [SuiteNext]_suiteVars
         => WorldInv' /\ DaoInv' /\ [DaoStep]_daoVars
  BY DaoSteps, SuiteWorld
<1>3. SuiteSpec => [][DaoStep]_daoVars
  BY <1>1, <1>2, PTL DEF SuiteSpec
<1>. QED
  BY <1>3, PTL DEF DaoDecisionsAreVoted, DaoStep

-----------------------------------------------------------------------------
(* The staking binding: slashes were announced *)

Quarrels == [attestor : Slashable, open : BOOLEAN, upheld : BOOLEAN]

StakeTables == [StakingContracts -> [Slashable -> Nat \cup {Absent}]]

\* The binding in force was proposed a timelock ago, and the clock, which only
\* goes back at another site, keeps it so.
BindInv ==
    /\ bound \in StakingContracts \cup {Nobody}
    /\ pendingBind \in PendingBinds \cup {Absent}
    /\ pendingBind # Absent =>
          pendingBind.effectiveAt = pendingBind.proposedAt + BindTimelock
    /\ boundSince \in Nat
    /\ bound # Nobody => site = "slashing" /\ clock >= boundSince + BindTimelock

SlashInv ==
    /\ BindInv
    /\ quarrels \in Seq(Quarrels)
    /\ Len(quarrels) <= MaxSlashDisputes
    /\ stakes \in StakeTables
    /\ processed \in [StakingContracts -> SUBSET SlashIds]

AnnouncedStep ==
    (\E s \in StakingContracts, a \in Slashable :
          stakes[s][a] # Absent /\ stakes'[s][a] < stakes[s][a]) =>
        /\ clock >= boundSince + BindTimelock
        /\ \E id \in SlashIds, a \in Slashable :
              /\ id \notin processed[bound]
              /\ processed' = [processed EXCEPT ![bound] = @ \cup {id}]
              /\ stakes' = [stakes EXCEPT ![bound][a] = stakes'[bound][a]]
              /\ stakes[bound][a] - stakes'[bound][a] \in 1 .. SlashAmount

\* One slash, of an amount a dispute is worth, in the contract bound now.
LEMMA SlashOnce ==
    ASSUME SlashInv, bound # Nobody, NEW a \in Slashable, NEW id \in SlashIds,
           NEW amount \in Int, amount <= SlashAmount, amount >= 0,
           Slash(bound, a, amount, id)
    PROVE  /\ stakes' \in StakeTables
           /\ processed' \in [StakingContracts -> SUBSET SlashIds]
           /\ AnnouncedStep
<1>. USE DEF SlashInv
<1>1. /\ bound \in StakingContracts /\ clock >= boundSince + BindTimelock
      /\ stakes[bound] \in [Slashable -> Nat \cup {Absent}]
  BY DEF BindInv, StakeTables
<1>2. id \notin processed[bound] /\ stakes[bound][a] \in Nat
  BY <1>1 DEF Slash, SlashAccepted
<1>3. CASE stakes[bound][a] = 0
  <2>1. UNCHANGED <<stakes, processed>>
    BY <1>3 DEF Slash
  <2>2. \A s \in StakingContracts, x \in Slashable :
           stakes[s][x] # Absent => ~(stakes'[s][x] < stakes[s][x])
    BY <2>1 DEF StakeTables
  <2>. QED
    BY <2>1, <2>2 DEF AnnouncedStep
<1>4. CASE stakes[bound][a] # 0
  <2>. DEFINE old == stakes[bound][a]
              new == IF amount < old THEN old - amount ELSE 0
              row == [stakes[bound] EXCEPT ![a] = new]
  <2>1. /\ stakes' = [stakes EXCEPT ![bound] = row]
        /\ processed' = [processed EXCEPT ![bound] = @ \cup {id}]
    BY <1>4 DEF Slash
  <2>2. /\ new \in Nat /\ new <= old
        /\ new < old => old - new \in 1 .. SlashAmount
    <3>1. old \in Nat \ {0} /\ amount \in Nat /\ SlashAmount \in Nat
          /\ amount <= SlashAmount
      BY <1>2, <1>4, SlashAssumption
    <3>. HIDE DEF old
    <3>. QED
      BY <3>1
  <2>. HIDE DEF new
  <2>3. /\ row \in [Slashable -> Nat \cup {Absent}] /\ row[a] = new
        /\ \A x \in Slashable \ {a} : row[x] = stakes[bound][x]
    BY <1>1, <2>2
  <2>4. stakes' \in StakeTables /\ stakes'[bound] = row
    <3>. HIDE DEF row
    <3>. QED
      BY <1>1, <2>1, <2>3 DEF StakeTables
  <2>5. processed' \in [StakingContracts -> SUBSET SlashIds]
    BY <1>1, <2>1
  <2>6. stakes' = [stakes EXCEPT ![bound][a] = stakes'[bound][a]]
    <3>1. stakes'[bound][a] = new
      BY <2>3, <2>4
    <3>. QED
      BY <2>1, <3>1
  <2>7. ASSUME NEW s \in StakingContracts, NEW x \in Slashable,
               stakes[s][x] # Absent, stakes'[s][x] < stakes[s][x]
        PROVE  new < old
    <3>1. stakes[s][x] \in Nat
      BY <2>7 DEF StakeTables
    <3>2. s = bound
      <4>1. s # bound => stakes'[s] = stakes[s]
        BY <1>1, <2>1 DEF StakeTables
      <4>. QED
        BY <2>7, <3>1, <4>1
    <3>3. x = a
      BY <2>3, <2>4, <2>7, <3>1, <3>2
    <3>. QED
      BY <2>3, <2>4, <2>7, <3>2, <3>3
  <2>8. AnnouncedStep
    <3>1. SUFFICES ASSUME NEW s \in StakingContracts, NEW x \in Slashable,
                          stakes[s][x] # Absent, stakes'[s][x] < stakes[s][x]
                   PROVE  stakes[bound][a] - stakes'[bound][a] \in 1 .. SlashAmount
      BY <1>1, <1>2, <2>1, <2>6 DEF AnnouncedStep
    <3>2. old - new \in 1 .. SlashAmount
      BY <2>2, <2>7, <3>1
    <3>. QED
      BY <2>3, <2>4, <3>2
  <2>. QED
    BY <2>4, <2>5, <2>8
<1>. QED
  BY <1>3, <1>4

LEMMA NoStakeFalls ==
    ASSUME SlashInv, UNCHANGED stakes
    PROVE  AnnouncedStep
<1>1. \A s \in StakingContracts, a \in Slashable :
         stakes[s][a] # Absent => stakes[s][a] \in Nat
  BY DEF SlashInv, StakeTables
<1>. QED
  BY <1>1 DEF AnnouncedStep

LEMMA SlashStep ==
    ASSUME WorldInv, SlashInv, [SuiteNext]_suiteVars
    PROVE  SlashInv' /\ [AnnouncedStep]_slashVars
<1>. DEFINE bindVars == <<bound, pendingBind, boundSince>>
<1>1. WorldStep /\ clock \in Nat /\ clock' \in Nat
  BY SuiteWorld DEF WorldInv, WorldStep
<1>2. ASSUME UNCHANGED bindVars
      PROVE  BindInv'
  BY <1>1, <1>2, SlashAssumption DEF SlashInv, BindInv, WorldStep
<1>3. ASSUME site = "slashing", NEW s \in StakingContracts, ProposeStakingContract(s)
      PROVE  SlashInv' /\ AnnouncedStep
  <2>. DEFINE p == [new |-> s, effectiveAt |-> clock + BindTimelock,
                    proposedAt |-> clock]
  <2>1. /\ pendingBind' = p
        /\ UNCHANGED <<site, clock, bound, boundSince, quarrels, stakes, processed>>
    BY <1>3 DEF ProposeStakingContract, protocolWorld
  <2>2. p \in PendingBinds /\ p.effectiveAt = p.proposedAt + BindTimelock
    BY <1>1, SlashAssumption DEF PendingBinds
  <2>. HIDE DEF p
  <2>3. BindInv'
    BY <2>1, <2>2 DEF SlashInv, BindInv
  <2>. QED
    BY <2>1, <2>3, NoStakeFalls DEF SlashInv
<1>4. ASSUME site = "slashing", NEW s \in StakingContracts, NEW a \in Slashable,
             Stakes(s, a)
      PROVE  SlashInv' /\ AnnouncedStep
  <2>. DEFINE row == [stakes[s] EXCEPT ![a] = FullStake]
  <2>1. /\ stakes[s][a] = Absent
        /\ stakes' = [stakes EXCEPT ![s] = row]
        /\ UNCHANGED <<bound, pendingBind, boundSince, quarrels, processed>>
    BY <1>4 DEF Stakes
  <2>2. stakes[s] \in [Slashable -> Nat \cup {Absent}]
    BY DEF SlashInv, StakeTables
  <2>3. /\ row \in [Slashable -> Nat \cup {Absent}]
        /\ \A x \in Slashable \ {a} : row[x] = stakes[s][x]
    BY <2>2, SlashAssumption
  <2>. HIDE DEF row
  <2>4. stakes' \in StakeTables /\ stakes'[s] = row
    BY <2>1, <2>3 DEF SlashInv, StakeTables
  <2>5. \A r \in StakingContracts, x \in Slashable :
           stakes[r][x] # Absent => stakes[r][x] \in Nat /\ stakes'[r][x] = stakes[r][x]
    <3>1. \A r \in StakingContracts \ {s} : stakes'[r] = stakes[r]
      BY <2>1 DEF SlashInv, StakeTables
    <3>. QED
      BY <2>1, <2>3, <2>4, <3>1 DEF SlashInv, StakeTables
  <2>6. AnnouncedStep
    BY <2>5 DEF AnnouncedStep
  <2>. QED
    BY <1>2, <2>1, <2>4, <2>6 DEF SlashInv
<1>5. ASSUME site = "slashing", CommitStakingContract
      PROVE  SlashInv' /\ AnnouncedStep
  <2>1. /\ pendingBind # Absent /\ clock >= pendingBind.effectiveAt
        /\ bound' = pendingBind.new /\ boundSince' = pendingBind.proposedAt
        /\ pendingBind' = Absent
        /\ UNCHANGED <<site, clock, quarrels, stakes, processed>>
    BY <1>5 DEF CommitStakingContract, protocolWorld
  <2>2. /\ pendingBind.new \in StakingContracts /\ pendingBind.proposedAt \in Nat
        /\ pendingBind.effectiveAt = pendingBind.proposedAt + BindTimelock
    BY <2>1 DEF SlashInv, BindInv, PendingBinds
  <2>3. BindInv'
    BY <1>5, <2>1, <2>2 DEF BindInv
  <2>. QED
    BY <2>1, <2>3, NoStakeFalls DEF SlashInv
<1>6. ASSUME CancelPendingStakingContract
      PROVE  SlashInv' /\ AnnouncedStep
  <2>1. /\ pendingBind' = Absent
        /\ UNCHANGED <<site, clock, bound, boundSince, quarrels, stakes, processed>>
    BY <1>6 DEF CancelPendingStakingContract, protocolWorld
  <2>2. BindInv'
    BY <2>1 DEF SlashInv, BindInv
  <2>. QED
    BY <2>1, <2>2, NoStakeFalls DEF SlashInv
<1>7. ASSUME NEW a \in Slashable, OpenQuarrel(a)
      PROVE  SlashInv' /\ AnnouncedStep
  <2>. DEFINE q == [attestor |-> a, open |-> TRUE, upheld |-> FALSE]
  <2>1. /\ Len(quarrels) < MaxSlashDisputes /\ quarrels' = Append(quarrels, q)
        /\ UNCHANGED <<bound, pendingBind, boundSince, stakes, processed>>
    BY <1>7 DEF OpenQuarrel
  <2>2. q \in Quarrels
    BY DEF Quarrels
  <2>. HIDE DEF q
  <2>3. quarrels' \in Seq(Quarrels) /\ Len(quarrels') <= MaxSlashDisputes
    BY <2>1, <2>2, SlashAssumption DEF SlashInv
  <2>. QED
    BY <1>2, <2>1, <2>3, NoStakeFalls DEF SlashInv
<1>8. ASSUME NEW id \in DOMAIN quarrels
      PROVE  /\ id \in SlashIds /\ quarrels[id] \in Quarrels
             /\ quarrels[id].attestor \in Slashable
  <2>1. id \in 1 .. MaxSlashDisputes /\ quarrels[id] \in Quarrels
    BY <1>8, SlashAssumption DEF SlashInv
  <2>. QED
    BY <2>1, SlashAssumption DEF Quarrels
<1>9. ASSUME NEW id \in DOMAIN quarrels, NEW upheld \in BOOLEAN,
             quarrels' = [quarrels EXCEPT ![id].open = FALSE, ![id].upheld = upheld]
      PROVE  quarrels' \in Seq(Quarrels) /\ Len(quarrels') <= MaxSlashDisputes
  <2>. DEFINE n == Len(quarrels)
              q == [quarrels[id] EXCEPT !.open = FALSE, !.upheld = upheld]
  <2>1. q \in Quarrels
    BY <1>8, <1>9 DEF Quarrels
  <2>2. /\ n \in Nat /\ n <= MaxSlashDisputes
        /\ quarrels \in [1 .. n -> Quarrels] /\ id \in 1 .. n
    BY <1>9 DEF SlashInv
  <2>3. quarrels' = [quarrels EXCEPT ![id] = q]
    BY <1>9, <2>2
  <2>. HIDE DEF n, q
  <2>4. quarrels' \in [1 .. n -> Quarrels]
    BY <2>1, <2>2, <2>3
  <2>. QED
    BY <2>2, <2>4
<1>10. ASSUME NEW id \in DOMAIN quarrels, NEW upheld \in BOOLEAN,
              ResolveQuarrel(id, upheld)
       PROVE  SlashInv' /\ AnnouncedStep
  <2>1. /\ quarrels' = [quarrels EXCEPT ![id].open = FALSE, ![id].upheld = upheld]
        /\ UNCHANGED bindVars
    BY <1>10 DEF ResolveQuarrel
  <2>2. CASE UNCHANGED <<stakes, processed>>
    BY <1>2, <1>9, <2>1, <2>2, NoStakeFalls DEF SlashInv
  <2>3. CASE /\ bound # Nobody
             /\ Slash(bound, quarrels[id].attestor, SlashAmount, id)
    <3>1. /\ stakes' \in StakeTables
          /\ processed' \in [StakingContracts -> SUBSET SlashIds]
          /\ AnnouncedStep
      BY <1>8, <2>3, SlashAssumption, SlashOnce
    <3>. QED
      BY <1>2, <1>9, <2>1, <3>1 DEF SlashInv
  <2>. QED
    BY <1>10, <2>2, <2>3 DEF ResolveQuarrel, TryTriggerSlash
<1>11. ASSUME NEW id \in DOMAIN quarrels, UpholdByWitness(id)
       PROVE  SlashInv' /\ AnnouncedStep
  <2>1. /\ quarrels' = [quarrels EXCEPT ![id].open = FALSE, ![id].upheld = TRUE]
        /\ UNCHANGED <<bound, pendingBind, boundSince, stakes, processed>>
    BY <1>11 DEF UpholdByWitness
  <2>. QED
    BY <1>2, <1>9, <2>1, NoStakeFalls DEF SlashInv
<1>12. ASSUME NEW a \in Slashable, NEW amount \in {SlashAmount - 1, SlashAmount},
              NEW id \in SlashIds, TriggerSlash(a, amount, id)
       PROVE  SlashInv' /\ AnnouncedStep
  <2>1. /\ bound # Nobody /\ amount > 0 /\ Slash(bound, a, amount, id)
        /\ UNCHANGED <<bound, pendingBind, boundSince, quarrels>>
    BY <1>12 DEF TriggerSlash
  <2>2. amount \in Int /\ amount <= SlashAmount /\ amount >= 0
    BY <2>1, SlashAssumption
  <2>3. /\ stakes' \in StakeTables
        /\ processed' \in [StakingContracts -> SUBSET SlashIds]
        /\ AnnouncedStep
    BY <2>1, <2>2, SlashOnce
  <2>. QED
    BY <1>2, <2>1, <2>3 DEF SlashInv
<1>13. CASE UNCHANGED <<bindVars, quarrels, stakes, processed>>
  BY <1>2, <1>13, NoStakeFalls DEF SlashInv
<1>14. SlashNext \/ UNCHANGED slashVars
  BY DEF SuiteNext, SubmissionSideNext, submissionSide, suiteVars
<1>15. UNCHANGED slashVars => UNCHANGED <<bindVars, quarrels, stakes, processed>>
  BY DEF slashVars
<1>16. \A kind : SetAuditLogContract(kind) =>
          UNCHANGED <<bindVars, quarrels, stakes, processed>>
  BY DEF SetAuditLogContract
<1>. HIDE DEF bindVars
<1>17. CASE SlashNext
  BY <1>3, <1>4, <1>5, <1>6, <1>7, <1>10, <1>11, <1>12, <1>13, <1>15, <1>16, <1>17
     DEF SlashNext
<1>. QED
  BY <1>13, <1>14, <1>15, <1>17

\* For any staking contracts, attestors and timelock: a slash hits one attestor,
\* by what one dispute is worth at most, in a contract that was proposed at
\* least a timelock before, and spends an id that contract had not seen
\* (resolve_dispute, trigger_slash, commit_staking_contract).
THEOREM SlashesAreAnnounced == SuiteSpec => SlashesWereAnnounced
<1>1. SuiteInit => WorldInv /\ SlashInv
  <2>. SUFFICES ASSUME SuiteInit PROVE WorldInv /\ SlashInv
    OBVIOUS
  <2>1. WorldInv
    BY SnapshotsInitially
  <2>2. SlashInit
    BY DEF SuiteInit
  <2>3. BindInv
    BY <2>2 DEF SlashInit, BindInv
  <2>4. quarrels \in Seq(Quarrels) /\ Len(quarrels) = 0
    BY <2>2 DEF SlashInit
  <2>5. stakes \in StakeTables /\ processed \in [StakingContracts -> SUBSET SlashIds]
    BY <2>2 DEF SlashInit, StakeTables
  <2>. QED
    BY <2>1, <2>3, <2>4, <2>5, SlashAssumption DEF SlashInv
<1>2. WorldInv /\ SlashInv /\ [SuiteNext]_suiteVars
         => WorldInv' /\ SlashInv' /\ [AnnouncedStep]_slashVars
  BY SlashStep, SuiteWorld
<1>3. SuiteSpec => [][AnnouncedStep]_slashVars
  BY <1>1, <1>2, PTL DEF SuiteSpec
<1>. QED
  BY <1>3, PTL DEF SlashesWereAnnounced, AnnouncedStep

-----------------------------------------------------------------------------
(* Aggregated attestations: the windows of the roots *)

RootRecords == [start : Nat, end : Nat, version : Nat]

\* Versions never go back, and within a version the windows follow each other.
InOrder(list) ==
    /\ \A i \in DOMAIN list : list[i].start < list[i].end
    /\ \A i, j \in DOMAIN list : i < j =>
          /\ list[i].version <= list[j].version
          /\ list[i].version = list[j].version => list[i].end <= list[j].start

RootsInv ==
    /\ roots \in [Portfolios -> Seq(RootRecords)]
    /\ \A p \in Portfolios : InOrder(roots[p])

LEMMA RootFields ==
    ASSUME RootsInv, NEW p \in Portfolios
    PROVE  /\ roots[p] \in Seq(RootRecords)
           /\ Len(roots[p]) \in Nat /\ DOMAIN roots[p] = 1 .. Len(roots[p])
           /\ \A i \in DOMAIN roots[p] : /\ roots[p][i].start \in Nat
                                         /\ roots[p][i].end \in Nat
                                         /\ roots[p][i].version \in Nat
<1>1. roots[p] \in Seq(RootRecords)
  BY DEF RootsInv
<1>2. \A i \in DOMAIN roots[p] : roots[p][i] \in RootRecords
  BY <1>1
<1>. QED
  BY <1>1, <1>2 DEF RootRecords

\* The newest root is the last one submitted.
LEMMA NewestIsLast ==
    ASSUME RootsInv, NEW p \in Portfolios, roots[p] # <<>>
    PROVE  Len(roots[p]) \in DOMAIN roots[p] /\ NewestRoot(p) = roots[p][Len(roots[p])]
<1>. DEFINE n == Len(roots[p])
            top == {i \in DOMAIN roots[p] :
                      \A j \in DOMAIN roots[p] :
                         roots[p][j].version <= roots[p][i].version}
<1>1. n \in Nat /\ DOMAIN roots[p] = 1 .. n /\ n # 0
  BY RootFields
<1>2. n \in top
  <2>1. SUFFICES ASSUME NEW j \in DOMAIN roots[p]
                 PROVE  roots[p][j].version <= roots[p][n].version
    BY <1>1
  <2>2. InOrder(roots[p])
    BY DEF RootsInv
  <2>3. CASE j = n
    BY <1>1, <2>3, RootFields
  <2>4. CASE j < n
    BY <1>1, <2>2, <2>4 DEF InOrder
  <2>. QED
    BY <1>1, <2>3, <2>4
<1>3. \A i \in top : i \in Int /\ i <= n
  BY <1>1
<1>4. NewestRoot(p) = roots[p][CHOOSE i \in top : \A j \in top : j <= i]
  BY DEF NewestRoot
<1>. HIDE DEF top, n
<1>. DEFINE c == CHOOSE i \in top : \A j \in top : j <= i
<1>5. \E i \in top : \A j \in top : j <= i
  BY <1>2, <1>3
<1>6. c \in top /\ \A j \in top : j <= c
  BY <1>5
<1>7. NewestRoot(p) = roots[p][c]
  BY <1>4
<1>. HIDE DEF c
<1>8. c = n
  BY <1>1, <1>2, <1>3, <1>6
<1>9. n \in DOMAIN roots[p]
  BY <1>1
<1>. QED
  BY <1>7, <1>8, <1>9 DEF n

LEMMA RootAppended ==
    ASSUME RootsInv, NEW p \in Portfolios, NEW start \in Nat, NEW end \in Nat,
           NEW version \in Nat, start < end, WindowFits(p, start, version),
           roots' = [roots EXCEPT ![p] = Append(@, [start |-> start, end |-> end,
                                                    version |-> version])]
    PROVE  RootsInv'
<1>. DEFINE r == [start |-> start, end |-> end, version |-> version]
            n == Len(roots[p])
            old == roots[p]
            new == Append(old, r)
<1>1. /\ r \in RootRecords
      /\ r.start = start /\ r.end = end /\ r.version = version
  BY DEF RootRecords
<1>2. roots' = [roots EXCEPT ![p] = new]
  OBVIOUS
<1>. HIDE DEF r
<1>3. /\ n \in Nat /\ DOMAIN old = 1 .. n /\ old \in Seq(RootRecords)
      /\ \A i \in DOMAIN old : /\ old[i].start \in Nat /\ old[i].end \in Nat
                               /\ old[i].version \in Nat
      /\ InOrder(old)
  BY RootFields DEF RootsInv
<1>4. n # 0 => /\ version >= old[n].version
               /\ version = old[n].version => start >= old[n].end
  <2>1. n # 0 => old # <<>>
    OBVIOUS
  <2>. QED
    BY <2>1, NewestIsLast DEF WindowFits
<1>. HIDE DEF n, old
<1>5. /\ new \in Seq(RootRecords) /\ DOMAIN new = 1 .. n + 1
      /\ \A i \in 1 .. n : new[i] = old[i]
      /\ new[n + 1] = r
  BY <1>1, <1>3 DEF n, old
<1>. HIDE DEF new
<1>6. \A i \in 1 .. n : /\ old[i].start < old[i].end
                        /\ old[i].version <= version
                        /\ old[i].version = version => old[i].end <= start
  <2>1. SUFFICES ASSUME NEW i \in 1 .. n
                 PROVE  /\ old[i].start < old[i].end
                        /\ old[i].version <= version
                        /\ old[i].version = version => old[i].end <= start
    OBVIOUS
  <2>2. n # 0 /\ i \in DOMAIN old /\ n \in DOMAIN old
    BY <1>3
  <2>3. old[i].start < old[i].end /\ old[n].start < old[n].end
    BY <1>3, <2>2 DEF InOrder
  <2>4. i = n \/ (/\ old[i].version <= old[n].version
                  /\ old[i].version = old[n].version => old[i].end <= old[n].start)
    <3>1. i = n \/ i < n
      BY <1>3
    <3>. QED
      BY <1>3, <2>2, <3>1 DEF InOrder
  <2>5. /\ old[i].version \in Nat /\ old[n].version \in Nat
        /\ old[i].end \in Nat /\ old[n].end \in Nat /\ old[n].start \in Nat
    BY <1>3, <2>2
  <2>. QED
    BY <1>4, <2>2, <2>3, <2>4, <2>5
<1>7. InOrder(new)
  <2>1. \A i \in DOMAIN new : new[i].start < new[i].end
    BY <1>1, <1>3, <1>5, <1>6
  <2>2. ASSUME NEW i \in DOMAIN new, NEW j \in DOMAIN new, i < j
        PROVE  /\ new[i].version <= new[j].version
               /\ new[i].version = new[j].version => new[i].end <= new[j].start
    <3>1. i \in 1 .. n
      BY <1>3, <1>5, <2>2
    <3>2. CASE j = n + 1
      BY <1>1, <1>5, <1>6, <3>1, <3>2
    <3>3. CASE j \in 1 .. n
      BY <1>3, <1>5, <2>2, <3>1, <3>3 DEF InOrder
    <3>. QED
      BY <1>3, <1>5, <3>2, <3>3
  <2>. QED
    BY <2>1, <2>2 DEF InOrder
<1>8. \A q \in Portfolios : roots'[q] = IF q = p THEN new ELSE roots[q]
  BY <1>2 DEF RootsInv
<1>9. roots' \in [Portfolios -> Seq(RootRecords)]
  BY <1>2, <1>5 DEF RootsInv
<1>. QED
  BY <1>7, <1>8, <1>9 DEF RootsInv

LEMMA RootsStep ==
    ASSUME WorldInv, RootsInv, [SuiteNext]_suiteVars
    PROVE  RootsInv'
<1>1. ASSUME NEW caller, NEW p \in Portfolios, NEW start \in 0 .. MaxClock[site],
             NEW end \in 0 .. MaxClock[site], NEW version \in RootVersions,
             SubmitAggregatedRoot(caller, p, start, end, version)
      PROVE  RootsInv'
  <2>1. start \in Nat /\ end \in Nat /\ version \in Nat
    BY AggregatedAssumption
  <2>2. /\ start < end /\ WindowFits(p, start, version)
        /\ roots' = [roots EXCEPT ![p] = Append(@, [start |-> start, end |-> end,
                                                    version |-> version])]
    BY <1>1 DEF SubmitAggregatedRoot
  <2>. QED
    BY <2>1, <2>2, RootAppended
<1>2. CASE UNCHANGED roots
  BY <1>2 DEF RootsInv
<1>3. AggregatedNext \/ UNCHANGED aggVars
  BY DEF SuiteNext, RecordSideNext, recordSide, suiteVars
<1>4. ASSUME AggregatedNext
      PROVE  \/ UNCHANGED roots
             \/ \E caller \in Accounts, p \in Portfolios,
                   start, end \in 0 .. MaxClock[site], version \in RootVersions :
                      SubmitAggregatedRoot(caller, p, start, end, version)
  <2>1. ASSUME PortfolioCalls PROVE UNCHANGED roots
    BY <2>1 DEF PortfolioCalls, AggInitialize, RegisterPortfolio
  <2>. QED
    BY <1>4, <2>1 DEF AggregatedNext, RootCalls, SetPendingAdmin, ActivateAdmin, aggVars
<1>. QED
  BY <1>1, <1>2, <1>3, <1>4 DEF aggVars

LEMMA OrderedRootsAnswer ==
    ASSUME RootsInv
    PROVE  RootWindowsDisjoint
<1>1. ASSUME NEW p \in Portfolios, NEW i \in DOMAIN roots[p], NEW j \in DOMAIN roots[p],
             i < j, roots[p][i].version = roots[p][j].version
      PROVE  roots[p][i].end <= roots[p][j].start
  BY <1>1 DEF RootsInv, InOrder
<1>2. ASSUME NEW p \in Portfolios, NEW t \in 0 .. MaxClock[site],
             NEW i \in DOMAIN roots[p], i \in CoveringRoots(p, t),
             \A j \in CoveringRoots(p, t) : j <= i
      PROVE  RootAt(p, t) = roots[p][i]
  <2>. DEFINE covering == CoveringRoots(p, t)
              top == {k \in covering : \A j \in covering :
                         roots[p][j].version <= roots[p][k].version}
  <2>1. /\ DOMAIN roots[p] \subseteq Nat /\ InOrder(roots[p])
        /\ \A k \in DOMAIN roots[p] : /\ roots[p][k].start \in Nat
                                      /\ roots[p][k].end \in Nat
                                      /\ roots[p][k].version \in Nat
    BY RootFields DEF RootsInv
  <2>2. \A k \in covering : k \in DOMAIN roots[p] /\ k <= i
    BY <1>2 DEF CoveringRoots
  <2>3. \A k \in covering : roots[p][k].version <= roots[p][i].version
    <3>1. SUFFICES ASSUME NEW k \in covering
                   PROVE  roots[p][k].version <= roots[p][i].version
      OBVIOUS
    <3>2. k = i \/ k < i
      BY <2>1, <2>2
    <3>. QED
      BY <2>1, <2>2, <3>2 DEF InOrder
  <2>4. \A k \in top : k = i
    <3>1. SUFFICES ASSUME NEW k \in top, k # i PROVE FALSE
      OBVIOUS
    <3>2. k < i /\ k \in DOMAIN roots[p]
      BY <2>1, <2>2, <3>1
    <3>3. roots[p][k].version = roots[p][i].version
      BY <1>2, <2>1, <2>3, <3>1, <3>2
    <3>4. roots[p][k].end <= roots[p][i].start
      BY <2>1, <3>2, <3>3 DEF InOrder
    <3>5. t < roots[p][k].end /\ roots[p][i].start <= t
      BY <1>2, <3>1 DEF CoveringRoots
    <3>. QED
      BY <2>1, <3>2, <3>4, <3>5
  <2>5. i \in top
    BY <1>2, <2>3
  <2>6. RootAt(p, t) = roots[p][CHOOSE k \in top : \A j \in top : k <= j]
    BY <1>2 DEF RootAt
  <2>7. i \in Nat
    BY <2>1
  <2>. HIDE DEF top
  <2>. DEFINE c == CHOOSE k \in top : \A j \in top : k <= j
  <2>8. \E k \in top : \A j \in top : k <= j
    BY <2>4, <2>5, <2>7
  <2>9. c \in top
    BY <2>8
  <2>10. c = i
    BY <2>4, <2>9
  <2>. QED
    BY <2>6, <2>10
<1>. QED
  BY <1>1, <1>2 DEF RootWindowsDisjoint

\* For any portfolios, versions and number of roots: the windows of one version
\* never overlap, and get_aggregated_root_at_timestamp answers with the root
\* submitted last among those covering the instant (submit_aggregated_root).
THEOREM RootWindowsNeverOverlap == SuiteSpec => []RootWindowsDisjoint
<1>1. SuiteInit => WorldInv /\ RootsInv
  <2>. SUFFICES ASSUME SuiteInit PROVE WorldInv /\ RootsInv
    OBVIOUS
  <2>1. WorldInv /\ roots = [p \in Portfolios |-> <<>>]
    BY SnapshotsInitially DEF SuiteInit, AggregatedInit
  <2>. QED
    BY <2>1 DEF RootsInv, InOrder
<1>2. WorldInv /\ RootsInv /\ [SuiteNext]_suiteVars => WorldInv' /\ RootsInv'
  BY RootsStep, SuiteWorld
<1>3. RootsInv => RootWindowsDisjoint
  BY OrderedRootsAnswer
<1>. QED
  BY <1>1, <1>2, <1>3, PTL DEF SuiteSpec

-----------------------------------------------------------------------------
(* The pricing curve *)

LEMMA LeastNatural ==
    ASSUME NEW S, S \subseteq Nat, S # {}
    PROVE  \E m \in S : \A x \in S : m <= x
<1>1. IsWellFoundedOn(OpToRel(<, Nat), Nat)
  BY NatLessThanWellFounded
<1>2. PICK m \in S : \A x \in S : ~(<<x, m>> \in OpToRel(<, Nat))
  BY <1>1, WFMin
<1>3. \A x \in S : ~(x < m)
  BY <1>2 DEF OpToRel
<1>. QED
  BY <1>3

LEMMA LargestOf ==
    ASSUME NEW n \in Nat, NEW S, S \subseteq 1 .. n, S # {}
    PROVE  \E m \in S : \A x \in S : x <= m
<1>. DEFINE T == {n - x : x \in S}
<1>0. \A x \in S : x \in Int /\ 1 <= x /\ x <= n
  OBVIOUS
<1>1. T \subseteq Nat /\ T # {}
  <2>1. \A x \in S : n - x \in Nat
    BY <1>0
  <2>. QED
    BY <2>1
<1>2. PICK d \in T : \A y \in T : d <= y
  <2>. HIDE DEF T
  <2>. QED
    BY <1>1, LeastNatural
<1>3. PICK m \in S : d = n - m
  BY <1>2
<1>4. \A x \in S : n - m <= n - x
  BY <1>2, <1>3
<1>5. \A x \in S : x <= m
  BY <1>0, <1>4
<1>. QED
  BY <1>5

\* The tiers' thresholds and discounts rise from each tier to the next, so from
\* each to every later one.
Ascending(list) ==
    \A i, j \in DOMAIN list : i <= j =>
        list[i].min <= list[j].min /\ list[i].discount <= list[j].discount

LEMMA TierFields ==
    ASSUME NEW list \in Seq(TierRecords)
    PROVE  /\ Len(list) \in Nat /\ DOMAIN list = 1 .. Len(list)
           /\ \A i \in DOMAIN list : list[i].min \in Int /\ list[i].discount \in Nat
<1>1. \A i \in DOMAIN list : list[i] \in TierRecords
  OBVIOUS
<1>. QED
  BY <1>1 DEF TierRecords

LEMMA ValidTiersAscend ==
    ASSUME NEW list \in Seq(TierRecords), ValidTiers(list)
    PROVE  Ascending(list)
<1>. DEFINE n == Len(list)
<1>1. /\ n \in Nat /\ DOMAIN list = 1 .. n
      /\ \A i \in 1 .. n : list[i].min \in Int /\ list[i].discount \in Nat
  BY TierFields
<1>2. \A i \in 1 .. n : i > 1 => /\ list[i].min > list[i - 1].min
                                 /\ list[i].discount >= list[i - 1].discount
  BY <1>1 DEF ValidTiers
<1>. HIDE DEF n
<1>3. ASSUME NEW i \in 1 .. n
      PROVE  \A j \in 1 .. n : i <= j =>
                list[i].min <= list[j].min /\ list[i].discount <= list[j].discount
  <2>. DEFINE Fails == {j \in 1 .. n : /\ i <= j
                                       /\ ~(/\ list[i].min <= list[j].min
                                            /\ list[i].discount <= list[j].discount)}
  <2>1. SUFFICES ASSUME Fails # {} PROVE FALSE
    OBVIOUS
  <2>2. PICK j \in Fails : \A x \in Fails : j <= x
    <3>1. Fails \subseteq Nat
      BY <1>1
    <3>. HIDE DEF Fails
    <3>. QED
      BY <2>1, <3>1, LeastNatural
  <2>3. j # i
    BY <1>1, <2>2
  <2>4. j \in 1 .. n /\ i < j /\ j > 1
    BY <1>1, <2>2, <2>3
  <2>5. j - 1 \in 1 .. n /\ i <= j - 1 /\ j - 1 \notin Fails
    BY <1>1, <2>2, <2>4
  <2>6. list[i].min <= list[j - 1].min /\ list[i].discount <= list[j - 1].discount
    BY <2>5
  <2>7. list[j].min > list[j - 1].min /\ list[j].discount >= list[j - 1].discount
    BY <1>2, <2>4
  <2>8. list[i].min <= list[j].min /\ list[i].discount <= list[j].discount
    BY <1>1, <2>4, <2>5, <2>6, <2>7
  <2>. QED
    BY <2>2, <2>8
<1>. QED
  BY <1>1, <1>3 DEF Ascending

\* The tiers a revenue reaches that give a discount.
Reached(list, revenue) ==
    {i \in DOMAIN list : revenue >= list[i].min /\ list[i].discount > 0}

TierList == IF tiers = Absent THEN <<>> ELSE tiers

CurveInv ==
    /\ policy # Absent => /\ policy \in PolicyRecords
                          /\ policy.min <= policy.max
                          /\ policy.base \in policy.min .. policy.max
    /\ TierList \in Seq(TierRecords)
    /\ Ascending(TierList)

\* The discount found is the largest of those reached, or 0.
LEMMA DiscountFound ==
    ASSUME CurveInv, NEW revenue \in Int
    PROVE  /\ TierFound(revenue).discount \in Nat
           /\ \A j \in Reached(TierList, revenue) :
                 TierList[j].discount <= TierFound(revenue).discount
           /\ \/ Reached(TierList, revenue) = {} /\ TierFound(revenue).discount = 0
              \/ \E j \in Reached(TierList, revenue) :
                    TierFound(revenue).discount = TierList[j].discount
<1>. DEFINE list == TierList
            reached == Reached(list, revenue)
            best == {i \in reached : \A j \in reached :
                       \/ list[j].discount < list[i].discount
                       \/ list[j].discount = list[i].discount /\ i <= j}
            c == CHOOSE i \in best : TRUE
<1>1. TierFound(revenue) = IF best = {} THEN [discount |-> 0, level |-> 0]
                           ELSE [discount |-> list[c].discount, level |-> c]
  BY DEF TierFound, TierList, Reached
<1>2. /\ Len(list) \in Nat /\ DOMAIN list = 1 .. Len(list)
      /\ \A i \in DOMAIN list : list[i].min \in Int /\ list[i].discount \in Nat
  BY TierFields DEF CurveInv
<1>3. reached \subseteq DOMAIN list
  BY DEF Reached
<1>4. ASSUME reached # {} PROVE best # {}
  <2>1. PICK m \in reached : \A x \in reached : x <= m
    <3>1. reached \subseteq 1 .. Len(list)
      BY <1>2, <1>3
    <3>. HIDE DEF reached
    <3>. QED
      BY <1>2, <1>4, <3>1, LargestOf
  <2>2. \A x \in reached : list[x].discount <= list[m].discount
    BY <1>3, <2>1 DEF CurveInv, Ascending
  <2>. DEFINE E == {x \in reached : list[x].discount = list[m].discount}
  <2>3. PICK k \in E : \A x \in E : k <= x
    <3>1. E \subseteq Nat /\ E # {}
      BY <1>2, <1>3, <2>1
    <3>. HIDE DEF E
    <3>. QED
      BY <3>1, LeastNatural
  <2>. HIDE DEF reached, list
  <2>4. k \in reached /\ list[k].discount = list[m].discount
    BY <2>3
  <2>5. ASSUME NEW j \in reached
        PROVE  \/ list[j].discount < list[k].discount
               \/ list[j].discount = list[k].discount /\ k <= j
    <3>1. list[j].discount \in Nat /\ list[m].discount \in Nat
      BY <1>2, <1>3, <2>1, <2>5
    <3>2. CASE list[j].discount = list[m].discount
      BY <2>3, <2>4, <2>5, <3>2
    <3>3. CASE list[j].discount # list[m].discount
      BY <2>2, <2>4, <2>5, <3>1, <3>3
    <3>. QED
      BY <3>2, <3>3
  <2>. QED
    BY <2>4, <2>5
<1>5. CASE reached = {}
  <2>1. TierFound(revenue).discount = 0
    BY <1>1, <1>5
  <2>. QED
    BY <1>5, <2>1
<1>6. CASE reached # {}
  <2>1. c \in best
    BY <1>4, <1>6
  <2>2. TierFound(revenue).discount = list[c].discount
    BY <1>1, <1>4, <1>6
  <2>. HIDE DEF c
  <2>3. c \in reached /\ \A j \in reached : list[j].discount <= list[c].discount
    BY <1>2, <1>3, <2>1
  <2>4. list[c].discount \in Nat
    BY <1>2, <1>3, <2>3
  <2>. QED
    BY <2>2, <2>3, <2>4
<1>. QED
  BY <1>5, <1>6

\* A higher revenue finds no smaller discount, and a revenue finds the discount
\* of the last tier it reaches.
LEMMA DiscountRises ==
    ASSUME CurveInv, NEW r \in Int, NEW q \in Int, q >= r
    PROVE  TierFound(r).discount <= TierFound(q).discount
<1>1. Reached(TierList, r) \subseteq Reached(TierList, q)
  <2>1. \A i \in DOMAIN TierList : TierList[i].min \in Int
    BY TierFields DEF CurveInv
  <2>. QED
    BY <2>1 DEF Reached
<1>2. TierFound(r).discount \in Nat /\ TierFound(q).discount \in Nat
  BY DiscountFound
<1>3. CASE TierFound(r).discount = 0
  BY <1>2, <1>3
<1>4. CASE \E j \in Reached(TierList, r) : TierFound(r).discount = TierList[j].discount
  <2>1. PICK j \in Reached(TierList, r) : TierFound(r).discount = TierList[j].discount
    BY <1>4
  <2>2. TierList[j].discount <= TierFound(q).discount
    BY <1>1, <2>1, DiscountFound
  <2>. QED
    BY <2>1, <2>2
<1>. QED
  BY <1>3, <1>4, DiscountFound

LEMMA LastTierDecides ==
    ASSUME CurveInv, NEW r \in Int, NEW i \in DOMAIN TierList,
           r >= TierList[i].min,
           i = Len(TierList) \/ r < TierList[i + 1].min
    PROVE  TierFound(r).discount = TierList[i].discount
<1>1. /\ Len(TierList) \in Nat /\ DOMAIN TierList = 1 .. Len(TierList)
      /\ \A k \in DOMAIN TierList :
            TierList[k].min \in Int /\ TierList[k].discount \in Nat
      /\ Ascending(TierList)
  BY TierFields DEF CurveInv
<1>2. ASSUME NEW j \in Reached(TierList, r)
      PROVE  TierList[j].discount <= TierList[i].discount
  <2>1. j \in DOMAIN TierList /\ r >= TierList[j].min
    BY <1>2 DEF Reached
  <2>2. j <= i
    <3>1. SUFFICES ASSUME j > i PROVE FALSE
      BY <1>1, <2>1
    <3>2. i + 1 \in DOMAIN TierList /\ i + 1 <= j /\ i # Len(TierList)
      BY <1>1, <2>1, <3>1
    <3>3. TierList[i + 1].min <= TierList[j].min
      BY <1>1, <2>1, <3>2 DEF Ascending
    <3>4. TierList[i + 1].min \in Int /\ TierList[j].min \in Int
      BY <1>1, <2>1, <3>2
    <3>. QED
      BY <2>1, <3>2, <3>3, <3>4
  <2>. QED
    BY <1>1, <2>1, <2>2 DEF Ascending
<1>3. TierList[i].discount > 0 => i \in Reached(TierList, r)
  BY DEF Reached
<1>4. TierFound(r).discount \in Nat /\ TierList[i].discount \in Nat
  BY <1>1, DiscountFound
<1>5. TierList[i].discount <= TierFound(r).discount
  BY <1>3, <1>4, DiscountFound
<1>6. TierFound(r).discount <= TierList[i].discount
  BY <1>2, <1>4, DiscountFound
<1>. QED
  BY <1>4, <1>5, <1>6

\* The rate stays in the policy's bounds, falls with the discount and rises with
\* the premium.
AprFollows(p, m, n, d, e) ==
    /\ Apr(p, m, d) \in p.min .. p.max
    /\ e >= d => Apr(p, m, e) <= Apr(p, m, d)
    /\ n >= m => Apr(p, n, d) >= Apr(p, m, d)

LEMMA AprBounds ==
    ASSUME NEW p \in PolicyRecords, p.min <= p.max,
           NEW m \in Nat, NEW n \in Nat, NEW d \in Nat, NEW e \in Nat
    PROVE  AprFollows(p, m, n, d, e)
<1>1. p.min \in Nat /\ p.max \in Nat /\ p.base \in Nat
  BY DEF PolicyRecords
<1>2. Apr(p, m, d) \in p.min .. p.max
  BY <1>1 DEF Apr
<1>3. e >= d => Apr(p, m, e) <= Apr(p, m, d)
  BY <1>1 DEF Apr
<1>4. n >= m => Apr(p, n, d) >= Apr(p, m, d)
  BY <1>1 DEF Apr
<1>. QED
  BY <1>2, <1>3, <1>4 DEF AprFollows

LEMMA CurvePrices ==
    ASSUME CurveInv
    PROVE  PricingFollowsCurve
<1>1. SUFFICES ASSUME NEW r \in CurveRevenues, NEW s \in Scores, CanPrice(s)
               PROVE  /\ Price(r, s).apr \in policy.min .. policy.max
                      /\ \A q \in CurveRevenues :
                            q >= r => Price(q, s).apr <= Price(r, s).apr
                      /\ \A t \in Scores : t >= s /\ CanPrice(t) =>
                            Price(r, t).apr >= Price(r, s).apr
                      /\ tiers # Absent => \A i \in DOMAIN tiers :
                            /\ r >= tiers[i].min
                            /\ (i = Len(tiers) \/ r < tiers[i + 1].min)
                            => Price(r, s).discount = tiers[i].discount
  BY DEF PricingFollowsCurve
<1>2. policy \in PolicyRecords /\ policy.min <= policy.max /\ policy.premium \in Nat
  BY <1>1 DEF CurveInv, CanPrice, PolicyRecords
<1>3. r \in Int /\ s \in Nat
  BY CurveAssumption
<1>4. ASSUME NEW x \in Int, NEW t \in Nat
      PROVE  /\ TierFound(x).discount \in Nat /\ t * policy.premium \in Nat
             /\ Price(x, t).apr =
                   Apr(policy, t * policy.premium, TierFound(x).discount)
             /\ Price(x, t).discount = TierFound(x).discount
  BY <1>2, DiscountFound DEF Price
<1>. DEFINE m == s * policy.premium
            d == TierFound(r).discount
<1>5. Price(r, s).apr \in policy.min .. policy.max
  <2>1. m \in Nat /\ d \in Nat /\ Price(r, s).apr = Apr(policy, m, d)
    BY <1>3, <1>4
  <2>. HIDE DEF m, d
  <2>2. AprFollows(policy, m, m, d, d)
    BY <1>2, <2>1, AprBounds
  <2>. QED
    BY <2>1, <2>2 DEF AprFollows
<1>6. ASSUME NEW q \in CurveRevenues, q >= r
      PROVE  Price(q, s).apr <= Price(r, s).apr
  <2>1. q \in Int
    BY CurveAssumption
  <2>2. TierFound(r).discount <= TierFound(q).discount
    BY <1>3, <1>6, <2>1, DiscountRises
  <2>. DEFINE e == TierFound(q).discount
  <2>3. /\ m \in Nat /\ d \in Nat /\ e \in Nat /\ e >= d
        /\ Price(r, s).apr = Apr(policy, m, d)
        /\ Price(q, s).apr = Apr(policy, m, e)
    BY <1>3, <1>4, <2>1, <2>2
  <2>. HIDE DEF m, d, e
  <2>4. AprFollows(policy, m, m, d, e)
    BY <1>2, <2>3, AprBounds
  <2>. QED
    BY <2>3, <2>4 DEF AprFollows
<1>7. ASSUME NEW t \in Scores, t >= s
      PROVE  Price(r, t).apr >= Price(r, s).apr
  <2>1. t \in Nat
    BY CurveAssumption
  <2>. DEFINE n == t * policy.premium
  <2>2. n >= m
    BY <1>2, <1>3, <1>7, <2>1
  <2>3. /\ m \in Nat /\ n \in Nat /\ d \in Nat
        /\ Price(r, s).apr = Apr(policy, m, d)
        /\ Price(r, t).apr = Apr(policy, n, d)
    BY <1>3, <1>4, <2>1
  <2>. HIDE DEF m, d, n
  <2>4. AprFollows(policy, m, n, d, d)
    BY <1>2, <2>3, AprBounds
  <2>. QED
    BY <2>2, <2>3, <2>4 DEF AprFollows
<1>8. ASSUME tiers # Absent, NEW i \in DOMAIN tiers, r >= tiers[i].min,
             i = Len(tiers) \/ r < tiers[i + 1].min
      PROVE  Price(r, s).discount = tiers[i].discount
  <2>1. TierList = tiers
    BY <1>8 DEF TierList
  <2>2. TierFound(r).discount = TierList[i].discount
    BY <1>3, <1>8, <2>1, LastTierDecides
  <2>. QED
    BY <1>3, <1>4, <2>1, <2>2
<1>. QED
  BY <1>5, <1>6, <1>7, <1>8

\* For any policies and tier lists: within the policy's bounds, falling with the
\* revenue, rising with the anomaly score, at the discount of the last tier
\* reached (set_pricing_policy, set_revenue_tiers, calculate_pricing).
THEOREM PricesFollowCurve == SuiteSpec => []PricingFollowsCurve
<1>1. SuiteInit => CurveInv
  BY DEF SuiteInit, CurveInit, CurveInv, TierList, Ascending
<1>2. CurveInv /\ [SuiteNext]_suiteVars => CurveInv'
  <2>. SUFFICES ASSUME CurveInv, [SuiteNext]_suiteVars PROVE CurveInv'
    OBVIOUS
  <2>1. CurveNext \/ UNCHANGED curveVars
    BY DEF SuiteNext, LendingSideNext, lendingSide, suiteVars
  <2>2. ASSUME NEW admin, NEW p \in Policies, SetPricingPolicy(admin, p)
        PROVE  CurveInv'
    <3>1. /\ policy' = p /\ UNCHANGED tiers
          /\ p.min <= p.max /\ p.base \in p.min .. p.max
      BY <2>2 DEF SetPricingPolicy
    <3>2. TierList' = TierList /\ p \in PolicyRecords
      BY <3>1, CurveAssumption DEF TierList
    <3>. QED
      BY <3>1, <3>2 DEF CurveInv
  <2>3. ASSUME NEW admin, NEW list \in TierLists, SetRevenueTiers(admin, list)
        PROVE  CurveInv'
    <3>1. tiers' = list /\ ValidTiers(list) /\ UNCHANGED policy
      BY <2>3 DEF SetRevenueTiers
    <3>2. list \in Seq(TierRecords)
      BY CurveAssumption
    <3>3. Ascending(list)
      BY <3>1, <3>2, ValidTiersAscend
    <3>4. TierList' \in {list, <<>>}
      BY <3>1 DEF TierList
    <3>5. <<>> \in Seq(TierRecords) /\ Ascending(<<>>)
      BY DEF Ascending
    <3>. QED
      BY <3>1, <3>2, <3>3, <3>4, <3>5 DEF CurveInv
  <2>4. ASSUME UNCHANGED <<policy, tiers>> PROVE CurveInv'
    BY <2>4 DEF CurveInv, TierList
  <2>. QED
    BY <2>1, <2>2, <2>3, <2>4 DEF CurveNext, CurveInitialize,
       SetAttestationContract, curveVars
<1>3. CurveInv => PricingFollowsCurve
  BY CurvePrices
<1>. QED
  BY <1>1, <1>2, <1>3, PTL DEF SuiteSpec

-----------------------------------------------------------------------------
(* The attestation registry: a rollback is a real one *)

Deployments == [impl : Implementations, version : Nat]

RegistryInv ==
    /\ regAdmin \in Accounts \cup {Nobody}
    /\ regAdmin = Nobody => previous = Absent
    /\ regAdmin # Nobody => current \in Deployments
    /\ previous \in Deployments \cup {Absent}
    /\ RollbackTargetDiffers

LEMMA RegistryStep ==
    ASSUME RegistryInv, [SuiteNext]_suiteVars
    PROVE  RegistryInv'
<1>. USE DEF RegistryInv
<1>1. \A impl \in Implementations, version \in RegistryVersions :
         Deployed(impl, version) \in Deployments
  BY RegistryAssumption DEF Deployed, Deployments
<1>2. ASSUME NEW caller \in Accounts, NEW impl \in Implementations,
             NEW version \in RegistryVersions, RegInitialize(caller, impl, version)
      PROVE  RegistryInv'
  BY <1>1, <1>2, ProtocolAssumption DEF RegInitialize, RollbackTargetDiffers
<1>3. ASSUME NEW impl \in Implementations, NEW version \in RegistryVersions,
             Upgrade(impl, version)
      PROVE  RegistryInv'
  <2>1. /\ current \in Deployments /\ previous' = current
        /\ current' = Deployed(impl, version) /\ UNCHANGED regAdmin
        /\ impl # current.impl /\ version > current.version /\ regAdmin # Nobody
    BY <1>3 DEF Upgrade, ValidateImplementation
  <2>2. /\ current'.impl = impl /\ current'.version = version
        /\ current.version \in Nat /\ version \in Nat
    BY <2>1, RegistryAssumption DEF Deployed, Deployments
  <2>3. RollbackTargetDiffers'
    BY <2>1, <2>2 DEF RollbackTargetDiffers
  <2>. QED
    BY <1>1, <2>1, <2>3
<1>4. ASSUME Rollback
      PROVE  RegistryInv'
  BY <1>4 DEF Rollback, RollbackTargetDiffers
<1>5. ASSUME NEW new \in Accounts, RegTransferAdmin(new)
      PROVE  RegistryInv'
  BY <1>5, ProtocolAssumption DEF RegTransferAdmin, RollbackTargetDiffers
<1>6. ASSUME UNCHANGED <<regAdmin, current, previous>>
      PROVE  RegistryInv'
  BY <1>6 DEF RollbackTargetDiffers
<1>7. RegistryNext \/ UNCHANGED registryVars
  BY DEF SuiteNext, RecordSideNext, recordSide, suiteVars
<1>. HIDE DEF RegistryInv
<1>. QED
  BY <1>2, <1>3, <1>4, <1>5, <1>6, <1>7
     DEF RegistryNext, RegisterAttestationKey, registryVars

-----------------------------------------------------------------------------
(* Lists that name each member once *)

\* A list with a new member at its end.
Enlisted(S, list, e) ==
    /\ Append(list, e) \in Seq(S)
    /\ Range(Append(list, e)) = Range(list) \cup {e}
    /\ IsInjective(list) /\ e \notin Range(list) => IsInjective(Append(list, e))

LEMMA ListGrows ==
    ASSUME NEW S, NEW list \in Seq(S), NEW e \in S
    PROVE  Enlisted(S, list, e)
<1>. DEFINE new == Append(list, e)
            n == Len(list)
<1>1. /\ n \in Nat /\ DOMAIN list = 1 .. n /\ DOMAIN new = 1 .. n + 1
      /\ new \in Seq(S) /\ \A i \in 1 .. n : new[i] = list[i]
      /\ new[n + 1] = e
  OBVIOUS
<1>. HIDE DEF n, new
<1>2. Range(new) = Range(list) \cup {e}
  <2>1. 1 .. n + 1 = 1 .. n \cup {n + 1}
    BY <1>1
  <2>. QED
    BY <1>1, <2>1 DEF Range
<1>3. ASSUME IsInjective(list), e \notin Range(list)
      PROVE  IsInjective(new)
  <2>1. SUFFICES ASSUME NEW i \in 1 .. n + 1, NEW j \in 1 .. n + 1, new[i] = new[j]
                 PROVE  i = j
    BY <1>1 DEF IsInjective
  <2>2. \A k \in 1 .. n : list[k] # e
    BY <1>1, <1>3 DEF Range
  <2>3. CASE i \in 1 .. n /\ j \in 1 .. n
    BY <1>1, <1>3, <2>1, <2>3 DEF IsInjective
  <2>4. CASE i = n + 1 \/ j = n + 1
    BY <1>1, <2>1, <2>2, <2>4
  <2>. QED
    BY <1>1, <2>3, <2>4
<1>. QED
  BY <1>1, <1>2, <1>3 DEF Enlisted, new

-----------------------------------------------------------------------------
(* The lender access list and its consumer *)

LenderInv ==
    /\ lenders \in [Accounts -> LenderRecords \cup {Absent}]
    /\ lenderList \in Seq(Accounts)
    /\ IsInjective(lenderList)
    /\ Range(lenderList) = {a \in Accounts : lenders[a] # Absent}
    /\ accAdmin = Nobody => /\ lenderList = <<>>
                            /\ accGov \cup accDelegates = {}
    /\ accAdmin \in Accounts \cup {Nobody}
    /\ verified \in [Reports -> Int \cup {Absent}]
    /\ anomaly \subseteq Reports
    /\ AnomalyIsCurrent

\* The active lenders are the ones is_allowed accepts.
LEMMA ListedLendersAllowed ==
    ASSUME LenderInv
    PROVE  LendersListed
<1>1. ASSUME NEW a \in Accounts, lenders[a] # Absent
      PROVE  lenders[a].tier \in Nat
  BY <1>1 DEF LenderInv, LenderRecords
<1>2. \A a \in Accounts : IsAllowed(a, 1) <=> a \in ActiveLenders
  BY <1>1 DEF LenderInv, IsAllowed, ActiveLenders
<1>3. ActiveLenders \subseteq Accounts
  BY DEF LenderInv, ActiveLenders
<1>4. ActiveLenders = {a \in Accounts : IsAllowed(a, 1)}
  BY <1>2, <1>3
<1>. QED
  BY <1>4 DEF LenderInv, LendersListed

LEMMA LenderStep ==
    ASSUME LenderInv, [SuiteNext]_suiteVars
    PROVE  LenderInv'
<1>. USE DEF LenderInv
<1>1. ASSUME NEW admin \in Accounts, AccInitialize(admin)
      PROVE  LenderInv'
  <2>1. /\ accAdmin' = admin /\ UNCHANGED <<lenders, lenderList, verified, anomaly>>
    BY <1>1 DEF AccInitialize, consumerVars
  <2>. QED
    BY <2>1, ProtocolAssumption DEF AnomalyIsCurrent
<1>2. ASSUME NEW caller, NEW new \in Accounts, AccTransferAdmin(caller, new)
      PROVE  LenderInv'
  BY <1>2, ProtocolAssumption DEF AccTransferAdmin, consumerVars, AnomalyIsCurrent
<1>3. ASSUME NEW caller \in Accounts, NEW account, NEW role, NEW granted,
             AccSetRole(caller, account, role, granted)
      PROVE  LenderInv'
  BY <1>3, ProtocolAssumption DEF AccSetRole, consumerVars, AnomalyIsCurrent
<1>4. ASSUME NEW caller \in Accounts, NEW lender \in Accounts, NEW tier \in Tiers,
             SetLender(caller, lender, tier)
      PROVE  LenderInv'
  <2>. DEFINE r == [tier |-> tier, status |-> IF tier = 0 THEN "removed" ELSE "active"]
  <2>1. /\ lenders' = [lenders EXCEPT ![lender] = r]
        /\ caller \in accGov \cup accDelegates
        /\ lenderList' = IF lenders[lender] = Absent
                         THEN AppendLenderToList(lender) ELSE lenderList
        /\ UNCHANGED <<accAdmin, accGov, accDelegates, verified, anomaly>>
    BY <1>4 DEF SetLender, RequireLenderAdmin, consumerVars
  <2>2. r \in LenderRecords /\ r # Absent
    BY LenderAssumption DEF LenderRecords
  <2>. HIDE DEF r
  <2>3. /\ lenders' \in [Accounts -> LenderRecords \cup {Absent}]
        /\ {a \in Accounts : lenders'[a] # Absent} =
              {a \in Accounts : lenders[a] # Absent} \cup {lender}
    BY <2>1, <2>2
  <2>4. /\ lenderList' \in Seq(Accounts) /\ IsInjective(lenderList')
        /\ Range(lenderList') = Range(lenderList) \cup {lender}
    <3>1. CASE lenders[lender] = Absent
      <4>1. lender \notin Range(lenderList) /\ lenderList' = Append(lenderList, lender)
        BY <2>1, <3>1 DEF AppendLenderToList
      <4>2. Enlisted(Accounts, lenderList, lender)
        BY ListGrows
      <4>. QED
        BY <4>1, <4>2 DEF Enlisted
    <3>2. CASE lenders[lender] # Absent
      BY <2>1, <3>2
    <3>. QED
      BY <3>1, <3>2
  <2>5. accAdmin # Nobody
    BY <2>1
  <2>. QED
    BY <2>1, <2>3, <2>4, <2>5 DEF AnomalyIsCurrent
<1>5. ASSUME NEW caller \in Accounts, NEW lender \in Accounts,
             RemoveLender(caller, lender)
      PROVE  LenderInv'
  <2>. DEFINE r == [tier |-> 0, status |-> "removed"]
  <2>1. /\ lenders' = [lenders EXCEPT ![lender] = r] /\ lenders[lender] # Absent
        /\ UNCHANGED <<accAdmin, accGov, accDelegates, lenderList, verified, anomaly>>
    BY <1>5 DEF RemoveLender, consumerVars
  <2>2. r \in LenderRecords /\ r # Absent
    BY LenderAssumption DEF LenderRecords
  <2>. HIDE DEF r
  <2>3. /\ lenders' \in [Accounts -> LenderRecords \cup {Absent}]
        /\ {a \in Accounts : lenders'[a] # Absent} =
              {a \in Accounts : lenders[a] # Absent}
    BY <2>1, <2>2
  <2>. QED
    BY <2>1, <2>3 DEF AnomalyIsCurrent
<1>6. ASSUME NEW k \in Reports, NEW revenue \in ReportRevenues, Record(k, revenue)
      PROVE  LenderInv'
  <2>1. /\ verified' = [verified EXCEPT ![k] = revenue] /\ UNCHANGED accessVars
        /\ anomaly' = IF revenue < 0 THEN anomaly \cup {k} ELSE anomaly \ {k}
    BY <1>6 DEF Record, AnomalyAfter
  <2>2. revenue \in Int /\ revenue # Absent
    BY LenderAssumption
  <2>3. verified' \in [Reports -> Int \cup {Absent}] /\ anomaly' \subseteq Reports
    BY <2>1, <2>2
  <2>4. AnomalyIsCurrent'
    BY <2>1, <2>2 DEF AnomalyIsCurrent
  <2>. QED
    BY <2>1, <2>3, <2>4 DEF accessVars
<1>7. ASSUME NEW admin, NEW k, ClearAnomaly(admin, k)
      PROVE  LenderInv'
  BY <1>7 DEF ClearAnomaly, accessVars, AnomalyIsCurrent
<1>8. ASSUME UNCHANGED <<accessVars, verified, anomaly>>
      PROVE  LenderInv'
  BY <1>8 DEF accessVars, AnomalyIsCurrent
<1>. HIDE DEF LenderInv
<1>9. ASSUME EnrolCalls \/ RoleCalls PROVE LenderInv'
  BY <1>1, <1>2, <1>3, <1>4, <1>5, <1>9 DEF EnrolCalls, RoleCalls
<1>10. ASSUME ConsumerCalls PROVE LenderInv'
  <2>1. ASSUME NEW caller, NEW k \in Reports, NEW revenue \in ReportRevenues,
               \/ SubmitRevenue(caller, k, revenue)
               \/ SubmitRevenueUnchecked(caller, k, revenue)
        PROVE  LenderInv'
    BY <1>6, <2>1 DEF SubmitRevenue, SubmitRevenueUnchecked
  <2>2. ASSUME NEW caller, NEW list, NEW k, NEW isDisputed,
               \/ ConInitialize(caller) \/ SetAccessList(caller, list)
               \/ SetDispute(caller, k, isDisputed) \/ CoreStep(k)
        PROVE  LenderInv'
    BY <1>8, <2>2 DEF ConInitialize, SetAccessList, SetDispute, CoreStep, consumerVars
  <2>. QED
    BY <1>7, <1>10, <2>1, <2>2 DEF ConsumerCalls
<1>11. LenderNext \/ UNCHANGED lenderVars
  BY DEF SuiteNext, LendingSideNext, lendingSide, suiteVars
<1>. QED
  BY <1>8, <1>9, <1>10, <1>11 DEF LenderNext, lenderVars, consumerVars

-----------------------------------------------------------------------------
(* The integration registry lists its providers *)

IntegrationInv ==
    /\ nsList \in Seq(Namespaces)
    /\ providers \in [Namespaces \X ProviderIds -> Provider \cup {Absent}]
    /\ providerList \in [Namespaces -> Seq(ProviderIds)]
    /\ intAdmin \in Accounts \cup {Nobody}
    /\ ProvidersListed

\* A provider moved or rewritten stays a provider.
LEMMA ProviderRewritten ==
    ASSUME IntegrationInv, NEW k \in Namespaces \X ProviderIds, NEW p \in Provider,
           providers[k] # Absent, providers' = [providers EXCEPT ![k] = p],
           UNCHANGED <<intAdmin, nsList, providerList>>
    PROVE  IntegrationInv'
<1>1. providers' \in [Namespaces \X ProviderIds -> Provider \cup {Absent}]
  BY DEF IntegrationInv
<1>2. \A j \in Namespaces \X ProviderIds : providers'[j] # Absent <=> providers[j] # Absent
  BY IntegrationAssumption DEF IntegrationInv
<1>3. ASSUME NEW ns \in Namespaces
      PROVE  {id \in ProviderIds : providers'[<<ns, id>>] # Absent} =
                {id \in ProviderIds : providers[<<ns, id>>] # Absent}
  BY <1>2
<1>. QED
  BY <1>1, <1>3 DEF IntegrationInv, ProvidersListed

LEMMA IntegrationStep ==
    ASSUME IntegrationInv, [SuiteNext]_suiteVars
    PROVE  IntegrationInv'
<1>1. ASSUME NEW caller \in Accounts, NEW account \in Accounts,
             NEW ns \in Namespaces, RegisterNamespace(caller, ns, account)
      PROVE  IntegrationInv'
  <2>1. /\ nsList' = IF ns \in Range(nsList) THEN nsList ELSE Append(nsList, ns)
        /\ UNCHANGED <<intAdmin, providers, providerList>>
    BY <1>1 DEF RegisterNamespace
  <2>2. nsList \in Seq(Namespaces) /\ IsInjective(nsList)
    BY DEF IntegrationInv, ProvidersListed
  <2>3. Enlisted(Namespaces, nsList, ns)
    BY <2>2, ListGrows
  <2>4. nsList' \in Seq(Namespaces) /\ IsInjective(nsList')
    BY <2>1, <2>2, <2>3 DEF Enlisted
  <2>. QED
    BY <2>1, <2>4 DEF IntegrationInv, ProvidersListed
<1>2. ASSUME NEW caller \in Accounts, NEW ns \in Namespaces, NEW id \in ProviderIds,
             NEW metadata \in ProviderData, RegisterProvider(caller, ns, id, metadata)
      PROVE  IntegrationInv'
  <2>. DEFINE p == [status |-> "registered", metadata |-> metadata, by |-> caller]
              k == <<ns, id>>
  <2>1. /\ providers' = [providers EXCEPT ![k] = p] /\ providers[k] = Absent
        /\ providerList' = [providerList EXCEPT ![ns] = Append(@, id)]
        /\ UNCHANGED <<intAdmin, nsList>>
    BY <1>2 DEF RegisterProvider, NotRegistered
  <2>2. p \in Provider /\ p # Absent /\ k \in Namespaces \X ProviderIds
    BY IntegrationAssumption DEF Provider
  <2>. HIDE DEF p
  <2>3. /\ providers' \in [Namespaces \X ProviderIds -> Provider \cup {Absent}]
        /\ providers'[k] # Absent
        /\ \A j \in Namespaces \X ProviderIds :
              j # k => providers'[j] = providers[j]
    BY <2>1, <2>2 DEF IntegrationInv
  <2>4. /\ providerList[ns] \in Seq(ProviderIds) /\ IsInjective(providerList[ns])
        /\ Range(providerList[ns]) = {i \in ProviderIds : providers[<<ns, i>>] # Absent}
    BY DEF IntegrationInv, ProvidersListed
  <2>5. id \notin Range(providerList[ns])
    BY <2>1, <2>4
  <2>6. Enlisted(ProviderIds, providerList[ns], id)
    BY <2>4, ListGrows
  <2>7. /\ providerList' \in [Namespaces -> Seq(ProviderIds)]
        /\ IsInjective(providerList'[ns])
        /\ Range(providerList'[ns]) = Range(providerList[ns]) \cup {id}
        /\ \A n \in Namespaces : n # ns => providerList'[n] = providerList[n]
    BY <2>1, <2>4, <2>5, <2>6 DEF Enlisted, IntegrationInv
  <2>8. Range(providerList'[ns]) = {i \in ProviderIds : providers'[<<ns, i>>] # Absent}
    BY <2>3, <2>4, <2>7
  <2>9. ASSUME NEW n \in Namespaces, n # ns
        PROVE  /\ IsInjective(providerList'[n])
               /\ Range(providerList'[n]) =
                     {i \in ProviderIds : providers'[<<n, i>>] # Absent}
    BY <2>3, <2>7, <2>9 DEF IntegrationInv, ProvidersListed
  <2>. QED
    BY <2>1, <2>3, <2>7, <2>8, <2>9 DEF IntegrationInv, ProvidersListed
<1>3. ASSUME NEW caller \in Accounts, NEW ns \in Namespaces, NEW id \in ProviderIds,
             NEW from, NEW to \in {"registered", "enabled", "deprecated", "disabled"},
             MoveProvider(caller, ns, id, from, to)
      PROVE  IntegrationInv'
  <2>. DEFINE k == <<ns, id>>
              p == [providers[k] EXCEPT !.status = to]
  <2>1. /\ providers' = [providers EXCEPT ![k] = p] /\ providers[k] # Absent
        /\ UNCHANGED <<intAdmin, nsList, providerList>>
    BY <1>3 DEF MoveProvider
  <2>2. providers[k] \in Provider /\ k \in Namespaces \X ProviderIds
    BY <2>1 DEF IntegrationInv
  <2>3. p \in Provider
    BY <2>2 DEF Provider
  <2>. QED
    BY <2>1, <2>2, <2>3, ProviderRewritten
<1>4. ASSUME NEW caller \in Accounts, NEW ns \in Namespaces, NEW id \in ProviderIds,
             NEW metadata \in ProviderData, UpdateMetadata(caller, ns, id, metadata)
      PROVE  IntegrationInv'
  <2>. DEFINE k == <<ns, id>>
              p == [providers[k] EXCEPT !.metadata = metadata]
  <2>2. /\ providers' = [providers EXCEPT ![k] = p] /\ providers[k] # Absent
        /\ UNCHANGED <<intAdmin, nsList, providerList>>
    BY <1>4 DEF UpdateMetadata
  <2>3. providers[k] \in Provider /\ k \in Namespaces \X ProviderIds
    BY <2>2 DEF IntegrationInv
  <2>4. p \in Provider
    BY <2>3 DEF Provider
  <2>. QED
    BY <2>2, <2>3, <2>4, ProviderRewritten
<1>5. ASSUME NEW caller \in Accounts, IntInitialize(caller)
      PROVE  IntegrationInv'
  BY <1>5 DEF IntInitialize, IntegrationInv, ProvidersListed
<1>6. ASSUME UNCHANGED <<intAdmin, nsList, providers, providerList>>
      PROVE  IntegrationInv'
  BY <1>6 DEF IntegrationInv, ProvidersListed
<1>7. IntegrationNext \/ UNCHANGED registryState
  BY DEF SuiteNext, LendingSideNext, lendingSide, suiteVars
<1>8. ASSUME NEW caller \in Accounts, NEW account \in Accounts,
             \/ IntGrantGovernance(caller, account)
             \/ IntRevokeGovernance(caller, account)
             \/ \E ns \in Namespaces :
                   \/ RegisterNamespace(caller, ns, account)
                   \/ GrantNamespaceGovernance(caller, ns, account)
                   \/ RevokeNamespaceGovernance(caller, ns, account)
      PROVE  IntegrationInv'
  BY <1>1, <1>6, <1>8
     DEF IntGrantGovernance, IntRevokeGovernance,
         GrantNamespaceGovernance, RevokeNamespaceGovernance
<1>9. ASSUME NEW caller \in Accounts, NEW ns \in Namespaces, NEW id \in ProviderIds,
             \/ EnableProvider(caller, ns, id)
             \/ DeprecateProvider(caller, ns, id)
             \/ DisableProvider(caller, ns, id)
      PROVE  IntegrationInv'
  BY <1>3, <1>9 DEF EnableProvider, DeprecateProvider, DisableProvider
<1>10. CASE UNCHANGED registryState
  BY <1>6, <1>10 DEF registryState
<1>. QED
  BY <1>2, <1>4, <1>5, <1>7, <1>8, <1>9, <1>10 DEF IntegrationNext

-----------------------------------------------------------------------------
(* Network configuration lists its holders and counts its changes *)

\* A list without one of its members.
Delisted(S, list, e) ==
    /\ RemoveFirst(list, e) \in Seq(S)
    /\ Range(RemoveFirst(list, e)) = Range(list) \ {e}
    /\ IsInjective(RemoveFirst(list, e))

LEMMA ListShrinks ==
    ASSUME NEW S, NEW list \in Seq(S), IsInjective(list), NEW e
    PROVE  Delisted(S, list, e)
<1>. DEFINE n == Len(list)
            I == {i \in 1 .. n : list[i] = e}
<1>1. n \in Nat /\ DOMAIN list = 1 .. n
  OBVIOUS
<1>2. CASE I = {}
  <2>1. RemoveFirst(list, e) = list
    BY <1>2 DEF RemoveFirst
  <2>2. e \notin Range(list)
    BY <1>1, <1>2 DEF Range
  <2>. QED
    BY <2>1, <2>2 DEF Delisted
<1>3. CASE I # {}
  <2>1. PICK k \in 1 .. n : list[k] = e
    BY <1>3
  <2>2. I = {k}
    BY <1>1, <2>1 DEF IsInjective
  <2>3. Min(I) = k
    BY <2>1, <2>2 DEF Min
  <2>. DEFINE new == RemoveAt(list, k)
  <2>4. RemoveFirst(list, e) = new
    BY <1>3, <2>1, <2>3 DEF RemoveFirst, SelectInSeq
  <2>5. /\ new \in Seq(S) /\ Len(new) = n - 1
        /\ \A i \in 1 .. n - 1 : new[i] = IF i < k THEN list[i] ELSE list[i + 1]
    <3>. DEFINE a == SubSeq(list, 1, k - 1)
                b == SubSeq(list, k + 1, n)
    <3>1. /\ a \in Seq(S) /\ Len(a) = k - 1
          /\ \A i \in 1 .. k - 1 : a[i] = list[i]
      BY <1>1
    <3>2. /\ b \in Seq(S) /\ Len(b) = n - k
          /\ \A i \in 1 .. n - k : b[i] = list[k + i]
      <4>1. b \in Seq(S) /\ Len(b) = n - k
        <5>. DEFINE m == k + 1
        <5>1. m \in Int /\ n \in Int /\ \A i \in m .. n : list[i] \in S
          BY <1>1
        <5>2. b = SubSeq(list, m, n)
          OBVIOUS
        <5>. HIDE DEF m, n, b
        <5>3. /\ SubSeq(list, m, n) \in Seq(S)
              /\ Len(SubSeq(list, m, n)) = IF m <= n THEN n - m + 1 ELSE 0
          BY <5>1, SubSeqProperties
        <5>. QED
          BY <1>1, <5>2, <5>3 DEF m
      <4>2. ASSUME NEW i \in 1 .. n - k
            PROVE  b[i] = list[k + i]
        BY <1>1
      <4>. QED
        BY <4>1, <4>2
    <3>3. new = a \o b
      BY DEF RemoveAt
    <3>. HIDE DEF a, b, n, I, new
    <3>4. /\ a \o b \in Seq(S) /\ Len(a \o b) = Len(a) + Len(b)
          /\ \A i \in 1 .. Len(a) + Len(b) :
                (a \o b)[i] = IF i <= Len(a) THEN a[i] ELSE b[i - Len(a)]
      BY <3>1, <3>2, ConcatProperties
    <3>5. new \in Seq(S) /\ Len(new) = n - 1
      BY <1>1, <3>1, <3>2, <3>3, <3>4
    <3>6. ASSUME NEW i \in 1 .. n - 1
          PROVE  new[i] = IF i < k THEN list[i] ELSE list[i + 1]
      <4>1. CASE i < k
        BY <1>1, <3>1, <3>2, <3>3, <3>4, <4>1
      <4>2. CASE ~(i < k)
        <5>1. i - (k - 1) \in 1 .. n - k /\ i \in 1 .. Len(a) + Len(b)
              /\ ~(i <= Len(a))
          BY <1>1, <3>1, <3>2, <4>2
        <5>2. new[i] = b[i - (k - 1)]
          BY <3>1, <3>3, <3>4, <5>1
        <5>3. b[i - (k - 1)] = list[k + (i - (k - 1))]
          BY <3>2, <5>1
        <5>4. k + (i - (k - 1)) = i + 1
          BY <1>1
        <5>. QED
          BY <4>2, <5>2, <5>3, <5>4
      <4>. QED
        BY <4>1, <4>2
    <3>. QED
      BY <3>5, <3>6
  <2>. HIDE DEF new, n, I
  <2>6. DOMAIN new = 1 .. n - 1
    BY <1>1, <2>5
  <2>7. IsInjective(new)
    <3>1. SUFFICES ASSUME NEW i \in 1 .. n - 1, NEW j \in 1 .. n - 1, new[i] = new[j]
                   PROVE  i = j
      BY <2>6 DEF IsInjective
    <3>. DEFINE At(m) == IF m < k THEN m ELSE m + 1
    <3>2. /\ At(i) \in 1 .. n /\ At(j) \in 1 .. n
          /\ new[i] = list[At(i)] /\ new[j] = list[At(j)]
      BY <1>1, <2>5
    <3>3. At(i) = At(j)
      BY <1>1, <3>1, <3>2 DEF IsInjective
    <3>. QED
      BY <1>1, <3>3
  <2>8. Range(new) = Range(list) \ {e}
    <3>1. ASSUME NEW i \in 1 .. n - 1
          PROVE  new[i] \in Range(list) \ {e}
      <4>. DEFINE j == IF i < k THEN i ELSE i + 1
      <4>1. j \in 1 .. n /\ new[i] = list[j] /\ j # k
        BY <1>1, <2>5
      <4>. HIDE DEF j
      <4>2. list[j] # e
        BY <1>1, <2>1, <4>1 DEF IsInjective
      <4>. QED
        BY <1>1, <4>1, <4>2 DEF Range
    <3>2. ASSUME NEW j \in 1 .. n, list[j] # e
          PROVE  list[j] \in Range(new)
      <4>. DEFINE i == IF j < k THEN j ELSE j - 1
      <4>1. i \in 1 .. n - 1 /\ new[i] = list[j]
        <5>1. CASE j < k
          BY <1>1, <2>1, <2>5, <5>1
        <5>2. CASE j > k
          <6>1. i = j - 1 /\ i \in 1 .. n - 1 /\ ~(i < k) /\ i + 1 = j
            BY <1>1, <2>1, <5>2
          <6>. HIDE DEF i
          <6>2. new[i] = list[i + 1]
            BY <2>5, <6>1
          <6>. QED
            BY <6>1, <6>2
        <5>. QED
          BY <1>1, <2>1, <3>2, <5>1, <5>2
      <4>. HIDE DEF i
      <4>. QED
        BY <2>6, <4>1 DEF Range
    <3>. QED
      BY <1>1, <2>6, <3>1, <3>2 DEF Range
  <2>. QED
    BY <2>4, <2>5, <2>7, <2>8 DEF Delisted
<1>. QED
  BY <1>2, <1>3

\* A list to which a member was added unless it was there.
ListedAlso(S, list, e) ==
    /\ ListedWith(list, e) \in Seq(S)
    /\ Range(ListedWith(list, e)) = Range(list) \cup {e}
    /\ IsInjective(ListedWith(list, e))

LEMMA ListedOnce ==
    ASSUME NEW S, NEW list \in Seq(S), IsInjective(list), NEW e \in S
    PROVE  ListedAlso(S, list, e)
<1>1. Enlisted(S, list, e)
  BY ListGrows
<1>. QED
  BY <1>1 DEF Enlisted, ListedAlso, ListedWith

NetworkInv ==
    /\ netRoles \in [Accounts -> SUBSET NetRoles]
    /\ roleHolders \in Seq(Accounts)
    /\ networks \in [NetworkIds -> NetworkRecords \cup {Absent}]
    /\ netList \in Seq(NetworkIds)
    /\ netVersion \in [NetworkIds -> Nat]
    /\ HoldersAndNetworksListed
    /\ GlobalVersionCounts

LEMMA NetworkStep ==
    ASSUME NetworkInv, [SuiteNext]_suiteVars
    PROVE  NetworkInv'
<1>. DEFINE books == <<networks, netList, netVersion, netGlobal>>
<1>1. ASSUME UNCHANGED books, roleHolders' \in Seq(Accounts), IsInjective(roleHolders'),
             netRoles' \in [Accounts -> SUBSET NetRoles],
             \A a \in Accounts : netRoles'[a] # {} => a \in Range(roleHolders')
      PROVE  NetworkInv'
  BY <1>1 DEF NetworkInv, HoldersAndNetworksListed, GlobalVersionCounts
<1>2. ASSUME NEW admin \in Accounts, NEW dao \in Accounts \cup {Nobody},
             NetInitialize(admin, dao)
      PROVE  NetworkInv'
  <2>. DEFINE first == ListedWith(roleHolders, admin)
  <2>1. /\ netRoles' = [a \in Accounts |->
                          netRoles[a] \cup (IF a = admin THEN {"admin"} ELSE {})
                             \cup (IF a = dao THEN {"governance"} ELSE {})]
        /\ roleHolders' = IF dao = Nobody THEN first ELSE ListedWith(first, dao)
        /\ UNCHANGED books
    BY <1>2 DEF NetInitialize
  <2>2. ListedAlso(Accounts, roleHolders, admin)
    BY ListedOnce DEF NetworkInv, HoldersAndNetworksListed
  <2>3. /\ first \in Seq(Accounts) /\ Range(first) = Range(roleHolders) \cup {admin}
        /\ IsInjective(first)
    BY <2>2 DEF ListedAlso
  <2>. HIDE DEF first
  <2>4. /\ roleHolders' \in Seq(Accounts) /\ IsInjective(roleHolders')
        /\ Range(roleHolders') =
              Range(roleHolders) \cup {admin} \cup ({dao} \ {Nobody})
    <3>1. CASE dao = Nobody
      BY <2>1, <2>3, <3>1
    <3>2. CASE dao # Nobody
      <4>1. dao \in Accounts
        BY <3>2
      <4>2. ListedAlso(Accounts, first, dao)
        BY <2>3, <4>1, ListedOnce
      <4>. QED
        BY <2>1, <2>3, <3>2, <4>2 DEF ListedAlso
    <3>. QED
      BY <3>1, <3>2
  <2>5. netRoles' \in [Accounts -> SUBSET NetRoles]
    BY <2>1 DEF NetworkInv, NetRoles
  <2>6. \A a \in Accounts : netRoles'[a] # {} => a \in Range(roleHolders')
    BY <2>1, <2>4, ProtocolAssumption DEF NetworkInv, HoldersAndNetworksListed
  <2>. QED
    BY <1>1, <2>1, <2>4, <2>5, <2>6
<1>3. ASSUME NEW caller, NEW account \in Accounts, NEW roles \in SUBSET NetRoles,
             NetGrantRole(caller, account, roles)
      PROVE  NetworkInv'
  <2>1. /\ netRoles' = [netRoles EXCEPT ![account] = @ \cup roles]
        /\ roleHolders' = ListedWith(roleHolders, account)
        /\ UNCHANGED books
    BY <1>3 DEF NetGrantRole, GrantedRoles
  <2>2. ListedAlso(Accounts, roleHolders, account)
    BY ListedOnce DEF NetworkInv, HoldersAndNetworksListed
  <2>3. /\ netRoles' \in [Accounts -> SUBSET NetRoles]
        /\ \A a \in Accounts : a # account => netRoles'[a] = netRoles[a]
    BY <2>1 DEF NetworkInv
  <2>4. \A a \in Accounts : netRoles'[a] # {} => a \in Range(roleHolders')
    BY <2>1, <2>2, <2>3 DEF NetworkInv, HoldersAndNetworksListed, ListedAlso
  <2>. QED
    BY <1>1, <2>1, <2>2, <2>3, <2>4 DEF ListedAlso
<1>4. ASSUME NEW caller, NEW account \in Accounts, NEW roles \in SUBSET NetRoles,
             NetRevokeRole(caller, account, roles)
      PROVE  NetworkInv'
  <2>1. /\ netRoles' = [netRoles EXCEPT ![account] = @ \ roles]
        /\ roleHolders' = IF netRoles[account] \subseteq roles
                          THEN RemoveFirst(roleHolders, account) ELSE roleHolders
        /\ UNCHANGED books
    BY <1>4 DEF NetRevokeRole, DelistedWhenBare
  <2>2. Delisted(Accounts, roleHolders, account)
    BY ListShrinks DEF NetworkInv, HoldersAndNetworksListed
  <2>3. /\ netRoles' \in [Accounts -> SUBSET NetRoles]
        /\ \A a \in Accounts : a # account => netRoles'[a] = netRoles[a]
        /\ netRoles'[account] = netRoles[account] \ roles
    BY <2>1 DEF NetworkInv
  <2>4. \A a \in Accounts : netRoles'[a] # {} => a \in Range(roleHolders')
    BY <2>1, <2>2, <2>3 DEF NetworkInv, HoldersAndNetworksListed, Delisted
  <2>5. roleHolders' \in Seq(Accounts) /\ IsInjective(roleHolders')
    BY <2>1, <2>2 DEF NetworkInv, HoldersAndNetworksListed, Delisted
  <2>. QED
    BY <1>1, <2>1, <2>3, <2>4, <2>5
<1>5. ASSUME NEW caller, NEW n \in NetworkIds, NEW record \in NetworkRecords,
             SetNetworkConfig(caller, n, record)
      PROVE  NetworkInv'
  <2>1. /\ networks' = [networks EXCEPT ![n] = record]
        /\ netVersion' = [netVersion EXCEPT ![n] = @ + 1]
        /\ netList' = ListedWith(netList, n)
        /\ netGlobal' = netGlobal + 1
        /\ UNCHANGED <<netRoles, roleHolders>>
    BY <1>5 DEF SetNetworkConfig, StoreNetworkConfig, IncrementGlobalVersion
  <2>2. ListedAlso(NetworkIds, netList, n)
    BY ListedOnce DEF NetworkInv, HoldersAndNetworksListed
  <2>3. /\ networks' \in [NetworkIds -> NetworkRecords \cup {Absent}]
        /\ networks'[n] # Absent
        /\ \A m \in NetworkIds : m # n => networks'[m] = networks[m]
    BY <2>1, NetworkAssumption DEF NetworkInv
  <2>4. /\ netVersion' \in [NetworkIds -> Nat] /\ netVersion'[n] = netVersion[n] + 1
        /\ \A m \in NetworkIds \ {n} : netVersion'[m] = netVersion[m]
        /\ netVersion \in [NetworkIds -> Nat]
    BY <2>1 DEF NetworkInv
  <2>5. HoldersAndNetworksListed'
    <3>1. Range(netList') = {m \in NetworkIds : networks'[m] # Absent}
      BY <2>1, <2>2, <2>3 DEF NetworkInv, HoldersAndNetworksListed, ListedAlso
    <3>. QED
      BY <2>1, <2>2, <3>1 DEF NetworkInv, HoldersAndNetworksListed, ListedAlso
  <2>6. GlobalVersionCounts'
    <3>. DEFINE f == netVersion
                g == netVersion'
    <3>1. /\ \A m \in NetworkIds : f[m] \in Int
          /\ g[n] \in Int /\ f[n] \in Int /\ g[n] = f[n] + 1
          /\ \A m \in NetworkIds \ {n} : g[m] = f[m]
      BY <2>4
    <3>. HIDE DEF f, g
    <3>2. SumFunctionOnSet(g, NetworkIds) = SumFunctionOnSet(f, NetworkIds) + g[n] - f[n]
      BY <3>1, NetworkAssumption, SumUpdate
    <3>3. SumFunctionOnSet(f, NetworkIds) \in Int
      BY <3>1, NetworkAssumption, SumType
    <3>4. SumFunctionOnSet(g, NetworkIds) = SumFunctionOnSet(f, NetworkIds) + 1
      BY <3>1, <3>2, <3>3
    <3>. QED
      BY <2>1, <3>4 DEF NetworkInv, GlobalVersionCounts, f, g
  <2>. QED
    BY <2>1, <2>2, <2>3, <2>4, <2>5, <2>6 DEF NetworkInv, ListedAlso
<1>6. ASSUME UNCHANGED <<netRoles, roleHolders, books>>
      PROVE  NetworkInv'
  BY <1>6 DEF NetworkInv, HoldersAndNetworksListed, GlobalVersionCounts
<1>7. NetworkNext \/ UNCHANGED networkVars
  BY DEF SuiteNext, GovernanceSideNext, governanceSide, suiteVars
<1>. QED
  BY <1>2, <1>3, <1>4, <1>5, <1>6, <1>7
     DEF NetworkNext, NetUpgrade, NetRollback, networkVars

-----------------------------------------------------------------------------
(* Fees: the history of the flat fee follows its configuration *)

FeeSettings ==
    /\ feeConfig \in FeeRecords \cup {Absent}
    /\ feePending # Absent => feePending.config \in FeeRecords
    /\ tierDiscount \in [FeeTiers -> 0 .. FullScale]
    /\ tierOf \in [FeeBusinesses -> FeeTiers]
    /\ brackets \in Seq([threshold : Nat, discount : 0 .. FullScale])
    /\ daoAnswer \in [DaoContracts -> FeeRecords \cup {Absent}]

FlatInv ==
    /\ FeeSettings
    /\ flatConfig \in FeeRecords \cup {Absent}
    /\ flatDao \in DaoContracts \cup {Nobody}
    /\ flatEpoch \in FlatEpochs
    /\ history \in Seq(FlatEpochs)
    /\ feeSnapshots \in [FlatEpochs -> FeeRecords \cup {Absent}]
    /\ rotation # Absent => rotation.new \in FeeCollectors
    /\ SnapshotsFollowHistory

LEMMA EffectiveRecord ==
    ASSUME FeeSettings, NEW d \in DaoContracts \cup {Nobody},
           NEW stored \in FeeRecords \cup {Absent}
    PROVE  /\ EffectiveConfig(d, stored) \in FeeRecords \cup {Absent}
           /\ d = Nobody => EffectiveConfig(d, stored) = stored
  BY DEF FeeSettings, EffectiveConfig

\* The books after a snapshot: the newest epochs, the current one with its
\* configuration.
SnapshotKept(e, config) ==
    /\ history' \in Seq(FlatEpochs) /\ IsInjective(history')
    /\ Len(history') <= MaxHistory
    /\ feeSnapshots' \in [FlatEpochs -> FeeRecords \cup {Absent}]
    /\ \A x \in FlatEpochs : feeSnapshots'[x] # Absent <=> x \in Range(history')
    /\ feeSnapshots'[e] = config

LEMMA PersistKeepsHistory ==
    ASSUME FlatInv, NEW e \in FlatEpochs, NEW config \in FeeRecords,
           PersistEpochSnapshot(e, config)
    PROVE  SnapshotKept(e, config)
<1>. DEFINE grown == IF e \in Range(history) THEN history ELSE Append(history, e)
            L == Len(grown)
            m == Max({1, L - MaxHistory + 1})
            kept == SubSeq(grown, m, L)
<1>1. /\ history \in Seq(FlatEpochs) /\ IsInjective(history)
      /\ Len(history) <= MaxHistory /\ MaxHistory \in Nat \ {0}
      /\ \A x \in FlatEpochs : feeSnapshots[x] # Absent <=> x \in Range(history)
      /\ feeSnapshots \in [FlatEpochs -> FeeRecords \cup {Absent}]
  BY FeesAssumption DEF FlatInv, SnapshotsFollowHistory
<1>2. /\ history' = kept
      /\ feeSnapshots' = [x \in FlatEpochs |->
                            IF x \notin Range(kept) THEN Absent
                            ELSE IF x = e THEN config ELSE feeSnapshots[x]]
  BY DEF PersistEpochSnapshot
<1>3. /\ grown \in Seq(FlatEpochs) /\ IsInjective(grown)
      /\ Range(grown) = Range(history) \cup {e}
      /\ L \in 0 .. MaxHistory + 1
      /\ L = MaxHistory + 1 => grown[L] = e
  <2>1. Enlisted(FlatEpochs, history, e)
    BY <1>1, ListGrows
  <2>2. CASE e \in Range(history)
    BY <1>1, <2>2
  <2>3. CASE e \notin Range(history)
    BY <1>1, <2>1, <2>3 DEF Enlisted
  <2>. QED
    BY <2>2, <2>3
<1>. HIDE DEF grown
<1>4. m = IF L = MaxHistory + 1 THEN 2 ELSE 1
  <2>1. L - MaxHistory + 1 = 2 \/ L - MaxHistory + 1 <= 1
    BY <1>1, <1>3
  <2>2. CASE L = MaxHistory + 1
    <3>1. {1, L - MaxHistory + 1} = {1, 2}
      BY <1>1, <2>2
    <3>2. Max({1, 2}) = 2
      BY DEF Max
    <3>. QED
      BY <2>2, <3>1, <3>2
  <2>3. CASE L # MaxHistory + 1
    <3>. DEFINE y == L - MaxHistory + 1
    <3>1. y \in Int /\ y <= 1
      BY <1>1, <1>3, <2>3
    <3>. HIDE DEF y
    <3>2. Max({1, y}) = 1
      BY <3>1 DEF Max
    <3>. QED
      BY <2>3, <3>2 DEF y
  <2>. QED
    BY <2>2, <2>3
<1>. HIDE DEF m
<1>5. /\ kept \in Seq(FlatEpochs) /\ Len(kept) = L - m + 1
      /\ \A i \in 1 .. L - m + 1 : kept[i] = grown[m + i - 1]
  <2>1. m \in Int /\ L \in Int /\ \A i \in m .. L : grown[i] \in FlatEpochs
    BY <1>3, <1>4
  <2>. HIDE DEF L
  <2>2. /\ kept \in Seq(FlatEpochs)
        /\ Len(kept) = IF m <= L THEN L - m + 1 ELSE 0
        /\ \A i \in 1 .. L - m + 1 : kept[i] = grown[m + i - 1]
    BY <2>1, SubSeqProperties
  <2>3. m <= L + 1
    BY <1>1, <1>3, <1>4
  <2>. QED
    BY <1>3, <1>4, <2>1, <2>2, <2>3
<1>. HIDE DEF kept
<1>6. DOMAIN kept = 1 .. L - m + 1 /\ DOMAIN grown = 1 .. L
  BY <1>3, <1>5
<1>. HIDE DEF L
<1>7. Len(kept) <= MaxHistory
  BY <1>1, <1>3, <1>4, <1>5
<1>8. IsInjective(kept)
  <2>1. SUFFICES ASSUME NEW i \in 1 .. L - m + 1, NEW j \in 1 .. L - m + 1,
                        kept[i] = kept[j]
                 PROVE  i = j
    BY <1>6 DEF IsInjective
  <2>2. m + i - 1 \in 1 .. L /\ m + j - 1 \in 1 .. L
    BY <1>1, <1>3, <1>4
  <2>3. grown[m + i - 1] = grown[m + j - 1]
    BY <1>5, <2>1
  <2>4. m + i - 1 = m + j - 1
    BY <1>3, <1>6, <2>2, <2>3 DEF IsInjective
  <2>. QED
    BY <1>1, <1>3, <1>4, <2>4
<1>9. Range(kept) \subseteq Range(grown)
  <2>1. \A i \in 1 .. L - m + 1 : m + i - 1 \in 1 .. L
    BY <1>1, <1>3, <1>4
  <2>. QED
    BY <1>5, <1>6, <2>1 DEF Range
<1>10. e \in Range(kept)
  <2>1. PICK k \in 1 .. L : grown[k] = e /\ (m = 2 => k = L)
    <3>1. CASE L = MaxHistory + 1
      BY <1>1, <1>3, <3>1
    <3>2. CASE L # MaxHistory + 1
      BY <1>3, <1>4, <1>6, <3>2 DEF Range
    <3>. QED
      BY <3>1, <3>2
  <2>. DEFINE i == k - m + 1
  <2>2. i \in 1 .. L - m + 1 /\ m + i - 1 = k
    BY <1>1, <1>3, <1>4, <2>1
  <2>. HIDE DEF i
  <2>3. kept[i] = e
    BY <1>5, <2>1, <2>2
  <2>. QED
    BY <1>6, <2>2, <2>3 DEF Range
<1>11. config # Absent
  BY FeesAssumption
<1>12. \A x \in FlatEpochs : feeSnapshots'[x] # Absent <=> x \in Range(kept)
  BY <1>1, <1>2, <1>3, <1>9, <1>11
<1>13. /\ feeSnapshots' \in [FlatEpochs -> FeeRecords \cup {Absent}]
       /\ feeSnapshots'[e] = config
  BY <1>1, <1>2, <1>10
<1>. QED
  BY <1>2, <1>5, <1>7, <1>8, <1>12, <1>13 DEF SnapshotKept

LEMMA FlatStep ==
    ASSUME FlatInv, [SuiteNext]_suiteVars
    PROVE  FlatInv'
<1>. DEFINE rest == <<feeConfig, feePending, tierDiscount, tierOf, brackets, daoAnswer>>
<1>1. ASSUME UNCHANGED rest
      PROVE  FeeSettings'
  BY <1>1 DEF FlatInv, FeeSettings
\* The settings of the dynamic fee
<1>2. ASSUME FeeSettings', UNCHANGED <<flatVars>>
      PROVE  FlatInv'
  BY <1>2 DEF FlatInv, SnapshotsFollowHistory, flatVars
\* A snapshot of the flat fee
<1>3. ASSUME NEW e \in FlatEpochs, NEW d \in DaoContracts \cup {Nobody},
             NEW c \in FeeRecords \cup {Absent}, PersistFor(e, EffectiveConfig(d, c)),
             flatEpoch' = e, flatDao' = d, flatConfig' = c, UNCHANGED rest,
             rotation' = rotation \/ rotation' = Absent
      PROVE  FlatInv'
  <2>. DEFINE config == EffectiveConfig(d, c)
  <2>1. /\ config \in FeeRecords \cup {Absent}
        /\ d = Nobody => config = c
    BY EffectiveRecord DEF FlatInv
  <2>. HIDE DEF config
  <2>2. CASE config = Absent
    <3>1. UNCHANGED <<history, feeSnapshots>>
      BY <1>3, <2>2 DEF PersistFor, config
    <3>2. flatDao' = Nobody => flatConfig' = Absent
      BY <1>3, <2>1, <2>2
    <3>. QED
      BY <1>1, <1>3, <3>1, <3>2 DEF FlatInv, SnapshotsFollowHistory
  <2>3. CASE config # Absent
    <3>1. config \in FeeRecords /\ PersistEpochSnapshot(e, config)
      BY <1>3, <2>1, <2>3 DEF PersistFor, config
    <3>2. SnapshotKept(e, config)
      BY <3>1, PersistKeepsHistory
    <3>3. SnapshotsFollowHistory'
      BY <1>3, <2>1, <3>2 DEF SnapshotKept, SnapshotsFollowHistory
    <3>. QED
      BY <1>1, <1>3, <3>2, <3>3 DEF FlatInv, SnapshotKept
  <2>. QED
    BY <2>2, <2>3
<1>4. ASSUME NEW c \in FeeConfigs, ConfigureFees(c) \/ ProposeFeeConfig(c)
      PROVE  FlatInv'
  <2>1. FeeSettings'
    BY <1>4, FeesAssumption
       DEF ConfigureFees, ProposeFeeConfig, FlatInv, FeeSettings
  <2>. QED
    BY <1>2, <1>4, <2>1 DEF ConfigureFees, ProposeFeeConfig
<1>5. ASSUME NEW on \in BOOLEAN,
             CommitFeeConfig \/ CancelPendingFeeConfig \/ SetFeeEnabled(on)
      PROVE  FlatInv'
  <2>1. ASSUME feeConfig \in FeeRecords
        PROVE  [feeConfig EXCEPT !.on = on] \in FeeRecords
    BY <2>1 DEF FeeRecords
  <2>2. FeeSettings'
    BY <1>5, <2>1
       DEF CommitFeeConfig, CancelPendingFeeConfig, SetFeeEnabled, FlatInv, FeeSettings
  <2>. QED
    BY <1>2, <1>5, <2>2 DEF CommitFeeConfig, CancelPendingFeeConfig, SetFeeEnabled
<1>6. ASSUME NEW t \in FeeTiers, NEW disc \in Discounts, SetTierDiscount(t, disc)
      PROVE  FlatInv'
  <2>1. disc \in 0 .. FullScale
    BY <1>6, FeesAssumption DEF SetTierDiscount
  <2>2. FeeSettings'
    BY <1>6, <2>1 DEF SetTierDiscount, FlatInv, FeeSettings
  <2>. QED
    BY <1>2, <1>6, <2>2 DEF SetTierDiscount
<1>7. ASSUME NEW b \in FeeBusinesses, NEW t \in FeeTiers, SetBusinessTier(b, t)
      PROVE  FlatInv'
  <2>1. FeeSettings'
    BY <1>7 DEF SetBusinessTier, FlatInv, FeeSettings
  <2>. QED
    BY <1>2, <1>7, <2>1 DEF SetBusinessTier
<1>8. ASSUME NEW list \in BracketLists, SetVolumeBrackets(list)
      PROVE  FlatInv'
  <2>1. list \in Seq([threshold : Nat, discount : Nat])
    BY FeesAssumption
  <2>2. /\ \A i \in DOMAIN list : list[i].discount <= FullScale
        /\ brackets' = list
    BY <1>8 DEF SetVolumeBrackets
  <2>3. list \in Seq([threshold : Nat, discount : 0 .. FullScale])
    <3>. DEFINE R == [threshold : Nat, discount : 0 .. FullScale]
    <3>1. \A i \in 1 .. Len(list) : list[i] \in R
      <4>1. \A i \in 1 .. Len(list) : list[i] \in [threshold : Nat, discount : Nat]
        <5>. DEFINE Q == [threshold : Nat, discount : Nat]
        <5>1. list \in Seq(Q)
          BY <2>1
        <5>. HIDE DEF Q
        <5>2. \A i \in 1 .. Len(list) : list[i] \in Q
          BY <5>1
        <5>. QED
          BY <5>2 DEF Q
      <4>. QED
        BY <2>1, <2>2, <4>1, FeesAssumption
    <3>. HIDE DEF R
    <3>2. list \in [1 .. Len(list) -> R] /\ Len(list) \in Nat
      BY <2>1, <3>1
    <3>3. list \in Seq(R)
      BY <3>2
    <3>. QED
      BY <3>3 DEF R
  <2>4. FeeSettings'
    BY <1>8, <2>2, <2>3 DEF SetVolumeBrackets, FlatInv, FeeSettings
  <2>. QED
    BY <1>2, <1>8, <2>4 DEF SetVolumeBrackets
<1>9. ASSUME NEW d, SetDao(d)
      PROVE  FlatInv'
  BY <1>1, <1>2, <1>9 DEF SetDao
<1>10. ASSUME NEW d \in DaoContracts, NEW c \in FeeConfigs \cup {Absent}, DaoAnswers(d, c)
       PROVE  FlatInv'
  <2>1. FeeSettings'
    BY <1>10, FeesAssumption DEF DaoAnswers, dynamicVars, FlatInv, FeeSettings
  <2>. QED
    BY <1>2, <1>10, <2>1 DEF DaoAnswers
<1>11. ASSUME NEW c \in FeeConfigs, ConfigureFlatFee(c)
       PROVE  FlatInv'
  BY <1>3, <1>11, FeesAssumption DEF ConfigureFlatFee, dynamicVars, FlatInv
<1>12. ASSUME NEW d \in DaoContracts, SetFlatFeeDao(d)
       PROVE  FlatInv'
  BY <1>3, <1>12 DEF SetFlatFeeDao, dynamicVars, FlatInv
<1>13. ASSUME AcceptDaoRotation
       PROVE  FlatInv'
  BY <1>3, <1>13 DEF AcceptDaoRotation, dynamicVars, FlatInv
<1>14. ASSUME NEW e \in FlatEpochs, SetCurrentEpoch(e)
       PROVE  FlatInv'
  BY <1>3, <1>14 DEF SetCurrentEpoch, dynamicVars, FlatInv
<1>15. ASSUME AcceptCollectorRotation
       PROVE  FlatInv'
  <2>. DEFINE c == [flatConfig EXCEPT !.collector = rotation.new]
  <2>1. flatConfig \in FeeRecords /\ rotation.new \in FeeCollectors
    BY <1>15 DEF AcceptCollectorRotation, FlatInv
  <2>2. c \in FeeRecords
    BY <2>1 DEF FeeRecords
  <2>3. /\ PersistFor(flatEpoch, EffectiveConfig(flatDao, c)) /\ flatConfig' = c
        /\ UNCHANGED <<rest, flatEpoch, flatDao>> /\ rotation' = Absent
    BY <1>15 DEF AcceptCollectorRotation, dynamicVars
  <2>. HIDE DEF c
  <2>. QED
    BY <1>3, <2>2, <2>3 DEF FlatInv
<1>16. ASSUME NEW new \in FeeCollectors, ProposeCollectorRotation(new)
       PROVE  FlatInv'
  <2>1. rotation'.new = new
    BY <1>16 DEF ProposeCollectorRotation
  <2>2. FeeSettings'
    BY <1>1, <1>16 DEF ProposeCollectorRotation, dynamicVars
  <2>. QED
    BY <1>16, <2>1, <2>2
       DEF ProposeCollectorRotation, FlatInv, SnapshotsFollowHistory
<1>17. ASSUME NEW d, ProposeDaoRotation(d) \/ CancelDaoRotation
       PROVE  FlatInv'
  <2>1. FeeSettings'
    BY <1>1, <1>17 DEF ProposeDaoRotation, CancelDaoRotation, dynamicVars
  <2>. QED
    BY <1>17, <2>1
       DEF ProposeDaoRotation, CancelDaoRotation, FlatInv, SnapshotsFollowHistory
<1>18. ASSUME UNCHANGED <<dynamicVars, flatVars, daoAnswer>>
       PROVE  FlatInv'
  BY <1>1, <1>2, <1>18 DEF dynamicVars
<1>19. FeesNext \/ UNCHANGED feeVars
  BY DEF SuiteNext, SubmissionSideNext, submissionSide, suiteVars
<1>20. DynamicNext \/ DiscountsNext => FlatInv'
  BY <1>4, <1>5, <1>6, <1>7, <1>8, <1>9 DEF DynamicNext, DiscountsNext
<1>21. FlatNext \/ EpochsNext => FlatInv'
  BY <1>11, <1>12, <1>13, <1>14, <1>15, <1>16, <1>17 DEF FlatNext, EpochsNext
<1>22. SubmitNext => FlatInv'
  BY <1>18 DEF SubmitNext, SubmitAttestation, SubmitMultiPeriod
<1>23. DaoNextAnswer => FlatInv'
  BY <1>10 DEF DaoNextAnswer
<1>. QED
  BY <1>18, <1>19, <1>20, <1>21, <1>22, <1>23 DEF FeesNext, feeVars

-----------------------------------------------------------------------------
(* Fees: every coin is accounted for *)

Balances == [FeeTokens -> [Holders -> Int]]

\* What the payers are short of, of one token and of all.
ShortOf(p, t) == [b \in FeeBusinesses |-> Purse - p[t][b]]
SpentOf(p) == SumFunctionOnSet([t \in FeeTokens |->
                  SumFunctionOnSet(ShortOf(p, t), FeeBusinesses)], FeeTokens)

\* What a transfer does to the balances.
Transferred(p, q, token, from, to, amount) ==
    /\ q \in Balances
    /\ q[token][from] = p[token][from] - amount
    /\ q[token][to] = p[token][to] + amount
    /\ \A t \in FeeTokens, a \in Holders :
          <<t, a>> \notin {<<token, from>>, <<token, to>>} => q[t][a] = p[t][a]

LEMMA TransferMoves ==
    ASSUME NEW p \in Balances, NEW token \in FeeTokens, NEW from \in Holders,
           NEW to \in Holders, from # to, NEW amount \in Int
    PROVE  Transferred(p, Moved(p, token, from, to, amount), token, from, to, amount)
<1>. DEFINE r == p[token]
            r1 == [r EXCEPT ![from] = @ - amount]
            r2 == [r1 EXCEPT ![to] = @ + amount]
            q == [p EXCEPT ![token] = r2]
<1>1. r \in [Holders -> Int]
  BY DEF Balances
<1>2. r1 \in [Holders -> Int] /\ r1[from] = r[from] - amount
      /\ \A a \in Holders : a # from => r1[a] = r[a]
  BY <1>1
<1>3. r2 \in [Holders -> Int] /\ r2[to] = r1[to] + amount
      /\ \A a \in Holders : a # to => r2[a] = r1[a]
  BY <1>2
<1>4. Moved(p, token, from, to, amount) = q
  <2>1. [p EXCEPT ![token][from] = @ - amount] = [p EXCEPT ![token] = r1]
    OBVIOUS
  <2>. DEFINE p1 == [p EXCEPT ![token] = r1]
  <2>2. p1[token] = r1 /\ p1 \in Balances
    BY <1>2 DEF Balances
  <2>3. Moved(p, token, from, to, amount) = [p1 EXCEPT ![token] = [p1[token] EXCEPT ![to] = @ + amount]]
    BY <2>1 DEF Moved
  <2>4. [p1 EXCEPT ![token] = r2] = q
    BY DEF Balances
  <2>. QED
    BY <2>2, <2>3, <2>4
<1>. HIDE DEF r1, r2
<1>5. /\ q \in Balances /\ q[token] = r2
      /\ \A t \in FeeTokens : t # token => q[t] = p[t]
  BY <1>3 DEF Balances
<1>. HIDE DEF q
<1>6. Transferred(p, q, token, from, to, amount)
  BY <1>2, <1>3, <1>5 DEF Transferred
<1>. QED
  BY <1>4, <1>6

\* A payer's loss is spent; a transfer among the others is not.
LEMMA SpentAfter ==
    ASSUME NEW p \in Balances, NEW q, NEW token \in FeeTokens, NEW from \in Holders,
           NEW to \in Holders \ FeeBusinesses, NEW amount \in Int,
           Transferred(p, q, token, from, to, amount), from # to
    PROVE  SpentOf(q) = SpentOf(p) + (IF from \in FeeBusinesses THEN amount ELSE 0)
<1>. DEFINE F == [t \in FeeTokens |-> SumFunctionOnSet(ShortOf(p, t), FeeBusinesses)]
            G == [t \in FeeTokens |-> SumFunctionOnSet(ShortOf(q, t), FeeBusinesses)]
            paid == IF from \in FeeBusinesses THEN amount ELSE 0
<1>1. ASSUME NEW t \in FeeTokens
      PROVE  /\ \A b \in FeeBusinesses : ShortOf(p, t)[b] \in Int /\ ShortOf(q, t)[b] \in Int
             /\ F[t] \in Int /\ G[t] \in Int
  <2>1. \A b \in FeeBusinesses : ShortOf(p, t)[b] \in Int /\ ShortOf(q, t)[b] \in Int
    <3>1. p \in Balances /\ q \in Balances
      BY DEF Transferred
    <3>2. \A b \in FeeBusinesses : p[t][b] \in Int /\ q[t][b] \in Int
      BY <3>1 DEF Balances, Holders
    <3>. QED
      BY <3>2, FeesAssumption DEF ShortOf
  <2>2. /\ SumFunctionOnSet(ShortOf(p, t), FeeBusinesses) \in Int
        /\ SumFunctionOnSet(ShortOf(q, t), FeeBusinesses) \in Int
    BY <2>1, SumType, FeesAssumption
  <2>. QED
    BY <2>1, <2>2
<1>2. ASSUME NEW t \in FeeTokens, t # token
      PROVE  G[t] = F[t]
  <2>1. \A b \in FeeBusinesses : ShortOf(q, t)[b] = ShortOf(p, t)[b]
    BY <1>2 DEF ShortOf, Transferred, Holders
  <2>2. SumFunctionOnSet(ShortOf(q, t), FeeBusinesses) =
           SumFunctionOnSet(ShortOf(p, t), FeeBusinesses)
    BY <2>1, SumCongruence, FeesAssumption
  <2>. QED
    BY <2>2
<1>3. G[token] = F[token] + paid
  <2>. DEFINE f == ShortOf(p, token)
              g == ShortOf(q, token)
  <2>1. \A b \in FeeBusinesses : f[b] \in Int /\ g[b] \in Int
    BY <1>1
  <2>2. \A b \in FeeBusinesses : b # from => g[b] = f[b]
    BY DEF ShortOf, Transferred, Holders
  <2>3. from \in FeeBusinesses => g[from] = f[from] + amount
    BY FeesAssumption DEF ShortOf, Transferred, Balances, Holders
  <2>. HIDE DEF f, g
  <2>4. CASE from \in FeeBusinesses
    <3>1. SumFunctionOnSet(g, FeeBusinesses) =
             SumFunctionOnSet(f, FeeBusinesses) + g[from] - f[from]
      BY <2>1, <2>2, <2>4, SumUpdate, FeesAssumption
    <3>2. SumFunctionOnSet(f, FeeBusinesses) \in Int
      BY <2>1, SumType, FeesAssumption
    <3>3. SumFunctionOnSet(g, FeeBusinesses) = SumFunctionOnSet(f, FeeBusinesses) + amount
      BY <2>1, <2>3, <2>4, <3>1, <3>2
    <3>. QED
      BY <2>4, <3>3 DEF f, g
  <2>5. CASE from \notin FeeBusinesses
    <3>1. SumFunctionOnSet(g, FeeBusinesses) = SumFunctionOnSet(f, FeeBusinesses)
      BY <2>2, <2>5, SumCongruence, FeesAssumption
    <3>2. SumFunctionOnSet(f, FeeBusinesses) \in Int
      BY <2>1, SumType, FeesAssumption
    <3>3. SumFunctionOnSet(g, FeeBusinesses) = SumFunctionOnSet(f, FeeBusinesses) + paid
      BY <2>5, <3>1, <3>2
    <3>. QED
      BY <3>3 DEF f, g
  <2>. QED
    BY <2>4, <2>5
<1>4. \A t \in FeeTokens : F[t] \in Int /\ G[t] \in Int
  BY <1>1
<1>5. paid \in Int /\ SpentOf(p) = SumFunctionOnSet(F, FeeTokens)
      /\ SpentOf(q) = SumFunctionOnSet(G, FeeTokens)
  BY DEF SpentOf
<1>. HIDE DEF F, G, paid
<1>6. \A t \in FeeTokens \ {token} : G[t] = F[t]
  BY <1>2
<1>7. SumFunctionOnSet(G, FeeTokens) = SumFunctionOnSet(F, FeeTokens) + G[token] - F[token]
  BY <1>4, <1>6, SumUpdate, FeesAssumption
<1>8. SumFunctionOnSet(F, FeeTokens) \in Int
  BY <1>4, SumType, FeesAssumption
<1>9. SpentOf(q) = SpentOf(p) + paid
  BY <1>3, <1>4, <1>5, <1>7, <1>8
<1>. QED
  BY <1>9 DEF paid

\* What a payer is charged is what it loses, and the escrow is left alone.
ChargeKept(p, q, fee) ==
    /\ q \in Balances
    /\ SpentOf(q) = SpentOf(p) + fee
    /\ \A t \in FeeTokens : q[t][Vault] = p[t][Vault]

LEMMA SpentIsInteger ==
    ASSUME NEW p \in Balances
    PROVE  SpentOf(p) \in Int
<1>. DEFINE F == [t \in FeeTokens |-> SumFunctionOnSet(ShortOf(p, t), FeeBusinesses)]
<1>1. ASSUME NEW t \in FeeTokens
      PROVE  F[t] \in Int
  <2>1. \A b \in FeeBusinesses : ShortOf(p, t)[b] \in Int
    BY FeesAssumption DEF ShortOf, Balances, Holders
  <2>2. SumFunctionOnSet(ShortOf(p, t), FeeBusinesses) \in Int
    BY <2>1, SumType, FeesAssumption
  <2>. QED
    BY <2>2
<1>2. \A t \in FeeTokens : F[t] \in Int
  BY <1>1
<1>3. SpentOf(p) = SumFunctionOnSet(F, FeeTokens)
  BY DEF SpentOf
<1>. HIDE DEF F
<1>. QED
  BY <1>2, <1>3, SumType, FeesAssumption

LEMMA ChargeIsSpent ==
    ASSUME NEW p \in Balances, NEW payer \in FeeBusinesses, NEW fee \in Nat,
           NEW c, fee > 0 => c \in FeeRecords
    PROVE  ChargeKept(p, Charged(p, payer, c, fee), fee)
<1>1. CASE fee > 0
  <2>. DEFINE token == c.token
              to == c.collector
              q == Moved(p, token, payer, to, fee)
  <2>1. /\ token \in FeeTokens /\ to \in FeeCollectors /\ to # payer /\ to # Vault
        /\ payer \in Holders /\ to \in Holders \ FeeBusinesses /\ payer # Vault
        /\ Vault \in Holders
    BY <1>1, FeesAssumption DEF FeeRecords, Holders
  <2>2. Charged(p, payer, c, fee) = q
    BY <1>1 DEF Charged
  <2>. HIDE DEF token, to
  <2>3. Transferred(p, q, token, payer, to, fee)
    BY <2>1, TransferMoves
  <2>. HIDE DEF q
  <2>4. SpentOf(q) = SpentOf(p) + (IF payer \in FeeBusinesses THEN fee ELSE 0)
    BY <2>1, <2>3, SpentAfter
  <2>5. SpentOf(q) = SpentOf(p) + fee
    BY <2>4
  <2>. QED
    BY <2>1, <2>2, <2>3, <2>5 DEF ChargeKept, Transferred
<1>2. CASE ~(fee > 0)
  <2>1. fee = 0 /\ Charged(p, payer, c, fee) = p
    BY <1>2 DEF Charged
  <2>. QED
    BY <2>1, SpentIsInteger DEF ChargeKept
<1>. QED
  BY <1>1, <1>2

\* The discounts never make a fee negative.
LEMMA FeeIsNatural ==
    ASSUME FeeSettings, NEW b \in FeeBusinesses, submitted \in [FeeBusinesses -> Nat],
           Reachable(feeDao), Computable(EffectiveConfig(feeDao, feeConfig))
    PROVE  /\ CalculateFee(b) \in Nat
           /\ CalculateFee(b) > 0 => EffectiveConfig(feeDao, feeConfig) \in FeeRecords
<1>. DEFINE c == EffectiveConfig(feeDao, feeConfig)
            x == tierDiscount[tierOf[b]]
            y == VolumeDiscountForCount(submitted[b])
<1>1. c \in FeeRecords \cup {Absent}
  BY EffectiveRecord DEF FeeSettings, Reachable
<1>2. x \in 0 .. FullScale
  BY DEF FeeSettings
<1>3. y \in 0 .. FullScale
  <2>. DEFINE S == {i \in DOMAIN brackets : submitted[b] >= brackets[i].threshold}
              R == [threshold : Nat, discount : 0 .. FullScale]
  <2>1. brackets \in Seq(R)
    BY DEF FeeSettings
  <2>2. CASE S = {}
    BY <2>2, FeesAssumption DEF VolumeDiscountForCount
  <2>3. CASE S # {}
    <3>1. S \subseteq 1 .. Len(brackets) /\ Len(brackets) \in Nat
      <4>. HIDE DEF R
      <4>. QED
        BY <2>1
    <3>2. y = brackets[Max(S)].discount
      BY <2>3 DEF VolumeDiscountForCount
    <3>. HIDE DEF S
    <3>3. \E m \in S : \A i \in S : i <= m
      BY <2>3, <3>1, LargestOf
    <3>4. \E m \in S : \A i \in S : m >= i
      BY <3>1, <3>3
    <3>5. Max(S) \in S
      BY <3>4 DEF Max
    <3>. DEFINE k == Max(S)
    <3>6. k \in 1 .. Len(brackets)
      BY <3>1, <3>5
    <3>. HIDE DEF k
    <3>7. brackets[k] \in R
      <4>. HIDE DEF R
      <4>. QED
        BY <2>1, <3>6
    <3>8. brackets[k].discount \in 0 .. FullScale
      BY <3>7
    <3>. QED
      BY <3>2, <3>8 DEF k
  <2>. QED
    BY <2>2, <2>3
<1>4. CASE c # Absent /\ c.on
  <2>1. c \in FeeRecords /\ c.fee \in Int /\ c.fee >= 0
    BY <1>1, <1>4 DEF FeeRecords, Computable
  <2>2. CalculateFee(b) = ComputeFee(c.fee, x, y)
    BY <1>4 DEF CalculateFee
  <2>. DEFINE base == c.fee
              u == FullScale - x
              v == FullScale - y
  <2>3. base \in Nat /\ u \in Nat /\ v \in Nat
    BY <1>2, <1>3, <2>1, FeesAssumption
  <2>4. ComputeFee(base, x, y) = (base * u * v) \div (FullScale * FullScale)
    BY DEF ComputeFee
  <2>. HIDE DEF base, u, v
  <2>5. base * u \in Nat
    BY <2>3
  <2>6. (base * u) * v \in Nat
    BY <2>3, <2>5
  <2>7. FullScale * FullScale \in Nat /\ FullScale * FullScale > 0
    BY FeesAssumption
  <2>. DEFINE top == base * u * v
              scale == FullScale * FullScale
  <2>8. top \in Nat /\ scale \in Nat /\ scale > 0
    BY <2>6, <2>7
  <2>. HIDE DEF top, scale
  <2>9. top \div scale \in Nat
    BY <2>8
  <2>. QED
    BY <2>1, <2>2, <2>4, <2>9 DEF top, scale, base
<1>5. CASE ~(c # Absent /\ c.on)
  BY <1>5 DEF CalculateFee
<1>. QED
  BY <1>4, <1>5

\* The sum of a list after one more entry.
LEMMA SumAppended ==
    ASSUME NEW list \in Seq(Nat), NEW x \in Nat
    PROVE  /\ SumFunction(Append(list, x)) = SumFunction(list) + x
           /\ SumFunction(list) \in Int
<1>. DEFINE new == Append(list, x)
            n == Len(list)
<1>1. /\ n \in Nat /\ DOMAIN list = 1 .. n /\ DOMAIN new = 1 .. n + 1
      /\ new[n + 1] = x /\ \A i \in 1 .. n : new[i] = list[i] /\ list[i] \in Int
  OBVIOUS
<1>2. /\ SumFunction(new) = SumFunctionOnSet(new, 1 .. n + 1)
      /\ SumFunction(list) = SumFunctionOnSet(list, 1 .. n)
  BY <1>1 DEF SumFunction
<1>. HIDE DEF new, n
<1>3. 1 .. n + 1 = 1 .. n \cup {n + 1} /\ n + 1 \notin 1 .. n /\ IsFiniteSet(1 .. n)
  <2>1. IsFiniteSet(1 .. n)
    BY <1>1, FS_Interval
  <2>2. 1 .. n + 1 = 1 .. n \cup {n + 1} /\ n + 1 \notin 1 .. n
    BY <1>1
  <2>. QED
    BY <2>1, <2>2
<1>. DEFINE S == 1 .. n
            y == n + 1
<1>4. /\ IsFiniteSet(S) /\ y \notin S /\ \A i \in S \cup {y} : new[i] \in Int
      /\ \A i \in S : new[i] = list[i] /\ list[i] \in Int
  BY <1>1, <1>3
<1>. HIDE DEF S, y
<1>5. SumFunctionOnSet(new, S \cup {y}) = new[y] + SumFunctionOnSet(new, S)
  BY <1>4, SumAdd
<1>6. SumFunctionOnSet(new, S) = SumFunctionOnSet(list, S)
  BY <1>4, SumCongruence
<1>7. SumFunctionOnSet(list, S) \in Int
  BY <1>4, SumType
<1>8. SumFunctionOnSet(new, 1 .. n + 1) = SumFunctionOnSet(new, S \cup {y})
  BY <1>3 DEF S, y
<1>9. SumFunction(list) \in Int /\ SumFunction(list) = SumFunctionOnSet(list, S)
  BY <1>2, <1>7 DEF S
<1>10. SumFunction(new) = x + SumFunction(list)
  BY <1>1, <1>2, <1>5, <1>6, <1>8, <1>9 DEF y
<1>. QED
  BY <1>9, <1>10 DEF new

RangeTotals(r) == [b \in FeeBusinesses |-> SumFunction(r[b])]

RecordedFees(e, r) == SumFunctionOnSet(e, FeePeriods)
                      + SumFunctionOnSet(RangeTotals(r), FeeBusinesses)

EscrowHeld(p, open) ==
    \A t \in FeeTokens :
        p[t][Vault] = IF open # Absent /\ open.token = t THEN open.escrowed ELSE 0

AccountInv ==
    /\ submitted \in [FeeBusinesses -> Nat]
    /\ rangeFees \in [FeeBusinesses -> Seq(Nat)]
    /\ epochFees \in [FeePeriods -> Nat]
    /\ purse \in Balances
    /\ rotation \in RotationRecords \cup {Absent}
    /\ SpentOf(purse) = RecordedFees(epochFees, rangeFees)
    /\ EscrowHeld(purse, rotation)

LEMMA AccountsMeanProperty ==
    ASSUME AccountInv
    PROVE  FeesAccountedFor
<1>1. DOMAIN epochFees = FeePeriods
  BY DEF AccountInv
<1>2. SpentOf(purse) = SumFunction([t \in FeeTokens |->
                          SumFunction([b \in FeeBusinesses |-> Purse - purse[t][b]])])
  BY DEF SpentOf, ShortOf, SumFunction
<1>3. RecordedFees(epochFees, rangeFees) = SumFunction(epochFees)
         + SumFunction([b \in FeeBusinesses |-> SumFunction(rangeFees[b])])
  BY <1>1 DEF RecordedFees, RangeTotals, SumFunction
<1>. QED
  BY <1>2, <1>3 DEF AccountInv, FeesAccountedFor, EscrowHeld

LEMMA RecordsAreIntegers ==
    ASSUME AccountInv
    PROVE  /\ \A p \in FeePeriods : epochFees[p] \in Int
           /\ \A b \in FeeBusinesses : RangeTotals(rangeFees)[b] \in Int
           /\ SumFunctionOnSet(epochFees, FeePeriods) \in Int
           /\ SumFunctionOnSet(RangeTotals(rangeFees), FeeBusinesses) \in Int
<1>1. \A p \in FeePeriods : epochFees[p] \in Int
  BY DEF AccountInv
<1>2. ASSUME NEW b \in FeeBusinesses
      PROVE  RangeTotals(rangeFees)[b] \in Int
  <2>1. rangeFees[b] \in Seq(Nat)
    BY DEF AccountInv
  <2>2. 0 \in Nat
    OBVIOUS
  <2>3. SumFunction(rangeFees[b]) \in Int
    BY <2>1, <2>2, SumAppended
  <2>. QED
    BY <2>3 DEF RangeTotals
<1>. QED
  BY <1>1, <1>2, SumType, FeesAssumption

LEMMA SubmissionAccounted ==
    ASSUME FlatInv, AccountInv, NEW payer \in FeeBusinesses, NEW b \in FeeBusinesses,
           NEW p \in FeePeriods, SubmitAttestation(payer, b, p)
    PROVE  AccountInv'
<1>. DEFINE c == EffectiveConfig(feeDao, feeConfig)
            k == EffectiveConfig(flatDao, flatConfig)
            d == CalculateFee(b)
            f == CalculateFlatFee
            after == Charged(purse, payer, c, d)
            end == Charged(after, payer, k, f)
<1>1. /\ Reachable(feeDao) /\ Computable(c) /\ purse' = end
      /\ submitted' = [submitted EXCEPT ![b] = @ + 1]
      /\ epochFees' = [epochFees EXCEPT ![p] = @ + (d + f)]
      /\ UNCHANGED <<rangeFees, rotation>>
  BY DEF SubmitAttestation, TotalFee, flatVars
<1>2. d \in Nat /\ (d > 0 => c \in FeeRecords)
  BY <1>1, FeeIsNatural DEF FlatInv, AccountInv
<1>3. f \in Nat /\ (f > 0 => k \in FeeRecords)
  <2>1. k \in FeeRecords \cup {Absent}
    BY EffectiveRecord DEF FlatInv
  <2>2. f = IF k # Absent /\ k.on /\ k.fee > 0 THEN k.fee ELSE 0
    BY DEF CalculateFlatFee
  <2>3. k # Absent => k \in FeeRecords /\ k.fee \in Int
    BY <2>1 DEF FeeRecords
  <2>. HIDE DEF f, k
  <2>. QED
    BY <2>2, <2>3
<1>4. purse \in Balances
  BY DEF AccountInv
<1>. HIDE DEF c, k, d, f
<1>5. ChargeKept(purse, after, d)
  BY <1>2, <1>4, ChargeIsSpent
<1>6. after \in Balances
  BY <1>5 DEF ChargeKept
<1>. HIDE DEF after
<1>7. ChargeKept(after, end, f)
  BY <1>3, <1>6, ChargeIsSpent
<1>. HIDE DEF end
<1>8. SpentOf(purse) \in Int
  BY <1>4, SpentIsInteger
<1>9. SpentOf(purse') = SpentOf(purse) + (d + f)
  BY <1>1, <1>2, <1>3, <1>5, <1>7, <1>8 DEF ChargeKept
<1>10. EscrowHeld(purse', rotation')
  BY <1>1, <1>5, <1>7 DEF ChargeKept, EscrowHeld, AccountInv
<1>11. /\ epochFees' \in [FeePeriods -> Nat] /\ epochFees'[p] = epochFees[p] + (d + f)
       /\ \A x \in FeePeriods \ {p} : epochFees'[x] = epochFees[x]
       /\ submitted' \in [FeeBusinesses -> Nat]
  BY <1>1, <1>2, <1>3 DEF AccountInv
<1>. DEFINE old == epochFees
            new == epochFees'
<1>12. /\ \A x \in FeePeriods : old[x] \in Int
       /\ new[p] \in Int /\ old[p] \in Int /\ new[p] = old[p] + (d + f)
       /\ \A x \in FeePeriods \ {p} : new[x] = old[x]
       /\ SumFunctionOnSet(old, FeePeriods) \in Int
  BY <1>11, RecordsAreIntegers
<1>. HIDE DEF old, new
<1>13. SumFunctionOnSet(new, FeePeriods) = SumFunctionOnSet(old, FeePeriods) + new[p] - old[p]
  BY <1>12, SumUpdate, FeesAssumption
<1>14. SumFunctionOnSet(new, FeePeriods) = SumFunctionOnSet(old, FeePeriods) + (d + f)
  BY <1>2, <1>3, <1>12, <1>13
<1>15. RangeTotals(rangeFees') = RangeTotals(rangeFees)
  BY <1>1 DEF RangeTotals
<1>16. RecordedFees(epochFees', rangeFees') = RecordedFees(epochFees, rangeFees) + (d + f)
  <2>1. /\ SumFunctionOnSet(epochFees, FeePeriods) \in Int
        /\ SumFunctionOnSet(RangeTotals(rangeFees), FeeBusinesses) \in Int
    BY RecordsAreIntegers
  <2>. QED
    BY <1>2, <1>3, <1>14, <1>15, <2>1 DEF RecordedFees, old, new
<1>. QED
  BY <1>1, <1>7, <1>9, <1>10, <1>11, <1>16 DEF AccountInv, ChargeKept

LEMMA RangeAccounted ==
    ASSUME FlatInv, AccountInv, NEW b \in FeeBusinesses, SubmitMultiPeriod(b)
    PROVE  AccountInv'
<1>. DEFINE c == EffectiveConfig(feeDao, feeConfig)
            d == CalculateFee(b)
            end == Charged(purse, b, c, d)
<1>1. /\ Reachable(feeDao) /\ Computable(c) /\ purse' = end
      /\ submitted' = [submitted EXCEPT ![b] = @ + 1]
      /\ rangeFees' = [rangeFees EXCEPT ![b] = Append(@, d)]
      /\ UNCHANGED <<epochFees, rotation>>
  BY DEF SubmitMultiPeriod, flatVars
<1>2. d \in Nat /\ (d > 0 => c \in FeeRecords)
  BY <1>1, FeeIsNatural DEF FlatInv, AccountInv
<1>3. purse \in Balances /\ rangeFees[b] \in Seq(Nat)
  BY DEF AccountInv
<1>. HIDE DEF c, d
<1>4. ChargeKept(purse, end, d)
  BY <1>2, <1>3, ChargeIsSpent
<1>. HIDE DEF end
<1>5. SpentOf(purse') = SpentOf(purse) + d /\ purse' \in Balances
  BY <1>1, <1>4 DEF ChargeKept
<1>6. EscrowHeld(purse', rotation')
  BY <1>1, <1>4 DEF ChargeKept, EscrowHeld, AccountInv
<1>7. /\ rangeFees' \in [FeeBusinesses -> Seq(Nat)]
      /\ rangeFees'[b] = Append(rangeFees[b], d)
      /\ \A x \in FeeBusinesses \ {b} : rangeFees'[x] = rangeFees[x]
      /\ submitted' \in [FeeBusinesses -> Nat]
  BY <1>1, <1>2 DEF AccountInv
<1>. DEFINE old == RangeTotals(rangeFees)
            new == RangeTotals(rangeFees')
<1>8. SumFunction(Append(rangeFees[b], d)) = SumFunction(rangeFees[b]) + d
  BY <1>2, <1>3, SumAppended
<1>9. /\ new[b] = old[b] + d
      /\ \A x \in FeeBusinesses \ {b} : new[x] = old[x]
  BY <1>7, <1>8 DEF RangeTotals
<1>10. /\ \A x \in FeeBusinesses : old[x] \in Int
       /\ SumFunctionOnSet(old, FeeBusinesses) \in Int
       /\ SumFunctionOnSet(epochFees, FeePeriods) \in Int
  BY RecordsAreIntegers
<1>. HIDE DEF old, new
<1>11. SumFunctionOnSet(new, FeeBusinesses) =
          SumFunctionOnSet(old, FeeBusinesses) + new[b] - old[b]
  <2>1. new[b] \in Int
    BY <1>2, <1>9, <1>10
  <2>. QED
    BY <1>9, <1>10, <2>1, SumUpdate, FeesAssumption
<1>12. SumFunctionOnSet(new, FeeBusinesses) = SumFunctionOnSet(old, FeeBusinesses) + d
  BY <1>2, <1>9, <1>10, <1>11
<1>13. RecordedFees(epochFees', rangeFees') = RecordedFees(epochFees, rangeFees) + d
  BY <1>1, <1>2, <1>10, <1>12 DEF RecordedFees, old, new
<1>. QED
  BY <1>1, <1>5, <1>6, <1>7, <1>13 DEF AccountInv

LEMMA AccountStep ==
    ASSUME FlatInv, AccountInv, [SuiteNext]_suiteVars
    PROVE  AccountInv'
<1>1. ASSUME NEW new \in FeeCollectors, ProposeCollectorRotation(new)
      PROVE  AccountInv'
  <2>. DEFINE token == flatConfig.token
              from == flatConfig.collector
              held == purse[token][from]
              q == Moved(purse, token, from, Vault, held)
              r == [old |-> from, new |-> new, token |-> token, escrowed |-> held]
  <2>1. /\ flatConfig # Absent /\ rotation = Absent /\ purse' = q /\ rotation' = r
        /\ UNCHANGED <<submitted, rangeFees, epochFees>>
    BY <1>1 DEF ProposeCollectorRotation, chargeVars
  <2>2. flatConfig \in FeeRecords /\ purse \in Balances
    BY <2>1 DEF FlatInv, AccountInv
  <2>3. /\ token \in FeeTokens /\ from \in FeeCollectors /\ from # Vault
        /\ from \in Holders /\ from \notin FeeBusinesses /\ Vault \in Holders \ FeeBusinesses
    BY <2>2, FeesAssumption DEF FeeRecords, Holders
  <2>. HIDE DEF token, from
  <2>4. held \in Int
    BY <2>2, <2>3 DEF Balances
  <2>5. r \in RotationRecords /\ r # Absent /\ r.token = token /\ r.escrowed = held
    BY <2>3, <2>4, FeesAssumption DEF RotationRecords
  <2>. HIDE DEF held, r
  <2>6. Transferred(purse, q, token, from, Vault, held)
    BY <2>2, <2>3, <2>4, TransferMoves
  <2>. HIDE DEF q
  <2>7. SpentOf(q) = SpentOf(purse) + (IF from \in FeeBusinesses THEN held ELSE 0)
    BY <2>2, <2>3, <2>4, <2>6, SpentAfter
  <2>8. SpentOf(q) = SpentOf(purse)
    BY <2>2, <2>3, <2>7, SpentIsInteger
  <2>9. EscrowHeld(q, r)
    <3>1. \A t \in FeeTokens : purse[t][Vault] = 0
      BY <2>1 DEF AccountInv, EscrowHeld
    <3>2. q[token][Vault] = held
      BY <2>3, <2>4, <2>6, <3>1 DEF Transferred
    <3>3. \A t \in FeeTokens : t # token => q[t][Vault] = 0
      BY <2>3, <2>6, <3>1 DEF Transferred
    <3>. QED
      BY <2>5, <3>2, <3>3 DEF EscrowHeld
  <2>. QED
    BY <2>1, <2>5, <2>6, <2>8, <2>9 DEF AccountInv, Transferred
<1>2. ASSUME AcceptCollectorRotation
      PROVE  AccountInv'
  <2>. DEFINE token == rotation.token
              to == rotation.new
              held == rotation.escrowed
              q == Moved(purse, token, Vault, to, held)
  <2>1. /\ rotation # Absent /\ purse' = q /\ rotation' = Absent
        /\ UNCHANGED <<submitted, rangeFees, epochFees>>
    BY <1>2 DEF AcceptCollectorRotation, chargeVars
  <2>2. rotation \in RotationRecords /\ purse \in Balances
    BY <2>1 DEF AccountInv
  <2>3. /\ token \in FeeTokens /\ to \in FeeCollectors /\ to # Vault /\ held \in Int
        /\ to \in Holders \ FeeBusinesses /\ Vault \in Holders /\ Vault \notin FeeBusinesses
    BY <2>2, FeesAssumption DEF RotationRecords, Holders
  <2>4. \A t \in FeeTokens : purse[t][Vault] = IF token = t THEN held ELSE 0
    BY <2>1 DEF AccountInv, EscrowHeld
  <2>. HIDE DEF token, to, held
  <2>5. Transferred(purse, q, token, Vault, to, held)
    BY <2>2, <2>3, TransferMoves
  <2>. HIDE DEF q
  <2>6. SpentOf(q) = SpentOf(purse) + (IF Vault \in FeeBusinesses THEN held ELSE 0)
    BY <2>2, <2>3, <2>5, SpentAfter
  <2>7. SpentOf(q) = SpentOf(purse)
    BY <2>2, <2>3, <2>6, SpentIsInteger
  <2>8. EscrowHeld(q, Absent)
    <3>1. q[token][Vault] = 0
      BY <2>3, <2>4, <2>5 DEF Transferred
    <3>2. \A t \in FeeTokens : t # token => q[t][Vault] = 0
      BY <2>3, <2>4, <2>5 DEF Transferred
    <3>. QED
      BY <3>1, <3>2 DEF EscrowHeld
  <2>. QED
    BY <2>1, <2>5, <2>7, <2>8 DEF AccountInv, Transferred
<1>3. ASSUME UNCHANGED <<submitted, rangeFees, epochFees, purse, rotation>>
      PROVE  AccountInv'
  BY <1>3 DEF AccountInv
<1>4. FeesNext \/ UNCHANGED feeVars
  BY DEF SuiteNext, SubmissionSideNext, submissionSide, suiteVars
<1>5. DynamicNext \/ DiscountsNext => AccountInv'
  BY <1>3 DEF DynamicNext, DiscountsNext, ConfigureFees, ProposeFeeConfig,
     CommitFeeConfig, CancelPendingFeeConfig, SetFeeEnabled, SetDao,
     SetTierDiscount, SetBusinessTier, SetVolumeBrackets, chargeVars, flatVars
<1>6. FlatNext \/ EpochsNext => AccountInv'
  BY <1>1, <1>2, <1>3 DEF FlatNext, EpochsNext, ConfigureFlatFee, SetFlatFeeDao,
     SetCurrentEpoch, ProposeDaoRotation, AcceptDaoRotation, CancelDaoRotation,
     chargeVars
<1>7. SubmitNext => AccountInv'
  BY SubmissionAccounted, RangeAccounted DEF SubmitNext
<1>8. DaoNextAnswer => AccountInv'
  BY <1>3 DEF DaoNextAnswer, DaoAnswers, chargeVars, flatVars
<1>. QED
  BY <1>3, <1>4, <1>5, <1>6, <1>7, <1>8 DEF FeesNext, feeVars, chargeVars, flatVars

LEMMA FeesInitially == SuiteInit => FlatInv /\ AccountInv
<1>. SUFFICES ASSUME SuiteInit PROVE FlatInv /\ AccountInv
  OBVIOUS
<1>0. FeesInit
  BY DEF SuiteInit
<1>1. FeeSettings
  <2>1. <<>> \in Seq([threshold : Nat, discount : 0 .. FullScale])
    OBVIOUS
  <2>. QED
    BY <1>0, <2>1, FeesAssumption DEF FeesInit, FeeSettings
<1>2. SnapshotsFollowHistory
  <2>1. Range(<<>>) = {} /\ IsInjective(<<>>) /\ Len(<<>>) = 0
    BY DEF Range, IsInjective
  <2>. QED
    BY <1>0, <2>1, FeesAssumption DEF FeesInit, SnapshotsFollowHistory
<1>3. FlatInv
  BY <1>0, <1>1, <1>2, FeesAssumption DEF FeesInit, FlatInv
<1>4. purse \in Balances /\ EscrowHeld(purse, rotation)
  <2>1. purse = [t \in FeeTokens |->
                   [a \in Holders |-> IF a \in FeeBusinesses THEN Purse ELSE 0]]
    BY <1>0 DEF FeesInit
  <2>2. Vault \in Holders /\ Vault \notin FeeBusinesses /\ Purse \in Int
    BY FeesAssumption DEF Holders
  <2>. QED
    BY <1>0, <2>1, <2>2 DEF FeesInit, Balances, EscrowHeld
<1>5. SpentOf(purse) = 0
  <2>. DEFINE F == [t \in FeeTokens |-> SumFunctionOnSet(ShortOf(purse, t), FeeBusinesses)]
  <2>1. ASSUME NEW t \in FeeTokens
        PROVE  F[t] = 0
    <3>1. \A b \in FeeBusinesses : ShortOf(purse, t)[b] = 0
      BY <1>0, FeesAssumption DEF FeesInit, ShortOf, Holders
    <3>2. SumFunctionOnSet(ShortOf(purse, t), FeeBusinesses) = 0
      BY <3>1, SumZero, FeesAssumption
    <3>. QED
      BY <3>2
  <2>2. \A t \in FeeTokens : F[t] = 0
    BY <2>1
  <2>3. SpentOf(purse) = SumFunctionOnSet(F, FeeTokens)
    BY DEF SpentOf
  <2>. HIDE DEF F
  <2>. QED
    BY <2>2, <2>3, SumZero, FeesAssumption
<1>6. RecordedFees(epochFees, rangeFees) = 0
  <2>1. \A p \in FeePeriods : epochFees[p] = 0
    BY <1>0 DEF FeesInit
  <2>2. SumFunctionOnSet(epochFees, FeePeriods) = 0
    BY <2>1, SumZero, FeesAssumption
  <2>3. SumFunction(<<>>) = 0
    <3>1. DOMAIN <<>> = {}
      OBVIOUS
    <3>. QED
      BY <3>1, SumEmpty DEF SumFunction
  <2>4. \A b \in FeeBusinesses : RangeTotals(rangeFees)[b] = 0
    BY <1>0, <2>3 DEF FeesInit, RangeTotals
  <2>5. SumFunctionOnSet(RangeTotals(rangeFees), FeeBusinesses) = 0
    BY <2>4, SumZero, FeesAssumption
  <2>. QED
    BY <2>2, <2>5 DEF RecordedFees
<1>7. AccountInv
  BY <1>0, <1>4, <1>5, <1>6 DEF FeesInit, AccountInv
<1>. QED
  BY <1>3, <1>7

\* For any businesses, collectors, tokens, DAOs and fees: every coin a payer is
\* short of is in the records, and the contract holds exactly the escrow of the
\* open rotation (collect_fee_from, collect_flat_fee,
\* propose_collector_rotation, accept_collector_rotation).
THEOREM FeesAlwaysAccountedFor == SuiteSpec => []FeesAccountedFor
<1>1. FlatInv /\ AccountInv /\ [SuiteNext]_suiteVars => FlatInv' /\ AccountInv'
  BY FlatStep, AccountStep
<1>2. AccountInv => FeesAccountedFor
  BY AccountsMeanProperty
<1>. QED
  BY <1>1, <1>2, FeesInitially, PTL DEF SuiteSpec

-----------------------------------------------------------------------------
(* The audit log's hash chain and indexes *)

IndexGrown(index, seqs, n) ==
    /\ Append(index, n) \in Seq(Nat)
    /\ Lists(Append(index, n), seqs \cup {n})

LEMMA IndexGrows ==
    ASSUME NEW index \in Seq(Nat), NEW seqs, Lists(index, seqs), NEW n \in Nat,
           \A x \in seqs : x < n
    PROVE  IndexGrown(index, seqs, n)
<1>. DEFINE new == Append(index, n)
            L == Len(index)
<1>1. /\ L \in Nat /\ DOMAIN index = 1 .. L /\ DOMAIN new = 1 .. L + 1
      /\ new \in Seq(Nat) /\ new[L + 1] = n
      /\ \A i \in 1 .. L : new[i] = index[i] /\ index[i] \in Nat
  OBVIOUS
<1>2. Enlisted(Nat, index, n)
  BY ListGrows
<1>3. Range(new) = seqs \cup {n}
  BY <1>2 DEF Enlisted, Lists
<1>. HIDE DEF new, L
<1>4. \A i \in 1 .. L : index[i] < n
  BY <1>1 DEF Lists, Range
<1>5. ASSUME NEW i \in 1 .. L + 1, NEW j \in 1 .. L + 1, i < j
      PROVE  new[i] < new[j]
  <2>1. i \in 1 .. L /\ (j \in 1 .. L \/ j = L + 1)
    BY <1>1, <1>5
  <2>2. CASE j \in 1 .. L
    BY <1>1, <1>5, <2>1, <2>2 DEF Lists
  <2>3. CASE j = L + 1
    BY <1>1, <1>4, <2>1, <2>3
  <2>. QED
    BY <2>1, <2>2, <2>3
<1>. QED
  BY <1>1, <1>3, <1>5 DEF IndexGrown, Lists, new

HashIn(log, i) == IF i = 0 THEN ZeroHash ELSE log[i].hash

ChainInv ==
    /\ AuditInv
    /\ byActor \in [Accounts -> Seq(Nat)]
    /\ bySource \in [Sources -> Seq(Nat)]
    /\ lastHash = HashIn(entries, Len(entries))
    /\ \A i \in DOMAIN entries :
          /\ entries[i].prev = HashIn(entries, i - 1)
          /\ entries[i].hash = EntryHash(i - 1, entries[i].call, HashIn(entries, i - 1))
    /\ \A a \in Accounts : Lists(byActor[a], SeqsOf("actor", a))
    /\ \A s \in Sources : Lists(bySource[s], SeqsOf("source", s))

LEMMA ChainStep ==
    ASSUME ChainInv, [SuiteNext]_suiteVars
    PROVE  ChainInv'
<1>0. AuditInv'
  BY AuditStep DEF ChainInv
<1>1. ASSUME UNCHANGED <<entries, byActor, bySource>>, lastHash' = HashIn(entries, Len(entries))
      PROVE  ChainInv'
  <2>1. \A f, v : SeqsOf(f, v)' = SeqsOf(f, v)
    BY <1>1 DEF SeqsOf
  <2>. QED
    BY <1>0, <1>1, <2>1 DEF ChainInv
<1>2. ASSUME NEW admin \in Accounts, NEW nonce \in 0 .. MaxNonce,
             AudInitialize(admin, nonce)
      PROVE  ChainInv'
  <2>1. /\ entries = <<>> /\ lastHash' = ZeroHash
        /\ UNCHANGED <<entries, byActor, bySource>>
    BY <1>2 DEF AudInitialize, ChainInv, AuditInv
  <2>2. HashIn(entries, Len(entries)) = ZeroHash
    BY <2>1 DEF HashIn
  <2>. QED
    BY <1>1, <2>1, <2>2
<1>3. ASSUME NEW r \in AuditRequests, DeliverAppend(r)
      PROVE  ChainInv'
  <2>. DEFINE n == Len(entries)
              e == [seq |-> n, call |-> r.call, prev |-> lastHash,
                    hash |-> EntryHash(n, r.call, lastHash)]
  <2>1. /\ entries' = Append(entries, e) /\ lastHash' = EntryHash(n, r.call, lastHash)
        /\ byActor' = [byActor EXCEPT ![r.call.actor] = Append(@, n)]
        /\ bySource' = [bySource EXCEPT ![r.call.source] = Append(@, n)]
    BY <1>3 DEF DeliverAppend
  <2>2. /\ r.call \in Calls /\ r.call.actor \in Accounts /\ r.call.source \in Sources
    BY DEF AuditRequests, Calls
  <2>3. /\ e.seq = n /\ e.call = r.call /\ e.prev = lastHash
        /\ e.hash = EntryHash(n, r.call, lastHash)
    OBVIOUS
  <2>4. n \in Nat /\ DOMAIN entries = 1 .. n
    BY SequenceFacts DEF ChainInv, AuditInv
  <2>. HIDE DEF e, n
  <2>5. Grown(entries, e)
    BY SequenceGrows DEF ChainInv, AuditInv
  <2>6. /\ Len(entries') = n + 1 /\ DOMAIN entries' = 1 .. n + 1
        /\ \A i \in 1 .. n : entries'[i] = entries[i]
        /\ entries'[n + 1] = e
    BY <2>1, <2>4, <2>5 DEF Grown, n
  <2>7. \A i \in 0 .. n : HashIn(entries', i) = HashIn(entries, i)
    BY <2>4, <2>6 DEF HashIn
  <2>8. HashIn(entries', n + 1) = EntryHash(n, r.call, lastHash) /\ lastHash = HashIn(entries, n)
    BY <2>3, <2>4, <2>6 DEF HashIn, ChainInv, n
  <2>9. ASSUME NEW i \in 1 .. n + 1
        PROVE  /\ entries'[i].prev = HashIn(entries', i - 1)
               /\ entries'[i].hash = EntryHash(i - 1, entries'[i].call, HashIn(entries', i - 1))
    <3>1. CASE i \in 1 .. n
      <4>1. i - 1 \in 0 .. n
        BY <2>4, <3>1
      <4>2. HashIn(entries', i - 1) = HashIn(entries, i - 1)
        BY <2>7, <4>1
      <4>3. /\ entries[i].prev = HashIn(entries, i - 1)
            /\ entries[i].hash = EntryHash(i - 1, entries[i].call, HashIn(entries, i - 1))
        BY <2>4, <3>1 DEF ChainInv
      <4>. QED
        BY <2>6, <3>1, <4>2, <4>3
    <3>2. CASE i = n + 1
      <4>1. i - 1 = n /\ entries'[i] = e
        BY <2>4, <2>6, <3>2
      <4>2. HashIn(entries', n) = HashIn(entries, n)
        BY <2>4, <2>7
      <4>. QED
        BY <2>3, <2>8, <4>1, <4>2
    <3>. QED
      BY <2>4, <3>1, <3>2
  <2>10. ASSUME NEW f \in {"actor", "source"}, NEW v
         PROVE  /\ \A x \in SeqsOf(f, v) : x < n
                /\ SeqsOf(f, v)' = IF r.call[f] = v THEN SeqsOf(f, v) \cup {n}
                                   ELSE SeqsOf(f, v)
    <3>1. \A i \in 1 .. n : entries[i].seq = i - 1
      BY <2>4 DEF ChainInv, AuditInv
    <3>2. \A x \in SeqsOf(f, v) : x < n
      BY <2>4, <3>1 DEF SeqsOf
    <3>3. DOMAIN entries' = DOMAIN entries \cup {n + 1}
      BY <2>4, <2>6
    <3>4. SeqsOf(f, v)' = IF r.call[f] = v THEN SeqsOf(f, v) \cup {n}
                          ELSE SeqsOf(f, v)
      BY <2>3, <2>4, <2>6, <3>3 DEF SeqsOf
    <3>. QED
      BY <3>2, <3>4
  <2>11. byActor' \in [Accounts -> Seq(Nat)]
         /\ \A a \in Accounts : Lists(byActor'[a], SeqsOf("actor", a)')
    <3>1. ASSUME NEW a \in Accounts
          PROVE  byActor'[a] \in Seq(Nat) /\ Lists(byActor'[a], SeqsOf("actor", a)')
      <4>. DEFINE S == SeqsOf("actor", a)
      <4>1. byActor[a] \in Seq(Nat) /\ Lists(byActor[a], S)
        BY DEF ChainInv
      <4>2. /\ \A x \in S : x < n
            /\ SeqsOf("actor", a)' = IF r.call["actor"] = a THEN S \cup {n} ELSE S
        BY <2>10
      <4>. HIDE DEF S
      <4>3. IndexGrown(byActor[a], S, n)
        BY <2>4, <4>1, <4>2, IndexGrows
      <4>4. CASE r.call.actor = a
        <5>1. byActor'[a] = Append(byActor[a], n)
          BY <2>1, <2>2, <4>4 DEF ChainInv
        <5>2. SeqsOf("actor", a)' = S \cup {n}
          BY <4>2, <4>4
        <5>. QED
          BY <4>3, <5>1, <5>2 DEF IndexGrown
      <4>5. CASE r.call.actor # a
        <5>1. byActor'[a] = byActor[a]
          BY <2>1, <2>2, <4>5 DEF ChainInv
        <5>2. SeqsOf("actor", a)' = S
          BY <4>2, <4>5
        <5>. QED
          BY <4>1, <5>1, <5>2
      <4>. QED
        BY <4>4, <4>5
    <3>2. byActor' = [a \in Accounts |-> byActor'[a]]
      BY <2>1 DEF ChainInv
    <3>. QED
      BY <3>1, <3>2
  <2>12. bySource' \in [Sources -> Seq(Nat)]
         /\ \A s \in Sources : Lists(bySource'[s], SeqsOf("source", s)')
    <3>1. ASSUME NEW s \in Sources
          PROVE  bySource'[s] \in Seq(Nat) /\ Lists(bySource'[s], SeqsOf("source", s)')
      <4>. DEFINE S == SeqsOf("source", s)
      <4>1. bySource[s] \in Seq(Nat) /\ Lists(bySource[s], S)
        BY DEF ChainInv
      <4>2. /\ \A x \in S : x < n
            /\ SeqsOf("source", s)' = IF r.call["source"] = s THEN S \cup {n} ELSE S
        BY <2>10
      <4>. HIDE DEF S
      <4>3. IndexGrown(bySource[s], S, n)
        BY <2>4, <4>1, <4>2, IndexGrows
      <4>4. CASE r.call.source = s
        <5>1. bySource'[s] = Append(bySource[s], n)
          BY <2>1, <2>2, <4>4 DEF ChainInv
        <5>2. SeqsOf("source", s)' = S \cup {n}
          BY <4>2, <4>4
        <5>. QED
          BY <4>3, <5>1, <5>2 DEF IndexGrown
      <4>5. CASE r.call.source # s
        <5>1. bySource'[s] = bySource[s]
          BY <2>1, <2>2, <4>5 DEF ChainInv
        <5>2. SeqsOf("source", s)' = S
          BY <4>2, <4>5
        <5>. QED
          BY <4>1, <5>1, <5>2
      <4>. QED
        BY <4>4, <4>5
    <3>2. bySource' = [s \in Sources |-> bySource'[s]]
      BY <2>1 DEF ChainInv
    <3>. QED
      BY <3>1, <3>2
  <2>13. lastHash' = HashIn(entries', n + 1) /\ Len(entries') = n + 1
    BY <2>1, <2>6, <2>8
  <2>14. lastHash' = HashIn(entries', Len(entries'))
    BY <2>13
  <2>. QED
    BY <1>0, <2>6, <2>9, <2>11, <2>12, <2>14 DEF ChainInv
<1>4. ASSUME NEW r \in AuditRequests, SignRequest(r)
      PROVE  ChainInv'
  BY <1>1, <1>4 DEF SignRequest, ChainInv
<1>5. ASSUME UNCHANGED auditVars
      PROVE  ChainInv'
  BY <1>1, <1>5 DEF auditVars, ChainInv
<1>6. AuditNext \/ UNCHANGED auditVars
  BY DEF SuiteNext, RecordSideNext, recordSide, suiteVars
<1>. QED
  BY <1>2, <1>3, <1>4, <1>5, <1>6 DEF AuditNext

LEMMA ChainMeansProperty ==
    ASSUME ChainInv
    PROVE  ChainCoversLog
  BY DEF ChainInv, ChainCoversLog, HashIn

-----------------------------------------------------------------------------
(* The batches of a portfolio add up *)

\* Where portfolios exist every snapshot was recorded by this clock.
BatchInv ==
    /\ portfolio \in [Portfolios -> Seq(SnapshotBusinesses)]
    /\ IF site \in {"metrics", "aggregated"}
       THEN \A k \in SnapshotKeys :
               snapshots[k] # Absent => snapshots[k].at \in 0 .. MaxClock[site]
       ELSE \A p \in Portfolios : portfolio[p] = <<>>

LEMMA BatchStep ==
    ASSUME WorldInv, SnapInv, BatchInv, [SuiteNext]_suiteVars
    PROVE  BatchInv'
<1>0. site' = site
  BY SuiteWorld DEF WorldStep
<1>1. ASSUME NEW caller, NEW k \in SnapshotKeys, NEW revenue \in SnapshotRevenues,
             RecordSnapshot(caller, k, revenue), UNCHANGED aggVars, site = "metrics"
      PROVE  BatchInv'
  <2>. DEFINE r == [revenue |-> revenue, at |-> clock]
  <2>1. snapshots' = [snapshots EXCEPT ![k] = r] /\ r.at = clock
    BY <1>1 DEF RecordSnapshot
  <2>2. clock \in 0 .. MaxClock[site] /\ UNCHANGED portfolio
    BY <1>1 DEF WorldInv, aggVars
  <2>. HIDE DEF r
  <2>3. \A j \in SnapshotKeys :
           snapshots'[j] # Absent => snapshots'[j].at \in 0 .. MaxClock[site]
    BY <1>1, <2>1, <2>2 DEF BatchInv, SnapInv
  <2>. QED
    BY <1>0, <1>1, <2>2, <2>3 DEF BatchInv
<1>2. ASSUME UNCHANGED snapshots, site \in {"metrics", "aggregated"},
             portfolio' \in [Portfolios -> Seq(SnapshotBusinesses)]
      PROVE  BatchInv'
  BY <1>0, <1>2 DEF BatchInv
<1>3. ASSUME UNCHANGED portfolio, site \notin {"metrics", "aggregated"}
      PROVE  BatchInv'
  BY <1>0, <1>3 DEF BatchInv
<1>4. ASSUME PortfolioCalls
      PROVE  portfolio' \in [Portfolios -> Seq(SnapshotBusinesses)]
  <2>1. ASSUME NEW caller, NEW nonce, NEW p \in Portfolios, NEW list \in BusinessLists,
               RegisterPortfolio(caller, nonce, p, list)
        PROVE  portfolio' \in [Portfolios -> Seq(SnapshotBusinesses)]
    <3>1. list \in Seq(SnapshotBusinesses)
      BY AggregatedAssumption
    <3>. QED
      BY <2>1, <3>1 DEF RegisterPortfolio, BatchInv
  <2>. QED
    BY <1>4, <2>1 DEF PortfolioCalls, AggInitialize, BatchInv
<1>5. ASSUME RootCalls
      PROVE  UNCHANGED portfolio
  BY <1>5 DEF RootCalls, SetPendingAdmin, SubmitAggregatedRoot, ActivateAdmin
<1>6. portfolio \in [Portfolios -> Seq(SnapshotBusinesses)]
  BY DEF BatchInv
<1>7. ASSUME AggregatedNext
      PROVE  BatchInv'
  <2>1. CASE site = "aggregated"
    <3>1. UNCHANGED snapshots
      BY <1>7, <2>1 DEF AggregatedNext, snapVars
    <3>2. portfolio' \in [Portfolios -> Seq(SnapshotBusinesses)]
      BY <1>4, <1>5, <1>6, <1>7, <2>1 DEF AggregatedNext, aggVars
    <3>. QED
      BY <1>2, <2>1, <3>1, <3>2
  <2>2. CASE site = "metrics"
    <3>1. ASSUME PortfolioCalls /\ UNCHANGED snapVars
          PROVE  BatchInv'
      BY <1>2, <1>4, <2>2, <3>1 DEF snapVars
    <3>2. ASSUME NEW caller, SnapInitialize(caller, FALSE), UNCHANGED aggVars
          PROVE  BatchInv'
      BY <1>2, <1>6, <2>2, <3>2 DEF SnapInitialize, aggVars
    <3>3. ASSUME UNCHANGED <<aggVars, snapVars>>
          PROVE  BatchInv'
      BY <1>2, <1>6, <2>2, <3>3 DEF aggVars, snapVars
    <3>. QED
      BY <1>1, <1>7, <2>2, <3>1, <3>2, <3>3 DEF AggregatedNext
  <2>. QED
    BY <1>7, <2>1, <2>2 DEF AggregatedNext
<1>8. ASSUME SnapshotNext, UNCHANGED aggVars
      PROVE  BatchInv'
  BY <1>3, <1>8 DEF SnapshotNext, aggVars
<1>9. ASSUME UNCHANGED <<aggVars, snapVars>>
      PROVE  BatchInv'
  BY <1>2, <1>3, <1>6, <1>9 DEF aggVars, snapVars
<1>10. \/ AggregatedNext
       \/ SnapshotNext /\ UNCHANGED aggVars
       \/ UNCHANGED <<aggVars, snapVars>>
  BY DEF SuiteNext, RecordSideNext, recordSide, suiteVars
<1>. QED
  BY <1>7, <1>8, <1>9, <1>10

Members(p) == {portfolio[p][i] : i \in DOMAIN portfolio[p]}

\* The snapshots of a business, split by the time they were recorded.
LEMMA BusinessBatches ==
    ASSUME SnapInv, NEW T, IsFiniteSet(T), NEW b \in SnapshotBusinesses,
           \A e \in SnapshotsOf(b) : snapshots[<<b, e>>].at \in T
    PROVE  /\ \A t \in T : Contribution(b, InBatch(b, t)) \in Int
           /\ SumFunctionOnSet([t \in T |-> Contribution(b, InBatch(b, t))], T) =
                 Contribution(b, SnapshotsOf(b))
<1>. DEFINE K == SnapshotsOf(b)
            h == [e \in K |-> snapshots[<<b, e>>].at]
            f == [e \in K |-> snapshots[<<b, e>>].revenue]
            g == [t \in T |-> Contribution(b, InBatch(b, t))]
<1>1. K \subseteq Epochs /\ IsFiniteSet(K)
  <2>1. K \subseteq Epochs
    BY DEF SnapshotsOf, SnapInv
  <2>. QED
    BY <2>1, SnapshotAssumption, FS_Subset
<1>2. ASSUME NEW e \in K
      PROVE  f[e] \in Int
  <2>1. <<b, e>> \in SnapshotKeys /\ snapshots[<<b, e>>] # Absent
    BY <1>1 DEF SnapshotsOf, SnapshotKeys
  <2>2. snapshots[<<b, e>>] \in SnapshotRecords
    BY <2>1 DEF SnapInv
  <2>. QED
    BY <2>2 DEF SnapshotRecords
<1>3. h \in [K -> T]
  OBVIOUS
<1>4. \A t \in T : InBatch(b, t) = Fibre(K, h, t)
  BY DEF InBatch, Fibre
<1>5. ASSUME NEW t \in T
      PROVE  g[t] = SumFunctionOnSet(f, Fibre(K, h, t)) /\ g[t] \in Int
  <2>. DEFINE J == Fibre(K, h, t)
              q == [e \in J |-> snapshots[<<b, e>>].revenue]
  <2>1. J \subseteq K /\ IsFiniteSet(J)
    BY <1>1, FS_Subset DEF Fibre
  <2>2. g[t] = SumFunctionOnSet(q, J)
    BY <1>4 DEF Contribution
  <2>3. \A e \in J : q[e] = f[e] /\ f[e] \in Int
    BY <1>2, <2>1
  <2>. HIDE DEF J, q, f, g
  <2>4. SumFunctionOnSet(q, J) = SumFunctionOnSet(f, J)
    BY <2>1, <2>3, SumCongruence
  <2>5. SumFunctionOnSet(f, J) \in Int
    BY <2>1, <2>3, SumType
  <2>. QED
    BY <2>2, <2>4, <2>5 DEF J
<1>6. Contribution(b, K) = SumFunctionOnSet(f, K)
  BY DEF Contribution
<1>7. \A t \in T : g[t] = Contribution(b, InBatch(b, t))
  OBVIOUS
<1>8. SumFunctionOnSet(g, T) = SumFunctionOnSet(f, K)
  <2>. HIDE DEF f, g, h, K
  <2>. QED
    BY <1>1, <1>2, <1>3, <1>5, SumPartition
<1>. QED
  BY <1>5, <1>6, <1>7, <1>8

LEMMA BatchesAddUp ==
    ASSUME WorldInv, SnapInv, BatchInv
    PROVE  BatchesSplitTotals
<1>. SUFFICES ASSUME NEW p \in Portfolios
              PROVE  /\ AggregatedMetrics(p).total =
                           SumFunctionOnSet([t \in 0 .. MaxClock[site] |->
                                                BatchMetrics(p, t).total],
                                            0 .. MaxClock[site])
                     /\ \A t \in 0 .. MaxClock[site] :
                           BatchConsistent(p, t) => BatchMetrics(p, t) = AggregatedMetrics(p)
  BY DEF BatchesSplitTotals
<1>. DEFINE T == 0 .. MaxClock[site]
            M == Members(p)
<1>1. IsFiniteSet(T)
  <2>1. MaxClock[site] \in Nat
    BY ProtocolAssumption DEF WorldInv
  <2>. QED
    BY <2>1, FS_Interval
<1>2. M \subseteq SnapshotBusinesses /\ IsFiniteSet(M)
  <2>1. portfolio[p] \in Seq(SnapshotBusinesses)
    BY DEF BatchInv
  <2>2. M \subseteq SnapshotBusinesses
    BY <2>1 DEF Members
  <2>. QED
    BY <2>2, SnapshotAssumption, FS_Subset
<1>3. ASSUME NEW b \in M, NEW e \in SnapshotsOf(b)
      PROVE  snapshots[<<b, e>>].at \in T
  <2>1. portfolio[p] # <<>>
    BY DEF Members
  <2>2. /\ <<b, e>> \in SnapshotKeys /\ snapshots[<<b, e>>] # Absent
    BY <1>2 DEF SnapshotsOf, SnapshotKeys, SnapInv
  <2>. QED
    BY <2>1, <2>2 DEF BatchInv
<1>. HIDE DEF M, T
<1>. DEFINE m == [b \in M |-> [t \in T |-> Contribution(b, InBatch(b, t))]]
            rows == [b \in M |-> Contribution(b, SnapshotsOf(b))]
<1>4. ASSUME NEW b \in M
      PROVE  /\ \A t \in T : m[b][t] \in Int
             /\ rows[b] = SumFunctionOnSet(m[b], T)
  <2>1. b \in SnapshotBusinesses /\ \A e \in SnapshotsOf(b) : snapshots[<<b, e>>].at \in T
    BY <1>2, <1>3
  <2>2. /\ \A t \in T : Contribution(b, InBatch(b, t)) \in Int
        /\ SumFunctionOnSet([t \in T |-> Contribution(b, InBatch(b, t))], T) =
              Contribution(b, SnapshotsOf(b))
    BY <1>1, <2>1, BusinessBatches
  <2>. QED
    BY <2>2
<1>5. ASSUME NEW kept
      PROVE  Metrics(p, kept).total =
                SumFunctionOnSet([b \in M |-> Contribution(b, kept[b])], M)
  BY DEF Metrics, M, Members
<1>6. AggregatedMetrics(p).total = SumFunctionOnSet(rows, M)
  <2>. DEFINE kept == [b \in SnapshotBusinesses |-> SnapshotsOf(b)]
  <2>1. [b \in M |-> Contribution(b, kept[b])] = rows
    BY <1>2
  <2>. QED
    BY <1>5, <2>1 DEF AggregatedMetrics
<1>7. ASSUME NEW t \in T
      PROVE  BatchMetrics(p, t).total = ColumnSums(m, M, T)[t]
  <2>. DEFINE kept == [b \in SnapshotBusinesses |-> InBatch(b, t)]
  <2>1. [b \in M |-> Contribution(b, kept[b])] = [b \in M |-> m[b][t]]
    BY <1>2
  <2>2. BatchMetrics(p, t).total = SumFunctionOnSet([b \in M |-> Contribution(b, kept[b])], M)
    BY <1>5 DEF BatchMetrics
  <2>3. ColumnSums(m, M, T)[t] = SumFunctionOnSet([b \in M |-> m[b][t]], M)
    BY DEF ColumnSums
  <2>. QED
    BY <2>1, <2>2, <2>3
<1>8. [t \in T |-> BatchMetrics(p, t).total] = ColumnSums(m, M, T)
  <2>1. ColumnSums(m, M, T) = [t \in T |-> ColumnSums(m, M, T)[t]]
    BY DEF ColumnSums
  <2>. HIDE DEF m
  <2>. QED
    BY <1>7, <2>1
<1>9. SumFunctionOnSet(rows, M) = SumFunctionOnSet(ColumnSums(m, M, T), T)
  <2>1. /\ \A b \in M, t \in T : m[b][t] \in Int
        /\ \A b \in M : rows[b] = SumFunctionOnSet(m[b], T)
    BY <1>4
  <2>. HIDE DEF m, rows
  <2>. QED
    BY <1>1, <1>2, <2>1, SumSwap
<1>10. ASSUME NEW t \in T, BatchConsistent(p, t)
       PROVE  BatchMetrics(p, t) = AggregatedMetrics(p)
  <2>. DEFINE all == [b \in SnapshotBusinesses |-> SnapshotsOf(b)]
              part == [b \in SnapshotBusinesses |-> InBatch(b, t)]
  <2>1. \A b \in M : part[b] = all[b]
    <3>1. \A b \in M : InBatch(b, t) = SnapshotsOf(b)
      BY <1>10 DEF BatchConsistent, InBatch, M, Members
    <3>. QED
      BY <1>2, <3>1
  <2>. HIDE DEF all, part
  <2>2. {b \in M : part[b] # {}} = {b \in M : all[b] # {}}
    BY <2>1
  <2>3. [b \in M |-> Contribution(b, part[b])] = [b \in M |-> Contribution(b, all[b])]
    BY <2>1
  <2>4. Metrics(p, part) = Metrics(p, all)
    BY <2>2, <2>3 DEF Metrics, M, Members
  <2>. QED
    BY <2>4 DEF BatchMetrics, AggregatedMetrics, all, part
<1>. QED
  BY <1>6, <1>8, <1>9, <1>10 DEF T

-----------------------------------------------------------------------------
(* All that is kept or computed twice *)

RangesInv == MultiPeriodTypeOK /\ NoOverlap /\ IndexFindsNewest

SideRecordsInv ==
    /\ WorldInv /\ SnapInv /\ BatchInv
    /\ RegistryInv /\ LenderInv /\ IntegrationInv
    /\ NetworkInv /\ ChainInv /\ FlatInv /\ RangesInv

\* The ranges' contract takes a step of its own or none.
LEMMA RangesStep ==
    ASSUME RangesInv, [SuiteNext]_suiteVars
    PROVE  RangesInv'
<1>1. [Next]_vars
  BY DEF SuiteNext, RecordSideNext, recordSide, suiteVars
<1>. QED
  BY <1>1, TypeStep, OverlapStep, IndexStep DEF RangesInv

LEMMA EmptyList == Range(<<>>) = {} /\ IsInjective(<<>>)
  BY DEF Range, IsInjective

LEMMA SideRecordsInitially == SuiteInit => SideRecordsInv
<1>. SUFFICES ASSUME SuiteInit PROVE SideRecordsInv
  OBVIOUS
<1>1. WorldInv /\ SnapInv /\ FlatInv
  BY SnapshotsInitially, FeesInitially
<1>2. BatchInv
  <2>1. SnapshotInit /\ AggregatedInit
    BY DEF SuiteInit
  <2>. QED
    BY <2>1 DEF SnapshotInit, AggregatedInit, BatchInv
<1>3. RegistryInv
  <2>1. RegistryInit
    BY DEF SuiteInit
  <2>. QED
    BY <2>1 DEF RegistryInit, RegistryInv, RollbackTargetDiffers
<1>4. LenderInv
  <2>1. LenderInit
    BY DEF SuiteInit
  <2>. QED
    BY <2>1, EmptyList DEF LenderInit, LenderInv, AnomalyIsCurrent
<1>5. IntegrationInv
  <2>1. IntegrationInit
    BY DEF SuiteInit
  <2>2. ProvidersListed
    BY <2>1, EmptyList DEF IntegrationInit, ProvidersListed
  <2>. QED
    BY <2>1, <2>2 DEF IntegrationInit, IntegrationInv
<1>6. NetworkInv
  <2>1. NetworkInit
    BY DEF SuiteInit
  <2>2. GlobalVersionCounts
    <3>1. \A n \in NetworkIds : netVersion[n] = 0
      BY <2>1 DEF NetworkInit
    <3>2. SumFunctionOnSet(netVersion, NetworkIds) = 0
      BY <3>1, SumZero, NetworkAssumption
    <3>. QED
      BY <2>1, <3>2 DEF NetworkInit, GlobalVersionCounts
  <2>3. HoldersAndNetworksListed
    BY <2>1, EmptyList DEF NetworkInit, HoldersAndNetworksListed
  <2>. QED
    BY <2>1, <2>2, <2>3 DEF NetworkInit, NetworkInv
<1>7. ChainInv
  <2>1. AuditInit
    BY DEF SuiteInit
  <2>2. AuditInv
    BY <2>1 DEF AuditInit, AuditInv, IsSequence
  <2>3. \A f, v : SeqsOf(f, v) = {}
    BY <2>1 DEF AuditInit, SeqsOf
  <2>4. Lists(<<>>, {}) /\ <<>> \in Seq(Nat)
    BY EmptyList DEF Lists
  <2>5. Len(<<>>) = 0 /\ DOMAIN <<>> = {}
    OBVIOUS
  <2>6. lastHash = HashIn(entries, Len(entries)) /\ DOMAIN entries = {}
    BY <2>1, <2>5 DEF AuditInit, HashIn
  <2>7. /\ byActor = [a \in Accounts |-> <<>>]
        /\ bySource = [s \in Sources |-> <<>>]
    BY <2>1 DEF AuditInit
  <2>8. /\ \A a \in Accounts : Lists(byActor[a], SeqsOf("actor", a))
        /\ \A s \in Sources : Lists(bySource[s], SeqsOf("source", s))
    BY <2>3, <2>4, <2>7
  <2>9. byActor \in [Accounts -> Seq(Nat)] /\ bySource \in [Sources -> Seq(Nat)]
    BY <2>4, <2>7
  <2>. QED
    BY <2>2, <2>6, <2>8, <2>9 DEF ChainInv
<1>8. RangesInv
  <2>1. Init
    BY DEF SuiteInit
  <2>2. NoOverlap /\ IndexFindsNewest
    BY <2>1 DEF Init, NoOverlap, IndexFindsNewest
  <2>. QED
    BY <2>1, <2>2, TypeInit DEF RangesInv
<1>. QED
  BY <1>1, <1>2, <1>3, <1>4, <1>5, <1>6, <1>7, <1>8 DEF SideRecordsInv

LEMMA SideRecordsStep ==
    ASSUME SideRecordsInv, [SuiteNext]_suiteVars
    PROVE  SideRecordsInv'
<1>1. WorldInv' /\ SnapInv' /\ BatchInv'
  BY SuiteWorld, SnapshotStep, BatchStep DEF SideRecordsInv
<1>2. RegistryInv' /\ LenderInv' /\ IntegrationInv'
  BY RegistryStep, LenderStep, IntegrationStep DEF SideRecordsInv
<1>3. NetworkInv' /\ ChainInv'
  BY NetworkStep, ChainStep DEF SideRecordsInv
<1>4. FlatInv' /\ RangesInv'
  BY FlatStep, RangesStep DEF SideRecordsInv
<1>. QED
  BY <1>1, <1>2, <1>3, <1>4 DEF SideRecordsInv

\* In every contract of the suite what is kept or computed twice says the same
\* both times, for any accounts, businesses, epochs, networks, providers and
\* bounds: indexes and records, portfolio totals and their batches, lists and
\* maps, versions, the audit log's hash chain, the fee history and the two
\* implementations of a rollback (set_lender, register_provider, append,
\* persist_epoch_snapshot, get_aggregated_metrics_for_batch, rollback, ...).
THEOREM SideRecordsAlwaysAgree == SuiteSpec => []SideRecordsAgree
<1>1. SideRecordsInv /\ [SuiteNext]_suiteVars => SideRecordsInv'
  BY SideRecordsStep
<1>2. ASSUME SideRecordsInv
      PROVE  SideRecordsAgree
  <2>1. SnapshotIndexesAgree
    BY <1>2 DEF SideRecordsInv, SnapInv
  <2>2. BatchesSplitTotals /\ LendersListed /\ ChainCoversLog
    BY <1>2, BatchesAddUp, ListedLendersAllowed, ChainMeansProperty DEF SideRecordsInv
  <2>3. ProvidersListed /\ AnomalyIsCurrent /\ RollbackTargetDiffers
    BY <1>2 DEF SideRecordsInv, IntegrationInv, LenderInv, RegistryInv
  <2>4. HoldersAndNetworksListed /\ GlobalVersionCounts
    BY <1>2 DEF SideRecordsInv, NetworkInv
  <2>5. SnapshotsFollowHistory /\ IndexFindsNewest
    BY <1>2 DEF SideRecordsInv, FlatInv, RangesInv
  <2>. QED
    BY <2>1, <2>2, <2>3, <2>4, <2>5 DEF SideRecordsAgree
<1>. QED
  BY <1>1, <1>2, SideRecordsInitially, PTL DEF SuiteSpec

-----------------------------------------------------------------------------
(* Rate limits: pruning forgets nothing that still counts *)

Nondecreasing(list) == \A i, j \in DOMAIN list : i <= j => list[i] <= list[j]

\* The first j entries of the list are out of the window, the others in it.
CutAt(list, at, width, j) ==
    /\ j \in 0 .. Len(list)
    /\ \A i \in 1 .. j : ~WithinWindow(list[i], at, width)
    /\ \A i \in j + 1 .. Len(list) : WithinWindow(list[i], at, width)

\* In a list in order the entries of a window are the last ones.
LEMMA CutExists ==
    ASSUME NEW list \in Seq(Nat), Nondecreasing(list), NEW at \in Nat, NEW width \in Nat
    PROVE  \E j \in 0 .. Len(list) : CutAt(list, at, width, j)
<1>. DEFINE In == {i \in 1 .. Len(list) : WithinWindow(list[i], at, width)}
<1>1. CASE In = {}
  <2>1. CutAt(list, at, width, Len(list))
    BY <1>1 DEF CutAt
  <2>. QED
    BY <2>1
<1>2. CASE In # {}
  <2>1. PICK m \in In : \A i \in In : m <= i
    <3>1. In \subseteq Nat
      OBVIOUS
    <3>. HIDE DEF In
    <3>. QED
      BY <1>2, <3>1, LeastNatural
  <2>2. m \in 1 .. Len(list) /\ m - 1 \in 0 .. Len(list)
    OBVIOUS
  <2>3. \A i \in 1 .. m - 1 : ~WithinWindow(list[i], at, width)
    BY <2>1, <2>2
  <2>4. \A i \in m .. Len(list) : WithinWindow(list[i], at, width)
    BY <2>1, <2>2 DEF WithinWindow, Nondecreasing
  <2>5. CutAt(list, at, width, m - 1)
    BY <2>2, <2>3, <2>4 DEF CutAt
  <2>. QED
    BY <2>2, <2>5
<1>. QED
  BY <1>1, <1>2

KeepsAs(list, at, width, kept) ==
    kept = [n \in 0 .. Len(list) |->
              IF n = 0 THEN <<>>
              ELSE IF WithinWindow(list[n], at, width)
                   THEN Append(kept[n - 1], list[n])
                   ELSE kept[n - 1]]

\* What the loop of analyze_submission_windows keeps is the part after the cut.
LEMMA PrunedAfterCut ==
    ASSUME NEW list \in Seq(Nat), NEW at \in Nat, NEW width \in Nat,
           NEW j, CutAt(list, at, width, j)
    PROVE  Pruned(list, at, width) = SubSeq(list, j + 1, Len(list))
<1>. DEFINE L == Len(list)
            g == [n \in 0 .. L |-> IF n <= j THEN <<>> ELSE SubSeq(list, j + 1, n)]
            kept == CHOOSE k : KeepsAs(list, at, width, k)
<1>1. L \in Nat /\ j \in 0 .. L /\ \A i \in 1 .. L : list[i] \in Nat
  BY DEF CutAt
<1>2. ASSUME NEW n \in 1 .. L
      PROVE  g[n] = IF WithinWindow(list[n], at, width)
                    THEN Append(g[n - 1], list[n])
                    ELSE g[n - 1]
  <2>1. n - 1 \in 0 .. L /\ n \in 0 .. L
    BY <1>1
  <2>2. CASE n <= j
    BY <1>1, <2>1, <2>2 DEF CutAt
  <2>3. CASE n = j + 1
    <3>1. WithinWindow(list[n], at, width) /\ g[n - 1] = <<>> /\ g[n] = SubSeq(list, n, n)
      BY <1>1, <2>1, <2>3 DEF CutAt
    <3>2. Append(SubSeq(list, n, n - 1), list[n]) = SubSeq(list, n, n)
      BY <1>1
    <3>3. SubSeq(list, n, n - 1) = <<>>
      BY <1>1
    <3>. QED
      BY <3>1, <3>2, <3>3
  <2>4. CASE n > j + 1
    <3>1. /\ WithinWindow(list[n], at, width)
          /\ g[n - 1] = SubSeq(list, j + 1, n - 1) /\ g[n] = SubSeq(list, j + 1, n)
      BY <1>1, <2>1, <2>4 DEF CutAt
    <3>2. Append(SubSeq(list, j + 1, n - 1), list[n]) = SubSeq(list, j + 1, n)
      BY <1>1, <2>4
    <3>. QED
      BY <3>1, <3>2
  <2>. QED
    BY <1>1, <2>2, <2>3, <2>4
<1>3. KeepsAs(list, at, width, g)
  <2>1. g[0] = <<>>
    BY <1>1
  <2>2. \A n \in 0 .. L : n # 0 => n \in 1 .. L
    OBVIOUS
  <2>3. DOMAIN g = 0 .. L /\ g = [n \in 0 .. L |-> g[n]]
    OBVIOUS
  <2>. HIDE DEF g
  <2>. QED
    BY <1>2, <2>1, <2>2, <2>3 DEF KeepsAs
<1>4. KeepsAs(list, at, width, kept)
  BY <1>3
<1>. HIDE DEF g, kept
<1>5. \A n \in 0 .. L : kept[n] = g[n]
  <2>. DEFINE Bad == {n \in 0 .. L : kept[n] # g[n]}
  <2>1. SUFFICES ASSUME Bad # {} PROVE FALSE
    OBVIOUS
  <2>2. PICK n \in Bad : \A m \in Bad : n <= m
    <3>1. Bad \subseteq Nat
      OBVIOUS
    <3>. HIDE DEF Bad
    <3>. QED
      BY <2>1, <3>1, LeastNatural
  <2>3. n \in 0 .. L /\ kept[n] # g[n]
    BY <2>2
  <2>4. n # 0
    BY <1>3, <1>4, <2>3 DEF KeepsAs
  <2>5. n - 1 \in 0 .. L /\ n - 1 < n
    BY <2>3, <2>4
  <2>6. kept[n - 1] = g[n - 1]
    BY <2>2, <2>3, <2>5
  <2>7. /\ kept[n] = IF WithinWindow(list[n], at, width)
                     THEN Append(kept[n - 1], list[n]) ELSE kept[n - 1]
        /\ g[n] = IF WithinWindow(list[n], at, width)
                  THEN Append(g[n - 1], list[n]) ELSE g[n - 1]
    BY <1>3, <1>4, <2>3, <2>4 DEF KeepsAs
  <2>. QED
    BY <2>3, <2>6, <2>7
<1>6. Pruned(list, at, width) = kept[L]
  BY DEF Pruned, KeepsAs, kept
<1>7. g[L] = SubSeq(list, j + 1, L)
  <2>1. L <= j => SubSeq(list, j + 1, L) = <<>>
    BY <1>1
  <2>. QED
    BY <1>1, <2>1 DEF g
<1>8. L \in 0 .. L
  BY <1>1
<1>. HIDE DEF L
<1>9. kept[L] = g[L]
  BY <1>5, <1>8
<1>. QED
  BY <1>6, <1>7, <1>9 DEF L

\* Of any n + 1 accepted submissions the last comes more than w after the first.
Spaced(accepted, n, w) ==
    \A i \in 1 .. Len(accepted) - n : accepted[i] + w < accepted[i + n]

\* The stored times of a business beside the accepted ones: from the end both
\* lists read the same, and what only the accepted ones hold is out of the window.
Logged(stored, high, accepted, c) ==
    /\ stored \in Seq(Nat) /\ accepted \in Seq(Nat) /\ high \in Nat
    /\ Nondecreasing(stored) /\ Nondecreasing(accepted)
    /\ \A i \in DOMAIN stored : stored[i] <= high
    /\ \A i \in DOMAIN accepted : accepted[i] <= high
    /\ Len(stored) <= MaxLimit
    /\ \A d \in 0 .. Len(stored) - 1 :
          d < Len(accepted) => stored[Len(stored) - d] = accepted[Len(accepted) - d]
    /\ c # Absent =>
          /\ \A i \in 1 .. Len(accepted) - Len(stored) : accepted[i] + c.window < high
          /\ Spaced(accepted, c.max, c.window)
          /\ Spaced(accepted, c.burst, c.burstWindow)

LimitsInv ==
    /\ limit \in LimitConfigs \cup {Absent}
    /\ limit # Absent => ValidLimit(limit)
    /\ stamps \in [Limited -> Seq(Nat)]
    /\ taken \in [Limited -> Seq(Nat)]
    /\ highWater \in [Limited -> Nat]
    /\ \A b \in Limited : Logged(stamps[b], highWater[b], taken[b], limit)

LEMMA LimitFields ==
    ASSUME NEW c, ValidLimit(c)
    PROVE  /\ c.max \in Nat \ {0} /\ c.max <= MaxLimit /\ c.window \in Nat
           /\ c.burst \in Nat \ {0} /\ c.burstWindow \in Nat /\ c.burstWindow <= c.window
  BY LimitsAssumption DEF ValidLimit

\* Spaced submissions never crowd a window.
LEMMA SpacedCounts ==
    ASSUME NEW k \in Seq(Nat), Nondecreasing(k), NEW n \in Nat, NEW w \in Nat,
           Spaced(k, n, w), NEW end \in Nat
    PROVE  Cardinality({i \in DOMAIN k : k[i] \in (end - w) + 1 .. end}) <= n
<1>. DEFINE H == {i \in DOMAIN k : k[i] \in (end - w) + 1 .. end}
<1>1. H \subseteq Nat /\ \A i \in H : /\ i \in 1 .. Len(k) /\ k[i] \in Nat
                                      /\ k[i] <= end /\ end <= k[i] + w
  OBVIOUS
<1>2. \A i, j \in 1 .. Len(k) : i <= j => k[i] <= k[j]
  BY DEF Nondecreasing
<1>. HIDE DEF H
<1>3. CASE H = {}
  <2>1. Cardinality(H) = 0
    BY <1>3, FS_EmptySet
  <2>. QED
    BY <2>1 DEF H
<1>4. CASE H # {}
  <2>1. PICK m \in H : \A i \in H : m <= i
    BY <1>1, <1>4, LeastNatural
  <2>2. m \in 1 .. Len(k) /\ end <= k[m] + w /\ k[m] \in Nat /\ Len(k) \in Nat
    BY <1>1, <2>1
  <2>3. ASSUME NEW i \in H
        PROVE  i \in m .. m + n - 1
    <3>1. i \in 1 .. Len(k) /\ k[i] <= end /\ k[i] \in Nat /\ m <= i
      BY <1>1, <2>1
    <3>2. CASE i >= m + n
      <4>1. m + n \in 1 .. Len(k) /\ m \in 1 .. Len(k) - n
        BY <2>2, <3>1, <3>2
      <4>2. k[m + n] <= k[i]
        BY <1>2, <3>1, <3>2, <4>1
      <4>3. k[m] + w < k[m + n]
        BY <4>1 DEF Spaced
      <4>4. k[m + n] \in Nat
        BY <4>1
      <4>. DEFINE first == k[m]
                  next == k[m + n]
      <4>5. /\ first \in Nat /\ next \in Nat /\ k[i] \in Nat
            /\ next <= k[i] /\ k[i] <= end /\ end <= first + w /\ first + w < next
        BY <2>2, <3>1, <4>2, <4>3, <4>4
      <4>. HIDE DEF first, next
      <4>. QED
        BY <4>5
    <3>. QED
      BY <2>2, <3>1, <3>2
  <2>4. IsFiniteSet(m .. m + n - 1) /\ Cardinality(m .. m + n - 1) = n
    <3>1. m \in Int /\ m + n - 1 \in Int
      BY <2>2
    <3>2. /\ IsFiniteSet(m .. m + n - 1)
          /\ Cardinality(m .. m + n - 1) =
                IF m > m + n - 1 THEN 0 ELSE (m + n - 1) - m + 1
      BY <3>1, FS_Interval
    <3>3. (m + n - 1) - m + 1 = n /\ (m > m + n - 1 => n = 0)
      BY <2>2
    <3>. QED
      BY <3>2, <3>3
  <2>5. H \subseteq m .. m + n - 1
    BY <2>3
  <2>6. Cardinality(H) <= Cardinality(m .. m + n - 1)
    BY <2>4, <2>5, FS_Subset
  <2>. QED
    BY <2>4, <2>6 DEF H
<1>. QED
  BY <1>3, <1>4

\* With fewer than n stored times in a window, the n-th last submission is out
\* of it.
LEMMA OldEnough ==
    ASSUME NEW c, ValidLimit(c), c # Absent, NEW s, NEW h, NEW k, Logged(s, h, k, c),
           NEW at \in Nat, h <= at, NEW w \in Nat, w <= c.window,
           NEW n \in Nat \ {0}, Len(Pruned(s, at, w)) < n, n <= Len(k)
    PROVE  k[Len(k) + 1 - n] + w < at
<1>1. PICK j \in 0 .. Len(s) : CutAt(s, at, w, j)
  BY CutExists DEF Logged
<1>2. /\ s \in Seq(Nat) /\ k \in Seq(Nat) /\ h \in Nat
      /\ Len(s) \in Nat /\ Len(k) \in Nat
  BY DEF Logged
<1>0. c.window \in Nat
  BY LimitFields
<1>3. Len(s) - j < n
  <2>1. Pruned(s, at, w) = SubSeq(s, j + 1, Len(s))
    BY <1>1, <1>2, PrunedAfterCut
  <2>2. Len(SubSeq(s, j + 1, Len(s))) = Len(s) - j
    BY <1>1, <1>2
  <2>. QED
    BY <2>1, <2>2
<1>4. CASE n <= Len(s)
  <2>1. n - 1 \in 0 .. Len(s) - 1 /\ n - 1 < Len(k)
    BY <1>2, <1>4
  <2>2. s[Len(s) - (n - 1)] = k[Len(k) - (n - 1)]
    BY <2>1 DEF Logged
  <2>3. Len(s) - (n - 1) \in 1 .. j /\ Len(s) - (n - 1) \in 1 .. Len(s)
    BY <1>1, <1>2, <1>3, <1>4
  <2>4. ~WithinWindow(s[Len(s) - (n - 1)], at, w) /\ s[Len(s) - (n - 1)] \in Nat
    <3>1. \A i \in 1 .. j : ~WithinWindow(s[i], at, w)
      BY <1>1 DEF CutAt
    <3>2. \A i \in 1 .. Len(s) : s[i] \in Nat
      BY ONLY <1>2
    <3>. QED
      BY <2>3, <3>1, <3>2
  <2>5. Len(k) - (n - 1) = Len(k) + 1 - n
    BY <1>2
  <2>. QED
    BY <2>2, <2>4, <2>5 DEF WithinWindow
<1>5. CASE n > Len(s)
  <2>1. Len(k) + 1 - n \in 1 .. Len(k) - Len(s)
    BY <1>2, <1>5
  <2>2. \A i \in 1 .. Len(k) - Len(s) : k[i] + c.window < h
    BY DEF Logged
  <2>. DEFINE x == k[Len(k) + 1 - n]
  <2>3. x + c.window < h /\ x \in Nat
    <3>1. Len(k) + 1 - n \in 1 .. Len(k)
      BY <1>2, <2>1
    <3>2. x \in Nat
      BY <1>2, <3>1
    <3>. QED
      BY <2>1, <2>2, <3>2
  <2>. HIDE DEF x
  <2>4. x + w < at
    <3>1. x + w <= x + c.window
      BY ONLY <1>0, <2>3, w \in Nat, w <= c.window
    <3>. QED
      BY ONLY <1>0, <1>2, <2>3, <3>1, w \in Nat, at \in Nat, h <= at
  <2>. QED
    BY <2>4 DEF x
<1>. QED
  BY <1>2, <1>4, <1>5

\* One more accepted submission keeps the submissions spaced.
LEMMA SpacedStill ==
    ASSUME NEW k \in Seq(Nat), NEW n \in Nat \ {0}, NEW w \in Nat, Spaced(k, n, w),
           NEW at \in Nat, n <= Len(k) => k[Len(k) + 1 - n] + w < at
    PROVE  Spaced(Append(k, at), n, w)
<1>. DEFINE K == Len(k)
            new == Append(k, at)
<1>1. /\ K \in Nat /\ Len(new) = K + 1 /\ new[K + 1] = at
      /\ \A i \in 1 .. K : new[i] = k[i]
  OBVIOUS
<1>0. /\ \A i \in 1 .. K - n : k[i] + w < k[i + n]
      /\ n <= K => k[K + 1 - n] + w < at
  BY DEF Spaced
<1>. HIDE DEF new, K
<1>2. ASSUME NEW i \in 1 .. K + 1 - n
      PROVE  new[i] + w < new[i + n]
  <2>1. CASE i + n <= K
    <3>1. i \in 1 .. K - n /\ i \in 1 .. K /\ i + n \in 1 .. K
      BY <1>1, <2>1
    <3>. QED
      BY <1>0, <1>1, <3>1
  <2>2. CASE i + n = K + 1
    <3>1. i = K + 1 - n /\ n <= K /\ i \in 1 .. K
      BY <1>1, <2>2
    <3>. QED
      BY <1>0, <1>1, <2>2, <3>1
  <2>. QED
    BY <1>1, <2>1, <2>2
<1>3. \A i \in 1 .. Len(new) - n : new[i] + w < new[i + n]
  BY <1>1, <1>2
<1>. QED
  BY <1>3 DEF Spaced, new

InOrderUpTo(list, top) ==
    /\ list \in Seq(Nat)
    /\ Nondecreasing(list)
    /\ \A i \in DOMAIN list : list[i] <= top

LEMMA AppendedInOrder ==
    ASSUME NEW list, NEW top \in Nat, InOrderUpTo(list, top), NEW at \in Nat, top <= at
    PROVE  InOrderUpTo(Append(list, at), at)
<1>. DEFINE L == Len(list)
            new == Append(list, at)
<1>0. list \in Seq(Nat)
  BY DEF InOrderUpTo
<1>1. /\ L \in Nat /\ DOMAIN list = 1 .. L /\ DOMAIN new = 1 .. L + 1
      /\ new \in Seq(Nat) /\ new[L + 1] = at
      /\ \A i \in 1 .. L : new[i] = list[i] /\ list[i] \in Nat
  BY <1>0
<1>. HIDE DEF new, L
<1>2. ASSUME NEW i \in 1 .. L PROVE list[i] <= at
  <2>1. list[i] <= top
    BY <1>1, <1>2 DEF InOrderUpTo
  <2>. QED
    BY <1>1, <1>2, <2>1
<1>3. \A i, j \in 1 .. L : i <= j => list[i] <= list[j]
  BY <1>1 DEF InOrderUpTo, Nondecreasing
<1>4. \A i \in 1 .. L + 1 : i \in 1 .. L \/ i = L + 1
  BY <1>1
<1>5. \A i \in 1 .. L + 1 : new[i] <= at
  BY <1>1, <1>2, <1>4
<1>6. ASSUME NEW i \in 1 .. L + 1, NEW j \in 1 .. L + 1, i <= j
      PROVE  new[i] <= new[j]
  <2>1. CASE j = L + 1
    BY <1>1, <1>5, <2>1
  <2>2. CASE j \in 1 .. L
    <3>1. i \in 1 .. L
      BY <1>1, <1>6, <2>2
    <3>. QED
      BY <1>1, <1>3, <1>6, <2>2, <3>1
  <2>. QED
    BY <1>4, <2>1, <2>2
<1>. QED
  BY <1>1, <1>5, <1>6 DEF InOrderUpTo, Nondecreasing, new

LEMMA SuffixInOrder ==
    ASSUME NEW list, NEW top \in Nat, InOrderUpTo(list, top), NEW j \in 0 .. Len(list)
    PROVE  /\ InOrderUpTo(SubSeq(list, j + 1, Len(list)), top)
           /\ Len(SubSeq(list, j + 1, Len(list))) = Len(list) - j
           /\ \A i \in 1 .. Len(list) - j : SubSeq(list, j + 1, Len(list))[i] = list[j + i]
<1>. DEFINE L == Len(list)
            new == SubSeq(list, j + 1, L)
<1>0. list \in Seq(Nat)
  BY DEF InOrderUpTo
<1>1. /\ L \in Nat /\ j \in 0 .. L /\ DOMAIN list = 1 .. L
      /\ \A i \in 1 .. L : list[i] \in Nat
  BY <1>0
<1>2. /\ new \in Seq(Nat) /\ Len(new) = L - j /\ DOMAIN new = 1 .. L - j
      /\ \A i \in 1 .. L - j : new[i] = list[j + i]
  <2>1. \A i \in j + 1 .. L : list[i] \in Nat
    BY <1>1
  <2>2. /\ new \in Seq(Nat)
        /\ Len(new) = IF j + 1 <= L THEN L - (j + 1) + 1 ELSE 0
        /\ \A i \in 1 .. L - (j + 1) + 1 : new[i] = list[j + 1 + i - 1]
    <3>1. j + 1 \in Int /\ L \in Int
      BY <1>1
    <3>. HIDE DEF L
    <3>. QED
      BY <2>1, <3>1, SubSeqProperties
  <2>3. L - (j + 1) + 1 = L - j /\ \A i \in 1 .. L - j : j + 1 + i - 1 = j + i
    BY <1>1
  <2>4. Len(new) = L - j
    <3>. HIDE DEF new, L
    <3>. QED
      BY <1>1, <2>2
  <2>5. DOMAIN new = 1 .. L - j
    BY <2>2, <2>4
  <2>. HIDE DEF new, L
  <2>. QED
    BY <2>2, <2>3, <2>4, <2>5
<1>. HIDE DEF new, L
<1>3. \A i \in 1 .. L - j : j + i \in 1 .. L
  BY <1>1
<1>4. \A i \in 1 .. L - j : new[i] <= top
  BY <1>1, <1>2, <1>3 DEF InOrderUpTo
<1>5. ASSUME NEW i \in 1 .. L - j, NEW m \in 1 .. L - j, i <= m
      PROVE  new[i] <= new[m]
  <2>1. j + i \in 1 .. L /\ j + m \in 1 .. L /\ j + i <= j + m
    BY <1>1, <1>3, <1>5
  <2>2. list[j + i] <= list[j + m]
    BY <1>1, <2>1 DEF InOrderUpTo, Nondecreasing
  <2>. QED
    BY <1>2, <2>2
<1>. QED
  BY <1>2, <1>4, <1>5 DEF InOrderUpTo, Nondecreasing, new, L

\* check_rate_limit and record_submission at time `at` keep the log in step.
LEMMA SubmissionLogged ==
    ASSUME NEW c, ValidLimit(c), c # Absent, NEW s, NEW h, NEW k, Logged(s, h, k, c),
           NEW at \in Nat, h <= at,
           Len(Pruned(s, at, c.window)) < c.max,
           Len(Pruned(s, at, c.burstWindow)) < c.burst
    PROVE  Logged(Append(Pruned(s, at, c.window), at), at, Append(k, at), c)
<1>. DEFINE L == Len(s)
            K == Len(k)
            act == Pruned(s, at, c.window)
            s1 == Append(act, at)
            k1 == Append(k, at)
<1>1. /\ c.max \in Nat \ {0} /\ c.max <= MaxLimit /\ c.window \in Nat
      /\ c.burst \in Nat \ {0} /\ c.burstWindow \in Nat /\ c.burstWindow <= c.window
  BY LimitFields
<1>2. /\ s \in Seq(Nat) /\ k \in Seq(Nat) /\ h \in Nat /\ L \in Nat /\ K \in Nat
      /\ InOrderUpTo(s, h) /\ InOrderUpTo(k, h)
  BY DEF Logged, InOrderUpTo
<1>3. PICK j \in 0 .. L : CutAt(s, at, c.window, j)
  BY <1>1, <1>2, CutExists DEF InOrderUpTo
<1>4. act = SubSeq(s, j + 1, L)
  BY <1>1, <1>2, <1>3, PrunedAfterCut
<1>5. /\ InOrderUpTo(act, h) /\ Len(act) = L - j
      /\ \A i \in 1 .. L - j : act[i] = s[j + i]
  BY <1>2, <1>3, <1>4, SuffixInOrder
<1>6. InOrderUpTo(s1, at) /\ InOrderUpTo(k1, at)
  <2>. HIDE DEF act
  <2>. QED
    BY <1>2, <1>5, AppendedInOrder
<1>7. /\ Len(s1) = L - j + 1 /\ s1[L - j + 1] = at
      /\ \A i \in 1 .. L - j : s1[i] = s[j + i]
  <2>1. act \in Seq(Nat)
    BY <1>5 DEF InOrderUpTo
  <2>2. /\ Len(s1) = Len(act) + 1 /\ s1[Len(act) + 1] = at
        /\ \A i \in 1 .. Len(act) : s1[i] = act[i]
    <3>. HIDE DEF act
    <3>. QED
      BY <2>1
  <2>. HIDE DEF act, s1
  <2>. QED
    BY <1>5, <2>2
<1>8. Len(k1) = K + 1 /\ k1[K + 1] = at /\ \A i \in 1 .. K : k1[i] = k[i] /\ k[i] \in Nat
  BY <1>2
<1>9. Spaced(k1, c.max, c.window) /\ Spaced(k1, c.burst, c.burstWindow)
  <2>0. Len(Pruned(s, at, c.window)) < c.max /\ Len(Pruned(s, at, c.burstWindow)) < c.burst
    OBVIOUS
  <2>1. ASSUME c.max <= Len(k)
        PROVE  k[Len(k) + 1 - c.max] + c.window < at
    <3>1. c.window \in Nat /\ c.window <= c.window /\ c.max \in Nat \ {0}
      BY <1>1
    <3>. QED
      BY <2>0, <2>1, <3>1, OldEnough
  <2>2. ASSUME c.burst <= Len(k)
        PROVE  k[Len(k) + 1 - c.burst] + c.burstWindow < at
    <3>1. c.burstWindow \in Nat /\ c.burstWindow <= c.window /\ c.burst \in Nat \ {0}
      BY <1>1
    <3>. QED
      BY <2>0, <2>2, <3>1, OldEnough
  <2>3. Spaced(k, c.max, c.window) /\ Spaced(k, c.burst, c.burstWindow)
    BY DEF Logged
  <2>. QED
    BY <1>1, <1>2, <2>1, <2>2, <2>3, SpacedStill
<1>10. Len(s1) <= MaxLimit
  <2>1. Len(act) + 1 <= c.max /\ MaxLimit \in Nat
    BY <1>1, <1>3, <1>5, LimitsAssumption
  <2>2. Len(s1) = Len(act) + 1 /\ Len(act) \in Nat
    BY <1>2, <1>3, <1>5, <1>7
  <2>. HIDE DEF act, s1
  <2>. QED
    BY <1>1, <2>1, <2>2
<1>11. \A d \in 0 .. L - 1 : d < K => s[L - d] = k[K - d]
  BY DEF Logged
<1>. HIDE DEF act, s1, k1, L, K
<1>12. ASSUME NEW d \in 0 .. Len(s1) - 1, d < Len(k1)
       PROVE  s1[Len(s1) - d] = k1[Len(k1) - d]
  <2>1. d \in 0 .. L - j /\ d < K + 1
    BY <1>2, <1>3, <1>7, <1>8, <1>12
  <2>2. CASE d = 0
    BY <1>2, <1>3, <1>7, <1>8, <2>2
  <2>3. CASE d # 0
    <3>1. /\ d - 1 \in 0 .. L - 1 /\ d - 1 < K
          /\ L - j + 1 - d \in 1 .. L - j /\ K + 1 - d \in 1 .. K
          /\ j + (L - j + 1 - d) = L - (d - 1) /\ K + 1 - d = K - (d - 1)
      BY <1>2, <1>3, <2>1, <2>3
    <3>2. s1[L - j + 1 - d] = s[L - (d - 1)] /\ k1[K + 1 - d] = k[K - (d - 1)]
      BY <1>7, <1>8, <3>1
    <3>3. Len(s1) - d = L - j + 1 - d /\ Len(k1) - d = K + 1 - d
      BY <1>2, <1>3, <1>7, <1>8
    <3>4. s[L - (d - 1)] = k[K - (d - 1)]
      BY <1>11, <3>1
    <3>. QED
      BY <3>2, <3>3, <3>4
  <2>. QED
    BY <2>2, <2>3
<1>13. ASSUME NEW i \in 1 .. Len(k1) - Len(s1)
       PROVE  k1[i] + c.window < at
  <2>1. i \in 1 .. K - (L - j) /\ i \in 1 .. K
    BY <1>2, <1>3, <1>7, <1>8
  <2>2. CASE i <= K - L
    <3>1. k[i] + c.window < h /\ k[i] \in Nat /\ k1[i] = k[i]
      <4>1. i \in 1 .. Len(k) - Len(s)
        BY <1>2, <2>1, <2>2 DEF L, K
      <4>2. k[i] + c.window < h
        BY <4>1 DEF Logged
      <4>. QED
        BY <1>8, <2>1, <4>2
    <3>. DEFINE x == k[i]
    <3>2. x + c.window < h /\ x \in Nat /\ k1[i] = x
      BY <3>1
    <3>. HIDE DEF x
    <3>. QED
      BY <1>1, <1>2, <3>2
  <2>3. CASE i > K - L
    <3>1. /\ K - i \in 0 .. L - 1 /\ K - i < K /\ K - (K - i) = i
          /\ L - (K - i) \in 1 .. j /\ L - (K - i) \in 1 .. L
      BY <1>2, <1>3, <2>1, <2>3
    <3>2. s[L - (K - i)] = k[i]
      BY <1>11, <3>1
    <3>3. ~WithinWindow(s[L - (K - i)], at, c.window)
      BY <1>3, <3>1 DEF CutAt
    <3>4. ~(k[i] >= at - c.window) /\ k[i] \in Nat /\ k1[i] = k[i]
      BY <1>8, <2>1, <3>2, <3>3 DEF WithinWindow
    <3>. QED
      BY <1>1, <3>4
  <2>. QED
    BY <1>2, <2>1, <2>2, <2>3
<1>. QED
  <2>1. /\ s1 \in Seq(Nat) /\ k1 \in Seq(Nat)
        /\ Nondecreasing(s1) /\ Nondecreasing(k1)
        /\ \A i \in DOMAIN s1 : s1[i] <= at
        /\ \A i \in DOMAIN k1 : k1[i] <= at
    BY <1>6 DEF InOrderUpTo
  <2>2. Logged(s1, at, k1, c)
    BY <1>9, <1>10, <1>12, <1>13, <2>1 DEF Logged
  <2>. QED
    BY <2>2 DEF s1, k1, act

LEMMA LimitsStep ==
    ASSUME WorldInv, LimitsInv, [SuiteNext]_suiteVars
    PROVE  LimitsInv'
<1>1. ASSUME NEW c \in LimitConfigs, ConfigureRateLimit(c)
      PROVE  LimitsInv'
  <2>1. /\ ValidLimit(c) /\ limit' = c /\ taken' = [b \in Limited |-> <<>>]
        /\ UNCHANGED <<stamps, highWater>>
    BY <1>1 DEF ConfigureRateLimit
  <2>2. ASSUME NEW b \in Limited
        PROVE  Logged(stamps[b], highWater[b], <<>>, c)
    <3>1. Logged(stamps[b], highWater[b], taken[b], limit)
      BY DEF LimitsInv
    <3>2. <<>> \in Seq(Nat) /\ Len(<<>>) = 0 /\ DOMAIN <<>> = {}
      OBVIOUS
    <3>3. Nondecreasing(<<>>)
      BY <3>2 DEF Nondecreasing
    <3>4. Spaced(<<>>, c.max, c.window) /\ Spaced(<<>>, c.burst, c.burstWindow)
      BY <2>1, <3>2, LimitFields DEF Spaced
    <3>5. Len(stamps[b]) \in Nat
      BY <3>1 DEF Logged
    <3>. QED
      BY <3>1, <3>2, <3>3, <3>4, <3>5 DEF Logged
  <2>3. \A b \in Limited : Logged(stamps[b], highWater[b], taken'[b], c)
    BY <2>1, <2>2
  <2>4. taken' \in [Limited -> Seq(Nat)]
    BY <2>1
  <2>. QED
    BY <2>1, <2>3, <2>4 DEF LimitsInv
<1>2. ASSUME NEW b \in Limited, SubmitLimited(b)
      PROVE  LimitsInv'
  <2>. DEFINE at == EffectiveTimestamp(b)
              s1 == Append(Pruned(stamps[b], at, limit.window), at)
              k1 == Append(taken[b], at)
  <2>1. /\ limit # Absent /\ UNCHANGED limit
        /\ Len(Pruned(stamps[b], at, limit.window)) < limit.max
        /\ Len(Pruned(stamps[b], at, limit.burstWindow)) < limit.burst
        /\ stamps' = [stamps EXCEPT ![b] = s1]
        /\ highWater' = [highWater EXCEPT ![b] = at]
        /\ taken' = [taken EXCEPT ![b] = k1]
    BY <1>2 DEF SubmitLimited, Enforced, Active
  <2>2. at \in Nat /\ highWater[b] <= at
    <3>1. clock \in Nat /\ highWater[b] \in Nat
      BY ProtocolAssumption DEF WorldInv, LimitsInv
    <3>. QED
      BY <3>1 DEF EffectiveTimestamp
  <2>3. Logged(stamps[b], highWater[b], taken[b], limit) /\ ValidLimit(limit)
    BY <2>1 DEF LimitsInv
  <2>. HIDE DEF at
  <2>4. Logged(s1, at, k1, limit)
    BY <2>1, <2>2, <2>3, SubmissionLogged
  <2>5. s1 \in Seq(Nat) /\ k1 \in Seq(Nat)
    BY <2>4 DEF Logged
  <2>. HIDE DEF s1, k1
  <2>6. /\ stamps' \in [Limited -> Seq(Nat)] /\ taken' \in [Limited -> Seq(Nat)]
        /\ highWater' \in [Limited -> Nat]
    BY <2>1, <2>2, <2>5 DEF LimitsInv
  <2>7. \A d \in Limited : Logged(stamps'[d], highWater'[d], taken'[d], limit)
    BY <2>1, <2>4 DEF LimitsInv
  <2>. QED
    BY <2>1, <2>6, <2>7 DEF LimitsInv
<1>3. ASSUME UNCHANGED limitVars
      PROVE  LimitsInv'
  BY <1>3 DEF LimitsInv, limitVars
<1>4. LimitsNext \/ UNCHANGED limitVars
  BY DEF SuiteNext, SubmissionSideNext, submissionSide, suiteVars
<1>. QED
  BY <1>1, <1>2, <1>3, <1>4 DEF LimitsNext, ClockStepsBack

\* For any businesses, configurations and bounds, wherever the clock goes, no
\* window of the configured seconds, full or burst, holds more accepted
\* submissions of a business than the limit in force, and the stored vector stays
\* within MAX_SUBMISSIONS_LIMIT (check_rate_limit, record_submission,
\* analyze_submission_windows, configure_rate_limit).
THEOREM LimitsAlwaysHold == SuiteSpec => []WithinRateLimits
<1>1. SuiteInit => WorldInv /\ LimitsInv
  <2>. SUFFICES ASSUME SuiteInit PROVE WorldInv /\ LimitsInv
    OBVIOUS
  <2>1. WorldInv
    BY SnapshotsInitially
  <2>2. LimitsInit
    BY DEF SuiteInit
  <2>3. <<>> \in Seq(Nat) /\ Len(<<>>) = 0 /\ DOMAIN <<>> = {}
    OBVIOUS
  <2>4. Logged(<<>>, 0, <<>>, Absent)
    BY <2>3, LimitsAssumption DEF Logged, Nondecreasing
  <2>5. LimitsInv
    BY <2>2, <2>3, <2>4 DEF LimitsInit, LimitsInv
  <2>. QED
    BY <2>1, <2>5
<1>2. WorldInv /\ LimitsInv /\ [SuiteNext]_suiteVars => WorldInv' /\ LimitsInv'
  BY SuiteWorld, LimitsStep
<1>3. ASSUME WorldInv, LimitsInv
      PROVE  WithinRateLimits
  <2>1. ASSUME NEW b \in Limited
        PROVE  Len(stamps[b]) <= MaxLimit
    BY <1>3 DEF LimitsInv, Logged
  <2>2. ASSUME NEW b \in Limited, limit # Absent, NEW end \in 0 .. MaxClock[site]
        PROVE  /\ Cardinality({i \in DOMAIN taken[b] :
                                  taken[b][i] \in (end - limit.window) + 1 .. end}) <= limit.max
               /\ Cardinality({i \in DOMAIN taken[b] :
                                  taken[b][i] \in (end - limit.burstWindow) + 1 .. end}) <= limit.burst
    <3>1. ValidLimit(limit) /\ Logged(stamps[b], highWater[b], taken[b], limit)
      BY <1>3, <2>2 DEF LimitsInv
    <3>2. end \in Nat
      OBVIOUS
    <3>3. /\ limit.max \in Nat /\ limit.window \in Nat
          /\ limit.burst \in Nat /\ limit.burstWindow \in Nat
      BY <3>1, LimitFields
    <3>. QED
      BY <2>2, <3>1, <3>2, <3>3, SpacedCounts DEF Logged
  <2>. QED
    BY <2>1, <2>2 DEF WithinRateLimits
<1>. QED
  BY <1>1, <1>2, <1>3, PTL DEF SuiteSpec

=============================================================================
