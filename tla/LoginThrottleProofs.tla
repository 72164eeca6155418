------------------------ MODULE LoginThrottleProofs ------------------------
(* What LoginThrottle promises for every number of attempts, identifiers   *)
(* and addresses and for every limit.                                      *)
EXTENDS LoginThrottle, FiniteSetTheorems, TLAPS

(* The rows of an identifier (of an address), and the attempts that may    *)
(* still add one.                                                          *)
ChargedTo(i) == {a \in Attempts : (a \in rows \/ pc[a] = "admitted") /\ req[a].identifier = i}
ChargedAt(p) == {a \in Attempts : (a \in rows \/ pc[a] = "admitted") /\ req[a].ip = p}

(* The number of rows alone is not inductive: it grows at RecordFailure,   *)
(* where nothing is tested.  Rows and admitted attempts together grow only *)
(* at CheckLockout, which tests.                                           *)
ServingBounded == Cardinality(Serving) <= MaxConcurrent
ChargesBounded ==
  /\ \A i \in Identifiers :
       Cardinality(ChargedTo(i)) <= MaxPerIdentifier - 1 + MaxConcurrent
  /\ \A p \in Ips : Cardinality(ChargedAt(p)) <= MaxPerIp - 1 + MaxConcurrent

(* No step leaves the types.                                               *)
LEMMA TypeStep == ASSUME TypeOK, [Next]_vars PROVE TypeOK'
<1>1. ASSUME NEW a \in Attempts, NEW r \in Request, Submit(a, r) PROVE TypeOK'
  BY <1>1, LimitsPositive, SMT DEF TypeOK, Submit, Request
<1>2. ASSUME NEW a \in Attempts, CheckLockout(a) PROVE TypeOK'
  BY <1>2, SMT DEF TypeOK, CheckLockout, Forget
<1>3. ASSUME NEW a \in Attempts, RecordFailure(a) PROVE TypeOK'
  BY <1>3, LimitsPositive, SMT DEF TypeOK, RecordFailure
<1>4. ASSUME NEW a \in Attempts, AnswerFailure(a) PROVE TypeOK'
  BY <1>4, LimitsPositive, SMT DEF TypeOK, AnswerFailure
<1>5. ASSUME NEW a \in Attempts, AcceptLogin(a) PROVE TypeOK'
  BY <1>5, SMT DEF TypeOK, AcceptLogin, Forget
<1>6. ASSUME NEW a \in Attempts, RequestFails(a) PROVE TypeOK'
  BY <1>6, SMT DEF TypeOK, RequestFails, Forget
<1>7. CASE Restart
  BY <1>7, LimitsPositive, SMT DEF TypeOK, Restart, NoHits
<1>8. CASE Tick
  <2>1. rows' \subseteq Attempts /\ told' \subseteq Attempts
    BY <1>8 DEF TypeOK, Tick
  <2>2. age' \in [Attempts -> 0 .. Window] /\ heard' \in [Attempts -> 0 .. Window - 1]
    <3> DEFINE dated == rows' \cup told' \cup {a \in Attempts : pc[a] = "recorded"}
    <3>1. ASSUME NEW a \in Attempts
          PROVE  /\ (IF a \in dated THEN IF age[a] < Window THEN age[a] + 1 ELSE Window
                                    ELSE 0) \in 0 .. Window
                 /\ (IF a \in told' THEN heard[a] + 1 ELSE 0) \in 0 .. Window - 1
      BY <1>8, LimitsPositive DEF TypeOK, Tick
    <3>2. /\ age' = [a \in Attempts |->
                       IF a \in dated THEN IF age[a] < Window THEN age[a] + 1 ELSE Window
                                      ELSE 0]
          /\ heard' = [a \in Attempts |-> IF a \in told' THEN heard[a] + 1 ELSE 0]
      BY <1>8 DEF Tick
    <3> HIDE DEF dated
    <3>3. QED
      BY <3>1, <3>2
  <2>3. req' \in [Attempts -> Request \cup {NoRequest}]
    BY <1>8 DEF TypeOK, Tick
  <2>4. limiter' \in [Ips -> [hits : 0 .. LoginMax, age : 0 .. LimiterWindow - 1]]
    <3>1. ASSUME NEW p \in Ips
          PROVE  (IF limiter[p].hits = 0 \/ limiter[p].age + 1 = LimiterWindow
                    THEN NoHits ELSE [limiter[p] EXCEPT !.age = @ + 1])
                   \in [hits : 0 .. LoginMax, age : 0 .. LimiterWindow - 1]
      BY LimitsPositive DEF TypeOK, NoHits
    <3>2. limiter' = [p \in Ips |->
                        IF limiter[p].hits = 0 \/ limiter[p].age + 1 = LimiterWindow
                          THEN NoHits ELSE [limiter[p] EXCEPT !.age = @ + 1]]
      BY <1>8 DEF Tick
    <3>3. QED
      BY <3>1, <3>2
  <2>5. pc' \in [Attempts -> {"free", "arrived", "admitted", "recorded"}]
    BY <1>8 DEF TypeOK, Tick
  <2>6. QED
    BY <2>1, <2>2, <2>3, <2>4, <2>5 DEF TypeOK
<1>9. CASE UNCHANGED vars
  BY <1>9, SMT DEF TypeOK, vars
<1>10. QED
  BY <1>1, <1>2, <1>3, <1>4, <1>5, <1>6, <1>7, <1>8, <1>9 DEF Next, Handle

(* TypeOK is an invariant: the ages stay inside the window and no address  *)
(* gets more than LoginMax hits in a window of the limiter, for any        *)
(* constants.                                                              *)
THEOREM TypeCorrect == Spec => []TypeOK
<1>1. Init => TypeOK
  BY LimitsPositive, SMT DEF Init, TypeOK, NoHits
<1>2. QED
  BY <1>1, TypeStep, PTL DEF Spec

(* A set inside a finite set of at most n elements has at most n elements. *)
LEMMA SubsetBounded ==
  ASSUME NEW S, NEW T, IsFiniteSet(T), S \subseteq T, NEW n \in Int, Cardinality(T) <= n
  PROVE  Cardinality(S) <= n
<1>1. /\ Cardinality(S) <= Cardinality(T)
      /\ Cardinality(S) \in Nat
      /\ Cardinality(T) \in Nat
  BY FS_Subset, FS_CardinalityType
<1>2. QED
  BY <1>1

(* The limits are numbers.                                                 *)
LEMMA BoundsAreIntegers ==
  /\ MaxConcurrent \in Int
  /\ MaxPerIdentifier - 1 + MaxConcurrent \in Int
  /\ MaxPerIp - 1 + MaxConcurrent \in Int
  BY LimitsPositive

(* What a state says of its successors: every step but Submit leaves the   *)
(* attempts in flight among those there were, and Submit adds one below    *)
(* MaxConcurrent.                                                          *)
LEMMA ServingStep ==
  ASSUME TypeOK, ServingBounded, [Next]_vars
  PROVE  ServingBounded'
<1> USE BoundsAreIntegers
<1>1. IsFiniteSet(Serving) /\ Cardinality(Serving) \in Nat
  BY AttemptsFinite, FS_Subset, FS_CardinalityType DEF Serving
<1>2. ASSUME Serving' \subseteq Serving PROVE ServingBounded'
  BY <1>1, <1>2, SubsetBounded DEF ServingBounded
<1>3. ASSUME NEW a \in Attempts, NEW r \in Request, Submit(a, r) PROVE ServingBounded'
  <2>1. Serving' \subseteq Serving \cup {a}
    BY <1>3 DEF Submit, Serving, TypeOK
  <2>2. /\ IsFiniteSet(Serving \cup {a})
        /\ \/ Cardinality(Serving \cup {a}) = Cardinality(Serving)
           \/ Cardinality(Serving \cup {a}) = Cardinality(Serving) + 1
    BY <1>1, FS_AddElement, Zenon
  <2>3. Cardinality(Serving \cup {a}) \in Nat
    BY <2>2, FS_CardinalityType
  <2>4. Cardinality(Serving) < MaxConcurrent
    BY <1>3 DEF Submit
  <2>5. Cardinality(Serving \cup {a}) <= MaxConcurrent
    BY <1>1, <2>2, <2>3, <2>4
  <2>6. QED
    BY <2>1, <2>2, <2>5, SubsetBounded DEF ServingBounded
<1>4. ASSUME NEW a \in Attempts, Handle(a) PROVE Serving' \subseteq Serving
  BY <1>4 DEF Handle, CheckLockout, RecordFailure, AnswerFailure, AcceptLogin, RequestFails,
              Forget, Serving, TypeOK
<1>5. CASE Restart \/ Tick \/ UNCHANGED vars
  BY <1>2, <1>5 DEF Restart, Tick, vars, Serving
<1>6. QED
  BY <1>2, <1>3, <1>4, <1>5 DEF Next

(* A tick takes rows away and changes nothing of those it leaves but their *)
(* age.                                                                    *)
LEMMA TickKeeps ==
  ASSUME TypeOK, Tick
  PROVE  /\ pc' = pc /\ rows' \subseteq rows
         /\ \A a \in Attempts : a \in rows' \/ pc[a] # "free" => req'[a] = req[a]
         /\ \A a \in rows' : age'[a] = age[a] + 1
<1>1. pc' = pc /\ rows' \subseteq rows /\ rows' \subseteq Attempts
  BY DEF Tick, TypeOK
<1>2. ASSUME NEW a \in Attempts, a \in rows' \/ pc[a] # "free" PROVE req'[a] = req[a]
  BY <1>2 DEF Tick, Serving
<1>3. ASSUME NEW a \in rows' PROVE age'[a] = age[a] + 1
  <2>1. age'[a] = IF age[a] < Window THEN age[a] + 1 ELSE Window
    BY <1>1 DEF Tick
  <2>2. age[a] + 1 < Window /\ age[a] \in 0 .. Window
    BY <1>1 DEF Tick, TypeOK
  <2>3. QED
    BY <2>1, <2>2, LimitsPositive
<1>4. QED
  BY <1>1, <1>2, <1>3

(* Only CheckLockout charges an attempt to an identifier or an address,    *)
(* and it does so after isBlocked found room there: what is charged then   *)
(* is the rows it counted and attempts in flight.                          *)
LEMMA ChargesStep ==
  ASSUME TypeOK, ServingBounded, ChargesBounded, [Next]_vars
  PROVE  ChargesBounded'
<1> USE BoundsAreIntegers
<1>1. \A i, p : /\ IsFiniteSet(ChargedTo(i)) /\ IsFiniteSet(ChargedAt(p))
                /\ IsFiniteSet(FailuresOf(i)) /\ IsFiniteSet(FailuresAt(p))
  BY AttemptsFinite, FS_Subset DEF ChargedTo, ChargedAt, FailuresOf, FailuresAt, TypeOK
<1>2. IsFiniteSet(Serving)
  BY AttemptsFinite, FS_Subset DEF Serving
<1>3. ASSUME \A i : ChargedTo(i)' \subseteq ChargedTo(i),
             \A p : ChargedAt(p)' \subseteq ChargedAt(p)
      PROVE  ChargesBounded'
  BY <1>1, <1>3, SubsetBounded DEF ChargesBounded
<1>4. ASSUME NEW S, NEW T, NEW n \in Nat \ {0}, IsFiniteSet(S),
             Cardinality(S) < n, T \subseteq S \cup Serving
      PROVE  Cardinality(T) <= n - 1 + MaxConcurrent
  <2>1. /\ IsFiniteSet(S \cup Serving)
        /\ Cardinality(S \cup Serving)
             = Cardinality(S) + Cardinality(Serving) - Cardinality(S \cap Serving)
    BY <1>2, <1>4, FS_Union
  <2>2. Cardinality(S) \in Nat /\ Cardinality(Serving) \in Nat /\ Cardinality(S \cap Serving) \in Nat
    BY <1>2, <1>4, FS_CardinalityType, FS_Intersection
  <2>3. Cardinality(S \cup Serving) <= n - 1 + MaxConcurrent
    BY <1>4, <2>1, <2>2, LimitsPositive DEF ServingBounded
  <2>4. QED
    BY <1>4, <2>1, <2>3, SubsetBounded, LimitsPositive
<1>5. ASSUME NEW a \in Attempts, CheckLockout(a) PROVE ChargesBounded'
  <2>1. CASE IsBlocked(req[a].identifier, req[a].ip)
    <3>1. /\ \A i : ChargedTo(i)' \subseteq ChargedTo(i)
          /\ \A p : ChargedAt(p)' \subseteq ChargedAt(p)
      BY <1>5, <2>1 DEF CheckLockout, Forget, ChargedTo, ChargedAt, TypeOK
    <3>2. QED
      BY <1>3, <3>1
  <2>2. CASE ~ IsBlocked(req[a].identifier, req[a].ip)
    <3>1. /\ pc[a] = "arrived"
          /\ pc' = [pc EXCEPT ![a] = "admitted"]
          /\ rows' = rows /\ req' = req
      BY <1>5, <2>2 DEF CheckLockout
    <3>2. /\ Cardinality(FailuresOf(req[a].identifier)) < MaxPerIdentifier
          /\ Cardinality(FailuresAt(req[a].ip)) < MaxPerIp
      <4>1. /\ Cardinality(FailuresOf(req[a].identifier)) \in Nat
            /\ Cardinality(FailuresAt(req[a].ip)) \in Nat
        BY <1>1, FS_CardinalityType
      <4>2. QED
        BY <2>2, <4>1, LimitsPositive DEF IsBlocked
    <3>3. /\ \A i : i # req[a].identifier => ChargedTo(i)' \subseteq ChargedTo(i)
          /\ \A p : p # req[a].ip => ChargedAt(p)' \subseteq ChargedAt(p)
      BY <3>1 DEF ChargedTo, ChargedAt, TypeOK
    <3>4. /\ ChargedTo(req[a].identifier)' \subseteq FailuresOf(req[a].identifier) \cup Serving
          /\ ChargedAt(req[a].ip)' \subseteq FailuresAt(req[a].ip) \cup Serving
      BY <3>1 DEF ChargedTo, ChargedAt, FailuresOf, FailuresAt, Serving, TypeOK
    <3>5. ASSUME NEW i \in Identifiers
          PROVE  Cardinality(ChargedTo(i)') <= MaxPerIdentifier - 1 + MaxConcurrent
      <4>1. CASE i = req[a].identifier
        <5>1. Cardinality(ChargedTo(req[a].identifier)') <= MaxPerIdentifier - 1 + MaxConcurrent
          BY <1>1, <1>4, <3>2, <3>4, LimitsPositive, Zenon
        <5>2. QED
          BY <3>1, <4>1, <5>1
      <4>2. CASE i # req[a].identifier
        BY <1>1, <3>3, <4>2, SubsetBounded DEF ChargesBounded
      <4>3. QED
        BY <4>1, <4>2
    <3>6. ASSUME NEW p \in Ips
          PROVE  Cardinality(ChargedAt(p)') <= MaxPerIp - 1 + MaxConcurrent
      <4>1. CASE p = req[a].ip
        <5>1. Cardinality(ChargedAt(req[a].ip)') <= MaxPerIp - 1 + MaxConcurrent
          BY <1>1, <1>4, <3>2, <3>4, LimitsPositive, Zenon
        <5>2. QED
          BY <3>1, <4>1, <5>1
      <4>2. CASE p # req[a].ip
        BY <1>1, <3>3, <4>2, SubsetBounded DEF ChargesBounded
      <4>3. QED
        BY <4>1, <4>2
    <3>7. QED
      BY <3>5, <3>6 DEF ChargesBounded
  <2>3. QED
    BY <2>1, <2>2
<1>6. ASSUME NEW a \in Attempts, NEW r \in Request, Submit(a, r) PROVE ChargesBounded'
  <2>1. /\ \A i : ChargedTo(i)' \subseteq ChargedTo(i)
        /\ \A p : ChargedAt(p)' \subseteq ChargedAt(p)
    BY <1>6 DEF Submit, ChargedTo, ChargedAt, TypeOK
  <2>2. QED
    BY <1>3, <2>1
<1>7. ASSUME NEW a \in Attempts,
             RecordFailure(a) \/ AnswerFailure(a) \/ AcceptLogin(a) \/ RequestFails(a)
      PROVE  ChargesBounded'
  <2>1. /\ \A i : ChargedTo(i)' \subseteq ChargedTo(i)
        /\ \A p : ChargedAt(p)' \subseteq ChargedAt(p)
    BY <1>7 DEF RecordFailure, AnswerFailure, AcceptLogin, RequestFails, Forget,
                ChargedTo, ChargedAt, TypeOK
  <2>2. QED
    BY <1>3, <2>1
<1>8. CASE Restart \/ Tick \/ UNCHANGED vars
  <2>1. CASE Restart \/ UNCHANGED vars
    <3>1. /\ \A i : ChargedTo(i)' \subseteq ChargedTo(i)
          /\ \A p : ChargedAt(p)' \subseteq ChargedAt(p)
      BY <2>1 DEF Restart, vars, ChargedTo, ChargedAt, TypeOK
    <3>2. QED
      BY <1>3, <3>1
  <2>2. CASE Tick
    <3>1. /\ \A i : ChargedTo(i)' \subseteq ChargedTo(i)
          /\ \A p : ChargedAt(p)' \subseteq ChargedAt(p)
      BY <2>2, TickKeeps DEF ChargedTo, ChargedAt
    <3>2. QED
      BY <1>3, <3>1
  <2>3. QED
    BY <1>8, <2>1, <2>2
<1>9. QED
  BY <1>5, <1>6, <1>7, <1>8 DEF Next, Handle

(* In the initial state nothing is in flight and nothing is charged.       *)
LEMMA ChargesInit == Init => ServingBounded /\ ChargesBounded
<1> SUFFICES ASSUME Init PROVE ServingBounded /\ ChargesBounded
  OBVIOUS
<1>1. Serving = {} /\ (\A i : ChargedTo(i) = {}) /\ (\A p : ChargedAt(p) = {})
  BY DEF Init, Serving, ChargedTo, ChargedAt
<1>2. QED
  BY <1>1, FS_EmptySet, LimitsPositive DEF ServingBounded, ChargesBounded

(* The failures counted against an identifier never exceed the limit by    *)
(* more than the attempts in flight together, whatever restarts, failed    *)
(* statements and ticks lie between (isBlocked against record).            *)
THEOREM LockoutBoundsIdentifier == Spec => []IdentifierBounded
<1>1. TypeOK /\ ChargesBounded => IdentifierBounded
  <2> SUFFICES ASSUME TypeOK, ChargesBounded, NEW i \in Identifiers
               PROVE  Cardinality(FailuresOf(i)) <= MaxPerIdentifier - 1 + MaxConcurrent
    BY DEF IdentifierBounded
  <2>1. FailuresOf(i) \subseteq ChargedTo(i) /\ IsFiniteSet(ChargedTo(i))
    BY AttemptsFinite, FS_Subset DEF FailuresOf, ChargedTo, TypeOK
  <2>2. QED
    BY <2>1, SubsetBounded, BoundsAreIntegers DEF ChargesBounded
<1>2. QED
  BY <1>1, TypeCorrect, ChargesInit, ServingStep, ChargesStep, PTL DEF Spec

(* The same for the failures counted against an address.                   *)
THEOREM LockoutBoundsIp == Spec => []IpBounded
<1>1. TypeOK /\ ChargesBounded => IpBounded
  <2> SUFFICES ASSUME TypeOK, ChargesBounded, NEW p \in Ips
               PROVE  Cardinality(FailuresAt(p)) <= MaxPerIp - 1 + MaxConcurrent
    BY DEF IpBounded
  <2>1. FailuresAt(p) \subseteq ChargedAt(p) /\ IsFiniteSet(ChargedAt(p))
    BY AttemptsFinite, FS_Subset DEF FailuresAt, ChargedAt, TypeOK
  <2>2. QED
    BY <2>1, SubsetBounded, BoundsAreIntegers DEF ChargesBounded
<1>2. QED
  BY <1>1, TypeCorrect, ChargesInit, ServingStep, ChargesStep, PTL DEF Spec

---------------------------------------------------------------------------
(* The failures that were answered less than k ticks ago, or are not       *)
(* answered yet, and whose row is at least k ticks old: k ticks ago they   *)
(* had a row and no answer, so they were being served together.            *)
Delayed(k) ==
  {a \in Attempts : /\ pc[a] = "recorded" \/ (a \in told /\ heard[a] < k)
                    /\ age[a] >= k}
DelayedBounded == \A k \in 0 .. Window : Cardinality(Delayed(k)) <= MaxConcurrent

(* A row leaves the window by its age only.                                *)
LostAreOld == \A a \in Attempts : (pc[a] = "recorded" \/ a \in told) /\ a \notin rows => age[a] = Window

LEMMA LostAreOldStep == ASSUME TypeOK, LostAreOld, [Next]_vars PROVE LostAreOld'
<1>1. ASSUME NEW a \in Attempts, NEW r \in Request, Submit(a, r) PROVE LostAreOld'
  BY <1>1 DEF Submit, LostAreOld, TypeOK
<1>2. ASSUME NEW a \in Attempts, CheckLockout(a) \/ AcceptLogin(a) \/ RequestFails(a) PROVE LostAreOld'
  BY <1>2 DEF CheckLockout, AcceptLogin, RequestFails, Forget, LostAreOld, TypeOK
<1>3. ASSUME NEW a \in Attempts, RecordFailure(a) PROVE LostAreOld'
  BY <1>3 DEF RecordFailure, LostAreOld, TypeOK
<1>4. ASSUME NEW a \in Attempts, AnswerFailure(a) PROVE LostAreOld'
  BY <1>4 DEF AnswerFailure, LostAreOld, TypeOK
<1>5. CASE Restart \/ UNCHANGED vars
  BY <1>5 DEF Restart, vars, LostAreOld, TypeOK
<1>6. CASE Tick
  <2> SUFFICES ASSUME NEW a \in Attempts, pc'[a] = "recorded" \/ a \in told', a \notin rows'
               PROVE  age'[a] = Window
    BY DEF LostAreOld
  <2>1. pc[a] = "recorded" \/ a \in told
    BY <1>6 DEF Tick
  <2>2. age'[a] = IF age[a] < Window THEN age[a] + 1 ELSE Window
    BY <1>6 DEF Tick
  <2>3. age[a] \in 0 .. Window /\ (a \notin rows \/ ~ (age[a] + 1 < Window))
    BY <1>6 DEF Tick, TypeOK
  <2>4. QED
    BY <2>1, <2>2, <2>3, LimitsPositive DEF LostAreOld
<1>7. QED
  BY <1>1, <1>2, <1>3, <1>4, <1>5, <1>6 DEF Next, Handle

(* A tick moves who is delayed by k from who was delayed by k - 1; no      *)
(* other step adds to the delayed, but a new row adds to Delayed(0), which *)
(* is inside Serving.                                                      *)
LEMMA DelayedStep ==
  ASSUME TypeOK, ServingBounded, ServingBounded', DelayedBounded, [Next]_vars
  PROVE  DelayedBounded'
<1> USE BoundsAreIntegers
<1>1. IsFiniteSet(Serving') /\ \A k \in 0 .. Window : IsFiniteSet(Delayed(k))
  BY AttemptsFinite, FS_Subset DEF Serving, Delayed
<1>2. ASSUME NEW k \in 0 .. Window,
             \/ Delayed(k)' \subseteq Serving'
             \/ \E j \in 0 .. Window : Delayed(k)' \subseteq Delayed(j)
      PROVE  Cardinality(Delayed(k)') <= MaxConcurrent
  BY <1>1, <1>2, SubsetBounded DEF ServingBounded, DelayedBounded
<1>3. Delayed(0)' \subseteq Serving'
  <2>1. TypeOK'
    BY TypeStep
  <2>2. QED
    BY <2>1 DEF Delayed, Serving, TypeOK
<1>4. ASSUME NEW k \in 0 .. Window, k # 0
      PROVE  \E j \in 0 .. Window : Delayed(k)' \subseteq Delayed(j)
  <2>0. k \in 0 .. Window /\ k - 1 \in 0 .. Window /\ k > 0
    BY <1>4, LimitsPositive
  <2>1. ASSUME NEW a \in Attempts, NEW r \in Request, Submit(a, r)
        PROVE  Delayed(k)' \subseteq Delayed(k)
    BY <2>1 DEF Submit, Delayed, TypeOK
  <2>2. ASSUME NEW a \in Attempts, CheckLockout(a) \/ AcceptLogin(a) \/ RequestFails(a)
        PROVE  Delayed(k)' \subseteq Delayed(k)
    BY <2>2 DEF CheckLockout, AcceptLogin, RequestFails, Forget, Delayed, TypeOK
  <2>3. ASSUME NEW a \in Attempts, RecordFailure(a)
        PROVE  Delayed(k)' \subseteq Delayed(k)
    BY <2>0, <2>3 DEF RecordFailure, Delayed, TypeOK
  <2>4. ASSUME NEW a \in Attempts, AnswerFailure(a)
        PROVE  Delayed(k)' \subseteq Delayed(k)
    BY <2>4 DEF AnswerFailure, Delayed, TypeOK
  <2>5. CASE Restart \/ UNCHANGED vars
    BY <2>5 DEF Restart, vars, Delayed, TypeOK
  <2>6. CASE Tick
    <3> SUFFICES ASSUME NEW a \in Delayed(k)' PROVE a \in Delayed(k - 1)
      BY <2>0
    <3>1. a \in Attempts /\ age'[a] >= k /\ (pc'[a] = "recorded" \/ (a \in told' /\ heard'[a] < k))
      BY DEF Delayed
    <3>2. age'[a] = IF age[a] < Window THEN age[a] + 1 ELSE Window
      BY <2>6, <3>1 DEF Tick
    <3>3. age[a] \in 0 .. Window /\ heard[a] \in 0 .. Window - 1
      BY <3>1 DEF TypeOK
    <3>4. age[a] >= k - 1
      BY <2>0, <3>1, <3>2, <3>3, LimitsPositive
    <3>5. pc[a] = "recorded" \/ (a \in told /\ heard[a] < k - 1)
      <4>1. CASE pc'[a] = "recorded"
        BY <2>6, <4>1 DEF Tick
      <4>2. CASE a \in told' /\ heard'[a] < k
        <5>1. a \in told /\ heard'[a] = heard[a] + 1
          BY <2>6, <3>1, <4>2 DEF Tick
        <5>2. QED
          BY <2>0, <3>3, <4>2, <5>1
      <4>3. QED
        BY <3>1, <4>1, <4>2
    <3>6. QED
      BY <3>1, <3>4, <3>5 DEF Delayed
  <2>7. QED
    BY <2>0, <2>1, <2>2, <2>3, <2>4, <2>5, <2>6 DEF Next, Handle
<1>5. QED
  BY <1>2, <1>3, <1>4 DEF DelayedBounded

LEMMA DelayedInit == Init => LostAreOld /\ DelayedBounded
<1> SUFFICES ASSUME Init PROVE LostAreOld /\ DelayedBounded
  OBVIOUS
<1>1. \A k \in 0 .. Window : Delayed(k) = {}
  BY DEF Init, Delayed
<1>2. QED
  BY <1>1, FS_EmptySet, LimitsPositive DEF Init, LostAreOld, DelayedBounded

(* What was told within the window and is in the table no more had its row *)
(* and no answer at one moment, a window ago.                              *)
LEMMA UncountedWereDelayed ==
  ASSUME TypeOK, LostAreOld PROVE told \ rows \subseteq Delayed(Window)
<1> SUFFICES ASSUME NEW a \in told, a \notin rows PROVE a \in Delayed(Window)
  OBVIOUS
<1>1. a \in Attempts /\ heard[a] \in 0 .. Window - 1 /\ age[a] = Window
  BY DEF TypeOK, LostAreOld
<1>2. heard[a] < Window /\ age[a] >= Window
  BY <1>1, LimitsPositive
<1>3. QED
  BY <1>1, <1>2 DEF Delayed

(* Of the failures answered within the last window, isBlocked misses at    *)
(* most as many as the process serves at once: record is awaited before    *)
(* the answer, a restart takes no row away, and however often it happens,  *)
(* the answers that come a window after their row were all waiting at one  *)
(* moment.                                                                 *)
THEOREM UncountedAreBounded == Spec => []UncountedBounded
<1>1. TypeOK /\ LostAreOld /\ DelayedBounded => UncountedBounded
  <2> SUFFICES ASSUME TypeOK, LostAreOld, DelayedBounded PROVE UncountedBounded
    OBVIOUS
  <2>1. told \ rows \subseteq Delayed(Window) /\ IsFiniteSet(Delayed(Window))
    BY UncountedWereDelayed, AttemptsFinite, FS_Subset DEF Delayed
  <2>2. Cardinality(Delayed(Window)) <= MaxConcurrent
    BY LimitsPositive DEF DelayedBounded
  <2>3. QED
    BY <2>1, <2>2, SubsetBounded, BoundsAreIntegers DEF UncountedBounded
<1>2. TypeOK /\ ServingBounded /\ [Next]_vars => ServingBounded'
  BY ServingStep
<1>3. TypeOK /\ LostAreOld /\ [Next]_vars => LostAreOld'
  BY LostAreOldStep
<1>4. TypeOK /\ ServingBounded /\ ServingBounded' /\ DelayedBounded /\ [Next]_vars => DelayedBounded'
  BY DelayedStep
<1>5. QED
  BY <1>1, <1>2, <1>3, <1>4, TypeCorrect, ChargesInit, DelayedInit, PTL DEF Spec

(* What the lockout is for: of one identifier, the failures that clients   *)
(* were told of within the last window are bounded by the limit and the    *)
(* requests served at once, whatever restarts and delays lie between.      *)
GuessesBounded ==
  \A i \in Identifiers :
    Cardinality({a \in told : req[a].identifier = i}) <= MaxPerIdentifier - 1 + 2 * MaxConcurrent

(* Nobody is told more often than that within one window that a password   *)
(* of the identifier is wrong.                                             *)
THEOREM LockoutBoundsGuesses == Spec => []GuessesBounded
<1>1. ASSUME TypeOK, IdentifierBounded, UncountedBounded PROVE GuessesBounded
  <2> SUFFICES ASSUME NEW i \in Identifiers
               PROVE  Cardinality({a \in told : req[a].identifier = i})
                        <= MaxPerIdentifier - 1 + 2 * MaxConcurrent
    BY DEF GuessesBounded
  <2> DEFINE T == {a \in told : req[a].identifier = i}
             L == told \ rows
             F == FailuresOf(i)
  <2>1. ASSUME NEW a \in T PROVE a \in F \cup L
    <3>1. a \in told /\ req[a].identifier = i
      OBVIOUS
    <3>2. CASE a \in rows
      BY <3>1, <3>2 DEF FailuresOf
    <3>3. CASE a \notin rows
      BY <3>1, <3>3
    <3>4. QED
      BY <3>2, <3>3
  <2>2. IsFiniteSet(F) /\ IsFiniteSet(L)
    BY <1>1, AttemptsFinite, FS_Subset DEF FailuresOf, TypeOK
  <2>3. Cardinality(F) <= MaxPerIdentifier - 1 + MaxConcurrent /\ Cardinality(L) <= MaxConcurrent
    BY <1>1 DEF IdentifierBounded, UncountedBounded
  <2> HIDE DEF T, L, F
  <2>4. /\ IsFiniteSet(F \cup L)
        /\ Cardinality(F \cup L) = Cardinality(F) + Cardinality(L) - Cardinality(F \cap L)
    BY <2>2, FS_Union
  <2>5. Cardinality(F) \in Nat /\ Cardinality(L) \in Nat /\ Cardinality(F \cap L) \in Nat
    BY <2>2, FS_CardinalityType, FS_Intersection
  <2>6. Cardinality(F \cup L) <= MaxPerIdentifier - 1 + 2 * MaxConcurrent
    BY <2>3, <2>4, <2>5, LimitsPositive
  <2>7. MaxPerIdentifier - 1 + 2 * MaxConcurrent \in Int
    BY LimitsPositive
  <2>8. Cardinality(T) <= MaxPerIdentifier - 1 + 2 * MaxConcurrent
    BY <2>1, <2>4, <2>6, <2>7, SubsetBounded
  <2>9. QED
    BY <2>8 DEF T
<1>2. QED
  BY <1>1, TypeCorrect, LockoutBoundsIdentifier, UncountedAreBounded, PTL

---------------------------------------------------------------------------
(* The overshoot is the price of attempts of one identifier (one address)  *)
(* that overlap, and of nothing else: where they come one after the other, *)
(* whatever the others do, the limits are exact.                           *)
IdentifierApart ==
  \A a, b \in InFlight : req[a].identifier = req[b].identifier => a = b
IpApart == \A a, b \in InFlight : req[a].ip = req[b].ip => a = b

IdentifierExact == \A i \in Identifiers : Cardinality(FailuresOf(i)) <= MaxPerIdentifier
IpExact == \A p \in Ips : Cardinality(FailuresAt(p)) <= MaxPerIp

ChargesExactTo == \A i \in Identifiers : Cardinality(ChargedTo(i)) <= MaxPerIdentifier
ChargesExactAt == \A p \in Ips : Cardinality(ChargedAt(p)) <= MaxPerIp

(* A step leaves the charges where they are, or admits one attempt where   *)
(* both limits leave room.                                                 *)
LEMMA ChargesMove ==
  ASSUME TypeOK, [Next]_vars
  PROVE  \/ /\ \A i : ChargedTo(i)' \subseteq ChargedTo(i)
            /\ \A p : ChargedAt(p)' \subseteq ChargedAt(p)
         \/ \E a \in Attempts :
              /\ pc[a] = "arrived" /\ pc' = [pc EXCEPT ![a] = "admitted"]
              /\ rows' = rows /\ req' = req
              /\ Cardinality(FailuresOf(req[a].identifier)) < MaxPerIdentifier
              /\ Cardinality(FailuresAt(req[a].ip)) < MaxPerIp
<1> DEFINE Shrink == /\ \A i : ChargedTo(i)' \subseteq ChargedTo(i)
                     /\ \A p : ChargedAt(p)' \subseteq ChargedAt(p)
<1>1. ASSUME NEW a \in Attempts, CheckLockout(a), IsBlocked(req[a].identifier, req[a].ip)
      PROVE  Shrink
  BY <1>1 DEF CheckLockout, Forget, ChargedTo, ChargedAt, TypeOK
<1>2. ASSUME NEW a \in Attempts, CheckLockout(a), ~ IsBlocked(req[a].identifier, req[a].ip)
      PROVE  /\ pc[a] = "arrived" /\ pc' = [pc EXCEPT ![a] = "admitted"]
             /\ rows' = rows /\ req' = req
             /\ Cardinality(FailuresOf(req[a].identifier)) < MaxPerIdentifier
             /\ Cardinality(FailuresAt(req[a].ip)) < MaxPerIp
  <2>1. \A i, p : Cardinality(FailuresOf(i)) \in Nat /\ Cardinality(FailuresAt(p)) \in Nat
    BY AttemptsFinite, FS_Subset, FS_CardinalityType DEF FailuresOf, FailuresAt, TypeOK
  <2>2. QED
    BY <1>2, <2>1, LimitsPositive DEF CheckLockout, IsBlocked
<1>3. ASSUME NEW a \in Attempts, NEW r \in Request, Submit(a, r) PROVE Shrink
  BY <1>3 DEF Submit, ChargedTo, ChargedAt, TypeOK
<1>4. ASSUME NEW a \in Attempts,
             RecordFailure(a) \/ AnswerFailure(a) \/ AcceptLogin(a) \/ RequestFails(a)
      PROVE  Shrink
  BY <1>4 DEF RecordFailure, AnswerFailure, AcceptLogin, RequestFails, Forget, ChargedTo,
              ChargedAt, TypeOK
<1>5. ASSUME Restart \/ UNCHANGED vars PROVE Shrink
  BY <1>5 DEF Restart, vars, ChargedTo, ChargedAt, TypeOK
<1>6. ASSUME Tick PROVE Shrink
  BY <1>6, TickKeeps DEF ChargedTo, ChargedAt
<1>7. QED
  BY <1>1, <1>2, <1>3, <1>4, <1>5, <1>6, Zenon DEF Next, Handle

(* One more than fewer than n is at most n.                                *)
LEMMA OneMore ==
  ASSUME NEW S, NEW a, NEW T, NEW n \in Nat, IsFiniteSet(S), Cardinality(S) < n,
         T \subseteq S \cup {a}
  PROVE  Cardinality(T) <= n
<1>1. IsFiniteSet(S \cup {a}) /\ Cardinality(S) \in Nat
        /\ (Cardinality(S \cup {a}) = Cardinality(S)
              \/ Cardinality(S \cup {a}) = Cardinality(S) + 1)
  BY FS_AddElement, FS_CardinalityType, Zenon
<1>2. Cardinality(S \cup {a}) <= n
  BY <1>1
<1>3. QED
  BY <1>1, <1>2, SubsetBounded

LEMMA ExactToStep ==
  ASSUME TypeOK, IdentifierApart, ChargesExactTo, [Next]_vars
  PROVE  ChargesExactTo'
<1> SUFFICES ASSUME NEW i \in Identifiers
             PROVE  Cardinality(ChargedTo(i)') <= MaxPerIdentifier
  BY DEF ChargesExactTo
<1>1. IsFiniteSet(ChargedTo(i)) /\ IsFiniteSet(FailuresOf(i)) /\ MaxPerIdentifier \in Nat
  BY AttemptsFinite, FS_Subset, LimitsPositive DEF ChargedTo, FailuresOf, TypeOK
<1>2. CASE ChargedTo(i)' \subseteq ChargedTo(i)
  BY <1>1, <1>2, SubsetBounded DEF ChargesExactTo
<1>3. ASSUME NEW a \in Attempts, pc[a] = "arrived", pc' = [pc EXCEPT ![a] = "admitted"],
             rows' = rows, req' = req, Cardinality(FailuresOf(req[a].identifier)) < MaxPerIdentifier
      PROVE  Cardinality(ChargedTo(i)') <= MaxPerIdentifier
  <2>1. CASE req[a].identifier = i
    <3>1. \A b \in Attempts : pc[b] = "admitted" => req[b].identifier # i
      BY <1>3, <2>1 DEF IdentifierApart, InFlight
    <3>2. ChargedTo(i)' \subseteq FailuresOf(i) \cup {a}
      BY <1>3, <3>1 DEF ChargedTo, FailuresOf, TypeOK
    <3>3. QED
      BY <1>1, <1>3, <2>1, <3>2, OneMore
  <2>2. CASE req[a].identifier # i
    <3>1. ChargedTo(i)' \subseteq ChargedTo(i)
      BY <1>3, <2>2 DEF ChargedTo, TypeOK
    <3>2. QED
      BY <1>2, <3>1
  <2>3. QED
    BY <2>1, <2>2
<1>4. QED
  BY <1>2, <1>3, ChargesMove

LEMMA ExactAtStep ==
  ASSUME TypeOK, IpApart, ChargesExactAt, [Next]_vars
  PROVE  ChargesExactAt'
<1> SUFFICES ASSUME NEW p \in Ips
             PROVE  Cardinality(ChargedAt(p)') <= MaxPerIp
  BY DEF ChargesExactAt
<1>1. IsFiniteSet(ChargedAt(p)) /\ IsFiniteSet(FailuresAt(p)) /\ MaxPerIp \in Nat
  BY AttemptsFinite, FS_Subset, LimitsPositive DEF ChargedAt, FailuresAt, TypeOK
<1>2. CASE ChargedAt(p)' \subseteq ChargedAt(p)
  BY <1>1, <1>2, SubsetBounded DEF ChargesExactAt
<1>3. ASSUME NEW a \in Attempts, pc[a] = "arrived", pc' = [pc EXCEPT ![a] = "admitted"],
             rows' = rows, req' = req, Cardinality(FailuresAt(req[a].ip)) < MaxPerIp
      PROVE  Cardinality(ChargedAt(p)') <= MaxPerIp
  <2>1. CASE req[a].ip = p
    <3>1. \A b \in Attempts : pc[b] = "admitted" => req[b].ip # p
      BY <1>3, <2>1 DEF IpApart, InFlight
    <3>2. ChargedAt(p)' \subseteq FailuresAt(p) \cup {a}
      BY <1>3, <3>1 DEF ChargedAt, FailuresAt, TypeOK
    <3>3. QED
      BY <1>1, <1>3, <2>1, <3>2, OneMore
  <2>2. CASE req[a].ip # p
    <3>1. ChargedAt(p)' \subseteq ChargedAt(p)
      BY <1>3, <2>2 DEF ChargedAt, TypeOK
    <3>2. QED
      BY <1>2, <3>1
  <2>3. QED
    BY <2>1, <2>2
<1>4. QED
  BY <1>2, <1>3, ChargesMove

LEMMA ExactInit == Init => ChargesExactTo /\ ChargesExactAt
<1> SUFFICES ASSUME Init PROVE ChargesExactTo /\ ChargesExactAt
  OBVIOUS
<1>1. (\A i : ChargedTo(i) = {}) /\ (\A p : ChargedAt(p) = {})
  BY DEF Init, ChargedTo, ChargedAt
<1>2. QED
  BY <1>1, FS_EmptySet, LimitsPositive DEF ChargesExactTo, ChargesExactAt

(* A login that is tried again and again, one attempt after the other, is  *)
(* refused from the limit on, exactly (config.admin.lockout): restarts     *)
(* between the attempts, failed statements and other identifiers' attempts *)
(* make no difference.                                                     *)
THEOREM SequentialLockoutIsExact == Spec /\ []IdentifierApart => []IdentifierExact
<1>1. TypeOK /\ ChargesExactTo => IdentifierExact
  <2> SUFFICES ASSUME TypeOK, ChargesExactTo, NEW i \in Identifiers
               PROVE  Cardinality(FailuresOf(i)) <= MaxPerIdentifier
    BY DEF IdentifierExact
  <2>1. FailuresOf(i) \subseteq ChargedTo(i) /\ IsFiniteSet(ChargedTo(i))
    BY AttemptsFinite, FS_Subset DEF FailuresOf, ChargedTo, TypeOK
  <2>2. QED
    BY <2>1, SubsetBounded, LimitsPositive DEF ChargesExactTo
<1>2. QED
  BY <1>1, TypeCorrect, ExactInit, ExactToStep, PTL DEF Spec

(* The same for the attempts of one address.                               *)
THEOREM SequentialIpLockoutIsExact == Spec /\ []IpApart => []IpExact
<1>1. TypeOK /\ ChargesExactAt => IpExact
  <2> SUFFICES ASSUME TypeOK, ChargesExactAt, NEW p \in Ips
               PROVE  Cardinality(FailuresAt(p)) <= MaxPerIp
    BY DEF IpExact
  <2>1. FailuresAt(p) \subseteq ChargedAt(p) /\ IsFiniteSet(ChargedAt(p))
    BY AttemptsFinite, FS_Subset DEF FailuresAt, ChargedAt, TypeOK
  <2>2. QED
    BY <2>1, SubsetBounded, LimitsPositive DEF ChargesExactAt
<1>2. QED
  BY <1>1, TypeCorrect, ExactInit, ExactAtStep, PTL DEF Spec

---------------------------------------------------------------------------
(* That a lockout ends (LockoutEnds) needs the fairness of the clock and   *)
(* is left to TLC; what it rests on is proved.  Once the attempts admitted *)
(* before the lock have recorded, nothing renews it: the locked            *)
(* identifier's failures only become fewer, and every tick of the clock    *)
(* brings each that is left nearer to the end of the window.               *)
NoneAdmitted(i) == \A a \in Attempts : pc[a] = "admitted" => req[a].identifier # i
LockRunsOut ==
  [][\A i \in Identifiers :
       Cardinality(FailuresOf(i)) >= MaxPerIdentifier /\ NoneAdmitted(i) =>
         /\ NoneAdmitted(i)'
         /\ \A a \in FailuresOf(i)' :
              /\ a \in FailuresOf(i)
              /\ age'[a] = IF Tick THEN age[a] + 1 ELSE age[a]]_vars

(* A refused attempt does not renew the lock (adminAuth.js:45-51 writes no *)
(* row), however often the client of a locked identifier tries.            *)
THEOREM RefusalsDoNotRenew == Spec => LockRunsOut
<1>1. ASSUME TypeOK, [Next]_vars, NEW i \in Identifiers,
             Cardinality(FailuresOf(i)) >= MaxPerIdentifier, NoneAdmitted(i)
      PROVE  \/ UNCHANGED vars
             \/ /\ NoneAdmitted(i)'
                /\ \A a \in FailuresOf(i)' :
                     /\ a \in FailuresOf(i)
                     /\ age'[a] = IF Tick THEN age[a] + 1 ELSE age[a]
  <2> DEFINE Goal == /\ NoneAdmitted(i)'
                     /\ \A a \in FailuresOf(i)' : a \in FailuresOf(i) /\ age'[a] = age[a]
  <2>1. CASE Tick
    <3>1. NoneAdmitted(i)'
      BY <1>1, <2>1, TickKeeps DEF NoneAdmitted
    <3>2. ASSUME NEW a \in FailuresOf(i)' PROVE a \in FailuresOf(i) /\ age'[a] = age[a] + 1
      <4>1. a \in rows' /\ req'[a].identifier = i
        BY DEF FailuresOf
      <4>2. a \in rows /\ a \in Attempts /\ req'[a] = req[a] /\ age'[a] = age[a] + 1
        BY <1>1, <2>1, <4>1, TickKeeps DEF TypeOK
      <4>3. QED
        BY <4>1, <4>2 DEF FailuresOf
    <3>3. QED
      BY <2>1, <3>1, <3>2
  <2>2. ASSUME NEW a \in Attempts, NEW r \in Request, Submit(a, r) PROVE Goal
    BY <1>1, <2>2 DEF Submit, NoneAdmitted, FailuresOf, TypeOK
  <2>3. ASSUME NEW a \in Attempts, CheckLockout(a) PROVE Goal
    <3>1. rows' = rows /\ age' = age
      BY <2>3 DEF CheckLockout
    <3>2. \A b \in rows : req'[b] = req[b]
      <4>1. req' = req \/ req' = [req EXCEPT ![a] = IF a \in rows THEN @ ELSE NoRequest]
        BY <2>3 DEF CheckLockout, Forget
      <4>2. QED
        BY <1>1, <4>1 DEF TypeOK
    <3>3. ASSUME NEW b \in Attempts, pc'[b] = "admitted" PROVE req'[b].identifier # i
      <4>1. CASE IsBlocked(req[a].identifier, req[a].ip)
        <5>1. /\ pc' = [pc EXCEPT ![a] = "free"]
              /\ req' = [req EXCEPT ![a] = IF a \in rows THEN @ ELSE NoRequest]
          BY <2>3, <4>1 DEF CheckLockout, Forget
        <5>2. b # a /\ pc'[b] = pc[b] /\ req'[b] = req[b]
          BY <1>1, <3>3, <5>1 DEF TypeOK
        <5>3. QED
          BY <1>1, <3>3, <5>2 DEF NoneAdmitted
      <4>2. CASE ~ IsBlocked(req[a].identifier, req[a].ip)
        <5>1. req[a].identifier # i
          BY <1>1, <4>2 DEF IsBlocked
        <5>2. pc' = [pc EXCEPT ![a] = "admitted"] /\ req' = req
          BY <2>3, <4>2 DEF CheckLockout
        <5>3. QED
          BY <1>1, <3>3, <5>1, <5>2 DEF NoneAdmitted, TypeOK
      <4>3. QED
        BY <4>1, <4>2
    <3>4. NoneAdmitted(i)'
      BY <3>3 DEF NoneAdmitted
    <3>5. QED
      BY <3>1, <3>2, <3>4 DEF FailuresOf
  <2>4. ASSUME NEW a \in Attempts, RecordFailure(a) PROVE Goal
    BY <1>1, <2>4 DEF RecordFailure, NoneAdmitted, FailuresOf, TypeOK
  <2>5. ASSUME NEW a \in Attempts, AnswerFailure(a) \/ AcceptLogin(a) \/ RequestFails(a)
        PROVE  Goal
    BY <1>1, <2>5 DEF AnswerFailure, AcceptLogin, RequestFails, Forget, NoneAdmitted,
                      FailuresOf, TypeOK
  <2>6. ASSUME Restart PROVE Goal
    <3>1. NoneAdmitted(i)'
      BY <2>6 DEF Restart, NoneAdmitted
    <3>2. /\ rows' = rows /\ age' = age
          /\ req' = [a \in Attempts |-> IF a \in rows \cup told THEN req[a] ELSE NoRequest]
      BY <2>6 DEF Restart
    <3>3. \A a \in rows : req'[a] = req[a]
      BY <1>1, <3>2 DEF TypeOK
    <3>4. rows' = rows /\ age' = age
      BY <3>2
    <3>5. QED
      BY <3>1, <3>3, <3>4 DEF FailuresOf
  <2>7. QED
    BY <1>1, <2>1, <2>2, <2>3, <2>4, <2>5, <2>6 DEF Next, Handle
<1>2. TypeOK /\ [Next]_vars =>
        [\A i \in Identifiers :
           Cardinality(FailuresOf(i)) >= MaxPerIdentifier /\ NoneAdmitted(i) =>
             /\ NoneAdmitted(i)'
             /\ \A a \in FailuresOf(i)' :
                  /\ a \in FailuresOf(i)
                  /\ age'[a] = IF Tick THEN age[a] + 1 ELSE age[a]]_vars
  BY <1>1, Zenon
<1>3. QED
  BY <1>2, TypeCorrect, PTL DEF Spec, LockRunsOut
=============================================================================
