------------------------- MODULE LoginThrottleProofs -------------------------
(***************************************************************************)
(* The throttle neither locks a key out nor loses a slot or a window, for  *)
(* any addresses, names, logins in progress, backoff, grace and bounds.    *)
(***************************************************************************)
EXTENDS LoginThrottle, FiniteSetTheorems, TLAPS

(* The backoff.  What a function defined by recursion computes is proved by *)
(* least counterexample, from the well-foundedness of < on the naturals.    *)

Below == {p \in Nat \X Nat : p[1] < p[2]}

LEMMA LeastNatural ==
  ASSUME NEW T \in SUBSET Nat, T # {}
  PROVE  \E m \in T : \A n \in T : ~(n < m)
  <1>1. IsWellFoundedOn(Below, Nat)
    BY NatLessThanWellFounded DEF OpToRel, Below
  <1>2. PICK m \in T : \A n \in T : <<n, m>> \notin Below
    BY <1>1, WFMin
  <1>3. ASSUME NEW n \in T, n < m PROVE FALSE
    <2>1. n \in Nat /\ m \in Nat
      OBVIOUS
    <2>2. <<n, m>> \in Below
      BY <1>3, <2>1 DEF Below
    <2>3. QED
      BY <1>2, <2>2
  <1>4. QED
    BY <1>3

Cap(b) == IF b > MaxBackoff THEN MaxBackoff ELSE b

\* g doubles and stops at the ceiling, up to n failures.
Doubles(g, n) ==
    \A i \in 1 .. n : g[i] = Cap(IF i = 1 THEN Base ELSE 2 * g[i - 1])

Doubled(g) == [i \in 1 .. MaxLogins |-> Cap(IF i = 1 THEN Base ELSE 2 * g[i - 1])]

LEMMA CapNatural ==
  ASSUME NEW b \in Nat
  PROVE  Cap(b) \in 0 .. MaxBackoff
  BY ThrottleAssumption DEF Cap

\* There are such functions: one for n extends to one for n + 1.
LEMMA SomeDoubles ==
  ASSUME NEW n \in Nat
  PROVE  \E g \in [1 .. n -> 0 .. MaxBackoff] : Doubles(g, n)
  <1> DEFINE Has(m) == \E g \in [1 .. m -> 0 .. MaxBackoff] : Doubles(g, m)
             Bad == {m \in Nat : ~Has(m)}
  <1>1. Has(0)
    <2>1. [i \in 1 .. 0 |-> 0] \in [1 .. 0 -> 0 .. MaxBackoff]
      OBVIOUS
    <2>2. Doubles([i \in 1 .. 0 |-> 0], 0)
      BY DEF Doubles
    <2>3. QED
      BY <2>1, <2>2
  <1>2. ASSUME NEW m \in Nat, Has(m) PROVE Has(m + 1)
    <2>1. PICK g \in [1 .. m -> 0 .. MaxBackoff] : Doubles(g, m)
      BY <1>2
    <2> DEFINE last == Cap(IF m + 1 = 1 THEN Base ELSE 2 * g[m])
               h == [i \in 1 .. m + 1 |-> IF i = m + 1 THEN last ELSE g[i]]
    <2>2. last \in 0 .. MaxBackoff
      <3>1. (IF m + 1 = 1 THEN Base ELSE 2 * g[m]) \in Nat
        BY ThrottleAssumption
      <3>2. QED
        BY <3>1, CapNatural
    <2>3. h \in [1 .. m + 1 -> 0 .. MaxBackoff]
      <3> HIDE DEF last
      <3>1. QED
        BY <2>2
    <2>4. ASSUME NEW i \in 1 .. m + 1
          PROVE  h[i] = Cap(IF i = 1 THEN Base ELSE 2 * h[i - 1])
      <3>1. CASE i = m + 1
        <4>1. i # 1 => h[i - 1] = g[m]
          BY <3>1
        <4>2. QED
          BY <3>1, <4>1
      <3>2. CASE i # m + 1
        <4>1. i \in 1 .. m /\ h[i] = g[i] /\ (i # 1 => h[i - 1] = g[i - 1])
          BY <3>2
        <4> HIDE DEF h
        <4>2. QED
          BY <2>1, <4>1 DEF Doubles
      <3>3. QED
        BY <3>1, <3>2
    <2>5. Doubles(h, m + 1)
      BY <2>4 DEF Doubles
    <2> HIDE DEF h
    <2>6. QED
      BY <2>3, <2>5
  <1> HIDE DEF Has
  <1>3. ASSUME Bad # {} PROVE FALSE
    <2>1. PICK m \in Bad : \A k \in Bad : ~(k < m)
      BY <1>3, LeastNatural
    <2>2. m \in Nat /\ m # 0 /\ ~Has(m)
      BY <1>1
    <2>3. m - 1 \in Nat /\ m - 1 < m /\ (m - 1) + 1 = m
      BY <2>2
    <2>4. Has(m - 1)
      BY <2>1, <2>3
    <2>5. QED
      BY <1>2, <2>2, <2>3, <2>4
  <1>4. Has(n)
    BY <1>3
  <1>5. QED
    BY <1>4 DEF Has

\* What BackoffSeconds(n) looks up.
Table == CHOOSE g : g = Doubled(g)

LEMMA TableDoubles == Table = Doubled(Table)
  <1>1. MaxLogins \in Nat
    BY ThrottleAssumption
  <1>2. PICK g \in [1 .. MaxLogins -> 0 .. MaxBackoff] : Doubles(g, MaxLogins)
    BY <1>1, SomeDoubles
  <1>3. g = Doubled(g)
    BY <1>2 DEF Doubles, Doubled
  <1>4. QED
    BY <1>3 DEF Table

LEMMA TableRange ==
  ASSUME NEW n \in 1 .. MaxLogins PROVE Table[n] \in 0 .. MaxBackoff
  <1> DEFINE Bad == {m \in 1 .. MaxLogins : Table[m] \notin 0 .. MaxBackoff}
  <1>1. MaxLogins \in Nat /\ MaxBackoff \in Nat /\ Base \in Nat
    BY ThrottleAssumption
  <1>2. ASSUME Bad # {} PROVE FALSE
    <2>0. Bad \in SUBSET Nat
      BY <1>1
    <2>1. PICK m \in Bad : \A k \in Bad : ~(k < m)
      BY <1>2, <2>0, LeastNatural
    <2>2. m \in 1 .. MaxLogins /\ Table[m] \notin 0 .. MaxBackoff
      OBVIOUS
    <2>3. Table[m] = Cap(IF m = 1 THEN Base ELSE 2 * Table[m - 1])
      BY <2>2, TableDoubles DEF Doubled
    <2>4. m # 1 => Table[m - 1] \in Nat
      <3>1. m # 1 => m - 1 \in 1 .. MaxLogins /\ m - 1 < m
        BY <1>1, <2>2
      <3>2. m # 1 => m - 1 \notin Bad
        BY <2>1, <3>1
      <3>3. m # 1 => Table[m - 1] \in 0 .. MaxBackoff
        BY <3>1, <3>2
      <3>4. QED
        BY <1>1, <3>3
    <2>5. (IF m = 1 THEN Base ELSE 2 * Table[m - 1]) \in Nat
      BY <1>1, <2>4
    <2>6. QED
      BY <2>2, <2>3, <2>5, CapNatural
  <1>3. QED
    BY <1>2

\* backoffSeconds: nothing without a failure, never above the ceiling, and one
\* more failure never makes the backoff shorter.
LEMMA Backoff ==
  /\ BackoffSeconds(0) = 0
  /\ \A n \in 0 .. MaxLogins : BackoffSeconds(n) \in 0 .. MaxBackoff
  /\ \A n \in 0 .. MaxLogins - 1 : BackoffSeconds(n) <= BackoffSeconds(n + 1)
  <1>1. MaxLogins \in Nat /\ MaxBackoff \in Nat
    BY ThrottleAssumption
  <1>2. \A n : BackoffSeconds(n) = IF n = 0 THEN 0 ELSE Table[n]
    BY DEF BackoffSeconds, Table, Doubled, Cap
  <1>3. \A n \in 0 .. MaxLogins : BackoffSeconds(n) \in 0 .. MaxBackoff
    BY <1>1, <1>2, TableRange
  <1>4. ASSUME NEW n \in 0 .. MaxLogins - 1
        PROVE  BackoffSeconds(n) <= BackoffSeconds(n + 1)
    <2>1. n \in Nat /\ n + 1 # 0 /\ n + 1 \in 1 .. MaxLogins
      BY <1>1
    <2>2. BackoffSeconds(n + 1) \in 0 .. MaxBackoff
      BY <1>1, <1>3, <2>1
    <2>3. CASE n = 0
      BY <1>1, <1>2, <2>2, <2>3
    <2>4. CASE n # 0
      <3>1. n \in 1 .. MaxLogins /\ n + 1 # 1 /\ (n + 1) - 1 = n
        BY <1>1, <2>1, <2>4
      <3>2. Table[n + 1] = Cap(2 * Table[n])
        BY <2>1, <3>1, TableDoubles DEF Doubled
      <3>3. Table[n] \in 0 .. MaxBackoff
        BY <3>1, TableRange
      <3>4. Table[n] <= Cap(2 * Table[n])
        BY <1>1, <3>3 DEF Cap
      <3>5. QED
        BY <1>2, <2>1, <2>4, <3>2, <3>4
    <2>5. QED
      BY <2>3, <2>4
  <1>5. QED
    BY <1>2, <1>3, <1>4

-----------------------------------------------------------------------------
(* The invariant.  A failure is counted by a login in progress, so the count *)
(* of a key and the logins that may still add to it stay within the logins   *)
(* that arrived; a window ends within the backoff of its count.              *)

InProgress == {w \in Workers : req[w].pc # "idle"}
Verifying  == {w \in Workers : req[w].pc = "verify"}

Admitted(q) ==
    q.pc # "idle" => q.ip \in Addresses /\ q.user \in Names /\ q.now <= clock

CountInv ==
    /\ IsFiniteSet(InProgress)
    /\ \A k \in Keys : row[k].count + Cardinality(InProgress) <= arrived

WindowInv == \A k \in Keys : row[k].until <= clock + BackoffSeconds(row[k].count)

ThrottleInv ==
    /\ TypeOK
    /\ \A w \in Workers : Admitted(req[w])
    /\ CountInv
    /\ WindowInv
    /\ SlotsReturned

LEMMA Facts ==
  ASSUME ThrottleInv
  PROVE  /\ MaxLogins \in Nat /\ MaxBackoff \in Nat /\ MaxClock \in Nat
         /\ MaxArgon2 \in Nat /\ Grace \in Nat
         /\ clock \in Nat /\ arrived \in Nat /\ arrived <= MaxLogins
         /\ slots \in Nat
         /\ row \in [Keys -> [count : 0 .. MaxLogins, until : Nat]]
         /\ req \in [Workers -> Login]
         /\ \A k \in Keys : row[k].count \in 0 .. MaxLogins /\ row[k].until \in Nat
         /\ \A k \in Keys : BackoffSeconds(row[k].count) \in 0 .. MaxBackoff
         /\ \A w \in Workers : req[w].now \in Nat /\ req[w] \in Login
         /\ IsFiniteSet(InProgress) /\ Cardinality(InProgress) \in Nat
         /\ IsFiniteSet(Verifying) /\ Cardinality(Verifying) \in Nat
  <1>1. /\ MaxLogins \in Nat /\ MaxBackoff \in Nat /\ MaxClock \in Nat
        /\ MaxArgon2 \in Nat /\ Grace \in Nat
    BY ThrottleAssumption
  <1>2. /\ row \in [Keys -> [count : 0 .. MaxLogins, until : Nat]]
        /\ req \in [Workers -> Login]
        /\ slots \in 0 .. MaxArgon2 /\ arrived \in 0 .. MaxLogins
        /\ clock \in 0 .. MaxClock
    BY DEF ThrottleInv, TypeOK
  <1>3. \A k \in Keys : row[k].count \in 0 .. MaxLogins /\ row[k].until \in Nat
    BY <1>2
  <1>4. \A k \in Keys : BackoffSeconds(row[k].count) \in 0 .. MaxBackoff
    BY <1>3, Backoff
  <1>5. \A w \in Workers : req[w].now \in Nat /\ req[w] \in Login
    BY <1>2 DEF Login
  <1>6. IsFiniteSet(InProgress)
    BY DEF ThrottleInv, CountInv
  <1>7. IsFiniteSet(Verifying)
    <2>1. Verifying \subseteq InProgress
      BY DEF Verifying, InProgress
    <2>2. QED
      BY <1>6, <2>1, FS_Subset
  <1>8. Cardinality(InProgress) \in Nat /\ Cardinality(Verifying) \in Nat
    BY <1>6, <1>7, FS_CardinalityType
  <1>9. QED
    BY <1>1, <1>2, <1>3, <1>4, <1>5, <1>6, <1>7, <1>8

LEMMA IdleLogin == Idle \in Login /\ Idle.pc = "idle"
  BY DEF Idle, Login, PCs

LEMMA ThrottleInit == Init => ThrottleInv
  <1> SUFFICES ASSUME Init PROVE ThrottleInv
    OBVIOUS
  <1>1. /\ MaxLogins \in Nat /\ MaxClock \in Nat /\ MaxArgon2 \in Nat
        /\ MaxBackoff \in Nat
    BY ThrottleAssumption
  <1>2. NoRow \in [count : 0 .. MaxLogins, until : Nat]
    BY <1>1 DEF NoRow
  <1>3. TypeOK
    BY <1>1, <1>2, IdleLogin DEF Init, TypeOK
  <1>4. \A w \in Workers : req[w].pc = "idle"
    BY IdleLogin DEF Init
  <1>5. InProgress = {} /\ Verifying = {}
    BY <1>4 DEF InProgress, Verifying
  <1>6. IsFiniteSet({}) /\ Cardinality({}) = 0
    BY FS_EmptySet
  <1>7. \A k \in Keys : row[k].count = 0 /\ row[k].until = 0
    BY DEF Init, NoRow
  <1>8. CountInv
    BY <1>5, <1>6, <1>7 DEF Init, CountInv
  <1>9. WindowInv
    BY <1>7, Backoff DEF Init, WindowInv
  <1>10. SlotsReturned
    BY <1>5, <1>6 DEF Init, SlotsReturned, Verifying
  <1>11. QED
    BY <1>3, <1>4, <1>8, <1>9, <1>10 DEF ThrottleInv, Admitted

\* A worker goes from one step to another, or is done.
LEMMA GoesFields ==
  ASSUME ThrottleInv, NEW w \in Workers, NEW pc \in PCs, Goes(w, pc)
  PROVE  /\ req' \in [Workers -> Login]
         /\ req'[w] = [req[w] EXCEPT !.pc = pc] /\ req'[w].pc = pc
         /\ req'[w].ip = req[w].ip /\ req'[w].user = req[w].user
         /\ req'[w].now = req[w].now
         /\ \A v \in Workers : v # w => req'[v] = req[v]
  <1>1. req \in [Workers -> Login] /\ req[w] \in Login
    BY Facts
  <1>2. [req[w] EXCEPT !.pc = pc] \in Login
    BY <1>1 DEF Login
  <1>3. req' = [req EXCEPT ![w] = [req[w] EXCEPT !.pc = pc]]
    BY DEF Goes
  <1>4. req'[w] = [req[w] EXCEPT !.pc = pc]
    BY <1>1, <1>3
  <1>5. QED
    BY <1>1, <1>2, <1>3, <1>4 DEF Login

LEMMA AnswerFields ==
  ASSUME ThrottleInv, NEW w \in Workers, Answer(w)
  PROVE  /\ req' \in [Workers -> Login]
         /\ req'[w] = Idle
         /\ \A v \in Workers : v # w => req'[v] = req[v]
  BY Facts, IdleLogin DEF Answer

\* Counting the logins in progress and the password checks after such a step.
LEMMA GoesCounts ==
  ASSUME ThrottleInv, NEW w \in Workers, req[w].pc # "idle",
         NEW q, req'[w] = q,
         \A v \in Workers : v # w => req'[v] = req[v]
  PROVE  /\ q.pc # "idle" => InProgress' = InProgress
         /\ q.pc = "idle" => InProgress' = InProgress \ {w}
         /\ w \in InProgress
         /\ q.pc = "verify" => Verifying' = Verifying \cup {w}
         /\ q.pc # "verify" => Verifying' = Verifying \ {w}
         /\ w \in Verifying <=> req[w].pc = "verify"
  BY DEF InProgress, Verifying

\* Steps that end logins, forget windows or let time pass keep the counts.
LEMMA CountStep ==
  ASSUME ThrottleInv, InProgress' \subseteq InProgress, arrived' = arrived,
         clock' = clock \/ clock' = clock + 1,
         \A k \in Keys : row'[k] = row[k] \/ row'[k] = NoRow
  PROVE  CountInv' /\ WindowInv'
  <1> DEFINE n == Cardinality(InProgress)
             m == Cardinality(InProgress')
  <1>1. /\ arrived \in Nat /\ clock \in Nat /\ n \in Nat
        /\ \A k \in Keys : row[k].count \in Nat /\ row[k].until \in Nat
        /\ \A k \in Keys : BackoffSeconds(row[k].count) \in Nat
        /\ IsFiniteSet(InProgress)
    BY Facts
  <1>2. \A k \in Keys : row[k].count + n <= arrived
    BY DEF ThrottleInv, CountInv
  <1>3. \A k \in Keys : row[k].until <= clock + BackoffSeconds(row[k].count)
    BY DEF ThrottleInv, WindowInv
  <1>4. IsFiniteSet(InProgress') /\ m \in Nat /\ m <= n
    BY <1>1, FS_Subset, FS_CardinalityType
  <1>5. NoRow.count = 0 /\ NoRow.until = 0 /\ BackoffSeconds(0) = 0
    BY Backoff DEF NoRow
  <1>6. ASSUME NEW k \in Keys
        PROVE  /\ row'[k].count + m <= arrived
               /\ row'[k].until <= clock' + BackoffSeconds(row'[k].count)
    <2>1. /\ row[k].count \in Nat /\ row[k].until \in Nat
          /\ BackoffSeconds(row[k].count) \in Nat
          /\ row[k].count + n <= arrived
          /\ row[k].until <= clock + BackoffSeconds(row[k].count)
          /\ row'[k] = row[k] \/ row'[k] = NoRow
      BY <1>1, <1>2, <1>3
    <2> HIDE DEF n, m
    <2>2. CASE row'[k] = row[k]
      BY <1>1, <1>4, <2>1, <2>2
    <2>3. CASE row'[k] = NoRow
      BY <1>1, <1>4, <1>5, <2>1, <2>3
    <2>4. QED
      BY <2>1, <2>2, <2>3
  <1>7. CountInv'
    BY <1>4, <1>6 DEF CountInv
  <1>8. WindowInv'
    BY <1>6 DEF WindowInv
  <1>9. QED
    BY <1>7, <1>8

LEMMA ArriveStep ==
  ASSUME ThrottleInv, NEW w \in Workers, NEW ip \in Addresses, NEW user \in Names,
         Arrive(w, ip, user)
  PROVE  ThrottleInv'
  <1> DEFINE q == [pc |-> "prune", ip |-> ip, user |-> user, now |-> clock]
  <1>1. q \in Login /\ q.pc = "prune" /\ q.ip = ip /\ q.user = user /\ q.now = clock
    BY Facts DEF Login, PCs
  <1>2. /\ req[w].pc = "idle" /\ arrived < MaxLogins /\ arrived' = arrived + 1
        /\ UNCHANGED <<row, slots, clock>> /\ req' = [req EXCEPT ![w] = q]
    BY DEF Arrive
  <1> HIDE DEF q
  <1>3. /\ req' \in [Workers -> Login] /\ req'[w] = q
        /\ \A v \in Workers : v # w => req'[v] = req[v]
    BY <1>1, <1>2, Facts
  <1>4. TypeOK'
    <2>1. arrived' \in 0 .. MaxLogins
      BY <1>2, Facts
    <2>2. QED
      BY <1>2, <1>3, <2>1 DEF ThrottleInv, TypeOK
  <1>5. InProgress' = InProgress \cup {w} /\ w \notin InProgress
    BY <1>1, <1>2, <1>3 DEF InProgress
  <1>6. /\ IsFiniteSet(InProgress')
        /\ Cardinality(InProgress') = Cardinality(InProgress) + 1
    BY <1>5, Facts, FS_AddElement
  <1>7. CountInv'
    <2>1. ASSUME NEW k \in Keys
          PROVE  row'[k].count + Cardinality(InProgress') <= arrived'
      <3>1. /\ row[k].count + Cardinality(InProgress) <= arrived
            /\ row'[k] = row[k] /\ row[k].count \in Nat
            /\ Cardinality(InProgress) \in Nat /\ arrived \in Nat
        BY <1>2, Facts DEF ThrottleInv, CountInv
      <3>2. QED
        BY <1>2, <1>6, <3>1
    <2>2. QED
      BY <1>6, <2>1 DEF CountInv
  <1>8. WindowInv'
    BY <1>2 DEF ThrottleInv, WindowInv
  <1>9. SlotsReturned'
    <2>1. Verifying' = Verifying
      BY <1>1, <1>2, <1>3 DEF Verifying
    <2>2. QED
      BY <1>2, <2>1 DEF ThrottleInv, SlotsReturned, Verifying
  <1>10. \A v \in Workers : Admitted(req[v])'
    <2>1. clock \in Nat
      BY Facts
    <2>2. QED
      BY <1>1, <1>2, <1>3, <2>1 DEF ThrottleInv, Admitted
  <1>11. QED
    BY <1>4, <1>7, <1>8, <1>9, <1>10 DEF ThrottleInv

\* A login that only moves on or is answered, rows kept or forgotten.
LEMMA QuietStep ==
  ASSUME ThrottleInv, NEW w \in Workers, req[w].pc \notin {"idle", "verify"},
         Answer(w) \/ \E pc \in PCs \ {"idle", "verify"} : Goes(w, pc),
         UNCHANGED <<slots, arrived, clock>>,
         row' \in [Keys -> [count : 0 .. MaxLogins, until : Nat]],
         \A k \in Keys : row'[k] = row[k] \/ row'[k] = NoRow
  PROVE  ThrottleInv'
  <1>1. /\ req' \in [Workers -> Login]
        /\ req'[w].pc # "verify"
        /\ \/ req'[w].pc = "idle"
           \/ /\ req'[w].ip = req[w].ip /\ req'[w].user = req[w].user
              /\ req'[w].now = req[w].now
        /\ \A v \in Workers : v # w => req'[v] = req[v]
    BY AnswerFields, GoesFields, IdleLogin
  <1>2. InProgress' \subseteq InProgress /\ Verifying' = Verifying
    BY <1>1 DEF InProgress, Verifying
  <1>3. TypeOK'
    BY <1>1 DEF ThrottleInv, TypeOK
  <1>4. CountInv' /\ WindowInv'
    BY <1>2, CountStep
  <1>5. SlotsReturned'
    BY <1>2 DEF ThrottleInv, SlotsReturned, Verifying
  <1>6. \A v \in Workers : Admitted(req[v])'
    BY <1>1 DEF ThrottleInv, Admitted
  <1>7. QED
    BY <1>3, <1>4, <1>5, <1>6 DEF ThrottleInv

LEMMA AcquireStep ==
  ASSUME ThrottleInv, NEW w \in Workers, AcquireArgon2(w) PROVE ThrottleInv'
  <1>1. /\ req[w].pc = "slot" /\ slots < MaxArgon2 /\ slots' = slots + 1
        /\ Goes(w, "verify") /\ UNCHANGED <<row, arrived, clock>>
    BY DEF AcquireArgon2
  <1>2. /\ req' \in [Workers -> Login] /\ req'[w].pc = "verify"
        /\ req'[w].ip = req[w].ip /\ req'[w].user = req[w].user
        /\ req'[w].now = req[w].now
        /\ \A v \in Workers : v # w => req'[v] = req[v]
    BY <1>1, GoesFields DEF PCs
  <1>3. /\ InProgress' \subseteq InProgress
        /\ Verifying' = Verifying \cup {w} /\ w \notin Verifying
    BY <1>1, <1>2 DEF InProgress, Verifying
  <1>4. Cardinality(Verifying') = Cardinality(Verifying) + 1
    BY <1>3, Facts, FS_AddElement
  <1>5. SlotsReturned'
    BY <1>1, <1>4 DEF ThrottleInv, SlotsReturned, Verifying
  <1>6. slots' \in 0 .. MaxArgon2
    BY <1>1, Facts
  <1>7. TypeOK'
    BY <1>1, <1>2, <1>6 DEF ThrottleInv, TypeOK
  <1>8. CountInv' /\ WindowInv'
    BY <1>1, <1>3, CountStep
  <1>9. \A v \in Workers : Admitted(req[v])'
    BY <1>1, <1>2 DEF ThrottleInv, Admitted
  <1>10. QED
    BY <1>5, <1>7, <1>8, <1>9 DEF ThrottleInv

LEMMA VerifyStep ==
  ASSUME ThrottleInv, NEW w \in Workers, Verify(w) PROVE ThrottleInv'
  <1>1. /\ req[w].pc = "verify" /\ slots' = slots - 1
        /\ UNCHANGED <<row, arrived, clock>>
        /\ Answer(w) \/ Goes(w, "fail") \/ Goes(w, "reset")
    BY DEF Verify
  <1>2. /\ req' \in [Workers -> Login]
        /\ req'[w].pc # "verify"
        /\ \/ req'[w].pc = "idle"
           \/ /\ req'[w].ip = req[w].ip /\ req'[w].user = req[w].user
              /\ req'[w].now = req[w].now
        /\ \A v \in Workers : v # w => req'[v] = req[v]
    BY <1>1, AnswerFields, GoesFields, IdleLogin DEF PCs
  <1>3. /\ InProgress' \subseteq InProgress
        /\ Verifying' = Verifying \ {w} /\ w \in Verifying
    BY <1>1, <1>2 DEF InProgress, Verifying
  <1>4. /\ Cardinality(Verifying') = Cardinality(Verifying) - 1
        /\ Cardinality(Verifying') \in Nat
    BY <1>3, Facts, FS_RemoveElement, FS_CardinalityType
  <1>5. SlotsReturned'
    BY <1>1, <1>4 DEF ThrottleInv, SlotsReturned, Verifying
  <1>6. slots' \in 0 .. MaxArgon2
    <2>1. slots' \in Nat
      BY <1>4, <1>5 DEF SlotsReturned, Verifying
    <2>2. slots <= MaxArgon2
      BY DEF ThrottleInv, TypeOK
    <2>3. QED
      BY <1>1, <2>1, <2>2, Facts
  <1>7. TypeOK'
    BY <1>1, <1>2, <1>6 DEF ThrottleInv, TypeOK
  <1>8. CountInv' /\ WindowInv'
    BY <1>1, <1>3, CountStep
  <1>9. \A v \in Workers : Admitted(req[v])'
    BY <1>1, <1>2 DEF ThrottleInv, Admitted
  <1>10. QED
    BY <1>5, <1>7, <1>8, <1>9 DEF ThrottleInv

\* The rows after a recorded failure: one more failure, which is still one of
\* the logins that arrived, and a window that ends within its backoff.
LEMMA FailRows ==
  ASSUME ThrottleInv, NEW w \in Workers, ThrottleFail(w)
  PROVE  /\ req[w].pc = "fail" /\ w \in InProgress
         /\ \A k \in Keys : k \notin KeysOf(w) => row'[k] = row[k]
         /\ \A k \in Keys : k \in KeysOf(w) =>
              /\ row[k].count + 1 <= MaxLogins
              /\ row'[k].count = row[k].count + 1
              /\ row'[k].until = req[w].now + BackoffSeconds(row[k].count + 1)
              /\ BackoffSeconds(row[k].count) <= BackoffSeconds(row[k].count + 1)
              /\ BackoffSeconds(row[k].count + 1) \in 0 .. MaxBackoff
         /\ row' \in [Keys -> [count : 0 .. MaxLogins, until : Nat]]
  <1> DEFINE opened(k) == [count |-> row[k].count + 1,
                           until |-> req[w].now + BackoffSeconds(row[k].count + 1)]
  <1>1. /\ req[w].pc = "fail"
        /\ row' = [k \in Keys |-> IF k \in KeysOf(w) THEN opened(k) ELSE row[k]]
    BY DEF ThrottleFail
  <1>2. w \in InProgress /\ req[w].now \in Nat
    BY <1>1, Facts DEF InProgress
  <1>3. Cardinality(InProgress) >= 1
    <2>1. /\ Cardinality(InProgress \ {w}) = Cardinality(InProgress) - 1
          /\ IsFiniteSet(InProgress \ {w})
      BY <1>2, Facts, FS_RemoveElement
    <2>2. Cardinality(InProgress \ {w}) \in Nat
      BY <2>1, FS_CardinalityType
    <2>3. QED
      BY <2>1, <2>2, Facts
  <1>4. ASSUME NEW k \in Keys
        PROVE  /\ row[k].count \in 0 .. MaxLogins - 1
               /\ BackoffSeconds(row[k].count) <= BackoffSeconds(row[k].count + 1)
               /\ BackoffSeconds(row[k].count + 1) \in 0 .. MaxBackoff
    <2>1. /\ row[k].count + Cardinality(InProgress) <= arrived
          /\ row[k].count \in 0 .. MaxLogins /\ arrived <= MaxLogins
          /\ arrived \in Nat /\ Cardinality(InProgress) \in Nat /\ MaxLogins \in Nat
      BY Facts DEF ThrottleInv, CountInv
    <2>2. row[k].count \in 0 .. MaxLogins - 1 /\ row[k].count + 1 \in 0 .. MaxLogins
      BY <1>3, <2>1
    <2>3. QED
      BY <2>2, Backoff
  <1>5. \A k \in Keys : /\ opened(k) \in [count : 0 .. MaxLogins, until : Nat]
                        /\ opened(k).count = row[k].count + 1
                        /\ opened(k).until = req[w].now + BackoffSeconds(row[k].count + 1)
    BY <1>2, <1>4, Facts
  <1> HIDE DEF opened
  <1>6. \A k \in Keys : row'[k] = IF k \in KeysOf(w) THEN opened(k) ELSE row[k]
    BY <1>1
  <1>7. row' \in [Keys -> [count : 0 .. MaxLogins, until : Nat]]
    <2>1. \A k \in Keys : row[k] \in [count : 0 .. MaxLogins, until : Nat]
      BY Facts
    <2>2. QED
      BY <1>1, <1>5, <2>1
  <1>8. \A k \in Keys : row[k].count + 1 <= MaxLogins
    BY <1>4, Facts
  <1>9. QED
    BY <1>1, <1>2, <1>4, <1>5, <1>6, <1>7, <1>8

LEMMA FailStep ==
  ASSUME ThrottleInv, NEW w \in Workers, ThrottleFail(w) PROVE ThrottleInv'
  <1> DEFINE n == Cardinality(InProgress)
             m == Cardinality(InProgress')
  <1>1. Answer(w) /\ UNCHANGED <<slots, arrived, clock>> /\ req[w].pc = "fail"
    BY DEF ThrottleFail
  <1>2. /\ req' \in [Workers -> Login] /\ req'[w].pc = "idle"
        /\ \A v \in Workers : v # w => req'[v] = req[v]
    BY <1>1, AnswerFields, IdleLogin
  <1>3. /\ InProgress' = InProgress \ {w} /\ w \in InProgress
        /\ Verifying' = Verifying
    BY <1>1, <1>2 DEF InProgress, Verifying
  <1>4. IsFiniteSet(InProgress') /\ m = n - 1 /\ n \in Nat
    BY <1>3, Facts, FS_RemoveElement
  <1>5. TypeOK'
    BY <1>1, <1>2, FailRows DEF ThrottleInv, TypeOK
  <1>6. ASSUME NEW k \in Keys
        PROVE  /\ row'[k].count + m <= arrived
               /\ row'[k].until <= clock + BackoffSeconds(row'[k].count)
    <2>1. /\ row[k].count + n <= arrived
          /\ row[k].until <= clock + BackoffSeconds(row[k].count)
          /\ row[k].count \in Nat /\ arrived \in Nat
      BY Facts DEF ThrottleInv, CountInv, WindowInv
    <2> HIDE DEF n, m
    <2>2. CASE k \notin KeysOf(w)
      <3>1. row'[k] = row[k]
        BY <2>2, FailRows
      <3>2. QED
        BY <1>4, <2>1, <3>1
    <2>3. CASE k \in KeysOf(w)
      <3>1. /\ row'[k].count = row[k].count + 1
            /\ row'[k].until = req[w].now + BackoffSeconds(row[k].count + 1)
            /\ BackoffSeconds(row[k].count + 1) \in 0 .. MaxBackoff
        BY <2>3, FailRows
      <3>2. req[w].now \in Nat /\ req[w].now <= clock /\ clock \in Nat /\ MaxBackoff \in Nat
        BY <1>1, Facts DEF ThrottleInv, Admitted
      <3>3. BackoffSeconds(row'[k].count) = BackoffSeconds(row[k].count + 1)
        BY <3>1
      <3>4. QED
        BY <1>4, <2>1, <3>1, <3>2, <3>3
    <2>4. QED
      BY <2>2, <2>3
  <1>7. CountInv' /\ WindowInv'
    BY <1>1, <1>4, <1>6 DEF CountInv, WindowInv
  <1>8. SlotsReturned'
    BY <1>1, <1>3 DEF ThrottleInv, SlotsReturned, Verifying
  <1>9. \A v \in Workers : Admitted(req[v])'
    BY <1>1, <1>2 DEF ThrottleInv, Admitted
  <1>10. QED
    BY <1>5, <1>7, <1>8, <1>9 DEF ThrottleInv

LEMMA RestartStep ==
  ASSUME ThrottleInv, Restart PROVE ThrottleInv'
  <1>1. /\ req' = [w \in Workers |-> Idle] /\ slots' = 0
        /\ UNCHANGED <<row, arrived, clock>>
    BY DEF Restart
  <1>2. \A w \in Workers : req'[w].pc = "idle"
    BY <1>1, IdleLogin
  <1>3. InProgress' = {} /\ Verifying' = {}
    BY <1>2 DEF InProgress, Verifying
  <1>4. CountInv' /\ WindowInv'
    BY <1>1, <1>3, CountStep
  <1>5. TypeOK'
    BY <1>1, Facts, IdleLogin DEF ThrottleInv, TypeOK
  <1>6. SlotsReturned'
    BY <1>1, <1>3, FS_EmptySet DEF SlotsReturned, Verifying
  <1>7. QED
    BY <1>2, <1>4, <1>5, <1>6 DEF ThrottleInv, Admitted

LEMMA TickStep ==
  ASSUME ThrottleInv, Tick PROVE ThrottleInv'
  <1>1. clock < MaxClock /\ clock' = clock + 1 /\ UNCHANGED <<row, slots, req, arrived>>
    BY DEF Tick
  <1>2. CountInv' /\ WindowInv'
    BY <1>1, CountStep DEF InProgress
  <1>3. TypeOK'
    <2>1. clock' \in 0 .. MaxClock
      BY <1>1, Facts
    <2>2. QED
      BY <1>1, <2>1 DEF ThrottleInv, TypeOK
  <1>4. SlotsReturned'
    BY <1>1 DEF ThrottleInv, SlotsReturned
  <1>5. \A w \in Workers : Admitted(req[w])'
    <2>1. \A w \in Workers : req[w].now \in Nat /\ clock \in Nat
      BY Facts
    <2>2. QED
      BY <1>1, <2>1 DEF ThrottleInv, Admitted
  <1>6. QED
    BY <1>2, <1>3, <1>4, <1>5 DEF ThrottleInv

LEMMA ThrottleInductive == ThrottleInv /\ [Next]_vars => ThrottleInv'
  <1> SUFFICES ASSUME ThrottleInv, [Next]_vars PROVE ThrottleInv'
    OBVIOUS
  <1>1. CASE UNCHANGED vars
    BY <1>1 DEF vars, ThrottleInv, TypeOK, Admitted, CountInv, WindowInv,
       SlotsReturned, InProgress
  <1>2. ASSUME NEW w \in Workers,
               Prune(w) \/ ReadWindows(w) \/ Busy(w) \/ ThrottleReset(w) \/ DatabaseError(w)
        PROVE  ThrottleInv'
    <2>1. /\ req[w].pc \notin {"idle", "verify"}
          /\ Answer(w) \/ \E pc \in PCs \ {"idle", "verify"} : Goes(w, pc)
          /\ UNCHANGED <<slots, arrived, clock>>
      BY <1>2 DEF Prune, ReadWindows, Busy, ThrottleReset, DatabaseError, PCs
    <2>2. /\ row' \in [Keys -> [count : 0 .. MaxLogins, until : Nat]]
          /\ \A k \in Keys : row'[k] = row[k] \/ row'[k] = NoRow
      <3>1. /\ row \in [Keys -> [count : 0 .. MaxLogins, until : Nat]]
            /\ NoRow \in [count : 0 .. MaxLogins, until : Nat]
        BY Facts DEF NoRow
      <3>2. CASE row' = row
        BY <3>1, <3>2
      <3>3. CASE Prune(w) \/ ThrottleReset(w)
        <4>1. \E S : row' = [k \in Keys |-> IF k \in S THEN NoRow ELSE row[k]]
          <5>1. CASE Prune(w)
            <6>1. row' = [k \in Keys |->
                           IF k \in {j \in Keys : row[j].until < req[w].now - Grace}
                           THEN NoRow ELSE row[k]]
              BY <5>1 DEF Prune
            <6>2. QED
              BY <6>1
          <5>2. CASE ThrottleReset(w)
            BY <5>2 DEF ThrottleReset
          <5>3. QED
            BY <3>3, <5>1, <5>2
        <4>2. QED
          BY <3>1, <4>1
      <3>4. QED
        BY <1>2, <3>2, <3>3 DEF ReadWindows, Busy, DatabaseError
    <2>3. QED
      BY <2>1, <2>2, QuietStep
  <1>3. QED
    BY <1>1, <1>2, ArriveStep, AcquireStep, VerifyStep, FailStep, RestartStep,
       TickStep DEF Next

LEMMA ThrottleInvCorrect == Spec => []ThrottleInv
  <1>1. Init => ThrottleInv
    BY ThrottleInit
  <1>2. ThrottleInv /\ [Next]_vars => ThrottleInv'
    BY ThrottleInductive
  <1>3. QED
    BY <1>1, <1>2, PTL DEF Spec

\* Counts of failures stay within the logins that arrived, slots within
\* MaxConcurrentArgon2, and every variable in its type.
THEOREM TypeCorrect == Spec => []TypeOK
  <1>1. ThrottleInv => TypeOK
    BY DEF ThrottleInv
  <1>2. QED
    BY <1>1, ThrottleInvCorrect, PTL

\* Every slot that is taken belongs to a password check that is running, so an
\* idle server has all its slots.
THEOREM SlotsAreReturned == Spec => []SlotsReturned
  <1>1. ThrottleInv => SlotsReturned
    BY DEF ThrottleInv
  <1>2. QED
    BY <1>1, ThrottleInvCorrect, PTL

\* No key is locked out: whatever number of failures, its window ends within
\* the ceiling of the backoff from now.
THEOREM NeverLockedOut == Spec => []NoLockout
  <1>1. ThrottleInv => NoLockout
    <2> SUFFICES ASSUME ThrottleInv, NEW k \in Keys
                 PROVE  row[k].until <= clock + MaxBackoff
      BY DEF NoLockout
    <2>1. /\ row[k].until <= clock + BackoffSeconds(row[k].count)
          /\ BackoffSeconds(row[k].count) \in 0 .. MaxBackoff
          /\ row[k].until \in Nat /\ clock \in Nat /\ MaxBackoff \in Nat
      BY Facts DEF ThrottleInv, WindowInv
    <2>2. QED
      BY <2>1
  <1>2. QED
    BY <1>1, ThrottleInvCorrect, PTL

-----------------------------------------------------------------------------
(* What a step may do to a window.                                         *)

\* Which steps write rows.
LEMMA RowWriters ==
  ASSUME [Next]_vars
  PROVE  row' = row \/ \E w \in Workers : Prune(w) \/ ThrottleFail(w) \/ ThrottleReset(w)
  BY DEF Next, vars, Tick, Restart, Arrive, ReadWindows, AcquireArgon2, Busy, Verify,
     DatabaseError

KeepsWindows ==
    \A k \in Keys :
       (row[k] # NoRow /\ row'[k] = NoRow) =>
           \/ row[k].until < clock - Grace
           \/ \E w \in Workers : req[w].pc = "reset" /\ k \in KeysOf(w)

\* A window in force, or one that ended less than the grace ago, disappears only
\* by a successful login of that name or address.
THEOREM WindowsAreKept == Spec => WindowsKept
  <1>1. ThrottleInv /\ [Next]_vars => [KeepsWindows]_vars
    <2> SUFFICES ASSUME ThrottleInv, [Next]_vars, NEW k \in Keys,
                        row[k] # NoRow, row'[k] = NoRow
                 PROVE  \/ row[k].until < clock - Grace
                        \/ \E w \in Workers : req[w].pc = "reset" /\ k \in KeysOf(w)
      BY DEF KeepsWindows
    <2>1. ASSUME NEW w \in Workers, Prune(w)
          PROVE  row[k].until < clock - Grace
      <3>1. row[k].until < req[w].now - Grace
        BY <2>1 DEF Prune
      <3>2. /\ req[w].now \in Nat /\ clock \in Nat /\ req[w].now <= clock
            /\ row[k].until \in Nat /\ Grace \in Nat
        BY <2>1, Facts DEF Prune, ThrottleInv, Admitted
      <3>3. QED
        BY <3>1, <3>2
    <2>2. ASSUME NEW w \in Workers, ThrottleReset(w)
          PROVE  req[w].pc = "reset" /\ k \in KeysOf(w)
      BY <2>2 DEF ThrottleReset
    <2>3. ASSUME NEW w \in Workers, ThrottleFail(w) PROVE FALSE
      <3>1. CASE k \in KeysOf(w)
        <4>1. row'[k].count = row[k].count + 1 /\ row[k].count \in Nat
          BY <2>3, <3>1, FailRows, Facts
        <4>2. row'[k].count = 0
          BY DEF NoRow
        <4>3. QED
          BY <4>1, <4>2
      <3>2. CASE k \notin KeysOf(w)
        BY <2>3, <3>2, FailRows
      <3>3. QED
        BY <3>1, <3>2
    <2>4. QED
      BY <2>1, <2>2, <2>3, RowWriters
  <1>2. QED
    BY <1>1, ThrottleInvCorrect, PTL DEF Spec, WindowsKept, KeepsWindows

ShrinksByDelay ==
    \A w \in Workers :
       (req[w].pc = "fail" /\ req'[w].pc = "idle" /\ row' # row) =>
           \A k \in KeysOf(w) :
               row'[k].until >= row[k].until - (clock - req[w].now)

\* A recorded failure takes from the window of its keys at most the time its
\* login was in progress, since one more failure never shortens the backoff.
THEOREM WindowsShrinkByDelay == Spec => WindowShrinksByDelay
  <1>1. ThrottleInv /\ [Next]_vars => [ShrinksByDelay]_vars
    <2> SUFFICES ASSUME ThrottleInv, [Next]_vars, NEW w \in Workers,
                        req[w].pc = "fail", req'[w].pc = "idle", row' # row,
                        NEW k \in KeysOf(w)
                 PROVE  row'[k].until >= row[k].until - (clock - req[w].now)
      BY DEF ShrinksByDelay
    <2>1. /\ k \in Keys /\ req[w].now \in Nat /\ req[w].now <= clock /\ clock \in Nat
          /\ row[k].until \in Nat /\ MaxBackoff \in Nat
          /\ row[k].until <= clock + BackoffSeconds(row[k].count)
          /\ BackoffSeconds(row[k].count) \in 0 .. MaxBackoff
      <3>1. k \in Keys
        BY DEF ThrottleInv, Admitted, KeysOf, Keys
      <3>2. req[w].now <= clock
        BY DEF ThrottleInv, Admitted
      <3>3. row[k].until <= clock + BackoffSeconds(row[k].count)
        BY <3>1 DEF ThrottleInv, WindowInv
      <3>4. QED
        BY <3>1, <3>2, <3>3, Facts
    <2>2. ASSUME NEW v \in Workers, Prune(v) \/ ThrottleReset(v) PROVE FALSE
      <3>1. v # w /\ req'[w] = req[w]
        BY <2>2, GoesFields, AnswerFields DEF Prune, ThrottleReset, PCs
      <3>2. QED
        BY <3>1
    <2>3. ASSUME NEW v \in Workers, ThrottleFail(v)
          PROVE  row'[k].until >= row[k].until - (clock - req[w].now)
      <3>1. v = w
        <4>1. v # w => req'[w] = req[w]
          BY <2>3, AnswerFields DEF ThrottleFail
        <4>2. QED
          BY <4>1
      <3>2. /\ row'[k].until = req[w].now + BackoffSeconds(row[k].count + 1)
            /\ BackoffSeconds(row[k].count) <= BackoffSeconds(row[k].count + 1)
            /\ BackoffSeconds(row[k].count + 1) \in 0 .. MaxBackoff
        BY <2>1, <2>3, <3>1, FailRows
      <3>3. QED
        BY <2>1, <3>2
    <2>4. QED
      BY <2>2, <2>3, RowWriters
  <1>2. QED
    BY <1>1, ThrottleInvCorrect, PTL DEF Spec, WindowShrinksByDelay, ShrinksByDelay
=============================================================================
