--------------------------- MODULE RateLimitProofs ---------------------------
(***************************************************************************)
(* Proofs about RateLimit, for any finite number of requests and tenants,  *)
(* any limit and any length of the minute.                                 *)
(***************************************************************************)
EXTENDS RateLimit, FiniteSetTheorems, TLAPS

-----------------------------------------------------------------------------
(* Minutes and seconds.                                                    *)

\* The first tick of minute m.
Begin(m) == m * Minute

\* int(time.time()) // 60 names the minute the clock is in.
LEMMA MinuteOf ==
  ASSUME NEW n \in Nat
  PROVE  n \div Minute \in Nat /\ Begin(n \div Minute) <= n /\ n < Begin(n \div Minute + 1)
BY LimitAssumption DEF Begin

LEMMA BeginType ==
  ASSUME NEW m \in Nat
  PROVE  Begin(m) \in Nat /\ Begin(m + 1) = Begin(m) + Minute
BY LimitAssumption DEF Begin

LEMMA BeginGrows ==
  ASSUME NEW m \in Nat, NEW n \in Nat, m <= n
  PROVE  Begin(m) <= Begin(n)
BY LimitAssumption DEF Begin

LEMMA MinuteUnique ==
  ASSUME NEW n \in Nat, NEW m \in Nat, Begin(m) <= n, n < Begin(m + 1)
  PROVE  n \div Minute = m
<1> DEFINE d == n \div Minute
<1>1. d \in Nat /\ Begin(d) <= n /\ n < Begin(d + 1)
  BY MinuteOf
<1> HIDE DEF d
<1>2. ~ (d < m)
  <2>1. ASSUME d < m PROVE Begin(d + 1) <= Begin(m)
    BY <1>1, <2>1, BeginGrows
  <2> QED
    BY <1>1, <2>1, BeginType
<1>3. ~ (m < d)
  <2>1. ASSUME m < d PROVE Begin(m + 1) <= Begin(d)
    BY <1>1, <2>1, BeginGrows
  <2> QED
    BY <1>1, <2>1, BeginType
<1>4. d = m
  BY <1>1, <1>2, <1>3
<1> QED
  BY <1>4 DEF d

\* Time does not run backwards over the minutes.
LEMMA MinutesGrow ==
  ASSUME NEW n \in Nat, n <= MaxNow
  PROVE  n \div Minute \in Minutes
<1>1. MaxNow \in Nat
  BY BoundsAssumption
<1> DEFINE d == n \div Minute
           e == MaxNow \div Minute
<1>2. d \in Nat /\ Begin(d) <= n /\ e \in Nat /\ MaxNow < Begin(e + 1)
  BY <1>1, MinuteOf
<1> HIDE DEF d, e
<1>3. ~ (e < d)
  <2>1. ASSUME e < d PROVE Begin(e + 1) <= Begin(d)
    BY <1>2, <2>1, BeginGrows
  <2> QED
    BY <1>1, <1>2, <2>1, BeginType
<1>4. d \in 0..e
  BY <1>2, <1>3
<1> QED
  BY <1>4 DEF d, e, Minutes

-----------------------------------------------------------------------------
(* The invariant.                                                          *)

\* The requests of a key that have left the counter behind them, and those among
\* them that were let through.
Done(k) == {r \in Requests : /\ RedisKey(r) = k
                             /\ pc[r] \in {"admitted", "limited", "refused", "unlimited"}}
Through(k) == {r \in Requests : RedisKey(r) = k /\ pc[r] \in {"admitted", "unlimited"}}

ClockRead == \A r \in Requests : Begin(minute[r]) <= now

\* No key goes away before its minute is over, however late it was created.
KeysLast == \A k \in RedisKeys : expires[k] # 0 => Begin(k[2] + 1) <= expires[k]

\* A counter counts no request that was not made, and up to the limit none that
\* was not let through.
Counts == \A k \in RedisKeys :
            /\ count[k] <= Cardinality(Done(k))
            /\ count[k] <= Limit => count[k] <= Cardinality(Through(k))
            /\ count[k] > Limit => Limit <= Cardinality(Through(k))

Refusals == \A r \in Requests : pc[r] \in {"limited", "refused"} =>
              Limit <= Cardinality(Through(RedisKey(r)))

WaitsNamed == \A r \in Requests : pc[r] = "refused" =>
                header[r] = Begin(minute[r] + 1) - answeredAt[r]

\* The header tells an admitted request's place in the count; while its minute
\* lasts the counter does not fall below it.
Places == \A r \in Requests : pc[r] = "admitted" =>
            /\ header[r] \in 0..(Limit - 1)
            /\ Punctual(r) /\ now < Begin(minute[r] + 1) =>
                 Limit - header[r] <= count[RedisKey(r)]

PlacesDiffer == \A q, r \in Requests :
                  /\ pc[q] = "admitted" /\ pc[r] = "admitted" /\ q # r
                  /\ Punctual(q) /\ Punctual(r) /\ RedisKey(q) = RedisKey(r)
                  => header[q] # header[r]

Inv == /\ TypeOK /\ ClockRead /\ KeysLast /\ Counts /\ Refusals /\ WaitsNamed
       /\ Places /\ PlacesDiffer

-----------------------------------------------------------------------------
(* How the sets of requests change.                                        *)

LEMMA SetsFinite ==
  ASSUME NEW k
  PROVE  /\ IsFiniteSet(Done(k)) /\ IsFiniteSet(Through(k))
         /\ Cardinality(Done(k)) \in Nat /\ Cardinality(Through(k)) \in Nat
         /\ Cardinality(Done(k)) <= Cardinality(Requests)
         /\ Cardinality(Requests) \in Nat
<1>1. Done(k) \in SUBSET Requests /\ Through(k) \in SUBSET Requests
  BY DEF Done, Through
<1> QED
  BY <1>1, RequestsAssumption, FS_Subset, FS_CardinalityType

\* The counters' keys.
LEMMA Keys ==
  ASSUME TypeOK
  PROVE  /\ \A r \in Requests : RedisKey(r) \in RedisKeys /\ RedisKey(r)[2] = minute[r]
         /\ \A k \in RedisKeys : k[2] \in Nat
         /\ \A r \in Requests : minute[r] \in Nat
<1>1. Minutes \subseteq Nat
  BY DEF Minutes
<1>2. \A r \in Requests : minute[r] \in Minutes
  BY DEF TypeOK
<1> QED
  BY <1>1, <1>2 DEF RedisKey, RedisKeys, Tenants

\* A step that lets nobody through, counts nobody and decides nothing.
LEMMA SetsKept ==
  ASSUME \A r \in Requests :
           /\ pc'[r] \in {"admitted", "unlimited"} <=> pc[r] \in {"admitted", "unlimited"}
           /\ pc'[r] \in {"limited", "refused"} <=> pc[r] \in {"limited", "refused"}
           /\ pc[r] \in {"admitted", "unlimited", "limited", "refused"} =>
                minute'[r] = minute[r]
  PROVE  \A k : Done(k)' = Done(k) /\ Through(k)' = Through(k)
<1>1. \A r \in Requests : \A k : RedisKey(r)' = <<TenantOf[r], minute'[r]>>
  BY DEF RedisKey
<1> QED
  BY <1>1 DEF Done, Through, RedisKey

\* A request leaves the counter behind it.
LEMMA SetsGrow ==
  ASSUME TypeOK, NEW r \in Requests, NEW label \in {"admitted", "limited", "unlimited"},
         pc[r] = "count", Goto(r, label), minute' = minute
  PROVE  /\ \A k : k # RedisKey(r) => Done(k)' = Done(k) /\ Through(k)' = Through(k)
         /\ Cardinality(Done(RedisKey(r)))' = Cardinality(Done(RedisKey(r))) + 1
         /\ IF label = "limited"
            THEN Through(RedisKey(r))' = Through(RedisKey(r))
            ELSE Cardinality(Through(RedisKey(r)))' = Cardinality(Through(RedisKey(r))) + 1
<1> DEFINE k == RedisKey(r)
<1>1. \A q : RedisKey(q)' = RedisKey(q)
  BY DEF RedisKey
<1>2. pc'[r] = label /\ \A q \in Requests \ {r} : pc'[q] = pc[q]
  BY DEF TypeOK, Goto
<1>3. \A l : l # k => Done(l)' = Done(l) /\ Through(l)' = Through(l)
  BY <1>1, <1>2 DEF Done, Through
<1>4. Done(k)' = Done(k) \cup {r} /\ r \notin Done(k)
  BY <1>1, <1>2 DEF Done
<1>5. Cardinality(Done(k) \cup {r}) = Cardinality(Done(k)) + 1
  BY <1>4, SetsFinite, FS_AddElement
<1>6. CASE label = "limited"
  <2>1. Through(k)' = Through(k)
    BY <1>1, <1>2, <1>6 DEF Through
  <2> QED
    BY <1>3, <1>4, <1>5, <1>6, <2>1
<1>7. CASE label # "limited"
  <2>1. Through(k)' = Through(k) \cup {r} /\ r \notin Through(k)
    BY <1>1, <1>2, <1>7 DEF Through
  <2>2. Cardinality(Through(k) \cup {r}) = Cardinality(Through(k)) + 1
    BY <2>1, SetsFinite, FS_AddElement
  <2> QED
    BY <1>3, <1>4, <1>5, <1>7, <2>1, <2>2
<1> QED
  BY <1>6, <1>7

-----------------------------------------------------------------------------
(* Each step keeps the invariant.                                          *)

LEMMA CountKeeps ==
  ASSUME Inv, NEW r \in Requests, Count(r)
  PROVE  Inv'
<1>t. /\ now \in 0..MaxNow /\ MaxNow \in Nat /\ now \in Nat
      /\ count \in [RedisKeys -> 0..Cardinality(Requests)]
      /\ expires \in [RedisKeys -> 0..(MaxNow + Minute)]
      /\ \A k \in RedisKeys : /\ count[k] = 0 <=> expires[k] = 0
                              /\ expires[k] # 0 => expires[k] \in (now + 1)..(now + Minute)
      /\ pc \in [Requests -> {"new", "count", "admitted", "limited", "refused", "unlimited"}]
      /\ header \in [Requests -> -MaxNow..(Limit + Minute)]
      /\ countedAt \in [Requests -> 0..MaxNow]
  BY BoundsAssumption DEF Inv, TypeOK
<1>l. Limit \in Nat \ {0} /\ Minute \in Nat \ {0}
  BY LimitAssumption
<1>k. PICK k \in RedisKeys : k = RedisKey(r) /\ k[2] = minute[r] /\ minute[r] \in Nat
  BY Keys DEF Inv
<1>n. PICK n \in Nat \ {0} : n = count[k] + 1 /\ count[k] \in Nat
  <2>1. count[k] \in Nat
    BY <1>t, SetsFinite
  <2> QED
    BY <2>1
<1>1. /\ UNCHANGED <<now, minute, answeredAt, faultsLeft>>
      /\ DOMAIN count' = RedisKeys /\ count'[k] = n
      /\ \A l \in RedisKeys \ {k} : count'[l] = count[l] /\ expires'[l] = expires[l]
      /\ expires'[k] = (IF expires[k] = 0 THEN now + Minute ELSE expires[k])
      /\ Decide(r, n)
  BY <1>k, <1>n, <1>t DEF Count, TimeToLive
<1>2. /\ \A q \in Requests \ {r} : /\ pc'[q] = pc[q] /\ header'[q] = header[q]
                                   /\ countedAt'[q] = countedAt[q]
      /\ pc[r] = "count" /\ pc'[r] = (IF n > Limit THEN "limited" ELSE "admitted")
      /\ header'[r] = (IF n > Limit THEN 0 ELSE Limit - n) /\ countedAt'[r] = now
      /\ Goto(r, IF n > Limit THEN "limited" ELSE "admitted")
      /\ pc' \in [Requests -> {"new", "count", "admitted", "limited", "refused", "unlimited"}]
      /\ header' \in [Requests -> -MaxNow..(Limit + Minute)]
      /\ countedAt' \in [Requests -> 0..MaxNow]
  <2>1. (IF n > Limit THEN 0 ELSE Limit - n) \in -MaxNow..(Limit + Minute)
    BY <1>t, <1>l, <1>n
  <2>2. pc[r] = "count"
    BY DEF Count
  <2> QED
    BY <1>1, <1>t, <2>1, <2>2 DEF Decide, Goto, Exceeds, Remaining
<1>3. \A q : RedisKey(q)' = RedisKey(q)
  BY <1>1 DEF RedisKey
<1>4. /\ \A l : l # k => Done(l)' = Done(l) /\ Through(l)' = Through(l)
      /\ Cardinality(Done(k)') = Cardinality(Done(k)) + 1
      /\ IF n > Limit
         THEN Through(k)' = Through(k)
         ELSE Cardinality(Through(k)') = Cardinality(Through(k)) + 1
  <2>1. CASE n > Limit
    BY <1>k, <1>1, <1>2, <1>3, <2>1, SetsGrow DEF Inv
  <2>2. CASE ~ (n > Limit)
    BY <1>k, <1>1, <1>2, <1>3, <2>2, SetsGrow DEF Inv
  <2> QED
    BY <2>1, <2>2
<1>5. Counts'
  <2>1. /\ n <= Cardinality(Done(k)')
        /\ n <= Limit => n <= Cardinality(Through(k)')
        /\ n > Limit => Limit <= Cardinality(Through(k)')
    <3>1. /\ count[k] <= Cardinality(Done(k))
          /\ count[k] <= Limit => count[k] <= Cardinality(Through(k))
          /\ count[k] > Limit => Limit <= Cardinality(Through(k))
      BY DEF Inv, Counts
    <3>2. Cardinality(Done(k)) \in Nat /\ Cardinality(Through(k)) \in Nat
      BY SetsFinite
    <3>3. n <= Cardinality(Done(k)')
      BY <1>4, <1>n, <3>1, <3>2
    <3>4. CASE n > Limit
      <4>1. count[k] >= Limit
        BY <1>l, <1>n, <3>4
      <4>2. Limit <= Cardinality(Through(k))
        BY <1>l, <1>n, <3>1, <4>1
      <4> QED
        BY <1>4, <1>l, <1>n, <3>3, <3>4, <4>2
    <3>5. CASE ~ (n > Limit)
      <4>1. Cardinality(Through(k)') = Cardinality(Through(k)) + 1
        BY <1>4, <3>5
      <4> QED
        BY <1>l, <1>n, <3>1, <3>2, <3>3, <3>5, <4>1
    <3> QED
      BY <3>4, <3>5
  <2>2. ASSUME NEW l \in RedisKeys \ {k}
        PROVE  /\ count'[l] <= Cardinality(Done(l)')
               /\ count'[l] <= Limit => count'[l] <= Cardinality(Through(l)')
               /\ count'[l] > Limit => Limit <= Cardinality(Through(l)')
    BY <1>1, <1>4 DEF Inv, Counts
  <2> QED
    BY <1>1, <2>1, <2>2 DEF Counts
<1>6. TypeOK'
  <2>1. n <= Cardinality(Requests) /\ Cardinality(Requests) \in Nat
    <3>1. Done(k)' \in SUBSET Requests
      BY DEF Done
    <3>2. Cardinality(Done(k)') <= Cardinality(Requests) /\ Cardinality(Done(k)') \in Nat
      BY <3>1, RequestsAssumption, FS_Subset, FS_CardinalityType
    <3>3. n <= Cardinality(Done(k)')
      BY <1>1, <1>5 DEF Counts
    <3> QED
      BY <3>2, <3>3, SetsFinite
  <2>2. count' \in [RedisKeys -> 0..Cardinality(Requests)]
    <3>1. count' = [count EXCEPT ![k] = n]
      BY <1>k, <1>n, <1>1, <1>t DEF Count
    <3> QED
      BY <1>t, <2>1, <3>1
  <2>3. \A l \in RedisKeys : /\ count'[l] = 0 <=> expires'[l] = 0
                             /\ expires'[l] # 0 => expires'[l] \in (now + 1)..(now + Minute)
    <3>1. /\ count'[k] # 0 /\ expires'[k] # 0
          /\ expires'[k] \in (now + 1)..(now + Minute)
      BY <1>1, <1>n, <1>t, <1>l
    <3> QED
      BY <1>1, <1>t, <3>1
  <2>4. expires' \in [RedisKeys -> 0..(MaxNow + Minute)]
    <3>1. now + Minute \in 0..(MaxNow + Minute)
      BY <1>t, <1>l
    <3> QED
      BY <1>k, <1>t, <3>1 DEF Count, TimeToLive
  <2> QED
    BY <1>1, <1>2, <2>2, <2>3, <2>4 DEF Inv, TypeOK
<1>7. ClockRead'
  BY <1>1 DEF Inv, ClockRead
<1>8. KeysLast'
  <2>1. Begin(k[2] + 1) <= now + Minute
    <3>1. Begin(k[2]) <= now /\ Begin(k[2]) \in Nat /\ Begin(k[2] + 1) = Begin(k[2]) + Minute
      BY <1>k, BeginType DEF Inv, ClockRead
    <3> QED
      BY <1>t, <1>l, <3>1
  <2>2. expires'[k] # 0 => Begin(k[2] + 1) <= expires'[k]
    BY <1>1, <2>1 DEF Inv, KeysLast
  <2> QED
    BY <1>1, <2>2 DEF Inv, KeysLast
<1>9. Refusals'
  <2>1. CASE n > Limit
    <3>1. Limit <= Cardinality(Through(k)')
      BY <1>1, <1>5, <2>1 DEF Counts
    <3>2. \A l : Through(l)' = Through(l)
      BY <1>4, <2>1
    <3> QED
      BY <1>k, <1>2, <1>3, <3>1, <3>2 DEF Inv, Refusals
  <2>2. CASE ~ (n > Limit)
    <3>1. \A l : Cardinality(Through(l)) <= Cardinality(Through(l)')
      BY <1>4, <2>2, SetsFinite
    <3>2. ASSUME NEW q \in Requests, pc'[q] \in {"limited", "refused"}
          PROVE  Limit <= Cardinality(Through(RedisKey(q))')
      <4>1. q # r /\ pc[q] \in {"limited", "refused"}
        BY <1>2, <2>2, <3>2
      <4>2. PICK l : l = RedisKey(q) /\ l = RedisKey(q)'
        BY <1>3
      <4>3. Limit <= Cardinality(Through(l))
        BY <4>1, <4>2 DEF Inv, Refusals
      <4>4. Cardinality(Through(l)) <= Cardinality(Through(l)') /\ Cardinality(Through(l)) \in Nat
        BY <3>1, SetsFinite
      <4>5. Cardinality(Through(l)') \in Nat
        <5>1. Through(l)' \in SUBSET Requests
          BY DEF Through
        <5> QED
          BY <5>1, RequestsAssumption, FS_Subset, FS_CardinalityType
      <4>6. Limit <= Cardinality(Through(l)')
        BY <1>l, <4>3, <4>4, <4>5
      <4> QED
        BY <4>2, <4>6
    <3> QED
      BY <3>2 DEF Refusals
  <2> QED
    BY <2>1, <2>2
<1>10. WaitsNamed'
  BY <1>1, <1>2 DEF Inv, WaitsNamed
<1>11. Places'
  <2>1. ASSUME NEW q \in Requests, pc'[q] = "admitted"
        PROVE  /\ header'[q] \in 0..(Limit - 1)
               /\ Punctual(q)' /\ now < Begin(minute[q] + 1) =>
                    Limit - header'[q] <= count'[RedisKey(q)]
    <3>1. CASE q = r
      <4>1. n <= Limit /\ header'[r] = Limit - n
        BY <1>2, <1>l, <1>n, <2>1, <3>1
      <4> QED
        BY <1>k, <1>1, <1>l, <3>1, <4>1
    <3>2. CASE q # r
      <4>1. pc[q] = "admitted" /\ header'[q] = header[q] /\ (Punctual(q)' <=> Punctual(q))
        BY <1>1, <1>2, <2>1, <3>2 DEF Punctual
      <4>2. RedisKey(q) \in RedisKeys /\ count[RedisKey(q)] <= count'[RedisKey(q)]
        BY <1>1, <1>n, <1>t, Keys DEF Inv
      <4>3. count[RedisKey(q)] \in Nat /\ count'[RedisKey(q)] \in Nat
        BY <1>1, <1>t, <4>2, SetsFinite
      <4>4. /\ header[q] \in 0..(Limit - 1)
            /\ Punctual(q) /\ now < Begin(minute[q] + 1) =>
                 Limit - header[q] <= count[RedisKey(q)]
        BY <4>1 DEF Inv, Places
      <4> QED
        BY <1>l, <4>1, <4>2, <4>3, <4>4
    <3> QED
      BY <3>1, <3>2
  <2> QED
    BY <1>1, <1>3, <2>1 DEF Places
<1>12. PlacesDiffer'
  <2>1. ASSUME NEW q \in Requests \ {r}, pc'[q] = "admitted", pc'[r] = "admitted",
               Punctual(q)', Punctual(r)', RedisKey(q) = RedisKey(r)
        PROVE  header'[q] # header'[r]
    <3>1. minute[r] = now \div Minute /\ minute[q] = minute[r]
      BY <1>1, <1>2, <2>1 DEF Punctual, RedisKey
    <3>2. now < Begin(minute[q] + 1)
      BY <1>t, <3>1, MinuteOf
    <3>3. pc[q] = "admitted" /\ header'[q] = header[q] /\ Punctual(q)
      BY <1>1, <1>2, <2>1 DEF Punctual
    <3>4. Limit - header[q] <= count[k] /\ header[q] \in 0..(Limit - 1)
      BY <1>k, <2>1, <3>2, <3>3 DEF Inv, Places
    <3>5. header'[r] = Limit - n /\ n = count[k] + 1
      BY <1>2, <1>n, <2>1
    <3>6. header[q] > Limit - n
      BY <1>l, <1>n, <3>4
    <3> QED
      BY <1>l, <3>3, <3>4, <3>5, <3>6
  <2>2. ASSUME NEW p \in Requests, NEW q \in Requests, p # r, q # r, p # q,
               pc'[p] = "admitted", pc'[q] = "admitted",
               Punctual(p)', Punctual(q)', RedisKey(p) = RedisKey(q)
        PROVE  header'[p] # header'[q]
    <3>1. /\ pc[p] = "admitted" /\ header'[p] = header[p] /\ Punctual(p)
          /\ pc[q] = "admitted" /\ header'[q] = header[q] /\ Punctual(q)
      BY <1>1, <1>2, <2>2 DEF Punctual
    <3> QED
      BY <2>2, <3>1 DEF Inv, PlacesDiffer
  <2> QED
    BY <1>3, <2>1, <2>2 DEF PlacesDiffer
<1> QED
  BY <1>5, <1>6, <1>7, <1>8, <1>9, <1>10, <1>11, <1>12 DEF Inv

LEMMA CountFailsKeeps ==
  ASSUME Inv, NEW r \in Requests, CountFails(r)
  PROVE  Inv'
<1>t. /\ now \in 0..MaxNow /\ MaxNow \in Nat /\ now \in Nat
      /\ count \in [RedisKeys -> 0..Cardinality(Requests)]
      /\ expires \in [RedisKeys -> 0..(MaxNow + Minute)]
      /\ \A k \in RedisKeys : /\ count[k] = 0 <=> expires[k] = 0
                              /\ expires[k] # 0 => expires[k] \in (now + 1)..(now + Minute)
      /\ pc \in [Requests -> {"new", "count", "admitted", "limited", "refused", "unlimited"}]
      /\ faultsLeft \in 0..MaxFaults /\ MaxFaults \in Nat
  BY BoundsAssumption DEF Inv, TypeOK
<1>l. Limit \in Nat \ {0} /\ Minute \in Nat \ {0}
  BY LimitAssumption
<1>k. PICK k \in RedisKeys : k = RedisKey(r) /\ k[2] = minute[r] /\ minute[r] \in Nat
  BY Keys DEF Inv
<1>c. count[k] \in Nat
  BY <1>t, SetsFinite
<1>1. /\ UNCHANGED <<now, minute, header, history>> /\ faultsLeft' \in 0..MaxFaults
      /\ pc[r] = "count" /\ Goto(r, "unlimited")
      /\ pc' \in [Requests -> {"new", "count", "admitted", "limited", "refused", "unlimited"}]
      /\ pc'[r] = "unlimited" /\ \A q \in Requests \ {r} : pc'[q] = pc[q]
  BY <1>t DEF CountFails, Goto
<1>2. /\ DOMAIN count' = RedisKeys
      /\ \A l \in RedisKeys \ {k} : count'[l] = count[l] /\ expires'[l] = expires[l]
      /\ \/ count'[k] = count[k] /\ expires'[k] = expires[k]
         \/ /\ count'[k] = count[k] + 1
            /\ expires'[k] = (IF expires[k] = 0 THEN now + Minute ELSE expires[k])
      /\ count' = [l \in RedisKeys |-> count'[l]]
      /\ expires' \in [RedisKeys -> 0..(MaxNow + Minute)]
  <2>1. now + Minute \in 0..(MaxNow + Minute)
    BY <1>t, <1>l
  <2>2. CASE UNCHANGED redis
    BY <1>t, <2>2 DEF redis
  <2>3. CASE /\ count' = [count EXCEPT ![k] = @ + 1]
             /\ expires' = [expires EXCEPT ![k] = IF @ = 0 THEN now + TimeToLive ELSE @]
    BY <1>t, <2>1, <2>3 DEF TimeToLive
  <2> QED
    BY <1>k, <2>2, <2>3 DEF CountFails
<1>3. \A q : RedisKey(q)' = RedisKey(q)
  BY <1>1 DEF RedisKey
<1>4. /\ \A l : l # k => Done(l)' = Done(l) /\ Through(l)' = Through(l)
      /\ Cardinality(Done(k)') = Cardinality(Done(k)) + 1
      /\ Cardinality(Through(k)') = Cardinality(Through(k)) + 1
  BY <1>k, <1>1, <1>3, SetsGrow DEF Inv
<1>5. Counts'
  <2>1. /\ count'[k] <= Cardinality(Done(k)')
        /\ count'[k] <= Limit => count'[k] <= Cardinality(Through(k)')
        /\ count'[k] > Limit => Limit <= Cardinality(Through(k)')
    <3>1. /\ count[k] <= Cardinality(Done(k))
          /\ count[k] <= Limit => count[k] <= Cardinality(Through(k))
          /\ count[k] > Limit => Limit <= Cardinality(Through(k))
      BY DEF Inv, Counts
    <3>2. Cardinality(Done(k)) \in Nat /\ Cardinality(Through(k)) \in Nat
      BY SetsFinite
    <3> QED
      BY <1>c, <1>l, <1>2, <1>4, <3>1, <3>2
  <2>2. ASSUME NEW l \in RedisKeys \ {k}
        PROVE  /\ count'[l] <= Cardinality(Done(l)')
               /\ count'[l] <= Limit => count'[l] <= Cardinality(Through(l)')
               /\ count'[l] > Limit => Limit <= Cardinality(Through(l)')
    BY <1>2, <1>4 DEF Inv, Counts
  <2> QED
    BY <2>1, <2>2 DEF Counts
<1>6. TypeOK'
  <2>1. count'[k] \in 0..Cardinality(Requests)
    <3>1. Done(k)' \in SUBSET Requests
      BY DEF Done
    <3>2. Cardinality(Done(k)') <= Cardinality(Requests) /\ Cardinality(Done(k)') \in Nat
      BY <3>1, RequestsAssumption, FS_Subset, FS_CardinalityType
    <3>3. count'[k] <= Cardinality(Done(k)')
      BY <1>5 DEF Counts
    <3> QED
      BY <1>c, <1>2, <3>2, <3>3, SetsFinite
  <2>2. count' \in [RedisKeys -> 0..Cardinality(Requests)]
    BY <1>2, <1>t, <2>1
  <2>3. \A l \in RedisKeys : /\ count'[l] = 0 <=> expires'[l] = 0
                             /\ expires'[l] # 0 => expires'[l] \in (now + 1)..(now + Minute)
    <3>1. /\ count'[k] = 0 <=> expires'[k] = 0
          /\ expires'[k] # 0 => expires'[k] \in (now + 1)..(now + Minute)
      BY <1>c, <1>2, <1>t, <1>l
    <3> QED
      BY <1>2, <1>t, <3>1
  <2> QED
    BY <1>1, <1>2, <2>2, <2>3 DEF Inv, TypeOK, history
<1>7. ClockRead'
  BY <1>1 DEF Inv, ClockRead
<1>8. KeysLast'
  <2>1. Begin(k[2] + 1) <= now + Minute
    <3>1. Begin(k[2]) <= now /\ Begin(k[2]) \in Nat /\ Begin(k[2] + 1) = Begin(k[2]) + Minute
      BY <1>k, BeginType DEF Inv, ClockRead
    <3> QED
      BY <1>t, <1>l, <3>1
  <2>2. expires'[k] # 0 => Begin(k[2] + 1) <= expires'[k]
    BY <1>2, <2>1 DEF Inv, KeysLast
  <2> QED
    BY <1>2, <2>2 DEF Inv, KeysLast
<1>9. Refusals'
  <2>1. \A l : Cardinality(Through(l)) \in Nat /\ Cardinality(Through(l)) <= Cardinality(Through(l)')
    BY <1>4, SetsFinite
  <2>2. \A l : Cardinality(Through(l)') \in Nat
    BY <1>4, SetsFinite
  <2>3. ASSUME NEW q \in Requests, pc'[q] \in {"limited", "refused"}
        PROVE  Limit <= Cardinality(Through(RedisKey(q))')
    <3>1. pc[q] \in {"limited", "refused"}
      BY <1>1, <2>3
    <3>2. PICK l : l = RedisKey(q) /\ l = RedisKey(q)'
      BY <1>3
    <3>3. Limit <= Cardinality(Through(l))
      BY <3>1, <3>2 DEF Inv, Refusals
    <3>4. Limit <= Cardinality(Through(l)')
      BY <1>l, <2>1, <2>2, <3>3
    <3> QED
      BY <3>2, <3>4
  <2> QED
    BY <2>3 DEF Refusals
<1>10. WaitsNamed'
  BY <1>1 DEF Inv, WaitsNamed, history
<1>11. Places'
  <2>1. ASSUME NEW q \in Requests, pc'[q] = "admitted"
        PROVE  /\ header'[q] \in 0..(Limit - 1)
               /\ Punctual(q)' /\ now < Begin(minute[q] + 1) =>
                    Limit - header'[q] <= count'[RedisKey(q)]
    <3>1. pc[q] = "admitted" /\ header'[q] = header[q] /\ (Punctual(q)' <=> Punctual(q))
      BY <1>1, <2>1 DEF Punctual, history
    <3>2. /\ RedisKey(q) \in RedisKeys /\ count[RedisKey(q)] <= count'[RedisKey(q)]
          /\ count[RedisKey(q)] \in Nat /\ count'[RedisKey(q)] \in Nat
      BY <1>c, <1>2, <1>t, Keys, SetsFinite DEF Inv
    <3>3. /\ header[q] \in 0..(Limit - 1)
          /\ Punctual(q) /\ now < Begin(minute[q] + 1) =>
               Limit - header[q] <= count[RedisKey(q)]
      BY <3>1 DEF Inv, Places
    <3> QED
      BY <1>l, <3>1, <3>2, <3>3
  <2> QED
    BY <1>1, <1>3, <2>1 DEF Places
<1>12. PlacesDiffer'
  <2>1. \A q \in Requests : /\ pc'[q] = "admitted" => pc[q] = "admitted"
                            /\ header'[q] = header[q] /\ (Punctual(q)' <=> Punctual(q))
    BY <1>1 DEF Punctual, history
  <2> QED
    BY <1>3, <2>1 DEF Inv, PlacesDiffer
<1> QED
  BY <1>5, <1>6, <1>7, <1>8, <1>9, <1>10, <1>11, <1>12 DEF Inv

LEMMA ReadClockKeeps ==
  ASSUME Inv, NEW r \in Requests, ReadClock(r)
  PROVE  Inv'
<1>t. /\ now \in 0..MaxNow /\ now \in Nat /\ now <= MaxNow
      /\ pc \in [Requests -> {"new", "count", "admitted", "limited", "refused", "unlimited"}]
      /\ minute \in [Requests -> Minutes]
  BY BoundsAssumption DEF Inv, TypeOK
<1>1. /\ UNCHANGED <<now, redis, header, history, faultsLeft>> /\ pc[r] = "new"
      /\ pc' \in [Requests -> {"new", "count", "admitted", "limited", "refused", "unlimited"}]
      /\ pc'[r] = "count" /\ minute'[r] = now \div Minute
      /\ \A q \in Requests \ {r} : pc'[q] = pc[q] /\ minute'[q] = minute[q]
  BY <1>t DEF ReadClock, Goto
<1>2. minute' \in [Requests -> Minutes]
  BY <1>t, MinutesGrow DEF ReadClock
<1>3. TypeOK'
  BY <1>1, <1>2 DEF Inv, TypeOK, redis, history
<1>4. \A k : Done(k)' = Done(k) /\ Through(k)' = Through(k)
  BY <1>1, SetsKept
<1>5. \A q \in Requests \ {r} : /\ RedisKey(q)' = RedisKey(q)
                                /\ Punctual(q)' <=> Punctual(q)
  BY <1>1 DEF RedisKey, Punctual, history
<1>6. ClockRead'
  BY <1>1, <1>t, MinuteOf DEF Inv, ClockRead
<1>7. KeysLast'
  BY <1>1 DEF Inv, KeysLast, redis
<1>8. Counts'
  BY <1>1, <1>4 DEF Inv, Counts, redis
<1>9. Refusals'
  BY <1>1, <1>4, <1>5 DEF Inv, Refusals
<1>10. WaitsNamed'
  BY <1>1 DEF Inv, WaitsNamed, history
<1>11. Places'
  BY <1>1, <1>5 DEF Inv, Places, redis
<1>12. PlacesDiffer'
  BY <1>1, <1>5 DEF Inv, PlacesDiffer
<1> QED
  BY <1>3, <1>6, <1>7, <1>8, <1>9, <1>10, <1>11, <1>12 DEF Inv

LEMMA RefuseKeeps ==
  ASSUME Inv, NEW r \in Requests, Refuse(r)
  PROVE  Inv'
<1>t. /\ now \in 0..MaxNow /\ now \in Nat /\ MaxNow \in Nat
      /\ pc \in [Requests -> {"new", "count", "admitted", "limited", "refused", "unlimited"}]
      /\ header \in [Requests -> -MaxNow..(Limit + Minute)]
      /\ answeredAt \in [Requests -> 0..MaxNow]
  BY BoundsAssumption DEF Inv, TypeOK
<1>1. /\ UNCHANGED <<now, redis, minute, countedAt, faultsLeft>> /\ pc[r] = "limited"
      /\ pc' \in [Requests -> {"new", "count", "admitted", "limited", "refused", "unlimited"}]
      /\ pc'[r] = "refused" /\ answeredAt'[r] = now
      /\ header' = [header EXCEPT ![r] = Begin(minute[r] + 1) - now]
      /\ answeredAt' \in [Requests -> 0..MaxNow]
      /\ \A q \in Requests \ {r} : pc'[q] = pc[q] /\ answeredAt'[q] = answeredAt[q]
  BY <1>t DEF Refuse, Goto, WindowReset, Begin
<1>2. Begin(minute[r] + 1) - now \in -MaxNow..(Limit + Minute)
  <2>1. Begin(minute[r]) <= now /\ Begin(minute[r]) \in Nat
        /\ Begin(minute[r] + 1) = Begin(minute[r]) + Minute
    BY Keys, BeginType DEF Inv, ClockRead
  <2> QED
    BY <1>t, <2>1, LimitAssumption
<1>3. /\ header' \in [Requests -> -MaxNow..(Limit + Minute)]
      /\ header'[r] = Begin(minute[r] + 1) - now
      /\ \A q \in Requests \ {r} : header'[q] = header[q]
  BY <1>t, <1>1, <1>2
<1>4. TypeOK'
  BY <1>1, <1>3 DEF Inv, TypeOK, redis
<1>5. \A k : Done(k)' = Done(k) /\ Through(k)' = Through(k)
  BY <1>1, SetsKept
<1>6. \A q : RedisKey(q)' = RedisKey(q) /\ (Punctual(q)' <=> Punctual(q))
  BY <1>1 DEF RedisKey, Punctual
<1>7. ClockRead'
  BY <1>1 DEF Inv, ClockRead
<1>8. KeysLast'
  BY <1>1 DEF Inv, KeysLast, redis
<1>9. Counts'
  BY <1>1, <1>5 DEF Inv, Counts, redis
<1>10. Refusals'
  <2>1. ASSUME NEW q \in Requests, pc'[q] \in {"limited", "refused"}
        PROVE  pc[q] \in {"limited", "refused"}
    BY <1>1, <2>1
  <2> QED
    BY <1>5, <1>6, <2>1 DEF Inv, Refusals
<1>11. WaitsNamed'
  BY <1>1, <1>3 DEF Inv, WaitsNamed
<1>12. Places'
  BY <1>1, <1>3, <1>6 DEF Inv, Places, redis
<1>13. PlacesDiffer'
  BY <1>1, <1>3, <1>6 DEF Inv, PlacesDiffer
<1> QED
  BY <1>4, <1>7, <1>8, <1>9, <1>10, <1>11, <1>12, <1>13 DEF Inv

LEMMA TickKeeps ==
  ASSUME Inv, Tick
  PROVE  Inv'
<1>t. /\ now \in 0..MaxNow /\ now \in Nat /\ MaxNow \in Nat
      /\ count \in [RedisKeys -> 0..Cardinality(Requests)]
      /\ expires \in [RedisKeys -> 0..(MaxNow + Minute)]
      /\ \A k \in RedisKeys : /\ count[k] = 0 <=> expires[k] = 0
                              /\ expires[k] # 0 => expires[k] \in (now + 1)..(now + Minute)
  BY BoundsAssumption DEF Inv, TypeOK
<1>l. Limit \in Nat \ {0} /\ Minute \in Nat \ {0}
  BY LimitAssumption
<1>c. Cardinality(Requests) \in Nat
  BY SetsFinite
<1>1. /\ now < MaxNow /\ now' = now + 1 /\ UNCHANGED <<pc, minute, header, history, faultsLeft>>
      /\ count' \in [RedisKeys -> 0..Cardinality(Requests)]
      /\ expires' \in [RedisKeys -> 0..(MaxNow + Minute)]
      /\ \A k \in RedisKeys :
           IF expires[k] # 0 /\ expires[k] <= now + 1
           THEN count'[k] = 0 /\ expires'[k] = 0
           ELSE count'[k] = count[k] /\ expires'[k] = expires[k]
  BY <1>t, <1>l, <1>c DEF Tick
<1>2. TypeOK'
  <2>1. now' \in 0..MaxNow
    BY <1>1, <1>t
  <2>2. ASSUME NEW k \in RedisKeys
        PROVE  /\ count'[k] = 0 <=> expires'[k] = 0
               /\ expires'[k] # 0 => expires'[k] \in (now' + 1)..(now' + Minute)
    BY <1>1, <1>t, <1>l
  <2> QED
    BY <1>1, <2>1, <2>2 DEF Inv, TypeOK, history
<1>3. \A k : Done(k)' = Done(k) /\ Through(k)' = Through(k)
  BY <1>1, SetsKept
<1>4. \A q : RedisKey(q)' = RedisKey(q) /\ (Punctual(q)' <=> Punctual(q))
  BY <1>1 DEF RedisKey, Punctual, history
<1>5. ClockRead'
  <2>1. ASSUME NEW q \in Requests PROVE Begin(minute[q]) <= now + 1
    <3>1. Begin(minute[q]) <= now /\ Begin(minute[q]) \in Nat
      BY Keys, BeginType DEF Inv, ClockRead
    <3> QED
      BY <1>t, <3>1
  <2> QED
    BY <1>1, <2>1 DEF ClockRead
<1>6. KeysLast'
  BY <1>1 DEF Inv, KeysLast
<1>7. Counts'
  <2>1. ASSUME NEW k \in RedisKeys
        PROVE  /\ count'[k] <= Cardinality(Done(k))
               /\ count'[k] <= Limit => count'[k] <= Cardinality(Through(k))
               /\ count'[k] > Limit => Limit <= Cardinality(Through(k))
    <3>1. Cardinality(Done(k)) \in Nat /\ Cardinality(Through(k)) \in Nat
      BY SetsFinite
    <3>2. CASE count'[k] = 0
      BY <1>l, <3>1, <3>2
    <3>3. CASE count'[k] = count[k]
      BY <3>3 DEF Inv, Counts
    <3> QED
      BY <1>1, <3>2, <3>3
  <2> QED
    BY <1>3, <2>1 DEF Counts
<1>8. Refusals'
  BY <1>1, <1>3, <1>4 DEF Inv, Refusals
<1>9. WaitsNamed'
  BY <1>1 DEF Inv, WaitsNamed, history
<1>10. Places'
  <2>1. ASSUME NEW q \in Requests, pc[q] = "admitted"
        PROVE  /\ header[q] \in 0..(Limit - 1)
               /\ Punctual(q) /\ now' < Begin(minute[q] + 1) =>
                    Limit - header[q] <= count'[RedisKey(q)]
    <3>1. header[q] \in 0..(Limit - 1)
      BY <2>1 DEF Inv, Places
    <3>2. ASSUME Punctual(q), now' < Begin(minute[q] + 1)
          PROVE  Limit - header[q] <= count'[RedisKey(q)]
      <4>1. PICK k \in RedisKeys : k = RedisKey(q) /\ k[2] = minute[q] /\ minute[q] \in Nat
        BY Keys DEF Inv
      <4>2. Begin(minute[q] + 1) \in Nat /\ now < Begin(minute[q] + 1)
        BY <1>1, <1>t, <3>2, <4>1, BeginType
      <4>3. Limit - header[q] <= count[k]
        BY <2>1, <3>2, <4>1, <4>2 DEF Inv, Places
      <4>4. expires[k] # 0 => now + 1 < expires[k]
        <5>1. expires[k] # 0 => Begin(minute[q] + 1) <= expires[k]
          BY <4>1 DEF Inv, KeysLast
        <5>2. expires[k] \in Nat
          BY <1>t, <1>l, <4>1
        <5> QED
          BY <1>1, <1>t, <3>2, <4>2, <5>1, <5>2
      <4>5. expires[k] \in Nat
        BY <1>t, <1>l
      <4>6. count'[k] = count[k]
        BY <1>1, <1>t, <4>4, <4>5
      <4> QED
        BY <4>1, <4>3, <4>6
    <3> QED
      BY <3>1, <3>2
  <2> QED
    BY <1>1, <1>4, <2>1 DEF Places
<1>11. PlacesDiffer'
  BY <1>1, <1>4 DEF Inv, PlacesDiffer
<1> QED
  BY <1>2, <1>5, <1>6, <1>7, <1>8, <1>9, <1>10, <1>11 DEF Inv

\* The counters, the clock and the requests stay related as Inv says.
LEMMA Invariance == Spec => []Inv
<1>1. Init => Inv
  <2> SUFFICES ASSUME Init PROVE Inv
    OBVIOUS
  <2> USE DEF Init
  <2>1. \A k : Cardinality(Done(k)) \in Nat /\ Cardinality(Through(k)) \in Nat
               /\ Cardinality(Requests) \in Nat
    BY SetsFinite
  <2>2. Limit \in Nat \ {0} /\ Minute \in Nat \ {0} /\ MaxNow \in Nat /\ MaxFaults \in Nat
    BY LimitAssumption, BoundsAssumption
  <2>3. 0 \in Minutes /\ Begin(0) = 0
    <3>1. 0 \div Minute \in Nat /\ MaxNow \div Minute \in Nat
      BY <2>2, MinuteOf
    <3> QED
      BY <2>2, <3>1 DEF Minutes, Begin
  <2>4. TypeOK
    BY <2>1, <2>2, <2>3 DEF TypeOK
  <2>5. ClockRead /\ KeysLast /\ Refusals /\ WaitsNamed /\ Places /\ PlacesDiffer
    BY <2>3 DEF ClockRead, KeysLast, Refusals, WaitsNamed, Places, PlacesDiffer
  <2>6. Counts
    BY <2>1, <2>2 DEF Counts
  <2> QED
    BY <2>4, <2>5, <2>6 DEF Inv
<1>2. Inv /\ [Next]_vars => Inv'
  <2> SUFFICES ASSUME Inv, [Next]_vars PROVE Inv'
    OBVIOUS
  <2>1. CASE UNCHANGED vars
    <3>1. UNCHANGED <<now, count, expires, pc, minute, header, countedAt, answeredAt, faultsLeft>>
      BY <2>1 DEF vars, redis, history
    <3>2. \A k : /\ RedisKey(k)' = RedisKey(k) /\ (Punctual(k)' <=> Punctual(k))
                 /\ Done(k)' = Done(k) /\ Through(k)' = Through(k)
      BY <3>1 DEF RedisKey, Done, Through, Punctual
    <3>3. TypeOK' /\ ClockRead' /\ KeysLast' /\ WaitsNamed'
      BY <3>1 DEF Inv, TypeOK, ClockRead, KeysLast, WaitsNamed
    <3>4. Counts' /\ Refusals' /\ Places' /\ PlacesDiffer'
      BY <3>1, <3>2 DEF Inv, Counts, Refusals, Places, PlacesDiffer
    <3> QED
      BY <3>3, <3>4 DEF Inv
  <2> QED
    BY <2>1, ReadClockKeeps, CountKeeps, CountFailsKeeps, RefuseKeeps, TickKeeps DEF Next
<1> QED
  BY <1>1, <1>2, PTL DEF Spec

-----------------------------------------------------------------------------
(* What follows from it.                                                   *)

\* Clock, counters, keys and requests keep their ranges, whatever fails.
THEOREM RateLimitTypeCorrect == Spec => []TypeOK
<1>1. Inv => TypeOK
  BY DEF Inv
<1> QED
  BY <1>1, Invariance, PTL

\* No tenant gets more than Limit requests of a clock minute through in that
\* minute: their places in the count are different and none lies beyond Limit.
THEOREM LimitIsKept == Spec => []LimitPerMinute
<1>1. Inv => LimitPerMinute
  <2> SUFFICES ASSUME Inv, NEW t \in Tenants, NEW m \in Minutes
               PROVE  Cardinality({r \in AdmittedInTime(t) : minute[r] = m}) <= Limit
    BY DEF LimitPerMinute
  <2> DEFINE S == {r \in AdmittedInTime(t) : minute[r] = m}
             f == [r \in S |-> header[r]]
  <2>1. /\ \A r \in S : header[r] \in 0..(Limit - 1)
        /\ \A q, r \in S : header[q] = header[r] => q = r
    BY DEF Inv, Places, PlacesDiffer, AdmittedInTime, RedisKey
  <2>2. f \in Injection(S, 0..(Limit - 1))
    BY <2>1 DEF Injection, IsInjective
  <2>3. IsFiniteSet(0..(Limit - 1)) /\ Cardinality(0..(Limit - 1)) = Limit
    BY LimitAssumption, FS_Interval
  <2> HIDE DEF f, S
  <2>4. Cardinality(S) <= Limit
    BY <2>2, <2>3, FS_Injection
  <2> QED
    BY <2>4 DEF S
<1> QED
  BY <1>1, Invariance, PTL

\* X-RateLimit-Remaining promises no place twice, and a Retry-After that is
\* written within the minute leads into the next one.
THEOREM HeadersAreReliable == Spec => []HeadersHold
<1>1. Inv => HeadersHold
  <2> SUFFICES ASSUME Inv PROVE HeadersHold
    OBVIOUS
  <2>1. ASSUME NEW t \in Tenants, NEW q \in AdmittedInTime(t), NEW r \in AdmittedInTime(t),
               q # r, minute[q] = minute[r]
        PROVE  header[q] # header[r]
    BY <2>1 DEF Inv, PlacesDiffer, AdmittedInTime, RedisKey
  <2>2. ASSUME NEW r \in Requests, pc[r] = "refused", answeredAt[r] \div Minute = minute[r]
        PROVE  /\ header[r] \in 1..Minute
               /\ (answeredAt[r] + header[r]) \div Minute = minute[r] + 1
    <3> DEFINE d == minute[r]
               a == answeredAt[r]
    <3>1. a \in Nat /\ d \in Nat
      BY Keys, BoundsAssumption DEF Inv, TypeOK
    <3>2. Begin(d) <= a /\ a < Begin(d + 1)
      BY <2>2, <3>1, MinuteOf
    <3>3. header[r] = Begin(d + 1) - a
      BY <2>2 DEF Inv, WaitsNamed
    <3> HIDE DEF d, a
    <3>4. /\ Begin(d) \in Nat /\ Begin(d + 1) = Begin(d) + Minute
          /\ Begin(d + 1) \in Nat /\ Begin((d + 1) + 1) = Begin(d + 1) + Minute
          /\ Minute \in Nat \ {0}
      BY <3>1, BeginType, LimitAssumption
    <3>5. header[r] \in 1..Minute
      BY <3>1, <3>2, <3>3, <3>4
    <3>6. a + header[r] = Begin(d + 1)
      BY <3>1, <3>3, <3>4
    <3>7. Begin(d + 1) < Begin((d + 1) + 1)
      BY <3>4
    <3>8. Begin(d + 1) \div Minute = d + 1
      BY <3>1, <3>4, <3>7, MinuteUnique
    <3> QED
      BY <3>5, <3>6, <3>8 DEF a, d
  <2> QED
    BY <2>1, <2>2 DEF HeadersHold
<1> QED
  BY <1>1, Invariance, PTL

\* A request is refused only when Limit requests of its own tenant and minute
\* were let through: no other tenant's traffic can use up its places.
THEOREM RefusalIsEarned == Spec => []RefusedOnlyWhenUsedUp
<1>1. Inv => RefusedOnlyWhenUsedUp
  <2> SUFFICES ASSUME Inv, NEW r \in Requests, pc[r] \in {"limited", "refused"}
               PROVE  Cardinality({q \in Requests :
                                     /\ TenantOf[q] = TenantOf[r] /\ minute[q] = minute[r]
                                     /\ pc[q] \in {"admitted", "unlimited"}}) >= Limit
    BY DEF RefusedOnlyWhenUsedUp
  <2>1. Through(RedisKey(r)) = {q \in Requests :
                                  /\ TenantOf[q] = TenantOf[r] /\ minute[q] = minute[r]
                                  /\ pc[q] \in {"admitted", "unlimited"}}
    BY DEF Through, RedisKey
  <2>2. Limit <= Cardinality(Through(RedisKey(r)))
    BY DEF Inv, Refusals
  <2>3. Cardinality(Through(RedisKey(r))) \in Nat
    BY SetsFinite
  <2> QED
    BY <2>1, <2>2, <2>3, LimitAssumption
<1> QED
  BY <1>1, Invariance, PTL
=============================================================================
