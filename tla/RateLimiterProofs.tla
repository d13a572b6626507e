-------------------------- MODULE RateLimiterProofs --------------------------
(***************************************************************************)
(* For any rate, burst and number of gateways whose clocks differ by less  *)
(* than the grace PEXPIRE adds: the bucket bounds what a key gets in every *)
(* window of time, and Retry-After is honest.                              *)
(***************************************************************************)
EXTENDS RateLimiter, TLAPS

\* What the script finds in the bucket is between nothing and a full bucket.
LEMMA AvailableType ==
    ASSUME TypeOK, NEW g \in Gateways
    PROVE  Available(g) \in 0..Depth /\ Clock(g) \in now..(now + Drift)
  BY LimiterAssumption DEF TypeOK, Available, Clock, Least

\* Writing back no more tokens than were found, less those paid for, keeps the
\* bucket's part of the invariant.
LEMMA StoreCovers ==
    ASSUME LimiterInv, NEW g \in Gateways, NEW paid \in 0..Depth,
           paid <= Available(g), Store(g, Available(g) - paid),
           now' = now, since' = since,
           passed' - waved' \in Int, passed' - waved' <= (passed - waved) + paid
    PROVE  /\ (passed' - waved') + Saved' <=
                 Depth + (IF ts' > since' THEN ts' - since' ELSE 0) + setback'
           /\ ts' >= since' /\ expires' # 0
           /\ ExpiresFull'
  <1> USE LimiterAssumption DEF LimiterInv, TypeOK
  <1>1. Clock(g) \in now..(now + Drift)
    BY AvailableType
  <1>2. ts' >= since' /\ expires' # 0 /\ ExpiresFull'
    BY <1>1 DEF Store, ExpiresFull
  <1>3. Saved' = Available(g) - paid
    BY <1>2, AvailableType DEF Saved, Store
  <1>4. CASE Absent
    BY <1>1, <1>2, <1>3, <1>4 DEF Absent, Available, Store, Covered, Saved, Least, ExpiresFull
  <1>5. CASE ~Absent
    BY <1>1, <1>2, <1>3, <1>5 DEF Available, Store, Covered, Saved, Least
  <1> QED
    BY <1>2, <1>4, <1>5

NeverBack == setback = 0

\* The bound of a textbook's token bucket: the burst, and the rate times the
\* length of the window.
TextbookBound == passed <= Depth + (now - since) + waved

\* Before the first request.
LEMMA LimiterInit == Init => LimiterInv
  BY LimiterAssumption
  DEF Init, LimiterInv, TypeOK, Covered, Saved, Least, ExpiresFull, Promised

\* A refusal, seen by its client or not, takes nothing from what is promised.
LEMMA RefusalKeepsPromise ==
    ASSUME LimiterInv, NEW g \in Gateways, Available(g) < Cost,
           Store(g, Available(g)), due' = due
    PROVE  Promised'
  <1> USE LimiterAssumption DEF LimiterInv, TypeOK
  <1>1. Clock(g) \in now..(now + Drift) /\ ~Absent
    BY AvailableType DEF Available
  <1> QED
    BY <1>1 DEF Promised, Store, Available, Least

\* Time passing, the observer, and every call of the script keep the invariant.
LEMMA LimiterNext == LimiterInv /\ [Next]_vars => LimiterInv'
  <1> SUFFICES ASSUME LimiterInv, [Next]_vars PROVE LimiterInv'
    OBVIOUS
  <1> USE LimiterAssumption DEF bucket, window
  <1>1. CASE Tick
    BY <1>1 DEF Tick, LimiterInv, TypeOK, Covered, Saved, Least, ExpiresFull, Promised
  <1>2. CASE Observe
    BY <1>2 DEF Observe, LimiterInv, TypeOK, Covered, Saved, Least, ExpiresFull, Promised
  <1>3. ASSUME NEW g \in Gateways, Grant(g) PROVE LimiterInv'
    <2> USE <1>3 DEF Grant
    <2>1. Available(g) \in 0..Depth /\ Clock(g) \in now..(now + Drift)
      BY AvailableType DEF LimiterInv
    <2>2. TypeOK'
      BY <2>1 DEF LimiterInv, TypeOK, Store
    <2>3. Covered' /\ ExpiresFull'
      <3>1. passed' - waved' = (passed - waved) + Cost /\ passed' - waved' \in Int
        BY DEF LimiterInv, TypeOK
      <3>2. Cost \in 0..Depth /\ passed' - waved' <= (passed - waved) + Cost
        BY <3>1
      <3> QED
        BY <2>2, <3>1, <3>2, StoreCovers DEF Covered, TypeOK
    <2>4. Promised'
      BY DEF Promised
    <2> QED
      BY <2>2, <2>3, <2>4 DEF LimiterInv
  <1>4. ASSUME NEW g \in Gateways, Refuse(g) PROVE LimiterInv'
    <2> USE <1>4 DEF Refuse
    <2>1. Available(g) \in 0..Depth /\ Clock(g) \in now..(now + Drift)
      BY AvailableType DEF LimiterInv
    <2>2. RetryAfter(Cost - Available(g)) \in Nat
      BY <2>1 DEF RetryAfter
    <2>3. TypeOK'
      <3>1. due' \subseteq Nat
        <4>1. now + RetryAfter(Cost - Available(g)) \in Nat /\ due \subseteq Nat
          BY <2>2 DEF LimiterInv, TypeOK
        <4> QED
          BY <4>1
      <3> QED
        BY <2>1, <3>1 DEF LimiterInv, TypeOK, Store
    <2>4. Covered' /\ ExpiresFull'
      <3>1. passed' - waved' = (passed - waved) + 0 /\ passed' - waved' \in Int
        BY DEF LimiterInv, TypeOK
      <3>2. Store(g, Available(g) - 0) /\ 0 <= Available(g) /\ 0 \in 0..Depth
        BY <2>1
      <3>3. passed' - waved' <= (passed - waved) + 0
        BY <3>1
      <3> QED
        BY <2>3, <3>1, <3>2, <3>3, StoreCovers DEF Covered, TypeOK
    <2>5. Promised'
      <3> SUFFICES ASSUME Cost <= Second, NEW p \in due'
                   PROVE  tokens' + (p + Drift - ts') >= Cost
        BY DEF Promised
      <3>1. CASE p \in due
        <4>1. ~Absent /\ p \in Nat
          BY <3>1 DEF Available, LimiterInv, TypeOK
        <4> QED
          BY <2>1, <3>1, <4>1 DEF Promised, Store, Available, Least, LimiterInv, TypeOK
      <3>2. CASE p = now + RetryAfter(Cost - Available(g))
        <4>1. RetryAfter(Cost - Available(g)) = Second
          BY <2>1 DEF RetryAfter
        <4> QED
          BY <2>1, <3>2, <4>1 DEF Store, LimiterInv, TypeOK
      <3> QED
        BY <3>1, <3>2
    <2> QED
      BY <2>3, <2>4, <2>5 DEF LimiterInv
  <1>5. ASSUME NEW g \in Gateways, FailOpen(g) PROVE LimiterInv'
    <2> USE <1>5 DEF FailOpen
    <2>1. Available(g) \in 0..Depth /\ Clock(g) \in now..(now + Drift)
      BY AvailableType DEF LimiterInv
    <2>2. passed' - waved' = passed - waved /\ passed' - waved' \in Int
      BY DEF LimiterInv, TypeOK
    <2>3. CASE UNCHANGED <<bucket, setback, due>>
      BY <2>2, <2>3 DEF LimiterInv, TypeOK, Covered, Saved, Least, ExpiresFull, Promised
    <2>4. CASE Available(g) >= Cost /\ Store(g, Available(g) - Cost) /\ due' = {}
      <3>1. TypeOK'
        BY <2>1, <2>4 DEF LimiterInv, TypeOK, Store
      <3>2. Covered' /\ ExpiresFull'
        <4>1. Cost \in 0..Depth /\ passed' - waved' <= (passed - waved) + Cost
          BY <2>2 DEF LimiterInv, TypeOK
        <4> QED
          BY <2>2, <2>4, <3>1, <4>1, StoreCovers DEF Covered, TypeOK
      <3> QED
        BY <2>4, <3>1, <3>2 DEF LimiterInv, Promised
    <2>5. CASE Available(g) < Cost /\ Store(g, Available(g)) /\ UNCHANGED due
      <3>1. TypeOK'
        BY <2>1, <2>5 DEF LimiterInv, TypeOK, Store
      <3>2. Covered' /\ ExpiresFull'
        <4>1. Store(g, Available(g) - 0) /\ 0 <= Available(g) /\ 0 \in 0..Depth
          BY <2>1, <2>5
        <4>2. passed' - waved' <= (passed - waved) + 0
          BY <2>2 DEF LimiterInv, TypeOK
        <4> QED
          BY <2>2, <3>1, <4>1, <4>2, StoreCovers DEF Covered, TypeOK
      <3>3. Promised'
        BY <2>5, RefusalKeepsPromise
      <3> QED
        BY <3>1, <3>2, <3>3 DEF LimiterInv
    <2> QED
      BY <2>3, <2>4, <2>5
  <1>6. CASE UNCHANGED vars
    BY <1>6 DEF vars, LimiterInv, TypeOK, Covered, Saved, Least, ExpiresFull, Promised
  <1> QED
    BY <1>1, <1>2, <1>3, <1>4, <1>5, <1>6 DEF Next

\* The strengthened invariant of the bucket holds in every reachable state.
THEOREM LimiterInductive == Spec => []LimiterInv
  BY LimiterInit, LimiterNext, PTL DEF Spec

\* In every window of time a key passes at most a full bucket and what the time
\* earns, besides requests that failed open and what gateways whose clocks
\* differ have set the bucket's clock back.
THEOREM RateHolds == Spec => []RateBounded
  <1>1. LimiterInv => RateBounded
    BY LimiterAssumption DEF LimiterInv, TypeOK, Covered, Saved, Least, RateBounded
  <1> QED
    BY <1>1, LimiterInductive, PTL

\* Every client that honours its Retry-After, whoever else is refused before it
\* or after it, is refused again only if a request granted meanwhile took its
\* token.
THEOREM RetryIsHonest == Spec => HonestRetry
  <1>1. ASSUME LimiterInv, Cost <= Second, NEW g \in Gateways, Refuse(g), NEW p \in due
        PROVE  now < p + Drift
    <2>1. Clock(g) \in now..(now + Drift) /\ ~Absent /\ p \in Nat
      BY <1>1, LimiterAssumption, AvailableType DEF LimiterInv, TypeOK, Refuse, Available
    <2> QED
      BY <1>1, <2>1, LimiterAssumption
      DEF LimiterInv, TypeOK, Refuse, Available, Least, Promised
  <1>2. LimiterInv =>
          (Cost <= Second =>
             \A g \in Gateways : Refuse(g) => \A p \in due : now < p + Drift)
    BY <1>1
  <1> QED
    BY <1>2, LimiterInductive, PTL DEF HonestRetry

\* Gateways that agree about the time never set the bucket's clock back: then
\* the bound is that of the textbook, burst and rate.
THEOREM AgreedClocks ==
    ASSUME Drift = 0
    PROVE  Spec => []TextbookBound
  <1>1. Init => NeverBack
    BY DEF Init, NeverBack
  <1>2. LimiterInv /\ NeverBack /\ [Next]_vars => NeverBack'
    <2> SUFFICES ASSUME LimiterInv, setback = 0, [Next]_vars PROVE setback' = 0
      BY DEF NeverBack
    <2>1. ASSUME NEW g \in Gateways, NEW left, Store(g, left) PROVE setback' = 0
      BY <2>1, LimiterAssumption, AvailableType, Drift = 0 DEF Store, LimiterInv, TypeOK
    <2> QED
      BY <2>1 DEF Next, vars, window, bucket, Tick, Observe, Grant, Refuse, FailOpen
  <1>3. LimiterInv /\ NeverBack => TextbookBound
    BY LimiterAssumption, Drift = 0
    DEF TextbookBound, NeverBack, LimiterInv, TypeOK, Covered, Saved, Least
  <1> QED
    BY <1>1, <1>2, <1>3, LimiterInductive, PTL DEF Spec
==============================================================================
