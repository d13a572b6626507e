----------------------------- MODULE RateLimiter -----------------------------
(***************************************************************************)
(* The token bucket of one API key (the Lua script of common/ratelimit.py) *)
(* as the gateways use it (gateway/auth.py).  The script is atomic, but it *)
(* is given the time by the gateway that calls it, and a gateway that gets *)
(* no answer lets the request through.                                     *)
(*                                                                         *)
(* The unit of tokens is what the bucket earns in one unit of time, so the *)
(* rate is 1 and a request costs Cost of them; the limiter is switched on. *)
(***************************************************************************)
EXTENDS Integers

CONSTANTS Gateways,
          Skew,      \* Skew[g]: how far g's clock is ahead
          Drift,     \* the clocks differ by at most this much
          Cost,      \* one request, in tokens: 1 / rate
          Depth,     \* the full bucket: burst / rate
          Grace,     \* what PEXPIRE adds to the time to fill the bucket
          Second,    \* the unit of Retry-After
          Horizon,   \* bound: the last moment
          MaxFaults, \* bound: calls of the script without an answer
          MaxBack    \* bound: how far `ts` may be moved back in a window

ASSUME LimiterAssumption ==
    /\ Drift \in Nat /\ Skew \in [Gateways -> 0..Drift]
    /\ Cost \in Nat \ {0} /\ Depth \in Nat /\ Cost <= Depth
    /\ Grace \in Nat /\ Drift <= Grace
    /\ Second \in Nat \ {0}
    /\ Horizon \in Nat /\ MaxFaults \in Nat /\ MaxBack \in Nat

VARIABLES
    now,      \* true time
    tokens,   \* the key's hash: "tokens"
    ts,       \* the key's hash: "ts"
    expires,  \* when the hash expires (it is absent from then on)
    due,      \* when the clients refused since the last grant may come back
    since,    \* an observer's window: its beginning,
    passed,   \*   the tokens' worth of requests let through since then,
    waved,    \*   those among them that failed open, and
    setback,  \*   how far `ts` has been moved back, in all
    faults

bucket == <<tokens, ts, expires>>
window == <<passed, waved, setback>>
vars   == <<now, tokens, ts, expires, due, since, passed, waved, setback, faults>>

TypeOK ==
    /\ now \in 0..Horizon /\ since \in 0..now
    /\ tokens \in 0..Depth
    /\ ts \in 0..(now + Drift)
    /\ expires \in 0..(now + Depth + Grace)
    /\ due \subseteq Nat
    /\ passed \in Nat /\ waved \in 0..passed /\ setback \in 0..MaxBack
    /\ faults \in 0..MaxFaults

Init ==
    /\ now = 0 /\ since = 0
    /\ tokens = Depth /\ ts = 0 /\ expires = 0
    /\ due = {}
    /\ passed = 0 /\ waved = 0 /\ setback = 0
    /\ faults = 0

Least(a, b) == IF a < b THEN a ELSE b

Tick ==
    /\ now < Horizon
    /\ now' = now + 1
    /\ UNCHANGED <<bucket, due, since, window, faults>>

\* The observer starts a new window.
Observe ==
    /\ since # now
    /\ since' = now
    /\ passed' = 0 /\ waved' = 0 /\ setback' = 0
    /\ UNCHANGED <<now, bucket, due, faults>>

----------------------------------------------------------------------------
(* The script *)

Absent == now >= expires

Clock(g) == now + Skew[g]

\* The tokens there are at g's time.
Available(g) ==
    IF Absent THEN Depth
    ELSE IF Clock(g) > ts THEN Least(Depth, tokens + (Clock(g) - ts)) ELSE tokens

\* Mutant: a refusal leaves `ts` alone, so its refill is counted again.
StoreKeepsTs(g, left) ==
    /\ tokens' = left
    /\ ts' = IF left < Available(g) THEN Clock(g) ELSE ts
    /\ setback' = setback
    /\ expires' = now + Depth + Grace

\* HSET and PEXPIRE.  An earlier clock sets `ts` back.
Store(g, left) ==
    /\ tokens' = left
    /\ ts' = Clock(g)
    /\ setback' = IF ~Absent /\ Clock(g) < ts THEN setback + (ts - Clock(g)) ELSE setback
    /\ setback' <= MaxBack
    /\ expires' = now + Depth + Grace

\* Mutant: no minimum of one second.
RetryAfterZero(wait) == (wait \div Second) * Second

\* max(int(retry_after_s), 1): whole seconds, rounded down, but never none.
\* (The value is rounded to hundredths before, which can only raise it to a
\* whole second.)
RetryAfter(wait) == IF wait < 2 * Second THEN Second ELSE (wait \div Second) * Second

----------------------------------------------------------------------------
(* rate_limited() *)

Grant(g) ==
    /\ Available(g) >= Cost
    /\ Store(g, Available(g) - Cost)
    /\ passed' = passed + Cost
    /\ due' = {}
    /\ UNCHANGED <<now, since, waved, faults>>

Refuse(g) ==
    /\ Available(g) < Cost
    /\ Store(g, Available(g))
    /\ due' = due \cup {now + RetryAfter(Cost - Available(g))}
    /\ UNCHANGED <<now, since, passed, waved, faults>>

\* The call of the script raises: the request passes, whether the script was
\* executed or not.
FailOpen(g) ==
    /\ faults < MaxFaults /\ faults' = faults + 1
    /\ passed' = passed + Cost
    /\ waved' = waved + Cost
    /\ \/ UNCHANGED <<bucket, setback, due>>
       \/ /\ Available(g) >= Cost /\ Store(g, Available(g) - Cost)
          /\ due' = {}
       \/ /\ Available(g) < Cost /\ Store(g, Available(g))
          /\ UNCHANGED due
    /\ UNCHANGED <<now, since>>

Next == Tick \/ Observe \/ \E g \in Gateways : Grant(g) \/ Refuse(g) \/ FailOpen(g)

Spec == Init /\ [][Next]_vars

----------------------------------------------------------------------------
(* Properties *)

\* ratelimit.py:3: the limit holds across the gateways.  In any window of time
\* the key passes no more than a full bucket and what the time earns, apart
\* from requests that failed open, and from the amount by which gateways that
\* disagree about the time have set the bucket's clock back.
RateBounded ==
    passed <= Depth + (now + Drift - since) + setback + waved

\* auth.py:64: a client that waits for the Retry-After of its refusal (and for
\* the gateways' clocks) is admitted, unless another request with its key took
\* the token.  It is promised so whoever else is refused meanwhile, before it or
\* after it: no refusal, of anyone, comes later than the time of any client
\* refused since the last request that was granted.
\* At less than a request a second the header is rounded down too far.
HonestRetry ==
    [][Cost <= Second =>
         \A g \in Gateways : Refuse(g) => \A p \in due : now < p + Drift]_vars

\* Why it holds.  Requests granted and tokens left are covered by a full bucket
\* and the time on the bucket's clock since the window began; a bucket that
\* expires has had, by any gateway's clock, the time to fill; and each refused
\* client's missing tokens arrive on that clock before its time in `due`.
Saved == IF ts < since THEN Least(Depth, tokens + (since - ts)) ELSE tokens

Covered ==
    /\ (passed - waved) + Saved <=
          Depth + (IF ts > since THEN ts - since ELSE 0) + setback
    /\ ts < since \/ expires = 0 => passed = waved

ExpiresFull == expires # 0 => ts + Depth + Grace <= expires + Drift

Promised ==
    Cost <= Second => \A p \in due : tokens + (p + Drift - ts) >= Cost

LimiterInv == TypeOK /\ Covered /\ ExpiresFull /\ Promised
==============================================================================
