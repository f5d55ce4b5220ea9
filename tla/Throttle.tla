--------------------------------- MODULE Throttle ---------------------------------
(***************************************************************************)
(* The throttle of the request channel (engine/throttle.rs, pace in        *)
(* client.rs and fetch.rs): a token bucket behind a lock, which the clients*)
(* of a process share.  Time is counted in ticks, and the bucket in shares *)
(* of a request: one comes back each tick, and a request takes Cost.       *)
(***************************************************************************)
EXTENDS Integers, Sequences, FiniteSetsExt

CONSTANTS
  Threads,   \* threads that send requests
  Cost,      \* ticks until a request is paid for, 1 / rate_per_sec
  Burst,     \* requests served at once, burst
  MaxClock,  \* bound on the clock
  MaxDraws   \* bound on the requests

ASSUME ThrottleAssumption ==
  Cost \in Nat \ {0} /\ Burst \in Nat \ {0} /\ MaxClock \in Nat /\ MaxDraws \in Nat

VARIABLES
  clock,
  bucket,    \* what is in it, as of when
  wakes,     \* when each thread may send
  grants     \* history: those times, in the order of the draws

throttleVars == <<clock, bucket, wakes, grants>>

ThrottleTypeOK ==
  /\ clock \in 0 .. MaxClock
  /\ bucket.tokens <= Burst * Cost /\ bucket.refreshed \in 0 .. clock
  /\ wakes \in [Threads -> Nat]
  /\ Len(grants) \in 0 .. MaxDraws

ThrottleInit ==
  /\ clock = 0
  /\ bucket = [tokens |-> Burst * Cost, refreshed |-> 0]
  /\ wakes = [t \in Threads |-> 0]
  /\ grants = <<>>

PassTime ==
  /\ clock < MaxClock
  /\ clock' = clock + 1
  /\ UNCHANGED <<bucket, wakes, grants>>

\* acquire_delay_at: the bucket may be overdrawn, and the delay makes up for it.
Refilled(b, now) ==
  LET tokens == b.tokens + (now - b.refreshed)
  IN  [tokens |-> IF tokens > Burst * Cost THEN Burst * Cost ELSE tokens, refreshed |-> now]

Delay_BeforeTaking(tokens) == IF tokens + Cost >= 0 THEN 0 ELSE -(tokens + Cost)
Delay(tokens) == IF tokens >= 0 THEN 0 ELSE -tokens

\* pace: a thread that is not asleep draws for its next request, and sleeps.
Pace(t) ==
  /\ wakes[t] <= clock /\ Len(grants) < MaxDraws
  /\ LET left == Refilled(bucket, clock).tokens - Cost
         at == clock + Delay(left)
     IN  /\ bucket' = [tokens |-> left, refreshed |-> clock]
         /\ wakes' = [wakes EXCEPT ![t] = at]
         /\ grants' = Append(grants, at)
  /\ UNCHANGED clock

ThrottleNext == PassTime \/ \E t \in Threads : Pace(t)

ThrottleSpec == ThrottleInit /\ [][ThrottleNext]_throttleVars

(* No stretch of time has more requests than the burst and what comes back   *)
(* in it, whoever sends them and after however long a pause; none waits     *)
(* longer than that takes; and they are served in the order they came.      *)
RateIsKept ==
  /\ \A i, j \in 1 .. Len(grants) : i <= j =>
       grants[i] <= grants[j] /\ (j - i + 1 - Burst) * Cost <= grants[j] - grants[i]
  /\ \A j \in 1 .. Len(grants) :
       grants[j] > clock =>
         \E i \in 1 .. j - 1 : (j - i + 1 - Burst) * Cost > grants[j] - 1 - grants[i]
=============================================================================
