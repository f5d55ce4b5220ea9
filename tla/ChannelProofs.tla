---------------------------- MODULE ChannelProofs ----------------------------
(***************************************************************************)
(* Proofs about what the channels to a server keep to: the throttle its    *)
(* rate, for every number of threads, every rate and burst, however many   *)
(* requests are sent; and the document channel its word, for every set of  *)
(* addresses, every limit and every policy of retries.                     *)
(*                                                                         *)
(* What is in the bucket, carried on to the time of a grant, is at most    *)
(* the burst less the requests granted since (Paid): the cap on a refill   *)
(* only takes from it.  Since the last time the cap took something, it is  *)
(* exactly that (Tight): so no request waits for more than the rate asks.  *)
(*                                                                         *)
(* A document is asked for at the address that was checked, whatever the   *)
(* redirects did meanwhile, and once more than was waited for (Asking).    *)
(*                                                                         *)
(* A login may rely on the callback server: a connection waits in the      *)
(* backlog once (Queued), is answered with its verdict before anything is  *)
(* reported of it (VerdictGiven), and the loop that serves one itself      *)
(* serves no other (InlineOne).  What is reported is one verdict, a        *)
(* result is there only when the wait has ended (HandedOver), and the      *)
(* count of threads is the number of connections a thread has.             *)
(*                                                                         *)
(* What comes back is shown without a fragment of a secret: it is a part   *)
(* (IsPart) of the text that was searched for them.                        *)
(*                                                                         *)
(* And a table shows what there is: its columns are some that rows carry,  *)
(* each of them once (EachOnce), and a cell keeps of a text what leaves    *)
(* room for the ellipsis.                                                  *)
(***************************************************************************)
EXTENDS Throttle, DocumentFetch, Loopback, Redaction, Display, DocumentProofs

USE ThrottleAssumption

-----------------------------------------------------------------------------
(* The invariant.                                                           *)

Full == Burst * Cost

(* What k requests cost.                                                    *)
Shares(k) == k * Cost

(* How far the bucket is ahead of its clock.                                *)
Ahead == bucket.tokens - bucket.refreshed

ThrottleTyped ==
  /\ clock \in 0 .. MaxClock
  /\ bucket \in [tokens : Int, refreshed : Nat]
  /\ bucket.tokens <= Full /\ bucket.refreshed <= clock
  /\ wakes \in [Threads -> Nat]
  /\ grants \in Seq(Nat) /\ Len(grants) <= MaxDraws

(* No request was granted for nothing, and none after the last one.         *)
Paid ==
  \A i \in 1 .. Len(grants) :
    /\ Ahead + grants[i] <= Full - Shares(Len(grants) - i + 1)
    /\ grants[i] <= bucket.refreshed + Delay(bucket.tokens)

(* The bucket holds all that was not granted since some request.            *)
Tight ==
  IF grants = <<>>
    THEN bucket.tokens = Full /\ bucket.refreshed = 0
    ELSE \E i \in 1 .. Len(grants) :
           Ahead + grants[i] = Full - Shares(Len(grants) - i + 1)

ThrottleInv == ThrottleTyped /\ Paid /\ Tight /\ RateIsKept

-----------------------------------------------------------------------------
(* Arithmetic.                                                              *)

(* The cost of n requests, as the linear facts the steps need of it.        *)
LEMMA Costs ==
  /\ Cost \in Nat \ {0} /\ Full \in Nat /\ Cost <= Full
  /\ Shares(0) = 0 /\ Shares(1) = Cost
  /\ \A k \in Int : /\ Shares(k) \in Int
                    /\ Shares(k + 1) = Shares(k) + Cost
                    /\ (k - Burst) * Cost = Shares(k) - Full
<1>1. Cost \in Nat \ {0} /\ Burst \in Nat \ {0}
  OBVIOUS
<1>2. Full \in Nat /\ Cost <= Full
  BY <1>1 DEF Full
<1>3. \A k \in Int : Shares(k) \in Int
  BY <1>1 DEF Shares
<1>4. \A k \in Int : Shares(k + 1) = Shares(k) + Cost
  BY <1>1 DEF Shares
<1>5. \A k \in Int : (k - Burst) * Cost = Shares(k) - Full
  BY <1>1 DEF Shares, Full
<1>6. Shares(0) = 0 /\ Shares(1) = Cost
  BY <1>1 DEF Shares
<1> QED
  BY <1>1, <1>2, <1>3, <1>4, <1>5, <1>6

-----------------------------------------------------------------------------
(* The steps.                                                               *)

(* A fresh bucket is full.                                                  *)
LEMMA ThrottleBegins == ThrottleInit => ThrottleInv
<1> SUFFICES ASSUME ThrottleInit
             PROVE  ThrottleInv
  OBVIOUS
<1>1. Full \in Nat
  BY Costs
<1>2. Len(grants) = 0 /\ grants \in Seq(Nat)
  BY DEF ThrottleInit
<1>3. bucket.tokens = Full /\ bucket.refreshed = 0
  BY DEF ThrottleInit, Full
<1>4. ThrottleTyped
  BY <1>1, <1>2, <1>3 DEF ThrottleInit, ThrottleTyped, Full
<1>5. Paid /\ RateIsKept
  BY <1>2 DEF Paid, RateIsKept
<1>6. Tight
  BY <1>3 DEF ThrottleInit, Tight
<1> QED
  BY <1>4, <1>5, <1>6 DEF ThrottleInv

(* A wait only gets shorter.                                                *)
LEMMA Waits ==
  ASSUME ThrottleInv, PassTime
  PROVE  ThrottleInv'
<1>1. ThrottleTyped'
  BY DEF ThrottleInv, PassTime, ThrottleTyped
<1>2. Paid' /\ Tight'
  BY DEF ThrottleInv, PassTime, Paid, Tight, Ahead
<1>3. RateIsKept'
  <2>1. clock \in Nat /\ clock' = clock + 1 /\ grants' = grants
    BY DEF ThrottleInv, PassTime, ThrottleTyped
  <2>2. \A j \in 1 .. Len(grants) : grants[j] \in Nat
    BY DEF ThrottleInv, ThrottleTyped
  <2> QED
    BY <2>1, <2>2 DEF ThrottleInv, RateIsKept
<1> QED
  BY <1>1, <1>2, <1>3 DEF ThrottleInv

(* A request draws: what is left, and when it may go.                       *)
Left == Refilled(bucket, clock).tokens - Cost
LevelAt == clock + Delay(Left)

(* What pacing a request leaves in the bucket, and when it lets the request go.*)
LEMMA Draws ==
  ASSUME ThrottleInv, NEW t \in Threads, Pace(t)
  PROVE  /\ Left \in Int /\ LevelAt \in Nat /\ LevelAt >= clock /\ LevelAt = clock + Delay(Left)
         /\ Left <= Full - Cost
         /\ Left - clock <= Ahead - Cost
         /\ Left = Full - Cost \/ Left - clock = Ahead - Cost
         /\ grants = <<>> => Left = Full - Cost
         /\ bucket' = [tokens |-> Left, refreshed |-> clock] /\ Ahead' = Left - clock
         /\ clock' = clock
         /\ grants' \in Seq(Nat) /\ Len(grants') = Len(grants) + 1
         /\ Len(grants') <= MaxDraws
         /\ \A i \in 1 .. Len(grants) : grants'[i] = grants[i]
         /\ grants'[Len(grants')] = LevelAt
<1>1. /\ bucket.tokens \in Int /\ bucket.refreshed \in Nat /\ clock \in Nat
      /\ bucket.tokens <= Full /\ bucket.refreshed <= clock
      /\ grants \in Seq(Nat) /\ Full \in Nat /\ Cost \in Nat /\ Cost <= Full
      /\ Len(grants) \in Nat
  BY Costs DEF ThrottleInv, ThrottleTyped
<1>2. Left = (IF bucket.tokens + (clock - bucket.refreshed) > Full
                THEN Full ELSE bucket.tokens + (clock - bucket.refreshed)) - Cost
  BY DEF Left, Refilled, Full
<1>3. /\ Left \in Int /\ Left <= Full - Cost
      /\ Left - clock <= Ahead - Cost
      /\ Left = Full - Cost \/ Left - clock = Ahead - Cost
  <2> DEFINE all == bucket.tokens + (clock - bucket.refreshed)
  <2>1. all \in Int /\ all - clock = Ahead
    BY <1>1 DEF Ahead
  <2>2. Left = (IF all > Full THEN Full ELSE all) - Cost
    BY <1>2
  <2>3. Ahead \in Int
    BY <1>1 DEF Ahead
  <2> HIDE DEF all
  <2> QED
    BY <1>1, <2>1, <2>2, <2>3
<1>4. grants = <<>> => Left = Full - Cost
  BY <1>1, <1>2 DEF ThrottleInv, Tight
<1>5. LevelAt \in Nat /\ LevelAt >= clock /\ LevelAt = clock + Delay(Left)
  BY <1>1, <1>3 DEF LevelAt, Delay
<1>6. /\ bucket' = [tokens |-> Left, refreshed |-> clock] /\ clock' = clock
      /\ grants' = Append(grants, LevelAt) /\ Len(grants) < MaxDraws
  BY DEF Pace, Left, LevelAt
<1>7. Ahead' = Left - clock
  BY <1>6 DEF Ahead
<1>8. /\ grants' \in Seq(Nat) /\ Len(grants') = Len(grants) + 1
      /\ \A i \in 1 .. Len(grants) : grants'[i] = grants[i]
      /\ grants'[Len(grants')] = LevelAt
  BY <1>1, <1>5, <1>6
<1>9. Len(grants') <= MaxDraws
  BY <1>1, <1>6, <1>8
<1> QED
  BY <1>3, <1>4, <1>5, <1>6, <1>7, <1>8, <1>9

(* The rate is kept by the requests so far and by the one that draws.       *)
LEMMA Serves ==
  ASSUME ThrottleInv, NEW t \in Threads, Pace(t)
  PROVE  ThrottleInv'
<1> DEFINE n == Len(grants)
<1>1. /\ Left \in Int /\ LevelAt \in Nat /\ LevelAt >= clock /\ LevelAt = clock + Delay(Left)
      /\ Left <= Full - Cost
      /\ Left - clock <= Ahead - Cost
      /\ Left = Full - Cost \/ Left - clock = Ahead - Cost
      /\ grants = <<>> => Left = Full - Cost
      /\ Ahead' = Left - clock /\ clock' = clock
  BY Draws
<1>2. bucket'.tokens = Left /\ bucket'.refreshed = clock
  BY Draws
<1>3. /\ Len(grants') = n + 1 /\ n \in Nat
      /\ \A i \in 1 .. n : grants'[i] = grants[i]
      /\ grants'[n + 1] = LevelAt
  BY Draws DEF ThrottleInv, ThrottleTyped
<1>4. /\ \A i \in 1 .. n : grants[i] \in Nat
      /\ Ahead \in Int /\ clock \in Nat /\ bucket.tokens \in Int
      /\ bucket.refreshed \in Nat /\ bucket.refreshed <= clock
      /\ Ahead = bucket.tokens - bucket.refreshed
  BY DEF ThrottleInv, ThrottleTyped, Ahead
<1>5. /\ Cost \in Nat \ {0} /\ Full \in Nat /\ Cost <= Full /\ Shares(1) = Cost
      /\ \A k \in Int : Shares(k) \in Int /\ Shares(k + 1) = Shares(k) + Cost
                        /\ (k - Burst) * Cost = Shares(k) - Full
  BY Costs
<1>50. Cost \in Nat /\ Full \in Nat /\ Cost <= Full /\ Ahead \in Int /\ clock \in Nat
  BY <1>4, <1>5
<1>51. /\ Left \in Int /\ LevelAt \in Nat /\ LevelAt = clock + (IF Left >= 0 THEN 0 ELSE -Left)
       /\ Left - clock <= Ahead - Cost
  BY <1>1 DEF Delay
<1>6. \A i \in 1 .. n : /\ Ahead + grants[i] <= Full - Shares(n - i + 1)
                       /\ grants[i] <= bucket.refreshed + Delay(bucket.tokens)
  BY DEF ThrottleInv, Paid
<1>7. n = 0 \/ \E i \in 1 .. n : Ahead + grants[i] = Full - Shares(n - i + 1)
  BY DEF ThrottleInv, Tight
<1> HIDE DEF n
<1>8. \A i \in 1 .. n : (n + 1) - i + 1 = (n - i + 1) + 1 /\ n - i + 1 \in Int
  BY <1>3
<1>9. \A i \in 1 .. n : Shares((n + 1) - i + 1) = Shares(n - i + 1) + Cost
  BY <1>5, <1>8
<1>10. (n + 1) - (n + 1) + 1 = 1
  BY <1>3
<1>11. \A i \in 1 .. n : grants[i] <= LevelAt
  <2> TAKE i \in 1 .. n
  <2>1. grants[i] <= bucket.refreshed + Delay(bucket.tokens) /\ grants[i] \in Nat
    BY <1>4, <1>6
  <2>2. Left <= bucket.tokens + (clock - bucket.refreshed) - Cost
    <3> DEFINE a == bucket.tokens
               b == bucket.refreshed
    <3>1. Left - clock <= a - b - Cost /\ a \in Int /\ b \in Nat
      BY <1>1, <1>4
    <3> HIDE DEF a, b
    <3>2. Left <= a + (clock - b) - Cost
      BY <1>1, <1>4, <1>5, <3>1
    <3> QED
      BY <3>2 DEF a, b
  <2>3. Delay(Left) = IF Left >= 0 THEN 0 ELSE -Left
    BY DEF Delay
  <2>4. Delay(bucket.tokens) = IF bucket.tokens >= 0 THEN 0 ELSE -bucket.tokens
    BY DEF Delay
  <2> DEFINE a == bucket.tokens
             b == bucket.refreshed
             g == grants[i]
  <2>5. /\ g <= b + (IF a >= 0 THEN 0 ELSE -a) /\ g \in Nat
        /\ Left <= a + (clock - b) - Cost
        /\ LevelAt = clock + (IF Left >= 0 THEN 0 ELSE -Left)
        /\ a \in Int /\ b \in Nat /\ b <= clock /\ clock \in Nat
    BY <1>1, <1>4, <2>1, <2>2, <2>3, <2>4
  <2> HIDE DEF a, b, g
  <2>6. g <= LevelAt
    BY <1>50, <1>51, <2>5
  <2> QED
    BY <2>6 DEF g
<1>12. Left - clock + LevelAt <= Full - Cost
  BY <1>1, <1>4, <1>5 DEF Delay
<1>13. \A i \in 1 .. n : (Left - clock) + grants[i] <= Full - Shares((n + 1) - i + 1)
  <2> TAKE i \in 1 .. n
  <2>1. /\ Ahead + grants[i] <= Full - Shares(n - i + 1) /\ grants[i] \in Nat
        /\ Shares(n - i + 1) \in Int
    BY <1>4, <1>5, <1>6, <1>8
  <2> DEFINE s == Shares(n - i + 1)
             g == grants[i]
  <2>2. s \in Int /\ g \in Nat /\ Ahead + g <= Full - s
    BY <2>1
  <2>3. Shares((n + 1) - i + 1) = s + Cost
    BY <1>9
  <2> HIDE DEF s, g
  <2>4. (Left - clock) + g <= Full - (s + Cost)
    BY <1>50, <1>51, <2>2
  <2> QED
    BY <2>3, <2>4 DEF g
<1>14. ThrottleTyped'
  <2>1. bucket' \in [tokens : Int, refreshed : Nat]
    <3>1. bucket' = [tokens |-> Left, refreshed |-> clock]
      BY Draws
    <3> QED
      BY <1>1, <1>4, <3>1
  <2>2. bucket'.tokens <= Full /\ bucket'.refreshed <= clock'
    BY <1>1, <1>2, <1>4, <1>5
  <2>3. wakes' \in [Threads -> Nat]
    BY <1>1 DEF ThrottleInv, ThrottleTyped, Pace, LevelAt, Left
  <2>4. grants' \in Seq(Nat) /\ Len(grants') <= MaxDraws
    BY Draws
  <2>5. clock' \in 0 .. MaxClock
    BY <1>1 DEF ThrottleInv, ThrottleTyped
  <2> QED
    BY <2>1, <2>2, <2>3, <2>4, <2>5 DEF ThrottleTyped
<1>15. Paid'
  <2>1. \A i \in 1 .. n + 1 : /\ Ahead' + grants'[i] <= Full - Shares((n + 1) - i + 1)
                             /\ grants'[i] <= clock + Delay(Left)
    <3> TAKE i \in 1 .. n + 1
    <3>1. CASE i \in 1 .. n
      BY <1>1, <1>3, <1>11, <1>13, <3>1
    <3>2. CASE i = n + 1
      <4>1. Shares((n + 1) - (n + 1) + 1) = Cost
        BY <1>5, <1>10
      <4>2. LevelAt <= clock + Delay(Left)
        BY <1>1
      <4> QED
        BY <1>1, <1>3, <1>12, <3>2, <4>1, <4>2
    <3> QED
      BY <1>3, <3>1, <3>2
  <2> QED
    BY <1>2, <1>3, <2>1 DEF Paid, Full, Shares, Delay
<1>16. Tight'
  <2>1. grants' # <<>>
    BY <1>3
  <2>2. \E i \in 1 .. n + 1 : Ahead' + grants'[i] = Full - Shares((n + 1) - i + 1)
    <3>1. CASE Left = Full - Cost
      <4>1. LevelAt = clock
        BY <1>1, <1>4, <1>5, <3>1 DEF Delay
      <4>2. Ahead' + grants'[n + 1] = Full - Shares((n + 1) - (n + 1) + 1)
        <5>1. Shares((n + 1) - (n + 1) + 1) = Cost
          BY <1>5, <1>10
        <5>2. (Left - clock) + LevelAt = Full - Cost
          BY <1>50, <1>51, <3>1, <4>1
        <5> QED
          BY <1>1, <1>3, <5>1, <5>2
      <4> QED
        BY <1>3, <4>2
    <3>2. CASE Left # Full - Cost
      <4>1. Left - clock = Ahead - Cost
        BY <1>1, <3>2
      <4>2. n # 0
        BY <1>1, <3>2 DEF ThrottleInv, ThrottleTyped, n
      <4>3. PICK i \in 1 .. n : Ahead + grants[i] = Full - Shares(n - i + 1)
        BY <1>7, <4>2
      <4>4. grants[i] \in Nat /\ Shares(n - i + 1) \in Int
        BY <1>4, <1>5, <1>8
      <4>5. Ahead' + grants'[i] = Full - Shares((n + 1) - i + 1)
        <5> DEFINE s == Shares(n - i + 1)
                   g == grants[i]
        <5>1. s \in Int /\ g \in Nat /\ Ahead + g = Full - s
          BY <4>3, <4>4
        <5>2. Shares((n + 1) - i + 1) = s + Cost /\ grants'[i] = g
          BY <1>3, <1>9
        <5> HIDE DEF s, g
        <5>3. Ahead' + g = Full - (s + Cost)
          <6>1. Ahead' = Left - clock
            BY <1>1
          <6> QED
            BY <1>50, <1>51, <4>1, <5>1, <6>1
        <5> QED
          BY <5>2, <5>3
      <4> QED
        BY <1>3, <4>5
    <3> QED
      BY <3>1, <3>2
  <2> QED
    BY <1>3, <2>1, <2>2 DEF Tight, Full, Shares
<1>17. RateIsKept'
  <2>1. ASSUME NEW i \in 1 .. n + 1, NEW j \in 1 .. n + 1, i <= j
        PROVE  /\ grants'[i] <= grants'[j]
               /\ (j - i + 1 - Burst) * Cost <= grants'[j] - grants'[i]
    <3>1. CASE j \in 1 .. n
      <4>1. i \in 1 .. n
        BY <1>3, <2>1, <3>1
      <4> QED
        BY <1>3, <3>1, <4>1, <2>1 DEF ThrottleInv, RateIsKept, n
    <3>2. CASE j = n + 1 /\ i \in 1 .. n
      <4>1. (j - i + 1 - Burst) * Cost = Shares(j - i + 1) - Full
        BY <1>3, <1>5
      <4>2. (Left - clock) + grants[i] <= Full - Shares(j - i + 1)
        BY <1>13, <3>2
      <4>3. LevelAt - clock >= 0 - Left
        BY <1>1, <1>4 DEF Delay
      <4>4. Shares(j - i + 1) \in Int /\ grants[i] \in Nat
        <5>1. j - i + 1 \in Int
          BY <1>3
        <5> QED
          BY <1>4, <1>5, <3>2, <5>1
      <4>5. Shares(j - i + 1) - Full <= LevelAt - grants[i]
        <5> DEFINE s == Shares(j - i + 1)
                   g == grants[i]
        <5>1. s \in Int /\ g \in Nat /\ (Left - clock) + g <= Full - s
          BY <4>2, <4>4
        <5> HIDE DEF s, g
        <5>2. s - Full <= LevelAt - g
          BY <1>50, <1>51, <4>3, <5>1
        <5> QED
          BY <5>2 DEF s, g
      <4>6. grants'[j] = LevelAt /\ grants'[i] = grants[i] /\ grants[i] <= LevelAt
        BY <1>3, <1>11, <3>2
      <4> QED
        BY <4>1, <4>5, <4>6
    <3>3. CASE j = n + 1 /\ i = n + 1
      <4>1. (j - i + 1 - Burst) * Cost = Shares(1) - Full
        BY <1>3, <1>5, <1>10, <3>3
      <4>2. Shares(1) - Full <= 0
        BY <1>5
      <4>3. grants'[i] = LevelAt /\ grants'[j] = LevelAt
        BY <1>3, <3>3
      <4> QED
        BY <1>51, <4>1, <4>2, <4>3
    <3>4. j \in 1 .. n \/ (j = n + 1 /\ i \in 1 .. n) \/ (j = n + 1 /\ i = n + 1)
      BY <1>3
    <3> QED
      BY <3>1, <3>2, <3>3, <3>4
  <2>2. ASSUME NEW j \in 1 .. n + 1, grants'[j] > clock
        PROVE  \E i \in 1 .. j - 1 : (j - i + 1 - Burst) * Cost > grants'[j] - 1 - grants'[i]
    <3>1. CASE j \in 1 .. n
      <4>1. PICK i \in 1 .. j - 1 : (j - i + 1 - Burst) * Cost > grants[j] - 1 - grants[i]
        BY <1>3, <2>2, <3>1 DEF ThrottleInv, RateIsKept, n
      <4>2. i \in 1 .. n
        BY <1>3, <3>1
      <4> QED
        BY <1>3, <3>1, <4>1, <4>2
    <3>2. CASE j = n + 1
      <4>1. Left < 0 /\ LevelAt = clock - Left
        BY <1>1, <1>3, <1>4, <2>2, <3>2 DEF Delay
      <4>2. Left # Full - Cost
        BY <1>1, <1>5, <4>1
      <4>3. Left - clock = Ahead - Cost /\ n # 0
        BY <1>1, <4>2 DEF ThrottleInv, ThrottleTyped, n
      <4>4. PICK i \in 1 .. n : Ahead + grants[i] = Full - Shares(n - i + 1)
        BY <1>7, <4>3
      <4>5. /\ grants[i] \in Nat /\ Shares(n - i + 1) \in Int /\ i \in 1 .. j - 1
            /\ Shares(j - i + 1) = Shares(n - i + 1) + Cost
        <5>1. grants[i] \in Nat /\ i \in 1 .. j - 1
          BY <1>3, <1>4, <3>2
        <5>2. Shares(n - i + 1) \in Int
          BY <1>5, <1>8
        <5>3. Shares((n + 1) - i + 1) = Shares(n - i + 1) + Cost
          BY <1>9
        <5> QED
          BY <3>2, <5>1, <5>2, <5>3
      <4>6. Shares(j - i + 1) - Full = LevelAt - grants[i]
        <5> DEFINE s == Shares(n - i + 1)
                   g == grants[i]
        <5>1. s \in Int /\ g \in Nat /\ Ahead + g = Full - s
          BY <4>4, <4>5
        <5> HIDE DEF s, g
        <5>2. (s + Cost) - Full = LevelAt - g
          BY <1>50, <1>51, <4>1, <4>3, <5>1
        <5> QED
          BY <4>5, <5>2 DEF s, g
      <4>7. (j - i + 1 - Burst) * Cost = Shares(j - i + 1) - Full
        BY <1>3, <1>5, <4>5
      <4>8. (j - i + 1 - Burst) * Cost > grants'[j] - 1 - grants'[i]
        BY <1>1, <1>3, <3>2, <4>5, <4>6, <4>7
      <4> QED
        BY <4>5, <4>8
    <3> QED
      BY <1>3, <3>1, <3>2
  <2> QED
    BY <1>1, <1>3, <2>1, <2>2 DEF RateIsKept
<1> QED
  BY <1>14, <1>15, <1>16, <1>17 DEF ThrottleInv

-----------------------------------------------------------------------------
(* The theorems.                                                            *)

(* Whatever the threads do, the bucket and the grants stay in step.         *)
THEOREM ThrottleInvariance == ThrottleSpec => []ThrottleInv
<1>1. ThrottleInv /\ [ThrottleNext]_throttleVars => ThrottleInv'
  <2> SUFFICES ASSUME ThrottleInv, [ThrottleNext]_throttleVars
               PROVE  ThrottleInv'
    OBVIOUS
  <2>1. CASE PassTime
    BY <2>1, Waits
  <2>2. ASSUME NEW t \in Threads, Pace(t)
        PROVE  ThrottleInv'
    BY <2>2, Serves
  <2>3. CASE UNCHANGED throttleVars
    BY <2>3 DEF throttleVars, ThrottleInv, ThrottleTyped, Paid, Tight, RateIsKept, Ahead
  <2> QED
    BY <2>1, <2>2, <2>3 DEF ThrottleNext
<1> QED
  BY <1>1, ThrottleBegins, PTL DEF ThrottleSpec

(* The clock, the bucket and the times stay in their ranges.                *)
THEOREM ThrottleTypes == ThrottleSpec => []ThrottleTypeOK
<1>1. ThrottleInv => ThrottleTypeOK
  BY DEF ThrottleInv, ThrottleTyped, ThrottleTypeOK, Full
<1> QED
  BY <1>1, ThrottleInvariance, PTL

(* No stretch of time has more requests than the burst and what comes back  *)
(* in it, none waits for more, and they go in the order of their draws      *)
(* (acquire_delay_at).                                                      *)
THEOREM KeepsTheRate == ThrottleSpec => []RateIsKept
<1>1. ThrottleInv => RateIsKept
  BY DEF ThrottleInv
<1> QED
  BY <1>1, ThrottleInvariance, PTL

-----------------------------------------------------------------------------
(* The document channel: the invariant.                                     *)

HIDE ThrottleAssumption

USE PolicyAssumption

FetchResults ==
  [kind : Errors \cup {"none", "document"}, origin : Hosts \cup {NoHost},
   bytes : Nat, retries : Nat]

Wires == [at : DocumentUrls \cup {NoUrl}, hops : 0 .. MaxHops]
OneWait == [said : RetryAfters, slept : Int]
WaitLists == Seq(OneWait)

(* What each variable holds, the shape of the records included.             *)
FetchTyped ==
  /\ fetch \in [stage : {"idle", "send", "flight", "done"}, asked : DocumentUrls \cup {NoUrl},
                attempt : 0 .. MaxAttempts, result : FetchResults]
  /\ wire \in Wires
  /\ sends \in Nat
  /\ waits \in WaitLists /\ Len(waits) = fetch.attempt
  /\ served \in Bodies

(* While a fetch goes on it has no result, asks for what it checked, and has*)
(* sent one request for each wait and the one in flight.                    *)
Asking ==
  /\ fetch.stage # "done" => fetch.result = NotFetched
  /\ fetch.stage = "idle" => sends = 0 /\ fetch.attempt = 0
  /\ fetch.stage \in {"send", "flight"} => Fetchable(fetch.asked)
  /\ fetch.stage = "send" => sends = fetch.attempt
  /\ fetch.stage = "flight" =>
       sends = fetch.attempt + 1 /\ wire.at.scheme = "http" /\ wire.at.host # NoHost
  /\ sends <= MaxAttempts + 1

(* Each wait is what the server said, or the delay of that retry.           *)
WaitIsRight(wait, i) ==
  /\ wait.slept <= MaxWait
  /\ wait.said.form \in {"seconds", "date", "beyond_u64"} =>
       wait.slept = Min({MaxWait, IF wait.said.form = "beyond_u64" THEN MaxWait
                                  ELSE wait.said.value})
  /\ wait.said.form \in {"absent", "unreadable"} /\ BackoffBase <= MaxWait =>
       wait.slept >= Min({MaxWait, BackoffBase * 2 ^ (i - 1)})

Waited == \A i \in 1 .. Len(waits) : WaitIsRight(waits[i], i)

FetchInv == FetchTyped /\ Asking /\ Waited /\ FetchHonest

-----------------------------------------------------------------------------
(* The document channel: the operators.                                     *)

(* The lesser of two numbers.                                               *)
LEMMA MinOfTwo ==
  ASSUME NEW a \in Int, NEW b \in Int
  PROVE  /\ Min({a, b}) \in Int
         /\ Min({a, b}) = IF a <= b THEN a ELSE b
  BY DEF Min

(* What a retry waits is right, whatever the server said (retry_wait).      *)
LEMMA RetryWaits ==
  ASSUME NEW header \in RetryAfters, NEW n \in Nat, NEW w \in RetryWait(header, n)
  PROVE  w \in Int /\ WaitIsRight([said |-> header, slept |-> w], n + 1)
<1> DEFINE doubled == BackoffBase * 2 ^ n
           wait == [said |-> header, slept |-> w]
<1>4. wait.said = header /\ wait.slept = w
  OBVIOUS
<1>5. BackoffBase * 2 ^ ((n + 1) - 1) = doubled
  <2>1. (n + 1) - 1 = n
    OBVIOUS
  <2> QED
    BY <2>1
<1> HIDE DEF wait
<1>0. doubled \in Int
  <2>1. 2 ^ n \in Int
    OBVIOUS
  <2> QED
    BY <2>1
<1>1. CASE header.form \in {"seconds", "date"}
  <2>1. header.value \in Nat
    BY <1>1 DEF RetryAfters
  <2>2. ParseRetryAfter(header) = {header.value}
    BY <1>1 DEF ParseRetryAfter
  <2>3. w = Min({header.value, MaxWait})
    BY <2>2 DEF RetryWait
  <2>4. w = Min({MaxWait, header.value}) /\ w \in Int /\ w <= MaxWait
    BY <2>1, <2>3, MinOfTwo
  <2> QED
    BY <1>1, <1>4, <2>4 DEF WaitIsRight
<1>2. CASE header.form = "beyond_u64"
  <2>1. w = Min({MaxWait + 1, MaxWait})
    BY <1>2 DEF RetryWait, ParseRetryAfter
  <2>2. w = MaxWait /\ Min({MaxWait, MaxWait}) = MaxWait
    BY <2>1, MinOfTwo
  <2>3. Min({MaxWait, IF wait.said.form = "beyond_u64" THEN MaxWait ELSE wait.said.value}) = MaxWait
    BY <1>2, <1>4, <2>2
  <2>4. wait.slept = MaxWait /\ wait.said.form = "beyond_u64"
    BY <1>2, <1>4, <2>2
  <2>5. WaitIsRight(wait, n + 1)
    BY <2>3, <2>4 DEF WaitIsRight
  <2> QED
    BY <2>2, <2>5 DEF wait
<1>3. CASE header.form \in {"absent", "unreadable"}
  <2>1. w \in BackoffDelay(n)
    BY <1>3 DEF RetryWait, ParseRetryAfter
  <2>2. PICK d \in doubled .. Max({doubled, (3 * doubled - 1) \div 2}) : w = Min({d, MaxWait})
    BY <2>1 DEF BackoffDelay
  <2> HIDE DEF doubled
  <2>3. d \in Int /\ d >= doubled
    BY <1>0, <2>2
  <2>4. Min({MaxWait, doubled}) = IF MaxWait <= doubled THEN MaxWait ELSE doubled
    BY <1>0, MinOfTwo
  <2>5. Min({d, MaxWait}) = IF d <= MaxWait THEN d ELSE MaxWait
    BY <2>3, MinOfTwo
  <2>6. w \in Int /\ w <= MaxWait /\ w >= Min({MaxWait, doubled})
    BY <1>0, <2>2, <2>3, <2>4, <2>5
  <2> QED
    BY <1>3, <1>4, <1>5, <2>6 DEF WaitIsRight
<1> QED
  BY <1>1, <1>2, <1>3 DEF RetryAfters, wait

(* A body that is taken is whole, text and within the limit (read_text).    *)
LEMMA BodyRead ==
  ASSUME FetchTyped, NEW body \in Bodies
  PROVE  LET read == ReadText(body)
         IN  \/ read = FetchRefused("unusable", fetch.asked.host)
             \/ /\ read = [NotFetched EXCEPT !.kind = "document", !.bytes = body.bytes]
                /\ body.bytes \in Nat /\ body.bytes <= MaxBytes /\ body.utf8 /\ body.whole
<1> DEFINE read == Min({body.bytes, MaxBytes + 1})
<1>1. body.bytes \in Nat /\ body.utf8 \in BOOLEAN /\ body.whole \in BOOLEAN
  BY DEF Bodies
<1>2. read = IF body.bytes <= MaxBytes + 1 THEN body.bytes ELSE MaxBytes + 1
  BY <1>1, MinOfTwo
<1>3. ReadText(body) =
        IF (~ body.whole /\ read = body.bytes) \/ read > MaxBytes \/ ~ body.utf8
        THEN FetchRefused("unusable", fetch.asked.host)
        ELSE [NotFetched EXCEPT !.kind = "document", !.bytes = read]
  BY DEF ReadText
<1> HIDE DEF read
<1>4. CASE (~ body.whole /\ read = body.bytes) \/ read > MaxBytes \/ ~ body.utf8
  BY <1>3, <1>4
<1>5. CASE body.utf8 /\ read <= MaxBytes /\ (body.whole \/ read # body.bytes)
  <2>1. read = body.bytes /\ body.whole
    BY <1>1, <1>2, <1>5
  <2> QED
    BY <1>1, <1>3, <1>5, <2>1
<1> QED
  BY <1>1, <1>2, <1>4, <1>5

(* The host of an address that was redirected to (answering_origin).        *)
LEMMA HostThatAnswers ==
  ASSUME NEW url \in DocumentUrls, url.scheme = "http", url.host # NoHost
  PROVE  AnsweringOrigin(url) = url.host
  BY UrlsAssumption DEF AnsweringOrigin, Fetchable

(* The results a fetch starts with and is refused with.                     *)
LEMMA RefusedResult ==
  ASSUME NEW kind \in Errors, NEW origin \in Hosts \cup {NoHost}
  PROVE  /\ FetchRefused(kind, origin) \in FetchResults
         /\ FetchRefused(kind, origin).kind = kind
         /\ FetchRefused(kind, origin).origin = origin
         /\ FetchRefused(kind, origin).bytes = 0
         /\ NotFetched \in FetchResults /\ NotFetched.kind = "none"
  BY DEF FetchRefused, NotFetched, FetchResults, Errors

\* What a fetch has before it has anything.
LEMMA NoResult == NotFetched \in FetchResults /\ NotFetched.kind = "none"
  BY DEF NotFetched, FetchResults, Errors

(* An address that was checked is one of the addresses.                     *)
LEMMA CheckedAddress ==
  ASSUME NEW url \in DocumentUrls \cup {NoUrl}, url.host # NoHost
  PROVE  url \in DocumentUrls /\ url.host \in Hosts
<1>1. NoUrl.host = NoHost
  BY DEF NoUrl
<1> QED
  BY <1>1 DEF Hosts

(* What is known of each field while a fetch goes on.                       *)
LEMMA Fields ==
  ASSUME FetchInv
  PROVE  /\ fetch.asked \in DocumentUrls \cup {NoUrl}
         /\ fetch.attempt \in Nat /\ fetch.attempt <= MaxAttempts /\ fetch.result \in FetchResults
         /\ wire.at \in DocumentUrls \cup {NoUrl} /\ wire.hops \in 0 .. MaxHops
         /\ sends \in Nat /\ served \in Bodies
         /\ Len(waits) = fetch.attempt
         /\ waits \in WaitLists
  BY DEF FetchInv, FetchTyped, Wires

(* A fetch that goes on, with the fields that a step gave it.               *)
LEMMA FetchGoesOn ==
  ASSUME FetchInv, NEW next \in {"send", "flight"},
         NEW asked \in DocumentUrls, NEW attempt \in 0 .. MaxAttempts,
         fetch' = [stage |-> next, asked |-> asked, attempt |-> attempt, result |-> NotFetched],
         Fetchable(asked),
         wire' \in Wires,
         next = "send" => sends' = attempt,
         next = "flight" => sends' = attempt + 1 /\ wire'.at.scheme = "http" /\ wire'.at.host # NoHost,
         waits' \in WaitLists, Len(waits') = attempt,
         Waited', served' = served
  PROVE  FetchInv'
<1>1. /\ fetch'.stage = next /\ fetch'.asked = asked
      /\ fetch'.attempt = attempt /\ fetch'.result = NotFetched
  OBVIOUS
<1>2. sends' \in Nat /\ sends' <= MaxAttempts + 1 /\ served' \in Bodies
  <2>1. served' \in Bodies
    BY Fields
  <2>2. next = "send" => sends' \in Nat /\ sends' <= MaxAttempts + 1
    OBVIOUS
  <2>3. next = "flight" => sends' \in Nat /\ sends' <= MaxAttempts + 1
    OBVIOUS
  <2> QED
    BY <2>1, <2>2, <2>3
<1>3. FetchTyped'
  BY <1>1, <1>2, NoResult DEF FetchTyped
<1>4. (Fetchable(fetch.asked))'
  BY <1>1 DEF Fetchable
<1>5. Asking'
  BY <1>1, <1>2, <1>4 DEF Asking
<1>6. FetchHonest'
  <2>1. \A i \in 1 .. Len(waits') : WaitIsRight(waits'[i], i)
    BY DEF Waited
  <2>2. fetch'.result.kind = "none" /\ fetch'.stage # "done"
    BY <1>1, NoResult
  <2> QED
    BY <2>1, <2>2 DEF FetchHonest, Errors, WaitIsRight
<1> QED
  BY <1>3, <1>5, <1>6 DEF FetchInv

-----------------------------------------------------------------------------
(* The document channel: the steps.                                         *)

(* A fetch ends with a result, and the requests and the waits as they were. *)
LEMMA FetchEnds ==
  ASSUME FetchInv, NEW result \in FetchResults,
         fetch' = [fetch EXCEPT !.stage = "done", !.result = result],
         UNCHANGED <<wire, sends, waits>>, served' \in Bodies,
         fetch.stage = "flight",
         result.kind = "document" =>
           /\ result.origin = wire.at.host
           /\ result.bytes = served'.bytes /\ result.bytes <= MaxBytes
           /\ served'.utf8 /\ served'.whole,
         result.kind # "document" => result.origin = fetch.asked.host,
         result.kind \in {"document", "transport", "status", "rate_limited", "unusable"},
         result.kind = "rate_limited" => fetch.attempt >= MaxAttempts /\ result.retries = fetch.attempt
  PROVE  FetchInv'
<1>1. /\ fetch' \in [stage : {"done"}, asked : DocumentUrls \cup {NoUrl},
                     attempt : 0 .. MaxAttempts, result : FetchResults]
      /\ fetch'.stage = "done" /\ fetch'.asked = fetch.asked
      /\ fetch'.attempt = fetch.attempt /\ fetch'.result = result
  BY DEF FetchInv, FetchTyped
<1>2. FetchTyped'
  BY <1>1 DEF FetchInv, FetchTyped
<1>3. Asking' /\ Waited'
  BY <1>1 DEF FetchInv, FetchTyped, Asking, Waited
<1>4. sends = fetch.attempt + 1 /\ Fetchable(fetch.asked)
  BY DEF FetchInv, Asking
<1>5. (Fetchable(fetch.asked))'
  BY <1>1, <1>4 DEF Fetchable
<1>6. FetchHonest'
  <2>1. /\ result.kind = "rate_limited" =>
             sends' = MaxAttempts + 1 /\ result.retries = Len(waits')
        /\ sends' # 0 /\ result.kind # "invalid_url"
    BY <1>4 DEF FetchInv, FetchTyped
  <2>2. \A i \in 1 .. Len(waits') : WaitIsRight(waits'[i], i)
    BY <1>3 DEF Waited
  <2> QED
    BY <1>1, <1>5, <2>1, <2>2 DEF FetchHonest, Errors, WaitIsRight
<1> QED
  BY <1>2, <1>3, <1>6 DEF FetchInv

(* An address is taken, or refused before anything is sent.                 *)
LEMMA FetchStarts ==
  ASSUME FetchInv, NEW url \in DocumentUrls, GetText(url)
  PROVE  FetchInv'
<1>1. /\ fetch.stage = "idle" /\ fetch.result = NotFetched /\ sends = 0 /\ fetch.attempt = 0
      /\ UNCHANGED <<wire, sends, waits, served>>
  BY DEF GetText, FetchInv, Asking
<1>2. /\ fetch \in [stage : {"idle", "send", "flight", "done"}, asked : DocumentUrls \cup {NoUrl},
                     attempt : 0 .. MaxAttempts, result : FetchResults]
      /\ wire \in Wires
  BY <1>1 DEF FetchInv, FetchTyped
<1>3. waits = <<>> /\ Len(waits) = 0
  BY <1>1, Fields
<1>4. Waited'
  BY <1>1, <1>3 DEF Waited
<1>5. CASE Fetchable(url)
  <2>1. fetch' = [fetch EXCEPT !.stage = "send", !.asked = url]
    BY <1>5 DEF GetText
  <2>2. fetch' = [stage |-> "send", asked |-> url, attempt |-> 0, result |-> NotFetched]
    BY <1>1, <1>2, <2>1
  <2>3. /\ wire' \in Wires
        /\ waits' \in WaitLists /\ Len(waits') = 0
        /\ served' = served /\ sends' = 0
    BY <1>1, <1>2, <1>3, Fields
  <2>4. 0 \in 0 .. MaxAttempts
    OBVIOUS
  <2> QED
    BY <1>4, <1>5, <2>2, <2>3, <2>4, FetchGoesOn
<1>6. CASE ~ Fetchable(url)
  <2> DEFINE result == FetchRefused("invalid_url", NoHost)
  <2>1. fetch' = [stage |-> "done", asked |-> url, attempt |-> 0, result |-> result]
    <3>1. fetch' = [fetch EXCEPT !.stage = "done", !.asked = url, !.result = result]
      BY <1>6 DEF GetText
    <3> HIDE DEF result
    <3> QED
      BY <1>1, <1>2, <3>1
  <2>2. result \in FetchResults /\ result.kind = "invalid_url" /\ result.origin = NoHost
    BY RefusedResult DEF Errors
  <2> HIDE DEF result
  <2>3. /\ fetch'.stage = "done" /\ fetch'.asked = url
        /\ fetch'.attempt = 0 /\ fetch'.result = result
    BY <2>1
  <2>4. FetchTyped'
    <3>1. 0 \in 0 .. MaxAttempts
      OBVIOUS
    <3>2. fetch' \in [stage : {"idle", "send", "flight", "done"}, asked : DocumentUrls \cup {NoUrl},
                     attempt : 0 .. MaxAttempts, result : FetchResults]
      BY <2>1, <2>2, <3>1
    <3> QED
      BY <1>1, <1>2, <1>3, <2>3, <3>2, Fields DEF FetchTyped
  <2>5. ~ (Fetchable(fetch.asked))'
    BY <1>6, <2>3 DEF Fetchable
  <2>6. Asking'
    BY <1>1, <2>3 DEF Asking
  <2>7. FetchHonest'
    <3>1. fetch'.result.kind = "invalid_url" /\ fetch'.result.origin = NoHost
      BY <2>2, <2>3
    <3> QED
      BY <1>1, <1>3, <2>3, <2>5, <3>1 DEF FetchHonest
  <2> QED
    BY <1>4, <2>4, <2>6, <2>7 DEF FetchInv
<1> QED
  BY <1>5, <1>6

(* A request goes to the address that was asked for.                        *)
LEMMA GetIsSent ==
  ASSUME FetchInv, SendGet
  PROVE  FetchInv'
<1>1. /\ fetch.stage = "send" /\ sends = fetch.attempt /\ Fetchable(fetch.asked)
      /\ fetch.result = NotFetched
      /\ UNCHANGED <<waits, served>> /\ sends' = sends + 1
      /\ wire' = [at |-> fetch.asked, hops |-> 0]
  BY DEF SendGet, FetchInv, Asking
<1>2. fetch' = [stage |-> "flight", asked |-> fetch.asked, attempt |-> fetch.attempt,
                result |-> NotFetched]
  BY <1>1 DEF SendGet, FetchInv, FetchTyped
<1>3. fetch.asked \in DocumentUrls /\ fetch.asked.scheme = "http" /\ fetch.asked.host # NoHost
  BY <1>1, Fields, CheckedAddress DEF Fetchable
<1>4. /\ wire' \in Wires
      /\ wire'.at = fetch.asked
  <2>1. 0 \in 0 .. MaxHops
    OBVIOUS
  <2> QED
    BY <1>1, <1>3, <2>1 DEF Wires
<1>5. Waited'
  BY <1>1 DEF FetchInv, Waited
<1>6. /\ waits' \in WaitLists /\ Len(waits') = fetch.attempt
      /\ fetch.attempt \in 0 .. MaxAttempts /\ served' = served
  BY <1>1, Fields
<1>7. sends' = fetch.attempt + 1
  BY <1>1
<1> QED
  BY <1>1, <1>2, <1>3, <1>4, <1>5, <1>6, <1>7, FetchGoesOn

(* A redirect changes where the request is, and nothing of the fetch.       *)
LEMMA RedirectIsFollowed ==
  ASSUME FetchInv, NEW url \in DocumentUrls, Redirected(url)
  PROVE  FetchInv'
<1>1. /\ fetch.stage = "flight" /\ fetch.result = NotFetched /\ Fetchable(fetch.asked)
      /\ sends = fetch.attempt + 1 /\ UNCHANGED <<fetch, sends, waits, served>>
      /\ wire' = [at |-> url, hops |-> wire.hops + 1] /\ wire.hops < MaxHops
      /\ url.scheme = "http" /\ url.host # NoHost
  BY DEF Redirected, FetchInv, Asking
<1>2. fetch' = [stage |-> "flight", asked |-> fetch.asked, attempt |-> fetch.attempt,
                result |-> NotFetched]
  BY <1>1 DEF FetchInv, FetchTyped
<1>3. fetch.asked \in DocumentUrls
  BY <1>1, Fields, CheckedAddress DEF Fetchable
<1>4. wire' \in Wires /\ wire'.at = url
  <2>1. wire.hops + 1 \in 0 .. MaxHops
    BY <1>1, Fields
  <2> QED
    BY <1>1, <2>1 DEF Wires
<1>5. Waited'
  BY <1>1 DEF FetchInv, Waited
<1>6. /\ waits' \in WaitLists /\ Len(waits') = fetch.attempt
      /\ fetch.attempt \in 0 .. MaxAttempts /\ served' = served
  BY <1>1, Fields
<1>7. sends' = fetch.attempt + 1
  BY <1>1
<1> QED
  BY <1>1, <1>2, <1>3, <1>4, <1>5, <1>6, <1>7, FetchGoesOn

(* A limit on the rate is waited for, or the end of the retries.            *)
LEMMA LimitIsWaitedFor ==
  ASSUME FetchInv, NEW header \in RetryAfters, RateLimit(header)
  PROVE  FetchInv'
<1> DEFINE n == fetch.attempt
<1>1. /\ fetch.stage = "flight" /\ fetch.result = NotFetched /\ Fetchable(fetch.asked)
      /\ sends = n + 1 /\ UNCHANGED <<wire, sends, served>>
  BY DEF RateLimit, FetchInv, Asking
<1>2. fetch.asked \in DocumentUrls /\ fetch.asked.host \in Hosts
  BY <1>1, Fields, CheckedAddress DEF Fetchable
<1>3. CASE n >= MaxAttempts
  <2> DEFINE refused == FetchRefused("rate_limited", fetch.asked.host)
             result == [refused EXCEPT !.retries = n]
  <2>1. fetch' = [fetch EXCEPT !.stage = "done", !.result = result] /\ UNCHANGED waits
    BY <1>3 DEF RateLimit, WaitForRetry, Done
  <2>2. /\ refused \in FetchResults /\ refused.kind = "rate_limited"
        /\ refused.origin = fetch.asked.host
    BY <1>2, RefusedResult DEF Errors
  <2> HIDE DEF refused
  <2>3. /\ result \in FetchResults /\ result.kind = "rate_limited"
        /\ result.origin = fetch.asked.host /\ result.retries = n
    BY <2>2, Fields DEF FetchResults
  <2> HIDE DEF result
  <2> QED
    BY <1>1, <1>3, <2>1, <2>3, Fields, FetchEnds
<1>4. CASE ~ n >= MaxAttempts
  <2>1. PICK w \in RetryWait(header, n) :
          /\ fetch' = [fetch EXCEPT !.stage = "send", !.attempt = n + 1]
          /\ waits' = Append(waits, [said |-> header, slept |-> w])
    BY <1>4 DEF RateLimit, WaitForRetry
  <2> DEFINE wait == [said |-> header, slept |-> w]
  <2>2. n \in Nat /\ n + 1 \in 0 .. MaxAttempts
    BY <1>4, Fields
  <2>3. w \in Int /\ WaitIsRight(wait, n + 1)
    BY <2>2, RetryWaits
  <2>4. wait \in OneWait
    BY <2>3 DEF OneWait
  <2>5. fetch' = [stage |-> "send", asked |-> fetch.asked, attempt |-> n + 1, result |-> NotFetched]
    BY <1>1, <2>1 DEF FetchInv, FetchTyped
  <2> HIDE DEF wait
  <2>6. /\ waits' \in WaitLists /\ Len(waits') = n + 1
        /\ waits'[n + 1] = wait /\ \A i \in 1 .. n : waits'[i] = waits[i]
    BY <2>1, <2>4, Fields DEF wait, WaitLists
  <2>7. Waited'
    <3>1. \A i \in 1 .. n : WaitIsRight(waits[i], i)
      BY Fields DEF FetchInv, Waited
    <3>2. ASSUME NEW i \in 1 .. n + 1
          PROVE  WaitIsRight(waits'[i], i)
      <4>1. CASE i = n + 1
        BY <2>3, <2>6, <4>1
      <4>2. CASE i \in 1 .. n
        <5>1. waits'[i] = waits[i]
          BY <2>6, <4>2
        <5> QED
          BY <3>1, <4>2, <5>1
      <4> QED
        BY <2>2, <4>1, <4>2
    <3> QED
      BY <2>6, <3>2 DEF Waited
  <2>8. wire' \in Wires
    BY <1>1 DEF FetchInv, FetchTyped
  <2> HIDE DEF n
  <2> QED
    BY <1>1, <1>2, <2>2, <2>5, <2>6, <2>7, <2>8, FetchGoesOn
<1> QED
  BY <1>3, <1>4

(* No answer, another status, and a body, each end the fetch.               *)
LEMMA FetchIsAnswered ==
  ASSUME FetchInv,
         \/ NoAnswer
         \/ \E status \in Statuses \ {200, 429} : OtherStatus(status)
         \/ \E body \in Bodies : ServeDocument(body)
  PROVE  FetchInv'
<1>1. /\ fetch.stage = "flight" /\ Fetchable(fetch.asked) /\ fetch.asked \in DocumentUrls
      /\ wire.at \in DocumentUrls /\ wire.at.scheme = "http" /\ wire.at.host # NoHost
      /\ UNCHANGED <<wire, sends, waits>>
  <2>1. fetch.stage = "flight" /\ UNCHANGED <<wire, sends, waits>>
    BY DEF NoAnswer, OtherStatus, ServeDocument
  <2>2. Fetchable(fetch.asked) /\ wire.at.scheme = "http" /\ wire.at.host # NoHost
    BY <2>1 DEF FetchInv, Asking
  <2> QED
    BY <2>1, <2>2, Fields, CheckedAddress DEF Fetchable
<1>2. ASSUME NEW kind \in {"transport", "status", "unusable"}
      PROVE  LET result == FetchRefused(kind, fetch.asked.host)
             IN  result \in FetchResults /\ result.kind = kind /\ result.origin = fetch.asked.host
  <2>1. kind \in Errors /\ fetch.asked.host \in Hosts \cup {NoHost}
    BY <1>1 DEF Errors, Hosts
  <2> QED
    BY <2>1, RefusedResult
<1>3. ASSUME NEW kind \in {"transport", "status", "unusable"},
             fetch' = [fetch EXCEPT !.stage = "done", !.result = FetchRefused(kind, fetch.asked.host)],
             served' \in Bodies
      PROVE  FetchInv'
  <2> DEFINE result == FetchRefused(kind, fetch.asked.host)
  <2>1. result \in FetchResults /\ result.kind = kind /\ result.origin = fetch.asked.host
    BY <1>2
  <2>2. fetch' = [fetch EXCEPT !.stage = "done", !.result = result]
    BY <1>3
  <2> HIDE DEF result
  <2> QED
    BY <1>1, <1>3, <2>1, <2>2, FetchEnds
<1>4. served \in Bodies
  BY DEF FetchInv, FetchTyped
<1>5. CASE NoAnswer
  BY <1>3, <1>4, <1>5 DEF NoAnswer, Done
<1>6. CASE \E status \in Statuses \ {200, 429} : OtherStatus(status)
  BY <1>3, <1>4, <1>6 DEF OtherStatus, Done
<1>7. ASSUME NEW body \in Bodies, ServeDocument(body)
      PROVE  FetchInv'
  <2>1. served' = body
    BY <1>7 DEF ServeDocument
  <2>2. CASE ReadText(body) = FetchRefused("unusable", fetch.asked.host)
    <3>1. ReadText(body).kind # "document"
      BY <1>2, <2>2
    <3> QED
      BY <1>3, <1>7, <2>1, <2>2, <3>1 DEF ServeDocument, Done
  <2>3. CASE /\ ReadText(body) = [NotFetched EXCEPT !.kind = "document", !.bytes = body.bytes]
             /\ body.bytes \in Nat /\ body.bytes <= MaxBytes /\ body.utf8 /\ body.whole
    <3> DEFINE result == [ReadText(body) EXCEPT !.origin = AnsweringOrigin(wire.at)]
    <3>1. ReadText(body).kind = "document"
      BY <2>3 DEF NotFetched
    <3>2. fetch' = [fetch EXCEPT !.stage = "done", !.result = result]
      BY <1>7, <3>1 DEF ServeDocument, Done
    <3>3. AnsweringOrigin(wire.at) = wire.at.host
      BY <1>1, HostThatAnswers
    <3>4. /\ result \in FetchResults /\ result.kind = "document"
          /\ result.origin = wire.at.host /\ result.bytes = body.bytes
      BY <1>1, <2>3, <3>3, NoResult, CheckedAddress DEF NotFetched, FetchResults
    <3> HIDE DEF result
    <3> QED
      BY <1>1, <2>1, <2>3, <3>2, <3>4, FetchEnds
  <2>4. FetchTyped
    BY DEF FetchInv
  <2> QED
    BY <2>2, <2>3, <2>4, BodyRead
<1> QED
  BY <1>5, <1>6, <1>7

-----------------------------------------------------------------------------
(* The document channel: the theorems.                                      *)

(* Whatever the servers answer, the fetch keeps to its policy.              *)
THEOREM FetchInvariance == DocumentFetchSpec => []FetchInv
<1>1. FetchInit => FetchInv
  <2> SUFFICES ASSUME FetchInit PROVE FetchInv
    OBVIOUS
  <2>1. /\ fetch = [stage |-> "idle", asked |-> NoUrl, attempt |-> 0, result |-> NotFetched]
        /\ wire = [at |-> NoUrl, hops |-> 0] /\ sends = 0 /\ waits = <<>> /\ served = NoBody
    BY DEF FetchInit
  <2>2. /\ fetch.stage = "idle" /\ fetch.attempt = 0 /\ fetch.result = NotFetched
        /\ 0 \in 0 .. MaxAttempts /\ 0 \in 0 .. MaxHops /\ Len(waits) = 0
    BY <2>1
  <2>3. NoBody \in Bodies
    BY DEF NoBody, Bodies
  <2>4. FetchTyped
    BY <2>1, <2>2, <2>3, NoResult DEF FetchTyped, Wires, WaitLists
  <2>5. Asking /\ Waited
    BY <2>1, <2>2 DEF Asking, Waited
  <2>6. FetchHonest
    BY <2>1, <2>2, NoResult DEF FetchHonest, Errors
  <2> QED
    BY <2>4, <2>5, <2>6 DEF FetchInv
<1>2. FetchInv /\ [FetchNext]_fetchVars => FetchInv'
  <2> SUFFICES ASSUME FetchInv, [FetchNext]_fetchVars
               PROVE  FetchInv'
    OBVIOUS
  <2>1. CASE UNCHANGED fetchVars
    BY <2>1 DEF fetchVars, FetchInv, FetchTyped, Asking, Waited, FetchHonest, Fetchable
  <2> QED
    BY <2>1, GetIsSent, FetchStarts, RedirectIsFollowed, LimitIsWaitedFor, FetchIsAnswered
       DEF FetchNext
<1> QED
  BY <1>1, <1>2, PTL DEF DocumentFetchSpec

(* The stages, the addresses and the counts of a fetch stay in their ranges.*)
THEOREM FetchTypes == DocumentFetchSpec => []FetchTypeOK
<1>1. FetchInv => FetchTypeOK
  <2> SUFFICES ASSUME FetchInv PROVE FetchTypeOK
    OBVIOUS
  <2>1. fetch.stage \in {"idle", "send", "flight", "done"} /\ fetch.attempt \in 0 .. MaxAttempts
    BY DEF FetchInv, FetchTyped
  <2>2. fetch.result.kind \in Errors \cup {"none", "document"} /\ fetch.result.origin \in Hosts \cup {NoHost}
    BY Fields DEF FetchResults
  <2>3. sends \in 0 .. MaxAttempts + 1
    BY Fields DEF FetchInv, Asking
  <2> QED
    BY <2>1, <2>2, <2>3, Fields DEF FetchTypeOK
<1> QED
  BY <1>1, FetchInvariance, PTL

(* What the caller of the document channel is told is true: a document is   *)
(* whole, within the limit and of the host that served it, every error names*)
(* the host that was asked, and the retries and waits are those of the      *)
(* policy (fetch_document, retry_wait).                                     *)
THEOREM FetchKeepsItsWord == DocumentFetchSpec => []FetchHonest
<1>1. FetchInv => FetchHonest
  BY DEF FetchInv
<1> QED
  BY <1>1, FetchInvariance, PTL

-----------------------------------------------------------------------------
(* The callback server, whoever connects to it in whatever order, for any   *)
(* number of connections and of threads.                                    *)
HIDE ThrottleAssumption
USE LoopbackAssumption

-----------------------------------------------------------------------------
(* The invariant.                                                           *)

PeerStages == {"none", "backlog", "closed"} \cup ServedStages
VerdictsGiven == {"none", "signed_in", "refused", "400", "404"}
Peers == [request : Requests \cup {"none"}, stage : PeerStages, answer : VerdictsGiven]

(* What each variable holds, the shape of the records included.             *)
LoopbackTyped ==
  /\ peer \in [Connections -> Peers]
  /\ backlog \in Seq(Connections)
  /\ live \in 0 .. MaxLive
  /\ waiting \in [stage : {"off", "loop", "accept", "inline", "drain", "ended"},
                  result : Outcomes \cup {"none", "timeout"}]
  /\ expired \in BOOLEAN
  /\ outcomes \in Seq(Outcomes)

(* A connection waits in the backlog once, until it is served.              *)
Queued ==
  /\ \A i \in 1 .. Len(backlog) : peer[backlog[i]].stage = "backlog"
  /\ \A i, j \in 1 .. Len(backlog) : backlog[i] = backlog[j] => i = j

(* A connection that is served has sent a request, and it is answered with  *)
(* the verdict on that.                                                     *)
AnsweredStages == {"thread_answered", "thread_reported", "inline_answered", "closed"}

VerdictGiven ==
  \A c \in Connections :
    /\ peer[c].stage = "none" <=> peer[c].request = "none"
    /\ peer[c].stage \in AnsweredStages => peer[c].answer = Verdict(peer[c].request).answer

(* The loop that serves a connection itself serves that one and no other.   *)
Inline == {"inline", "inline_answered"}

InlineOne ==
  \A c \in Connections : peer[c].stage \in Inline =>
    /\ waiting.stage = "inline"
    /\ \A d \in Connections : peer[d].stage \in Inline => c = d

(* A code that was reported came with a redirect of ours, and there is a    *)
(* result only when the wait has ended.                                     *)
OurCode == \E c \in Connections : peer[c].request = "code" /\ peer[c].answer = "signed_in"

HandedOver ==
  /\ \A i \in 1 .. Len(outcomes) : outcomes[i] = "code" => OurCode
  /\ waiting.result = "code" => OurCode
  /\ waiting.result # "none" => waiting.stage = "ended"
  /\ waiting.result = "timeout" => outcomes = <<>>

(* The connections a thread has.                                            *)
OnThread ==
  {c \in Connections : peer[c].stage \in {"thread", "thread_answered", "thread_reported"}}

ThreadsCounted == live = Cardinality(OnThread)

LoopbackInv == LoopbackTyped /\ Queued /\ VerdictGiven /\ InlineOne /\ HandedOver /\ ThreadsCounted

-----------------------------------------------------------------------------
(* The parts of a step.                                                     *)

(* One connection moves.                                                    *)
LEMMA OneMoves ==
  ASSUME LoopbackTyped, NEW c \in Connections, NEW r \in Peers, peer' = [peer EXCEPT ![c] = r]
  PROVE  /\ peer' \in [Connections -> Peers]
         /\ peer'[c] = r
         /\ \A d \in Connections \ {c} : peer'[d] = peer[d]
  BY DEF LoopbackTyped

(* There are finitely many threads, so the count is a number; it does not   *)
(* change when no connection gets a thread or loses it.                     *)
LEMMA ThreadsFinite == IsFiniteSet(OnThread) /\ Cardinality(OnThread) \in Nat
<1>1. OnThread \in SUBSET Connections
  BY DEF OnThread
<1>2. IsFiniteSet(OnThread)
  BY <1>1, FS_Subset
<1> QED
  BY <1>2, FS_CardinalityType

(* A connection that stays with its thread, or without one, changes no count.*)
LEMMA SameThreads ==
  ASSUME ThreadsCounted, live' = live, NEW c \in Connections,
         \A d \in Connections \ {c} : peer'[d] = peer[d],
         peer'[c].stage \in {"thread", "thread_answered", "thread_reported"} <=>
           peer[c].stage \in {"thread", "thread_answered", "thread_reported"}
  PROVE  ThreadsCounted'
<1>1. OnThread' = OnThread
  BY DEF OnThread
<1> QED
  BY <1>1 DEF ThreadsCounted

(* What a request is answered, and what it reports: at most one outcome.    *)
LEMMA VerdictTypes ==
  ASSUME NEW request
  PROVE  /\ Verdict(request).answer \in VerdictsGiven \ {"none"}
         /\ Verdict(request).outcome \in Seq(Outcomes)
         /\ Len(Verdict(request).outcome) \in {0, 1}
         /\ \A i \in 1 .. Len(Verdict(request).outcome) :
              Verdict(request).outcome[i] = "code" =>
                request = "code" /\ Verdict(request).answer = "signed_in"
<1>1. /\ Verdict(request).outcome = <<>>
         \/ \E o \in Outcomes : Verdict(request).outcome = <<o>> /\
              (o = "code" => request = "code" /\ Verdict(request).answer = "signed_in")
      /\ Verdict(request).answer \in VerdictsGiven \ {"none"}
  <2>1. request = "code" =>
          Verdict(request) = [answer |-> "signed_in", outcome |-> <<"code">>]
    BY DEF Verdict
  <2>2. request = "denied" =>
          Verdict(request) = [answer |-> "refused", outcome |-> <<"denied">>]
    BY DEF Verdict
  <2>3. request = "neither" =>
          Verdict(request) = [answer |-> "400", outcome |-> <<"unusable">>]
    BY DEF Verdict
  <2>4. request = "foreign" =>
          Verdict(request) = [answer |-> "400", outcome |-> <<"mismatch">>]
    BY DEF Verdict
  <2>5. request = "stray" => Verdict(request) = [answer |-> "404", outcome |-> <<>>]
    BY DEF Verdict
  <2>6. request \notin {"code", "denied", "neither", "foreign", "stray"} =>
          Verdict(request) = [answer |-> "400", outcome |-> <<>>]
    BY DEF Verdict
  <2> QED
    BY <2>1, <2>2, <2>3, <2>4, <2>5, <2>6 DEF VerdictsGiven, Outcomes
<1>2. \A o : Len(<<o>>) = 1 /\ <<o>>[1] = o
  OBVIOUS
<1>3. \A o \in Outcomes : <<o>> \in Seq(Outcomes)
  OBVIOUS
<1>4. CASE Verdict(request).outcome = <<>>
  BY <1>1, <1>4, EmptySeq
<1>5. CASE \E o \in Outcomes : Verdict(request).outcome = <<o>> /\
              (o = "code" => request = "code" /\ Verdict(request).answer = "signed_in")
  BY <1>1, <1>2, <1>3, <1>5
<1> QED
  BY <1>1, <1>4, <1>5

-----------------------------------------------------------------------------
(* The steps.                                                               *)

(* Nothing has connected yet.                                               *)
LEMMA InitHolds == LoopbackInit => LoopbackInv
<1> SUFFICES ASSUME LoopbackInit PROVE LoopbackInv
  OBVIOUS
<1>1. LoopbackTyped
  <2>1. [request |-> "none", stage |-> "none", answer |-> "none"] \in Peers
    BY DEF Peers, PeerStages, VerdictsGiven
  <2>2. peer \in [Connections -> Peers]
    BY <2>1 DEF LoopbackInit
  <2>3. 0 \in 0 .. MaxLive
    OBVIOUS
  <2>5. expired \in BOOLEAN
    BY DEF LoopbackInit
  <2>4. backlog \in Seq(Connections) /\ outcomes \in Seq(Outcomes)
    BY EmptySeq DEF LoopbackInit
  <2> QED
    BY <2>2, <2>3, <2>4, <2>5 DEF LoopbackInit, LoopbackTyped
<1>2. OnThread = {}
  BY DEF LoopbackInit, OnThread
<1>3. ThreadsCounted
  BY <1>2, FS_EmptySet DEF LoopbackInit, ThreadsCounted
<1>4. Queued /\ VerdictGiven /\ InlineOne /\ HandedOver
  BY DEF LoopbackInit, Queued, VerdictGiven, AnsweredStages, InlineOne, Inline, HandedOver
<1> QED
  BY <1>1, <1>3, <1>4 DEF LoopbackInv

(* A step of the waiting loop, which touches no connection.                 *)
LEMMA WaitingMoves ==
  ASSUME LoopbackInv, UNCHANGED <<peer, backlog, live>>, LoopbackTyped',
         waiting.stage # "inline",
         \A i \in 1 .. Len(outcomes') : outcomes'[i] = "code" => OurCode,
         waiting'.result = "code" => OurCode,
         waiting'.result # "none" => waiting'.stage = "ended",
         waiting'.result = "timeout" => outcomes' = <<>>
  PROVE  LoopbackInv'
<1>1. Queued' /\ VerdictGiven' /\ HandedOver'
  BY DEF LoopbackInv, Queued, VerdictGiven, HandedOver, OurCode
<1>2. InlineOne'
  BY DEF LoopbackInv, InlineOne
<1>3. ThreadsCounted'
  BY DEF LoopbackInv, ThreadsCounted, OnThread
<1> QED
  BY <1>1, <1>2, <1>3 DEF LoopbackInv

(* Listening begins with no connection and no outcome.                      *)
LEMMA ListenStep == ASSUME LoopbackInv, Listen PROVE LoopbackInv'
<1>1. waiting' = [stage |-> "loop", result |-> waiting.result] /\ waiting.result = "none"
  BY DEF Listen, LoopbackInv, LoopbackTyped, HandedOver
<1>2. LoopbackTyped'
  BY <1>1 DEF Listen, LoopbackInv, LoopbackTyped
<1> QED
  BY <1>1, <1>2, WaitingMoves DEF Listen, LoopbackInv, HandedOver

(* The deadline changes no connection.                                      *)
LEMMA ExpireStep == ASSUME LoopbackInv, Expire PROVE LoopbackInv'
<1>1. LoopbackTyped'
  BY DEF Expire, LoopbackInv, LoopbackTyped
<1>2. Queued' /\ VerdictGiven' /\ HandedOver' /\ InlineOne'
  BY DEF Expire, LoopbackInv, Queued, VerdictGiven, HandedOver, OurCode, InlineOne
<1>3. ThreadsCounted'
  BY DEF Expire, LoopbackInv, ThreadsCounted, OnThread
<1> QED
  BY <1>1, <1>2, <1>3 DEF LoopbackInv

(* What is taken from the outcomes has been reported.                       *)
LEMMA TakeOutcome ==
  ASSUME LoopbackInv, waiting.stage \in {"loop", "drain"}, outcomes # <<>>,
         Ended(Head(outcomes)), outcomes' = Tail(outcomes),
         UNCHANGED <<peer, backlog, live, expired>>
  PROVE  LoopbackInv'
<1>1. outcomes \in Seq(Outcomes)
  BY DEF LoopbackInv, LoopbackTyped
<1>2. /\ Head(outcomes) \in Outcomes /\ Head(outcomes) = outcomes[1]
      /\ Tail(outcomes) \in Seq(Outcomes)
      /\ Len(outcomes) \in Nat \ {0} /\ Len(Tail(outcomes)) = Len(outcomes) - 1
      /\ \A i \in 1 .. Len(Tail(outcomes)) : Tail(outcomes)[i] = outcomes[i + 1]
  BY <1>1, HeadTailProperties, EmptySeq
<1>3. waiting' = [stage |-> "ended", result |-> Head(outcomes)]
  BY DEF Ended
<1>4. LoopbackTyped'
  BY <1>2, <1>3 DEF LoopbackInv, LoopbackTyped
<1>5. Head(outcomes) = "code" => OurCode
  BY <1>2 DEF LoopbackInv, HandedOver
<1>6. \A i \in 1 .. Len(outcomes') : outcomes'[i] = "code" => OurCode
  BY <1>2 DEF LoopbackInv, HandedOver
<1>7. Head(outcomes) # "timeout"
  BY <1>2 DEF Outcomes
<1> QED
  BY <1>3, <1>4, <1>5, <1>6, <1>7, WaitingMoves

(* The accept loop ends with an outcome or at the deadline, or accepts.     *)
LEMMA LoopStep == ASSUME LoopbackInv, Loop PROVE LoopbackInv'
<1>1. CASE ~ expired /\ outcomes # <<>>
  BY <1>1, TakeOutcome DEF Loop
<1>2. CASE expired \/ outcomes = <<>>
  <2>1. waiting.result = "none" /\ waiting'.result = waiting.result
    BY <1>2 DEF Loop, LoopbackInv, HandedOver, LoopbackTyped
  <2>2. LoopbackTyped'
    BY <1>2 DEF Loop, LoopbackInv, LoopbackTyped
  <2> QED
    BY <1>2, <2>1, <2>2, WaitingMoves DEF Loop, LoopbackInv, HandedOver
<1> QED
  BY <1>1, <1>2

(* The last look at the queue, after the deadline.                          *)
LEMMA DrainStep == ASSUME LoopbackInv, Drain PROVE LoopbackInv'
<1>1. CASE outcomes # <<>>
  BY <1>1, TakeOutcome DEF Drain
<1>2. CASE outcomes = <<>>
  <2>1. waiting' = [stage |-> "ended", result |-> "timeout"] /\ outcomes' = <<>>
    BY <1>2 DEF Drain, Ended
  <2>2. LoopbackTyped'
    BY <1>2, <2>1 DEF Drain, LoopbackInv, LoopbackTyped
  <2>3. Len(outcomes') = 0
    BY <2>1
  <2> QED
    BY <1>2, <2>1, <2>2, <2>3, WaitingMoves DEF Drain
<1> QED
  BY <1>1, <1>2

(* A connection moves and the count with it; nothing is reported.           *)
LEMMA PeerMoves ==
  ASSUME LoopbackInv, NEW c \in Connections, NEW r \in Peers,
         peer' = [peer EXCEPT ![c] = r],
         UNCHANGED <<expired, outcomes>>, live' \in 0 .. MaxLive,
         waiting' \in [stage : {"off", "loop", "accept", "inline", "drain", "ended"},
                       result : Outcomes \cup {"none", "timeout"}],
         waiting'.result = waiting.result,
         waiting'.stage = "ended" <=> waiting.stage = "ended",
         backlog' \in Seq(Connections), Queued', ThreadsCounted', InlineOne',
         r.stage = "none" <=> r.request = "none",
         r.stage \in AnsweredStages => r.answer = Verdict(r.request).answer,
         peer[c].request = "code" => r.request = "code",
         peer[c].request = "code" /\ peer[c].answer = "signed_in" => r.answer = "signed_in"
  PROVE  LoopbackInv'
<1>1. LoopbackTyped
  BY DEF LoopbackInv
<1>2. /\ peer' \in [Connections -> Peers] /\ peer'[c] = r
      /\ \A d \in Connections \ {c} : peer'[d] = peer[d]
  BY <1>1, OneMoves
<1>3. LoopbackTyped'
  BY <1>1, <1>2 DEF LoopbackTyped
<1>4. VerdictGiven'
  BY <1>2 DEF LoopbackInv, VerdictGiven
<1>5. OurCode => OurCode'
  BY <1>2 DEF OurCode
<1>6. HandedOver'
  BY <1>1, <1>5 DEF LoopbackInv, HandedOver
<1> QED
  BY <1>3, <1>4, <1>6 DEF LoopbackInv

(* A connection arrives with a request of its own.                          *)
LEMMA ConnectStep ==
  ASSUME LoopbackInv, NEW c \in Connections, NEW request \in Requests, Connect(c, request)
  PROVE  LoopbackInv'
<1> DEFINE r == [peer[c] EXCEPT !.request = request, !.stage = "backlog"]
<1>1. LoopbackTyped /\ peer[c] \in Peers /\ peer[c].stage = "none"
  BY DEF Connect, LoopbackInv, LoopbackTyped
<1>2. /\ r \in Peers /\ r.stage = "backlog" /\ r.request = request
      /\ r.answer = peer[c].answer /\ request # "none"
  BY <1>1 DEF Peers, PeerStages, Requests
<1>3. peer' = [peer EXCEPT ![c] = r]
  BY DEF Connect
<1> HIDE DEF r
<1>4. peer'[c] = r /\ \A d \in Connections \ {c} : peer'[d] = peer[d]
  BY <1>1, <1>2, <1>3, OneMoves
<1>5. backlog \in Seq(Connections) /\ backlog' = Append(backlog, c) /\ UNCHANGED <<live, waiting, expired, outcomes>>
  BY DEF Connect, LoopbackInv, LoopbackTyped
<1>6. /\ backlog' \in Seq(Connections) /\ Len(backlog') = Len(backlog) + 1
      /\ Len(backlog) \in Nat
      /\ \A i \in 1 .. Len(backlog) : backlog'[i] = backlog[i] /\ backlog[i] \in Connections
      /\ backlog'[Len(backlog) + 1] = c
  BY <1>5
<1>7. \A i \in 1 .. Len(backlog) : backlog[i] # c
  BY <1>1 DEF LoopbackInv, Queued
<1>8. Queued'
  <2>1. ASSUME NEW i \in 1 .. Len(backlog') PROVE peer'[backlog'[i]].stage = "backlog"
    BY <1>2, <1>4, <1>6, <1>7 DEF LoopbackInv, Queued
  <2>2. ASSUME NEW i \in 1 .. Len(backlog'), NEW j \in 1 .. Len(backlog'),
               backlog'[i] = backlog'[j]
        PROVE  i = j
    BY <1>6, <1>7, <2>2 DEF LoopbackInv, Queued
  <2> QED
    BY <2>1, <2>2 DEF Queued
<1>9. ThreadsCounted'
  BY <1>1, <1>2, <1>4, <1>5, SameThreads DEF LoopbackInv
<1>10. InlineOne'
  BY <1>2, <1>4, <1>5 DEF LoopbackInv, InlineOne, Inline
<1>11. peer[c].request = "none" /\ r.stage \notin AnsweredStages
  BY <1>1, <1>2 DEF LoopbackInv, VerdictGiven, AnsweredStages
<1> QED
  BY <1>1, <1>2, <1>3, <1>5, <1>6, <1>8, <1>9, <1>10, <1>11, PeerMoves DEF LoopbackInv, LoopbackTyped

(* The head of the backlog is on no thread, and it is there once.           *)
LEMMA HeadServed ==
  ASSUME LoopbackInv, backlog # <<>>, backlog' = Tail(backlog),
         NEW r \in Peers, r.stage # "backlog", peer' = [peer EXCEPT ![Head(backlog)] = r]
  PROVE  /\ Head(backlog) \in Connections /\ peer[Head(backlog)].stage = "backlog"
         /\ backlog' \in Seq(Connections) /\ Queued'
<1>1. LoopbackTyped /\ backlog \in Seq(Connections)
  BY DEF LoopbackInv, LoopbackTyped
<1>2. /\ Head(backlog) \in Connections /\ Head(backlog) = backlog[1]
      /\ backlog' \in Seq(Connections)
      /\ Len(backlog) \in Nat \ {0} /\ Len(backlog') = Len(backlog) - 1
      /\ \A i \in 1 .. Len(backlog') : backlog'[i] = backlog[i + 1]
  BY <1>1, HeadTailProperties, EmptySeq
<1>3. peer[Head(backlog)].stage = "backlog"
  BY <1>2 DEF LoopbackInv, Queued
<1>4. \A d \in Connections \ {Head(backlog)} : peer'[d] = peer[d]
  BY <1>1, <1>2, OneMoves
<1>5. \A i \in 1 .. Len(backlog') :
        /\ i + 1 \in 1 .. Len(backlog) /\ i + 1 # 1
        /\ backlog'[i] \in Connections \ {Head(backlog)}
  BY <1>1, <1>2 DEF LoopbackInv, Queued
<1>6. ASSUME NEW i \in 1 .. Len(backlog') PROVE peer'[backlog'[i]].stage = "backlog"
  BY <1>2, <1>4, <1>5 DEF LoopbackInv, Queued
<1>7. ASSUME NEW i \in 1 .. Len(backlog'), NEW j \in 1 .. Len(backlog'), backlog'[i] = backlog'[j]
      PROVE  i = j
  <2>1. i + 1 = j + 1
    BY <1>2, <1>5, <1>7 DEF LoopbackInv, Queued
  <2> QED
    BY <2>1
<1> QED
  BY <1>2, <1>3, <1>6, <1>7 DEF Queued

(* A thread is counted when it begins.                                      *)
LEMMA OneMoreThread ==
  ASSUME LoopbackInv, NEW c \in Connections, peer[c].stage = "backlog",
         live' = live + 1, peer'[c].stage = "thread",
         \A d \in Connections \ {c} : peer'[d] = peer[d]
  PROVE  ThreadsCounted'
<1>1. OnThread' = OnThread \cup {c} /\ c \notin OnThread
  BY DEF OnThread
<1>2. Cardinality(OnThread \cup {c}) = Cardinality(OnThread) + 1
  BY <1>1, ThreadsFinite, FS_AddElement
<1> QED
  BY <1>1, <1>2 DEF LoopbackInv, ThreadsCounted

(* A connection gets one of the threads, or is served by the loop itself.   *)
LEMMA ServeStep == ASSUME LoopbackInv, Serve PROVE LoopbackInv'
<1>1. CASE backlog = <<>>
  <2>1. /\ waiting.result = "none" /\ waiting'.result = "none" /\ waiting'.stage = "loop"
        /\ UNCHANGED <<peer, backlog, live, expired, outcomes>> /\ waiting.stage = "accept"
    BY <1>1 DEF Serve, LoopbackInv, LoopbackTyped, HandedOver
  <2>2. LoopbackTyped'
    BY <1>1 DEF Serve, LoopbackInv, LoopbackTyped
  <2> QED
    BY <2>1, <2>2, WaitingMoves DEF LoopbackInv, HandedOver
<1>2. CASE backlog # <<>>
  <2> DEFINE c == Head(backlog)
             r(next) == [peer[c] EXCEPT !.stage = next]
  <2>1. c \in Connections /\ LoopbackTyped
    BY <1>2, HeadTailProperties DEF LoopbackInv, LoopbackTyped
  <2>2. PICK next \in {"thread", "inline"} :
          /\ peer' = [peer EXCEPT ![c] = r(next)]
          /\ next = "thread" => live < MaxLive /\ live' = live + 1
                                 /\ waiting' = [waiting EXCEPT !.stage = "loop"]
          /\ next = "inline" => live' = live /\ waiting' = [waiting EXCEPT !.stage = "inline"]
    BY <1>2, <2>1 DEF Serve, LoopbackTyped
  <2>3. /\ backlog' = Tail(backlog) /\ UNCHANGED <<expired, outcomes>>
        /\ waiting.stage = "accept"
    BY <1>2 DEF Serve
  <2>4. /\ r(next) \in Peers /\ r(next).stage = next
        /\ r(next).request = peer[c].request /\ r(next).answer = peer[c].answer
    BY <2>1 DEF LoopbackTyped, Peers, PeerStages, ServedStages
  <2>5. /\ peer[c].stage = "backlog" /\ backlog' \in Seq(Connections) /\ Queued'
    BY <1>2, <2>2, <2>3, <2>4, HeadServed
  <2>6. peer'[c] = r(next) /\ \A d \in Connections \ {c} : peer'[d] = peer[d]
    BY <2>1, <2>2, <2>4, OneMoves
  <2>7. peer[c].request # "none"
    BY <2>1, <2>5 DEF LoopbackInv, VerdictGiven
  <2>8. /\ waiting' \in [stage : {"off", "loop", "accept", "inline", "drain", "ended"},
                         result : Outcomes \cup {"none", "timeout"}]
        /\ waiting'.result = waiting.result
        /\ waiting'.stage = IF next = "thread" THEN "loop" ELSE "inline"
    BY <2>1, <2>2 DEF LoopbackTyped
  <2>9. live' \in 0 .. MaxLive
    BY <2>1, <2>2 DEF LoopbackTyped
  <2> HIDE DEF c, r
  <2>10. ThreadsCounted'
    <3>1. CASE next = "thread"
      BY <2>1, <2>2, <2>4, <2>5, <2>6, <3>1, OneMoreThread
    <3>2. CASE next = "inline"
      BY <2>1, <2>2, <2>4, <2>5, <2>6, <3>2, SameThreads DEF LoopbackInv
    <3> QED
      BY <3>1, <3>2
  <2>11. InlineOne'
    <3>1. \A d \in Connections : peer[d].stage \notin Inline
      BY <2>3 DEF LoopbackInv, InlineOne
    <3>2. \A d \in Connections \ {c} : peer'[d].stage \notin Inline
      BY <2>6, <3>1
    <3>3. peer'[c].stage \in Inline => waiting'.stage = "inline"
      BY <2>4, <2>6, <2>8 DEF Inline
    <3> QED
      BY <3>2, <3>3 DEF InlineOne
  <2>12. next \notin AnsweredStages /\ next # "none"
    BY DEF AnsweredStages
  <2> QED
    BY <2>1, <2>2, <2>3, <2>4, <2>5, <2>7, <2>8, <2>9, <2>10, <2>11, <2>12, PeerMoves
<1> QED
  BY <1>1, <1>2

(* A connection is answered with its verdict before anything is reported.   *)
LEMMA AnswerStep ==
  ASSUME LoopbackInv, NEW c \in Connections, Answer(c) PROVE LoopbackInv'
<1> DEFINE next == IF peer[c].stage = "thread" THEN "thread_answered" ELSE "inline_answered"
           answer == Verdict(peer[c].request).answer
           r == [peer[c] EXCEPT !.answer = answer, !.stage = next]
<1>1. LoopbackTyped /\ peer[c] \in Peers /\ peer[c].stage \in {"thread", "inline"}
  BY DEF Answer, LoopbackInv, LoopbackTyped
<1>2. answer \in VerdictsGiven
  BY VerdictTypes
<1>3. /\ r \in Peers /\ r.stage = next /\ r.answer = answer
      /\ r.request = peer[c].request
  BY <1>1, <1>2 DEF Peers, PeerStages, ServedStages
<1>4. peer' = [peer EXCEPT ![c] = r] /\ UNCHANGED <<backlog, live, waiting, expired, outcomes>>
  BY DEF Answer
<1>5. peer[c].request = "code" => answer = "signed_in"
  BY DEF Verdict
<1> HIDE DEF r, answer
<1>6. peer'[c] = r /\ \A d \in Connections \ {c} : peer'[d] = peer[d]
  BY <1>1, <1>3, <1>4, OneMoves
<1>7. peer[c].request # "none"
  BY <1>1 DEF LoopbackInv, VerdictGiven
<1>8. Queued'
  <2>1. \A i \in 1 .. Len(backlog) : backlog[i] \in Connections
    BY <1>1 DEF LoopbackTyped
  <2>2. \A i \in 1 .. Len(backlog) : backlog[i] # c
    BY <1>1 DEF LoopbackInv, Queued
  <2> QED
    BY <1>4, <1>6, <2>1, <2>2 DEF LoopbackInv, Queued
<1>9. ThreadsCounted'
  BY <1>1, <1>3, <1>4, <1>6, SameThreads DEF LoopbackInv
<1>10. InlineOne'
  <2>1. \A d \in Connections : peer'[d].stage \in Inline <=> peer[d].stage \in Inline
    BY <1>1, <1>3, <1>6 DEF Inline
  <2> QED
    BY <1>4, <2>1 DEF LoopbackInv, InlineOne
<1>11. r.answer = Verdict(r.request).answer
  BY <1>3 DEF answer
<1> QED
  BY <1>1, <1>3, <1>4, <1>5, <1>7, <1>8, <1>9, <1>10, <1>11, PeerMoves DEF LoopbackInv, LoopbackTyped

(* What is reported is the verdict that was answered.                       *)
LEMMA ReportStep ==
  ASSUME LoopbackInv, NEW c \in Connections, Report(c) PROVE LoopbackInv'
<1> DEFINE inline == peer[c].stage = "inline_answered"
           next == IF inline THEN "closed" ELSE "thread_reported"
           r == [peer[c] EXCEPT !.stage = next]
           told == Verdict(peer[c].request)
<1>1. /\ LoopbackTyped /\ peer[c] \in Peers /\ outcomes \in Seq(Outcomes)
      /\ peer[c].stage \in {"thread_answered", "inline_answered"}
      /\ UNCHANGED <<backlog, live, expired>>
  BY DEF Report, LoopbackInv, LoopbackTyped
<1>2. /\ r \in Peers /\ r.stage = next
      /\ r.request = peer[c].request /\ r.answer = peer[c].answer
  BY <1>1 DEF Peers, PeerStages, ServedStages
<1>3. peer' = [peer EXCEPT ![c] = r]
  BY <1>1 DEF Report
<1>4. peer[c].answer = told.answer /\ peer[c].request # "none"
  BY <1>1 DEF LoopbackInv, VerdictGiven, AnsweredStages
<1>5. /\ waiting.stage = "ended" => outcomes' = outcomes
      /\ waiting.stage # "ended" => outcomes' = outcomes \o told.outcome
  BY DEF Report
<1>6. /\ inline => waiting.stage = "inline" /\ waiting' = [waiting EXCEPT !.stage = "loop"]
      /\ ~ inline => waiting' = waiting
  BY DEF Report, LoopbackInv, InlineOne, Inline
<1>7. /\ waiting' \in [stage : {"off", "loop", "accept", "inline", "drain", "ended"},
                       result : Outcomes \cup {"none", "timeout"}]
      /\ waiting'.result = waiting.result
      /\ waiting'.stage = "ended" <=> waiting.stage = "ended"
      /\ inline => waiting'.stage = "loop"
  BY <1>1, <1>6 DEF LoopbackTyped
<1> HIDE DEF r, told
<1>8. /\ peer' \in [Connections -> Peers] /\ peer'[c] = r
      /\ \A d \in Connections \ {c} : peer'[d] = peer[d]
  BY <1>1, <1>2, <1>3, OneMoves
<1>9. Queued'
  <2>1. \A i \in 1 .. Len(backlog) : backlog[i] \in Connections /\ backlog[i] # c
    BY <1>1 DEF LoopbackInv, Queued, LoopbackTyped
  <2> QED
    BY <1>1, <1>8, <2>1 DEF LoopbackInv, Queued
<1>10. ThreadsCounted'
  BY <1>1, <1>2, <1>8, SameThreads DEF LoopbackInv
<1>11. InlineOne'
  <2>1. peer'[c].stage \notin Inline
    BY <1>2, <1>8 DEF Inline
  <2>2. CASE inline
    BY <1>8, <2>1, <2>2 DEF LoopbackInv, InlineOne, Inline
  <2>3. CASE ~ inline
    BY <1>6, <1>8, <2>1, <2>3 DEF LoopbackInv, InlineOne
  <2> QED
    BY <2>2, <2>3
<1>12. VerdictGiven'
  <2>1. peer'[c].answer = Verdict(peer'[c].request).answer
    BY <1>2, <1>4, <1>8 DEF told
  <2>2. peer'[c].stage # "none" /\ peer'[c].request # "none"
    BY <1>2, <1>4, <1>8
  <2> QED
    BY <1>8, <2>1, <2>2 DEF LoopbackInv, VerdictGiven
<1>13. OurCode => OurCode'
  BY <1>2, <1>8 DEF OurCode
<1>14. /\ told.outcome \in Seq(Outcomes) /\ Len(told.outcome) \in Nat
       /\ \A i \in 1 .. Len(told.outcome) : told.outcome[i] = "code" => OurCode
  <2>1. /\ told.outcome \in Seq(Outcomes)
        /\ \A i \in 1 .. Len(told.outcome) :
             told.outcome[i] = "code" =>
               peer[c].request = "code" /\ told.answer = "signed_in"
    BY VerdictTypes DEF told
  <2> QED
    BY <1>4, <2>1 DEF OurCode
<1>15. outcomes' \in Seq(Outcomes) /\ \A i \in 1 .. Len(outcomes') : outcomes'[i] = "code" => OurCode
  <2>1. \A i \in 1 .. Len(outcomes) : outcomes[i] = "code" => OurCode
    BY DEF LoopbackInv, HandedOver
  <2>2. CASE waiting.stage = "ended"
    BY <1>1, <1>5, <2>1, <2>2
  <2>3. CASE waiting.stage # "ended"
    <3>1. /\ outcomes' \in Seq(Outcomes)
          /\ Len(outcomes') = Len(outcomes) + Len(told.outcome)
          /\ Len(outcomes) \in Nat
          /\ \A i \in 1 .. Len(outcomes) + Len(told.outcome) :
               outcomes'[i] = IF i <= Len(outcomes) THEN outcomes[i]
                              ELSE told.outcome[i - Len(outcomes)]
      <4>1. outcomes' = outcomes \o told.outcome
        BY <1>5, <2>3
      <4>2. outcomes \in Seq(Outcomes) /\ told.outcome \in Seq(Outcomes)
        BY <1>1, <1>14
      <4>3. Len(outcomes) \in Nat
        BY <4>2
      <4> QED
        BY <4>1, <4>2, <4>3, ConcatProperties
    <3>2. ASSUME NEW i \in 1 .. Len(outcomes'), outcomes'[i] = "code" PROVE OurCode
      <4>1. CASE i <= Len(outcomes)
        BY <2>1, <3>1, <3>2, <4>1
      <4>2. CASE i > Len(outcomes)
        <5>1. i - Len(outcomes) \in 1 .. Len(told.outcome)
          BY <1>14, <3>1, <4>2
        <5> QED
          BY <1>14, <3>1, <3>2, <4>2, <5>1
      <4> QED
        BY <3>1, <4>1, <4>2
    <3> QED
      BY <3>1, <3>2
  <2> QED
    BY <2>2, <2>3
<1>16. HandedOver'
  BY <1>1, <1>5, <1>7, <1>13, <1>15 DEF LoopbackInv, HandedOver
<1>17. LoopbackTyped'
  BY <1>1, <1>7, <1>8, <1>15 DEF LoopbackTyped
<1> QED
  BY <1>9, <1>10, <1>11, <1>12, <1>16, <1>17 DEF LoopbackInv

(* A thread is counted until it ends.                                       *)
LEMMA ReleaseStep ==
  ASSUME LoopbackInv, NEW c \in Connections, Release(c) PROVE LoopbackInv'
<1> DEFINE r == [peer[c] EXCEPT !.stage = "closed"]
<1>1. /\ LoopbackTyped /\ peer[c] \in Peers /\ peer[c].stage = "thread_reported"
      /\ UNCHANGED <<backlog, waiting, expired, outcomes>> /\ live' = live - 1
  BY DEF Release, LoopbackInv, LoopbackTyped
<1>2. /\ r \in Peers /\ r.stage = "closed"
      /\ r.request = peer[c].request /\ r.answer = peer[c].answer
  BY <1>1 DEF Peers, PeerStages
<1>3. peer' = [peer EXCEPT ![c] = r]
  BY DEF Release
<1> HIDE DEF r
<1>4. peer'[c] = r /\ \A d \in Connections \ {c} : peer'[d] = peer[d]
  BY <1>1, <1>2, <1>3, OneMoves
<1>5. Queued'
  <2>1. \A i \in 1 .. Len(backlog) : backlog[i] \in Connections /\ backlog[i] # c
    BY <1>1 DEF LoopbackInv, Queued, LoopbackTyped
  <2> QED
    BY <1>1, <1>4, <2>1 DEF LoopbackInv, Queued
<1>6. OnThread' = OnThread \ {c} /\ c \in OnThread
  BY <1>1, <1>2, <1>4 DEF OnThread
<1>7. Cardinality(OnThread \ {c}) = Cardinality(OnThread) - 1
  BY <1>6, ThreadsFinite, FS_RemoveElement
<1>8. ThreadsCounted' /\ live = Cardinality(OnThread)
  BY <1>1, <1>6, <1>7 DEF LoopbackInv, ThreadsCounted
<1>9. Cardinality(OnThread \ {c}) \in Nat
  BY <1>6, ThreadsFinite, FS_RemoveElement, FS_CardinalityType
<1>10. live' \in 0 .. MaxLive
  BY <1>1, <1>7, <1>8, <1>9 DEF LoopbackTyped
<1>11. InlineOne'
  <2>1. peer'[c].stage \notin Inline
    BY <1>2, <1>4 DEF Inline
  <2> QED
    BY <1>1, <1>4, <2>1 DEF LoopbackInv, InlineOne
<1>12. peer[c].request # "none" /\ peer[c].answer = Verdict(peer[c].request).answer
  BY <1>1 DEF LoopbackInv, VerdictGiven, AnsweredStages
<1> QED
  BY <1>1, <1>2, <1>3, <1>5, <1>8, <1>10, <1>11, <1>12, PeerMoves DEF LoopbackTyped

-----------------------------------------------------------------------------
(* The theorems.                                                            *)

(* Every step preserves the invariant.                                      *)
LEMMA EveryStep == LoopbackInv /\ [LoopbackNext]_loopbackVars => LoopbackInv'
<1> SUFFICES ASSUME LoopbackInv, [LoopbackNext]_loopbackVars PROVE LoopbackInv'
  OBVIOUS
<1>1. CASE UNCHANGED loopbackVars
  BY <1>1 DEF loopbackVars, LoopbackInv, LoopbackTyped, Queued, VerdictGiven, InlineOne, HandedOver, OurCode,
              ThreadsCounted, OnThread
<1> QED
  BY <1>1, ListenStep, ExpireStep, LoopStep, DrainStep, ServeStep, ConnectStep, AnswerStep,
     ReportStep, ReleaseStep DEF LoopbackNext

(* The invariant holds in every reachable state.                            *)
THEOREM LoopbackInvariance == LoopbackSpec => []LoopbackInv
  BY InitHolds, EveryStep, PTL DEF LoopbackSpec

(* Every variable keeps its type, the number of handlers its limit.         *)
THEOREM LoopbackTypes == LoopbackSpec => []LoopbackTypeOK
<1>1. LoopbackInv => LoopbackTypeOK
  <2> SUFFICES ASSUME LoopbackInv PROVE LoopbackTypeOK
    OBVIOUS
  <2>1. \A c \in Connections : peer[c] \in Peers
    BY DEF LoopbackInv, LoopbackTyped
  <2>2. \A i \in 1 .. Len(outcomes) : outcomes[i] \in Outcomes
    BY ElementOfSeq DEF LoopbackInv, LoopbackTyped
  <2> QED
    BY <2>1, <2>2 DEF LoopbackInv, LoopbackTyped, LoopbackTypeOK, Peers, PeerStages, VerdictsGiven, VerdictGiven
<1> QED
  BY <1>1, LoopbackInvariance, PTL

(* A login goes on with a code only from a redirect of its own, no outcome  *)
(* that was reported is lost to the deadline, no connection is closed       *)
(* unanswered, and the threads counted are the threads there are            *)
(* (wait_for_code, serve, handle, finish).                                  *)
THEOREM LoopbackSoundness == LoopbackSpec => []LoopbackIsSound
<1>1. LoopbackInv => LoopbackIsSound
  <2> SUFFICES ASSUME LoopbackInv PROVE LoopbackIsSound
    OBVIOUS
  <2>1. OnlyOurCode /\ NothingReportedIsLost
    BY DEF LoopbackInv, HandedOver, OurCode, OnlyOurCode, NothingReportedIsLost
  <2>2. NothingUnread
    BY VerdictTypes DEF LoopbackInv, VerdictGiven, AnsweredStages, NothingUnread
  <2>3. LiveIsCounted
    BY DEF LoopbackInv, ThreadsCounted, OnThread, LiveIsCounted
  <2> QED
    BY <2>1, <2>2, <2>3 DEF LoopbackIsSound
<1> QED
  BY <1>1, LoopbackInvariance, PTL
-----------------------------------------------------------------------------
(* Places in their order.                                                   *)

\* Every place once, the lower before the higher.
InItsOrder(S, seq) ==
  /\ Cardinality(S) \in Nat /\ seq \in Seq(S) /\ Len(seq) = Cardinality(S)
  /\ \A j, k \in 1 .. Cardinality(S) : j < k => seq[j] < seq[k]
  /\ \A i \in S : \E k \in 1 .. Cardinality(S) : seq[k] = i
  /\ \A k \in 1 .. Cardinality(S) : Cardinality({j \in S : j < seq[k]}) = k - 1

(* The places of a finite set come in their order.                          *)
LEMMA AscendingOf ==
  ASSUME NEW S \in SUBSET Nat, IsFiniteSet(S)
  PROVE  InItsOrder(S, Ascending(S))
<1> DEFINE n == Cardinality(S)
           under(i) == {j \in S : j < i}
           rank(i) == Cardinality(under(i))
           T == 0 .. n - 1
           f == [i \in S |-> rank(i)]
<1>0. \A i \in S : i \in Nat
  OBVIOUS
<1>1. n \in Nat
  BY FS_CardinalityType
<1>2. \A i \in S : IsFiniteSet(under(i)) /\ rank(i) \in Nat
  <2>1. \A i \in S : under(i) \subseteq S
    OBVIOUS
  <2> HIDE DEF under
  <2> QED BY <2>1, FS_Subset, FS_CardinalityType
<1>3. \A i \in S : IsFiniteSet(under(i) \cup {i}) /\ Cardinality(under(i) \cup {i}) = rank(i) + 1
  <2>1. \A i \in S : i \notin under(i)
    OBVIOUS
  <2> HIDE DEF under
  <2> QED BY <1>2, <2>1, FS_AddElement
<1>4. ASSUME NEW i \in S, NEW j \in S, i < j PROVE rank(i) < rank(j)
  <2>1. under(i) \cup {i} \subseteq under(j)
    <3>1. \A k \in S : k < i => k < j
      BY <1>0, <1>4
    <3> QED BY <1>4, <3>1
  <2>2. Cardinality(under(i) \cup {i}) <= rank(j)
    <3> HIDE DEF under
    <3> QED BY <1>2, <2>1, FS_Subset
  <2> QED BY <1>2, <1>3, <2>2
<1>5. ASSUME NEW i \in S PROVE rank(i) \in T
  <2>1. under(i) \cup {i} \subseteq S
    OBVIOUS
  <2>2. Cardinality(under(i) \cup {i}) <= n
    <3> HIDE DEF under
    <3> QED BY <2>1, FS_Subset
  <2> QED BY <1>1, <1>2, <1>3, <2>2
<1>6. f \in Injection(S, T)
  <2>1. \A i, j \in S : rank(i) = rank(j) => i = j
    <3>1. \A i, j \in S : i < j \/ j < i \/ i = j
      OBVIOUS
    <3> HIDE DEF rank
    <3> QED BY <1>1, <1>4, <1>5, <3>1
  <2> HIDE DEF rank, T
  <2> QED BY <1>5, <2>1 DEF Injection, IsInjective
<1>7. IsFiniteSet(T) /\ Cardinality(T) = n
  <2>1. 0 \in Int /\ n - 1 \in Int
    BY <1>1
  <2>2. IsFiniteSet(0 .. n - 1) /\ Cardinality(0 .. n - 1) = IF 0 > n - 1 THEN 0 ELSE n - 1 - 0 + 1
    BY <2>1, FS_Interval
  <2> QED BY <1>1, <2>2
<1>8. f \in Surjection(S, T)
  <2> HIDE DEF f, T
  <2> QED BY <1>6, <1>7, FS_Injection
<1>9. \A k \in 1 .. n : \E i \in S : rank(i) = k - 1
  <2>1. \A k \in 1 .. n : k - 1 \in T
    BY <1>1
  <2> HIDE DEF rank, T
  <2> QED BY <1>8, <2>1 DEF Surjection
<1> DEFINE at(k) == CHOOSE i \in S : rank(i) = k - 1
           seq == [k \in 1 .. n |-> at(k)]
<1>10. Ascending(S) = seq
  BY DEF Ascending
<1>11. \A k \in 1 .. n : at(k) \in S /\ rank(at(k)) = k - 1
  <2> HIDE DEF rank
  <2> QED BY <1>9
<1> HIDE DEF at, rank, under, f, T, n
<1>12. seq \in Seq(S) /\ Len(seq) = n /\ \A k \in 1 .. n : seq[k] = at(k)
  BY <1>1, <1>11
<1>13. ASSUME NEW j \in 1 .. n, NEW k \in 1 .. n, j < k PROVE seq[j] < seq[k]
  <2>1. at(j) \in S /\ at(k) \in S /\ rank(at(j)) = j - 1 /\ rank(at(k)) = k - 1
    BY <1>11
  <2>2. ~(at(k) < at(j)) /\ at(j) # at(k)
    <3>1. CASE at(k) < at(j)
      <4>1. rank(at(k)) < rank(at(j))
        BY <1>4, <2>1, <3>1
      <4> QED BY <1>1, <1>13, <2>1, <4>1
    <3>2. CASE at(j) = at(k)
      BY <1>1, <1>13, <2>1, <3>2
    <3> QED BY <3>1, <3>2
  <2>3. at(j) \in Nat /\ at(k) \in Nat
    BY <1>0, <2>1
  <2>4. \A a, b \in Nat : ~(b < a) /\ a # b => a < b
    OBVIOUS
  <2>5. at(j) < at(k)
    BY <2>2, <2>3, <2>4
  <2> QED BY <1>12, <2>5
<1>14. ASSUME NEW i \in S PROVE \E k \in 1 .. n : seq[k] = i
  <2> DEFINE k == rank(i) + 1
  <2>1. k \in 1 .. n /\ k - 1 = rank(i)
    BY <1>1, <1>2, <1>5 DEF T
  <2>2. at(k) \in S /\ rank(at(k)) = rank(i)
    BY <1>11, <2>1
  <2>3. at(k) = i
    <3> HIDE DEF k
    <3>1. at(k) < i \/ i < at(k) \/ at(k) = i
      <4>1. at(k) \in Nat /\ i \in Nat
        BY <1>0, <2>2
      <4>2. \A a, b \in Nat : a < b \/ b < a \/ a = b
        OBVIOUS
      <4> QED BY <4>1, <4>2
    <3>2. rank(i) \in Nat
      BY <1>2
    <3>3. CASE at(k) < i
      <4>1. rank(at(k)) < rank(i)
        BY <1>4, <2>2, <3>3
      <4> QED BY <2>2, <3>2, <4>1
    <3>4. CASE i < at(k)
      <4>1. rank(i) < rank(at(k))
        BY <1>4, <2>2, <3>4
      <4> QED BY <2>2, <3>2, <4>1
    <3> QED BY <3>1, <3>3, <3>4
  <2> HIDE DEF k
  <2> QED BY <1>12, <2>1, <2>3
<1>15. \A k \in 1 .. n : Cardinality({j \in S : j < seq[k]}) = k - 1
  <2> HIDE DEF seq
  <2> QED BY <1>11, <1>12 DEF rank, under
<1> QED
  <2> HIDE DEF seq
  <2>1. InItsOrder(S, seq)
    BY <1>1, <1>12, <1>13, <1>14, <1>15 DEF InItsOrder, n
  <2> QED BY <1>10, <2>1

(* A filter lets through what is at the places, once each and in order.     *)
LEMMA PickedFrom ==
  ASSUME NEW seq, NEW n \in Nat, NEW places \in SUBSET (1 .. n)
  PROVE  /\ InItsOrder(places, Ascending(places))
         /\ Len(Picked(seq, places)) = Cardinality(places)
         /\ \A k \in 1 .. Cardinality(places) : Picked(seq, places)[k] = seq[Ascending(places)[k]]
<1>1. IsFiniteSet(1 .. n)
  <2>1. 1 \in Int /\ n \in Int
    OBVIOUS
  <2> QED BY <2>1, FS_Interval
<1>2. IsFiniteSet(places)
  BY <1>1, FS_Subset
<1>2a. places \in SUBSET Nat
  OBVIOUS
<1>3. InItsOrder(places, Ascending(places))
  BY <1>2, <1>2a, AscendingOf
<1>4. Len(Ascending(places)) = Cardinality(places) /\ Cardinality(places) \in Nat
  BY <1>3 DEF InItsOrder
<1>5. Picked(seq, places) = [k \in 1 .. Cardinality(places) |-> seq[Ascending(places)[k]]]
  BY <1>4 DEF Picked
<1>6. Len(Picked(seq, places)) = Cardinality(places)
  BY <1>4, <1>5
<1> QED BY <1>3, <1>5, <1>6

-----------------------------------------------------------------------------
(* What is shown of a server's text.                                        *)

\* A sequence that stands in another as it is.
IsPart(part, whole) ==
  \E d \in Nat : d + Len(part) <= Len(whole) /\ \A i \in 1 .. Len(part) : part[i] = whole[d + i]

(* A beginning of a text is a part of it.                                    *)
LEMMA BeginningIs ==
  ASSUME NEW V, NEW text \in Seq(V), NEW c \in 0 .. Len(text)
  PROVE  SubSeq(text, 1, c) \in Seq(V) /\ Len(SubSeq(text, 1, c)) = c /\ IsPart(SubSeq(text, 1, c), text)
<1> DEFINE part == SubSeq(text, 1, c)
<1>1. /\ c \in Nat /\ c \in Int /\ 1 \in Int /\ c <= Len(text) /\ c - 1 + 1 = c /\ (1 <= c \/ c = 0)
      /\ \A i \in 1 .. c : i \in 1 .. Len(text) /\ 1 + i - 1 = i /\ 0 + i = i
  OBVIOUS
<1>2. \A i \in 1 .. c : text[i] \in V
  BY <1>1
<1>3. /\ part \in Seq(V) /\ Len(part) = (IF 1 <= c THEN c - 1 + 1 ELSE 0)
      /\ \A i \in 1 .. c - 1 + 1 : part[i] = text[1 + i - 1]
  BY <1>1, <1>2, SubSeqProperties
<1> HIDE DEF part
<1>4. Len(part) = c /\ \A i \in 1 .. c : part[i] = text[0 + i]
  BY <1>1, <1>3
<1>5. 0 \in Nat /\ 0 + Len(part) <= Len(text)
  BY <1>1, <1>4
<1> QED BY <1>3, <1>4, <1>5 DEF IsPart, part

(* A text without an end of it is a beginning of it.                        *)
LEMMA WithoutEndIs ==
  ASSUME NEW V, NEW text \in Seq(V), NEW set
  PROVE  \E n \in 0 .. Len(text) :
           /\ WithoutEnd(text, set) \in Seq(V) /\ Len(WithoutEnd(text, set)) = n
           /\ \A i \in 1 .. n : WithoutEnd(text, set)[i] = text[i]
<1> DEFINE top == Len(text)
           Rest(n) == \A i \in n + 1 .. top : text[i] \in set
           ends == {n \in 0 .. top : Rest(n)}
           kept == {n \in 0 .. top : n > 0 => text[n] \notin set}
           n == CHOOSE n \in kept : Rest(n)
<1>1. top \in Nat /\ ends \in SUBSET Nat /\ top \in ends
  OBVIOUS
<1>2. PICK m \in ends : \A k \in ends : m <= k
  <2> HIDE DEF ends
  <2> QED BY <1>1, Least
<1>3. m \in kept /\ Rest(m)
  <2>1. m \in 0 .. top /\ Rest(m)
    BY <1>2
  <2>2. ASSUME m > 0, text[m] \in set PROVE FALSE
    <3>1. m - 1 \in 0 .. top /\ \A i \in m - 1 + 1 .. top : i = m \/ i \in m + 1 .. top
      BY <1>1, <2>1, <2>2
    <3>2. Rest(m - 1)
      BY <2>1, <2>2, <3>1
    <3>3. m - 1 \in ends /\ ~(m <= m - 1)
      BY <2>1, <3>1, <3>2
    <3> HIDE DEF ends
    <3> QED BY <1>2, <3>3
  <2> QED BY <2>1, <2>2
<1>4. n \in kept /\ Rest(n)
  <2> HIDE DEF kept, Rest
  <2> QED BY <1>3
<1> HIDE DEF n
<1>5. n \in 0 .. top /\ n \in Int /\ 1 \in Int /\ \A i \in 1 .. n : text[i] \in V
  <2>1. n \in 0 .. top /\ n \in Int /\ \A i \in 1 .. n : i \in 1 .. top
    BY <1>1, <1>4
  <2> QED BY <2>1
<1>6. WithoutEnd(text, set) = SubSeq(text, 1, n)
  BY DEF WithoutEnd, n
<1>7. /\ SubSeq(text, 1, n) \in Seq(V) /\ Len(SubSeq(text, 1, n)) = (IF 1 <= n THEN n - 1 + 1 ELSE 0)
      /\ \A i \in 1 .. n - 1 + 1 : SubSeq(text, 1, n)[i] = text[1 + i - 1]
  BY <1>5, SubSeqProperties
<1>8. (IF 1 <= n THEN n - 1 + 1 ELSE 0) = n /\ n - 1 + 1 = n /\ \A i \in 1 .. n : 1 + i - 1 = i
  BY <1>1, <1>5
<1> QED BY <1>5, <1>6, <1>7, <1>8

(* A text between its gaps is a part of it.                                 *)
LEMMA TrimIs ==
  ASSUME NEW V, NEW text \in Seq(V)
  PROVE  Trim(text) \in Seq(V) /\ IsPart(Trim(text), text)
<1> DEFINE one == WithoutEnd(text, {Gap})
           back == Reverse(one)
           two == WithoutEnd(back, {Gap})
           out == Reverse(two)
<1>0. Len(text) \in Nat
  OBVIOUS
<1>1. PICK n \in 0 .. Len(text) : one \in Seq(V) /\ Len(one) = n /\ \A i \in 1 .. n : one[i] = text[i]
  BY WithoutEndIs
<1> HIDE DEF one
<1>2. n \in Nat /\ \A i \in 1 .. n : n - i + 1 \in 1 .. n /\ one[i] \in V
  BY <1>0, <1>1
<1>3. back \in Seq(V) /\ Len(back) = n /\ \A i \in 1 .. n : back[i] = one[n - i + 1]
  <2>1. back = [i \in 1 .. n |-> one[n - i + 1]]
    BY <1>1 DEF Reverse
  <2> HIDE DEF back
  <2> QED BY <1>2, <2>1
<1> HIDE DEF back
<1>4. PICK m \in 0 .. Len(back) : two \in Seq(V) /\ Len(two) = m /\ \A i \in 1 .. m : two[i] = back[i]
  <2>1. back \in Seq(V)
    BY <1>3
  <2> QED BY <2>1, WithoutEndIs
<1> HIDE DEF two
<1>5. m \in Nat /\ m <= n /\ \A i \in 1 .. m : m - i + 1 \in 1 .. m /\ two[i] \in V
  BY <1>2, <1>3, <1>4
<1>6. out \in Seq(V) /\ Len(out) = m /\ \A i \in 1 .. m : out[i] = two[m - i + 1]
  <2>1. out = [i \in 1 .. m |-> two[m - i + 1]]
    BY <1>4 DEF Reverse
  <2> HIDE DEF out
  <2> QED BY <1>5, <2>1
<1>7. ASSUME NEW i \in 1 .. m PROVE out[i] = text[(n - m) + i]
  <2>1. m - i + 1 \in 1 .. m /\ m - i + 1 \in 1 .. n /\ n - (m - i + 1) + 1 \in 1 .. n
        /\ n - (m - i + 1) + 1 = (n - m) + i
    <3>1. \A a, b, c \in Nat : 1 <= c /\ c <= b /\ b <= a =>
            /\ b - c + 1 \in 1 .. b /\ b - c + 1 \in 1 .. a /\ a - (b - c + 1) + 1 \in 1 .. a
            /\ a - (b - c + 1) + 1 = (a - b) + c
      OBVIOUS
    <3>2. n \in Nat /\ m \in Nat /\ i \in Nat /\ 1 <= i /\ i <= m /\ m <= n
      BY <1>2, <1>5
    <3> QED BY <3>1, <3>2
  <2>2. out[i] = back[m - i + 1]
    BY <1>4, <1>6, <2>1
  <2>3. back[m - i + 1] = one[n - (m - i + 1) + 1]
    BY <1>3, <2>1
  <2> QED BY <1>1, <2>1, <2>2, <2>3
<1>8. n - m \in Nat /\ (n - m) + m <= Len(text)
  BY <1>0, <1>1, <1>2, <1>4, <1>5
<1>9. Trim(text) = out
  BY DEF Trim, one, two, back
<1> HIDE DEF out
<1> QED BY <1>6, <1>7, <1>8, <1>9 DEF IsPart

(* A part of a part is a part.                                              *)
LEMMA PartOfPart ==
  ASSUME NEW a, NEW b, NEW c, Len(a) \in Nat, Len(b) \in Nat, Len(c) \in Nat, IsPart(a, b), IsPart(b, c)
  PROVE  IsPart(a, c)
<1>1. PICK d \in Nat : d + Len(a) <= Len(b) /\ \A i \in 1 .. Len(a) : a[i] = b[d + i]
  BY DEF IsPart
<1>2. PICK e \in Nat : e + Len(b) <= Len(c) /\ \A i \in 1 .. Len(b) : b[i] = c[e + i]
  BY DEF IsPart
<1>3. ASSUME NEW i \in 1 .. Len(a) PROVE a[i] = c[(e + d) + i]
  <2>1. d + i \in 1 .. Len(b) /\ e + (d + i) = (e + d) + i
    BY <1>1
  <2> QED BY <1>1, <1>2, <2>1
<1>4. e + d \in Nat /\ (e + d) + Len(a) <= Len(c)
  BY <1>1, <1>2
<1> QED BY <1>3, <1>4 DEF IsPart

(* The letters of a part of a text stand together among those of the text.  *)
LEMMA LettersOfPart ==
  ASSUME NEW part, NEW whole, Len(part) \in Nat, Len(whole) \in Nat, IsPart(part, whole)
  PROVE  IsPart(LettersOf(part), LettersOf(whole))
<1> DEFINE P == {i \in 1 .. Len(part) : IsLetter(part[i])}
           W == {i \in 1 .. Len(whole) : IsLetter(whole[i])}
<1>1. PICK d \in Nat : d + Len(part) <= Len(whole) /\ \A i \in 1 .. Len(part) : part[i] = whole[d + i]
  BY DEF IsPart
<1>2. P \in SUBSET (1 .. Len(part)) /\ W \in SUBSET (1 .. Len(whole))
  OBVIOUS
<1>3. /\ InItsOrder(P, Ascending(P)) /\ Len(LettersOf(part)) = Cardinality(P)
      /\ \A k \in 1 .. Cardinality(P) : LettersOf(part)[k] = part[Ascending(P)[k]]
  BY <1>2, PickedFrom DEF LettersOf
<1>4. /\ InItsOrder(W, Ascending(W)) /\ Len(LettersOf(whole)) = Cardinality(W)
      /\ \A k \in 1 .. Cardinality(W) : LettersOf(whole)[k] = whole[Ascending(W)[k]]
  BY <1>2, PickedFrom DEF LettersOf
<1> DEFINE before == {j \in W : j <= d}
           moved(S) == {d + x : x \in S}
           e == Cardinality(before)
<1>5. \A x \in P : x \in Nat /\ x >= 1 /\ d + x \in W
  BY <1>1
<1>6. \A w \in W : w \in Nat
  BY <1>2
<1>7. IsFiniteSet(P) /\ IsFiniteSet(W) /\ IsFiniteSet(before) /\ e \in Nat
  <2>1. 1 \in Int /\ Len(part) \in Int /\ Len(whole) \in Int
    OBVIOUS
  <2>2. IsFiniteSet(1 .. Len(part)) /\ IsFiniteSet(1 .. Len(whole))
    BY <2>1, FS_Interval
  <2>3. IsFiniteSet(P) /\ IsFiniteSet(W)
    <3> HIDE DEF P, W
    <3> QED BY <1>2, <2>2, FS_Subset
  <2>4. before \in SUBSET W
    OBVIOUS
  <2> HIDE DEF before, W
  <2> QED BY <2>3, <2>4, FS_Subset, FS_CardinalityType
<1> HIDE DEF P, W
<1>8. ASSUME NEW S \in SUBSET P
      PROVE  /\ IsFiniteSet(S) /\ Cardinality(S) \in Nat
             /\ IsFiniteSet(before \cup moved(S))
             /\ Cardinality(before \cup moved(S)) = e + Cardinality(S)
             /\ before \cup moved(S) \subseteq W
  <2>1. IsFiniteSet(S) /\ Cardinality(S) \in Nat
    BY <1>7, FS_Subset, FS_CardinalityType
  <2> DEFINE f == [x \in S |-> d + x]
  <2>2. f \in Bijection(S, moved(S))
    <3>1. \A x, y \in S : d + x = d + y => x = y
      BY <1>1, <1>5
    <3>2. f \in [S -> moved(S)] /\ \A t \in moved(S) : \E x \in S : f[x] = t
      OBVIOUS
    <3>3. \A x, y \in S : f[x] = f[y] => x = y
      BY <3>1
    <3> HIDE DEF f, moved
    <3> QED BY <3>2, <3>3 DEF Bijection, Injection, Surjection, IsInjective
  <2>3. IsFiniteSet(moved(S)) /\ Cardinality(moved(S)) = Cardinality(S)
    <3> HIDE DEF f, moved
    <3>1. ExistsBijection(S, moved(S))
      BY <2>2 DEF ExistsBijection
    <3> QED BY <2>1, <3>1, FS_Bijection
  <2>4. before \cap moved(S) = {} /\ before \cup moved(S) \subseteq W
    <3>1. \A x \in S : d + x > d /\ d + x \in W
      BY <1>1, <1>5
    <3>2. \A j \in before : ~(j > d)
      BY <1>1, <1>6
    <3> QED BY <3>1, <3>2
  <2> HIDE DEF moved, before
  <2>5. Cardinality(before \cap moved(S)) = 0
    BY <2>4, FS_EmptySet
  <2>6. /\ IsFiniteSet(before \cup moved(S))
        /\ Cardinality(before \cup moved(S)) = e + Cardinality(moved(S)) - Cardinality(before \cap moved(S))
    BY <1>7, <2>3, FS_Union
  <2>7. e + Cardinality(S) - 0 = e + Cardinality(S)
    BY <1>7, <2>1
  <2> QED BY <2>1, <2>3, <2>4, <2>5, <2>6, <2>7
<1>9. e + Cardinality(P) <= Cardinality(W)
  <2>1. P \in SUBSET P
    OBVIOUS
  <2>2. Cardinality(before \cup moved(P)) <= Cardinality(W)
    <3> HIDE DEF before, moved
    <3> QED BY <1>7, <1>8, <2>1, FS_Subset
  <2> HIDE DEF before, moved
  <2> QED BY <1>8, <2>1, <2>2
<1>10. ASSUME NEW k \in 1 .. Cardinality(P) PROVE Ascending(W)[e + k] = d + Ascending(P)[k]
  <2> DEFINE i == Ascending(P)[k]
             S == {x \in P : x < i}
  <2>1. i \in P /\ Cardinality(S) = k - 1 /\ k \in Nat /\ Cardinality(P) \in Nat /\ Cardinality(W) \in Nat
    <3>1. Ascending(P) \in Seq(P) /\ Len(Ascending(P)) = Cardinality(P) /\ Cardinality(P) \in Nat
          /\ Cardinality(W) \in Nat
      BY <1>3, <1>4 DEF InItsOrder
    <3>2. Ascending(P)[k] \in P
      BY <3>1
    <3> QED BY <1>3, <3>1, <3>2 DEF InItsOrder
  <2> HIDE DEF i
  <2>2. {j \in W : j < d + i} = before \cup moved(S)
    <3>1. ASSUME NEW j \in W, j < d + i, ~(j <= d) PROVE j \in moved(S)
      <4>1. j \in 1 .. Len(whole) /\ IsLetter(whole[j]) /\ i \in 1 .. Len(part) /\ d \in Nat
        BY <2>1 DEF W, P
      <4>2. j - d \in 1 .. Len(part) /\ d + (j - d) = j /\ j - d < i
        BY <3>1, <4>1
      <4>3. j - d \in P
        <5>1. part[j - d] = whole[d + (j - d)]
          BY <1>1, <4>2
        <5> QED BY <4>1, <4>2, <5>1 DEF P
      <4>4. j - d \in S
        BY <4>2, <4>3
      <4> HIDE DEF S
      <4> QED BY <4>2, <4>4
    <3>2. \A x \in S : d + x < d + i /\ d + x \in W
      BY <1>1, <1>5, <2>1
    <3>3. \A j \in W : j <= d => j < d + i
      BY <1>1, <1>5, <1>6, <2>1
    <3> QED BY <3>1, <3>2, <3>3
  <2>3. Cardinality({j \in W : j < d + i}) = e + (k - 1)
    <3>1. S \in SUBSET P
      OBVIOUS
    <3> HIDE DEF S, before, moved
    <3> QED BY <1>8, <2>1, <2>2, <3>1
  <2>4. d + i \in W
    BY <1>5, <2>1
  <2>5. PICK m \in 1 .. Cardinality(W) : Ascending(W)[m] = d + i
    BY <1>4, <2>4 DEF InItsOrder
  <2>6. Cardinality({j \in W : j < Ascending(W)[m]}) = m - 1
    BY <1>4, <2>5 DEF InItsOrder
  <2>7. m - 1 = e + (k - 1)
    BY <2>3, <2>5, <2>6
  <2>8. m = e + k
    BY <1>7, <2>1, <2>7
  <2> QED BY <2>5, <2>8 DEF i
<1>11. ASSUME NEW k \in 1 .. Cardinality(P) PROVE LettersOf(part)[k] = LettersOf(whole)[e + k]
  <2>1. Cardinality(P) \in Nat /\ Cardinality(W) \in Nat /\ Ascending(P) \in Seq(P) /\ Len(Ascending(P)) = Cardinality(P)
    BY <1>3, <1>4 DEF InItsOrder
  <2>2. e + k \in 1 .. Cardinality(W) /\ Ascending(P)[k] \in P
    BY <1>7, <1>9, <2>1
  <2>3. Ascending(P)[k] \in 1 .. Len(part)
    BY <2>2 DEF P
  <2> HIDE DEF e
  <2> QED BY <1>1, <1>3, <1>4, <1>10, <2>2, <2>3
<1> HIDE DEF e
<1> QED BY <1>3, <1>4, <1>7, <1>9, <1>11 DEF IsPart

-----------------------------------------------------------------------------
(* What the passes over a text make of it.                                  *)

(* What is made step by step of a start stays what each step keeps it.       *)
LEMMA StepsStay ==
  ASSUME NEW S, NEW n \in Nat, NEW f, f[0] \in S, \A i \in 1 .. n : f[i - 1] \in S => f[i] \in S
  PROVE  f[n] \in S
<1> DEFINE bad == {i \in 0 .. n : f[i] \notin S}
<1> SUFFICES ASSUME bad # {} PROVE FALSE
  OBVIOUS
<1>1. bad \in SUBSET Nat
  OBVIOUS
<1>2. PICK m \in bad : \A k \in bad : m <= k
  <2> HIDE DEF bad
  <2> QED BY <1>1, Least
<1>3. m \in 1 .. n /\ f[m] \notin S
  <2>1. m \in 0 .. n /\ f[m] \notin S /\ m # 0
    OBVIOUS
  <2> QED BY <2>1
<1>4. m - 1 \in 0 .. n /\ ~(m <= m - 1)
  BY <1>3
<1>5. f[m - 1] \in S
  BY <1>2, <1>4
<1> QED BY <1>3, <1>5

(* A text in which a secret is replaced is one of the same characters and    *)
(* stars.                                                                   *)
LEMMA ReplacedType ==
  ASSUME NEW V, NEW text \in Seq(V), NEW secret, Len(secret) \in Nat \ {0}, Stars \in V
  PROVE  Replaced(text, secret) \in Seq(V)
<1> DEFINE n == Len(text)
           S == [out : Seq(V), within : Nat]
           b == [out |-> <<>>, within |-> 0]
           F == [x \in (1 .. n) \X S |-> ReplaceNext(text, secret, x[2], x[1])]
           Copies(f) == f = [i \in 0 .. n |-> IF i = 0 THEN b ELSE ReplaceNext(text, secret, f[i - 1], i)]
           f == CHOOSE f : Copies(f)
<1>1. n \in Nat /\ b \in S /\ \A i \in 1 .. n : text[i] \in V
  OBVIOUS
<1>2. ASSUME NEW was \in S, NEW i \in 1 .. n PROVE ReplaceNext(text, secret, was, i) \in S
  <2>1. was.out \in Seq(V) /\ was.within \in Nat /\ was = [out |-> was.out, within |-> was.within]
    OBVIOUS
  <2>2. Append(was.out, Stars) \in Seq(V) /\ Append(was.out, text[i]) \in Seq(V) /\ Len(secret) - 1 \in Nat
    BY <1>1, <2>1
  <2>3. CASE was.within > 0
    <3>1. ReplaceNext(text, secret, was, i) = [was EXCEPT !.within = @ - 1]
      BY <2>3 DEF ReplaceNext
    <3>2. was.within - 1 \in Nat
      BY <2>1, <2>3
    <3>3. [was EXCEPT !.within = @ - 1] = [out |-> was.out, within |-> was.within - 1]
      BY <2>1
    <3>4. [out |-> was.out, within |-> was.within - 1] \in S
      BY <2>1, <3>2
    <3> HIDE DEF S
    <3> QED BY <3>1, <3>3, <3>4
  <2>4. CASE ~(was.within > 0)
    <3>1. \/ ReplaceNext(text, secret, was, i) = [out |-> Append(was.out, Stars), within |-> Len(secret) - 1]
          \/ ReplaceNext(text, secret, was, i) = [was EXCEPT !.out = Append(@, text[i])]
      BY <2>4 DEF ReplaceNext
    <3>2. [was EXCEPT !.out = Append(@, text[i])] = [out |-> Append(was.out, text[i]), within |-> was.within]
      <4>1. \A o : [was EXCEPT !.out = o] = [out |-> o, within |-> was.within]
        BY <2>1
      <4> QED BY <4>1
    <3>3. [out |-> Append(was.out, text[i]), within |-> was.within] \in S
      BY <2>1, <2>2
    <3>4. [out |-> Append(was.out, Stars), within |-> Len(secret) - 1] \in S
      BY <2>2
    <3> HIDE DEF S
    <3> QED BY <3>1, <3>2, <3>3, <3>4
  <2> QED BY <2>3, <2>4
<1>3. F \in [(1 .. n) \X S -> S]
  <2> HIDE DEF S, n
  <2> QED BY <1>2
<1>4. PICK g : Iteration(S, 0, 1, n, b, F, g)
  <2> HIDE DEF S, F, n, b
  <2>1. Iterable(S, 0, 1, n, b, F)
    BY <1>1, <1>3 DEF Iterable
  <2> QED BY <2>1, Iterates
<1>5. Copies(g)
  <2> HIDE DEF S, n, b
  <2>0. g \in [0 .. n -> S] /\ g[0] = b /\ \A i \in 1 .. n : g[i] = F[<<i, g[i - 1]>>]
    <3> HIDE DEF F
    <3> QED BY <1>4 DEF Iteration
  <2>1. ASSUME NEW i \in 1 .. n PROVE g[i] = ReplaceNext(text, secret, g[i - 1], i)
    <3>1. i - 1 \in 0 .. n /\ g[i - 1] \in S
      <4> HIDE DEF F
      <4> QED BY <1>1, <2>0
    <3> QED BY <2>0, <3>1
  <2>2. \A i \in 0 .. n : i = 0 \/ i \in 1 .. n
    BY <1>1
  <2> HIDE DEF F
  <2> QED BY <2>0, <2>1, <2>2
<1>6. Copies(f)
  BY <1>5
<1>7. f[0] = b /\ \A i \in 1 .. n : f[i] = ReplaceNext(text, secret, f[i - 1], i)
  <2>1. 0 \in 0 .. n /\ \A i \in 1 .. n : i \in 0 .. n /\ i # 0
    BY <1>1
  <2> HIDE DEF f, n, b
  <2> QED BY <1>6, <2>1
<1>8. ASSUME NEW i \in 1 .. n, f[i - 1] \in S PROVE f[i] \in S
  <2>1. ReplaceNext(text, secret, f[i - 1], i) \in S
    <3> HIDE DEF f, n, S
    <3> QED BY <1>2, <1>8
  <2>2. f[i] = ReplaceNext(text, secret, f[i - 1], i)
    <3> HIDE DEF f, n
    <3> QED BY <1>7
  <2> HIDE DEF f, n, S
  <2> QED BY <2>1, <2>2
<1>9. f[n] \in S
  <2>1. f[0] \in S
    <3> HIDE DEF f, n, S, b
    <3> QED BY <1>1, <1>7
  <2> HIDE DEF f, n, S
  <2> QED BY <1>1, <1>8, <2>1, StepsStay
<1>10. Replaced(text, secret) = f[n].out
  BY DEF Replaced
<1> HIDE DEF f
<1> QED BY <1>9, <1>10

(* So does taking all of a secret out of it, and a beginning at its end.    *)
LEMMA RedactSecretType ==
  ASSUME NEW V, NEW text \in Seq(V), NEW secret, Len(secret) \in Nat, secret # <<>> => Len(secret) # 0,
         Stars \in V
  PROVE  RedactSecret(text, secret) \in Seq(V)
<1>1. CASE secret = <<>>
  BY <1>1 DEF RedactSecret
<1>2. CASE secret # <<>>
  <2> DEFINE cut_ == Replaced(text, secret)
             trimmed == WithoutEnd(cut_, {Lossy})
             ends == {n \in MinFragment .. Len(secret) : IsSuffix(SubSeq(secret, 1, n), trimmed)}
             n == CHOOSE n \in ends : \A k \in ends : k <= n
  <2>1. cut_ \in Seq(V)
    BY <1>2, ReplacedType
  <2> HIDE DEF cut_
  <2>2. trimmed \in Seq(V)
    BY <2>1, WithoutEndIs
  <2>3. CutTailRedacted(cut_, secret) = IF ends = {} THEN cut_
                                        ELSE SubSeq(trimmed, 1, Len(trimmed) - n) \o <<Stars>>
    BY DEF CutTailRedacted
  <2>4. CASE ends = {}
    BY <1>2, <2>1, <2>3, <2>4 DEF RedactSecret, cut_
  <2>5. CASE ends # {}
    <3> DEFINE k == Len(trimmed) - n
    <3>1. ends \in SUBSET (0 .. Len(secret))
      BY RedactionAssumption
    <3>2. n \in ends
      <4>1. \E m \in ends : \A j \in ends : j <= m
        <5> HIDE DEF ends
        <5> QED BY <2>5, <3>1, Greatest
      <4> HIDE DEF ends
      <4> QED BY <4>1
    <3> HIDE DEF trimmed, n
    <3>3. n \in Nat /\ Len(trimmed) \in Nat
      BY <2>2, <3>1, <3>2
    <3>4. 1 \in Int /\ k \in Int /\ k <= Len(trimmed)
      BY <3>3
    <3> HIDE DEF k
    <3>5. \A i \in 1 .. k : i \in 1 .. Len(trimmed)
      BY <3>3, <3>4
    <3>6. \A i \in 1 .. k : trimmed[i] \in V
      BY <2>2, <3>5
    <3>7. SubSeq(trimmed, 1, k) \in Seq(V)
      BY <3>4, <3>6, SubSeqProperties
    <3>8. SubSeq(trimmed, 1, k) \o <<Stars>> \in Seq(V)
      BY <3>7
    <3>9. CutTailRedacted(cut_, secret) = SubSeq(trimmed, 1, k) \o <<Stars>>
      BY <2>3, <2>5 DEF k
    <3> QED BY <1>2, <3>8, <3>9 DEF RedactSecret, cut_
  <2> QED BY <2>4, <2>5
<1> QED BY <1>1, <1>2

(* And taking out all of them.                                              *)
LEMMA RedactAllType ==
  ASSUME NEW V, NEW text \in Seq(V), NEW secrets \in Seq(Seq(Nat)), Stars \in V
  PROVE  RedactAll(text, secrets) \in Seq(V)
<1> DEFINE n == Len(secrets)
           S == Seq(V)
           F == [x \in (1 .. n) \X S |-> RedactSecret(x[2], secrets[x[1]])]
           Redacts(f) == f = [i \in 0 .. n |-> IF i = 0 THEN text ELSE RedactSecret(f[i - 1], secrets[i])]
           f == CHOOSE f : Redacts(f)
<1>1. n \in Nat /\ text \in S /\ \A i \in 1 .. n : secrets[i] \in Seq(Nat)
  OBVIOUS
<1>2. ASSUME NEW was \in S, NEW i \in 1 .. n PROVE RedactSecret(was, secrets[i]) \in S
  <2>1. secrets[i] \in Seq(Nat)
    BY <1>1
  <2>2. Len(secrets[i]) \in Nat /\ (secrets[i] # <<>> => Len(secrets[i]) # 0)
    BY <2>1
  <2> QED BY <2>2, RedactSecretType
<1>3. F \in [(1 .. n) \X S -> S]
  <2> HIDE DEF S, n
  <2> QED BY <1>2
<1>4. PICK g : Iteration(S, 0, 1, n, text, F, g)
  <2> HIDE DEF S, F, n
  <2>1. Iterable(S, 0, 1, n, text, F)
    BY <1>1, <1>3 DEF Iterable
  <2> QED BY <2>1, Iterates
<1>5. Redacts(g)
  <2> HIDE DEF S, n
  <2>0. g \in [0 .. n -> S] /\ g[0] = text /\ \A i \in 1 .. n : g[i] = F[<<i, g[i - 1]>>]
    <3> HIDE DEF F
    <3> QED BY <1>4 DEF Iteration
  <2>1. ASSUME NEW i \in 1 .. n PROVE g[i] = RedactSecret(g[i - 1], secrets[i])
    <3>1. i - 1 \in 0 .. n /\ g[i - 1] \in S
      <4> HIDE DEF F
      <4> QED BY <1>1, <2>0
    <3> QED BY <2>0, <3>1
  <2>2. \A i \in 0 .. n : i = 0 \/ i \in 1 .. n
    BY <1>1
  <2> HIDE DEF F
  <2> QED BY <2>0, <2>1, <2>2
<1>6. Redacts(f)
  BY <1>5
<1>7. f[0] = text /\ \A i \in 1 .. n : f[i] = RedactSecret(f[i - 1], secrets[i])
  <2>1. 0 \in 0 .. n /\ \A i \in 1 .. n : i \in 0 .. n /\ i # 0
    BY <1>1
  <2> HIDE DEF f, n
  <2> QED BY <1>6, <2>1
<1>8. ASSUME NEW i \in 1 .. n, f[i - 1] \in S PROVE f[i] \in S
  <2>1. RedactSecret(f[i - 1], secrets[i]) \in S
    <3> HIDE DEF f, n, S
    <3> QED BY <1>2, <1>8
  <2>2. f[i] = RedactSecret(f[i - 1], secrets[i])
    <3> HIDE DEF f, n
    <3> QED BY <1>7
  <2> HIDE DEF f, n, S
  <2> QED BY <2>1, <2>2
<1>9. f[n] \in S
  <2>1. f[0] \in S
    <3> HIDE DEF f, n, S
    <3> QED BY <1>1, <1>7
  <2> HIDE DEF f, n, S
  <2> QED BY <1>1, <1>8, <2>1, StepsStay
<1>10. RedactAll(text, secrets) = f[n]
  BY DEF RedactAll
<1> HIDE DEF f
<1> QED BY <1>9, <1>10

(* What a filter lets through is of what it is given.                       *)
LEMMA PickedType ==
  ASSUME NEW V, NEW seq, NEW n \in Nat, NEW places \in SUBSET (1 .. n), \A i \in places : seq[i] \in V
  PROVE  Picked(seq, places) \in Seq(V)
<1> DEFINE order == Ascending(places)
           c == Cardinality(places)
<1>1. order \in Seq(places) /\ Len(order) = c /\ c \in Nat
  BY PickedFrom DEF InItsOrder
<1> HIDE DEF order, c
<1>2. \A k \in 1 .. c : order[k] \in places
  BY <1>1
<1>3. \A k \in 1 .. c : seq[order[k]] \in V
  BY <1>2
<1>4. Picked(seq, places) = [k \in 1 .. c |-> seq[order[k]]]
  BY <1>1 DEF Picked, order
<1> QED BY <1>1, <1>3, <1>4

\* What can be seen.
Seen == Nat \ {Hidden, Escape_}

(* A text without its last run, or the last two, is of the same characters   *)
(* and stars.                                                               *)
LEMMA TrailingRunsType ==
  ASSUME NEW V, NEW text \in Seq(V), Stars \in V
  PROVE  ReplaceTrailingRuns(text) \in Seq(V)
<1>1. ASSUME NEW t \in Seq(V) PROVE DropRun(t) \in Seq(V)
  <2>1. \A u \in Seq(V) : \A set : WithoutEnd(u, set) \in Seq(V)
    BY WithoutEndIs
  <2>2. WithoutEnd(t, {Gap}) \in Seq(V)
    BY <2>1
  <2>3. WithoutEnd(WithoutEnd(t, {Gap}), Range(WithoutEnd(t, {Gap})) \ {Gap}) \in Seq(V)
    BY <2>1, <2>2
  <2> QED BY <2>3 DEF DropRun
<1>2. DropRun(DropRun(text)) \in Seq(V)
  BY <1>1
<1>3. Append(DropRun(DropRun(text)), Stars) \in Seq(V)
  BY <1>2
<1> QED BY <1>2, <1>3 DEF ReplaceTrailingRuns

(* What renders as nothing and what a terminal obeys is gone.               *)
LEMMA NormalizeType ==
  ASSUME NEW raw \in Seq(Nat)
  PROVE  Normalize(raw) \in Seq(Seen)
<1> DEFINE spaced == [i \in 1 .. Len(raw) |-> IF raw[i] = Escape_ THEN Gap ELSE raw[i]]
           shown == {i \in 1 .. Len(raw) : raw[i] # Hidden}
           visible == Visible(raw)
           alone == {i \in 1 .. Len(visible) : i > 1 /\ visible[i] = Gap => visible[i - 1] # Gap}
<1>1. visible \in Seq(Seen)
  <2>1. \A i \in shown : spaced[i] \in Seen
    BY DEF Seen, Gap, Hidden, Escape_
  <2>2. Len(raw) \in Nat /\ shown \in SUBSET (1 .. Len(raw))
    OBVIOUS
  <2> HIDE DEF shown, spaced
  <2>3. Picked(spaced, shown) \in Seq(Seen)
    BY <2>1, <2>2, PickedType
  <2> QED BY <2>3 DEF Visible, shown, spaced
<1> HIDE DEF visible
<1>2. Collapsed(visible) \in Seq(Seen)
  <2>1. Len(visible) \in Nat /\ alone \in SUBSET (1 .. Len(visible)) /\ \A i \in alone : visible[i] \in Seen
    BY <1>1
  <2> HIDE DEF alone
  <2>2. Picked(visible, alone) \in Seq(Seen)
    BY <2>1, PickedType
  <2> QED BY <2>2 DEF Collapsed, alone
<1> QED BY <1>2, TrimIs DEF Normalize, visible

(* What is read out of a part is read out of the whole.                     *)
LEMMA SkeletonOfPart ==
  ASSUME NEW part, NEW whole, Len(part) \in Nat, Len(whole) \in Nat, IsPart(part, whole)
  PROVE  /\ IsPart(Skeleton(part), Skeleton(whole))
         /\ Len(Skeleton(part)) = Len(LettersOf(part)) /\ Len(Skeleton(whole)) = Len(LettersOf(whole))
<1>1. IsPart(LettersOf(part), LettersOf(whole))
  BY LettersOfPart
<1>2. ASSUME NEW text, Len(text) \in Nat
      PROVE  /\ Len(LettersOf(text)) \in Nat /\ Len(Skeleton(text)) = Len(LettersOf(text))
             /\ \A i \in 1 .. Len(LettersOf(text)) : Skeleton(text)[i] = LettersOf(text)[i] % 10
  <2> DEFINE L == {i \in 1 .. Len(text) : IsLetter(text[i])}
  <2>1. L \in SUBSET (1 .. Len(text))
    OBVIOUS
  <2> HIDE DEF L
  <2>2. Len(LettersOf(text)) \in Nat
    BY <1>2, <2>1, PickedFrom DEF LettersOf, L, InItsOrder
  <2>3. Skeleton(text) = [i \in 1 .. Len(LettersOf(text)) |-> LettersOf(text)[i] % 10]
    BY DEF Skeleton
  <2> QED BY <2>2, <2>3
<1>3. PICK d \in Nat : /\ d + Len(LettersOf(part)) <= Len(LettersOf(whole))
                      /\ \A i \in 1 .. Len(LettersOf(part)) : LettersOf(part)[i] = LettersOf(whole)[d + i]
  BY <1>1 DEF IsPart
<1>4. \A i \in 1 .. Len(LettersOf(part)) : d + i \in 1 .. Len(LettersOf(whole))
  BY <1>2, <1>3
<1>5. \A i \in 1 .. Len(LettersOf(part)) : Skeleton(part)[i] = Skeleton(whole)[d + i]
  BY <1>2, <1>3, <1>4
<1> QED BY <1>2, <1>3, <1>5 DEF IsPart

(* What is read out of a text is a sequence.                                *)
LEMMA SkeletonLen ==
  ASSUME NEW text, Len(text) \in Nat
  PROVE  Len(Skeleton(text)) \in Nat
<1> DEFINE L == {i \in 1 .. Len(text) : IsLetter(text[i])}
<1>1. L \in SUBSET (1 .. Len(text))
  OBVIOUS
<1> HIDE DEF L
<1>2. Len(LettersOf(text)) \in Nat
  BY <1>1, PickedFrom DEF LettersOf, L, InItsOrder
<1>3. Skeleton(text) = [i \in 1 .. Len(LettersOf(text)) |-> LettersOf(text)[i] % 10]
  BY DEF Skeleton
<1> QED BY <1>2, <1>3

(* What lies between two places of a sequence.                              *)
LEMMA Between ==
  ASSUME NEW s, NEW m \in Nat, NEW c \in Nat
  PROVE  /\ SubSeq(s, m, m + c - 1) \in Seq({s[i] : i \in m .. m + c - 1}) /\ Len(SubSeq(s, m, m + c - 1)) = c
         /\ \A i \in 1 .. c : SubSeq(s, m, m + c - 1)[i] = s[m + i - 1]
<1> DEFINE n == m + c - 1
           V == {s[i] : i \in m .. n}
<1>1. m \in Int /\ n \in Int /\ n - m + 1 = c /\ (m <= n => n - m + 1 = c) /\ (~(m <= n) => c = 0)
  OBVIOUS
<1>2. \A i \in m .. n : s[i] \in V
  OBVIOUS
<1> HIDE DEF n, V
<1>3. /\ SubSeq(s, m, n) \in Seq(V) /\ Len(SubSeq(s, m, n)) = (IF m <= n THEN n - m + 1 ELSE 0)
      /\ \A i \in 1 .. n - m + 1 : SubSeq(s, m, n)[i] = s[m + i - 1]
  BY <1>1, <1>2, SubSeqProperties
<1>4. Len(SubSeq(s, m, n)) = c
  BY <1>1, <1>3
<1> QED BY <1>1, <1>3, <1>4 DEF n, V

(* What occurs in a part of a text occurs in the text, and so does what it   *)
(* begins with.                                                             *)
LEMMA FragmentIn ==
  ASSUME NEW s, NEW part, NEW whole, Len(part) \in Nat, Len(whole) \in Nat, IsPart(part, whole),
         NEW k \in Nat, NEW c \in Nat, NEW e \in Nat, 1 <= e, e <= c,
         Occurs(SubSeq(s, k, k + c - 1), part)
  PROVE  Occurs(SubSeq(s, k, k + e - 1), whole)
<1> DEFINE long == SubSeq(s, k, k + c - 1)
           short == SubSeq(s, k, k + e - 1)
<1>1. Len(long) = c /\ \A j \in 1 .. c : long[j] = s[k + j - 1]
  BY Between
<1>2. /\ short \in Seq({s[i] : i \in k .. k + e - 1}) /\ Len(short) = e
      /\ \A j \in 1 .. e : short[j] = s[k + j - 1]
  BY Between
<1>3. PICK i \in 1 .. Len(part) - Len(long) + 1 : SubSeq(part, i, i + Len(long) - 1) = long
  BY DEF Occurs
<1> HIDE DEF long, short
<1>4. i \in Nat /\ 1 <= i /\ i + c - 1 <= Len(part)
  BY <1>1, <1>3
<1>5. \A j \in 1 .. c : SubSeq(part, i, i + c - 1)[j] = part[i + j - 1]
  BY <1>4, Between
<1>6. \A j \in 1 .. c : part[i + j - 1] = s[k + j - 1]
  BY <1>1, <1>3, <1>5
<1>7. PICK d \in Nat : d + Len(part) <= Len(whole) /\ \A j \in 1 .. Len(part) : part[j] = whole[d + j]
  BY DEF IsPart
<1> DEFINE at == d + i
           there == SubSeq(whole, at, at + e - 1)
<1>8. at \in Nat /\ 1 <= at /\ at \in 1 .. Len(whole) - e + 1
  BY <1>4, <1>7
<1>9. /\ there \in Seq({whole[j] : j \in at .. at + e - 1}) /\ Len(there) = e
      /\ \A j \in 1 .. e : there[j] = whole[at + j - 1]
  BY <1>8, Between
<1> HIDE DEF there
<1>10. ASSUME NEW j \in 1 .. e PROVE there[j] = short[j]
  <2>1. j \in 1 .. c /\ i + j - 1 \in 1 .. Len(part) /\ at + j - 1 = d + (i + j - 1)
    BY <1>4, <1>7
  <2>2. there[j] = whole[d + (i + j - 1)]
    BY <1>9, <2>1
  <2>3. whole[d + (i + j - 1)] = part[i + j - 1]
    BY <1>7, <2>1
  <2>4. part[i + j - 1] = s[k + j - 1] /\ short[j] = s[k + j - 1]
    BY <1>2, <1>6, <2>1
  <2> QED BY <2>2, <2>3, <2>4
<1> HIDE DEF at
<1>11. there = short
  <2>1. there = [j \in 1 .. e |-> there[j]] /\ short = [j \in 1 .. e |-> short[j]]
    BY <1>2, <1>9
  <2> QED BY <1>10, <2>1
<1>12. Occurs(short, whole)
  <2>1. at \in 1 .. Len(whole) - Len(short) + 1 /\ SubSeq(whole, at, at + Len(short) - 1) = short
    BY <1>2, <1>8, <1>11 DEF there
  <2> QED BY <2>1 DEF Occurs
<1> QED BY <1>12 DEF short

(* Whatever the secrets of a request and whatever the server sends: what is  *)
(* shown of it holds no character that cannot be seen and no fragment of a   *)
(* secret, in either case and whatever stood between its letters.           *)
THEOREM FragmentsStayHiddenForAll ==
  ASSUME NEW raw \in Seq(Nat), NEW secrets \in Seq(Seq(Nat))
  PROVE  FragmentsStayHidden(raw, secrets)
<1> SUFFICES ASSUME NEW truncated \in BOOLEAN, NEW cap \in {MinFragment, Len(raw) + 1}
             PROVE  LET shown == CleanServerText(raw, secrets, truncated, cap)
                    IN  /\ Range(shown) \cap {Hidden, Escape_} = {}
                        /\ \A i \in 1 .. Len(secrets) : ~HoldsFragment(shown, secrets[i])
  BY DEF FragmentsStayHidden
<1> DEFINE untrusted == IF truncated THEN ReplaceTrailingRuns(raw) ELSE raw
           R == RedactAll(Normalize(RedactAll(untrusted, secrets)), secrets)
           shown == CleanServerText(raw, secrets, truncated, cap)
           c == IF cap < Len(R) THEN cap ELSE Len(R)
           cut_ == SubSeq(R, 1, c)
           leaks == \E i \in 1 .. Len(secrets) : LeaksFragment(R, secrets[i])
<1>1. R \in Seq(Seen)
  <2>1. Stars \in Nat /\ Stars \in Seen
    BY DEF Seen, Stars, Hidden, Escape_
  <2>2. untrusted \in Seq(Nat)
    BY <2>1, TrailingRunsType
  <2> HIDE DEF untrusted
  <2>3. RedactAll(untrusted, secrets) \in Seq(Nat)
    BY <2>1, <2>2, RedactAllType
  <2>4. Normalize(RedactAll(untrusted, secrets)) \in Seq(Seen)
    BY <2>3, NormalizeType
  <2> QED BY <2>1, <2>4, RedactAllType
<1>2. shown = IF leaks THEN <<Stars>> ELSE Trim(cut_)
  BY DEF CleanServerText, Shortened
<1> HIDE DEF R, untrusted
<1>3. MinFragment \in Nat /\ 1 <= MinFragment
  BY RedactionAssumption
<1>4. \A i \in 1 .. Len(secrets) : secrets[i] \in Seq(Nat) /\ Len(secrets[i]) \in Nat
  OBVIOUS
<1>5. \A text : ReadOut(text) = Skeleton(text)
  BY DEF ReadOut, Skeleton
<1>6. ASSUME NEW i \in 1 .. Len(secrets), HoldsFragment(shown, secrets[i])
      PROVE  \E k, e \in Nat : /\ 1 <= k /\ MinFragment <= e /\ k + e - 1 <= Len(Skeleton(secrets[i]))
                               /\ Occurs(SubSeq(Skeleton(secrets[i]), k, k + e - 1), Skeleton(shown))
  <2> DEFINE s == Skeleton(secrets[i])
  <2>1. Len(s) \in Nat
    BY <1>4, SkeletonLen
  <2> HIDE DEF s, shown
  <2>2. PICK k, n \in 1 .. Len(s) : n - k + 1 >= MinFragment /\ Occurs(SubSeq(s, k, n), Skeleton(shown))
    BY <1>5, <1>6 DEF HoldsFragment, s
  <2> DEFINE e == n - k + 1
  <2>3. k \in Nat /\ e \in Nat /\ 1 <= k /\ MinFragment <= e /\ k + e - 1 = n /\ n <= Len(s)
    BY <1>3, <2>1, <2>2
  <2> HIDE DEF e
  <2> QED BY <2>2, <2>3 DEF s
<1>7. CASE leaks
  <2>1. shown = <<Stars>> /\ Stars = 35
    BY <1>2, <1>7 DEF Stars
  <2>2. Range(shown) \cap {Hidden, Escape_} = {}
    BY <2>1 DEF Range, Hidden, Escape_
  <2>3. Len(Skeleton(shown)) = 0
    <3>1. {j \in 1 .. Len(<<Stars>>) : IsLetter(<<Stars>>[j])} = {}
      BY <2>1 DEF IsLetter
    <3>2. LettersOf(<<Stars>>) = Picked(<<Stars>>, {})
      BY <3>1 DEF LettersOf
    <3>3. Len(LettersOf(<<Stars>>)) = 0
      <4>1. {} \in SUBSET (1 .. 0) /\ 0 \in Nat /\ Cardinality({}) = 0
        BY FS_EmptySet
      <4>2. Len(Picked(<<Stars>>, {})) = Cardinality({})
        BY <4>1, PickedFrom
      <4> QED BY <3>2, <4>1, <4>2
    <3>4. Skeleton(<<Stars>>) = [j \in 1 .. 0 |-> LettersOf(<<Stars>>)[j] % 10]
      BY <3>3 DEF Skeleton
    <3> QED BY <2>1, <3>4
  <2>4. ASSUME NEW i \in 1 .. Len(secrets), HoldsFragment(shown, secrets[i]) PROVE FALSE
    <3> DEFINE s == Skeleton(secrets[i])
    <3> HIDE DEF s, shown
    <3>1. PICK k, e \in Nat : 1 <= k /\ MinFragment <= e /\ Occurs(SubSeq(s, k, k + e - 1), Skeleton(shown))
      BY <1>6, <2>4 DEF s
    <3>2. Len(SubSeq(s, k, k + e - 1)) = e
      BY Between
    <3>3. 1 .. 0 - e + 1 = {}
      BY <1>3, <3>1
    <3> QED BY <2>3, <3>1, <3>2, <3>3 DEF Occurs
  <2> HIDE DEF shown
  <2> QED BY <2>2, <2>4 DEF shown
<1>8. CASE ~leaks
  <2>0. Len(R) \in Nat /\ c \in Nat /\ c <= Len(R)
    BY <1>1, <1>3
  <2> HIDE DEF c
  <2>1. cut_ \in Seq(Seen) /\ Len(cut_) = c /\ IsPart(cut_, R)
    <3>1. c \in 0 .. Len(R)
      BY <2>0
    <3> QED BY <1>1, <3>1, BeginningIs
  <2> HIDE DEF cut_
  <2>2. shown = Trim(cut_)
    BY <1>2, <1>8
  <2> HIDE DEF shown
  <2>3. shown \in Seq(Seen) /\ IsPart(shown, cut_)
    BY <2>1, <2>2, TrimIs
  <2>4. Len(shown) \in Nat /\ Len(cut_) \in Nat /\ \A i \in DOMAIN shown : shown[i] \in Seen
    BY <2>1, <2>3
  <2>5. Range(shown) \cap {Hidden, Escape_} = {}
    BY <2>4 DEF Range, Seen
  <2>6. IsPart(shown, R)
    BY <2>0, <2>1, <2>3, <2>4, PartOfPart
  <2>7. IsPart(Skeleton(shown), Skeleton(R)) /\ Len(Skeleton(shown)) \in Nat /\ Len(Skeleton(R)) \in Nat
    BY <2>0, <2>4, <2>6, SkeletonOfPart, SkeletonLen
  <2>8. ASSUME NEW i \in 1 .. Len(secrets), HoldsFragment(shown, secrets[i]) PROVE FALSE
    <3> DEFINE s == Skeleton(secrets[i])
    <3> HIDE DEF s
    <3>1. PICK k, e \in Nat : /\ 1 <= k /\ MinFragment <= e /\ k + e - 1 <= Len(s)
                              /\ Occurs(SubSeq(s, k, k + e - 1), Skeleton(shown))
      BY <1>6, <2>8 DEF s, shown
    <3>2. Occurs(SubSeq(s, k, k + MinFragment - 1), Skeleton(R))
      BY <1>3, <2>7, <3>1, FragmentIn
    <3>3. k \in 1 .. Len(s) - MinFragment + 1
      <4>1. Len(s) \in Int
        <5>1. Len(s) \in Nat
          BY <1>4, SkeletonLen DEF s
        <5> QED BY <5>1
      <4> QED BY <1>3, <3>1, <4>1
    <3>4. LeaksFragment(R, secrets[i])
      BY <3>2, <3>3 DEF LeaksFragment, s
    <3> QED BY <1>8, <3>4
  <2> QED BY <2>5, <2>8 DEF shown
<1> HIDE DEF shown
<1> QED BY <1>7, <1>8 DEF shown

-----------------------------------------------------------------------------
(* Tables (Display): the cells, and the columns that are chosen.             *)

(* What a text takes on the screen is summed up from its beginning.          *)
LEMMA ColumnsSums ==
  ASSUME NEW text \in Seq(Characters)
  PROVE  \E f : /\ Columns(text) = f[Len(text)] /\ f[0] = 0
                /\ \A i \in 1 .. Len(text) : f[i] = f[i - 1] + Width(text[i])
                /\ \A i \in 0 .. Len(text) : f[i] \in Nat
<1> DEFINE top == Len(text)
           F == [x \in (1 .. top) \X Nat |-> x[2] + Width(text[x[1]])]
           Sums(f) == f = [i \in 0 .. top |-> IF i = 0 THEN 0 ELSE f[i - 1] + Width(text[i])]
           width == CHOOSE f : Sums(f)
<1>1. top \in Nat
  OBVIOUS
<1>2. Columns(text) = width[top]
  BY DEF Columns
<1>3. \A c : Width(c) \in Nat
  BY DEF Width
<1>4. PICK g : Iteration(Nat, 0, 1, top, 0, F, g)
  <2>1. F \in [(1 .. top) \X Nat -> Nat]
    <3> HIDE DEF top
    <3> QED BY <1>3
  <2> HIDE DEF F, top
  <2>2. Iterable(Nat, 0, 1, top, 0, F)
    BY <1>1, <2>1 DEF Iterable
  <2> QED BY <2>2, Iterates
<1>5. Sums(g) /\ g[top] \in Nat
  <2> HIDE DEF F, top
  <2>1. g \in [0 .. top -> Nat] /\ g[0] = 0 /\ \A i \in 1 .. top : g[i] = F[<<i, g[i - 1]>>]
    BY <1>4 DEF Iteration
  <2>2. ASSUME NEW i \in 1 .. top PROVE g[i] = g[i - 1] + Width(text[i])
    <3>1. i - 1 \in 0 .. top /\ g[i - 1] \in Nat
      BY <1>1, <2>1
    <3>2. F[<<i, g[i - 1]>>] = g[i - 1] + Width(text[i])
      BY <3>1 DEF F
    <3> QED BY <2>1, <3>2
  <2>3. \A i \in 0 .. top : i = 0 \/ i \in 1 .. top
    BY <1>1
  <2>4. \A i \in 0 .. top : g[i] = IF i = 0 THEN 0 ELSE g[i - 1] + Width(text[i])
    BY <2>1, <2>2, <2>3
  <2>5. g = [i \in 0 .. top |-> g[i]] /\ top \in 0 .. top
    BY <1>1, <2>1
  <2> QED BY <2>1, <2>4, <2>5
<1>6. Sums(width)
  <2> HIDE DEF Sums
  <2> QED BY <1>5
<1> HIDE DEF width
<1>7. ASSUME NEW f, Sums(f) PROVE f[0] = 0 /\ \A i \in 1 .. top : f[i] = f[i - 1] + Width(text[i])
  <2> HIDE DEF top
  <2>1. 0 \in 0 .. top /\ \A i \in 1 .. top : i \in 0 .. top /\ i # 0
    BY <1>1
  <2>2. \A i \in 0 .. top : f[i] = IF i = 0 THEN 0 ELSE f[i - 1] + Width(text[i])
    BY <1>7
  <2> HIDE DEF Sums
  <2> QED BY <2>1, <2>2
<1> DEFINE bad == {i \in 0 .. top : width[i] \notin Nat}
<1>8. bad = {}
  <2> SUFFICES ASSUME bad # {} PROVE FALSE
    OBVIOUS
  <2>1. PICK n \in bad : \A k \in bad : n <= k
    <3>1. bad \in SUBSET Nat
      OBVIOUS
    <3> HIDE DEF bad
    <3> QED BY <3>1, Least
  <2>2. width[0] = 0 /\ \A i \in 1 .. top : width[i] = width[i - 1] + Width(text[i])
    BY <1>6, <1>7
  <2>3. n # 0 /\ n \in 1 .. top /\ n - 1 \in 0 .. top /\ n - 1 \notin bad
    <3> HIDE DEF top
    <3> QED BY <1>1, <2>1, <2>2
  <2> HIDE DEF top
  <2>4. width[n - 1] \in Nat /\ width[n] = width[n - 1] + Width(text[n])
    BY <2>2, <2>3
  <2> QED BY <1>3, <2>1, <2>4
<1>9. width[0] = 0 /\ \A i \in 1 .. top : width[i] = width[i - 1] + Width(text[i])
  BY <1>6, <1>7
<1>10. \A i \in 0 .. top : width[i] \in Nat
  BY <1>8
<1> HIDE DEF bad
<1> QED BY <1>2, <1>9, <1>10

(* So it is a number.                                                        *)
LEMMA ColumnsType ==
  ASSUME NEW text \in Seq(Characters)
  PROVE  Columns(text) \in Nat
<1>1. PICK f : Columns(text) = f[Len(text)] /\ \A i \in 0 .. Len(text) : f[i] \in Nat
  BY ColumnsSums
<1>2. Len(text) \in 0 .. Len(text)
  OBVIOUS
<1> QED BY <1>1, <1>2

(* A character more is its width more.                                       *)
LEMMA ColumnsAppend ==
  ASSUME NEW text \in Seq(Characters), NEW c \in Characters
  PROVE  Columns(Append(text, c)) = Columns(text) + Width(c)
<1> DEFINE top == Len(text)
           more == Append(text, c)
<1>1. /\ top \in Nat /\ more \in Seq(Characters) /\ Len(more) = top + 1 /\ more[top + 1] = c
      /\ \A i \in 1 .. top : more[i] = text[i]
  OBVIOUS
<1>2. PICK f : /\ Columns(text) = f[top] /\ f[0] = 0
               /\ \A i \in 1 .. top : f[i] = f[i - 1] + Width(text[i])
               /\ \A i \in 0 .. top : f[i] \in Nat
  BY ColumnsSums
<1> HIDE DEF top, more
<1>3. PICK g : /\ Columns(more) = g[top + 1] /\ g[0] = 0
               /\ \A i \in 1 .. top + 1 : g[i] = g[i - 1] + Width(more[i])
               /\ \A i \in 0 .. top + 1 : g[i] \in Nat
  <2>1. \E g : /\ Columns(more) = g[Len(more)] /\ g[0] = 0
               /\ \A i \in 1 .. Len(more) : g[i] = g[i - 1] + Width(more[i])
               /\ \A i \in 0 .. Len(more) : g[i] \in Nat
    BY <1>1, ColumnsSums
  <2> QED BY <1>1, <2>1
<1> DEFINE bad == {i \in 0 .. top : f[i] # g[i]}
<1>4. bad = {}
  <2> SUFFICES ASSUME bad # {} PROVE FALSE
    OBVIOUS
  <2>1. PICK n \in bad : \A k \in bad : n <= k
    <3>1. bad \in SUBSET Nat
      BY <1>1
    <3> HIDE DEF bad
    <3> QED BY <3>1, Least
  <2>2. n # 0 /\ n \in 1 .. top /\ n \in 1 .. top + 1 /\ n - 1 \in 0 .. top /\ n - 1 \notin bad
    BY <1>1, <1>2, <1>3, <2>1
  <2>3. f[n] = f[n - 1] + Width(text[n]) /\ g[n] = g[n - 1] + Width(more[n])
    BY <1>2, <1>3, <2>2
  <2>4. more[n] = text[n] /\ f[n - 1] = g[n - 1]
    BY <1>1, <2>2
  <2> QED BY <2>1, <2>3, <2>4
<1>5. f[top] = g[top] /\ top + 1 \in 1 .. top + 1 /\ top + 1 - 1 = top
  <2>1. top \in 0 .. top
    BY <1>1
  <2> QED BY <1>1, <1>4, <2>1
<1>6. g[top + 1] = g[top] + Width(c)
  BY <1>1, <1>3, <1>5
<1> QED BY <1>2, <1>3, <1>5, <1>6 DEF more

(* A text that was cleaned consists of it.                                   *)
LEMMA CleanedType ==
  ASSUME NEW text \in Seq(Characters)
  PROVE  Cleaned(text) \in Seq(CellCharacters)
<1> DEFINE top == Len(text)
           cleaned == [i \in 1 .. top |-> CleanChar(text[i])]
           places == {i \in 1 .. top : cleaned[i] # <<>>}
           left == Picked(cleaned, places)
           V == {<<c>> : c \in CellCharacters}
<1>1. top \in Nat /\ \A i \in 1 .. top : text[i] \in Characters
  OBVIOUS
<1>2. ASSUME NEW c \in Characters, CleanChar(c) # <<>> PROVE CleanChar(c) \in V
  BY <1>2 DEF Characters, CellCharacters, CleanChar
<1>3. Cleaned(text) = [k \in 1 .. Len(left) |-> left[k][1]]
  BY DEF Cleaned
<1> HIDE DEF top
<1>4. places \in SUBSET (1 .. top) /\ \A i \in places : cleaned[i] \in V
  <2>1. \A i \in places : i \in 1 .. top /\ cleaned[i] = CleanChar(text[i]) /\ cleaned[i] # <<>>
    OBVIOUS
  <2> HIDE DEF cleaned
  <2> QED BY <1>1, <1>2, <2>1
<1> HIDE DEF cleaned, places, V
<1>5. left \in Seq(V)
  BY <1>1, <1>4, PickedType
<1> HIDE DEF left
<1>6. Len(left) \in Nat /\ \A k \in 1 .. Len(left) : left[k] \in V
  BY <1>5
<1>7. \A k \in 1 .. Len(left) : left[k][1] \in CellCharacters
  BY <1>6 DEF V
<1> QED BY <1>3, <1>6, <1>7

(* A text has as many clusters as there are places where one ends.           *)
LEMMA ClustersCount ==
  ASSUME NEW text, Len(text) \in Nat
  PROVE  /\ IsFiniteSet(ClusterEnds(text)) /\ ClusterEnds(text) \in SUBSET (1 .. Len(text))
         /\ Len(Clusters(text)) = Cardinality(ClusterEnds(text))
         /\ Cardinality(ClusterEnds(text)) \in Nat
<1> DEFINE ends == ClusterEnds(text)
           order == Ascending(ends)
<1>1. ends \in SUBSET (1 .. Len(text)) /\ ends \in SUBSET Nat
  BY DEF ClusterEnds
<1>2. IsFiniteSet(ends) /\ Cardinality(ends) \in Nat
  <2>1. 1 \in Int /\ Len(text) \in Int
    OBVIOUS
  <2> HIDE DEF ends
  <2> QED BY <1>1, <2>1, FS_Interval, FS_Subset, FS_CardinalityType
<1>3. Clusters(text) = [k \in 1 .. Len(order) |-> SubSeq(text, IF k = 1 THEN 1 ELSE order[k - 1] + 1, order[k])]
  BY DEF Clusters
<1>4. Len(order) = Cardinality(ends)
  <2> HIDE DEF ends
  <2> QED BY <1>1, <1>2, AscendingOf DEF InItsOrder
<1> HIDE DEF ends, order
<1>5. Len(Clusters(text)) = Len(order)
  BY <1>2, <1>3, <1>4
<1> QED BY <1>1, <1>2, <1>4, <1>5 DEF ends

(* A cell that is cut short keeps a part that fits with the ellipsis.        *)
LEMMA KeptOfCell ==
  ASSUME NEW clean \in Seq(CellCharacters)
  PROVE  LET keep == Max(KeepsOfCell(clean))
         IN  keep \in KeepsOfCell(clean) /\ KeepsOfCell(clean) \subseteq 0 .. Len(clean)
<1> DEFINE S == KeepsOfCell(clean)
           ends == ClusterEnds(clean)
<1>1. Len(clean) \in Nat
  OBVIOUS
<1>2. ends \in SUBSET (1 .. Len(clean))
  BY <1>1, ClustersCount
<1>3. S \subseteq 0 .. Len(clean)
  BY <1>1, <1>2 DEF KeepsOfCell
<1>4. 0 \in S
  <2>1. SubSeq(clean, 1, 0) = <<>>
    <3>1. 0 \in 0 .. Len(clean)
      BY <1>1
    <3>2. SubSeq(clean, 1, 0) \in Seq(CellCharacters) /\ Len(SubSeq(clean, 1, 0)) = 0
      BY <3>1, BeginningIs
    <3> QED BY <3>2
  <2>2. Columns(<<>>) = 0
    <3>1. <<>> \in Seq(Characters) /\ Len(<<>>) = 0
      OBVIOUS
    <3> QED BY <3>1, ColumnsSums
  <2>3. Cardinality({i \in ends : i <= 0}) = 0
    <3>1. {i \in ends : i <= 0} = {}
      BY <1>1, <1>2
    <3> QED BY <3>1, FS_EmptySet
  <2>4. Width("ellipsis") = 1
    BY DEF Width
  <2>5. /\ Columns(SubSeq(clean, 1, 0)) <= MaxCellWidth - Width("ellipsis")
        /\ Cardinality({i \in ends : i <= 0}) < MaxCellClusters /\ 0 <= MaxCellChars
    <3>1. 0 <= MaxCellWidth - 1 /\ 0 < MaxCellClusters /\ 0 <= MaxCellChars
      BY ShowAssumption
    <3> QED BY <2>1, <2>2, <2>3, <2>4, <3>1
  <2> QED BY <2>5 DEF KeepsOfCell
<1> HIDE DEF S
<1>5. PICK n \in S : \A m \in S : m <= n
  BY <1>1, <1>3, <1>4, Greatest
<1>6. \A m \in S : n >= m
  BY <1>1, <1>3, <1>5
<1>7. Max(S) \in S
  BY <1>5, <1>6 DEF Max
<1> QED BY <1>3, <1>7 DEF S

(* A cell of a table is safe for the terminal whatever the server sent.  Its *)
(* width and its clusters are within their limits with the ellipsis, its     *)
(* characters up to the ellipsis (render.rs sanitize_cell).                  *)
THEOREM CellsAreSafe ==
  ASSUME NEW text \in Seq(Characters)
  PROVE  CellIsSafe(SanitizeCell(text))
<1> DEFINE clean == Cleaned(text)
           keep == Max(KeepsOfCell(clean))
           part == SubSeq(clean, 1, keep)
           cell == Append(part, "ellipsis")
           ends == ClusterEnds(clean)
           before == {i \in ends : i <= keep}
<1>1. clean \in Seq(CellCharacters) /\ Len(clean) \in Nat
  <2>1. clean \in Seq(CellCharacters)
    BY CleanedType
  <2> HIDE DEF clean
  <2> QED BY <2>1
<1>2. ASSUME NEW s \in Seq(CellCharacters)
      PROVE  Range(s) \subseteq CellCharacters
  BY DEF Range
<1>3. CASE FitsCell(clean)
  <2>1. SanitizeCell(text) = clean
    BY <1>3 DEF SanitizeCell
  <2> HIDE DEF clean
  <2> QED BY <1>1, <1>2, <1>3, <2>1 DEF FitsCell, CellIsSafe
<1>4. CASE ~FitsCell(clean)
  <2>1. SanitizeCell(text) = cell
    BY <1>4 DEF SanitizeCell
  <2> HIDE DEF clean
  <2>2. keep \in KeepsOfCell(clean) /\ keep \in 0 .. Len(clean)
    BY <1>1, KeptOfCell
  <2>3. /\ keep \in {0} \cup ends /\ Columns(part) <= MaxCellWidth - Width("ellipsis")
        /\ Cardinality(before) < MaxCellClusters /\ keep <= MaxCellChars
    BY <2>2 DEF KeepsOfCell
  <2> HIDE DEF keep
  <2>4. part \in Seq(CellCharacters) /\ Len(part) = keep /\ \A i \in 1 .. keep : part[i] = clean[i]
    <3>1. part \in Seq(CellCharacters) /\ Len(part) = keep
      BY <1>1, <2>2, BeginningIs
    <3>2. \A i \in 1 .. keep : part[i] = clean[1 + i - 1]
      BY <1>1, <2>2
    <3> QED BY <2>2, <3>1, <3>2
  <2> HIDE DEF part
  <2>5. /\ cell \in Seq(CellCharacters) /\ Len(cell) = keep + 1 /\ cell[keep + 1] = "ellipsis"
        /\ \A i \in 1 .. keep : cell[i] = clean[i]
    <3>1. "ellipsis" \in CellCharacters
      BY DEF CellCharacters
    <3> QED BY <2>2, <2>4, <3>1
  <2>6. Columns(cell) <= MaxCellWidth
    <3>1. CellCharacters \subseteq Characters
      BY DEF CellCharacters, Characters
    <3>2. part \in Seq(Characters) /\ "ellipsis" \in Characters
      <4>1. part \in Seq(Characters)
        BY <2>4, <3>1
      <4>2. "ellipsis" \in Characters
        BY DEF Characters
      <4> QED BY <4>1, <4>2
    <3>3. Columns(cell) = Columns(part) + Width("ellipsis") /\ Columns(part) \in Nat
      BY <3>2, ColumnsAppend, ColumnsType
    <3>4. Width("ellipsis") = 1
      BY DEF Width
    <3> HIDE DEF cell
    <3> QED BY <2>3, <3>3, <3>4, ShowAssumption
  <2> HIDE DEF cell
  <2>7. Len(Clusters(cell)) <= MaxCellClusters
    <3>1. ClusterEnds(cell) \subseteq before \cup {keep + 1}
      <4> SUFFICES ASSUME NEW j \in ClusterEnds(cell), j # keep + 1 PROVE j \in ends /\ j <= keep
        OBVIOUS
      <4>1. j \in 1 .. keep /\ cell[j + 1] \notin {"mark", "joiner"}
        BY <2>2, <2>5 DEF ClusterEnds
      <4>2. CASE j = keep
        BY <2>2, <2>3, <4>1, <4>2
      <4>3. CASE j # keep
        <5>1. j + 1 \in 1 .. keep /\ j \in 1 .. Len(clean)
          BY <1>1, <2>2, <4>1, <4>3
        <5>2. clean[j + 1] \notin {"mark", "joiner"}
          BY <2>5, <4>1, <5>1
        <5> QED BY <2>2, <4>1, <5>1, <5>2 DEF ClusterEnds
      <4> QED BY <4>2, <4>3
    <3>2. IsFiniteSet(before) /\ Cardinality(before) \in Nat
      <4>1. IsFiniteSet(ends) /\ before \subseteq ends
        BY <1>1, ClustersCount
      <4> HIDE DEF ends, before
      <4> QED BY <4>1, FS_Subset, FS_CardinalityType
    <3>3. IsFiniteSet(before \cup {keep + 1}) /\ Cardinality(before \cup {keep + 1}) <= Cardinality(before) + 1
      <4> DEFINE more == before \cup {keep + 1}
      <4> HIDE DEF before
      <4>1. /\ IsFiniteSet(more)
            /\ Cardinality(more) = IF keep + 1 \in before THEN Cardinality(before) ELSE Cardinality(before) + 1
        BY <3>2, FS_AddElement
      <4> HIDE DEF more
      <4>2. Cardinality(more) <= Cardinality(before) + 1
        BY <3>2, <4>1
      <4> QED BY <4>1, <4>2 DEF more
    <3> HIDE DEF before
    <3>4. Cardinality(ClusterEnds(cell)) <= Cardinality(before \cup {keep + 1})
      BY <3>1, <3>3, FS_Subset
    <3>5. Len(Clusters(cell)) = Cardinality(ClusterEnds(cell)) /\ Cardinality(ClusterEnds(cell)) \in Nat
      <4>1. Len(cell) \in Nat
        BY <2>2, <2>5
      <4> QED BY <4>1, ClustersCount
    <3>6. Cardinality(before \cup {keep + 1}) \in Nat
      BY <3>3, FS_CardinalityType
    <3> QED BY <2>3, <3>2, <3>3, <3>4, <3>5, <3>6, ShowAssumption
  <2>8. Len(cell) <= MaxCellChars \/ (Len(cell) = MaxCellChars + 1 /\ cell[Len(cell)] = "ellipsis")
    BY <2>2, <2>3, <2>5, ShowAssumption
  <2>9. Range(cell) \subseteq CellCharacters
    BY <1>2, <2>5
  <2> QED BY <2>1, <2>6, <2>7, <2>8, <2>9 DEF CellIsSafe
<1> QED BY <1>3, <1>4

\* A sequence of all the elements of a set, each of them once.
EachOnce(S, s) ==
  /\ s \in Seq(S)
  /\ \A j, k \in 1 .. Len(s) : s[j] = s[k] => j = k
  /\ \A x \in S : \E k \in 1 .. Len(s) : s[k] = x

(* Two of them, one after the other.                                         *)
LEMMA OnceJoined ==
  ASSUME NEW S, NEW T, NEW s, NEW t, EachOnce(S, s), EachOnce(T, t), S \cap T = {}
  PROVE  EachOnce(S \cup T, s \o t)
<1> DEFINE both == s \o t
           m == Len(s)
           n == Len(t)
<1>1. /\ s \in Seq(S) /\ t \in Seq(T) /\ m \in Nat /\ n \in Nat
      /\ s \in Seq(S \cup T) /\ t \in Seq(S \cup T)
  BY DEF EachOnce
<1>2. both \in Seq(S \cup T) /\ Len(both) = m + n
  BY <1>1
<1>3. \A k \in 1 .. m + n : both[k] = IF k <= m THEN s[k] ELSE t[k - m]
  BY <1>1
<1>4. (\A k \in 1 .. m : s[k] \in S) /\ (\A k \in 1 .. n : t[k] \in T)
  BY <1>1
<1>5. /\ \A j, k \in 1 .. m : s[j] = s[k] => j = k
      /\ \A j, k \in 1 .. n : t[j] = t[k] => j = k
      /\ \A x \in S : \E k \in 1 .. m : s[k] = x
      /\ \A x \in T : \E k \in 1 .. n : t[k] = x
  BY DEF EachOnce
<1> HIDE DEF both, m, n
<1>6. ASSUME NEW j \in 1 .. m + n, NEW k \in 1 .. m + n, both[j] = both[k] PROVE j = k
  <2>1. CASE j <= m /\ k <= m
    BY <1>1, <1>3, <1>5, <1>6, <2>1
  <2>2. CASE j <= m /\ ~(k <= m)
    <3>1. j \in 1 .. m /\ k - m \in 1 .. n
      BY <1>1, <2>2
    <3>2. both[j] \in S /\ both[k] \in T
      BY <1>3, <1>4, <2>2, <3>1
    <3> QED BY <1>6, <3>2
  <2>3. CASE ~(j <= m) /\ k <= m
    <3>1. k \in 1 .. m /\ j - m \in 1 .. n
      BY <1>1, <2>3
    <3>2. both[k] \in S /\ both[j] \in T
      BY <1>3, <1>4, <2>3, <3>1
    <3> QED BY <1>6, <3>2
  <2>4. CASE ~(j <= m) /\ ~(k <= m)
    <3>1. j - m \in 1 .. n /\ k - m \in 1 .. n
      BY <1>1, <2>4
    <3>2. t[j - m] = t[k - m]
      BY <1>3, <1>6, <2>4
    <3>3. j - m = k - m
      BY <1>5, <3>1, <3>2
    <3> QED BY <1>1, <3>3
  <2> QED BY <2>1, <2>2, <2>3, <2>4
<1>7. ASSUME NEW x \in S \cup T PROVE \E k \in 1 .. m + n : both[k] = x
  <2>1. CASE x \in S
    <3>1. PICK k \in 1 .. m : s[k] = x
      BY <1>5, <2>1
    <3>2. k \in 1 .. m + n /\ k <= m
      BY <1>1
    <3> QED BY <1>3, <3>1, <3>2
  <2>2. CASE x \in T
    <3>1. PICK k \in 1 .. n : t[k] = x
      BY <1>5, <2>2
    <3>2. PICK j \in 1 .. m + n : ~(j <= m) /\ j - m = k
      <4>1. m + k \in 1 .. m + n /\ ~(m + k <= m) /\ m + k - m = k
        BY <1>1
      <4> DEFINE j == m + k
      <4>2. j \in 1 .. m + n /\ ~(j <= m) /\ j - m = k
        BY <1>1, <4>1
      <4> HIDE DEF j
      <4> QED BY <4>2
    <3> QED BY <1>3, <3>1, <3>2
  <2> QED BY <2>1, <2>2
<1> QED BY <1>2, <1>6, <1>7 DEF EachOnce, both

(* Places in their order are one.                                            *)
LEMMA OnceAscending ==
  ASSUME NEW S \in SUBSET Nat, IsFiniteSet(S)
  PROVE  EachOnce(S, Ascending(S))
<1> DEFINE s == Ascending(S)
           n == Cardinality(S)
<1>1. /\ n \in Nat /\ s \in Seq(S) /\ Len(s) = n
      /\ \A j, k \in 1 .. n : j < k => s[j] < s[k]
      /\ \A i \in S : \E k \in 1 .. n : s[k] = i
  BY AscendingOf DEF InItsOrder
<1> HIDE DEF s, n
<1>2. \A j \in 1 .. n : s[j] \in Nat
  <2>1. \A j \in 1 .. n : s[j] \in S
    BY <1>1
  <2> QED BY <2>1
<1>3. ASSUME NEW j \in 1 .. n, NEW k \in 1 .. n, s[j] = s[k] PROVE j = k
  <2>1. j < k => s[j] < s[k]
    BY <1>1
  <2>2. k < j => s[k] < s[j]
    BY <1>1
  <2> QED BY <1>1, <1>2, <1>3, <2>1, <2>2
<1> QED BY <1>1, <1>3 DEF EachOnce, s

(* So are the elements of a set in an order of it.                           *)
LEMMA OnceSetToSeq ==
  ASSUME NEW S, IsFiniteSet(S)
  PROVE  EachOnce(S, SetToSeq(S))
<1> DEFINE s == SetToSeq(S)
           n == Cardinality(S)
<1>1. n \in Nat /\ ExistsBijection(1 .. n, S)
  BY FS_CardinalityType
<1>2. \E f \in [1 .. n -> S] : IsInjective(f)
  BY <1>1 DEF ExistsBijection, Bijection, Injection
<1>3. s = CHOOSE f \in [1 .. n -> S] : IsInjective(f)
  BY DEF SetToSeq
<1>4. IsFiniteSet(1 .. n) /\ Cardinality(1 .. n) = n
  <2>1. 1 \in Int /\ n \in Int /\ (1 > n => n = 0) /\ n - 1 + 1 = n
    BY <1>1
  <2> HIDE DEF n
  <2> QED BY <1>1, <2>1, FS_Interval
<1> HIDE DEF s
<1>5. s \in [1 .. n -> S] /\ IsInjective(s)
  <2> HIDE DEF n
  <2> QED BY <1>2, <1>3
<1>6. s \in Injection(1 .. n, S)
  BY <1>5 DEF Injection
<1>7. s \in Surjection(1 .. n, S)
  BY <1>4, <1>6, FS_Injection
<1> HIDE DEF n
<1>8. s \in Seq(S) /\ Len(s) = n /\ DOMAIN s = 1 .. n
  BY <1>1, <1>5
<1> QED BY <1>5, <1>7, <1>8 DEF EachOnce, Surjection, IsInjective, s

(* What is let through of one is one.                                        *)
LEMMA OncePicked ==
  ASSUME NEW T, NEW s, EachOnce(T, s), NEW places \in SUBSET (1 .. Len(s))
  PROVE  EachOnce({s[p] : p \in places}, Picked(s, places))
<1> DEFINE n == Cardinality(places)
           order == Ascending(places)
           left == Picked(s, places)
<1>1. Len(s) \in Nat
  BY DEF EachOnce
<1>2. InItsOrder(places, order) /\ Len(left) = n /\ \A k \in 1 .. n : left[k] = s[order[k]]
  BY <1>1, PickedFrom
<1>3. \A p \in places : s[p] \in {s[q] : q \in places}
  OBVIOUS
<1>4. left \in Seq({s[q] : q \in places})
  BY <1>1, <1>3, PickedType
<1>5. /\ n \in Nat /\ order \in Seq(places) /\ Len(order) = n
      /\ \A i \in places : \E k \in 1 .. n : order[k] = i
  BY <1>2 DEF InItsOrder
<1>6. IsFiniteSet(places) /\ places \in SUBSET Nat
  <2>1. IsFiniteSet(1 .. Len(s)) /\ 1 .. Len(s) \subseteq Nat
    <3>1. 1 \in Int /\ Len(s) \in Int
      BY <1>1
    <3> QED BY <3>1, FS_Interval
  <2> QED BY <2>1, FS_Subset
<1>7. EachOnce(places, order)
  BY <1>6, OnceAscending
<1> HIDE DEF n, order, left
<1>8. /\ \A k \in 1 .. n : order[k] \in places
      /\ \A j, k \in 1 .. n : order[j] = order[k] => j = k
  BY <1>5, <1>7 DEF EachOnce
<1>9. \A j, k \in 1 .. Len(s) : s[j] = s[k] => j = k
  BY DEF EachOnce
<1>10. ASSUME NEW j \in 1 .. n, NEW k \in 1 .. n, left[j] = left[k] PROVE j = k
  <2>1. order[j] \in 1 .. Len(s) /\ order[k] \in 1 .. Len(s) /\ s[order[j]] = s[order[k]]
    BY <1>2, <1>8, <1>10
  <2> QED BY <1>8, <1>9, <2>1
<1>11. ASSUME NEW x \in {s[p] : p \in places} PROVE \E k \in 1 .. n : left[k] = x
  <2>1. PICK p \in places : s[p] = x
    OBVIOUS
  <2>2. PICK k \in 1 .. n : order[k] = p
    BY <1>5
  <2> QED BY <1>2, <2>1, <2>2
<1> QED BY <1>2, <1>4, <1>10, <1>11 DEF EachOnce, left

(* The first columns are no more than a table has, and some if there is any. *)
LEMMA LeadingColumns ==
  ASSUME NEW T, NEW s, EachOnce(T, s)
  PROVE  /\ Leading(s) \in Seq(T) /\ Len(Leading(s)) <= MaxColumns
         /\ \A j, k \in 1 .. Len(Leading(s)) : Leading(s)[j] = Leading(s)[k] => j = k
         /\ Leading(s) = <<>> => T = {}
<1> DEFINE c == IF MaxColumns < Len(s) THEN MaxColumns ELSE Len(s)
           lead == SubSeq(s, 1, c)
<1>1. s \in Seq(T) /\ Len(s) \in Nat
  BY DEF EachOnce
<1>2. MaxColumns \in Nat /\ MaxColumns > 0
  BY ShowAssumption
<1>3. c \in 0 .. Len(s) /\ c <= MaxColumns /\ (c = 0 => Len(s) = 0)
  BY <1>1, <1>2
<1>4. Leading(s) = lead
  BY DEF Leading
<1> HIDE DEF c
<1>5. lead \in Seq(T) /\ Len(lead) = c
  BY <1>1, <1>3, BeginningIs
<1>6. \A k \in 1 .. c : lead[k] = s[k] /\ k \in 1 .. Len(s)
  BY <1>1, <1>3
<1> HIDE DEF lead
<1>7. \A j, k \in 1 .. c : lead[j] = lead[k] => j = k
  BY <1>6 DEF EachOnce
<1>8. lead = <<>> => T = {}
  <2>1. lead = <<>> => Len(s) = 0
    BY <1>3, <1>5
  <2> QED BY <1>1, <2>1 DEF EachOnce
<1> QED BY <1>3, <1>4, <1>5, <1>7, <1>8

(* The first of the fields that qualify is one of them.                      *)
LEMMA EarliestIn ==
  ASSUME NEW S \in SUBSET Nat
  PROVE  Earliest(S) \subseteq S
<1>1. CASE S = {}
  BY <1>1 DEF Earliest
<1>2. CASE S # {}
  <2>1. PICK n \in S : \A m \in S : n <= m
    BY <1>2, Least
  <2>2. Min(S) \in S
    BY <2>1 DEF Min
  <2> QED BY <2>2 DEF Earliest
<1> QED BY <1>1, <1>2

(* The columns that a schema ranks are some of its names, none of them twice.*)
LEMMA RankedOnce ==
  ASSUME NEW schema, IsRowSchema(schema)
  PROVE  \E T : EachOnce(T, RankSchemaColumns(schema))
<1> DEFINE n == Len(schema)
           scalars == {i \in 1 .. n : schema[i].scalar}
           identity == Identity(schema, scalars)
           label == Label(schema, scalars \ identity)
           rest == scalars \ (identity \cup label)
           nullable == {i \in rest : schema[i].nullable}
           stamps == {i \in rest \ nullable : schema[i].format = "date-time"}
           others == rest \ (nullable \cup stamps)
           order == RankedBy(schema, identity, label, rest)
<1>1. n \in Nat /\ \A i, j \in 1 .. n : schema[i].name = schema[j].name => i = j
  BY DEF IsRowSchema
<1>2. scalars \in SUBSET (1 .. n) /\ scalars \in SUBSET Nat
  BY <1>1
<1>3. RankSchemaColumns(schema) = NamesIn(schema, order)
  BY DEF RankSchemaColumns, RankScalars, RankFrom, RankWith
<1>4. identity \subseteq scalars
  <2> DEFINE A == {i \in scalars : schema[i].format = "uuid" /\ ~schema[i].nullable}
             B == {i \in scalars : schema[i].name = "id"}
  <2>1. A \subseteq scalars /\ B \subseteq scalars
    OBVIOUS
  <2>2. identity = Earliest(A) \/ identity = Earliest(B)
    BY DEF Identity, EarliestOf
  <2> HIDE DEF A, B, scalars, identity
  <2>3. Earliest(A) \subseteq A /\ Earliest(B) \subseteq B
    BY <1>2, <2>1, EarliestIn
  <2> QED BY <2>1, <2>2, <2>3
<1>5. label \subseteq scalars \ identity
  <2> DEFINE A == {i \in scalars \ identity : schema[i].string /\ schema[i].format = "" /\ ~schema[i].nullable}
             B == {i \in A : ~schema[i].readOnly}
  <2>1. A \subseteq scalars \ identity /\ B \subseteq scalars \ identity
    OBVIOUS
  <2>2. label = Earliest(A) \/ label = Earliest(B)
    BY DEF Label, EarliestOf
  <2> HIDE DEF A, B, scalars, identity, label
  <2>3. Earliest(A) \subseteq A /\ Earliest(B) \subseteq B
    BY <1>2, <2>1, EarliestIn
  <2> QED BY <2>1, <2>2, <2>3
<1>6. order = Ascending(identity) \o Ascending(label) \o Ascending(stamps) \o Ascending(others) \o Ascending(nullable)
  <2> HIDE DEF scalars, identity, label, rest
  <2> QED BY DEF RankedBy
<1>7. nullable \subseteq rest /\ stamps \subseteq rest \ nullable
  OBVIOUS
<1> HIDE DEF scalars, identity, label, nullable, stamps, order
<1>8. ASSUME NEW S \in SUBSET scalars PROVE EachOnce(S, Ascending(S))
  <2>1. IsFiniteSet(1 .. n)
    <3>1. 1 \in Int /\ n \in Int
      BY <1>1
    <3> QED BY <3>1, FS_Interval
  <2>2. IsFiniteSet(S) /\ S \in SUBSET Nat
    BY <1>2, <2>1, FS_Subset
  <2> QED BY <2>2, OnceAscending
<1>9. /\ EachOnce(identity, Ascending(identity)) /\ EachOnce(label, Ascending(label))
      /\ EachOnce(stamps, Ascending(stamps)) /\ EachOnce(others, Ascending(others))
      /\ EachOnce(nullable, Ascending(nullable))
  BY <1>4, <1>5, <1>7, <1>8
<1>10. EachOnce(identity \cup label, Ascending(identity) \o Ascending(label))
  BY <1>5, <1>9, OnceJoined
<1>11. EachOnce(identity \cup label \cup stamps, Ascending(identity) \o Ascending(label) \o Ascending(stamps))
  <2>1. (identity \cup label) \cap stamps = {}
    BY <1>7
  <2> QED BY <1>9, <1>10, <2>1, OnceJoined
<1>12. EachOnce(identity \cup label \cup stamps \cup others,
            Ascending(identity) \o Ascending(label) \o Ascending(stamps) \o Ascending(others))
  <2>1. (identity \cup label \cup stamps) \cap others = {}
    OBVIOUS
  <2> QED BY <1>9, <1>11, <2>1, OnceJoined
<1>13. PICK All : EachOnce(All, order) /\ All \subseteq scalars
  <2> DEFINE All == identity \cup label \cup stamps \cup others \cup nullable
  <2>1. (identity \cup label \cup stamps \cup others) \cap nullable = {}
    BY <1>7
  <2>2. EachOnce(All, order)
    BY <1>6, <1>9, <1>12, <2>1, OnceJoined
  <2>3. All \subseteq scalars
    BY <1>4, <1>5, <1>7
  <2> QED BY <2>2, <2>3
<1> DEFINE T == {schema[i].name : i \in All}
           names == NamesIn(schema, order)
<1>14. /\ order \in Seq(All) /\ Len(order) \in Nat
       /\ \A j, k \in 1 .. Len(order) : order[j] = order[k] => j = k
       /\ \A x \in All : \E k \in 1 .. Len(order) : order[k] = x
  BY <1>13 DEF EachOnce
<1>15. names = [k \in 1 .. Len(order) |-> schema[order[k]].name]
  BY DEF NamesIn
<1> HIDE DEF names, n
<1>16. \A k \in 1 .. Len(order) : order[k] \in All /\ order[k] \in 1 .. n
  <2>1. \A k \in 1 .. Len(order) : order[k] \in All
    BY <1>14
  <2>2. \A i \in All : i \in 1 .. n
    BY <1>2, <1>13
  <2> QED BY <2>1, <2>2
<1>17. names \in Seq(T) /\ Len(names) = Len(order)
  BY <1>14, <1>15, <1>16
<1>18. ASSUME NEW j \in 1 .. Len(order), NEW k \in 1 .. Len(order), names[j] = names[k] PROVE j = k
  <2>1. schema[order[j]].name = schema[order[k]].name
    BY <1>15, <1>18
  <2>2. order[j] = order[k]
    BY <1>1, <1>16, <2>1
  <2> QED BY <1>14, <2>2
<1>19. ASSUME NEW x \in T PROVE \E k \in 1 .. Len(order) : names[k] = x
  <2>1. PICK i \in All : x = schema[i].name
    OBVIOUS
  <2>2. PICK k \in 1 .. Len(order) : order[k] = i
    BY <1>14
  <2> QED BY <1>15, <2>1, <2>2
<1> HIDE DEF T
<1>20. EachOnce(T, names)
  BY <1>17, <1>18, <1>19 DEF EachOnce
<1> QED BY <1>3, <1>20 DEF names

(* Without a schema, every key that something can be seen of is in the order.*)
LEMMA DataOnce ==
  ASSUME NEW rows, IsRows(rows), NEW nested
  PROVE  EachOnce(CarriedKeys(rows, nested), ByPriority(CarriedKeys(rows, nested)))
<1> DEFINE keys == CarriedKeys(rows, nested)
           n == Len(rows)
           domains == {DOMAIN rows[i] : i \in 1 .. n}
           Class(p) == {k \in keys : KeyPriority(k) = p}
<1>1. n \in Nat /\ \A i \in 1 .. n : IsFiniteSet(DOMAIN rows[i])
  BY DEF IsRows
<1>2. IsFiniteSet(keys)
  <2>1. IsFiniteSet(1 .. n)
    <3>1. 1 \in Int /\ n \in Int
      BY <1>1
    <3> HIDE DEF n
    <3> QED BY <3>1, FS_Interval
  <2>2. IsFiniteSet(domains)
    <3> DEFINE f == [i \in 1 .. n |-> DOMAIN rows[i]]
    <3>1. f \in Surjection(1 .. n, domains)
      BY DEF Surjection
    <3> HIDE DEF f, n
    <3> QED BY <2>1, <3>1, FS_Surjection
  <2>3. \A D \in domains : IsFiniteSet(D)
    BY <1>1
  <2>4. keys \subseteq UNION domains
    BY DEF CarriedKeys
  <2> HIDE DEF domains, keys
  <2> QED BY <2>2, <2>3, <2>4, FS_UNION, FS_Subset
<1>3. ByPriority(keys) = SetToSeq(Class(0)) \o SetToSeq(Class(1)) \o SetToSeq(Class(5)) \o SetToSeq(Class(6))
  BY DEF ByPriority
<1> HIDE DEF keys, n
<1>4. ASSUME NEW p PROVE EachOnce(Class(p), SetToSeq(Class(p)))
  <2>1. IsFiniteSet(Class(p))
    BY <1>2, FS_Subset
  <2> HIDE DEF Class
  <2> QED BY <2>1, OnceSetToSeq
<1>5. /\ Class(0) \cap Class(1) = {} /\ (Class(0) \cup Class(1)) \cap Class(5) = {}
      /\ (Class(0) \cup Class(1) \cup Class(5)) \cap Class(6) = {}
  OBVIOUS
<1>6. Class(0) \cup Class(1) \cup Class(5) \cup Class(6) = keys
  BY DEF KeyPriority
<1> HIDE DEF Class
<1>7. EachOnce(Class(0) \cup Class(1), SetToSeq(Class(0)) \o SetToSeq(Class(1)))
  BY <1>4, <1>5, OnceJoined
<1>8. EachOnce(Class(0) \cup Class(1) \cup Class(5), SetToSeq(Class(0)) \o SetToSeq(Class(1)) \o SetToSeq(Class(5)))
  BY <1>4, <1>5, <1>7, OnceJoined
<1>9. EachOnce(keys, ByPriority(keys))
  BY <1>3, <1>4, <1>5, <1>6, <1>8, OnceJoined
<1> QED BY <1>9 DEF keys

(* The columns of a table are few and differ, something can be seen in each, *)
(* and none of them is left out if there is anything to be seen.             *)
LEMMA ColumnsChosen ==
  ASSUME NEW rows, NEW schema, NEW nested, IsRows(rows), IsRowSchema(schema)
  PROVE  LET columns == SelectColumns(rows, schema, nested)
         IN  /\ Len(columns) \in Nat /\ Len(columns) <= MaxColumns
             /\ \A j, k \in 1 .. Len(columns) : columns[j] = columns[k] => j = k
             /\ \A k \in 1 .. Len(columns) : Carried(rows, columns[k])
             /\ columns = <<>> => CarriedKeys(rows, nested) = {}
             /\ DOMAIN columns = 1 .. Len(columns)
<1> DEFINE ranked == RankSchemaColumns(schema)
           places == {i \in 1 .. Len(ranked) : Carried(rows, ranked[i])}
           some == SchemaColumns(rows, schema)
           keys == CarriedKeys(rows, nested)
           columns == SelectColumns(rows, schema, nested)
<1>1. PICK T : EachOnce(T, ranked)
  BY RankedOnce
<1>2. some = Picked(ranked, places)
  BY DEF SchemaColumns
<1>3. EachOnce({ranked[p] : p \in places}, some)
  <2>1. places \in SUBSET (1 .. Len(ranked))
    OBVIOUS
  <2> HIDE DEF places, some, ranked
  <2> QED BY <1>1, <1>2, <2>1, OncePicked
<1>4. columns = IF some = <<>> THEN Leading(ByPriority(keys)) ELSE Leading(some)
  BY DEF SelectColumns, SelectDataColumns
<1>5. CASE some = <<>>
  <2>1. EachOnce(keys, ByPriority(keys))
    BY DataOnce
  <2>2. \A k \in keys : Carried(rows, k)
    BY DEF CarriedKeys
  <2>3. columns = Leading(ByPriority(keys))
    BY <1>4, <1>5
  <2> HIDE DEF keys, columns
  <2>4. /\ columns \in Seq(keys) /\ Len(columns) <= MaxColumns
        /\ \A j, k \in 1 .. Len(columns) : columns[j] = columns[k] => j = k
        /\ columns = <<>> => keys = {}
    BY <2>1, <2>3, LeadingColumns
  <2>5. Len(columns) \in Nat /\ DOMAIN columns = 1 .. Len(columns) /\ \A k \in 1 .. Len(columns) : columns[k] \in keys
    BY <2>4
  <2> QED BY <2>2, <2>4, <2>5 DEF keys, columns
<1>6. CASE some # <<>>
  <2> DEFINE shown == {ranked[p] : p \in places}
  <2>1. \A k \in shown : Carried(rows, k)
    OBVIOUS
  <2>2. columns = Leading(some)
    BY <1>4, <1>6
  <2>3. shown # {}
    <3> SUFFICES ASSUME shown = {} PROVE FALSE
      OBVIOUS
    <3>1. some \in Seq(shown)
      BY <1>3 DEF EachOnce
    <3> HIDE DEF some, shown
    <3> QED BY <1>6, <3>1
  <2> HIDE DEF shown, columns, some
  <2>4. /\ columns \in Seq(shown) /\ Len(columns) <= MaxColumns
        /\ \A j, k \in 1 .. Len(columns) : columns[j] = columns[k] => j = k
        /\ columns = <<>> => shown = {}
    <3>1. EachOnce(shown, some)
      BY <1>3 DEF shown
    <3> QED BY <2>2, <3>1, LeadingColumns
  <2>5. Len(columns) \in Nat /\ DOMAIN columns = 1 .. Len(columns) /\ \A k \in 1 .. Len(columns) : columns[k] \in shown
    BY <2>4
  <2> QED BY <2>1, <2>3, <2>4, <2>5 DEF columns
<1> QED BY <1>5, <1>6

(* The order of the rows makes no difference to them.                        *)
LEMMA ColumnsOfReverse ==
  ASSUME NEW rows, NEW schema, NEW nested, IsRows(rows)
  PROVE  SelectColumns(Reverse(rows), schema, nested) = SelectColumns(rows, schema, nested)
<1> DEFINE n == Len(rows)
           back == Reverse(rows)
<1>1. n \in Nat /\ back = [i \in 1 .. n |-> rows[n - i + 1]]
  BY DEF IsRows, Reverse
<1> HIDE DEF back, n
<1>2. Len(back) = n
  BY <1>1
<1>3. /\ \A i \in 1 .. n : n - i + 1 \in 1 .. n /\ back[i] = rows[n - i + 1]
      /\ \A i \in 1 .. n : rows[i] = back[n - i + 1]
  BY <1>1
<1>4. ASSUME NEW k PROVE Carried(back, k) = Carried(rows, k)
  <2>1. Carried(back, k) = \E i \in 1 .. n : k \in DOMAIN back[i] /\ HasContent(back[i][k])
    BY <1>2 DEF Carried
  <2>2. Carried(rows, k) = \E i \in 1 .. n : k \in DOMAIN rows[i] /\ HasContent(rows[i][k])
    BY DEF Carried, n
  <2> QED BY <1>3, <2>1, <2>2
<1>5. UNION {DOMAIN back[i] : i \in 1 .. n} = UNION {DOMAIN rows[i] : i \in 1 .. n}
  BY <1>3
<1>6. CarriedKeys(back, nested) = CarriedKeys(rows, nested)
  <2> DEFINE all == UNION {DOMAIN rows[i] : i \in 1 .. n}
  <2>1. CarriedKeys(back, nested) = {k \in all : k \notin nested /\ Carried(back, k)}
    BY <1>2, <1>5 DEF CarriedKeys
  <2>2. CarriedKeys(rows, nested) = {k \in all : k \notin nested /\ Carried(rows, k)}
    BY DEF CarriedKeys, n
  <2> HIDE DEF all
  <2> QED BY <1>4, <2>1, <2>2
<1>7. SchemaColumns(back, schema) = SchemaColumns(rows, schema)
  <2> DEFINE ranked == RankSchemaColumns(schema)
             Passing(r) == {i \in 1 .. Len(ranked) : Carried(r, ranked[i])}
  <2>1. SchemaColumns(back, schema) = Picked(ranked, Passing(back)) /\ SchemaColumns(rows, schema) = Picked(ranked, Passing(rows))
    BY DEF SchemaColumns
  <2> HIDE DEF ranked
  <2>2. Passing(back) = Passing(rows)
    BY <1>4
  <2> HIDE DEF Passing
  <2> QED BY <2>1, <2>2
<1>8. SelectColumns(back, schema, nested) = SelectColumns(rows, schema, nested)
  BY <1>6, <1>7 DEF SelectColumns, SelectDataColumns
<1> QED BY <1>8 DEF back

(* A text that was cleaned is clean.                                         *)
LEMMA CleanedSame ==
  ASSUME NEW clean \in Seq(CellCharacters)
  PROVE  Cleaned(clean) = clean
<1> DEFINE n == Len(clean)
           cleaned == [i \in 1 .. n |-> CleanChar(clean[i])]
           places == {i \in 1 .. n : cleaned[i] # <<>>}
           left == Picked(cleaned, places)
           order == Ascending(places)
<1>1. n \in Nat /\ clean = [i \in 1 .. n |-> clean[i]]
  OBVIOUS
<1>1a. \A i \in 1 .. n : clean[i] \in CellCharacters
  OBVIOUS
<1>2. Cleaned(clean) = [k \in 1 .. Len(left) |-> left[k][1]]
  BY DEF Cleaned
<1> HIDE DEF n
<1>3. \A i \in 1 .. n : cleaned[i] = <<clean[i]>>
  BY <1>1a DEF CellCharacters, CleanChar
<1>4. places = 1 .. n
  <2>1. \A i \in 1 .. n : cleaned[i] # <<>>
    <3>1. \A x : <<x>> # <<>>
      OBVIOUS
    <3> QED BY <1>3, <3>1
  <2> HIDE DEF cleaned
  <2> QED BY <2>1
<1> HIDE DEF cleaned
<1>5. Cardinality(1 .. n) = n
  <2>1. 1 \in Int /\ n \in Int /\ (1 > n => n = 0) /\ n - 1 + 1 = n
    BY <1>1
  <2> QED BY <1>1, <2>1, FS_Interval
<1>6. /\ InItsOrder(1 .. n, order) /\ Len(left) = n
      /\ \A k \in 1 .. n : left[k] = cleaned[order[k]]
  <2>1. places \in SUBSET (1 .. n)
    BY <1>4
  <2> HIDE DEF places
  <2>2. /\ InItsOrder(places, order) /\ Len(left) = Cardinality(places)
        /\ \A k \in 1 .. Cardinality(places) : left[k] = cleaned[order[k]]
    BY <1>1, <2>1, PickedFrom
  <2> HIDE DEF order, left
  <2> QED BY <1>4, <1>5, <2>2
<1> HIDE DEF places, left, order
<1>7. /\ \A k \in 1 .. n : order[k] \in 1 .. n
      /\ \A k \in 1 .. n : Cardinality({j \in 1 .. n : j < order[k]}) = k - 1
  <2> DEFINE S == 1 .. n
             rank(i) == Cardinality({j \in S : j < i})
  <2>1. /\ order \in Seq(S) /\ Len(order) = Cardinality(S)
        /\ \A k \in 1 .. Cardinality(S) : rank(order[k]) = k - 1
    BY <1>6 DEF InItsOrder
  <2>2. Cardinality(S) = n
    BY <1>5
  <2> HIDE DEF S, rank
  <2>3. \A k \in 1 .. n : order[k] \in S /\ rank(order[k]) = k - 1
    BY <2>1, <2>2
  <2> QED BY <2>3 DEF S, rank
<1>8. ASSUME NEW k \in 1 .. n PROVE order[k] = k
  <2> DEFINE m == order[k] - 1
  <2>1. order[k] \in 1 .. n /\ m \in Nat /\ m <= n
    BY <1>1, <1>7
  <2>2. {j \in 1 .. n : j < order[k]} = 1 .. m
    BY <1>1, <2>1
  <2>3. Cardinality(1 .. m) = m
    <3>1. 1 \in Int /\ m \in Int /\ (1 > m => m = 0) /\ m - 1 + 1 = m
      BY <2>1
    <3> HIDE DEF m
    <3> QED BY <2>1, <3>1, FS_Interval
  <2>4. m = k - 1
    <3> HIDE DEF m
    <3> QED BY <1>7, <2>2, <2>3
  <2> QED BY <1>1, <2>1, <2>4
<1>9. \A k \in 1 .. n : left[k] = <<clean[k]>>
  BY <1>3, <1>6, <1>8
<1>10. Cleaned(clean) = [k \in 1 .. n |-> clean[k]]
  BY <1>2, <1>6, <1>9
<1> QED BY <1>1, <1>10

(* A text is as wide as each of its characters.                              *)
LEMMA ColumnsAtLeast ==
  ASSUME NEW text \in Seq(Characters), NEW at \in 1 .. Len(text)
  PROVE  Columns(text) >= Width(text[at])
<1> DEFINE n == Len(text)
<1>1. n \in Nat /\ at \in 1 .. n
  OBVIOUS
<1>2. PICK f : /\ Columns(text) = f[n]
               /\ \A i \in 1 .. n : f[i] = f[i - 1] + Width(text[i])
               /\ \A i \in 0 .. n : f[i] \in Nat
  BY ColumnsSums
<1>3. \A c : Width(c) \in Nat
  BY DEF Width
<1> HIDE DEF n
<1> DEFINE bad == {i \in 0 .. n : at <= i /\ f[i] < Width(text[at])}
<1>4. bad = {}
  <2> SUFFICES ASSUME bad # {} PROVE FALSE
    OBVIOUS
  <2>1. PICK k \in bad : \A j \in bad : k <= j
    <3>1. bad \in SUBSET Nat
      BY <1>1
    <3> HIDE DEF bad
    <3> QED BY <3>1, Least
  <2>2. /\ k \in 1 .. n /\ k - 1 \in 0 .. n /\ f[k] = f[k - 1] + Width(text[k])
        /\ f[k] \in Nat /\ f[k - 1] \in Nat /\ Width(text[k]) \in Nat /\ Width(text[at]) \in Nat
        /\ k - 1 \notin bad /\ f[k] < Width(text[at])
    BY <1>1, <1>2, <1>3, <2>1
  <2>3. CASE k = at
    BY <2>2, <2>3
  <2>4. CASE k # at
    <3>1. at <= k - 1
      BY <1>1, <2>1, <2>2, <2>4
    <3>2. ~(f[k - 1] < Width(text[at]))
      BY <2>2, <3>1
    <3> QED BY <2>2, <3>2
  <2> QED BY <2>3, <2>4
<1>5. n \in 0 .. n /\ at <= n /\ f[n] \in Nat /\ Width(text[at]) \in Nat
  BY <1>1, <1>2, <1>3
<1> QED BY <1>2, <1>4, <1>5

(* A cell that shows a part of a text and that there is more has content, and*)
(* one that shows all of it has the content of the text.                     *)
LEMMA CellShowsContent ==
  ASSUME NEW text \in Seq(Characters), HasContent(text)
  PROVE  HasContent(SanitizeCell(text))
<1> DEFINE clean == Cleaned(text)
           cell == Append(SubSeq(clean, 1, Max(KeepsOfCell(clean))), "ellipsis")
<1>1. clean \in Seq(CellCharacters)
  BY CleanedType
<1>2. CASE FitsCell(clean)
  <2>1. SanitizeCell(text) = clean
    BY <1>2 DEF SanitizeCell
  <2>2. Cleaned(clean) = clean
    <3> HIDE DEF clean
    <3> QED BY <1>1, CleanedSame
  <2> QED BY <2>1, <2>2 DEF HasContent
<1>3. CASE ~FitsCell(clean)
  <2>1. SanitizeCell(text) = cell
    BY <1>3 DEF SanitizeCell
  <2> HIDE DEF clean
  <2> DEFINE keep == Max(KeepsOfCell(clean))
  <2>2. keep \in 0 .. Len(clean)
    BY <1>1, KeptOfCell
  <2> HIDE DEF keep
  <2>3. SubSeq(clean, 1, keep) \in Seq(CellCharacters) /\ Len(SubSeq(clean, 1, keep)) = keep
    BY <1>1, <2>2, BeginningIs
  <2>4. cell = Append(SubSeq(clean, 1, keep), "ellipsis")
    BY DEF keep
  <2> DEFINE n == keep + 1
             ends == ClusterEnds(cell)
             order == Ascending(ends)
             c == Cardinality(ends)
             from == IF c = 1 THEN 1 ELSE order[c - 1] + 1
             cluster == SubSeq(cell, from, n)
  <2>5. /\ n \in Nat /\ n >= 1 /\ cell \in Seq(CellCharacters) /\ Len(cell) = n /\ cell[n] = "ellipsis"
    <3>1. "ellipsis" \in CellCharacters /\ keep \in Nat
      BY <2>2 DEF CellCharacters
    <3> DEFINE part == SubSeq(clean, 1, keep)
    <3>2. part \in Seq(CellCharacters) /\ Len(part) = keep /\ cell = Append(part, "ellipsis")
      BY <2>3, <2>4
    <3> HIDE DEF part, cell
    <3>3. cell \in Seq(CellCharacters) /\ Len(cell) = keep + 1 /\ cell[keep + 1] = "ellipsis"
      BY <3>1, <3>2
    <3> QED BY <3>1, <3>3
  <2> HIDE DEF cell, n
  <2>6. Cleaned(cell) = cell
    BY <2>5, CleanedSame
  <2>7. /\ ends \in SUBSET (1 .. n) /\ n \in ends /\ ends \in SUBSET Nat
        /\ IsFiniteSet(ends) /\ c \in Nat /\ Len(Clusters(cell)) = c
    <3>1. IsFiniteSet(ends) /\ ends \in SUBSET (1 .. Len(cell)) /\ c \in Nat /\ Len(Clusters(cell)) = c
      BY <2>5, ClustersCount
    <3>2. n \in ends
      BY <2>5 DEF ClusterEnds
    <3> HIDE DEF ends, c
    <3>3. ends \in SUBSET (1 .. n) /\ ends \in SUBSET Nat
      BY <2>5, <3>1
    <3> QED BY <3>1, <3>2, <3>3
  <2>8. Clusters(cell) = [k \in 1 .. Len(order) |-> SubSeq(cell, IF k = 1 THEN 1 ELSE order[k - 1] + 1, order[k])]
    BY DEF Clusters
  <2> HIDE DEF ends
  <2>9. /\ order \in Seq(ends) /\ Len(order) = c /\ \A j, k \in 1 .. c : j < k => order[j] < order[k]
        /\ \A i \in ends : \E k \in 1 .. c : order[k] = i
    BY <2>7, AscendingOf DEF InItsOrder
  <2> HIDE DEF order, c
  <2>10. c \in 1 .. c /\ order[c] = n
    <3>1. PICK k \in 1 .. c : order[k] = n
      BY <2>7, <2>9
    <3>2. c \in 1 .. c /\ order[c] \in 1 .. n
      <4>1. c \in 1 .. c
        BY <2>7, <3>1
      <4>2. order[c] \in ends
        BY <2>9, <4>1
      <4> QED BY <2>7, <4>1, <4>2
    <3>3. k < c => n < order[c]
      BY <2>9, <3>1, <3>2
    <3> QED BY <2>5, <2>7, <3>1, <3>2, <3>3
  <2>11. from \in 1 .. n
    <3>1. CASE c = 1
      BY <2>5, <3>1
    <3>2. CASE c # 1
      <4>1. c - 1 \in 1 .. c /\ c - 1 < c
        BY <2>7, <2>10, <3>2
      <4>2. order[c - 1] \in ends /\ order[c - 1] < n
        BY <2>9, <2>10, <4>1
      <4>3. order[c - 1] \in 1 .. n
        BY <2>7, <4>2
      <4> QED BY <2>5, <3>2, <4>2, <4>3
    <3> QED BY <3>1, <3>2
  <2>12. Clusters(cell)[c] = cluster
    BY <2>8, <2>9, <2>10
  <2> HIDE DEF from
  <2> DEFINE len == n - from + 1
  <2>13. cluster \in Seq(CellCharacters) /\ len \in 1 .. Len(cluster) /\ cluster[len] = "ellipsis"
    <3>1. /\ from \in Int /\ n \in Int /\ from <= n /\ len \in Nat /\ len >= 1 /\ len \in 1 .. n - from + 1
          /\ from + len - 1 = n
      BY <2>5, <2>11
    <3>2. \A i \in from .. n : cell[i] \in CellCharacters
      BY <2>5, <2>11
    <3>3. /\ cluster \in Seq(CellCharacters) /\ Len(cluster) = n - from + 1
          /\ \A i \in 1 .. n - from + 1 : cluster[i] = cell[from + i - 1]
      BY <3>1, <3>2, SubSeqProperties
    <3> HIDE DEF cluster
    <3>4. cluster[len] = cell[n]
      <4> HIDE DEF len
      <4> QED BY <3>1, <3>3
    <3> QED BY <2>5, <3>1, <3>3, <3>4
  <2> HIDE DEF cluster, len
  <2>14. Columns(cluster) > 0
    <3>1. cluster \in Seq(Characters)
      <4>1. CellCharacters \subseteq Characters
        BY DEF CellCharacters, Characters
      <4> QED BY <2>13, <4>1
    <3>2. Columns(cluster) >= 1 /\ Columns(cluster) \in Nat
      <4>1. Columns(cluster) >= Width(cluster[len])
        BY <2>13, <3>1, ColumnsAtLeast
      <4>2. Width(cluster[len]) = 1
        BY <2>13 DEF Width
      <4> QED BY <3>1, <4>1, <4>2, ColumnsType
    <3> QED BY <3>2
  <2>15. HasContent(cell)
    <3>1. \E j \in 1 .. Len(cluster) : cluster[j] # "space"
      <4>1. cluster[len] # "space"
        BY <2>13
      <4> QED BY <2>13, <4>1
    <3>2. /\ c \in 1 .. Len(Clusters(Cleaned(cell))) /\ Clusters(Cleaned(cell))[c] = cluster
      BY <2>6, <2>7, <2>10, <2>12
    <3> QED BY <2>14, <3>1, <3>2 DEF HasContent
  <2> QED BY <2>1, <2>15
<1> QED BY <1>2, <1>3

(* Whatever rows a server sends and whatever schema the operation has: the   *)
(* table shows what there is (render.rs select_columns, sanitize_cell).      *)
THEOREM TablesTellForAll ==
  ASSUME NEW rows, NEW schema, NEW nested, IsRows(rows), IsRowSchema(schema)
  PROVE  TableTells(rows, schema, nested)
<1> DEFINE columns == SelectColumns(rows, schema, nested)
           Cell(i, k) == IF k \in DOMAIN rows[i] THEN SanitizeCell(rows[i][k]) ELSE <<>>
<1>1. /\ Len(columns) \in Nat /\ Len(columns) <= MaxColumns /\ DOMAIN columns = 1 .. Len(columns)
      /\ \A j, k \in 1 .. Len(columns) : columns[j] = columns[k] => j = k
      /\ \A k \in 1 .. Len(columns) : Carried(rows, columns[k])
      /\ columns = <<>> => CarriedKeys(rows, nested) = {}
  BY ColumnsChosen
<1>2. columns = SelectColumns(Reverse(rows), schema, nested)
  BY ColumnsOfReverse
<1> HIDE DEF columns
<1>3. Range(columns) = {columns[k] : k \in 1 .. Len(columns)}
  BY <1>1 DEF Range
<1>4. \A i \in 1 .. Len(rows) : \A k \in DOMAIN rows[i] : rows[i][k] \in Seq(Characters)
  BY DEF IsRows
<1>5. IsInjective(columns)
  BY <1>1 DEF IsInjective
<1>6. ASSUME NEW k \in Range(columns) PROVE \E i \in 1 .. Len(rows) : HasContent(Cell(i, k))
  <2>1. Carried(rows, k)
    BY <1>1, <1>3
  <2>2. PICK i \in 1 .. Len(rows) : k \in DOMAIN rows[i] /\ HasContent(rows[i][k])
    BY <2>1 DEF Carried
  <2>3. HasContent(SanitizeCell(rows[i][k]))
    BY <1>4, <2>2, CellShowsContent
  <2> QED BY <2>2, <2>3
<1>7. ASSUME columns = <<>>, NEW i \in 1 .. Len(rows), NEW k \in DOMAIN rows[i] \ nested
      PROVE  ~HasContent(rows[i][k])
  <2> SUFFICES ASSUME HasContent(rows[i][k]) PROVE FALSE
    OBVIOUS
  <2>1. Carried(rows, k) /\ k \in UNION {DOMAIN rows[j] : j \in 1 .. Len(rows)}
    BY DEF Carried
  <2>2. k \in CarriedKeys(rows, nested)
    BY <2>1 DEF CarriedKeys
  <2> QED BY <1>1, <1>7, <2>2
<1>8. ASSUME NEW i \in 1 .. Len(rows), NEW k \in Range(columns) PROVE CellIsSafe(Cell(i, k))
  <2>1. CASE k \in DOMAIN rows[i]
    BY <1>4, <2>1, CellsAreSafe
  <2>2. CASE k \notin DOMAIN rows[i]
    <3> DEFINE none == <<>>
    <3>1. none \in Seq(Characters) /\ none \in Seq(CellCharacters) /\ Len(none) = 0
      OBVIOUS
    <3>2. Columns(none) = 0
      BY <3>1, ColumnsSums
    <3>3. Len(Clusters(none)) = 0
      <4>1. ClusterEnds(none) = {}
        BY <3>1 DEF ClusterEnds
      <4> HIDE DEF none
      <4> QED BY <3>1, <4>1, ClustersCount, FS_EmptySet
    <3>4. Range(none) \subseteq CellCharacters
      BY DEF Range
    <3>5. Cell(i, k) = none
      BY <2>2
    <3> HIDE DEF none, Cell
    <3> QED BY <3>1, <3>2, <3>3, <3>4, <3>5, ShowAssumption DEF CellIsSafe
  <2> QED BY <2>1, <2>2
<1>9. /\ Len(columns) <= MaxColumns /\ IsInjective(columns)
      /\ columns = SelectColumns(Reverse(rows), schema, nested)
      /\ \A k \in Range(columns) : \E i \in 1 .. Len(rows) : HasContent(Cell(i, k))
      /\ columns = <<>> => \A i \in 1 .. Len(rows) : \A k \in DOMAIN rows[i] \ nested : ~HasContent(rows[i][k])
      /\ \A i \in 1 .. Len(rows), k \in Range(columns) : CellIsSafe(Cell(i, k))
  BY <1>1, <1>2, <1>5, <1>6, <1>7, <1>8
<1> QED BY <1>9, Zenon DEF TableTells, columns
=============================================================================
