-------------------------- MODULE AppTimer_proofs --------------------------
(***************************************************************************)
(* Proofs about AppTimer, for any finite set of timers, any timeouts the   *)
(* counter can tell apart (TimesFit) and any number of ticks that pass     *)
(* while interrupt work is outstanding, of an application that uses the    *)
(* module with care (Usage = {}).                                          *)
(*                                                                         *)
(* The properties are about two lists at once: the one the interrupts      *)
(* walk, which holds distances and wrapping counter values, and the time   *)
(* that is really left of each timer.  Three facts carry the argument.     *)
(* The sums of the distances are preserved by every insertion and removal, *)
(* so each timer keeps its place in time (DistInv).  A timer that is       *)
(* marked as running is in the list and due, and one that is in the list   *)
(* or due without being marked is accounted for by a walk, a batch or a    *)
(* stop in the queue (RunningInv).  And CC[0] lies at most as far behind   *)
(* the i-th timer as Late(i) (Bounded), which is kept when a timer leaves, *)
(* because the others then move up one place.                              *)
(***************************************************************************)
EXTENDS AppTimer, FiniteSetTheorems, SequenceTheorems, WellFoundedInduction, TLAPS

-----------------------------------------------------------------------------
(* Sums of distances.  After(l, n) is a sum over the list, by a recursive  *)
(* function: it is the only function that satisfies its equation, which is *)
(* what every fact about it below is derived from.                         *)

\* Induction over the natural numbers, for a set instead of a predicate.
LEMMA SetInduction ==
    ASSUME NEW S, 0 \in S, \A n \in Nat : n \in S => n + 1 \in S
    PROVE  \A n \in Nat : n \in S
<1> SUFFICES ASSUME NEW m \in Nat, m \notin S PROVE FALSE
  OBVIOUS
<1> DEFINE T == {n \in Nat : n \notin S}
<1>1. T \subseteq Nat /\ T # {}
  OBVIOUS
<1>2. PICK x \in T : \A y \in T : ~(<<y, x>> \in OpToRel(<, Nat))
  <2> HIDE DEF T
  <2> QED BY <1>1, WFMin, NatLessThanWellFounded
<1>3. \A y \in T : ~(y < x)
  BY <1>2, <1>1 DEF OpToRel
<1>4. x \in Nat /\ x \notin S
  BY <1>1
<1>5. x # 0
  BY <1>4
<1>6. x - 1 \in Nat /\ x - 1 < x
  BY <1>4, <1>5
<1>7. x - 1 \in S
  BY <1>3, <1>6
<1>8. x \in S
  BY <1>6, <1>7, <1>4
<1> QED BY <1>8, <1>4

\* Partial sums exist.
LEMMA SumsExist ==
    ASSUME NEW n \in Nat, NEW d \in [1 .. n -> Nat]
    PROVE  \E f \in [0 .. n -> Nat] : f[0] = 0 /\ \A i \in 1 .. n : f[i] = f[i - 1] + d[i]
<1> DEFINE IsSum(m, f) == /\ f \in [0 .. m -> Nat] /\ f[0] = 0
                           /\ \A i \in 1 .. m : f[i] = f[i - 1] + d[i]
           S == {m \in Nat : m <= n => \E f : IsSum(m, f)}
<1>1. \E f : IsSum(0, f)
  <2>1. IsSum(0, [i \in 0 .. 0 |-> 0])
    OBVIOUS
  <2> QED  BY <2>1
<1>2. ASSUME NEW m \in Nat, NEW f, IsSum(m, f), m + 1 <= n
      PROVE  \E g : IsSum(m + 1, g)
  <2> DEFINE g == [i \in 0 .. m + 1 |-> IF i = m + 1 THEN f[m] + d[m + 1] ELSE f[i]]
  <2>1. f[m] \in Nat /\ d[m + 1] \in Nat
    BY <1>2
  <2>2. g \in [0 .. m + 1 -> Nat] /\ g[0] = 0
    BY <1>2, <2>1
  <2>3. ASSUME NEW i \in 1 .. m + 1 PROVE g[i] = g[i - 1] + d[i]
    <3>1. g[i - 1] = f[i - 1]
      OBVIOUS
    <3>2. CASE i = m + 1
      BY <3>1, <3>2
    <3>3. CASE i # m + 1
      <4>1. i \in 1 .. m
        BY <3>3
      <4>2. f[i] = f[i - 1] + d[i]
        BY <4>1, <1>2
      <4> QED  BY <3>1, <3>3, <4>2
    <3> QED  BY <3>2, <3>3
  <2>4. IsSum(m + 1, g)
    <3> HIDE DEF g
    <3> QED  BY <2>2, <2>3
  <2> QED  BY <2>4
<1>3. 0 \in S
  BY <1>1
<1>4. ASSUME NEW m \in Nat, m \in S PROVE m + 1 \in S
  <2> HIDE DEF IsSum
  <2> QED  BY <1>2, <1>4
<1>5. n \in S
  <2> HIDE DEF S
  <2> QED  BY <1>3, <1>4, SetInduction
<1>6. \E f : IsSum(n, f)
  <2> HIDE DEF IsSum
  <2> QED  BY <1>5
<1> QED  BY <1>6

\* The ticks from the last interrupt to a timer are the sum of the distances.
LEMMA AfterIsSum ==
    ASSUME NEW l, Len(l) \in Nat, NEW n, \A i \in 1 .. Len(l) : n[l[i]].toExpire \in Nat
    PROVE  /\ After(l, n) \in [0 .. Len(l) -> Nat]
           /\ After(l, n)[0] = 0
           /\ \A i \in 1 .. Len(l) : After(l, n)[i] = After(l, n)[i - 1] + n[l[i]].toExpire
<1> DEFINE d == [i \in 1 .. Len(l) |-> n[l[i]].toExpire]
           Is(f) == f = [i \in 0 .. Len(l) |-> IF i = 0 THEN 0 ELSE f[i - 1] + n[l[i]].toExpire]
<1>1. d \in [1 .. Len(l) -> Nat]
  OBVIOUS
<1>2. PICK f \in [0 .. Len(l) -> Nat] :
           f[0] = 0 /\ \A i \in 1 .. Len(l) : f[i] = f[i - 1] + d[i]
  <2> HIDE DEF d
  <2> QED  BY <1>1, SumsExist
<1>3. Is(f)
  BY <1>2
<1>4. After(l, n) = CHOOSE g : Is(g)
  BY DEF After
<1>5. Is(After(l, n))
  <2> HIDE DEF Is
  <2> QED  BY <1>3, <1>4
<1> DEFINE a == After(l, n)
<1>6. a = [i \in 0 .. Len(l) |-> IF i = 0 THEN 0 ELSE a[i - 1] + n[l[i]].toExpire]
  BY <1>5
<1> HIDE DEF a
<1>7. a[0] = 0 /\ \A i \in 1 .. Len(l) : a[i] = a[i - 1] + n[l[i]].toExpire
  BY <1>6
<1> DEFINE S == {j \in Nat : j <= Len(l) => a[j] \in Nat}
<1>8. \A i \in Nat : i \in S
  <2>1. ASSUME NEW j \in Nat, j <= Len(l) => a[j] \in Nat, j + 1 <= Len(l)
        PROVE  a[j + 1] \in Nat
    <3>1. a[j + 1] = a[j] + n[l[j + 1]].toExpire
      BY <1>7, <2>1
    <3> QED  BY <3>1, <2>1
  <2>2. 0 \in S /\ \A j \in Nat : j \in S => j + 1 \in S
    BY <2>1, <1>7
  <2> HIDE DEF S
  <2> QED  BY <2>2, SetInduction
<1>9. a \in [0 .. Len(l) -> Nat]
  BY <1>6, <1>8
<1> QED  BY <1>7, <1>9 DEF a

\* Whatever adds up the distances in the same way is that sum.
LEMMA AfterUnique ==
    ASSUME NEW l, Len(l) \in Nat, NEW n, \A i \in 1 .. Len(l) : n[l[i]].toExpire \in Nat,
           NEW g \in [0 .. Len(l) -> Int], g[0] = 0,
           \A i \in 1 .. Len(l) : g[i] = g[i - 1] + n[l[i]].toExpire
    PROVE  After(l, n) = g
<1> DEFINE a == After(l, n)
           d == [i \in 1 .. Len(l) |-> n[l[i]].toExpire]
           S == {i \in Nat : i <= Len(l) => a[i] = g[i]}
<1>1. /\ a \in [0 .. Len(l) -> Nat] /\ a[0] = 0
      /\ \A i \in 1 .. Len(l) : a[i] = a[i - 1] + n[l[i]].toExpire
  BY AfterIsSum
<1> HIDE DEF a
<1>2. 0 \in S
  BY <1>1
<1>3. ASSUME NEW i \in Nat, i \in S PROVE i + 1 \in S
  <2> SUFFICES ASSUME i + 1 <= Len(l) PROVE a[i + 1] = g[i + 1]
    OBVIOUS
  <2>1. i + 1 \in 1 .. Len(l) /\ (i + 1) - 1 = i
    OBVIOUS
  <2>2. a[i + 1] = a[i] + n[l[i + 1]].toExpire /\ g[i + 1] = g[i] + n[l[i + 1]].toExpire
    BY <1>1, <2>1
  <2>3. a[i] = g[i]
    BY <1>3
  <2> QED  BY <2>2, <2>3
<1>4. \A i \in Nat : i \in S
  <2> HIDE DEF S
  <2> QED  BY <1>2, <1>3, SetInduction
<1>5. \A i \in 0 .. Len(l) : a[i] = g[i]
  BY <1>4
<1>6. a = g
  BY <1>1, <1>5
<1> QED  BY <1>6 DEF a

\* No timer expires before its predecessor.
LEMMA AfterGrows ==
    ASSUME NEW l, Len(l) \in Nat, NEW n, \A i \in 1 .. Len(l) : n[l[i]].toExpire \in Nat
    PROVE  \A i, j \in 0 .. Len(l) : i <= j => After(l, n)[i] <= After(l, n)[j]
<1> DEFINE a == After(l, n)
<1>1. /\ \A i \in 0 .. Len(l) : a[i] \in Nat
      /\ \A i \in 1 .. Len(l) : a[i] = a[i - 1] + n[l[i]].toExpire
  BY AfterIsSum
<1> HIDE DEF a
<1> SUFFICES ASSUME NEW i \in 0 .. Len(l)
             PROVE  \A j \in 0 .. Len(l) : i <= j => a[i] <= a[j]
  BY DEF a
<1> DEFINE S == {j \in Nat : i + j <= Len(l) => a[i] <= a[i + j]}
<1>2. 0 \in S
  BY <1>1
<1>3. ASSUME NEW j \in Nat, j \in S PROVE j + 1 \in S
  <2> SUFFICES ASSUME i + (j + 1) <= Len(l) PROVE a[i] <= a[i + (j + 1)]
    OBVIOUS
  <2>1. a[i] <= a[i + j]
    BY <1>3
  <2>2. i + (j + 1) \in 1 .. Len(l) /\ i + j \in 0 .. Len(l) /\ i + (j + 1) - 1 = i + j
    <3>1. i \in Int /\ 0 <= i /\ Len(l) \in Int
      OBVIOUS
    <3>2. j \in Int /\ 0 <= j /\ i + (j + 1) <= Len(l)
      OBVIOUS
    <3> QED
      BY ONLY <3>1, <3>2
  <2>3. a[i + (j + 1)] = a[i + j] + n[l[i + (j + 1)]].toExpire
    BY <1>1, <2>2
  <2>4. n[l[i + (j + 1)]].toExpire \in Nat
    BY <2>2
  <2> QED  BY <1>1, <2>1, <2>2, <2>3, <2>4
<1>4. \A j \in Nat : j \in S
  <2> HIDE DEF S
  <2> QED  BY <1>2, <1>3, SetInduction
<1>5. ASSUME NEW j \in 0 .. Len(l), i <= j PROVE a[i] <= a[j]
  <2>1. j - i \in Nat /\ i + (j - i) = j
    BY <1>5
  <2>2. j - i \in S
    BY <2>1, <1>4
  <2> QED  BY <2>1, <2>2
<1> QED  BY <1>5

\* The distances of the timers in a list are all that matters.
LEMMA AfterKept ==
    ASSUME NEW l, Len(l) \in Nat, NEW n, NEW m,
           \A i \in 1 .. Len(l) : n[l[i]].toExpire \in Nat /\ m[l[i]].toExpire = n[l[i]].toExpire
    PROVE  After(l, m) = After(l, n)
<1> DEFINE a == After(l, n)
<1>1. /\ a \in [0 .. Len(l) -> Nat] /\ a[0] = 0
      /\ \A i \in 1 .. Len(l) : a[i] = a[i - 1] + n[l[i]].toExpire
  BY AfterIsSum
<1> HIDE DEF a
<1>2. a \in [0 .. Len(l) -> Int] /\ \A i \in 1 .. Len(l) : a[i] = a[i - 1] + m[l[i]].toExpire
  BY <1>1
<1>3. \A i \in 1 .. Len(l) : m[l[i]].toExpire \in Nat
  OBVIOUS
<1>4. After(l, m) = a
  BY <1>1, <1>2, <1>3, AfterUnique
<1> QED  BY <1>4 DEF a

-----------------------------------------------------------------------------
(* Differences of counter values, which wrap at CounterRange.              *)

\* The counter wraps.
LEMMA ModIs ==
    ASSUME NEW R \in Nat \ {0}, NEW x \in Int
    PROVE  /\ x >= 0 /\ x < R => x % R = x
           /\ x >= R /\ x < 2 * R => x % R = x - R
           /\ x >= -R /\ x < 0 => x % R = x + R
<1>1. ASSUME x >= 0, x < R PROVE x % R = x
  BY <1>1
<1>2. ASSUME x >= R, x < 2 * R PROVE x % R = x - R
  <2>1. x - R \in 0 .. R - 1 /\ x = R + (x - R)
    BY <1>2
  <2> QED BY <2>1
<1>3. ASSUME x >= -R, x < 0 PROVE x % R = x + R
  <2>1. x + R \in 0 .. R - 1 /\ x = (x + R) - R
    BY <1>3
  <2> QED BY <2>1
<1> QED BY <1>1,<1>2,<1>3

\* A value of the counter is a number below CounterRange.
LEMMA RangeIs == CounterRange \in Nat /\ CounterRange >= 1 /\ \A c : c \in Ticks <=> c \in Nat /\ c < CounterRange
<1>1. CounterRange \in Nat \ {0}
  BY TimerAssumption
<1> QED  BY <1>1 DEF Ticks

\* The difference of two counter values, without the remainder.
LEMMA DiffIs ==
    ASSUME NEW now \in Ticks, NEW old \in Ticks
    PROVE  /\ ticks_diff_get(now, old) \in Ticks
           /\ old <= now => ticks_diff_get(now, old) = now - old
           /\ now < old => ticks_diff_get(now, old) = now - old + CounterRange
<1>1. CounterRange \in Nat \ {0}
  BY TimerAssumption
<1> DEFINE r == (now - old) % CounterRange
<1>2. now \in Nat /\ old \in Nat /\ now < CounterRange /\ old < CounterRange
  BY RangeIs
<1>3. now - old \in Int
  BY <1>2
<1>4. /\ old <= now => r = now - old
      /\ now < old => r = now - old + CounterRange
  <2>1. /\ now - old >= 0 /\ now - old < CounterRange => (now - old) % CounterRange = now - old
        /\ now - old >= -CounterRange /\ now - old < 0 => (now - old) % CounterRange = now - old + CounterRange
    BY <1>1, <1>3, ModIs
  <2> QED BY <2>1, <1>1, <1>2
<1>5. ticks_diff_get(now, old) = r
  BY DEF ticks_diff_get
<1> HIDE DEF r
<1>6. r \in Nat /\ r < CounterRange
  BY <1>1, <1>2, <1>4
<1> QED  BY <1>4, <1>5, <1>6, RangeIs

\* A later reading of the counter.
Ahead(c, n) == (c + n) % CounterRange

\* The counter value n ticks ahead, without the remainder.
LEMMA AheadIs ==
    ASSUME NEW c \in Ticks, NEW n \in 0 .. CounterRange
    PROVE  /\ Ahead(c, n) \in Ticks
           /\ c + n < CounterRange => Ahead(c, n) = c + n
           /\ c + n >= CounterRange => Ahead(c, n) = c + n - CounterRange
<1>1. CounterRange \in Nat \ {0}
  BY TimerAssumption
<1> DEFINE x == c + n
           r == x % CounterRange
<1>2. c \in Nat /\ c < CounterRange /\ n \in Nat /\ n <= CounterRange
  BY RangeIs
<1>3. Ahead(c, n) = r
  BY DEF Ahead
<1>4. x \in Int /\ x = c + n
  BY <1>2
<1> HIDE DEF x
<1>5. x >= 0 /\ x < 2 * CounterRange
  BY <1>1, <1>2, <1>4
<1>6. /\ x < CounterRange => r = x
      /\ x >= CounterRange => r = x - CounterRange
  BY <1>1, <1>4, <1>5, ModIs
<1> HIDE DEF r
<1>7. r \in Nat /\ r < CounterRange
  BY <1>1, <1>2, <1>4, <1>6
<1> QED  BY <1>3, <1>4, <1>6, <1>7, RangeIs

\* When the counter advances by n ticks, so does its distance to an old value, as
\* long as it does not reach CounterRange.
LEMMA DiffAhead ==
    ASSUME NEW now \in Ticks, NEW old \in Ticks, NEW n \in Nat,
           ticks_diff_get(now, old) + n < CounterRange
    PROVE  /\ Ahead(now, n) \in Ticks
           /\ ticks_diff_get(Ahead(now, n), old) = ticks_diff_get(now, old) + n
<1>1. n \in 0 .. CounterRange
  BY RangeIs, DiffIs
<1>2. Ahead(now, n) \in Ticks
  BY <1>1, AheadIs
<1> DEFINE b == Ahead(now, n)
<1>3. /\ now + n < CounterRange => b = now + n
      /\ now + n >= CounterRange => b = now + n - CounterRange
  BY <1>1, AheadIs
<1> HIDE DEF b
<1>4. b \in Ticks
  BY <1>2 DEF b
<1> DEFINE d == ticks_diff_get(now, old)
           e == ticks_diff_get(b, old)
<1>5. /\ old <= now => d = now - old
      /\ now < old => d = now - old + CounterRange
      /\ d \in Ticks
  BY DiffIs
<1>6. /\ old <= b => e = b - old
      /\ b < old => e = b - old + CounterRange
      /\ e \in Ticks
  BY DiffIs, <1>4
<1> HIDE DEF d, e
<1>7. d + n < CounterRange
  BY DEF d
<1>8. e = d + n
  BY <1>1, <1>3, <1>4, <1>5, <1>6, <1>7, RangeIs
<1> QED  BY <1>4, <1>8 DEF b, d, e

\* When an old value advances by n ticks and does not overtake the counter, their
\* distance shrinks by n.
LEMMA DiffBehind ==
    ASSUME NEW now \in Ticks, NEW old \in Ticks, NEW n \in Nat, n <= ticks_diff_get(now, old)
    PROVE  /\ Ahead(old, n) \in Ticks
           /\ ticks_diff_get(now, Ahead(old, n)) = ticks_diff_get(now, old) - n
<1>1. n \in 0 .. CounterRange
  BY RangeIs, DiffIs
<1>2. Ahead(old, n) \in Ticks
  BY <1>1, AheadIs
<1> DEFINE b == Ahead(old, n)
<1>3. /\ old + n < CounterRange => b = old + n
      /\ old + n >= CounterRange => b = old + n - CounterRange
  BY <1>1, AheadIs
<1> HIDE DEF b
<1>4. b \in Ticks
  BY <1>2 DEF b
<1> DEFINE d == ticks_diff_get(now, old)
           e == ticks_diff_get(now, b)
<1>5. /\ old <= now => d = now - old
      /\ now < old => d = now - old + CounterRange
      /\ d \in Ticks
  BY DiffIs
<1>6. /\ b <= now => e = now - b
      /\ now < b => e = now - b + CounterRange
      /\ e \in Ticks
  BY DiffIs, <1>4
<1> HIDE DEF d, e
<1>7. n <= d
  BY DEF d
<1>8. e = d - n
  BY <1>1, <1>3, <1>4, <1>5, <1>6, <1>7, RangeIs
<1> QED  BY <1>4, <1>8 DEF b, d, e

\* A value n ticks ahead of another is n ticks from it.
LEMMA DiffFrom ==
    ASSUME NEW old \in Ticks, NEW n \in Ticks
    PROVE  ticks_diff_get(Ahead(old, n), old) = n /\ Ahead(old, n) \in Ticks
<1>1. ticks_diff_get(old, old) = 0
  BY DiffIs, RangeIs
<1>2. n \in Nat /\ n < CounterRange
  BY RangeIs
<1>3. ticks_diff_get(old, old) + n < CounterRange
  BY <1>1, <1>2
<1>4. ticks_diff_get(Ahead(old, n), old) = ticks_diff_get(old, old) + n /\ Ahead(old, n) \in Ticks
  BY <1>2, <1>3, DiffAhead
<1> QED  BY <1>1, <1>2, <1>4

\* A value is as far from zero as it is large, and not far from itself.
LEMMA DiffZero ==
    ASSUME NEW now \in Ticks
    PROVE  ticks_diff_get(now, 0) = now /\ 0 \in Ticks /\ ticks_diff_get(now, now) = 0
BY DiffIs, RangeIs
\* Two readings compared with a third.
LEMMA DiffDiff ==
    ASSUME NEW now \in Ticks, NEW at \in Ticks, NEW old \in Ticks
    PROVE  /\ ticks_diff_get(at, old) <= ticks_diff_get(now, old) =>
                ticks_diff_get(now, at) = ticks_diff_get(now, old) - ticks_diff_get(at, old)
           /\ ticks_diff_get(at, old) > ticks_diff_get(now, old) =>
                ticks_diff_get(now, at) = ticks_diff_get(now, old) - ticks_diff_get(at, old) + CounterRange
<1> DEFINE d == ticks_diff_get(now, at)
           e == ticks_diff_get(now, old)
           f == ticks_diff_get(at, old)
<1>5. /\ at <= now => d = now - at
      /\ now < at => d = now - at + CounterRange
      /\ d \in Ticks
  BY DiffIs
<1>6. /\ old <= now => e = now - old
      /\ now < old => e = now - old + CounterRange
      /\ e \in Ticks
  BY DiffIs
<1>7. /\ old <= at => f = at - old
      /\ at < old => f = at - old + CounterRange
      /\ f \in Ticks
  BY DiffIs
<1> HIDE DEF d, e, f
<1>8. /\ f <= e => d = e - f
      /\ f > e => d = e - f + CounterRange
  BY <1>5, <1>6, <1>7, RangeIs
<1> QED  BY <1>8 DEF d, e, f

-----------------------------------------------------------------------------
(* Inserting into a sequence and removing from it.                         *)

\* What a part of a sequence holds.
LEMMA SubSeqIs ==
    ASSUME NEW S, NEW l \in Seq(S), NEW a \in Nat, NEW b \in Nat, 1 <= a, a <= b + 1, b <= Len(l)
    PROVE  /\ SubSeq(l, a, b) \in Seq(S) /\ Len(SubSeq(l, a, b)) = b - a + 1
           /\ \A i \in 1 .. b - a + 1 : SubSeq(l, a, b)[i] = l[a + i - 1]
<1>1. CASE a <= b
  <2>1. \A i \in a .. b : l[i] \in S
    BY <1>1
  <2> QED  BY <1>1, <2>1, SubSeqProperties
<1>2. CASE a = b + 1
  BY <1>2, SubSeqProperties
<1> QED  BY <1>1, <1>2

\* What two sequences, one after the other, hold.
LEMMA ConcatIs ==
    ASSUME NEW S, NEW l \in Seq(S), NEW m \in Seq(S), NEW r, r = l \o m
    PROVE  /\ r \in Seq(S) /\ Len(r) = Len(l) + Len(m)
           /\ \A i \in 1 .. Len(l) : r[i] = l[i]
           /\ \A i \in 1 .. Len(m) : r[Len(l) + i] = m[i]
BY ConcatProperties

\* t inserted after the first k elements of l.
With(l, t, k) == SubSeq(l, 1, k) \o <<t>> \o SubSeq(l, k + 1, Len(l))

\* l without its k-th element.
Without(l, k) == SubSeq(l, 1, k - 1) \o SubSeq(l, k + 1, Len(l))

\* Where the elements are after an insertion.
LEMMA InsertSeq ==
    ASSUME NEW S, NEW l \in Seq(S), NEW t \in S, NEW k \in 0 .. Len(l), NEW m, m = With(l, t, k)
    PROVE  /\ m \in Seq(S) /\ Len(m) = Len(l) + 1
           /\ \A i \in 1 .. k : m[i] = l[i]
           /\ m[k + 1] = t
           /\ \A i \in k + 2 .. Len(l) + 1 : m[i] = l[i - 1]
<1> DEFINE p == SubSeq(l, 1, k)
           q == SubSeq(l, k + 1, Len(l))
           o == <<t>>
           po == p \o o
           r == po \o q
<1>0. Len(l) \in Nat /\ k \in Nat /\ k <= Len(l)
  OBVIOUS
<1>1. Len(p) = k /\ \A i \in 1 .. k : p[i] = l[i]
  <2>1. /\ Len(p) = k - 1 + 1
        /\ \A i \in 1 .. k - 1 + 1 : p[i] = l[1 + i - 1]
    BY <1>0, SubSeqIs
  <2> QED  BY <2>1, <1>0
<1>1a. p \in Seq(S)
  BY <1>0, SubSeqIs
<1>2. Len(q) = Len(l) - k /\ \A i \in 1 .. Len(l) - k : q[i] = l[k + i]
  <2>1. /\ Len(q) = Len(l) - (k + 1) + 1
        /\ \A i \in 1 .. Len(l) - (k + 1) + 1 : q[i] = l[(k + 1) + i - 1]
    BY <1>0, SubSeqIs
  <2> QED  BY <2>1, <1>0
<1>2a. q \in Seq(S)
  BY <1>0, SubSeqIs
<1>3. Len(o) = 1 /\ o[1] = t
  OBVIOUS
<1>3a. o \in Seq(S)
  OBVIOUS
<1>4. r = po \o q
  OBVIOUS
<1>5. po = p \o o
  OBVIOUS
<1> HIDE DEF p, q, o, po, r
<1>6. /\ Len(po) = Len(p) + Len(o)
      /\ \A i \in 1 .. Len(p) : po[i] = p[i]
      /\ \A i \in 1 .. Len(o) : po[Len(p) + i] = o[i]
  BY <1>1a, <1>3a, <1>5, ConcatIs
<1>6a. po \in Seq(S)
  BY <1>1a, <1>3a, <1>5, ConcatIs
<1>8. /\ Len(r) = Len(po) + Len(q)
      /\ \A i \in 1 .. Len(po) : r[i] = po[i]
      /\ \A i \in 1 .. Len(q) : r[Len(po) + i] = q[i]
  <2>1. Len(r) = Len(po) + Len(q)
    BY <1>2a, <1>6a, <1>4, ConcatIs
  <2>2. \A i \in 1 .. Len(po) : r[i] = po[i]
    BY <1>2a, <1>6a, <1>4, ConcatIs
  <2>3. \A i \in 1 .. Len(q) : r[Len(po) + i] = q[i]
    BY <1>2a, <1>6a, <1>4, ConcatIs
  <2> QED  BY <2>1, <2>2, <2>3
<1>8a. r \in Seq(S)
  BY <1>2a, <1>6a, <1>4, ConcatIs
<1>9. ASSUME NEW i \in k + 2 .. Len(l) + 1 PROVE r[i] = l[i - 1]
  <2> DEFINE j == i - k - 1
  <2>1. j \in 1 .. Len(l) - k /\ (k + 1) + j = i /\ k + j = i - 1
    BY <1>0
  <2> HIDE DEF j
  <2>2. j \in 1 .. Len(q) /\ Len(po) + j = i
    BY <2>1, <1>1, <1>2, <1>3, <1>6, <1>0
  <2>3. r[i] = q[j] /\ q[j] = l[k + j]
    BY <2>1, <2>2, <1>8, <1>2
  <2> QED  BY <2>1, <2>3
<1>10. ASSUME NEW i \in 1 .. k PROVE r[i] = l[i]
  <2>1. i \in 1 .. Len(po) /\ i \in 1 .. Len(p)
    BY <1>0, <1>1, <1>3, <1>6
  <2>2. r[i] = po[i] /\ po[i] = p[i] /\ p[i] = l[i]
    BY <2>1, <1>8, <1>6, <1>1
  <2> QED  BY <2>2
<1>11. r[k + 1] = t
  <2>1. k + 1 \in 1 .. Len(po) /\ 1 \in 1 .. Len(o)
    BY <1>0, <1>1, <1>3, <1>6
  <2>2. po[Len(p) + 1] = o[1]
    BY <2>1, <1>6
  <2>3. r[k + 1] = po[k + 1]
    BY <2>1, <1>8
  <2> QED  BY <2>2, <2>3, <1>3, <1>1
<1>12. Len(r) = Len(l) + 1
  <2>1. /\ Len(r) = Len(po) + Len(q) /\ Len(po) = Len(p) + Len(o)
        /\ Len(p) = k /\ Len(o) = 1 /\ Len(q) = Len(l) - k
    BY <1>8, <1>6, <1>1, <1>2, <1>3
  <2> QED  BY <2>1, <1>0
<1>13. m = r
  BY DEF With, r, po, p, q, o
<1> QED  BY <1>8a, <1>9, <1>10, <1>11, <1>12, <1>13
\* With, r, po, p, q, o

\* Where the elements are after a removal.
LEMMA RemoveSeq ==
    ASSUME NEW S, NEW l \in Seq(S), NEW k \in 1 .. Len(l), NEW m, m = Without(l, k)
    PROVE  /\ m \in Seq(S) /\ Len(m) = Len(l) - 1
           /\ \A i \in 1 .. k - 1 : m[i] = l[i]
           /\ \A i \in k .. Len(l) - 1 : m[i] = l[i + 1]
<1> DEFINE p == SubSeq(l, 1, k - 1)
           q == SubSeq(l, k + 1, Len(l))
           r == p \o q
<1>0. Len(l) \in Nat /\ k \in Nat /\ k <= Len(l) /\ k >= 1
  OBVIOUS
<1>1. Len(p) = k - 1 /\ \A i \in 1 .. k - 1 : p[i] = l[i]
  <2>1. /\ Len(p) = (k - 1) - 1 + 1
        /\ \A i \in 1 .. (k - 1) - 1 + 1 : p[i] = l[1 + i - 1]
    BY <1>0, SubSeqIs
  <2> QED  BY <2>1, <1>0
<1>1a. p \in Seq(S)
  BY <1>0, SubSeqIs
<1>2. Len(q) = Len(l) - k /\ \A i \in 1 .. Len(l) - k : q[i] = l[k + i]
  <2>1. /\ Len(q) = Len(l) - (k + 1) + 1
        /\ \A i \in 1 .. Len(l) - (k + 1) + 1 : q[i] = l[(k + 1) + i - 1]
    BY <1>0, SubSeqIs
  <2> QED  BY <2>1, <1>0
<1>2a. q \in Seq(S)
  BY <1>0, SubSeqIs
<1>4. r = p \o q
  OBVIOUS
<1> HIDE DEF p, q, r
<1>8. /\ Len(r) = Len(p) + Len(q)
      /\ \A i \in 1 .. Len(p) : r[i] = p[i]
      /\ \A i \in 1 .. Len(q) : r[Len(p) + i] = q[i]
  <2>1. Len(r) = Len(p) + Len(q)
    BY <1>1a, <1>2a, <1>4, ConcatIs
  <2>2. \A i \in 1 .. Len(p) : r[i] = p[i]
    BY <1>1a, <1>2a, <1>4, ConcatIs
  <2>3. \A i \in 1 .. Len(q) : r[Len(p) + i] = q[i]
    BY <1>1a, <1>2a, <1>4, ConcatIs
  <2> QED  BY <2>1, <2>2, <2>3
<1>8a. r \in Seq(S)
  BY <1>1a, <1>2a, <1>4, ConcatIs
<1>9. ASSUME NEW i \in k .. Len(l) - 1 PROVE r[i] = l[i + 1]
  <2> DEFINE j == i - k + 1
  <2>1. j \in 1 .. Len(l) - k /\ (k - 1) + j = i /\ k + j = i + 1
    BY <1>0
  <2> HIDE DEF j
  <2>2. j \in 1 .. Len(q) /\ Len(p) + j = i
    BY <2>1, <1>1, <1>2, <1>0
  <2>3. r[i] = q[j] /\ q[j] = l[k + j]
    BY <2>1, <2>2, <1>8, <1>2
  <2> QED  BY <2>1, <2>3
<1>10. ASSUME NEW i \in 1 .. k - 1 PROVE r[i] = l[i]
  <2>1. i \in 1 .. Len(p)
    BY <1>0, <1>1
  <2>2. r[i] = p[i] /\ p[i] = l[i]
    BY <2>1, <1>8, <1>1
  <2> QED  BY <2>2
<1>12. Len(r) = Len(l) - 1
  <2>1. Len(r) = Len(p) + Len(q) /\ Len(p) = k - 1 /\ Len(q) = Len(l) - k
    BY <1>8, <1>1, <1>2
  <2> QED  BY <2>1, <1>0
<1>13. m = r
  BY DEF Without, r, p, q
<1> QED  BY <1>8a, <1>9, <1>10, <1>12, <1>13
\* Without, r, p, q

-----------------------------------------------------------------------------
(* timer_list_insert: the list stays sound, and every timer keeps its place*)
(* in time.                                                                *)

\* A timer_node_t, whatever the timer.
Node == [toExpire : Nat, atStart : Nat, first : Nat, periodic : Nat, isRunning : BOOLEAN]

\* A list of timers, none of them twice, with their nodes.
IsList(l, n) == /\ l \in Seq(Timers) /\ n \in [Timers -> Node]
                /\ \A i, j \in 1 .. Len(l) : l[i] = l[j] => i = j

\* The sums over a list.
LEMMA AfterOfList ==
    ASSUME NEW l, NEW n, IsList(l, n)
    PROVE  /\ Len(l) \in Nat
           /\ \A i \in 1 .. Len(l) : l[i] \in Timers /\ n[l[i]].toExpire \in Nat
           /\ After(l, n) \in [0 .. Len(l) -> Nat] /\ After(l, n)[0] = 0
           /\ \A i \in 1 .. Len(l) : After(l, n)[i] = After(l, n)[i - 1] + n[l[i]].toExpire
           /\ \A i, j \in 0 .. Len(l) : i <= j => After(l, n)[i] <= After(l, n)[j]
<1>1. Len(l) \in Nat /\ \A i \in 1 .. Len(l) : l[i] \in Timers /\ n[l[i]].toExpire \in Nat
  BY DEF IsList, Node
<1>2. Len(l) \in Nat /\ \A i \in 1 .. Len(l) : n[l[i]].toExpire \in Nat
  BY <1>1
<1>3. /\ After(l, n) \in [0 .. Len(l) -> Nat] /\ After(l, n)[0] = 0
      /\ \A i \in 1 .. Len(l) : After(l, n)[i] = After(l, n)[i - 1] + n[l[i]].toExpire
  BY <1>2, AfterIsSum
<1>4. \A i, j \in 0 .. Len(l) : i <= j => After(l, n)[i] <= After(l, n)[j]
  BY <1>2, AfterGrows
<1> QED  BY <1>1, <1>3, <1>4

\* A place for ticks among sums that grow.
LEMMA PlaceExists ==
    ASSUME NEW m \in Nat, NEW a \in [0 .. m -> Nat], NEW x \in Nat
    PROVE  \E k \in 0 .. m : (\A j \in 1 .. k : a[j] < x) /\ (k < m => a[k + 1] >= x)
<1> SUFFICES ASSUME \A k \in 0 .. m : ~((\A j \in 1 .. k : a[j] < x) /\ (k < m => a[k + 1] >= x))
             PROVE  FALSE
  OBVIOUS
<1>0. ASSUME NEW k \in 0 .. m, \A j \in 1 .. k : a[j] < x PROVE k < m /\ a[k + 1] < x
  <2>1. k < m /\ ~(a[k + 1] >= x)
    BY <1>0
  <2>2. a[k + 1] \in Nat
    BY <2>1
  <2> QED  BY <2>1, <2>2
<1> DEFINE S == {k \in Nat : k <= m => \A j \in 1 .. k : a[j] < x}
<1>1. 0 \in S
  OBVIOUS
<1>2. ASSUME NEW k \in Nat, k \in S PROVE k + 1 \in S
  <2> SUFFICES ASSUME k + 1 <= m, NEW j \in 1 .. k + 1 PROVE a[j] < x
    OBVIOUS
  <2>1. k \in 0 .. m /\ \A i \in 1 .. k : a[i] < x
    BY <1>2
  <2>2. a[k + 1] < x
    BY <2>1, <1>0
  <2> QED  BY <2>1, <2>2
<1>3. \A k \in Nat : k \in S
  <2> HIDE DEF S
  <2> QED  BY <1>1, <1>2, SetInduction
<1>4. m \in 0 .. m /\ \A j \in 1 .. m : a[j] < x
  BY <1>3
<1> QED  BY <1>4, <1>0

\* Timer t, with its ticks from the last interrupt, enters the list at k + 1.
IsInsert(l, n, t, k, lm, nm) ==
    LET a == After(l, n)
        x == n[t].toExpire
    IN  /\ k \in 0 .. Len(l)
        /\ \A j \in 1 .. k : a[j] < x
        /\ k < Len(l) => a[k + 1] >= x
        /\ lm = With(l, t, k)
        /\ nm = [u \in Timers |->
                    IF u = t THEN [n[t] EXCEPT !.toExpire = x - a[k]]
                    ELSE IF k < Len(l) /\ u = l[k + 1]
                         THEN [n[u] EXCEPT !.toExpire = a[k + 1] - x]
                         ELSE n[u]]

\* What timer_list_insert does.
LEMMA InsertIs ==
    ASSUME NEW l, NEW n, IsList(l, n), NEW t \in Timers
    PROVE  \E k : IsInsert(l, n, t, k, timer_list_insert(l, n, t).list, timer_list_insert(l, n, t).node)
<1> DEFINE a == After(l, n)
           x == n[t].toExpire
           Fits(i) == (\A j \in 1 .. i : a[j] < x) /\ (i < Len(l) => a[i + 1] >= x)
           k == CHOOSE i \in 0 .. Len(l) : Fits(i)
           L(i) == With(l, t, i)
           N(i) == [u \in Timers |->
                     IF u = t THEN [n[t] EXCEPT !.toExpire = x - a[i]]
                     ELSE IF i < Len(l) /\ u = l[i + 1]
                          THEN [n[u] EXCEPT !.toExpire = a[i + 1] - x]
                          ELSE n[u]]
<1>1. x \in Nat /\ Len(l) \in Nat /\ a \in [0 .. Len(l) -> Nat]
  BY AfterOfList DEF IsList, Node
<1>2. \E i \in 0 .. Len(l) : Fits(i)
  <2> HIDE DEF a, x
  <2> QED  BY <1>1, PlaceExists
<1>3. k \in 0 .. Len(l) /\ Fits(k)
  <2> HIDE DEF Fits
  <2> QED  BY <1>2
<1>4. timer_list_insert(l, n, t) = [list |-> L(k), node |-> N(k)]
  BY DEF timer_list_insert, With
<1>5. timer_list_insert(l, n, t).list = L(k) /\ timer_list_insert(l, n, t).node = N(k)
  <2> HIDE DEF L, N, k
  <2> QED  BY <1>4
<1>6. IsInsert(l, n, t, k, L(k), N(k))
  <2> HIDE DEF k
  <2> QED  BY <1>3 DEF IsInsert
<1> HIDE DEF L, N, k
<1> QED  BY <1>5, <1>6

\* Two nodes that differ in toExpire at most.
SameBut(u, v) == /\ u.atStart = v.atStart /\ u.first = v.first /\ u.periodic = v.periodic
                 /\ u.isRunning <=> v.isRunning

\* After timer_list_insert the list is sound, holds t behind the first k timers, and
\* no other field of any node has changed.
LEMMA InsertKeeps ==
    ASSUME NEW l, NEW n, IsList(l, n), NEW t \in Timers, \A i \in 1 .. Len(l) : l[i] # t,
           NEW k, NEW lm, NEW nm, IsInsert(l, n, t, k, lm, nm)
    PROVE  /\ IsList(lm, nm) /\ Len(lm) = Len(l) + 1 /\ k \in 0 .. Len(l)
           /\ \A i \in 1 .. k : lm[i] = l[i]
           /\ lm[k + 1] = t
           /\ \A i \in k + 2 .. Len(l) + 1 : lm[i] = l[i - 1]
           /\ \A u \in Timers : SameBut(nm[u], n[u])
           /\ \A u \in Timers : u # t /\ (\A i \in 1 .. Len(l) : l[i] # u) => nm[u] = n[u]
<1> DEFINE a == After(l, n)
           x == n[t].toExpire
<1>1. /\ x \in Nat /\ Len(l) \in Nat /\ a \in [0 .. Len(l) -> Nat] /\ a[0] = 0
      /\ l \in Seq(Timers) /\ n \in [Timers -> Node]
      /\ \A i, j \in 1 .. Len(l) : l[i] = l[j] => i = j
  BY AfterOfList DEF IsList, Node
<1>2. /\ k \in 0 .. Len(l)
      /\ \A j \in 1 .. k : a[j] < x
      /\ k < Len(l) => a[k + 1] >= x
      /\ lm = With(l, t, k)
      /\ nm = [u \in Timers |->
                    IF u = t THEN [n[t] EXCEPT !.toExpire = x - a[k]]
                    ELSE IF k < Len(l) /\ u = l[k + 1]
                         THEN [n[u] EXCEPT !.toExpire = a[k + 1] - x]
                         ELSE n[u]]
  BY DEF IsInsert
<1> HIDE DEF a, x
<1>3. /\ lm \in Seq(Timers) /\ Len(lm) = Len(l) + 1
      /\ \A i \in 1 .. k : lm[i] = l[i]
      /\ lm[k + 1] = t
      /\ \A i \in k + 2 .. Len(l) + 1 : lm[i] = l[i - 1]
  <2>1. l \in Seq(Timers) /\ k \in 0 .. Len(l) /\ lm = With(l, t, k)
    BY <1>1, <1>2
  <2>2. lm \in Seq(Timers) /\ Len(lm) = Len(l) + 1
    BY <2>1, InsertSeq
  <2>3. \A i \in 1 .. k : lm[i] = l[i]
    BY <2>1, InsertSeq
  <2>4. lm[k + 1] = t
    BY <2>1, InsertSeq
  <2>5. \A i \in k + 2 .. Len(l) + 1 : lm[i] = l[i - 1]
    BY <2>1, InsertSeq
  <2> QED  BY <2>2, <2>3, <2>4, <2>5
<1>4. x - a[k] \in Nat /\ (k < Len(l) => a[k + 1] - x \in Nat)
  <2>1. a[k] \in Nat /\ (k < Len(l) => a[k + 1] \in Nat)
    BY <1>1, <1>2
  <2>2. a[k] <= x
    <3>1. CASE k = 0
      BY <3>1, <1>1
    <3>2. CASE k # 0
      <4>1. k \in 1 .. k
        BY <3>2, <1>2
      <4> QED  BY <4>1, <1>2, <2>1, <1>1
    <3> QED  BY <3>1, <3>2
  <2> QED  BY <2>1, <2>2, <1>1, <1>2
<1>5. \A u \in Timers : nm[u] \in Node /\ SameBut(nm[u], n[u])
  <2> TAKE u \in Timers
  <2>1. n[u] \in Node /\ n[t] \in Node
    BY <1>1
  <2>2. CASE u = t
    <3>1. nm[u] = [n[t] EXCEPT !.toExpire = x - a[k]]
      BY <2>2, <1>2
    <3> QED  BY <3>1, <2>1, <2>2, <1>4 DEF Node, SameBut
  <2>3. CASE u # t /\ k < Len(l) /\ u = l[k + 1]
    <3>1. nm[u] = [n[u] EXCEPT !.toExpire = a[k + 1] - x]
      BY <2>3, <1>2
    <3> QED  BY <3>1, <2>1, <2>3, <1>4 DEF Node, SameBut
  <2>4. CASE u # t /\ ~(k < Len(l) /\ u = l[k + 1])
    <3>1. nm[u] = n[u]
      BY <2>4, <1>2
    <3> QED  BY <3>1, <2>1 DEF SameBut
  <2> QED  BY <2>2, <2>3, <2>4
<1>6. nm \in [Timers -> Node]
  BY <1>2, <1>5
<1>7. ASSUME NEW i \in 1 .. Len(lm), NEW j \in 1 .. Len(lm), lm[i] = lm[j] PROVE i = j
  <2>0. k \in Nat /\ k <= Len(l)
    BY <1>1, <1>2
  <2>1. ASSUME NEW p \in 1 .. Len(lm), p # k + 1
        PROVE  \E q \in 1 .. Len(l) : /\ lm[p] = l[q] /\ l[q] # t
                                      /\ (p <= k /\ q = p) \/ (p > k + 1 /\ q = p - 1)
    <3>1. CASE p <= k
      <4>1. p \in 1 .. k /\ p \in 1 .. Len(l)
        BY <3>1, <2>0, <1>1
      <4>2. lm[p] = l[p] /\ l[p] # t
        BY <4>1, <1>3
      <4> QED  BY <3>1, <4>1, <4>2
    <3>2. CASE ~(p <= k)
      <4>1. p \in k + 2 .. Len(l) + 1 /\ p - 1 \in 1 .. Len(l) /\ p > k + 1
        BY <3>2, <2>0, <1>1, <1>3, <2>1
      <4>2. lm[p] = l[p - 1] /\ l[p - 1] # t
        BY <4>1, <1>3
      <4> QED  BY <4>1, <4>2
    <3> QED  BY <3>1, <3>2
  <2>2. CASE i = k + 1 /\ j # k + 1
    BY <2>1, <2>2, <1>7, <1>3
  <2>3. CASE i # k + 1 /\ j = k + 1
    BY <2>1, <2>3, <1>7, <1>3
  <2>4. CASE i # k + 1 /\ j # k + 1
    <3>1. PICK p \in 1 .. Len(l) : lm[i] = l[p] /\ ((i <= k /\ p = i) \/ (i > k + 1 /\ p = i - 1))
      BY <2>1, <2>4
    <3>2. PICK q \in 1 .. Len(l) : lm[j] = l[q] /\ ((j <= k /\ q = j) \/ (j > k + 1 /\ q = j - 1))
      BY <2>1, <2>4
    <3>3. p = q
      BY <3>1, <3>2, <1>7, <1>1
    <3>4. i \in Nat /\ j \in Nat
      BY <1>3
    <3> QED  BY <3>1, <3>2, <3>3, <3>4, <2>0
  <2> QED  BY <2>2, <2>3, <2>4
<1>8. ASSUME NEW u \in Timers, u # t, \A i \in 1 .. Len(l) : l[i] # u PROVE nm[u] = n[u]
  <2>1. ~(k < Len(l) /\ u = l[k + 1])
    BY <1>8, <1>1, <1>2
  <2> QED  BY <2>1, <1>8, <1>2
<1>9. IsList(lm, nm)
  BY <1>3, <1>6, <1>7 DEF IsList
<1>10. \A u \in Timers : SameBut(nm[u], n[u])
  BY <1>5
<1>11. k \in 0 .. Len(l)
  BY <1>2
<1> QED  BY <1>3, <1>8, <1>9, <1>10, <1>11

\* timer_list_insert puts t at its own time and leaves the others at theirs; those
\* before t expire before it.
LEMMA InsertAfter ==
    ASSUME NEW l, NEW n, IsList(l, n), NEW t \in Timers, \A i \in 1 .. Len(l) : l[i] # t,
           NEW k, NEW lm, NEW nm, IsInsert(l, n, t, k, lm, nm)
    PROVE  /\ \A i \in 1 .. k : After(lm, nm)[i] = After(l, n)[i] /\ After(l, n)[i] < n[t].toExpire
           /\ After(lm, nm)[k + 1] = n[t].toExpire
           /\ \A i \in k + 2 .. Len(l) + 1 : After(lm, nm)[i] = After(l, n)[i - 1]
                                          /\ After(l, n)[i - 1] >= n[t].toExpire
<1> DEFINE a == After(l, n)
           x == n[t].toExpire
           g == [i \in 0 .. Len(l) + 1 |-> IF i <= k THEN a[i] ELSE IF i = k + 1 THEN x ELSE a[i - 1]]
<1>1. /\ x \in Nat /\ Len(l) \in Nat /\ a \in [0 .. Len(l) -> Nat] /\ a[0] = 0
      /\ \A i \in 1 .. Len(l) : a[i] = a[i - 1] + n[l[i]].toExpire
      /\ \A i, j \in 0 .. Len(l) : i <= j => a[i] <= a[j]
      /\ l \in Seq(Timers) /\ n \in [Timers -> Node]
      /\ \A i, j \in 1 .. Len(l) : l[i] = l[j] => i = j
  BY AfterOfList DEF IsList, Node
<1>2. /\ k \in 0 .. Len(l)
      /\ \A j \in 1 .. k : a[j] < x
      /\ k < Len(l) => a[k + 1] >= x
      /\ nm = [u \in Timers |->
                    IF u = t THEN [n[t] EXCEPT !.toExpire = x - a[k]]
                    ELSE IF k < Len(l) /\ u = l[k + 1]
                         THEN [n[u] EXCEPT !.toExpire = a[k + 1] - x]
                         ELSE n[u]]
  BY DEF IsInsert
<1>3. /\ IsList(lm, nm) /\ Len(lm) = Len(l) + 1
      /\ \A i \in 1 .. k : lm[i] = l[i]
      /\ lm[k + 1] = t
      /\ \A i \in k + 2 .. Len(l) + 1 : lm[i] = l[i - 1]
  BY InsertKeeps
<1> HIDE DEF a, x
<1>4. g \in [0 .. Len(lm) -> Int] /\ g[0] = 0
  BY <1>1, <1>2, <1>3
<1>5. ASSUME NEW i \in 1 .. Len(lm) PROVE g[i] = g[i - 1] + nm[lm[i]].toExpire
  <2>0. n[t] \in Node
    BY <1>1
  <2>1. CASE i <= k
    <3>1. i \in 1 .. k /\ i \in 1 .. Len(l) /\ i - 1 \in 0 .. Len(l) + 1 /\ i - 1 <= k
      BY <2>1, <1>2, <1>1
    <3>2. g[i] = a[i] /\ g[i - 1] = a[i - 1] /\ lm[i] = l[i]
      BY <3>1, <1>3, <2>1
    <3>3. l[i] # t /\ ~(k < Len(l) /\ l[i] = l[k + 1])
      BY <3>1, <1>1, <1>2
    <3>4. nm[lm[i]] = n[l[i]]
      BY <3>1, <3>2, <3>3, <1>1, <1>2
    <3> QED  BY <3>1, <3>2, <3>4, <1>1
  <2>2. CASE i = k + 1
    <3>1. g[i] = x /\ g[i - 1] = a[k] /\ lm[i] = t
      BY <2>2, <1>2, <1>3
    <3>2. nm[t].toExpire = x - a[k]
      BY <1>2, <2>0 DEF Node
    <3>3. a[k] \in Nat
      BY <1>1, <1>2
    <3> QED  BY <3>1, <3>2, <3>3, <1>1
  <2>3. CASE i = k + 2
    <3>0. k + 1 \in 1 .. Len(l) /\ k < Len(l)
      BY <2>3, <1>2, <1>3, <1>1
    <3>1. g[i] = a[k + 1] /\ g[i - 1] = x /\ lm[i] = l[k + 1]
      BY <2>3, <1>2, <1>3, <3>0
    <3>2. l[k + 1] # t /\ l[k + 1] \in Timers
      BY <3>0, <1>1
    <3>3. nm[l[k + 1]].toExpire = a[k + 1] - x
      BY <1>2, <3>0, <3>2, <1>1 DEF Node
    <3>4. a[k + 1] \in Nat
      BY <1>1, <3>0
    <3> QED  BY <3>1, <3>3, <3>4, <1>1
  <2>4. CASE i > k + 2
    <3>1. i \in k + 2 .. Len(l) + 1 /\ i - 1 \in 1 .. Len(l) /\ i - 2 \in 0 .. Len(l) /\ (i - 1) - 1 = i - 2
      BY <2>4, <1>2, <1>3, <1>1
    <3>2. g[i] = a[i - 1] /\ g[i - 1] = a[i - 2] /\ lm[i] = l[i - 1]
      BY <2>4, <3>1, <1>2, <1>3
    <3>3. l[i - 1] # t /\ ~(k < Len(l) /\ l[i - 1] = l[k + 1]) /\ l[i - 1] \in Timers
      <4>1. l[i - 1] # t /\ l[i - 1] \in Timers
        BY <3>1, <1>1
      <4>2. ASSUME k < Len(l), l[i - 1] = l[k + 1] PROVE FALSE
        <5>1. k \in Nat /\ k + 1 \in 1 .. Len(l)
          BY <4>2, <1>1, <1>2
        <5>2. i - 1 = k + 1
          BY <5>1, <4>2, <3>1, <1>1
        <5> QED  BY <5>1, <5>2, <2>4
      <4> QED  BY <4>1, <4>2
    <3>4. nm[lm[i]] = n[l[i - 1]]
      BY <3>2, <3>3, <1>2
    <3>5. a[i - 1] = a[i - 2] + n[l[i - 1]].toExpire
      BY <3>1, <1>1
    <3> QED  BY <3>2, <3>4, <3>5
  <2> QED  BY <2>1, <2>2, <2>3, <2>4, <1>2, <1>3
<1>6. Len(lm) \in Nat /\ \A i \in 1 .. Len(lm) : nm[lm[i]].toExpire \in Nat
  BY <1>3, AfterOfList
<1>7. After(lm, nm) = g
  <2> HIDE DEF g
  <2> QED  BY <1>4, <1>5, <1>6, AfterUnique
<1>8. /\ \A i \in 1 .. k : g[i] = a[i] /\ a[i] < x
      /\ g[k + 1] = x
      /\ \A i \in k + 2 .. Len(l) + 1 : g[i] = a[i - 1]
  BY <1>1, <1>2
<1>9. ASSUME NEW i \in k + 2 .. Len(l) + 1 PROVE a[i - 1] >= x
  <2>1. k + 1 \in 0 .. Len(l) /\ i - 1 \in 0 .. Len(l) /\ k + 1 <= i - 1 /\ k < Len(l)
    BY <1>1, <1>2
  <2>2. a[k + 1] <= a[i - 1] /\ a[k + 1] >= x /\ a[k + 1] \in Nat /\ a[i - 1] \in Nat
    BY <2>1, <1>1, <1>2
  <2> QED  BY <2>2, <1>1
<1> HIDE DEF g
<1> QED  BY <1>7, <1>8, <1>9 DEF a, x

-----------------------------------------------------------------------------
(* timer_list_remove.                                                      *)

\* The fields of a timer that is not in the list are a node.
LEMMA UnlistedIsNode == Unlisted \in Node
BY DEF Unlisted, Node

\* The k-th timer leaves the list.
IsRemove(l, n, k, lm, nm) ==
    /\ k \in 1 .. Len(l)
    /\ lm = Without(l, k)
    /\ LET t == l[k]
           stopped == [n EXCEPT ![t] = Unlisted]
       IN  nm = IF k = Len(l) THEN stopped
                ELSE [stopped EXCEPT ![l[k + 1]].toExpire = @ + n[t].toExpire]

\* After timer_list_remove the list is sound and holds the others in their order.
LEMMA RemoveKeeps ==
    ASSUME NEW l, NEW n, IsList(l, n), NEW k, NEW lm, NEW nm, IsRemove(l, n, k, lm, nm)
    PROVE  /\ IsList(lm, nm) /\ Len(lm) = Len(l) - 1 /\ k \in 1 .. Len(l) /\ l[k] \in Timers
           /\ \A i \in 1 .. k - 1 : lm[i] = l[i]
           /\ \A i \in k .. Len(l) - 1 : lm[i] = l[i + 1]
           /\ nm[l[k]] = Unlisted
           /\ \A u \in Timers : u # l[k] => SameBut(nm[u], n[u])
           /\ \A u \in Timers : (\A i \in 1 .. Len(l) : l[i] # u) => nm[u] = n[u]
<1> DEFINE t == l[k]
           x == n[t].toExpire
           stopped == [n EXCEPT ![t] = Unlisted]
<1>1. /\ Len(l) \in Nat /\ l \in Seq(Timers) /\ n \in [Timers -> Node]
      /\ \A i, j \in 1 .. Len(l) : l[i] = l[j] => i = j
      /\ k \in 1 .. Len(l)
  BY DEF IsList, IsRemove
<1>2. t \in Timers /\ n[t] \in Node /\ x \in Nat
  BY <1>1 DEF Node
<1>3. lm = Without(l, k)
  BY DEF IsRemove
<1>4. nm = IF k = Len(l) THEN stopped ELSE [stopped EXCEPT ![l[k + 1]].toExpire = @ + x]
  BY DEF IsRemove
<1> HIDE DEF x, t
<1>5. stopped \in [Timers -> Node] /\ stopped[t] = Unlisted /\ \A u \in Timers : u # t => stopped[u] = n[u]
  BY <1>1, <1>2, UnlistedIsNode
<1> HIDE DEF stopped
<1>r. /\ lm \in Seq(Timers) /\ Len(lm) = Len(l) - 1
      /\ \A i \in 1 .. k - 1 : lm[i] = l[i]
      /\ \A i \in k .. Len(l) - 1 : lm[i] = l[i + 1]
  <2>1. l \in Seq(Timers) /\ k \in 1 .. Len(l)
    BY <1>1
  <2> QED  BY ONLY <2>1, <1>3, RemoveSeq
<1>6. lm \in Seq(Timers) /\ Len(lm) = Len(l) - 1
  BY <1>r
<1>7. \A i \in 1 .. k - 1 : lm[i] = l[i]
  BY <1>r
<1>8. \A i \in k .. Len(l) - 1 : lm[i] = l[i + 1]
  BY <1>r
<1>9. /\ nm \in [Timers -> Node]
      /\ nm[t] = Unlisted
      /\ \A u \in Timers : u # t => SameBut(nm[u], n[u])
      /\ \A u \in Timers : (\A i \in 1 .. Len(l) : l[i] # u) => nm[u] = n[u]
  <2>0. ASSUME NEW u \in Timers, \A i \in 1 .. Len(l) : l[i] # u PROVE u # t
    BY <2>0, <1>1 DEF t
  <2>1. CASE k = Len(l)
    <3>1. nm = stopped
      BY <2>1, <1>4
    <3> QED  BY <3>1, <1>5, <2>0 DEF SameBut
  <2>2. CASE k # Len(l)
    <3> DEFINE s == l[k + 1]
    <3>1. s \in Timers /\ s # t /\ k + 1 \in 1 .. Len(l)
      <4>1. k + 1 \in 1 .. Len(l) /\ k + 1 # k
        BY <2>2, <1>1
      <4> QED  BY <4>1, <1>1 DEF t
    <3>2. nm = [stopped EXCEPT ![s].toExpire = @ + x]
      BY <2>2, <1>4
    <3>3. stopped[s] = n[s] /\ n[s] \in Node
      BY <3>1, <1>5, <1>1
    <3>4. \A i \in 1 .. Len(l) : l[i] = s => i = k + 1
      BY <3>1, <1>1
    <3> HIDE DEF s
    <3>5. nm[s] = [n[s] EXCEPT !.toExpire = @ + x] /\ \A u \in Timers : u # s => nm[u] = stopped[u]
      BY <3>1, <3>2, <3>3, <1>5
    <3>6. nm[s] \in Node /\ SameBut(nm[s], n[s])
      BY <3>3, <3>5, <1>2 DEF Node, SameBut
    <3>7. nm \in [Timers -> Node]
      <4>1. \A u \in Timers : nm[u] \in Node
        BY <3>5, <3>6, <1>5
      <4>2. nm = [u \in Timers |-> nm[u]]
        BY <3>2, <1>5
      <4> QED  BY <4>1, <4>2
    <3>8. nm[t] = Unlisted
      BY <3>5, <3>1, <1>5, <1>2
    <3>9. ASSUME NEW u \in Timers, u # t PROVE SameBut(nm[u], n[u])
      <4>1. CASE u = s
        BY <4>1, <3>6
      <4>2. CASE u # s
        <5>1. nm[u] = n[u]
          BY <4>2, <3>5, <3>9, <1>5
        <5> QED  BY <5>1 DEF SameBut
      <4> QED  BY <4>1, <4>2
    <3>10. ASSUME NEW u \in Timers, \A i \in 1 .. Len(l) : l[i] # u PROVE nm[u] = n[u]
      <4>1. u # s
        BY <3>10, <3>1 DEF s
      <4>2. u # t
        BY <2>0, <3>10
      <4> QED  BY <4>1, <4>2, <3>5, <1>5
    <3> QED  BY <3>7, <3>8, <3>9, <3>10
  <2> QED  BY <2>1, <2>2
<1>10. ASSUME NEW i \in 1 .. Len(lm), NEW j \in 1 .. Len(lm), lm[i] = lm[j] PROVE i = j
  <2>0. k \in Nat /\ 1 <= k /\ k <= Len(l)
    BY <1>1
  <2>1. ASSUME NEW p \in 1 .. Len(lm)
        PROVE  \E q \in 1 .. Len(l) : lm[p] = l[q] /\ ((p < k /\ q = p) \/ (p >= k /\ q = p + 1))
    <3>1. CASE p < k
      <4>1. p \in 1 .. k - 1 /\ p \in 1 .. Len(l)
        BY <3>1, <2>0, <1>1
      <4> QED  BY <4>1, <1>7, <3>1
    <3>2. CASE ~(p < k)
      <4>1. p \in k .. Len(l) - 1 /\ p + 1 \in 1 .. Len(l) /\ p >= k
        BY <3>2, <2>0, <1>1, <1>6
      <4>2. lm[p] = l[p + 1]
        BY <4>1, <1>8
      <4> QED  BY <4>1, <4>2
    <3> QED  BY <3>1, <3>2
  <2>2. PICK p \in 1 .. Len(l) : lm[i] = l[p] /\ ((i < k /\ p = i) \/ (i >= k /\ p = i + 1))
    BY <2>1
  <2>3. PICK q \in 1 .. Len(l) : lm[j] = l[q] /\ ((j < k /\ q = j) \/ (j >= k /\ q = j + 1))
    BY <2>1
  <2>4. p = q
    BY <2>2, <2>3, <1>10, <1>1
  <2>5. i \in Nat /\ j \in Nat
    BY <1>6
  <2> QED  BY <2>2, <2>3, <2>4, <2>5, <2>0
<1>11. IsList(lm, nm)
  BY <1>6, <1>9, <1>10 DEF IsList
<1> QED  BY <1>1, <1>2, <1>6, <1>7, <1>8, <1>9, <1>11 DEF t

\* timer_list_remove leaves the other timers at their times.
LEMMA RemoveAfter ==
    ASSUME NEW l, NEW n, IsList(l, n), NEW k, NEW lm, NEW nm, IsRemove(l, n, k, lm, nm)
    PROVE  /\ \A i \in 1 .. k - 1 : After(lm, nm)[i] = After(l, n)[i]
           /\ \A i \in k .. Len(l) - 1 : After(lm, nm)[i] = After(l, n)[i + 1]
<1> DEFINE a == After(l, n)
           t == l[k]
           x == n[t].toExpire
           g == [i \in 0 .. Len(l) - 1 |-> IF i < k THEN a[i] ELSE a[i + 1]]
           stopped == [n EXCEPT ![t] = Unlisted]
<1>1. /\ Len(l) \in Nat /\ a \in [0 .. Len(l) -> Nat] /\ a[0] = 0
      /\ \A i \in 1 .. Len(l) : a[i] = a[i - 1] + n[l[i]].toExpire
      /\ n \in [Timers -> Node]
      /\ \A i \in 1 .. Len(l) : l[i] \in Timers /\ n[l[i]].toExpire \in Nat
      /\ \A i, j \in 1 .. Len(l) : l[i] = l[j] => i = j
  BY AfterOfList DEF IsList, Node
<1>2. /\ IsList(lm, nm) /\ Len(lm) = Len(l) - 1 /\ k \in 1 .. Len(l) /\ t \in Timers
      /\ \A i \in 1 .. k - 1 : lm[i] = l[i]
      /\ \A i \in k .. Len(l) - 1 : lm[i] = l[i + 1]
  <2>1. IsList(lm, nm) /\ Len(lm) = Len(l) - 1 /\ k \in 1 .. Len(l) /\ t \in Timers
    BY RemoveKeeps
  <2>2. \A i \in 1 .. k - 1 : lm[i] = l[i]
    BY RemoveKeeps
  <2>3. \A i \in k .. Len(l) - 1 : lm[i] = l[i + 1]
    BY RemoveKeeps
  <2> QED  BY <2>1, <2>2, <2>3
<1>3. nm = IF k = Len(l) THEN stopped ELSE [stopped EXCEPT ![l[k + 1]].toExpire = @ + x]
  BY DEF IsRemove
<1>4. stopped \in [Timers -> Node] /\ \A u \in Timers : u # t => stopped[u] = n[u]
  BY <1>1, <1>2, UnlistedIsNode
<1> HIDE DEF a, x, stopped
<1>5. g \in [0 .. Len(lm) -> Int] /\ g[0] = 0
  BY <1>1, <1>2
<1>6. ASSUME NEW i \in 1 .. Len(lm) PROVE g[i] = g[i - 1] + nm[lm[i]].toExpire
  <2>0. k \in Nat /\ 1 <= k /\ k <= Len(l) /\ i \in Nat /\ 1 <= i /\ i <= Len(l) - 1
    BY <1>1, <1>2
  <2>1. CASE i < k
    <3>1. i \in 1 .. k - 1 /\ i \in 1 .. Len(l)
      BY <2>0, <2>1, <1>1
    <3>2. g[i] = a[i] /\ g[i - 1] = a[i - 1] /\ lm[i] = l[i]
      BY <2>0, <2>1, <3>1, <1>1, <1>2
    <3>3. l[i] # t /\ l[i] \in Timers /\ (k # Len(l) => l[i] # l[k + 1])
      <4>1. l[i] # t /\ l[i] \in Timers
        BY <3>1, <1>1, <1>2, <2>0, <2>1
      <4>2. k # Len(l) => k + 1 \in 1 .. Len(l) /\ i # k + 1
        BY <2>0, <1>1, <2>1
      <4>3. k # Len(l) => l[i] # l[k + 1]
        BY <4>2, <3>1, <1>1
      <4> QED  BY <4>1, <4>3
    <3>4. nm[l[i]] = n[l[i]]
      BY <3>3, <1>3, <1>4
    <3> QED  BY <3>1, <3>2, <3>4, <1>1
  <2>2. CASE i = k
    <3>1. k # Len(l) /\ k + 1 \in 1 .. Len(l) /\ k \in 1 .. Len(l) /\ k \in k .. Len(l) - 1
      BY <2>0, <2>2, <1>1
    <3>2. g[i] = a[k + 1] /\ g[i - 1] = a[k - 1] /\ lm[i] = l[k + 1]
      BY <2>0, <2>2, <3>1, <1>1, <1>2
    <3>3. l[k + 1] # t /\ l[k + 1] \in Timers
      BY <3>1, <1>1
    <3>4. nm[l[k + 1]].toExpire = n[l[k + 1]].toExpire + x
      BY <3>1, <3>3, <1>3, <1>4, <1>1 DEF Node
    <3>5. a[k + 1] = a[k] + n[l[k + 1]].toExpire /\ a[k] = a[k - 1] + x
      <4>1. \A j \in 1 .. Len(l) : a[j] = a[j - 1] + n[l[j]].toExpire
        BY <1>1
      <4>2. (k + 1) - 1 = k
        BY <2>0
      <4>3. a[k + 1] = a[(k + 1) - 1] + n[l[k + 1]].toExpire
        BY <4>1, <3>1
      <4>4. a[k] = a[k - 1] + n[l[k]].toExpire
        BY <4>1, <3>1
      <4> QED  BY <4>2, <4>3, <4>4 DEF x
    <3>6. a[k - 1] \in Nat /\ x \in Nat /\ n[l[k + 1]].toExpire \in Nat
      <4>1. k - 1 \in 0 .. Len(l)
        BY <2>0
      <4>2. x \in Nat
        BY <3>1, <1>1 DEF x
      <4> QED  BY <4>1, <4>2, <3>1, <1>1
    <3> QED  BY <3>2, <3>4, <3>5, <3>6
  <2>3. CASE i > k
    <3>1. i \in k .. Len(l) - 1 /\ i + 1 \in 1 .. Len(l) /\ (i + 1) - 1 = i
      BY <2>0, <2>3, <1>1
    <3>2. g[i] = a[i + 1] /\ g[i - 1] = a[i] /\ lm[i] = l[i + 1]
      BY <2>0, <2>3, <3>1, <1>1, <1>2
    <3>3. l[i + 1] # t /\ l[i + 1] \in Timers
      BY <3>1, <1>1, <1>2, <2>0, <2>3
    <3>4. k # Len(l) => l[i + 1] # l[k + 1]
      <4>1. k # Len(l) => k + 1 \in 1 .. Len(l) /\ i + 1 # k + 1
        BY <2>0, <1>1, <2>3
      <4> QED  BY <4>1, <3>1, <1>1
    <3>5. nm[l[i + 1]] = n[l[i + 1]]
      BY <3>3, <3>4, <1>3, <1>4
    <3>6. a[i + 1] = a[i] + n[l[i + 1]].toExpire
      BY <3>1, <1>1
    <3> QED  BY <3>2, <3>5, <3>6
  <2> QED  BY <2>1, <2>2, <2>3, <2>0
<1>7. Len(lm) \in Nat /\ \A i \in 1 .. Len(lm) : nm[lm[i]].toExpire \in Nat
  BY <1>2, AfterOfList
<1>8. After(lm, nm) = g
  <2> HIDE DEF g
  <2> QED  BY <1>5, <1>6, <1>7, AfterUnique
<1>9. /\ \A i \in 1 .. k - 1 : g[i] = a[i]
      /\ \A i \in k .. Len(l) - 1 : g[i] = a[i + 1]
  BY <1>1, <1>2
<1> HIDE DEF g
<1> QED  BY <1>8, <1>9 DEF a

-----------------------------------------------------------------------------
(* expired_timers_handler: the first k timers leave the list.              *)

\* The first k timers leave the list, and e ticks with them.
IsTake(l, n, e, k, lm, nm) ==
    LET a == After(l, n)
        Gone(t) == \E i \in 1 .. k : l[i] = t
        Place(t) == CHOOSE i \in 1 .. k : l[i] = t
        at == [i \in 1 .. k |-> (latest + a[i]) % CounterRange]
    IN  /\ k \in 0 .. Len(l)
        /\ a[k] <= e
        /\ k < Len(l) => a[k + 1] > e
        /\ lm = SubSeq(l, k + 1, Len(l))
        /\ nm = [t \in Timers |->
                 IF Gone(t)
                 THEN IF n[t].periodic # 0
                      THEN [n[t] EXCEPT !.toExpire = 0, !.atStart = at[Place(t)],
                                        !.first = n[t].periodic]
                      ELSE Unlisted
                 ELSE IF t = HeadOf(lm)
                      THEN [n[t] EXCEPT !.toExpire = @ - (e - a[k])]
                      ELSE n[t]]

\* There is a number of timers that have expired within e ticks, and CHOOSE finds it.
LEMMA TakeIs ==
    ASSUME NEW l, NEW n, IsList(l, n), NEW e \in Nat
    PROVE  LET k == CHOOSE i \in 0 .. Len(l) :
                      /\ After(l, n)[i] <= e
                      /\ i < Len(l) => After(l, n)[i + 1] > e
           IN  /\ k \in 0 .. Len(l)
               /\ After(l, n)[k] <= e
               /\ k < Len(l) => After(l, n)[k + 1] > e
<1> DEFINE a == After(l, n)
           Fits(i) == a[i] <= e /\ (i < Len(l) => a[i + 1] > e)
<1>1. Len(l) \in Nat /\ a \in [0 .. Len(l) -> Nat] /\ a[0] = 0
  BY AfterOfList
<1> HIDE DEF a
<1>2. PICK k \in 0 .. Len(l) : (\A j \in 1 .. k : a[j] < e + 1) /\ (k < Len(l) => a[k + 1] >= e + 1)
  <2>1. e + 1 \in Nat
    OBVIOUS
  <2> DEFINE x == e + 1
  <2>2. x \in Nat
    BY <2>1
  <2> HIDE DEF x
  <2>3. \E k \in 0 .. Len(l) : (\A j \in 1 .. k : a[j] < x) /\ (k < Len(l) => a[k + 1] >= x)
    BY <1>1, <2>2, PlaceExists
  <2> QED  BY <2>3 DEF x
<1>3. a[k] \in Nat /\ (k < Len(l) => a[k + 1] \in Nat)
  BY <1>1
<1>4. a[k] <= e
  <2>1. CASE k = 0
    BY <2>1, <1>1
  <2>2. CASE k # 0
    <3>1. k \in 1 .. k
      BY <2>2
    <3> QED  BY <3>1, <1>2, <1>3
  <2> QED  BY <2>1, <2>2
<1>5. Fits(k)
  BY <1>2, <1>3, <1>4
<1>6. \E i \in 0 .. Len(l) : Fits(i)
  BY <1>5
<1> QED  BY <1>6 DEF a

\* The node of a repeated timer that expired x ticks after latest.
ToRestart(v, x) == [v EXCEPT !.toExpire = 0, !.atStart = Ahead(latest, x), !.first = v.periodic]

\* When the timers that expired within e ticks have left, the list is sound, the times
\* of the others are e ticks less, and only the repeated ones among those that left
\* keep anything.
LEMMA TakeKeeps ==
    ASSUME NEW l, NEW n, IsList(l, n), NEW e \in Nat, latest \in Ticks, None \notin Timers,
           NEW k, NEW lm, NEW nm, IsTake(l, n, e, k, lm, nm),
           \A i \in 1 .. Len(l) : After(l, n)[i] < CounterRange
    PROVE  /\ IsList(lm, nm) /\ Len(lm) = Len(l) - k /\ k \in 0 .. Len(l)
           /\ \A i \in 1 .. Len(l) - k : lm[i] = l[k + i]
           /\ \A i \in 1 .. Len(l) - k : After(lm, nm)[i] = After(l, n)[k + i] - e
           /\ \A i \in 1 .. k : After(l, n)[i] <= e
           /\ \A i \in k + 1 .. Len(l) : After(l, n)[i] > e
           /\ \A i \in 1 .. k : n[l[i]].periodic = 0 => nm[l[i]] = Unlisted
           /\ \A i \in 1 .. k : n[l[i]].periodic # 0 => nm[l[i]] = ToRestart(n[l[i]], After(l, n)[i])
           /\ \A i \in k + 1 .. Len(l) : SameBut(nm[l[i]], n[l[i]])
           /\ \A u \in Timers : (\A i \in 1 .. Len(l) : l[i] # u) => nm[u] = n[u]
<1> DEFINE a == After(l, n)
           Gone(t) == \E i \in 1 .. k : l[i] = t
           Place(t) == CHOOSE i \in 1 .. k : l[i] = t
           at == [i \in 1 .. k |-> (latest + a[i]) % CounterRange]
           Expired(t) == IF n[t].periodic # 0
                         THEN [n[t] EXCEPT !.toExpire = 0, !.atStart = at[Place(t)],
                                           !.first = n[t].periodic]
                         ELSE Unlisted
<1>1. /\ Len(l) \in Nat /\ a \in [0 .. Len(l) -> Nat] /\ a[0] = 0
      /\ \A i \in 1 .. Len(l) : a[i] = a[i - 1] + n[l[i]].toExpire
      /\ \A i, j \in 0 .. Len(l) : i <= j => a[i] <= a[j]
      /\ l \in Seq(Timers) /\ n \in [Timers -> Node]
      /\ \A i \in 1 .. Len(l) : l[i] \in Timers /\ n[l[i]].toExpire \in Nat
      /\ \A i, j \in 1 .. Len(l) : l[i] = l[j] => i = j
  BY AfterOfList DEF IsList, Node
<1>1a. \A i \in 1 .. Len(l) : a[i] < CounterRange
  OBVIOUS
<1>2. /\ k \in 0 .. Len(l)
      /\ a[k] <= e
      /\ k < Len(l) => a[k + 1] > e
      /\ lm = SubSeq(l, k + 1, Len(l))
  BY DEF IsTake
<1>3. nm = [t \in Timers |-> IF Gone(t) THEN Expired(t)
                             ELSE IF t = HeadOf(lm)
                                  THEN [n[t] EXCEPT !.toExpire = @ - (e - a[k])]
                                  ELSE n[t]]
  BY DEF IsTake
<1> HIDE DEF a
<1>4. k \in Nat /\ k <= Len(l)
  BY <1>1, <1>2
<1>5. lm \in Seq(Timers) /\ Len(lm) = Len(l) - k
  <2>1. lm \in Seq(Timers) /\ Len(lm) = Len(l) - (k + 1) + 1
    BY <1>1, <1>2, <1>4, SubSeqIs
  <2> QED  BY <2>1, <1>1, <1>4
<1>6. \A i \in 1 .. Len(l) - k : lm[i] = l[k + i]
  <2>1. \A i \in 1 .. Len(l) - (k + 1) + 1 : lm[i] = l[(k + 1) + i - 1]
    BY <1>1, <1>2, <1>4, SubSeqIs
  <2>2. Len(l) - (k + 1) + 1 = Len(l) - k
    BY <1>1, <1>4
  <2> TAKE i \in 1 .. Len(l) - k
  <2>3. (k + 1) + i - 1 = k + i
    BY <1>1, <1>4
  <2>4. lm[i] = l[(k + 1) + i - 1]
    BY <2>1, <2>2
  <2> QED  BY <2>3, <2>4
<1>7. \A i \in 1 .. k : a[i] <= e
  <2> TAKE i \in 1 .. k
  <2>1. i \in 0 .. Len(l) /\ k \in 0 .. Len(l) /\ i <= k
    BY <1>1, <1>4
  <2>2. a[i] <= a[k] /\ a[i] \in Nat /\ a[k] \in Nat
    BY <2>1, <1>1
  <2> QED  BY <2>2, <1>2
<1>8. \A i \in k + 1 .. Len(l) : a[i] > e
  <2> TAKE i \in k + 1 .. Len(l)
  <2>1. i \in 0 .. Len(l) /\ k + 1 \in 0 .. Len(l) /\ k + 1 <= i /\ k < Len(l)
    BY <1>1, <1>4
  <2>2. a[k + 1] <= a[i] /\ a[i] \in Nat /\ a[k + 1] \in Nat /\ a[k + 1] > e
    BY <2>1, <1>1, <1>2
  <2> QED  BY <2>2
<1>9. ASSUME NEW i \in 1 .. k
      PROVE  /\ l[i] \in Timers
             /\ n[l[i]].periodic = 0 => nm[l[i]] = Unlisted
             /\ n[l[i]].periodic # 0 => nm[l[i]] = ToRestart(n[l[i]], a[i])
             /\ nm[l[i]] \in Node
  <2>1. i \in 1 .. Len(l) /\ l[i] \in Timers
    BY <1>1, <1>4
  <2>2. Gone(l[i])
    BY <1>9
  <2>3. Place(l[i]) = i
    <3>1. Place(l[i]) \in 1 .. k /\ l[Place(l[i])] = l[i]
      <4> HIDE DEF Gone
      <4>1. \E j \in 1 .. k : l[j] = l[i]
        BY <2>2
      <4> QED  BY <4>1
    <3> HIDE DEF Place
    <3>2. Place(l[i]) \in 1 .. Len(l)
      BY <3>1, <1>1, <1>4
    <3> QED  BY <3>1, <3>2, <2>1, <1>1
  <2>4. at[i] = Ahead(latest, a[i])
    BY <1>9 DEF Ahead
  <2>5. nm[l[i]] = Expired(l[i])
    <3> HIDE DEF Gone, Expired
    <3> QED  BY <2>1, <2>2, <1>3
  <2> HIDE DEF Place, at
  <2>6. nm[l[i]] = IF n[l[i]].periodic # 0 THEN ToRestart(n[l[i]], a[i]) ELSE Unlisted
    BY <2>3, <2>4, <2>5 DEF ToRestart
  <2>7. a[i] \in 0 .. CounterRange
    <3>1. a[i] \in Nat /\ a[i] < CounterRange
      BY <2>1, <1>1, <1>1a
    <3> QED  BY <3>1, RangeIs
  <2>8. Ahead(latest, a[i]) \in Nat
    BY <2>7, AheadIs, RangeIs
  <2>9. n[l[i]] \in Node
    BY <2>1, <1>1
  <2>10. ToRestart(n[l[i]], a[i]) \in Node
    BY <2>8, <2>9 DEF Node, ToRestart
  <2>11. nm[l[i]] \in Node
    BY <2>6, <2>10, UnlistedIsNode
  <2> QED  BY <2>1, <2>6, <2>11
<1>10. ASSUME NEW u \in Timers, \A i \in 1 .. k : l[i] # u
       PROVE  /\ u = HeadOf(lm) => nm[u] = [n[u] EXCEPT !.toExpire = @ - (e - a[k])]
              /\ u # HeadOf(lm) => nm[u] = n[u]
  <2>1. ~Gone(u)
    BY <1>10
  <2> HIDE DEF Gone, Expired
  <2> QED  BY <2>1, <1>3
<1>11. Len(lm) > 0 => HeadOf(lm) = l[k + 1] /\ k + 1 \in 1 .. Len(l) /\ k < Len(l)
  <2> SUFFICES ASSUME Len(lm) > 0
               PROVE  HeadOf(lm) = l[k + 1] /\ k + 1 \in 1 .. Len(l) /\ k < Len(l)
    OBVIOUS
  <2>1. lm # <<>>
    BY <1>5
  <2>2. HeadOf(lm) = lm[1]
    BY <2>1 DEF HeadOf
  <2>3. 1 \in 1 .. Len(l) - k
    BY <1>1, <1>4, <1>5
  <2>4. lm[1] = l[k + 1]
    BY <2>3, <1>6
  <2> QED  BY <2>2, <2>4, <1>1, <1>4, <1>5
<1>12. ASSUME NEW i \in k + 1 .. Len(l)
       PROVE  /\ l[i] \in Timers /\ i \in 1 .. Len(l)
              /\ i = k + 1 => nm[l[i]] = [n[l[i]] EXCEPT !.toExpire = @ - (e - a[k])]
              /\ i > k + 1 => nm[l[i]] = n[l[i]]
  <2>1. i \in 1 .. Len(l) /\ l[i] \in Timers
    BY <1>1, <1>4
  <2>2. \A j \in 1 .. k : l[j] # l[i]
    <3> TAKE j \in 1 .. k
    <3>1. j \in 1 .. Len(l) /\ j # i
      BY <1>1, <1>4
    <3> QED  BY <3>1, <2>1, <1>1
  <2>3. Len(lm) > 0
    BY <1>1, <1>4, <1>5
  <2>4. HeadOf(lm) = l[k + 1] /\ k + 1 \in 1 .. Len(l)
    BY <2>3, <1>11
  <2>5. i = k + 1 => l[i] = HeadOf(lm)
    BY <2>4
  <2>6. i > k + 1 => l[i] # HeadOf(lm)
    BY <2>1, <2>4, <1>1
  <2> QED  BY <2>1, <2>2, <2>5, <2>6, <1>10
<1>13. ASSUME NEW i \in k + 1 .. Len(l)
       PROVE  SameBut(nm[l[i]], n[l[i]]) /\ nm[l[i]] \in Node
  <2>1. l[i] \in Timers /\ n[l[i]] \in Node /\ i \in 1 .. Len(l)
    BY <1>12, <1>1
  <2>2. CASE i = k + 1
    <3>1. nm[l[i]] = [n[l[i]] EXCEPT !.toExpire = @ - (e - a[k])]
      BY <2>2, <1>12
    <3>2. n[l[i]].toExpire - (e - a[k]) \in Nat
      <4>1. k < Len(l) /\ (k + 1) - 1 = k /\ k \in 0 .. Len(l)
        BY <2>1, <2>2, <1>4
      <4>2. a[k + 1] = a[(k + 1) - 1] + n[l[k + 1]].toExpire
        BY <2>1, <2>2, <1>1
      <4>3. a[k + 1] > e /\ a[k] <= e /\ a[k] \in Nat
        BY <4>1, <1>1, <1>2
      <4>4. n[l[k + 1]].toExpire \in Nat
        BY <2>1, <2>2, <1>1
      <4> QED  BY <4>1, <4>2, <4>3, <4>4, <2>2
    <3> QED  BY <2>1, <3>1, <3>2 DEF Node, SameBut
  <2>3. CASE i # k + 1
    <3>1. i > k + 1
      BY <2>3, <1>4
    <3>2. nm[l[i]] = n[l[i]]
      BY <3>1, <1>12
    <3> QED  BY <2>1, <3>2 DEF SameBut
  <2> QED  BY <2>2, <2>3
<1>14. ASSUME NEW u \in Timers, \A i \in 1 .. Len(l) : l[i] # u PROVE nm[u] = n[u]
  <2>1. \A i \in 1 .. k : l[i] # u
    BY <1>14, <1>1, <1>4
  <2>2. CASE Len(lm) > 0
    <3>1. u # HeadOf(lm)
      BY <2>2, <1>11, <1>14
    <3> QED  BY <3>1, <2>1, <1>10
  <2>3. CASE ~(Len(lm) > 0)
    <3>1. lm = <<>>
      BY <2>3, <1>5
    <3>2. HeadOf(lm) = None
      BY <3>1 DEF HeadOf
    <3> QED  BY <3>2, <2>1, <1>10
  <2> QED  BY <2>2, <2>3
<1>15. nm \in [Timers -> Node]
  <2>1. ASSUME NEW u \in Timers PROVE nm[u] \in Node
    <3>1. CASE \A i \in 1 .. Len(l) : l[i] # u
      BY <3>1, <1>14, <1>1
    <3>2. CASE \E i \in 1 .. Len(l) : l[i] = u
      <4>1. PICK i \in 1 .. Len(l) : l[i] = u
        BY <3>2
      <4>2. i \in 1 .. k \/ i \in k + 1 .. Len(l)
        BY <1>4
      <4> QED  BY <4>1, <4>2, <1>9, <1>13
    <3> QED  BY <3>1, <3>2
  <2>2. nm = [u \in Timers |-> nm[u]]
    <3> HIDE DEF Gone, Expired
    <3> QED  BY <1>3
  <2> QED  BY <2>1, <2>2
<1>16. ASSUME NEW i \in 1 .. Len(lm), NEW j \in 1 .. Len(lm), lm[i] = lm[j] PROVE i = j
  <2>1. i \in 1 .. Len(l) - k /\ j \in 1 .. Len(l) - k /\ k + i \in 1 .. Len(l) /\ k + j \in 1 .. Len(l)
    BY <1>1, <1>4, <1>5
  <2>2. l[k + i] = l[k + j]
    BY <2>1, <1>6, <1>16
  <2>3. k + i = k + j
    BY <2>1, <2>2, <1>1
  <2> QED  BY <2>1, <2>3, <1>4
<1>17. IsList(lm, nm)
  BY <1>5, <1>15, <1>16 DEF IsList
<1>18. \A i \in 1 .. Len(l) - k : After(lm, nm)[i] = a[k + i] - e
  <2> DEFINE g == [i \in 0 .. Len(lm) |-> IF i = 0 THEN 0 ELSE a[k + i] - e]
  <2>1. g \in [0 .. Len(lm) -> Int]
    <3>1. \A i \in 0 .. Len(lm) : k + i \in 0 .. Len(l)
      BY <1>1, <1>4, <1>5
    <3> QED  BY <3>1, <1>1
  <2>2. g[0] = 0
    BY <1>1, <1>4, <1>5
  <2>3. ASSUME NEW i \in 1 .. Len(lm) PROVE g[i] = g[i - 1] + nm[lm[i]].toExpire
    <3>1. i \in 1 .. Len(l) - k /\ k + i \in k + 1 .. Len(l) /\ k + i \in 1 .. Len(l) /\ (k + i) - 1 = k + (i - 1)
      BY <1>1, <1>4, <1>5
    <3>2. g[i] = a[k + i] - e /\ lm[i] = l[k + i]
      BY <3>1, <1>6, <1>5
    <3>3. a[k + i] = a[k + (i - 1)] + n[l[k + i]].toExpire
      BY <3>1, <1>1
    <3>4. CASE i = 1
      <4>1. g[i - 1] = 0
        BY <2>2, <3>4
      <4>2. nm[l[k + i]].toExpire = n[l[k + i]].toExpire - (e - a[k])
        <5>1. nm[l[k + i]] = [n[l[k + i]] EXCEPT !.toExpire = @ - (e - a[k])]
          BY <3>1, <3>4, <1>12
        <5>2. n[l[k + i]] \in Node
          BY <3>1, <1>1
        <5> QED  BY <5>1, <5>2 DEF Node
      <4>3. a[k] \in Nat /\ n[l[k + i]].toExpire \in Nat /\ k + (i - 1) = k
        <5>1. a[k] \in Nat
          BY <1>1, <1>2
        <5>2. n[l[k + i]].toExpire \in Nat
          BY <3>1, <1>1
        <5>3. k + (i - 1) = k
          BY <3>4, <1>4
        <5> QED  BY <5>1, <5>2, <5>3
      <4> QED  BY <3>2, <3>3, <4>1, <4>2, <4>3
    <3>5. CASE i # 1
      <4>1. g[i - 1] = a[k + (i - 1)] - e /\ a[k + (i - 1)] \in Nat
        <5>1. i - 1 \in 0 .. Len(lm) /\ i - 1 # 0 /\ k + (i - 1) \in 0 .. Len(l)
          BY <3>1, <3>5, <1>1, <1>4, <1>5
        <5> QED  BY <5>1, <1>1
      <4>2. nm[l[k + i]] = n[l[k + i]]
        <5>1. k + i > k + 1
          BY <3>1, <3>5, <1>4
        <5> DEFINE j == k + i
        <5>2. j \in k + 1 .. Len(l) /\ j > k + 1
          BY <3>1, <5>1
        <5> HIDE DEF j
        <5>3. nm[l[j]] = n[l[j]]
          BY <5>2, <1>12
        <5> QED  BY <5>3 DEF j
      <4>3. n[l[k + i]].toExpire \in Nat
        BY <3>1, <1>1
      <4> QED  BY <3>2, <3>3, <4>1, <4>2, <4>3
    <3> QED  BY <3>4, <3>5
  <2>4. Len(lm) \in Nat /\ \A i \in 1 .. Len(lm) : nm[lm[i]].toExpire \in Nat
    BY <1>17, AfterOfList
  <2>5. \A i \in 1 .. Len(l) - k : g[i] = a[k + i] - e
    BY <1>1, <1>4, <1>5
  <2> HIDE DEF g
  <2>6. After(lm, nm) = g
    BY <2>1, <2>2, <2>3, <2>4, AfterUnique
  <2> QED  BY <2>5, <2>6
<1>19. /\ \A i \in 1 .. k : n[l[i]].periodic = 0 => nm[l[i]] = Unlisted
       /\ \A i \in 1 .. k : n[l[i]].periodic # 0 => nm[l[i]] = ToRestart(n[l[i]], a[i])
  BY <1>9
<1>20. \A i \in k + 1 .. Len(l) : SameBut(nm[l[i]], n[l[i]])
  BY <1>13
<1> QED  BY <1>2, <1>5, <1>6, <1>7, <1>8, <1>14, <1>17, <1>18, <1>19, <1>20 DEF a

\* The timers to start again.
LEMMA AgainIs ==
    ASSUME NEW l, NEW n, IsList(l, n), NEW k \in 0 .. Len(l)
    PROVE  /\ Again(l, n)[k] \in Seq(Timers)
           /\ \A j \in 1 .. Len(Again(l, n)[k]) :
                \E i \in 1 .. k : l[i] = Again(l, n)[k][j] /\ n[l[i]].periodic # 0
           /\ \A i \in 1 .. k : n[l[i]].periodic # 0 =>
                \E j \in 1 .. Len(Again(l, n)[k]) : l[i] = Again(l, n)[k][j]
           /\ \A i, j \in 1 .. Len(Again(l, n)[k]) :
                Again(l, n)[k][i] = Again(l, n)[k][j] => i = j
<1> DEFINE Step(i, s) == IF n[l[i]].periodic # 0 THEN <<l[i]>> \o s ELSE s
           Is(m, f) == /\ f \in [0 .. m -> Seq(Timers)] /\ f[0] = <<>>
                       /\ \A i \in 1 .. m : f[i] = Step(i, f[i - 1])
           Some(m) == \E f : Is(m, f)
           S == {m \in Nat : m <= Len(l) => Some(m)}
<1>1. /\ Len(l) \in Nat /\ l \in Seq(Timers)
      /\ \A i \in 1 .. Len(l) : l[i] \in Timers
      /\ \A i, j \in 1 .. Len(l) : l[i] = l[j] => i = j
  BY DEF IsList
<1>2. ASSUME NEW i \in 1 .. Len(l), NEW s \in Seq(Timers) PROVE Step(i, s) \in Seq(Timers)
  BY <1>1, <1>2
<1> HIDE DEF Step
<1>3. 0 \in S
  <2>1. Is(0, [i \in 0 .. 0 |-> <<>>])
    OBVIOUS
  <2> QED  BY <2>1
<1>4. ASSUME NEW m \in Nat, m \in S PROVE m + 1 \in S
  <2>0. SUFFICES ASSUME m + 1 <= Len(l) PROVE Some(m + 1)
    <3> HIDE DEF Some
    <3> QED  OBVIOUS
  <2>a. Some(m)
    <3> HIDE DEF Some
    <3> QED  BY <1>4, <2>0
  <2>1. PICK f : Is(m, f)
    BY <2>a
  <2> DEFINE g == [i \in 0 .. m + 1 |-> IF i = m + 1 THEN Step(m + 1, f[m]) ELSE f[i]]
  <2>2. m \in 0 .. m /\ m + 1 \in 1 .. Len(l)
    BY <2>0
  <2>3. f[m] \in Seq(Timers)
    BY <2>1, <2>2
  <2>4. Step(m + 1, f[m]) \in Seq(Timers)
    BY <2>2, <2>3, <1>2
  <2>5. g \in [0 .. m + 1 -> Seq(Timers)] /\ g[0] = <<>>
    BY <2>1, <2>4
  <2>6. ASSUME NEW i \in 1 .. m + 1 PROVE g[i] = Step(i, g[i - 1])
    <3>1. g[i - 1] = f[i - 1]
      OBVIOUS
    <3>2. CASE i = m + 1
      BY <3>1, <3>2
    <3>3. CASE i # m + 1
      <4>1. i \in 1 .. m
        BY <3>3
      <4>2. f[i] = Step(i, f[i - 1])
        BY <4>1, <2>1
      <4> QED  BY <3>1, <3>3, <4>2
    <3> QED  BY <3>2, <3>3
  <2>7. Is(m + 1, g)
    <3> HIDE DEF g
    <3> QED  BY <2>5, <2>6
  <2> QED  BY <2>7
<1>5. Len(l) \in S
  <2> HIDE DEF S
  <2> QED  BY <1>1, <1>3, <1>4, SetInduction
<1>6. PICK f : Is(Len(l), f)
  <2>1. Some(Len(l))
    <3> HIDE DEF Some
    <3> QED  BY <1>1, <1>5
  <2> QED  BY <2>1
<1> DEFINE Rec(g) == g = [i \in 0 .. Len(l) |-> IF i = 0 THEN <<>> ELSE IF n[l[i]].periodic # 0 THEN <<l[i]>> \o g[i - 1]
                                                       ELSE g[i - 1]]
           a == Again(l, n)
<1>7. Rec(f)
  <2>1. f = [i \in 0 .. Len(l) |-> f[i]]
    BY <1>6
  <2>2. \A i \in 0 .. Len(l) : f[i] = IF i = 0 THEN <<>> ELSE IF n[l[i]].periodic # 0 THEN <<l[i]>> \o f[i - 1]
                                                       ELSE f[i - 1]
    <3> TAKE i \in 0 .. Len(l)
    <3>1. f[0] = <<>>
      BY <1>6
    <3>2. i # 0 => f[i] = Step(i, f[i - 1])
      BY <1>6, <1>1
    <3> QED  BY <3>1, <3>2 DEF Step
  <2> QED  BY <2>1, <2>2
<1>8. a = CHOOSE g : Rec(g)
  BY DEF Again
<1>9. Rec(a)
  <2> HIDE DEF Rec, a
  <2> QED  BY <1>7, <1>8
<1> HIDE DEF a
<1>10. a[0] = <<>> /\ \A i \in 1 .. Len(l) : a[i] = IF n[l[i]].periodic # 0 THEN <<l[i]>> \o a[i - 1] ELSE a[i - 1]
  <2>1. \A i \in 0 .. Len(l) : a[i] = IF i = 0 THEN <<>> ELSE IF n[l[i]].periodic # 0 THEN <<l[i]>> \o a[i - 1]
                                                       ELSE a[i - 1]
    BY <1>9, Zenon
  <2>2. 0 \in 0 .. Len(l) /\ \A i \in 1 .. Len(l) : i \in 0 .. Len(l) /\ i # 0
    BY <1>1
  <2>3. a[0] = <<>>
    BY <2>1, <2>2
  <2>4. ASSUME NEW i \in 1 .. Len(l)
        PROVE  a[i] = IF n[l[i]].periodic # 0 THEN <<l[i]>> \o a[i - 1] ELSE a[i - 1]
    BY <2>1, <2>2, Zenon
  <2> QED  BY <2>3, <2>4
<1> HIDE DEF Rec, Is
<1> DEFINE Good(m) ==
             /\ a[m] \in Seq(Timers)
             /\ \A j \in 1 .. Len(a[m]) : \E i \in 1 .. m : l[i] = a[m][j] /\ n[l[i]].periodic # 0
             /\ \A i \in 1 .. m : n[l[i]].periodic # 0 => \E j \in 1 .. Len(a[m]) : l[i] = a[m][j]
             /\ \A i, j \in 1 .. Len(a[m]) : a[m][i] = a[m][j] => i = j
           T == {m \in Nat : m <= Len(l) => Good(m)}
<1>11. 0 \in T
  <2>1. Good(0)
    <3> DEFINE s == a[0]
    <3>1. s = <<>>
      BY <1>10
    <3>2. s \in Seq(Timers) /\ Len(s) = 0
      BY <3>1
    <3> HIDE DEF s
    <3>3. Good(0)
      BY <3>2 DEF s
    <3> QED  BY <3>3
  <2> QED  BY <2>1
<1>12. ASSUME NEW m \in Nat, m \in T PROVE m + 1 \in T
  <2>0. SUFFICES ASSUME m + 1 <= Len(l) PROVE Good(m + 1)
    <3> HIDE DEF Good
    <3> QED  OBVIOUS
  <2>1. Good(m)
    <3> HIDE DEF Good
    <3> QED  BY <1>12, <2>0
  <2>2. m + 1 \in 1 .. Len(l) /\ (m + 1) - 1 = m /\ l[m + 1] \in Timers
    BY <1>1, <2>0
  <2>3. CASE n[l[m + 1]].periodic = 0
    <3>1. a[m + 1] = a[m]
      BY <2>2, <2>3, <1>10
    <3>2. \A i \in 1 .. m + 1 : n[l[i]].periodic # 0 => i \in 1 .. m
      BY <2>3
    <3> QED  BY <2>1, <3>1, <3>2
  <2>4. CASE n[l[m + 1]].periodic # 0
    <3> DEFINE s == a[m]
               r == a[m + 1]
    <3>1. r = <<l[m + 1]>> \o s
      BY <2>2, <2>4, <1>10
    <3>2. s \in Seq(Timers) /\ <<l[m + 1]>> \in Seq(Timers)
      BY <2>1, <2>2
    <3> HIDE DEF s, r
    <3>3. r \in Seq(Timers) /\ Len(r) = Len(s) + 1 /\ r[1] = l[m + 1]
      BY <3>1, <3>2
    <3>4. \A j \in 1 .. Len(s) : r[j + 1] = s[j]
      BY <3>1, <3>2
    <3>5. \A j \in 1 .. Len(s) : \E i \in 1 .. m : l[i] = s[j] /\ n[l[i]].periodic # 0
      BY <2>1 DEF s
    <3>6. Len(s) \in Nat
      BY <3>2
    <3>7. ASSUME NEW j \in 1 .. Len(r), j # 1 PROVE j - 1 \in 1 .. Len(s) /\ r[j] = s[j - 1]
      <4>1. j - 1 \in 1 .. Len(s) /\ (j - 1) + 1 = j
        BY <3>3, <3>6, <3>7
      <4> QED  BY <4>1, <3>4
    <3>8. ASSUME NEW j \in 1 .. Len(r)
          PROVE  \E i \in 1 .. m + 1 : l[i] = r[j] /\ n[l[i]].periodic # 0
      <4>1. CASE j = 1
        BY <4>1, <3>3, <2>4
      <4>2. CASE j # 1
        <5>1. j - 1 \in 1 .. Len(s) /\ r[j] = s[j - 1]
          BY <4>2, <3>7
        <5> QED  BY <5>1, <3>5
      <4> QED  BY <4>1, <4>2
    <3>9. ASSUME NEW i \in 1 .. m + 1, n[l[i]].periodic # 0
          PROVE  \E j \in 1 .. Len(r) : l[i] = r[j]
      <4>1. CASE i = m + 1
        <5>1. 1 \in 1 .. Len(r)
          BY <3>3, <3>6
        <5> QED  BY <5>1, <4>1, <3>3
      <4>2. CASE i # m + 1
        <5>1. i \in 1 .. m
          BY <4>2
        <5>2. PICK j \in 1 .. Len(s) : l[i] = s[j]
          BY <5>1, <3>9, <2>1 DEF s
        <5>3. j + 1 \in 1 .. Len(r) /\ r[j + 1] = s[j]
          BY <3>3, <3>4, <3>6
        <5> QED  BY <5>2, <5>3
      <4> QED  BY <4>1, <4>2
    <3>10. \A j \in 1 .. Len(s) : s[j] # l[m + 1]
      <4> TAKE j \in 1 .. Len(s)
      <4>1. PICK i \in 1 .. m : l[i] = s[j]
        BY <3>5
      <4>2. i \in 1 .. Len(l) /\ i # m + 1
        BY <1>1, <2>0
      <4> QED  BY <4>1, <4>2, <2>2, <1>1
    <3>11. ASSUME NEW i \in 1 .. Len(r), NEW j \in 1 .. Len(r), r[i] = r[j] PROVE i = j
      <4>1. CASE i = 1 /\ j # 1
        BY <4>1, <3>3, <3>7, <3>10, <3>11
      <4>2. CASE i # 1 /\ j = 1
        BY <4>2, <3>3, <3>7, <3>10, <3>11
      <4>3. CASE i # 1 /\ j # 1
        <5>1. i - 1 \in 1 .. Len(s) /\ j - 1 \in 1 .. Len(s) /\ s[i - 1] = s[j - 1]
          BY <4>3, <3>7, <3>11
        <5>2. i - 1 = j - 1
          BY <5>1, <2>1 DEF s
        <5> QED  BY <5>2, <3>3
      <4> QED  BY <4>1, <4>2, <4>3
    <3> QED  BY <3>3, <3>8, <3>9, <3>11 DEF r
  <2> QED  BY <2>3, <2>4
<1>13. k \in T
  <2> HIDE DEF T
  <2> QED  BY <1>1, <1>11, <1>12, SetInduction
<1>14. Good(k)
  <2> HIDE DEF Good
  <2> QED  BY <1>1, <1>13
<1> QED  BY <1>14 DEF a

-----------------------------------------------------------------------------
(* The constants, and how late a timer may be.                             *)

\* What is due of a timer that runs.
DueType == [left : Int, every : Nat]

\* None is no timer, no number and nothing due.
LEMMA NoneIsNothing == None \notin Timers /\ None \notin Int /\ None \notin DueType
BY NoneAssumption DEF DueType

\* The constants are numbers, of the sizes the proofs need.
LEMMA ConstantsAre ==
    /\ CounterRange \in Nat /\ CompareOffset \in Nat /\ MaxLatency \in Nat /\ Jitter \in Nat
    /\ CompareOffset >= 1 /\ OpQueueSize \in Nat
    /\ Cardinality(Timers) \in Nat /\ Delay \in Nat
    /\ HalfRange \in Nat /\ HalfRange >= 1
    /\ Repeated \subseteq Timers
    /\ CounterRange >= 3 /\ MaxLatency < CounterRange
<1>1. /\ CounterRange \in Nat /\ CompareOffset \in Nat /\ MaxLatency \in Nat
      /\ CompareOffset >= 1 /\ OpQueueSize \in Nat /\ Repeated \subseteq Timers
  BY TimerAssumption
<1>2. CounterRange >= 3 /\ MaxLatency < CounterRange /\ IsFiniteSet(Timers)
  BY TimingAssumption DEF TimesFit
<1>3. Cardinality(Timers) \in Nat
  BY <1>2, FS_CardinalityType
<1>4. HalfRange \in Nat /\ HalfRange >= 1
  BY <1>1, <1>2 DEF HalfRange
<1>5. Delay \in Nat
  BY <1>1 DEF Delay
<1>6. Jitter \in Nat
  <2>1. PICK n \in Nat, d \in Nat, m \in Nat : n = Cardinality(Timers) /\ d = Delay /\ m = MaxLatency
    BY <1>1, <1>3, <1>5
  <2>2. Jitter = (n - 1 + 1) * d + 2 * m
    BY <2>1 DEF Jitter, Late
  <2>3. (n - 1 + 1) * d + 2 * m \in Nat
    <3>1. n - 1 + 1 = n /\ n * d \in Nat /\ 2 * m \in Nat
      OBVIOUS
    <3> QED  BY <3>1
  <2> QED  BY <2>2, <2>3
<1> QED  BY <1>1, <1>2, <1>3, <1>4, <1>5, <1>6

\* A positive multiple of a number is no smaller.
LEMMA Times == ASSUME NEW a \in Nat, NEW b \in Nat, a >= 1 PROVE a * b \in Nat /\ a * b >= b
<1>1. a * b = (a - 1) * b + b /\ a - 1 \in Nat
  OBVIOUS
<1>2. (a - 1) * b \in Nat
  BY <1>1
<1> QED  BY <1>1, <1>2

\* The lateness of a place in the list is Delay more than that of the next.
LEMMA LateIs ==
    ASSUME NEW i \in 1 .. Cardinality(Timers)
    PROVE  /\ Late(i) \in Nat /\ Late(i) >= Delay /\ Late(1) >= Late(i) /\ Late(1) \in Nat
           /\ Late(i) = Late(i + 1) + Delay /\ Late(i + 1) \in Nat
<1> DEFINE c == Cardinality(Timers)
           a == c - i + 1
<1>1. c \in Nat /\ Delay \in Nat /\ i \in Nat /\ 1 <= i /\ i <= c
  BY ConstantsAre
<1> HIDE DEF c
<1>2. a \in Nat /\ a >= 1 /\ a - 1 \in Nat /\ i - 1 \in Nat /\ c - (i + 1) + 1 = a - 1 /\ c - 1 + 1 = a + (i - 1)
  BY <1>1
<1>3. Late(i) = a * Delay /\ Late(i + 1) = (a - 1) * Delay /\ Late(1) = (a + (i - 1)) * Delay
  BY <1>2 DEF Late, c
<1> HIDE DEF a
<1>4. a * Delay = (a - 1) * Delay + Delay /\ (a + (i - 1)) * Delay = a * Delay + (i - 1) * Delay
  BY <1>1, <1>2
<1>5. (a - 1) * Delay \in Nat /\ (i - 1) * Delay \in Nat
  BY <1>1, <1>2
<1> QED  BY <1>1, <1>3, <1>4, <1>5

\* The list holds no more timers than there are.
LEMMA ListFits ==
    ASSUME NEW l, NEW n, IsList(l, n)
    PROVE  Len(l) <= Cardinality(Timers)
<1>1. Len(l) \in Nat /\ l \in Seq(Timers) /\ \A i, j \in 1 .. Len(l) : l[i] = l[j] => i = j
  BY DEF IsList
<1>2. IsFiniteSet(Timers) /\ Cardinality(Timers) \in Nat
  BY ConstantsAre, TimingAssumption DEF TimesFit
<1>3. IsFiniteSet(1 .. Len(l)) /\ Cardinality(1 .. Len(l)) = Len(l)
  <2>1. 1 \in Int /\ Len(l) \in Int
    BY <1>1
  <2>2. IsFiniteSet(1 .. Len(l)) /\ Cardinality(1 .. Len(l)) = IF 1 > Len(l) THEN 0 ELSE Len(l) - 1 + 1
    BY <2>1, FS_Interval
  <2> QED  BY <2>2, <1>1
<1>4. l \in [1 .. Len(l) -> Timers]
  BY <1>1
<1>5. ASSUME Cardinality(Timers) < Cardinality(1 .. Len(l)) PROVE FALSE
  <2>1. \E x, y \in 1 .. Len(l) : x # y /\ l[x] = l[y]
    BY <1>2, <1>3, <1>4, <1>5, FS_PigeonHole
  <2> QED  BY <2>1, <1>1
<1> QED  BY <1>1, <1>2, <1>3, <1>5

-----------------------------------------------------------------------------
(* What an insertion and a removal do to the lateness of the others.       *)

\* The places of a list are within the number of timers.
LEMMA LateOf ==
    ASSUME NEW l, NEW n, IsList(l, n), NEW i \in 1 .. Len(l)
    PROVE  Late(i) \in Nat /\ Late(i) >= Delay /\ Late(1) >= Late(i) /\ Late(1) \in Nat /\ Delay \in Nat
<1>1. Len(l) <= Cardinality(Timers) /\ Cardinality(Timers) \in Nat /\ Len(l) \in Nat
  BY ListFits, ConstantsAre, AfterOfList
<1>2. i \in 1 .. Cardinality(Timers)
  BY <1>1
<1> QED  BY <1>2, LateIs, ConstantsAre

\* Where the timers of the new list come from.
LEMMA InsertMap ==
    ASSUME NEW l, NEW n, IsList(l, n), NEW t \in Timers, \A i \in 1 .. Len(l) : l[i] # t,
           NEW k, NEW lm, NEW nm, IsInsert(l, n, t, k, lm, nm)
    PROVE  /\ \A j \in 1 .. Len(lm) :
                \/ lm[j] = t /\ After(lm, nm)[j] = n[t].toExpire
                \/ \E i \in 1 .. Len(l) : lm[j] = l[i] /\ l[i] # t /\ After(lm, nm)[j] = After(l, n)[i]
           /\ \A i \in 1 .. Len(l) : \E j \in 1 .. Len(lm) : lm[j] = l[i]
           /\ \E j \in 1 .. Len(lm) : lm[j] = t
<1>1. /\ Len(lm) = Len(l) + 1 /\ k \in 0 .. Len(l)
      /\ \A i \in 1 .. k : lm[i] = l[i]
      /\ lm[k + 1] = t
  BY InsertKeeps
<1>2. \A i \in k + 2 .. Len(l) + 1 : lm[i] = l[i - 1]
  BY InsertKeeps
<1>3. /\ \A i \in 1 .. k : After(lm, nm)[i] = After(l, n)[i]
      /\ After(lm, nm)[k + 1] = n[t].toExpire
  BY InsertAfter
<1>4. \A i \in k + 2 .. Len(l) + 1 : After(lm, nm)[i] = After(l, n)[i - 1]
  BY InsertAfter
<1>5. Len(l) \in Nat /\ k \in Nat /\ k <= Len(l)
  BY <1>1 DEF IsList
<1>6. ASSUME NEW j \in 1 .. Len(lm)
      PROVE  \/ lm[j] = t /\ After(lm, nm)[j] = n[t].toExpire
             \/ \E i \in 1 .. Len(l) : lm[j] = l[i] /\ l[i] # t /\ After(lm, nm)[j] = After(l, n)[i]
  <2>1. CASE j <= k
    <3>1. j \in 1 .. k /\ j \in 1 .. Len(l)
      BY <2>1, <1>5, <1>1
    <3> QED  BY <3>1, <1>1, <1>3
  <2>2. CASE j = k + 1
    BY <2>2, <1>1, <1>3
  <2>3. CASE j > k + 1
    <3>1. j \in k + 2 .. Len(l) + 1 /\ j - 1 \in 1 .. Len(l)
      BY <2>3, <1>5, <1>1
    <3> QED  BY <3>1, <1>2, <1>4
  <2> QED  BY <2>1, <2>2, <2>3, <1>5, <1>1
<1>7. ASSUME NEW i \in 1 .. Len(l) PROVE \E j \in 1 .. Len(lm) : lm[j] = l[i]
  <2>1. CASE i <= k
    <3>1. i \in 1 .. k /\ i \in 1 .. Len(lm)
      BY <2>1, <1>5, <1>1
    <3> QED  BY <3>1, <1>1
  <2>2. CASE i > k
    <3>1. i + 1 \in k + 2 .. Len(l) + 1 /\ i + 1 \in 1 .. Len(lm) /\ (i + 1) - 1 = i
      BY <2>2, <1>5, <1>1
    <3>2. lm[i + 1] = l[(i + 1) - 1]
      BY <3>1, <1>2
    <3> QED  BY <3>1, <3>2
  <2> QED  BY <2>1, <2>2, <1>5
<1>8. k + 1 \in 1 .. Len(lm)
  BY <1>5, <1>1
<1> QED  BY <1>6, <1>7, <1>8, <1>1

\* The head of the new list.
LEMMA InsertHead ==
    ASSUME NEW l, NEW n, IsList(l, n), NEW t \in Timers, \A i \in 1 .. Len(l) : l[i] # t,
           NEW k, NEW lm, NEW nm, IsInsert(l, n, t, k, lm, nm)
    PROVE  /\ Len(lm) \in Nat /\ Len(lm) >= 1
           /\ \/ /\ lm[1] = t /\ After(lm, nm)[1] = n[t].toExpire
                 /\ \A i \in 1 .. Len(l) : After(l, n)[i] >= n[t].toExpire
              \/ /\ Len(l) >= 1 /\ lm[1] = l[1] /\ After(lm, nm)[1] = After(l, n)[1]
                 /\ After(l, n)[1] < n[t].toExpire
<1>1. /\ Len(lm) = Len(l) + 1 /\ k \in 0 .. Len(l)
      /\ \A i \in 1 .. k : lm[i] = l[i]
      /\ lm[k + 1] = t
  BY InsertKeeps
<1>3. /\ \A i \in 1 .. k : After(lm, nm)[i] = After(l, n)[i] /\ After(l, n)[i] < n[t].toExpire
      /\ After(lm, nm)[k + 1] = n[t].toExpire
  BY InsertAfter
<1>4. \A i \in k + 2 .. Len(l) + 1 : After(l, n)[i - 1] >= n[t].toExpire
  BY InsertAfter
<1>5. Len(l) \in Nat /\ k \in Nat /\ k <= Len(l)
  BY <1>1 DEF IsList
<1>6. CASE k = 0
  <2>1. lm[1] = t /\ After(lm, nm)[1] = n[t].toExpire
    BY <1>6, <1>1, <1>3
  <2>2. ASSUME NEW i \in 1 .. Len(l) PROVE After(l, n)[i] >= n[t].toExpire
    <3>1. i + 1 \in k + 2 .. Len(l) + 1 /\ (i + 1) - 1 = i
      BY <1>6, <1>5
    <3>2. After(l, n)[(i + 1) - 1] >= n[t].toExpire
      BY <3>1, <1>4
    <3> QED  BY <3>1, <3>2
  <2> QED  BY <2>1, <2>2, <1>1, <1>5
<1>7. CASE k # 0
  <2>1. 1 \in 1 .. k /\ Len(l) >= 1
    BY <1>7, <1>5
  <2> QED  BY <2>1, <1>1, <1>3, <1>5
<1> QED  BY <1>6, <1>7

\* Where the timers of the shorter list come from.
LEMMA RemoveMap ==
    ASSUME NEW l, NEW n, IsList(l, n), NEW k, NEW lm, NEW nm, IsRemove(l, n, k, lm, nm)
    PROVE  /\ \A j \in 1 .. Len(lm) :
                \E i \in 1 .. Len(l) : lm[j] = l[i] /\ l[i] # l[k] /\ After(lm, nm)[j] = After(l, n)[i]
           /\ \A i \in 1 .. Len(l) : l[i] # l[k] => \E j \in 1 .. Len(lm) : lm[j] = l[i]
<1>1. /\ Len(lm) = Len(l) - 1 /\ k \in 1 .. Len(l)
      /\ \A i \in 1 .. k - 1 : lm[i] = l[i]
  BY RemoveKeeps
<1>2. \A i \in k .. Len(l) - 1 : lm[i] = l[i + 1]
  BY RemoveKeeps
<1>3. \A i \in 1 .. k - 1 : After(lm, nm)[i] = After(l, n)[i]
  BY RemoveAfter
<1>4. \A i \in k .. Len(l) - 1 : After(lm, nm)[i] = After(l, n)[i + 1]
  BY RemoveAfter
<1>5. /\ Len(l) \in Nat /\ k \in Nat /\ k <= Len(l) /\ 1 <= k
      /\ \A i, j \in 1 .. Len(l) : l[i] = l[j] => i = j
  BY <1>1 DEF IsList
<1>6. ASSUME NEW j \in 1 .. Len(lm)
      PROVE  \E i \in 1 .. Len(l) : lm[j] = l[i] /\ l[i] # l[k] /\ After(lm, nm)[j] = After(l, n)[i]
  <2>1. CASE j < k
    <3>1. j \in 1 .. k - 1 /\ j \in 1 .. Len(l) /\ j # k
      BY <2>1, <1>5, <1>1
    <3>2. l[j] # l[k]
      BY <3>1, <1>5, <1>1
    <3> QED  BY <3>1, <3>2, <1>1, <1>3
  <2>2. CASE j >= k
    <3>1. j \in k .. Len(l) - 1 /\ j + 1 \in 1 .. Len(l) /\ j + 1 # k
      BY <2>2, <1>5, <1>1
    <3>2. l[j + 1] # l[k]
      BY <3>1, <1>5, <1>1
    <3> QED  BY <3>1, <3>2, <1>2, <1>4
  <2> QED  BY <2>1, <2>2, <1>5, <1>1
<1>7. ASSUME NEW i \in 1 .. Len(l), l[i] # l[k] PROVE \E j \in 1 .. Len(lm) : lm[j] = l[i]
  <2>0. i # k
    BY <1>7
  <2>1. CASE i < k
    <3>1. i \in 1 .. k - 1 /\ i \in 1 .. Len(lm)
      BY <2>1, <1>5, <1>1
    <3> QED  BY <3>1, <1>1
  <2>2. CASE i > k
    <3>1. i - 1 \in k .. Len(l) - 1 /\ i - 1 \in 1 .. Len(lm) /\ (i - 1) + 1 = i
      BY <2>2, <1>5, <1>1
    <3>2. lm[i - 1] = l[(i - 1) + 1]
      BY <3>1, <1>2
    <3> QED  BY <3>1, <3>2
  <2> QED  BY <2>0, <2>1, <2>2, <1>5
<1> QED  BY <1>6, <1>7

\* No timer of the list is later than x by more than it may be.
Bounded(l, n, x) == \A i \in 1 .. Len(l) : x <= After(l, n)[i] + Late(i)

\* An insertion keeps the others in their bounds: they may move back, but no place is
\* allowed to be later than the one before.
LEMMA BoundedInsert ==
    ASSUME NEW l, NEW n, IsList(l, n), NEW t \in Timers, \A i \in 1 .. Len(l) : l[i] # t,
           NEW k, NEW lm, NEW nm, IsInsert(l, n, t, k, lm, nm),
           NEW x \in Int, Bounded(l, n, x), x <= n[t].toExpire + Delay
    PROVE  Bounded(lm, nm, x)
<1>1. /\ Len(lm) = Len(l) + 1 /\ k \in 0 .. Len(l) /\ IsList(lm, nm)
  BY InsertKeeps
<1>3. /\ \A i \in 1 .. k : After(lm, nm)[i] = After(l, n)[i]
      /\ After(lm, nm)[k + 1] = n[t].toExpire
  BY InsertAfter
<1>4. \A i \in k + 2 .. Len(l) + 1 : After(lm, nm)[i] = After(l, n)[i - 1] /\ After(l, n)[i - 1] >= n[t].toExpire
  BY InsertAfter
<1>5. Len(l) \in Nat /\ k \in Nat /\ k <= Len(l)
  BY <1>1 DEF IsList
<1>6. n[t].toExpire \in Int /\ Delay \in Int
  BY ConstantsAre DEF IsList, Node
<1>7. Len(lm) <= Cardinality(Timers) /\ Cardinality(Timers) \in Nat
  BY <1>1, ListFits, ConstantsAre
<1> SUFFICES ASSUME NEW j \in 1 .. Len(lm) PROVE x <= After(lm, nm)[j] + Late(j)
  BY DEF Bounded
<1>8. j \in 1 .. Cardinality(Timers)
  BY <1>1, <1>5, <1>7
<1>9. Late(j) \in Nat /\ Late(j) >= Delay
  BY <1>8, LateIs
<1>10. After(lm, nm)[j] \in Nat
  BY <1>1, <1>5, AfterOfList
<1>11. CASE j <= k
  <2>1. j \in 1 .. k /\ j \in 1 .. Len(l)
    BY <1>11, <1>5, <1>1
  <2> QED  BY <2>1, <1>3 DEF Bounded
<1>12. CASE j > k
  <2>1. After(lm, nm)[j] >= n[t].toExpire
    <3>1. CASE j = k + 1
      BY <3>1, <1>3, <1>6
    <3>2. CASE j # k + 1
      <4>1. j \in k + 2 .. Len(l) + 1
        BY <3>2, <1>12, <1>5, <1>1
      <4> QED  BY <4>1, <1>4
    <3> QED  BY <3>1, <3>2
  <2> QED  BY <2>1, <1>6, <1>9, <1>10
<1> QED  BY <1>11, <1>12, <1>5

\* A removal keeps the others in their bounds, and if the first timer went, there is
\* Delay to spare.
LEMMA BoundedRemove ==
    ASSUME NEW l, NEW n, IsList(l, n), NEW k, NEW lm, NEW nm, IsRemove(l, n, k, lm, nm),
           NEW x \in Int, Bounded(l, n, x)
    PROVE  /\ Bounded(lm, nm, x)
           /\ k = 1 => Bounded(lm, nm, x + Delay)
<1>1. /\ Len(lm) = Len(l) - 1 /\ k \in 1 .. Len(l) /\ IsList(lm, nm)
  BY RemoveKeeps
<1>3. \A i \in 1 .. k - 1 : After(lm, nm)[i] = After(l, n)[i]
  BY RemoveAfter
<1>4. \A i \in k .. Len(l) - 1 : After(lm, nm)[i] = After(l, n)[i + 1]
  BY RemoveAfter
<1>5. Len(l) \in Nat /\ k \in Nat /\ k <= Len(l) /\ 1 <= k
  BY <1>1 DEF IsList
<1>6. Delay \in Nat
  BY ConstantsAre
<1>7. Len(l) <= Cardinality(Timers) /\ Cardinality(Timers) \in Nat
  BY ListFits, ConstantsAre
<1>8. ASSUME NEW j \in 1 .. Len(lm)
      PROVE  /\ x <= After(lm, nm)[j] + Late(j)
             /\ k = 1 => x + Delay <= After(lm, nm)[j] + Late(j)
  <2>1. j \in 1 .. Cardinality(Timers)
    BY <1>1, <1>5, <1>7
  <2>2. Late(j) \in Nat /\ Late(j) = Late(j + 1) + Delay /\ Late(j + 1) \in Nat
    BY <2>1, LateIs
  <2>3. After(lm, nm)[j] \in Nat
    <3>1. j \in 0 .. Len(lm)
      BY <1>1, <1>5
    <3>2. After(lm, nm) \in [0 .. Len(lm) -> Nat]
      BY <1>1, AfterOfList
    <3> QED  BY <3>1, <3>2
  <2>4. CASE j < k
    <3>1. j \in 1 .. k - 1 /\ j \in 1 .. Len(l) /\ k # 1
      BY <2>4, <1>5, <1>1
    <3>2. After(lm, nm)[j] = After(l, n)[j]
      BY <3>1, <1>3
    <3>3. x <= After(l, n)[j] + Late(j)
      BY <3>1 DEF Bounded
    <3> QED  BY <3>1, <3>2, <3>3
  <2>5. CASE j >= k
    <3>1. j \in k .. Len(l) - 1 /\ j + 1 \in 1 .. Len(l)
      BY <2>5, <1>5, <1>1
    <3>2. After(lm, nm)[j] = After(l, n)[j + 1] /\ x <= After(l, n)[j + 1] + Late(j + 1)
      BY <3>1, <1>4 DEF Bounded
    <3> QED  BY <3>2, <2>2, <2>3, <1>6
  <2> QED  BY <2>4, <2>5, <1>5
<1> QED  BY <1>8 DEF Bounded

-----------------------------------------------------------------------------
(* The inductive invariant.                                                *)

\* Ticks since the last timeout that was taken account of.
Elapsed == ticks_diff_get(counter, latest)

\* Ticks from there to the compare event.
Compare == ticks_diff_get(cc, latest)

\* Ticks from there to each timer of the list.
A == After(list, node)

\* The places in the list.
Places == 1 .. Len(list)

\* Ticks that may still pass before interrupt work is done.
Spare == MaxLatency - lag

\* timer_timeouts_check is on its way through the list.
Walking == isr.pc \in {"scan", "handler"}

\* timer_list_handler is at work.
InBatch == isr.pc \in {"insert", "update", "compare"}

\* An entry of the queue of operations.
Op == [type : {"start", "stop", "stop_all"}, timer : Timers \cup {None},
       at : Ticks, ticks : Nat, age : Nat]

\* The variables of timer_timeouts_check.
ScanType == [pc : {"scan", "handler"}, next : Nat, expired : Nat, elapsed : Nat]

\* The variables of list_insertions_handler.
InsertType == [pc : {"insert"}, update : BOOLEAN, restart : Seq(Timers), head : Timers \cup {None}]

\* Where a handler can be.
IsrType == [pc : {"idle", "update"}] \cup ScanType \cup InsertType \cup [pc : {"compare"}, counter : Ticks]

\* Each variable has its type, and the list is sound.
Types ==
    /\ counter \in Ticks /\ cc \in Ticks /\ latest \in Ticks
    /\ rtcRunning \in BOOLEAN /\ rtcPending \in BOOLEAN /\ swiPending \in BOOLEAN
    /\ rtcReset \in BOOLEAN
    /\ IsList(list, node)
    /\ lag \in 0 .. MaxLatency
    /\ expired \in Nat \cup {None}
    /\ isr \in IsrType
    /\ ops \in Seq(Op) /\ Len(ops) <= OpQueueSize
    /\ due \in [Timers -> DueType \cup {None}]

\* The fields of a node are times of its timer.
NodesOK == \A t \in Timers :
    /\ node[t].atStart \in Ticks
    /\ node[t].first \in Timeouts[t] \cup {0}
    /\ node[t].periodic \in Timeouts[t] \cup {0}
    /\ ~Listed(t) => node[t].toExpire \in Ticks

\* Operations are of timers, have not waited longer than interrupt work may, and the
\* software interrupt is pending or at work while there are any.
OpsOK ==
    /\ \A i \in 1 .. Len(ops) :
        /\ ops[i].type = "start" => /\ ops[i].timer \in Timers
                                    /\ ops[i].ticks \in Timeouts[ops[i].timer]
                                    /\ ops[i].age <= lag
        /\ ops[i].type = "stop" => ops[i].timer \in Timers
        /\ ops[i].type = "stop_all" => ops[i].timer = None
    /\ ops # <<>> => swiPending \/ isr.pc = "insert"

\* Expired ticks wait for the software interrupt; the counter was reset only within
\* a batch, which then sets CC[0].
BatchInv ==
    /\ expired # None => swiPending /\ list # <<>> /\ ~InBatch
    /\ rtcReset => InBatch /\ (isr.pc = "insert" => isr.update) /\ latest = 0

\* Timers of the list lie within the range of the counter, and the repeated ones know
\* their period.
ListInv == \A i \in Places :
    /\ A[i] <= Span
    /\ list[i] \in Repeated => node[list[i]].periodic \in Timeouts[list[i]]
    /\ list[i] \notin Repeated => node[list[i]].periodic = 0

\* The walk through the list has accounted for the ticks up to its place, and no timer
\* it passed over had expired more than lag ticks ago.
WalkInv ==
    /\ Walking =>
        /\ list # <<>> /\ isr.next >= 1 /\ isr.next <= Len(list) + 1
        /\ isr.expired = A[isr.next - 1]
        /\ isr.elapsed + isr.expired <= Elapsed
        /\ Elapsed <= isr.elapsed + isr.expired + lag
        /\ expired # None => expired <= isr.elapsed + isr.expired
    /\ expired # None =>
        /\ expired <= Elapsed
        /\ \A i \in Places : A[i] > expired => Elapsed < A[i] + lag

\* t has expired and waits to be started again.
Restarting(t) == isr.pc = "insert" /\ \E i \in 1 .. Len(isr.restart) : isr.restart[i] = t

\* The walk has passed t, or its expired ticks wait for the software interrupt.
Expiring(t) == \E i \in Places :
    /\ list[i] = t
    /\ (Walking /\ i < isr.next) \/ (expired # None /\ A[i] <= expired)

\* A timer runs exactly as long as it is in the list, due, not expired and not asked
\* to stop; where one of these fails, the reason is in the walk, in the batch or at the
\* head of the operations on that timer.
RunningInv == \A t \in Timers :
    /\ node[t].isRunning => Listed(t) /\ due[t] # None /\ ~Expiring(t)
    /\ node[t].isRunning /\ ~InBatch => ~Queued("stop", t)
    /\ Listed(t) /\ ~node[t].isRunning => Expiring(t) \/ FirstOpIs("stop", t)
    /\ due[t] # None /\ ~node[t].isRunning =>
          FirstOpIs("stop", t) \/ (Expiring(t) /\ t \in Repeated) \/ Restarting(t)
    /\ Listed(t) /\ t \in Repeated => due[t] # None

\* The period that is due is the one in the node.
EveryInv == \A t \in Timers : due[t] # None =>
    /\ t \in Repeated => due[t].every \in Timeouts[t]
    /\ t \notin Repeated => due[t].every = 0
    /\ due[t].every = node[t].periodic

\* Ticks from the timeout of t, which waits to be started again, to latest.
SinceTimeout(t) == ticks_diff_get(latest, node[t].atStart)

\* A timer that waits to be started again is repeated, has all it needs for the start,
\* and its next timeout is still ahead.
RestartOK(t) ==
    /\ t \in Repeated /\ ~Listed(t) /\ ~node[t].isRunning /\ due[t] # None
    /\ node[t].first = node[t].periodic /\ node[t].periodic \in Timeouts[t]
    /\ SinceTimeout(t) <= Late(1) + MaxLatency
    /\ Elapsed + CompareOffset + Spare <= node[t].first - SinceTimeout(t) + Delay
    /\ ~Queued("stop", t) =>
         /\ due[t].left <= node[t].first - SinceTimeout(t) - Elapsed
         /\ node[t].first - SinceTimeout(t) - Elapsed <= due[t].left + MaxLatency

\* Each of the timers to be started again is there once, and ready.
RestartInv ==
    /\ isr.pc = "insert" /\ isr.restart # <<>> =>
         /\ isr.update
         /\ rtcRunning
         /\ \A i, j \in 1 .. Len(isr.restart) : isr.restart[i] = isr.restart[j] => i = j
    /\ \A t \in Timers : Restarting(t) => RestartOK(t)

\* What is left of the timeout that the list waits for: the handler of a repeated
\* timer has been called, and its next timeout counted in, before it leaves the list.
Base(t) == IF node[t].isRunning THEN due[t].left ELSE due[t].left - due[t].every

\* The distances in the list tell the time left, for every timer that was not asked to
\* stop: exactly, but for the ticks a start waited before the counter ran.
DistInv == \A i \in Places :
    ~Queued("stop", list[i]) /\ due[list[i]] # None =>
        /\ Base(list[i]) <= A[i] - Elapsed
        /\ A[i] - Elapsed <= Base(list[i]) + MaxLatency
        /\ ~rtcRunning => A[i] - Elapsed <= Base(list[i]) + lag

\* The start at this place of the queue will not be ignored.
Takes(i) ==
    \/ ~node[ops[i].timer].isRunning
    \/ \E k \in 1 .. i - 1 : \/ ops[k].type = "stop_all"
                             \/ ops[k].type = "stop" /\ ops[k].timer = ops[i].timer

\* A start in the queue knows when it was asked for, and does not give a timer whose
\* stop it follows less time than it had, unless its time is over.
StartsInv == \A i \in 1 .. Len(ops) : ops[i].type = "start" =>
    /\ rtcReset => Elapsed <= ops[i].age
    /\ ~rtcReset /\ rtcRunning =>
         /\ ticks_diff_get(counter, ops[i].at) = ops[i].age
         /\ Elapsed - ops[i].age < HalfRange
         /\ ~InBatch /\ Takes(i) => \A j \in Places : list[j] = ops[i].timer =>
                              A[j] <= Elapsed - ops[i].age + ops[i].ticks \/ A[j] <= Elapsed
    /\ ~rtcRunning => ops[i].at = 0

\* Between batches the counter runs exactly as long as there are timers, and it will
\* not overtake latest.
ClockInv ==
    /\ ~rtcRunning => counter = 0 /\ latest = 0 /\ ~rtcPending
    /\ ~InBatch => (rtcRunning <=> list # <<>>)
    /\ Elapsed + Spare < CounterRange

\* CC[0] lets no timer be later than its place allows, and is not set before the first
\* timer without need.
CmpBound ==
    /\ Bounded(list, node, Compare)
    /\ Compare <= A[1] \/ Compare <= Elapsed + CompareOffset

\* The same for any value CC[0] may be given within this batch.
UpInv == Bounded(list, node, Elapsed + CompareOffset + Spare)

\* No timer is due so long before CC[0] can be set that it were late by more than Delay.
FreshInv == \A i \in Places : Elapsed + CompareOffset + Spare <= A[i] + Delay

\* The compare event has been seen.
Passed == rtcPending \/ Walking \/ expired # None

\* Between batches CC[0] lies ahead, or has been reached and its event is not lost.
WaitInv == ~InBatch /\ list # <<>> =>
    /\ CmpBound
    /\ Elapsed <= Compare + lag
    /\ ~Passed => Elapsed < Compare

\* In a batch that will not set CC[0] if the first timer stays the same: then it is
\* right as it is.
HeadInv == isr.pc = "insert" /\ ~isr.update =>
    /\ rtcRunning <=> isr.head # None
    /\ isr.head # None =>
         /\ Elapsed < Compare + lag
         /\ ~rtcPending => Elapsed < Compare
         /\ \A i \in 1 .. Len(ops) : ops[i].type = "start" /\ ops[i].timer = isr.head /\ Takes(i) =>
              \/ Compare <= Elapsed - ops[i].age + ops[i].ticks
              \/ Compare <= Elapsed + CompareOffset
    /\ list # <<>> /\ HeadOf(list) = isr.head => CmpBound
    /\ list # <<>> /\ HeadOf(list) # isr.head => FreshInv

\* In a batch that sets CC[0]: no timer is too late yet.
UpdateInv ==
    /\ isr.pc = "insert" /\ isr.update => UpInv
    /\ isr.pc \in {"update", "compare"} => UpInv /\ ops = <<>>
    /\ isr.pc = "compare" =>
         /\ list # <<>> /\ rtcRunning
         /\ ticks_diff_get(isr.counter, latest) <= Elapsed
         /\ Elapsed <= ticks_diff_get(isr.counter, latest) + lag


\* The inductive invariant.
IInv == /\ Types /\ NodesOK /\ OpsOK /\ BatchInv /\ ListInv /\ WalkInv
        /\ RunningInv /\ EveryInv /\ RestartInv /\ DistInv /\ StartsInv
        /\ ClockInv /\ WaitInv /\ HeadInv /\ UpdateInv

\* What the places of the handlers are.
LEMMA IsrCases ==
    ASSUME NEW s \in IsrType
    PROVE  /\ s.pc \in {"idle", "scan", "handler", "insert", "update", "compare"}
           /\ s.pc \in {"scan", "handler"} => s \in ScanType /\ s.next \in Nat /\ s.expired \in Nat /\ s.elapsed \in Nat
           /\ s.pc = "insert" => s \in InsertType /\ s.restart \in Seq(Timers) /\ s.head \in Timers \cup {None}
           /\ s.pc = "compare" => s.counter \in Ticks
<1>1. CASE s \in [pc : {"idle", "update"}]
  BY <1>1
<1>2. CASE s \in ScanType
  BY <1>2 DEF ScanType
<1>3. CASE s \in InsertType
  BY <1>3 DEF InsertType
<1>4. CASE s \in [pc : {"compare"}, counter : Ticks]
  BY <1>4
<1> QED  BY <1>1, <1>2, <1>3, <1>4 DEF IsrType

\* The numbers of a state.
LEMMA Numbers ==
    ASSUME Types
    PROVE  /\ Len(list) \in Nat /\ \A i \in Places : list[i] \in Timers
           /\ A \in [0 .. Len(list) -> Nat] /\ A[0] = 0
           /\ \A i, j \in 0 .. Len(list) : i <= j => A[i] <= A[j]
           /\ Elapsed \in Nat /\ Elapsed < CounterRange
           /\ Compare \in Nat /\ Compare < CounterRange
           /\ lag \in Nat /\ Spare \in Nat /\ lag <= MaxLatency /\ Spare = MaxLatency - lag
<1>1. IsList(list, node) /\ counter \in Ticks /\ cc \in Ticks /\ latest \in Ticks /\ lag \in 0 .. MaxLatency
  BY DEF Types
<1>2. Len(list) \in Nat /\ \A i \in Places : list[i] \in Timers
  BY <1>1, AfterOfList DEF Places
<1>3. A \in [0 .. Len(list) -> Nat] /\ A[0] = 0
  BY <1>1, AfterOfList DEF A
<1>4. \A i, j \in 0 .. Len(list) : i <= j => A[i] <= A[j]
  BY <1>1, AfterOfList DEF A
<1>5. Elapsed \in Ticks /\ Compare \in Ticks
  BY <1>1, DiffIs DEF Elapsed, Compare
<1>6. lag \in Nat /\ Spare \in Nat /\ lag <= MaxLatency /\ Spare = MaxLatency - lag
  BY <1>1, ConstantsAre DEF Spare
<1>7. Elapsed \in Nat /\ Elapsed < CounterRange /\ Compare \in Nat /\ Compare < CounterRange
  BY <1>5, RangeIs
<1> QED  BY <1>2, <1>3, <1>4, <1>6, <1>7

\* Steps that leave the list alone leave its nodes alone.
LEMMA FrameNodes == ASSUME NodesOK, UNCHANGED <<list, node>> PROVE NodesOK'
BY DEF NodesOK, Listed

\* Steps that leave the queue alone.
LEMMA FrameOps == ASSUME OpsOK, UNCHANGED <<ops, swiPending, isr, lag>> PROVE OpsOK'
BY DEF OpsOK

\* Steps that leave the list and the times alone.
LEMMA FrameList == ASSUME ListInv, UNCHANGED <<list, node, counter, latest>> PROVE ListInv'
BY DEF ListInv, Places, A, Elapsed

\* Steps that leave the distances and what is due alone.
LEMMA FrameDist ==
    ASSUME DistInv, UNCHANGED <<list, node, counter, latest, ops, due, rtcRunning, lag>>
    PROVE  DistInv'
BY DEF DistInv, Places, A, Elapsed, Queued, Base

\* Steps that leave the periods alone.
LEMMA FrameEvery ==
    ASSUME EveryInv, UNCHANGED due, \A t \in Timers : node'[t].periodic = node[t].periodic
    PROVE  EveryInv'
BY DEF EveryInv

\* Steps that leave the clock alone.
LEMMA FrameClock ==
    ASSUME ClockInv, UNCHANGED <<counter, latest, rtcRunning, rtcPending, lag, list>>,
           InBatch' <=> InBatch
    PROVE  ClockInv'
BY DEF ClockInv, Elapsed, Spare

\* Which starts will take effect depends on the queue and the nodes only.
LEMMA FrameTakes == ASSUME UNCHANGED <<ops, node>>, NEW i PROVE Takes(i)' <=> Takes(i)
BY DEF Takes

\* Steps that leave the queue and the clock alone.
LEMMA FrameStarts ==
    ASSUME StartsInv, UNCHANGED <<counter, latest, rtcRunning, rtcReset, list, node, ops>>,
           InBatch' <=> InBatch
    PROVE  StartsInv'
<1>1. A' = A /\ Elapsed' = Elapsed /\ Places' = Places
  BY DEF A, Elapsed, Places
<1>2. \A i : Takes(i)' <=> Takes(i)
  BY FrameTakes
<1> QED  BY <1>1, <1>2 DEF StartsInv

-----------------------------------------------------------------------------
(* A tick.                                                                 *)

\* Two counter values equally far from a third are the same.
LEMMA DiffSame ==
    ASSUME NEW a \in Ticks, NEW b \in Ticks, NEW old \in Ticks,
           ticks_diff_get(a, old) = ticks_diff_get(b, old)
    PROVE  a = b
<1> DEFINE d == ticks_diff_get(a, old)
           e == ticks_diff_get(b, old)
<1>1. /\ old <= a => d = a - old
      /\ a < old => d = a - old + CounterRange
  BY DiffIs
<1>2. /\ old <= b => e = b - old
      /\ b < old => e = b - old + CounterRange
  BY DiffIs
<1>3. a \in Nat /\ b \in Nat /\ old \in Nat /\ a < CounterRange /\ b < CounterRange /\ old < CounterRange /\ CounterRange \in Nat
  BY RangeIs
<1>4. d = e
  OBVIOUS
<1> HIDE DEF d, e
<1> QED  BY <1>1, <1>2, <1>3, <1>4

\* A tick makes the waiting starts older and changes nothing else about them.
LEMMA TickOps ==
    ASSUME Types, OpsOK, Tick
    PROVE  /\ ops' \in Seq(Op) /\ Len(ops') = Len(ops) /\ Len(ops) \in Nat
           /\ \A i \in 1 .. Len(ops) :
                /\ ops'[i].type = ops[i].type /\ ops'[i].timer = ops[i].timer
                /\ ops'[i].at = ops[i].at /\ ops'[i].ticks = ops[i].ticks
                /\ ops[i].ticks \in Nat /\ ops[i].age \in Nat /\ ops[i].at \in Ticks
                /\ ops[i].type = "start" => ops'[i].age = ops[i].age + 1
<1>1. ops \in Seq(Op)
  BY DEF Types
<1>2. Len(ops) \in Nat /\ DOMAIN ops = 1 .. Len(ops) /\ \A i \in 1 .. Len(ops) : ops[i] \in Op
  BY <1>1
<1>3. ops' = [i \in 1 .. Len(ops) |-> IF ops[i].type = "start"
                                    THEN [ops[i] EXCEPT !.age = @ + 1] ELSE ops[i]]
  BY <1>2 DEF Tick
<1>4. ASSUME NEW i \in 1 .. Len(ops)
      PROVE  /\ ops'[i] \in Op
             /\ ops'[i].type = ops[i].type /\ ops'[i].timer = ops[i].timer
             /\ ops'[i].at = ops[i].at /\ ops'[i].ticks = ops[i].ticks
             /\ ops[i].ticks \in Nat /\ ops[i].age \in Nat /\ ops[i].at \in Ticks
             /\ ops[i].type = "start" => ops'[i].age = ops[i].age + 1
  <2>1. ops[i] \in Op
    BY <1>2
  <2>2. ops'[i] = IF ops[i].type = "start" THEN [ops[i] EXCEPT !.age = @ + 1] ELSE ops[i]
    BY <1>3
  <2> HIDE <1>3
  <2> QED  BY <2>1, <2>2 DEF Op
<1>5. ops' \in [1 .. Len(ops) -> Op]
  BY <1>3, <1>4
<1>6. ops' \in Seq(Op) /\ Len(ops') = Len(ops)
  BY <1>2, <1>5
<1> QED  BY <1>2, <1>4, <1>6

\* What a tick does to the numbers.
LEMMA TickNumbers ==
    ASSUME IInv, Tick
    PROVE  /\ counter' \in Ticks /\ A' = A /\ Compare' = Compare
           /\ rtcRunning => Elapsed' = Elapsed + 1
           /\ ~rtcRunning => Elapsed' = Elapsed /\ counter' = counter
           /\ Busy => lag' = lag + 1 /\ Spare' = Spare - 1
           /\ ~Busy => lag' = 0 /\ Spare' = MaxLatency
           /\ lag' \in 0 .. MaxLatency
           /\ rtcPending' <=> rtcPending \/ (rtcRunning /\ Elapsed + 1 = Compare)
           /\ ~Busy /\ rtcRunning => Elapsed < Compare /\ Elapsed + 1 + MaxLatency < CounterRange
           /\ ~Busy => (rtcRunning <=> list # <<>>)
<1>1. Types /\ ListInv /\ ClockInv /\ WaitInv /\ BatchInv
  BY DEF IInv
<1>2. counter \in Ticks /\ cc \in Ticks /\ latest \in Ticks /\ lag \in 0 .. MaxLatency /\ isr \in IsrType
  BY <1>1 DEF Types
<1>3. /\ Len(list) \in Nat
      /\ A \in [0 .. Len(list) -> Nat]
      /\ Elapsed \in Nat /\ Elapsed < CounterRange /\ Compare \in Nat /\ Compare < CounterRange
      /\ lag \in Nat /\ Spare \in Nat /\ lag <= MaxLatency /\ Spare = MaxLatency - lag
  BY <1>1, Numbers
<1>4. MaxLatency \in Nat /\ CounterRange \in Nat /\ CounterRange >= 3 /\ CompareOffset \in Nat
  BY ConstantsAre
<1>5. A' = A /\ Compare' = Compare
  BY DEF Tick, lists, A, Compare
<1>6. /\ Busy => lag' = lag + 1 /\ Spare' = Spare - 1 /\ lag' \in 0 .. MaxLatency
      /\ ~Busy => lag' = 0 /\ Spare' = MaxLatency /\ lag' \in 0 .. MaxLatency
  <2>1. Spare' = MaxLatency - lag'
    BY DEF Spare
  <2> QED  BY <2>1, <1>3, <1>4 DEF Tick
<1>7. ASSUME ~Busy PROVE ~InBatch /\ ~Passed /\ (rtcRunning <=> list # <<>>)
  <2>1. isr.pc = "idle" /\ ~rtcPending /\ ~swiPending
    BY <1>7 DEF Busy
  <2>2. expired = None
    BY <2>1, <1>1 DEF BatchInv
  <2> QED  BY <2>1, <2>2, <1>1 DEF InBatch, Passed, Walking, ClockInv
<1>8. ASSUME ~Busy, rtcRunning PROVE Elapsed < Compare /\ Elapsed + 1 + MaxLatency < CounterRange
  <2>1. list # <<>> /\ CmpBound /\ Elapsed < Compare
    BY <1>7, <1>8, <1>1 DEF WaitInv
  <2>2. 1 \in 1 .. Len(list)
    <3>1. list \in Seq(Timers)
      BY <1>1 DEF Types, IsList
    <3> QED  BY <2>1, <3>1
  <2>3. Compare <= A[1] + Late(1)
    BY <2>1, <2>2 DEF CmpBound, Bounded, A
  <2>4. A[1] <= Span
    BY <2>2, <1>1 DEF ListInv, Places
  <2>5. Late(1) \in Nat
    <3>1. IsFiniteSet(Timers) /\ Cardinality(Timers) \in Nat /\ Len(list) <= Cardinality(Timers)
      BY <1>1, ListFits, ConstantsAre, TimingAssumption DEF Types, TimesFit
    <3>2. 1 \in 1 .. Cardinality(Timers)
      BY <3>1, <2>2, <1>3
    <3> QED  BY <3>2, LateIs
  <2>6. Span = CounterRange - MaxLatency - Late(1) - 1 /\ A[1] \in Nat
    <3>1. 1 \in 0 .. Len(list)
      BY <2>2, <1>3
    <3> QED  BY <3>1, <1>3 DEF Span
  <2> QED  BY <2>1, <2>3, <2>4, <2>5, <2>6, <1>3, <1>4
<1>9. rtcRunning => Elapsed + 1 < CounterRange
  <2>1. CASE Busy
    BY <2>1, <1>1, <1>3, <1>4 DEF ClockInv, Tick
  <2>2. CASE ~Busy
    BY <2>2, <1>8, <1>3, <1>4
  <2> QED  BY <2>1, <2>2
<1>10. ASSUME rtcRunning PROVE counter' \in Ticks /\ Elapsed' = Elapsed + 1
  <2>1. counter' = Ahead(counter, 1) /\ latest' = latest
    BY <1>10 DEF Tick, Ahead, lists
  <2>2. Ahead(counter, 1) \in Ticks /\ ticks_diff_get(Ahead(counter, 1), latest) = ticks_diff_get(counter, latest) + 1
    BY <1>9, <1>10, <1>2, DiffAhead DEF Elapsed
  <2> QED  BY <2>1, <2>2 DEF Elapsed
<1>11. ASSUME ~rtcRunning PROVE Elapsed' = Elapsed /\ counter' = counter
  BY <1>11 DEF Tick, lists, Elapsed
<1>12. ASSUME rtcRunning PROVE counter' = cc <=> Elapsed + 1 = Compare
  <2>1. latest' = latest
    BY DEF Tick, lists
  <2>2. counter' = cc => Elapsed' = Compare
    BY <2>1 DEF Elapsed, Compare
  <2>3. Elapsed' = Compare => counter' = cc
    BY <2>1, <1>10, <1>12, <1>2, DiffSame DEF Elapsed, Compare
  <2> QED  BY <2>2, <2>3, <1>10, <1>12
<1>13. rtcPending' <=> rtcPending \/ (rtcRunning /\ Elapsed + 1 = Compare)
  BY <1>12 DEF Tick
<1> QED  BY <1>2, <1>5, <1>6, <1>7, <1>8, <1>10, <1>11, <1>13

\* A tick takes one tick from whatever is due.
LEMMA TickDue ==
    ASSUME due \in [Timers -> DueType \cup {None}], Tick
    PROVE  /\ due' \in [Timers -> DueType \cup {None}]
           /\ \A t \in Timers : due'[t] = None <=> due[t] = None
           /\ \A t \in Timers : due[t] # None =>
                /\ due[t].left \in Int /\ due[t].every \in Nat
                /\ due'[t].left = due[t].left - 1 /\ due'[t].every = due[t].every
<1>1. due' = [t \in Timers |-> IF due[t] = None THEN None ELSE [due[t] EXCEPT !.left = @ - 1]]
  BY DEF Tick, OneTickOn
<1>2. ASSUME NEW t \in Timers
      PROVE  /\ due'[t] \in DueType \cup {None}
             /\ due'[t] = None <=> due[t] = None
             /\ due[t] # None =>
                /\ due[t].left \in Int /\ due[t].every \in Nat
                /\ due'[t].left = due[t].left - 1 /\ due'[t].every = due[t].every
  <2>1. CASE due[t] = None
    BY <2>1, <1>1
  <2>2. CASE due[t] # None
    <3>1. due[t] \in DueType
      BY <2>2
    <3>2. due'[t] = [due[t] EXCEPT !.left = @ - 1]
      BY <2>2, <1>1
    <3>3. due'[t] \in DueType
      BY <3>1, <3>2 DEF DueType
    <3>4. due'[t] # None
      BY <3>3, NoneIsNothing
    <3> QED  BY <2>2, <3>1, <3>2, <3>3, <3>4 DEF DueType
  <2> QED  BY <2>1, <2>2
<1>3. due' \in [Timers -> DueType \cup {None}]
  <2>1. DOMAIN due' = Timers /\ due' = [t \in Timers |-> due'[t]]
    BY <1>1
  <2> HIDE <1>1
  <2> QED  BY <2>1, <1>2
<1> QED  BY <1>2, <1>3

\* A tick changes nothing of the operations but their ages.
LEMMA TickQueue ==
    ASSUME Types, OpsOK, Tick
    PROVE  /\ \A t, ty : Queued(ty, t)' <=> Queued(ty, t)
           /\ \A t, ty : FirstOpIs(ty, t)' <=> FirstOpIs(ty, t)
           /\ \A i \in 1 .. Len(ops) : Takes(i)' <=> Takes(i)
<1>1. /\ Len(ops') = Len(ops) /\ Len(ops) \in Nat
      /\ \A i \in 1 .. Len(ops) : ops'[i].type = ops[i].type /\ ops'[i].timer = ops[i].timer
  BY TickOps
<1>2. \A i \in 1 .. Len(ops) : \A j \in 1 .. i - 1 : j \in 1 .. Len(ops)
  BY <1>1
<1>3. \A i \in 1 .. Len(ops) : Takes(i)' <=> Takes(i)
  <2>1. node' = node
    BY DEF Tick, lists
  <2> QED  BY <1>1, <1>2, <2>1 DEF Takes
<1>4. ASSUME NEW t, NEW ty
      PROVE  (Queued(ty, t)' <=> Queued(ty, t)) /\ (FirstOpIs(ty, t)' <=> FirstOpIs(ty, t))
  <2>1. Queued(ty, t)' <=> Queued(ty, t)
    BY <1>1 DEF Queued
  <2>2. \A i \in 1 .. Len(ops) : (\A j \in 1 .. i - 1 : ops'[j].timer # t) <=> (\A j \in 1 .. i - 1 : ops[j].timer # t)
    BY <1>1, <1>2
  <2>3. FirstOpIs(ty, t)' <=> FirstOpIs(ty, t)
    BY <1>1, <2>2 DEF FirstOpIs
  <2> QED  BY <2>1, <2>3
<1> QED  BY <1>3, <1>4

\* A tick keeps the invariant.
LEMMA TickKeeps ==
    ASSUME IInv, Tick
    PROVE  IInv'
<1>1. /\ Types /\ NodesOK /\ OpsOK /\ BatchInv /\ ListInv /\ WalkInv
      /\ RunningInv /\ EveryInv /\ RestartInv /\ DistInv /\ StartsInv
      /\ ClockInv /\ WaitInv /\ HeadInv /\ UpdateInv
  BY DEF IInv
<1>2. UNCHANGED <<cc, rtcRunning, swiPending, list, node, latest, expired, rtcReset, isr>>
  BY DEF Tick, lists
<1>3. /\ Len(list) \in Nat /\ \A i \in Places : list[i] \in Timers
      /\ A \in [0 .. Len(list) -> Nat] /\ \A i \in Places : A[i] \in Nat
      /\ Elapsed \in Nat /\ Elapsed < CounterRange /\ Compare \in Nat /\ Compare < CounterRange
      /\ lag \in Nat /\ Spare \in Nat /\ lag <= MaxLatency /\ Spare = MaxLatency - lag
      /\ MaxLatency \in Nat /\ CounterRange \in Nat /\ CompareOffset \in Nat
  <2>1. \A i \in Places : i \in 0 .. Len(list)
    BY <1>1, Numbers DEF Places
  <2> QED  BY <2>1, <1>1, Numbers, ConstantsAre
<1> DEFINE E1 == Elapsed'
           L1 == lag'
           S1 == Spare'
<1>n. /\ Elapsed \in Nat /\ Elapsed < CounterRange /\ Compare \in Nat /\ Compare < CounterRange
      /\ lag \in Nat /\ Spare \in Nat /\ lag <= MaxLatency /\ Spare = MaxLatency - lag
      /\ MaxLatency \in Nat /\ CounterRange \in Nat /\ CompareOffset \in Nat
  BY <1>3
<1>4. /\ counter' \in Ticks /\ A' = A /\ Compare' = Compare
      /\ rtcRunning => E1 = Elapsed + 1
      /\ ~rtcRunning => E1 = Elapsed /\ counter' = counter
      /\ Busy => L1 = lag + 1 /\ S1 = Spare - 1
      /\ ~Busy => L1 = 0 /\ S1 = MaxLatency
      /\ L1 \in 0 .. MaxLatency
      /\ rtcPending' <=> rtcPending \/ (rtcRunning /\ Elapsed + 1 = Compare)
      /\ ~Busy /\ rtcRunning => Elapsed < Compare /\ Elapsed + 1 + MaxLatency < CounterRange
      /\ ~Busy => (rtcRunning <=> list # <<>>)
  BY TickNumbers
<1> HIDE DEF E1, L1, S1
<1>m. Busy => L1 = lag + 1 /\ S1 = Spare - 1
  BY <1>4
<1>5. E1 \in Nat /\ Elapsed <= E1 /\ E1 <= Elapsed + 1 /\ L1 \in Nat /\ S1 \in Nat
  <2>1. Busy => Spare >= 1
    BY <1>3 DEF Tick
  <2> QED  BY <2>1, <1>3, <1>4 DEF E1, L1, S1
<1>6. /\ ops' \in Seq(Op) /\ Len(ops') = Len(ops) /\ Len(ops) \in Nat
      /\ \A i \in 1 .. Len(ops) :
           /\ ops'[i].type = ops[i].type /\ ops'[i].timer = ops[i].timer
           /\ ops'[i].at = ops[i].at /\ ops'[i].ticks = ops[i].ticks
           /\ ops[i].ticks \in Nat /\ ops[i].age \in Nat /\ ops[i].at \in Ticks
           /\ ops[i].type = "start" => ops'[i].age = ops[i].age + 1
  BY <1>1, TickOps
<1>7. /\ \A t, ty : Queued(ty, t)' <=> Queued(ty, t)
      /\ \A t, ty : FirstOpIs(ty, t)' <=> FirstOpIs(ty, t)
      /\ \A i \in 1 .. Len(ops) : Takes(i)' <=> Takes(i)
  BY <1>1, TickQueue
<1>8. /\ due' \in [Timers -> DueType \cup {None}]
      /\ \A t \in Timers : due'[t] = None <=> due[t] = None
      /\ \A t \in Timers : due[t] # None =>
           /\ due[t].left \in Int /\ due[t].every \in Nat
           /\ due'[t].left = due[t].left - 1 /\ due'[t].every = due[t].every
  BY <1>1, TickDue DEF Types
<1>9. /\ Places' = Places /\ (InBatch' <=> InBatch) /\ (Walking' <=> Walking)
      /\ (Busy => E1 + S1 <= Elapsed + Spare)
  <2>1. Places' = Places
    BY <1>2 DEF Places
  <2>2. (InBatch' <=> InBatch) /\ (Walking' <=> Walking)
    BY <1>2 DEF InBatch, Walking
  <2>3. Busy => E1 + S1 <= Elapsed + Spare
    BY <1>n, <1>m, <1>5
  <2> QED  BY <2>1, <2>2, <2>3 DEF E1, L1, S1
<1>10. /\ InBatch => Busy
       /\ Walking => Busy
       /\ expired # None => Busy
       /\ ops # <<>> => Busy
  BY <1>1 DEF InBatch, Walking, Busy, BatchInv, OpsOK
<1>11. ops' = <<>> <=> ops = <<>>
  BY <1>6, <1>1 DEF Types
<1> HIDE DEF Places
<1>t. Types'
  BY <1>1, <1>2, <1>4, <1>6, <1>8 DEF Types, Tick, E1, L1, S1
<1>z. NodesOK'
  BY <1>1, <1>2, FrameNodes DEF E1, L1, S1
<1>o. OpsOK'
  <2>1. ASSUME NEW i \in 1 .. Len(ops')
        PROVE  /\ ops'[i].type = "start" => /\ ops'[i].timer \in Timers
                                    /\ ops'[i].ticks \in Timeouts[ops'[i].timer]
                                    /\ ops'[i].age <= L1
               /\ ops'[i].type = "stop" => ops'[i].timer \in Timers
               /\ ops'[i].type = "stop_all" => ops'[i].timer = None
    <3>1. i \in 1 .. Len(ops) /\ ops # <<>>
      BY <1>6, <1>1 DEF Types
    <3>2. Busy
      BY <3>1, <1>10
    <3>3. /\ ops[i].type = "start" => /\ ops[i].timer \in Timers
                                       /\ ops[i].ticks \in Timeouts[ops[i].timer]
                                       /\ ops[i].age <= lag
          /\ ops[i].type = "stop" => ops[i].timer \in Timers
          /\ ops[i].type = "stop_all" => ops[i].timer = None
      BY <3>1, <1>1 DEF OpsOK
    <3>4. PICK a \in Nat, g \in Nat : a = ops[i].age /\ g = lag
      BY <3>1, <1>6, <1>n
    <3>5. L1 = g + 1
      BY <3>2, <3>4, <1>m
    <3>6. ops[i].type = "start" => a + 1 <= L1
      BY <3>3, <3>4, <3>5
    <3> QED  BY <3>1, <3>3, <3>4, <3>6, <1>6
  <2> QED  BY <2>1, <1>1, <1>2, <1>11 DEF OpsOK, E1, L1, S1
<1>b. BatchInv'
  BY <1>1, <1>2, <1>9 DEF BatchInv, E1, L1, S1
<1>l. ListInv'
  BY <1>1, <1>2, <1>4, <1>9 DEF ListInv
<1>w. WalkInv'
  <2>1. ASSUME Walking PROVE E1 <= isr.elapsed + isr.expired + L1 /\ isr.elapsed + isr.expired <= E1
    <3>1. isr.elapsed \in Nat /\ isr.expired \in Nat
      BY <2>1, <1>1, IsrCases DEF Types, Walking
    <3>2. Busy
      BY <2>1, <1>10
    <3> QED  BY <2>1, <3>1, <3>2, <1>1, <1>3, <1>4, <1>5 DEF WalkInv
  <2>2. ASSUME expired # None
        PROVE  expired <= E1 /\ \A i \in Places : A[i] > expired => E1 < A[i] + L1
    <3>1. expired \in Nat /\ Busy
      BY <2>2, <1>1, <1>10 DEF Types
    <3> QED  BY <2>2, <3>1, <1>1, <1>3, <1>4, <1>5 DEF WalkInv
  <2> QED  BY <2>1, <2>2, <1>1, <1>2, <1>4, <1>9 DEF WalkInv, E1, L1, S1
<1>r. RunningInv'
  <2>1. \A t \in Timers : /\ Expiring(t)' <=> Expiring(t)
                          /\ Restarting(t)' <=> Restarting(t)
                          /\ Listed(t)' <=> Listed(t)
    BY <1>2, <1>4, <1>9 DEF Expiring, Restarting, Listed
  <2> QED  BY <2>1, <1>1, <1>2, <1>7, <1>8, <1>9 DEF RunningInv, E1, L1, S1
<1>e. EveryInv'
  BY <1>1, <1>2, <1>8 DEF EveryInv, E1, L1, S1
<1>s. RestartInv'
  <2>1. ASSUME isr.pc = "insert", isr.restart # <<>>
        PROVE  rtcRunning /\ Busy /\ isr.update
               /\ \A i, j \in 1 .. Len(isr.restart) : isr.restart[i] = isr.restart[j] => i = j
    BY <2>1, <1>1, <1>10 DEF RestartInv, InBatch
  <2>2. ASSUME NEW t \in Timers, Restarting(t) PROVE RestartOK(t)'
    <3>1. RestartOK(t)
      BY <2>2, <1>1 DEF RestartInv
    <3>2. SinceTimeout(t)' = SinceTimeout(t) /\ (Listed(t)' <=> Listed(t)) /\ node' = node
      BY <1>2 DEF SinceTimeout, Listed
    <3>3. isr.pc = "insert" /\ isr.restart # <<>>
      BY <2>2, <1>1, IsrCases DEF Restarting, Types
    <3>4. node[t].atStart \in Ticks /\ node[t].first \in Nat /\ latest \in Ticks
      BY <1>1 DEF Types, IsList, Node, NodesOK
    <3>5. SinceTimeout(t) \in Nat
      BY <3>4, DiffIs, RangeIs DEF SinceTimeout
    <3>6. E1 = Elapsed + 1 /\ S1 = Spare - 1
      BY <3>3, <2>1, <1>4
    <3>7. Delay \in Int /\ due'[t] # None /\ due'[t].left = due[t].left - 1 /\ due[t].left \in Int
      BY <1>8, <3>1, ConstantsAre DEF RestartOK
    <3>8. Queued("stop", t)' <=> Queued("stop", t)
      BY <1>7
    <3>9. E1 + CompareOffset + S1 <= node[t].first - SinceTimeout(t) + Delay
      BY <3>1, <3>4, <3>5, <3>6, <3>7, <1>n DEF RestartOK
    <3>10. ~Queued("stop", t) =>
              /\ due[t].left - 1 <= node[t].first - SinceTimeout(t) - E1
              /\ node[t].first - SinceTimeout(t) - E1 <= (due[t].left - 1) + MaxLatency
      <4>1. due[t].left \in Int
        BY <3>7
      <4> QED  BY <3>1, <3>4, <3>5, <3>6, <4>1, <1>n DEF RestartOK
    <3> QED  BY <3>1, <3>2, <3>7, <3>8, <3>9, <3>10 DEF RestartOK, E1, S1
  <2> QED  BY <2>1, <2>2, <1>2 DEF RestartInv, Restarting
<1>d. DistInv'
  <2> SUFFICES ASSUME NEW i \in Places, ~Queued("stop", list[i])', due'[list[i]] # None
               PROVE  /\ Base(list[i])' <= A[i] - E1
                      /\ A[i] - E1 <= Base(list[i])' + MaxLatency
                      /\ ~rtcRunning => A[i] - E1 <= Base(list[i])' + L1
    BY <1>2, <1>4, <1>9 DEF DistInv, E1, L1, S1
  <2>1. list[i] \in Timers /\ A[i] \in Nat
    BY <1>3
  <2>2. due[list[i]] # None /\ ~Queued("stop", list[i])
    <3>1. due[list[i]] # None
      BY <2>1, <1>8
    <3>2. ~Queued("stop", list[i])
      BY <2>1, <1>7, <1>2
    <3> QED  BY <3>1, <3>2
  <2>3. Base(list[i])' = Base(list[i]) - 1 /\ Base(list[i]) \in Int
    BY <2>1, <2>2, <1>2, <1>8 DEF Base
  <2>4. /\ Base(list[i]) <= A[i] - Elapsed
        /\ A[i] - Elapsed <= Base(list[i]) + MaxLatency
        /\ ~rtcRunning => A[i] - Elapsed <= Base(list[i]) + lag
    BY <2>2, <1>1 DEF DistInv, E1, L1, S1
  <2>5. CASE rtcRunning
    BY <2>1, <2>3, <2>4, <2>5, <1>3, <1>4
  <2>6. CASE ~rtcRunning
    <3>1. list # <<>>
      BY <1>3, <1>1 DEF Places, Types, IsList
    <3>2. Busy
      BY <3>1, <2>6, <1>4
    <3>3. PICK a \in Nat, b \in Int, e \in Nat, g \in Nat, m \in Nat :
             a = A[i] /\ b = Base(list[i]) /\ e = Elapsed /\ g = lag /\ m = MaxLatency
      BY <2>1, <2>3, <1>n
    <3>4. Base(list[i])' = b - 1 /\ E1 = e /\ L1 = g + 1
      BY <3>2, <3>3, <2>3, <2>6, <1>4
    <3>5. b <= a - e /\ a - e <= b + g /\ g + 1 <= m
      BY <3>2, <3>3, <2>4, <2>6, <1>4, <1>5, <3>4
    <3>6. b - 1 <= a - e /\ a - e <= (b - 1) + m /\ a - e <= (b - 1) + (g + 1)
      BY ONLY <3>5
    <3> QED  BY <3>3, <3>4, <3>6
  <2> QED  BY <2>5, <2>6 DEF E1, L1, S1
<1>a. StartsInv'
  <2> SUFFICES ASSUME NEW i \in 1 .. Len(ops), ops[i].type = "start"
               PROVE  /\ rtcReset => E1 <= ops'[i].age
                      /\ ~rtcReset /\ rtcRunning =>
                           /\ ticks_diff_get(counter', ops[i].at) = ops'[i].age
                           /\ E1 - ops'[i].age < HalfRange
                           /\ ~InBatch /\ Takes(i) => \A j \in Places : list[j] = ops[i].timer =>
                                                A[j] <= E1 - ops'[i].age + ops[i].ticks \/ A[j] <= E1
                      /\ ~rtcRunning => ops[i].at = 0
    BY <1>2, <1>4, <1>6, <1>7, <1>9 DEF StartsInv, E1, L1, S1
  <2>1. ops'[i].age = ops[i].age + 1 /\ ops[i].age \in Nat /\ ops[i].at \in Ticks /\ ops[i].ticks \in Nat
    BY <1>6
  <2>2. ops[i].age <= lag /\ Busy /\ lag < MaxLatency
    <3>1. ops # <<>>
      BY <1>1 DEF Types
    <3> QED  BY <3>1, <1>1, <1>10 DEF OpsOK, Tick
  <2>3. HalfRange \in Int /\ MaxLatency < CounterRange
    BY ConstantsAre
  <2>4. /\ rtcReset => Elapsed <= ops[i].age
        /\ ~rtcReset /\ rtcRunning =>
             /\ ticks_diff_get(counter, ops[i].at) = ops[i].age
             /\ Elapsed - ops[i].age < HalfRange
             /\ ~InBatch /\ Takes(i) => \A j \in Places : list[j] = ops[i].timer =>
                                  A[j] <= Elapsed - ops[i].age + ops[i].ticks \/ A[j] <= Elapsed
        /\ ~rtcRunning => ops[i].at = 0
    BY <1>1 DEF StartsInv
  <2>5. rtcReset => E1 <= ops'[i].age
    BY <2>1, <2>4, <1>3, <1>5
  <2>6. ASSUME ~rtcReset, rtcRunning
        PROVE  /\ ticks_diff_get(counter', ops[i].at) = ops'[i].age
               /\ E1 - ops'[i].age < HalfRange
    <3>1. ticks_diff_get(counter, ops[i].at) + 1 < CounterRange
      BY <2>6, <2>1, <2>2, <2>3, <2>4, <1>3
    <3>2. counter' = Ahead(counter, 1) /\ counter \in Ticks
      BY <2>6, <1>1 DEF Tick, Ahead, Types
    <3>3. ticks_diff_get(Ahead(counter, 1), ops[i].at) = ticks_diff_get(counter, ops[i].at) + 1
      BY <3>1, <3>2, <2>1, DiffAhead
    <3> QED  BY <3>2, <3>3, <2>6, <2>1, <2>3, <2>4, <1>3, <1>4
  <2>7. ASSUME ~rtcReset, rtcRunning, ~InBatch, Takes(i), NEW j \in Places, list[j] = ops[i].timer
        PROVE  A[j] <= E1 - ops'[i].age + ops[i].ticks \/ A[j] <= E1
    <3>1. /\ A[j] \in Nat /\ E1 = Elapsed + 1
          /\ A[j] <= Elapsed - ops[i].age + ops[i].ticks \/ A[j] <= Elapsed
      BY <2>7, <2>4, <1>3, <1>4
    <3>2. A[j] <= E1 - (ops[i].age + 1) + ops[i].ticks \/ A[j] <= E1
      <4>1. PICK a \in Nat, e \in Nat, g \in Nat, d \in Nat :
               a = A[j] /\ e = Elapsed /\ g = ops[i].age /\ d = ops[i].ticks
        BY <3>1, <2>1, <1>n
      <4>2. E1 = e + 1 /\ (a <= e - g + d \/ a <= e)
        BY <3>1, <4>1
      <4>3. a <= e - g + d \/ a <= e
        BY <4>2
      <4>4. a <= (e + 1) - (g + 1) + d \/ a <= e + 1
        BY ONLY <4>3
      <4> QED  BY <4>1, <4>2, <4>4
    <3> QED  BY <3>2, <2>1
  <2> QED  BY <2>4, <2>5, <2>6, <2>7 DEF E1, L1, S1
<1>c. ClockInv'
  <2>1. E1 + S1 < CounterRange
    <3>1. CASE Busy
      BY <3>1, <1>9, <1>1, <1>n, <1>5 DEF ClockInv
    <3>2. CASE ~Busy /\ rtcRunning
      BY <3>2, <1>4, <1>3
    <3>3. CASE ~Busy /\ ~rtcRunning
      <4>1. counter = 0 /\ latest = 0
        BY <3>3, <1>1 DEF ClockInv
      <4>2. Elapsed = 0
        BY <4>1, <1>1, DiffZero DEF Elapsed, Types
      <4> QED  BY <3>3, <4>2, <1>4, ConstantsAre
    <3> QED  BY <3>1, <3>2, <3>3
  <2> QED  BY <2>1, <1>1, <1>2, <1>4, <1>9 DEF ClockInv, E1, L1, S1
<1>x. CmpBound => CmpBound'
  <2>1. CmpBound => Compare <= A[1] \/ Compare <= E1 + CompareOffset
    BY <1>n, <1>5 DEF CmpBound
  <2> QED  BY <2>1, <1>2, <1>4 DEF CmpBound, Bounded, E1, L1, S1
<1>y. Busy /\ UpInv => UpInv'
  <2>1. ASSUME Busy, UpInv, NEW i \in 1 .. Len(list)
        PROVE  E1 + CompareOffset + S1 <= After(list, node)[i] + Late(i)
    <3>1. Elapsed + CompareOffset + Spare <= After(list, node)[i] + Late(i)
      BY <2>1 DEF UpInv, Bounded
    <3>2. After(list, node)[i] \in Nat /\ Late(i) \in Nat
      <4>1. Len(list) <= Cardinality(Timers) /\ Cardinality(Timers) \in Nat
        BY <1>1, ListFits, ConstantsAre DEF Types
      <4>2. i \in 1 .. Cardinality(Timers)
        BY <4>1, <1>3
      <4> QED  BY <4>2, LateIs, <1>3 DEF A, Places
    <3> QED  BY <3>1, <3>2, <2>1, <1>n, <1>5, <1>9
  <2> QED  BY <2>1, <1>2 DEF UpInv, Bounded, E1, L1, S1
<1>f. Busy /\ FreshInv => FreshInv'
  <2>1. ASSUME Busy, FreshInv, NEW i \in Places PROVE E1 + CompareOffset + S1 <= A[i] + Delay
    <3>1. A[i] \in Nat /\ Delay \in Nat
      BY <2>1, <1>3, ConstantsAre
    <3>2. Elapsed + CompareOffset + Spare <= A[i] + Delay
      BY <2>1 DEF FreshInv
    <3> QED  BY <2>1, <3>1, <3>2, <1>n, <1>5, <1>9
  <2> QED  BY <2>1, <1>4, <1>9 DEF FreshInv, E1, L1, S1
<1>p. ~InBatch /\ list # <<>> => rtcRunning
  BY <1>1 DEF ClockInv
<1>v. WaitInv'
  <2> SUFFICES ASSUME ~InBatch, list # <<>>
               PROVE  CmpBound' /\ E1 <= Compare + L1 /\ (~Passed' => E1 < Compare)
    BY <1>2, <1>4, <1>9 DEF WaitInv, E1, L1, S1
  <2>1. CmpBound /\ Elapsed <= Compare + lag /\ (~Passed => Elapsed < Compare) /\ rtcRunning
    BY <1>1, <1>p DEF WaitInv
  <2>2. E1 <= Compare + L1
    <3>1. CASE Busy
      BY <3>1, <2>1, <1>3, <1>4
    <3>2. CASE ~Busy
      BY <3>2, <2>1, <1>3, <1>4
    <3> QED  BY <3>1, <3>2
  <2>3. ~Passed' => ~Passed /\ Elapsed + 1 # Compare
    BY <2>1, <1>2, <1>4 DEF Passed, Walking
  <2>4. ~Passed' => E1 < Compare
    BY <2>1, <2>3, <1>3, <1>4
  <2> QED  BY <2>1, <2>2, <2>4, <1>x DEF E1, L1, S1
<1>h. HeadInv'
  <2> SUFFICES ASSUME isr.pc = "insert", ~isr.update
               PROVE  /\ rtcRunning <=> isr.head # None
                      /\ isr.head # None =>
                           /\ E1 < Compare + L1
                           /\ ~rtcPending' => E1 < Compare
                           /\ \A i \in 1 .. Len(ops) : ops'[i].type = "start" /\ ops'[i].timer = isr.head /\ Takes(i) =>
                                \/ Compare <= E1 - ops'[i].age + ops'[i].ticks
                                \/ Compare <= E1 + CompareOffset
                      /\ list # <<>> /\ HeadOf(list) = isr.head => CmpBound'
                      /\ list # <<>> /\ HeadOf(list) # isr.head => FreshInv'
    BY <1>2, <1>4, <1>6, <1>7 DEF HeadInv, E1, L1, S1
  <2>1. Busy
    BY <1>10 DEF InBatch
  <2>2. /\ rtcRunning <=> isr.head # None
        /\ isr.head # None =>
             /\ Elapsed < Compare + lag
             /\ ~rtcPending => Elapsed < Compare
             /\ \A i \in 1 .. Len(ops) : ops[i].type = "start" /\ ops[i].timer = isr.head /\ Takes(i) =>
                  \/ Compare <= Elapsed - ops[i].age + ops[i].ticks
                  \/ Compare <= Elapsed + CompareOffset
        /\ list # <<>> /\ HeadOf(list) = isr.head => CmpBound
        /\ list # <<>> /\ HeadOf(list) # isr.head => FreshInv
    BY <1>1 DEF HeadInv
  <2>3. isr.head # None => E1 = Elapsed + 1 /\ L1 = lag + 1 /\ rtcRunning
    BY <2>1, <2>2, <1>4
  <2>4. isr.head # None => E1 < Compare + L1 /\ (~rtcPending' => E1 < Compare)
    BY <2>2, <2>3, <1>3, <1>4
  <2>5. ASSUME isr.head # None, NEW i \in 1 .. Len(ops), Takes(i), ops'[i].type = "start", ops'[i].timer = isr.head
        PROVE  \/ Compare <= E1 - ops'[i].age + ops'[i].ticks
               \/ Compare <= E1 + CompareOffset
    <3>1. /\ ops[i].type = "start" /\ ops[i].timer = isr.head /\ ops'[i].ticks = ops[i].ticks
          /\ ops'[i].age = ops[i].age + 1 /\ ops[i].age \in Nat /\ ops[i].ticks \in Nat
      BY <2>5, <1>6
    <3>2. \/ Compare <= E1 - (ops[i].age + 1) + ops[i].ticks
          \/ Compare <= E1 + CompareOffset
      <4>1. \/ Compare <= Elapsed - ops[i].age + ops[i].ticks
            \/ Compare <= Elapsed + CompareOffset
        BY <3>1, <2>2, <2>5
      <4>2. E1 = Elapsed + 1
        BY <2>3, <2>5
      <4>3. PICK e \in Nat, c \in Nat, g \in Nat, d \in Nat, o \in Nat :
               e = Elapsed /\ c = Compare /\ g = ops[i].age /\ d = ops[i].ticks /\ o = CompareOffset
        BY <3>1, <1>n
      <4>4. E1 = e + 1 /\ (c <= e - g + d \/ c <= e + o)
        BY <4>1, <4>2, <4>3
      <4>5. c <= e - g + d \/ c <= e + o
        BY <4>4
      <4>6. c <= (e + 1) - (g + 1) + d \/ c <= (e + 1) + o
        BY ONLY <4>5
      <4> QED  BY <4>3, <4>4, <4>6
    <3> QED  BY <3>1, <3>2
  <2> QED  BY <2>1, <2>2, <2>4, <2>5, <1>x, <1>f DEF E1, L1, S1
<1>u. UpdateInv'
  <2>1. isr.pc = "insert" /\ isr.update => UpInv'
    BY <1>1, <1>10, <1>y DEF UpdateInv, InBatch
  <2>2. isr.pc \in {"update", "compare"} => UpInv' /\ ops' = <<>>
    BY <1>1, <1>10, <1>11, <1>y DEF UpdateInv, InBatch
  <2>3. ASSUME isr.pc = "compare"
        PROVE  /\ list # <<>> /\ rtcRunning
               /\ ticks_diff_get(isr.counter, latest) <= E1
               /\ E1 <= ticks_diff_get(isr.counter, latest) + L1
    <3>1. ticks_diff_get(isr.counter, latest) \in Nat
      BY <2>3, <1>1, IsrCases, DiffIs, RangeIs DEF Types
    <3>2. Busy /\ list # <<>> /\ rtcRunning
      BY <2>3, <1>1, <1>10 DEF UpdateInv, InBatch
    <3> QED  BY <3>1, <3>2, <2>3, <1>1, <1>3, <1>4 DEF UpdateInv
  <2> QED  BY <2>1, <2>2, <2>3, <1>2 DEF UpdateInv, E1, L1, S1
<1> QED  BY <1>t, <1>z, <1>o, <1>b, <1>l, <1>w, <1>r, <1>e, <1>s, <1>d, <1>a, <1>c, <1>v, <1>h, <1>u DEF IInv

-----------------------------------------------------------------------------
(* The calls of the API.                                                   *)

\* CmpBound depends on the list, the times and CC[0] only.
LEMMA FrameCmp ==
    ASSUME CmpBound, list' = list, A' = A, Elapsed' = Elapsed, Compare' = Compare
    PROVE  CmpBound'
BY DEF CmpBound, Bounded, A

\* UpInv depends on the list, the times and lag only.
LEMMA FrameUp ==
    ASSUME UpInv, list' = list, A' = A, Elapsed' = Elapsed, Spare' = Spare
    PROVE  UpInv'
BY DEF UpInv, Bounded, A

\* FreshInv depends on the list, the times and lag only.
LEMMA FrameFresh ==
    ASSUME FreshInv, list' = list, A' = A, Elapsed' = Elapsed, Spare' = Spare
    PROVE  FreshInv'
BY DEF FreshInv, Places

\* Every number below n with a property has a least one below it.
LEMMA FirstOpExists ==
    ASSUME ops \in Seq(Op), NEW t, NEW k \in 1 .. Len(ops), ops[k].timer = t
    PROVE  \E i \in 1 .. Len(ops) : ops[i].timer = t /\ \A j \in 1 .. i - 1 : ops[j].timer # t
<1> DEFINE S == {n \in Nat : n <= Len(ops) =>
                   \/ \A j \in 1 .. n : ops[j].timer # t
                   \/ \E i \in 1 .. Len(ops) : ops[i].timer = t /\ \A j \in 1 .. i - 1 : ops[j].timer # t}
<1>1. Len(ops) \in Nat
  OBVIOUS
<1>2. 0 \in S
  OBVIOUS
<1>3. ASSUME NEW n \in Nat, n \in S PROVE n + 1 \in S
  <2> SUFFICES ASSUME n + 1 <= Len(ops), \A j \in 1 .. n : ops[j].timer # t
               PROVE  \/ \A j \in 1 .. n + 1 : ops[j].timer # t
                      \/ \E i \in 1 .. Len(ops) : ops[i].timer = t /\ \A j \in 1 .. i - 1 : ops[j].timer # t
    BY <1>1, <1>3
  <2>1. n + 1 \in 1 .. Len(ops) /\ (n + 1) - 1 = n /\ \A j \in 1 .. n + 1 : j \in 1 .. n \/ j = n + 1
    BY <1>1
  <2>2. CASE ops[n + 1].timer = t
    BY <2>1, <2>2
  <2>3. CASE ops[n + 1].timer # t
    BY <2>1, <2>3
  <2> QED  BY <2>2, <2>3
<1> HIDE DEF S
<1>4. Len(ops) \in S
  BY <1>1, <1>2, <1>3, SetInduction
<1> QED  BY <1>4, <1>1 DEF S

\* The operations of the queue.
LEMMA OpsAre ==
    ASSUME Types
    PROVE  /\ ops \in Seq(Op) /\ Len(ops) \in Nat
           /\ \A i \in 1 .. Len(ops) :
                /\ ops[i] \in Op /\ ops[i].type \in {"start", "stop", "stop_all"}
                /\ ops[i].ticks \in Nat /\ ops[i].age \in Nat /\ ops[i].at \in Ticks
<1>1. ops \in Seq(Op) /\ Len(ops) \in Nat
  BY DEF Types
<1>2. \A i \in 1 .. Len(ops) : ops[i] \in Op
  BY <1>1
<1> QED  BY <1>1, <1>2 DEF Op

\* What an operation put into the queue changes.
LEMMA AppendOps ==
    ASSUME Types, NEW op \in Op, ops' = Append(ops, op)
    PROVE  /\ ops' \in Seq(Op) /\ Len(ops') = Len(ops) + 1 /\ Len(ops) \in Nat
           /\ \A i \in 1 .. Len(ops) : ops'[i] = ops[i]
           /\ ops'[Len(ops) + 1] = op
           /\ \A i \in 1 .. Len(ops') : i = Len(ops) + 1 \/ i \in 1 .. Len(ops)
           /\ \A u, ty : Queued(ty, u)' <=> Queued(ty, u) \/ (op.type = ty /\ op.timer = u)
           /\ \A u, ty : FirstOpIs(ty, u) => FirstOpIs(ty, u)'
           /\ (\A i \in 1 .. Len(ops) : ops[i].timer # op.timer) => FirstOpIs(op.type, op.timer)'
<1>1. ops \in Seq(Op) /\ Len(ops) \in Nat
  BY DEF Types
<1>2. /\ ops' \in Seq(Op) /\ Len(ops') = Len(ops) + 1
      /\ \A i \in 1 .. Len(ops) : ops'[i] = ops[i]
      /\ ops'[Len(ops) + 1] = op
  BY <1>1
<1>3. /\ \A i \in 1 .. Len(ops') : i = Len(ops) + 1 \/ i \in 1 .. Len(ops)
      /\ \A i \in 1 .. Len(ops) : i \in 1 .. Len(ops') /\ \A j \in 1 .. i - 1 : j \in 1 .. Len(ops)
      /\ Len(ops) + 1 \in 1 .. Len(ops')
      /\ (Len(ops) + 1) - 1 = Len(ops)
  BY <1>1, <1>2
<1>4. ASSUME NEW u, NEW ty PROVE Queued(ty, u)' <=> Queued(ty, u) \/ (op.type = ty /\ op.timer = u)
  BY <1>2, <1>3 DEF Queued
<1>5. ASSUME NEW u, NEW ty, FirstOpIs(ty, u) PROVE FirstOpIs(ty, u)'
  BY <1>5, <1>2, <1>3 DEF FirstOpIs
<1>6. ASSUME \A i \in 1 .. Len(ops) : ops[i].timer # op.timer PROVE FirstOpIs(op.type, op.timer)'
  <2>1. \A j \in 1 .. (Len(ops) + 1) - 1 : ops'[j].timer # op.timer
    BY <1>6, <1>2, <1>3
  <2> QED  BY <2>1, <1>2, <1>3 DEF FirstOpIs
<1> QED  BY <1>1, <1>2, <1>3, <1>4, <1>5, <1>6

\* A timer whose timeout handler has been called has expired.
LEMMA ExpiredAreBefore ==
    ASSUME Types, WalkInv, NEW j \in Places,
           (Walking /\ j < isr.next) \/ (expired # None /\ A[j] <= expired)
    PROVE  A[j] <= Elapsed
<1>1. /\ Len(list) \in Nat /\ A \in [0 .. Len(list) -> Nat] /\ Elapsed \in Nat
      /\ \A a, b \in 0 .. Len(list) : a <= b => A[a] <= A[b]
  BY Numbers
<1>2. j \in 0 .. Len(list) /\ A[j] \in Nat
  BY <1>1 DEF Places
<1>3. CASE Walking /\ j < isr.next
  <2>1. isr.expired = A[isr.next - 1] /\ isr.next >= 1 /\ isr.next <= Len(list) + 1 /\ isr.elapsed + isr.expired <= Elapsed
    BY <1>3 DEF WalkInv
  <2>2. isr.next \in Nat /\ isr.expired \in Nat /\ isr.elapsed \in Nat
    BY <1>3, IsrCases DEF Walking, Types
  <2>3. isr.next - 1 \in 0 .. Len(list) /\ j <= isr.next - 1
    BY <1>1, <1>2, <1>3, <2>1, <2>2
  <2>4. A[j] <= isr.expired
    BY <1>1, <1>2, <2>1, <2>3
  <2> QED  BY <2>1, <2>2, <2>4, <1>1, <1>2
<1>4. CASE expired # None /\ A[j] <= expired
  <2>1. expired <= Elapsed /\ expired \in Nat
    BY <1>4 DEF WalkInv, Types
  <2> QED  BY <2>1, <1>1, <1>2, <1>4
<1> QED  BY <1>3, <1>4

\* An operation of the kinds that change no timer before their turn.
LEMMA EnqueueKeeps ==
    ASSUME IInv, MayCall, NEW op \in Op, Enqueue(op), node' = node,
           Len(ops) < OpQueueSize,
           op.type = "start" => /\ op.timer \in Timers /\ op.ticks \in Timeouts[op.timer]
                                /\ op.age = 0 /\ op.at = counter
                                /\ ticks_diff_get(counter, latest) < HalfRange
                                /\ ~RestartsSooner(op.timer, op.ticks),
           op.type # "stop", op.type = "stop_all" => op.timer = None
    PROVE  IInv'
<1>1. /\ Types /\ NodesOK /\ OpsOK /\ BatchInv /\ ListInv /\ WalkInv
      /\ RunningInv /\ EveryInv /\ RestartInv /\ DistInv /\ StartsInv
      /\ ClockInv /\ WaitInv /\ HeadInv /\ UpdateInv
  BY DEF IInv
<1>2. /\ UNCHANGED <<counter, cc, rtcRunning, rtcPending, list, node, latest, expired,
                     rtcReset, isr, lag, due>>
      /\ swiPending' = TRUE /\ ops' = Append(ops, op)
  BY DEF Enqueue
<1>3. /\ ops' \in Seq(Op) /\ Len(ops') = Len(ops) + 1 /\ Len(ops) \in Nat
      /\ \A i \in 1 .. Len(ops) : ops'[i] = ops[i]
      /\ ops'[Len(ops) + 1] = op
      /\ \A i \in 1 .. Len(ops') : i = Len(ops) + 1 \/ i \in 1 .. Len(ops)
  BY <1>1, <1>2, AppendOps
<1>4. /\ \A u, ty : Queued(ty, u)' <=> Queued(ty, u) \/ (op.type = ty /\ op.timer = u)
      /\ \A u, ty : FirstOpIs(ty, u) => FirstOpIs(ty, u)'
  BY <1>1, <1>2, AppendOps
<1>5. \A u : Queued("stop", u)' <=> Queued("stop", u)
  BY <1>4
<1>6. /\ isr.pc \in {"idle", "handler"} /\ ~InBatch /\ ~rtcReset
  BY <1>1 DEF MayCall, InBatch, BatchInv
<1>7. A' = A /\ Elapsed' = Elapsed /\ Compare' = Compare /\ Spare' = Spare /\ Places' = Places
      /\ (InBatch' <=> InBatch) /\ (Walking' <=> Walking)
  BY <1>2 DEF A, Elapsed, Compare, Spare, Places, InBatch, Walking
<1>8. OpQueueSize \in Nat
  BY ConstantsAre
<1>t. Types'
  <2>1. Len(ops') <= OpQueueSize
    BY <1>3, <1>8
  <2>2. swiPending' \in BOOLEAN
    BY <1>2
  <2> QED  BY <2>1, <2>2, <1>1, <1>2, <1>3 DEF Types
<1>z. NodesOK'
  BY <1>1, <1>2, FrameNodes
<1>o. OpsOK'
  <2>1. 0 <= lag
    BY <1>1, Numbers
  <2> QED  BY <2>1, <1>1, <1>2, <1>3 DEF OpsOK
<1>b. BatchInv'
  BY <1>1, <1>2, <1>7 DEF BatchInv
<1>l. ListInv'
  BY <1>1, <1>2, FrameList
<1>w. WalkInv'
  BY <1>1, <1>2, <1>7 DEF WalkInv
<1>r. RunningInv'
  <2>1. \A t \in Timers : /\ Expiring(t)' <=> Expiring(t)
                          /\ Restarting(t)' <=> Restarting(t)
                          /\ Listed(t)' <=> Listed(t)
    BY <1>2, <1>7 DEF Expiring, Restarting, Listed
  <2> QED  BY <2>1, <1>1, <1>2, <1>4, <1>5, <1>7 DEF RunningInv
<1>e. EveryInv'
  BY <1>1, <1>2, FrameEvery
<1>s. RestartInv'
  BY <1>2, <1>6 DEF RestartInv, Restarting
<1>d. DistInv'
  <2>1. \A t : Base(t)' = Base(t)
    BY <1>2 DEF Base
  <2> QED  BY <2>1, <1>1, <1>2, <1>5, <1>7 DEF DistInv
<1>a. StartsInv'
  <2> SUFFICES ASSUME NEW i \in 1 .. Len(ops'), ops'[i].type = "start"
               PROVE  /\ rtcReset => Elapsed <= ops'[i].age
                      /\ ~rtcReset /\ rtcRunning =>
                           /\ ticks_diff_get(counter, ops'[i].at) = ops'[i].age
                           /\ Elapsed - ops'[i].age < HalfRange
                           /\ ~InBatch /\ Takes(i)' => \A j \in Places : list[j] = ops'[i].timer =>
                                                A[j] <= Elapsed - ops'[i].age + ops'[i].ticks \/ A[j] <= Elapsed
                      /\ ~rtcRunning => ops'[i].at = 0
    BY <1>2, <1>7 DEF StartsInv
  <2>1. CASE i \in 1 .. Len(ops)
    <3>1. ops'[i] = ops[i] /\ \A k \in 1 .. i - 1 : ops'[k] = ops[k]
      BY <2>1, <1>3
    <3>2. Takes(i)' => Takes(i)
      BY <3>1, <1>2 DEF Takes
    <3> QED  BY <2>1, <3>1, <3>2, <1>1 DEF StartsInv
  <2>2. CASE i = Len(ops) + 1
    <3>1. ops'[i] = op /\ op.type = "start"
      BY <2>2, <1>3
    <3>2. op.age = 0 /\ op.at = counter /\ op.ticks \in Timeouts[op.timer] /\ counter \in Ticks
      BY <3>1, <1>1 DEF Types
    <3>3. ticks_diff_get(counter, op.at) = op.age
      BY <3>2, DiffZero
    <3>4. Elapsed \in Nat /\ op.ticks \in Int
      BY <3>1, <1>1, Numbers DEF Op
    <3>5. Elapsed - op.age < HalfRange
      BY <3>1, <3>2, <3>4 DEF Elapsed
    <3>6. ~rtcRunning => op.at = 0
      BY <3>2, <1>1 DEF ClockInv
    <3>7. ASSUME Takes(i)', NEW j \in Places, list[j] = op.timer PROVE A[j] <= Elapsed - op.age + op.ticks
      <4>0. A[j] \in Nat /\ Len(list) \in Nat /\ Elapsed \in Nat /\ op.ticks \in Nat
        <5>1. A \in [0 .. Len(list) -> Nat] /\ Len(list) \in Nat
          BY <1>1, Numbers
        <5>2. j \in 0 .. Len(list)
          BY <5>1 DEF Places
        <5> QED  BY <5>1, <5>2, <3>4 DEF Op
      <4>2. CASE Queued("stop", op.timer) \/ Queued("stop_all", None)
        <5>1. ~(op.ticks < After(list, node)[j] - ticks_diff_get(counter, latest))
          BY <4>2, <3>1, <3>7 DEF RestartsSooner, Places
        <5>2. ~(op.ticks < A[j] - Elapsed)
          BY <5>1 DEF A, Elapsed
        <5> QED  BY <5>2, <4>0, <3>2
      <4>3. CASE ~Queued("stop", op.timer) /\ ~Queued("stop_all", None)
        <5>1. ~node[op.timer].isRunning
          <6>1. ASSUME NEW k \in 1 .. i - 1
                PROVE  ~(ops'[k].type = "stop_all") /\ ~(ops'[k].type = "stop" /\ ops'[k].timer = op.timer)
            <7>1. k \in 1 .. Len(ops) /\ ops'[k] = ops[k]
              BY <2>2, <1>3
            <7>2. ops[k].type = "stop_all" => ops[k].timer = None
              BY <7>1, <1>1 DEF OpsOK
            <7> QED  BY <7>1, <7>2, <4>3 DEF Queued
          <6>2. ~node'[ops'[i].timer].isRunning
            BY <6>1, <3>1, <3>7 DEF Takes
          <6> QED  BY <6>2, <3>1, <1>2
        <5>2. Listed(op.timer) /\ op.timer \in Timers
          BY <3>7, <3>1 DEF Listed, Places
        <5>3. ~FirstOpIs("stop", op.timer)
          BY <4>3 DEF FirstOpIs, Queued
        <5>4. Expiring(op.timer)
          BY <5>1, <5>2, <5>3, <1>1 DEF RunningInv
        <5>5. PICK m \in Places : list[m] = op.timer /\ ((Walking /\ m < isr.next) \/ (expired # None /\ A[m] <= expired))
          BY <5>4 DEF Expiring
        <5>6. m = j
          <6>1. \A a, b \in 1 .. Len(list) : list[a] = list[b] => a = b
            BY <1>1 DEF Types, IsList
          <6> QED  BY <6>1, <5>5, <3>7 DEF Places
        <5>7. A[j] <= Elapsed
          BY <1>1, <5>5, <5>6, ExpiredAreBefore
        <5> QED  BY <5>7, <4>0, <3>2
      <4> QED  BY <4>2, <4>3
    <3> QED  BY <3>1, <3>3, <3>5, <3>6, <3>7, <1>6
  <2> QED  BY <2>1, <2>2, <1>3
<1>c. ClockInv'
  BY <1>1, <1>2, <1>7, FrameClock
<1>v. WaitInv'
  <2>1. Passed' <=> Passed
    BY <1>2, <1>7 DEF Passed
  <2>2. CmpBound => CmpBound'
    BY <1>2, <1>7, FrameCmp
  <2> QED  BY <2>1, <2>2, <1>1, <1>2, <1>7 DEF WaitInv
<1>h. HeadInv'
  BY <1>2, <1>6 DEF HeadInv
<1>u. UpdateInv'
  BY <1>2, <1>6 DEF UpdateInv
<1> QED  BY <1>t, <1>z, <1>o, <1>b, <1>l, <1>w, <1>r, <1>e, <1>s, <1>d, <1>a, <1>c, <1>v, <1>h, <1>u DEF IInv

\* app_timer_start keeps the invariant.
LEMMA StartCallKeeps ==
    ASSUME Usage = {}, IInv, NEW t \in Timers, NEW d \in Timeouts[t], app_timer_start(t, d)
    PROVE  IInv'
<1> DEFINE op == [type |-> "start", timer |-> t, at |-> counter, ticks |-> d, age |-> 0]
<1>1. counter \in Ticks
  BY DEF IInv, Types
<1>2. d \in Nat
  BY TimerAssumption
<1>3. op \in Op
  BY <1>1, <1>2 DEF Op
<1>4. MayCall /\ Enqueue(op) /\ node' = node /\ Len(ops) < OpQueueSize /\ ticks_diff_get(counter, latest) < HalfRange
  BY DEF app_timer_start
<1>6. ~RestartsSooner(t, d)
  BY DEF app_timer_start
<1>5. op.type = "start" /\ op.timer = t /\ op.ticks = d /\ op.age = 0 /\ op.at = counter
  OBVIOUS
<1> HIDE DEF op
<1> QED  BY <1>3, <1>4, <1>5, <1>6, EnqueueKeeps

\* app_timer_stop_all keeps the invariant.
LEMMA StopAllCallKeeps ==
    ASSUME IInv, app_timer_stop_all
    PROVE  IInv'
<1> DEFINE op == [type |-> "stop_all", timer |-> None, at |-> 0, ticks |-> 0, age |-> 0]
<1>3. op \in Op
  <2>1. 0 \in Ticks
    BY RangeIs
  <2> QED  BY <2>1 DEF Op
<1>4. MayCall /\ Enqueue(op) /\ node' = node /\ Len(ops) < OpQueueSize
  BY DEF app_timer_stop_all
<1>5. op.type = "stop_all" /\ op.timer = None
  OBVIOUS
<1> HIDE DEF op
<1> QED  BY <1>3, <1>4, <1>5, EnqueueKeeps

\* app_timer_stop keeps the invariant.
LEMMA StopCallKeeps ==
    ASSUME Usage = {}, IInv, NEW t \in Timers, app_timer_stop(t)
    PROVE  IInv'
<1> DEFINE op == [type |-> "stop", timer |-> t, at |-> 0, ticks |-> 0, age |-> 0]
<1>1. /\ Types /\ NodesOK /\ OpsOK /\ BatchInv /\ ListInv /\ WalkInv
      /\ RunningInv /\ EveryInv /\ RestartInv /\ DistInv /\ StartsInv
      /\ ClockInv /\ WaitInv /\ HeadInv /\ UpdateInv
  BY DEF IInv
<1>2. /\ UNCHANGED <<counter, cc, rtcRunning, rtcPending, list, latest, expired,
                     rtcReset, isr, lag, due>>
      /\ swiPending' = TRUE /\ ops' = Append(ops, op) /\ Len(ops) < OpQueueSize
      /\ MayCall /\ ~StopsIgnoredStart(t)
      /\ node' = [node EXCEPT ![t].isRunning = FALSE]
  BY DEF app_timer_stop, Enqueue
<1>o1. op \in Op /\ op.type = "stop" /\ op.timer = t
  <2>1. 0 \in Ticks
    BY RangeIs
  <2> QED  BY <2>1 DEF Op
<1> HIDE DEF op
<1>3. /\ ops' \in Seq(Op) /\ Len(ops') = Len(ops) + 1 /\ Len(ops) \in Nat
      /\ \A i \in 1 .. Len(ops) : ops'[i] = ops[i]
      /\ ops'[Len(ops) + 1] = op
      /\ \A i \in 1 .. Len(ops') : i = Len(ops) + 1 \/ i \in 1 .. Len(ops)
  BY <1>1, <1>2, <1>o1, AppendOps
<1>4. /\ \A u, ty : Queued(ty, u)' <=> Queued(ty, u) \/ (op.type = ty /\ op.timer = u)
      /\ \A u, ty : FirstOpIs(ty, u) => FirstOpIs(ty, u)'
      /\ (\A i \in 1 .. Len(ops) : ops[i].timer # t) => FirstOpIs("stop", t)'
  <2>1. (\A i \in 1 .. Len(ops) : ops[i].timer # op.timer) => FirstOpIs(op.type, op.timer)'
    BY <1>1, <1>2, <1>o1, AppendOps
  <2> QED  BY <2>1, <1>1, <1>2, <1>o1, AppendOps
<1>5. \A u : Queued("stop", u)' <=> Queued("stop", u) \/ u = t
  BY <1>4, <1>o1
<1>6. /\ isr.pc \in {"idle", "handler"} /\ ~InBatch /\ ~rtcReset
  BY <1>1, <1>2 DEF MayCall, InBatch, BatchInv
<1>8. OpQueueSize \in Nat
  BY ConstantsAre
<1>9. node \in [Timers -> Node] /\ IsList(list, node)
  BY <1>1 DEF Types, IsList
<1>10. /\ node' \in [Timers -> Node]
       /\ ~node'[t].isRunning
       /\ \A u \in Timers : u # t => node'[u] = node[u]
       /\ \A u \in Timers : /\ node'[u].toExpire = node[u].toExpire /\ node'[u].atStart = node[u].atStart
                            /\ node'[u].first = node[u].first /\ node'[u].periodic = node[u].periodic
  BY <1>9, <1>2 DEF Node
<1>11. IsList(list', node')
  BY <1>9, <1>10, <1>2 DEF IsList
<1>7. A' = A
  <2>1. Len(list) \in Nat /\ \A i \in 1 .. Len(list) : list[i] \in Timers /\ node[list[i]].toExpire \in Nat
    BY <1>9, AfterOfList
  <2>2. After(list, node') = After(list, node)
    BY <2>1, <1>10, AfterKept
  <2> QED  BY <2>2, <1>2 DEF A
<1>12. Elapsed' = Elapsed /\ Compare' = Compare /\ Spare' = Spare /\ Places' = Places
      /\ (InBatch' <=> InBatch) /\ (Walking' <=> Walking)
  BY <1>2 DEF Elapsed, Compare, Spare, Places, InBatch, Walking
<1>13. \A i \in Places : list[i] \in Timers
  BY <1>9, AfterOfList DEF Places
<1>14. due[t] # None => FirstOpIs("stop", t)'
  <2> SUFFICES ASSUME due[t] # None, NEW k \in 1 .. Len(ops), ops[k].timer = t PROVE FirstOpIs("stop", t)'
    BY <1>4
  <2>1. PICK i \in 1 .. Len(ops) : ops[i].timer = t /\ \A j \in 1 .. i - 1 : ops[j].timer # t
    BY FirstOpExists, <1>1 DEF Types
  <2>2. ops[i].type # "start"
    BY <2>1, <1>2 DEF StopsIgnoredStart, FirstOpIs
  <2>3. ops[i].type # "stop_all"
    <3>1. None # t
      BY NoneIsNothing
    <3>2. ops[i].timer # None
      BY <2>1, <3>1
    <3> QED  BY <3>2, <1>1 DEF OpsOK
  <2>4. ops[i].type \in {"start", "stop", "stop_all"}
    BY <1>1, OpsAre
  <2>5. FirstOpIs("stop", t)
    BY <2>1, <2>2, <2>3, <2>4 DEF FirstOpIs
  <2> QED  BY <2>5, <1>4
<1>t. Types'
  <2>1. Len(ops') <= OpQueueSize
    BY <1>2, <1>3, <1>8
  <2>2. swiPending' \in BOOLEAN
    BY <1>2
  <2> QED  BY <2>1, <2>2, <1>1, <1>2, <1>3, <1>11 DEF Types
<1>z. NodesOK'
  BY <1>1, <1>2, <1>10 DEF NodesOK, Listed
<1>o. OpsOK'
  BY <1>1, <1>2, <1>3, <1>o1 DEF OpsOK
<1>b. BatchInv'
  BY <1>1, <1>2, <1>12 DEF BatchInv
<1>l. ListInv'
  BY <1>1, <1>2, <1>7, <1>10, <1>12, <1>13 DEF ListInv
<1>w. WalkInv'
  BY <1>1, <1>2, <1>7, <1>12 DEF WalkInv
<1>r. RunningInv'
  <2>1. ASSUME NEW u \in Timers
        PROVE  /\ Expiring(u)' <=> Expiring(u)
               /\ Restarting(u)' <=> Restarting(u)
               /\ Listed(u)' <=> Listed(u)
               /\ FirstOpIs("stop", u) => FirstOpIs("stop", u)'
    BY <1>2, <1>4, <1>7, <1>12 DEF Expiring, Restarting, Listed
  <2>2. ASSUME NEW u \in Timers, node'[u].isRunning PROVE u # t /\ node[u].isRunning
    BY <2>2, <1>10
  <2>3. ASSUME NEW u \in Timers
        PROVE  /\ node'[u].isRunning => Listed(u)' /\ due'[u] # None /\ ~Expiring(u)'
               /\ node'[u].isRunning /\ ~InBatch' => ~Queued("stop", u)'
    BY <2>1, <2>2, <1>1, <1>2, <1>5, <1>12 DEF RunningInv
  <2>4. ASSUME NEW u \in Timers, ~node'[u].isRunning
        PROVE  /\ Listed(u)' => Expiring(u)' \/ FirstOpIs("stop", u)'
               /\ due'[u] # None => FirstOpIs("stop", u)' \/ (Expiring(u)' /\ u \in Repeated) \/ Restarting(u)'
    <3>1. CASE node[u].isRunning
      <4>1. u = t /\ due[t] # None
        BY <3>1, <2>4, <1>1, <1>10 DEF RunningInv
      <4> QED  BY <4>1, <1>14
    <3>2. CASE ~node[u].isRunning
      BY <3>2, <2>1, <1>1, <1>2 DEF RunningInv
    <3> QED  BY <3>1, <3>2
  <2> QED  BY <2>1, <2>3, <2>4, <1>1, <1>2 DEF RunningInv
<1>e. EveryInv'
  BY <1>1, <1>2, <1>10, FrameEvery
<1>s. RestartInv'
  BY <1>2, <1>6 DEF RestartInv, Restarting
<1>d. DistInv'
  <2>1. \A u \in Timers : u # t => Base(u)' = Base(u)
    BY <1>2, <1>10 DEF Base
  <2> QED  BY <2>1, <1>1, <1>2, <1>5, <1>7, <1>12, <1>13 DEF DistInv
<1>a. StartsInv'
  <2>1. ASSUME NEW i \in 1 .. Len(ops'), ops'[i].type = "start" PROVE i \in 1 .. Len(ops) /\ ops'[i] = ops[i]
    BY <2>1, <1>3, <1>o1
  <2>2. ASSUME NEW i \in 1 .. Len(ops), ops[i].type = "start", Takes(i)' PROVE Takes(i)
    <3>1. ops'[i] = ops[i] /\ \A k \in 1 .. i - 1 : ops'[k] = ops[k]
      BY <1>3
    <3>2. CASE ops[i].timer # t
      <4>1. ops[i].timer \in Timers
        BY <2>2, <1>1 DEF OpsOK
      <4>2. node'[ops[i].timer] = node[ops[i].timer]
        BY <3>2, <4>1, <1>10
      <4> QED  BY <3>1, <4>2, <2>2 DEF Takes
    <3>3. CASE ops[i].timer = t /\ node[t].isRunning
      <4>1. ~Queued("stop", t) /\ due[t] # None
        BY <3>3, <1>1, <1>6 DEF RunningInv
      <4>2. PICK m \in 1 .. Len(ops) : ops[m].timer = t /\ \A j \in 1 .. m - 1 : ops[j].timer # t
        <5>1. ops \in Seq(Op)
          BY <1>1 DEF Types
        <5>2. ops[i].timer = t
          BY <3>3
        <5> QED
          BY <5>1, <5>2, FirstOpExists
      <4>3. ops[m].type # "stop"
        BY <4>1, <4>2 DEF Queued
      <4>4. ops[m].type # "stop_all"
        <5>1. None # t
          BY NoneIsNothing
        <5>2. ops[m].timer # None
          BY <4>2, <5>1
        <5> QED  BY <5>2, <1>1 DEF OpsOK
      <4>5. ops[m].type = "start"
        BY <4>3, <4>4, <1>1, OpsAre
      <4>6. FirstOpIs("start", t)
        BY <4>2, <4>5 DEF FirstOpIs
      <4> QED  BY <4>1, <4>6, <1>2 DEF StopsIgnoredStart
    <3>4. CASE ops[i].timer = t /\ ~node[t].isRunning
      BY <3>4 DEF Takes
    <3> QED  BY <3>2, <3>3, <3>4
  <2> SUFFICES ASSUME NEW i \in 1 .. Len(ops'), ops'[i].type = "start"
               PROVE  /\ rtcReset => Elapsed <= ops'[i].age
                      /\ ~rtcReset /\ rtcRunning =>
                           /\ ticks_diff_get(counter, ops'[i].at) = ops'[i].age
                           /\ Elapsed - ops'[i].age < HalfRange
                           /\ ~InBatch /\ Takes(i)' => \A j \in Places : list[j] = ops'[i].timer =>
                                                A[j] <= Elapsed - ops'[i].age + ops'[i].ticks \/ A[j] <= Elapsed
                      /\ ~rtcRunning => ops'[i].at = 0
    BY <1>2, <1>7, <1>12 DEF StartsInv
  <2>3. i \in 1 .. Len(ops) /\ ops'[i] = ops[i]
    BY <2>1
  <2>4. ops[i].type = "start"
    BY <2>3
  <2>5. Takes(i)' => Takes(i)
    BY <2>2, <2>3, <2>4
  <2> QED  BY <2>3, <2>4, <2>5, <1>1 DEF StartsInv
<1>c. ClockInv'
  BY <1>1, <1>2, <1>12, FrameClock
<1>v. WaitInv'
  <2>1. Passed' <=> Passed
    BY <1>2, <1>12 DEF Passed
  <2>2. CmpBound => CmpBound'
    BY <1>2, <1>7, <1>12, FrameCmp
  <2> QED  BY <2>1, <2>2, <1>1, <1>2, <1>12 DEF WaitInv
<1>h. HeadInv'
  BY <1>2, <1>6 DEF HeadInv
<1>u. UpdateInv'
  BY <1>2, <1>6 DEF UpdateInv
<1> QED  BY <1>t, <1>z, <1>o, <1>b, <1>l, <1>w, <1>r, <1>e, <1>s, <1>d, <1>a, <1>c, <1>v, <1>h, <1>u DEF IInv

-----------------------------------------------------------------------------
(* The handler of RTC1.                                                    *)

\* What the walk of the RTC1 handler keeps as it goes on: the parts of the
\* invariant that do not speak of its place.
LEMMA WalkFrame ==
    ASSUME IInv, ~InBatch, ~InBatch',
           UNCHANGED <<counter, cc, rtcRunning, latest, ops, lag, list, rtcReset>>,
           A' = A,
           isr.pc \in {"idle", "scan", "handler"}, isr'.pc \in {"idle", "scan", "handler"},
           swiPending => swiPending',
           rtcPending' => rtcPending,
           list # <<>> => Passed'
    PROVE  /\ OpsOK' /\ RestartInv' /\ ClockInv' /\ WaitInv' /\ HeadInv' /\ UpdateInv'
<1>1. /\ OpsOK /\ BatchInv /\ StartsInv /\ ClockInv /\ WaitInv
  BY DEF IInv
<1>2. Elapsed' = Elapsed /\ Compare' = Compare /\ Spare' = Spare /\ Places' = Places
  BY DEF Elapsed, Compare, Spare, Places
<1>3. OpsOK'
  BY <1>1 DEF OpsOK
<1>4. isr'.pc # "insert" /\ isr'.pc # "update" /\ isr'.pc # "compare"
  OBVIOUS
<1>5. RestartInv' /\ HeadInv' /\ UpdateInv'
  BY <1>4 DEF RestartInv, Restarting, HeadInv, UpdateInv
<1>7. ClockInv'
  BY <1>1, <1>2 DEF ClockInv
<1>8. CmpBound => CmpBound'
  BY <1>2, FrameCmp
<1>9. WaitInv'
  BY <1>1, <1>2, <1>8 DEF WaitInv
<1> QED  BY <1>3, <1>5, <1>7, <1>9

\* The RTC1 handler begins.
LEMMA RtcEnterKeeps ==
    ASSUME IInv, RtcEnter
    PROVE  IInv'
<1>1. /\ Types /\ NodesOK /\ OpsOK /\ BatchInv /\ ListInv /\ WalkInv
      /\ RunningInv /\ EveryInv /\ RestartInv /\ DistInv /\ StartsInv
      /\ ClockInv /\ WaitInv /\ HeadInv /\ UpdateInv
  BY DEF IInv
<1>2. /\ UNCHANGED <<counter, cc, rtcRunning, swiPending, list, node, latest, expired, rtcReset, ops, lag, due>>
      /\ isr.pc = "idle" /\ rtcPending /\ ~rtcPending'
  BY DEF RtcEnter, lists
<1>3. ~InBatch /\ ~Walking
  BY <1>2 DEF InBatch, Walking
<1>4. list # <<>>
  BY <1>1, <1>2, <1>3 DEF ClockInv
<1>5. isr' = [pc |-> "scan", next |-> 1, expired |-> 0, elapsed |-> Elapsed]
  BY <1>4 DEF RtcEnter, Elapsed
<1>6. /\ Len(list) \in Nat /\ A \in [0 .. Len(list) -> Nat] /\ A[0] = 0
      /\ Elapsed \in Nat /\ lag \in Nat
  BY <1>1, Numbers
<1>7. /\ isr'.pc = "scan" /\ isr'.next = 1 /\ isr'.expired = 0 /\ isr'.elapsed = Elapsed
      /\ isr' \in IsrType
  BY <1>5, <1>6 DEF IsrType, ScanType
<1>8. A' = A /\ Elapsed' = Elapsed /\ Places' = Places
  BY <1>2 DEF A, Elapsed, Places
<1>9. Walking' /\ ~InBatch' /\ Passed'
  BY <1>7 DEF Walking, InBatch, Passed
<1>a. StartsInv'
  BY <1>1, <1>2, <1>3, <1>9, FrameStarts
<1>10. OpsOK' /\ RestartInv' /\ ClockInv' /\ WaitInv' /\ HeadInv' /\ UpdateInv'
  BY <1>2, <1>3, <1>7, <1>8, <1>9, WalkFrame
<1>t. Types'
  <2>1. rtcPending' \in BOOLEAN
    BY DEF RtcEnter
  <2> QED  BY <2>1, <1>1, <1>2, <1>7 DEF Types
<1>z. NodesOK'
  BY <1>1, <1>2, FrameNodes
<1>b. BatchInv'
  BY <1>1, <1>2, <1>3, <1>9 DEF BatchInv
<1>l. ListInv'
  BY <1>1, <1>2, FrameList
<1>w. WalkInv'
  <2>1. list # <<>> /\ 1 <= Len(list) + 1
    BY <1>4, <1>6
  <2>2. isr'.expired = A[isr'.next - 1]
    BY <1>6, <1>7
  <2>3. isr'.elapsed + isr'.expired = Elapsed
    BY <1>6, <1>7
  <2>4. expired # None => expired <= Elapsed
    BY <1>1 DEF WalkInv
  <2>5. Elapsed <= Elapsed + lag /\ Elapsed <= Elapsed
    BY <1>6
  <2>6. isr'.next >= 1
    BY <1>7
  <2> QED  BY <2>1, <2>2, <2>3, <2>4, <2>5, <2>6, <1>1, <1>2, <1>7, <1>8 DEF WalkInv
<1>r. RunningInv'
  <2>1. \A i \in Places : ~(i < isr'.next)
    BY <1>6, <1>7 DEF Places
  <2>2. ASSUME NEW t \in Timers
        PROVE  /\ Expiring(t)' <=> Expiring(t)
               /\ ~Restarting(t)' /\ ~Restarting(t)
               /\ Listed(t)' <=> Listed(t)
               /\ Queued("stop", t)' <=> Queued("stop", t)
               /\ FirstOpIs("stop", t)' <=> FirstOpIs("stop", t)
    <3>1. Expiring(t)' <=> Expiring(t)
      BY <2>1, <1>2, <1>3, <1>8 DEF Expiring
    <3>2. ~Restarting(t)' /\ ~Restarting(t)
      BY <1>2, <1>7 DEF Restarting
    <3>3. Listed(t)' <=> Listed(t)
      BY <1>2 DEF Listed
    <3>4. (Queued("stop", t)' <=> Queued("stop", t)) /\ (FirstOpIs("stop", t)' <=> FirstOpIs("stop", t))
      BY <1>2 DEF Queued, FirstOpIs
    <3> QED  BY <3>1, <3>2, <3>3, <3>4
  <2> QED  BY <2>2, <1>1, <1>2, <1>3, <1>9 DEF RunningInv
<1>e. EveryInv'
  BY <1>1, <1>2, FrameEvery
<1>d. DistInv'
  BY <1>1, <1>2, FrameDist
<1> QED  BY <1>t, <1>z, <1>b, <1>l, <1>w, <1>r, <1>e, <1>d, <1>a, <1>10 DEF IInv

\* A timeout handler returns.
LEMMA RtcHandlerReturnsKeeps ==
    ASSUME IInv, RtcHandlerReturns
    PROVE  IInv'
<1>1. /\ Types /\ NodesOK /\ OpsOK /\ BatchInv /\ ListInv /\ WalkInv
      /\ RunningInv /\ EveryInv /\ RestartInv /\ DistInv /\ StartsInv
      /\ ClockInv /\ WaitInv /\ HeadInv /\ UpdateInv
  BY DEF IInv
<1>2. /\ UNCHANGED <<counter, cc, rtcRunning, rtcPending, swiPending, list, node, latest, expired, rtcReset, ops, lag, due>>
      /\ isr.pc = "handler" /\ isr' = [isr EXCEPT !.pc = "scan"]
  BY DEF RtcHandlerReturns, lists, hw
<1>3. ~InBatch /\ Walking
  BY <1>2 DEF InBatch, Walking
<1>7. /\ isr'.pc = "scan" /\ isr'.next = isr.next /\ isr'.expired = isr.expired /\ isr'.elapsed = isr.elapsed
      /\ isr' \in IsrType
  <2>1. isr \in ScanType
    BY <1>1, <1>2, IsrCases DEF Types
  <2>2. isr' \in ScanType /\ isr'.pc = "scan" /\ isr'.next = isr.next /\ isr'.expired = isr.expired /\ isr'.elapsed = isr.elapsed
    BY <2>1, <1>2 DEF ScanType
  <2> QED  BY <2>2 DEF IsrType
<1>8. A' = A /\ Elapsed' = Elapsed /\ Places' = Places
  BY <1>2 DEF A, Elapsed, Places
<1>9. Walking' /\ ~InBatch' /\ Passed'
  BY <1>7 DEF Walking, InBatch, Passed
<1>a. StartsInv'
  BY <1>1, <1>2, <1>3, <1>9, FrameStarts
<1>10. OpsOK' /\ RestartInv' /\ ClockInv' /\ WaitInv' /\ HeadInv' /\ UpdateInv'
  BY <1>2, <1>3, <1>7, <1>8, <1>9, WalkFrame
<1>t. Types'
  BY <1>1, <1>2, <1>7 DEF Types
<1>z. NodesOK'
  BY <1>1, <1>2, FrameNodes
<1>b. BatchInv'
  BY <1>1, <1>2, <1>3, <1>9 DEF BatchInv
<1>l. ListInv'
  BY <1>1, <1>2, FrameList
<1>w. WalkInv'
  BY <1>1, <1>2, <1>3, <1>7, <1>8 DEF WalkInv
<1>r. RunningInv'
  <2>2. ASSUME NEW t \in Timers
        PROVE  /\ Expiring(t)' <=> Expiring(t)
               /\ ~Restarting(t)' /\ ~Restarting(t)
               /\ Listed(t)' <=> Listed(t)
               /\ Queued("stop", t)' <=> Queued("stop", t)
               /\ FirstOpIs("stop", t)' <=> FirstOpIs("stop", t)
    <3>1. Expiring(t)' <=> Expiring(t)
      BY <1>2, <1>3, <1>7, <1>8, <1>9 DEF Expiring
    <3>2. ~Restarting(t)' /\ ~Restarting(t)
      BY <1>2, <1>7 DEF Restarting
    <3>3. Listed(t)' <=> Listed(t)
      BY <1>2 DEF Listed
    <3>4. (Queued("stop", t)' <=> Queued("stop", t)) /\ (FirstOpIs("stop", t)' <=> FirstOpIs("stop", t))
      BY <1>2 DEF Queued, FirstOpIs
    <3> QED  BY <3>1, <3>2, <3>3, <3>4
  <2> QED  BY <2>2, <1>1, <1>2, <1>3, <1>9 DEF RunningInv
<1>e. EveryInv'
  BY <1>1, <1>2, FrameEvery
<1>d. DistInv'
  BY <1>1, <1>2, FrameDist
<1> QED  BY <1>t, <1>z, <1>b, <1>l, <1>w, <1>r, <1>e, <1>d, <1>a, <1>10 DEF IInv

\* The walk ends.
LEMMA RtcLeaveKeeps ==
    ASSUME IInv, RtcLeave
    PROVE  IInv'
<1>1. /\ Types /\ NodesOK /\ OpsOK /\ BatchInv /\ ListInv /\ WalkInv
      /\ RunningInv /\ EveryInv /\ RestartInv /\ DistInv /\ StartsInv
      /\ ClockInv /\ WaitInv /\ HeadInv /\ UpdateInv
  BY DEF IInv
<1>2. /\ UNCHANGED <<counter, cc, rtcRunning, rtcPending, list, node, latest, rtcReset, ops, lag, due>>
      /\ isr.pc = "scan" /\ isr' = IsrIdle /\ expired' = isr.expired /\ swiPending' = TRUE /\ ~ScanFinds
  BY DEF RtcLeave
<1>3. ~InBatch /\ Walking
  BY <1>2 DEF InBatch, Walking
<1>4. isr.next \in Nat /\ isr.expired \in Nat /\ isr.elapsed \in Nat
  BY <1>1, <1>2, IsrCases DEF Types
<1>5. expired' \in Nat /\ expired' # None
  BY <1>2, <1>4, NoneIsNothing
<1>6. /\ Len(list) \in Nat /\ A \in [0 .. Len(list) -> Nat] /\ A[0] = 0
      /\ \A i, j \in 0 .. Len(list) : i <= j => A[i] <= A[j]
      /\ Elapsed \in Nat /\ lag \in Nat
  BY <1>1, Numbers
<1>7. /\ isr'.pc = "idle" /\ isr' \in IsrType
  BY <1>2 DEF IsrType, IsrIdle
<1>8. A' = A /\ Elapsed' = Elapsed /\ Places' = Places
  BY <1>2 DEF A, Elapsed, Places
<1>9. ~Walking' /\ ~InBatch' /\ Passed'
  BY <1>5, <1>7 DEF Walking, InBatch, Passed
<1>a. StartsInv'
  BY <1>1, <1>2, <1>3, <1>9, FrameStarts
<1>10. OpsOK' /\ RestartInv' /\ ClockInv' /\ WaitInv' /\ HeadInv' /\ UpdateInv'
  BY <1>2, <1>3, <1>7, <1>8, <1>9, WalkFrame
<1>11. /\ list # <<>> /\ isr.next >= 1 /\ isr.next <= Len(list) + 1
       /\ isr.expired = A[isr.next - 1]
       /\ isr.elapsed + isr.expired <= Elapsed
       /\ Elapsed <= isr.elapsed + isr.expired + lag
       /\ expired # None => expired <= isr.elapsed + isr.expired
  BY <1>1, <1>3 DEF WalkInv
<1>12. ASSUME NEW i \in Places
       PROVE  /\ i < isr.next => A[i] <= isr.expired
              /\ i >= isr.next => A[i] > isr.elapsed + isr.expired
              /\ A[i] \in Nat
  <2>1. i \in 0 .. Len(list) /\ i \in Nat /\ i <= Len(list) /\ i >= 1
    BY <1>6 DEF Places
  <2>2. ASSUME i < isr.next PROVE A[i] <= isr.expired
    <3>1. isr.next - 1 \in 0 .. Len(list) /\ i <= isr.next - 1
      BY <2>1, <2>2, <1>4, <1>6, <1>11
    <3> QED  BY <2>1, <3>1, <1>6, <1>11
  <2>3. ASSUME i >= isr.next PROVE A[i] > isr.elapsed + isr.expired
    <3>1. isr.next \in 1 .. Len(list) /\ isr.next \in 0 .. Len(list) /\ isr.next <= Len(list)
      BY <2>1, <2>3, <1>4, <1>6, <1>11
    <3>2. /\ A[isr.next] = A[isr.next - 1] + node[list[isr.next]].toExpire
          /\ node[list[isr.next]].toExpire \in Nat
      <4>1. IsList(list, node)
        BY <1>1 DEF Types
      <4> QED  BY <3>1, <4>1, AfterOfList DEF A
    <3>3. isr.elapsed < node[list[isr.next]].toExpire
      BY <3>1, <3>2, <1>2, <1>4 DEF ScanFinds
    <3>4. A[isr.next] <= A[i]
      BY <3>1, <2>1, <2>3, <1>6
    <3>5. A[isr.next] \in Nat /\ A[i] \in Nat
      BY <3>1, <2>1, <1>6
    <3>6. A[isr.next] > isr.elapsed + isr.expired
      BY <3>2, <3>3, <3>5, <1>4, <1>11
    <3> QED  BY <3>4, <3>5, <3>6, <1>4
  <2>4. A[i] \in Nat
    BY <2>1, <1>6
  <2> QED  BY <2>2, <2>3, <2>4
<1>13. \A i \in Places : i \in Nat
  BY <1>6 DEF Places
<1>t. Types'
  <2>1. swiPending' \in BOOLEAN
    BY <1>2
  <2> QED  BY <2>1, <1>1, <1>2, <1>5, <1>7 DEF Types
<1>z. NodesOK'
  BY <1>1, <1>2, FrameNodes
<1>b. BatchInv'
  BY <1>1, <1>2, <1>3, <1>9, <1>11 DEF BatchInv
<1>l. ListInv'
  BY <1>1, <1>2, FrameList
<1>w. WalkInv'
  <2>1. isr.expired <= Elapsed
    BY <1>4, <1>6, <1>11
  <2>2. ASSUME NEW i \in Places, A[i] > isr.expired PROVE Elapsed < A[i] + lag
    <3>1. i >= isr.next
      BY <2>2, <1>4, <1>12, <1>13
    <3> QED  BY <3>1, <1>4, <1>6, <1>11, <1>12
  <2>3. expired' <= Elapsed /\ \A i \in Places : A[i] > expired' => Elapsed < A[i] + lag
    BY <2>1, <2>2, <1>2
  <2> QED  BY <2>3, <1>2, <1>8, <1>9 DEF WalkInv
<1>r. RunningInv'
  <2>1. ASSUME NEW i \in Places PROVE A[i] <= isr.expired <=> i < isr.next
    BY <1>4, <1>12, <1>13
  <2>2. ASSUME NEW i \in Places, expired # None, A[i] <= expired PROVE i < isr.next
    <3>1. expired \in Nat
      BY <2>2, <1>1 DEF Types
    <3> QED  BY <3>1, <2>2, <1>4, <1>11, <1>12, <1>13
  <2>3. ASSUME NEW t \in Timers
        PROVE  /\ Expiring(t)' <=> Expiring(t)
               /\ ~Restarting(t)' /\ ~Restarting(t)
               /\ Listed(t)' <=> Listed(t)
               /\ Queued("stop", t)' <=> Queued("stop", t)
               /\ FirstOpIs("stop", t)' <=> FirstOpIs("stop", t)
    <3>1. Expiring(t)' <=> \E i \in Places : list[i] = t /\ i < isr.next
      BY <2>1, <1>2, <1>5, <1>8, <1>9 DEF Expiring
    <3>2. Expiring(t) <=> \E i \in Places : list[i] = t /\ i < isr.next
      BY <2>2, <1>3 DEF Expiring
    <3>3. ~Restarting(t)' /\ ~Restarting(t)
      BY <1>2, <1>7 DEF Restarting
    <3>4. Listed(t)' <=> Listed(t)
      BY <1>2 DEF Listed
    <3>5. (Queued("stop", t)' <=> Queued("stop", t)) /\ (FirstOpIs("stop", t)' <=> FirstOpIs("stop", t))
      BY <1>2 DEF Queued, FirstOpIs
    <3> QED  BY <3>1, <3>2, <3>3, <3>4, <3>5
  <2> QED  BY <2>3, <1>1, <1>2, <1>3, <1>9 DEF RunningInv
<1>e. EveryInv'
  BY <1>1, <1>2, FrameEvery
<1>d. DistInv'
  BY <1>1, <1>2, FrameDist
<1> QED  BY <1>t, <1>z, <1>b, <1>l, <1>w, <1>r, <1>e, <1>d, <1>a, <1>10 DEF IInv

\* A repeated timer has times to come, another has not.
LEMMA AfterTimeoutIs ==
    ASSUME Types, EveryInv, NEW t \in Timers, due[t] # None
    PROVE  /\ due[t].left \in Int /\ due[t].every \in Nat
           /\ AfterTimeout(due[t]) \in DueType \cup {None}
           /\ t \notin Repeated => AfterTimeout(due[t]) = None
           /\ t \in Repeated => /\ AfterTimeout(due[t]) # None
                                /\ AfterTimeout(due[t]).left = due[t].left + due[t].every
                                /\ AfterTimeout(due[t]).every = due[t].every
<1>1. due[t] \in DueType
  BY DEF Types
<1>2. due[t].left \in Int /\ due[t].every \in Nat
  BY <1>1 DEF DueType
<1>3. CASE t \notin Repeated
  <2>1. due[t].every = 0
    BY <1>3 DEF EveryInv
  <2> QED  BY <2>1, <1>2, <1>3 DEF AfterTimeout
<1>4. CASE t \in Repeated
  <2>1. due[t].every # 0
    <3>1. due[t].every \in Timeouts[t]
      BY <1>4 DEF EveryInv
    <3> QED  BY <3>1, TimerAssumption
  <2>2. AfterTimeout(due[t]) = [due[t] EXCEPT !.left = @ + due[t].every]
    BY <2>1 DEF AfterTimeout
  <2>3. [due[t] EXCEPT !.left = @ + due[t].every] \in DueType
    BY <1>1, <1>2 DEF DueType
  <2>4. AfterTimeout(due[t]) \in DueType
    BY <2>2, <2>3
  <2>5. AfterTimeout(due[t]) # None
    BY <2>4, NoneIsNothing
  <2>6. AfterTimeout(due[t]).left = due[t].left + due[t].every /\ AfterTimeout(due[t]).every = due[t].every
    BY <2>2, <1>1 DEF DueType
  <2> QED  BY <2>4, <2>5, <2>6, <1>2, <1>4
<1> QED  BY <1>3, <1>4

\* The walk goes past an expired timer, and calls its handler if it runs.
LEMMA RtcExpireKeeps ==
    ASSUME IInv, RtcExpire
    PROVE  IInv'
<1>p. PICK p : p = isr.next
  OBVIOUS
<1>q. PICK t : t = list[p]
  OBVIOUS
<1>1. /\ Types /\ NodesOK /\ OpsOK /\ BatchInv /\ ListInv /\ WalkInv
      /\ RunningInv /\ EveryInv /\ RestartInv /\ DistInv /\ StartsInv
      /\ ClockInv /\ WaitInv /\ HeadInv /\ UpdateInv
  BY DEF IInv
<1>2. /\ UNCHANGED <<counter, cc, rtcRunning, rtcPending, swiPending, list, latest, expired, rtcReset, ops, lag>>
      /\ isr.pc = "scan" /\ ScanFinds
  BY DEF RtcExpire, hw
<1>3. ~InBatch /\ Walking
  BY <1>2 DEF InBatch, Walking
<1>4. isr.next \in Nat /\ isr.expired \in Nat /\ isr.elapsed \in Nat /\ isr \in ScanType
  BY <1>1, <1>2, IsrCases DEF Types
<1>5. /\ Len(list) \in Nat /\ A \in [0 .. Len(list) -> Nat] /\ A[0] = 0
      /\ Elapsed \in Nat /\ lag \in Nat /\ IsList(list, node)
  BY <1>1, Numbers DEF Types
<1>6. /\ list # <<>> /\ isr.next >= 1 /\ isr.next <= Len(list) + 1
      /\ isr.expired = A[isr.next - 1]
      /\ isr.elapsed + isr.expired <= Elapsed
      /\ Elapsed <= isr.elapsed + isr.expired + lag
      /\ expired # None => expired <= isr.elapsed + isr.expired
  BY <1>1, <1>3 DEF WalkInv
<1>7. p \in Places /\ p \in 1 .. Len(list) /\ t \in Timers
  <2>1. p \in 1 .. Len(list)
    BY <1>p, <1>2, <1>4, <1>5, <1>6 DEF ScanFinds
  <2> QED  BY <2>1, <1>q, <1>5, AfterOfList DEF Places
<1>8. /\ node[t].toExpire \in Nat /\ A[p] = isr.expired + node[t].toExpire
      /\ node[t].toExpire <= isr.elapsed
  <2>1. A[p] = A[p - 1] + node[t].toExpire /\ node[t].toExpire \in Nat
    BY <1>q, <1>7, <1>5, AfterOfList DEF A
  <2> QED  BY <2>1, <1>p, <1>q, <1>2, <1>6 DEF ScanFinds
<1>9. /\ isr' \in ScanType /\ isr'.pc \in {"scan", "handler"} /\ isr'.next = p + 1
      /\ isr'.expired = isr.expired + node[t].toExpire
      /\ isr'.elapsed = isr.elapsed - node[t].toExpire
  <2> DEFINE e == isr.expired + node[t].toExpire
             f == isr.elapsed - node[t].toExpire
             q == p + 1
  <2>0. PICK x : x = [isr EXCEPT !.next = @ + 1, !.elapsed = @ - node[t].toExpire,
                                 !.expired = @ + node[t].toExpire]
    OBVIOUS
  <2>1. isr' = x \/ isr' = [x EXCEPT !.pc = "handler"]
    BY <1>p, <1>q, <2>0 DEF RtcExpire
  <2>2. e \in Nat /\ f \in Nat /\ q \in Nat /\ q = isr.next + 1
    BY <1>4, <1>8, <1>p
  <2>4. x = [isr EXCEPT !.next = q, !.elapsed = f, !.expired = e]
    BY <2>0, <2>2, <1>4 DEF ScanType
  <2> HIDE DEF e, f, q
  <2>5. x \in ScanType /\ x.pc = "scan" /\ x.next = q /\ x.expired = e /\ x.elapsed = f
    BY <2>4, <2>2, <1>2, <1>4 DEF ScanType
  <2>3. isr' \in ScanType /\ isr'.pc \in {"scan", "handler"} /\ isr'.next = q /\ isr'.expired = e /\ isr'.elapsed = f
    BY <2>1, <2>5 DEF ScanType
  <2> QED  BY <2>3 DEF e, f, q
<1>10. \/ /\ node[t].isRunning
          /\ node' = [node EXCEPT ![t].isRunning = FALSE]
          /\ due' = [due EXCEPT ![t] = AfterTimeout(@)]
       \/ ~node[t].isRunning /\ node' = node /\ due' = due
  BY <1>p, <1>q DEF RtcExpire
<1>11. /\ node' \in [Timers -> Node]
       /\ ~node'[t].isRunning
       /\ \A u \in Timers : u # t => node'[u] = node[u]
       /\ \A u \in Timers : /\ node'[u].toExpire = node[u].toExpire /\ node'[u].atStart = node[u].atStart
                            /\ node'[u].first = node[u].first /\ node'[u].periodic = node[u].periodic
  <2>1. node \in [Timers -> Node]
    BY <1>5 DEF IsList
  <2>2. CASE node' = node /\ ~node[t].isRunning
    BY <2>1, <2>2, <1>7
  <2>3. CASE node' = [node EXCEPT ![t].isRunning = FALSE]
    BY <2>1, <2>3, <1>7 DEF Node
  <2> QED  BY <2>2, <2>3, <1>10
<1>12. IsList(list', node')
  BY <1>5, <1>11, <1>2 DEF IsList
<1>13. A' = A
  <2>1. Len(list) \in Nat /\ \A i \in 1 .. Len(list) : list[i] \in Timers /\ node[list[i]].toExpire \in Nat
    BY <1>5, AfterOfList
  <2>2. After(list, node') = After(list, node)
    BY <2>1, <1>11, AfterKept
  <2> QED  BY <2>2, <1>2 DEF A
<1>14. Elapsed' = Elapsed /\ Compare' = Compare /\ Spare' = Spare /\ Places' = Places
  BY <1>2 DEF Elapsed, Compare, Spare, Places
<1>15. Walking' /\ ~InBatch' /\ Passed'
  BY <1>9 DEF Walking, InBatch, Passed
<1>16. OpsOK' /\ RestartInv' /\ ClockInv' /\ WaitInv' /\ HeadInv' /\ UpdateInv'
  BY <1>2, <1>3, <1>9, <1>13, <1>15, WalkFrame
<1>17. /\ due' \in [Timers -> DueType \cup {None}]
       /\ \A u \in Timers : u # t => due'[u] = due[u]
       /\ node[t].isRunning => due[t] # None /\ due'[t] = AfterTimeout(due[t])
       /\ ~node[t].isRunning => due'[t] = due[t]
  <2>1. due \in [Timers -> DueType \cup {None}]
    BY <1>1 DEF Types
  <2>2. node[t].isRunning => due[t] # None
    BY <1>1, <1>7 DEF RunningInv
  <2>3. CASE node[t].isRunning /\ due' = [due EXCEPT ![t] = AfterTimeout(@)]
    <3>1. AfterTimeout(due[t]) \in DueType \cup {None}
      BY <2>2, <2>3, <1>1, <1>7, AfterTimeoutIs
    <3> QED  BY <3>1, <2>1, <2>2, <2>3, <1>7
  <2>4. CASE ~node[t].isRunning /\ due' = due
    BY <2>1, <2>4
  <2> QED  BY <2>3, <2>4, <1>10
<1>18. \A i \in Places : list[i] \in Timers /\ A[i] \in Nat /\ i \in Nat
  <2>1. \A i \in Places : i \in 0 .. Len(list) /\ i \in Nat
    BY <1>5 DEF Places
  <2> QED  BY <2>1, <1>5, AfterOfList DEF Places
<1>t. Types'
  <2>1. isr' \in IsrType
    BY <1>9 DEF IsrType
  <2> QED  BY <2>1, <1>1, <1>2, <1>12, <1>17 DEF Types
<1>z. NodesOK'
  BY <1>1, <1>2, <1>11 DEF NodesOK, Listed
<1>b. BatchInv'
  BY <1>1, <1>2, <1>3, <1>15 DEF BatchInv
<1>l. ListInv'
  BY <1>1, <1>2, <1>11, <1>13, <1>14, <1>18 DEF ListInv
<1>w. WalkInv'
  <2> DEFINE x == isr'.next
             e == isr'.expired
             f == isr'.elapsed
  <2>1. x >= 1 /\ x <= Len(list) + 1 /\ x - 1 = p
    <3>1. p \in Nat /\ p >= 1 /\ p <= Len(list)
      BY <1>7, <1>5
    <3>2. x = p + 1
      BY <1>9
    <3> HIDE DEF x
    <3> QED  BY <3>1, <3>2, <1>5
  <2>2. e = A[p]
    BY <1>8, <1>9
  <2>3. f + e = isr.elapsed + isr.expired
    <3>1. e = isr.expired + node[t].toExpire /\ f = isr.elapsed - node[t].toExpire
      BY <1>9
    <3> HIDE DEF e, f
    <3> QED  BY <3>1, <1>4, <1>8
  <2> HIDE DEF x, e, f
  <2>4. /\ list # <<>> /\ x >= 1 /\ x <= Len(list) + 1
        /\ e = A[x - 1]
        /\ f + e <= Elapsed
        /\ Elapsed <= f + e + lag
        /\ expired # None => expired <= f + e
    BY <2>1, <2>2, <2>3, <1>6
  <2>5. expired # None =>
          /\ expired <= Elapsed
          /\ \A i \in Places : A[i] > expired => Elapsed < A[i] + lag
    BY <1>1 DEF WalkInv
  <2> QED  BY <2>4, <2>5, <1>2, <1>13, <1>14 DEF WalkInv, x, e, f
<1>a. StartsInv'
  <2> SUFFICES ASSUME NEW i \in 1 .. Len(ops), ops[i].type = "start"
               PROVE  /\ rtcReset => Elapsed <= ops[i].age
                      /\ ~rtcReset /\ rtcRunning =>
                           /\ ticks_diff_get(counter, ops[i].at) = ops[i].age
                           /\ Elapsed - ops[i].age < HalfRange
                           /\ Takes(i)' => \A j \in Places : list[j] = ops[i].timer =>
                                                A[j] <= Elapsed - ops[i].age + ops[i].ticks \/ A[j] <= Elapsed
                      /\ ~rtcRunning => ops[i].at = 0
    BY <1>2, <1>13, <1>14 DEF StartsInv
  <2>1. /\ rtcReset => Elapsed <= ops[i].age
        /\ ~rtcReset /\ rtcRunning =>
             /\ ticks_diff_get(counter, ops[i].at) = ops[i].age
             /\ Elapsed - ops[i].age < HalfRange
             /\ Takes(i) => \A j \in Places : list[j] = ops[i].timer =>
                                                A[j] <= Elapsed - ops[i].age + ops[i].ticks \/ A[j] <= Elapsed
        /\ ~rtcRunning => ops[i].at = 0
    BY <1>1, <1>3 DEF StartsInv
  <2>2. CASE ops[i].timer = t
    <3>1. \A j \in Places : list[j] = t => j = p
      BY <1>5, <1>7, <1>q DEF IsList, Places
    <3>2. A[p] <= Elapsed /\ A[p] \in Nat
      <4>1. A[p] \in Nat
        BY <1>7, <1>18
      <4>2. PICK e \in Nat, x \in Nat, l \in Nat, d \in Nat :
               e = Elapsed /\ x = isr.expired /\ l = isr.elapsed /\ d = node[t].toExpire
        BY <1>4, <1>5, <1>8
      <4>3. d <= l /\ l + x <= e
        BY <4>2, <1>6, <1>8
      <4>4. x + d <= e
        BY ONLY <4>3
      <4>5. A[p] = x + d
        BY <4>2, <1>8
      <4> QED  BY <4>1, <4>2, <4>4, <4>5
    <3> QED  BY <2>1, <2>2, <3>1, <3>2
  <2>3. CASE ops[i].timer # t
    <3>1. ops[i].timer \in Timers
      BY <1>1 DEF OpsOK
    <3>2. node'[ops[i].timer] = node[ops[i].timer]
      BY <2>3, <3>1, <1>11
    <3>3. Takes(i)' => Takes(i)
      BY <3>2, <1>2 DEF Takes
    <3> QED  BY <2>1, <3>3
  <2> QED  BY <2>2, <2>3
<1>19. ASSUME NEW u \in Timers
       PROVE  Expiring(u)' <=> Expiring(u) \/ u = t
  <2>1. ASSUME NEW i \in Places PROVE i < isr'.next <=> i < isr.next \/ i = p
    <3>1. i \in Nat /\ p \in Nat /\ p = isr.next /\ isr'.next = p + 1
      BY <1>18, <1>7, <1>9, <1>p
    <3>2. i < p + 1 <=> i < p \/ i = p
      BY <3>1
    <3> QED  BY <3>1, <3>2
  <2>2. Expiring(u)' <=> \E i \in Places : list[i] = u /\ (i < isr'.next \/ (expired # None /\ A[i] <= expired))
    BY <1>2, <1>13, <1>14, <1>15 DEF Expiring
  <2>3. Expiring(u) <=> \E i \in Places : list[i] = u /\ (i < isr.next \/ (expired # None /\ A[i] <= expired))
    BY <1>3 DEF Expiring
  <2>4. p \in Places /\ list[p] = t
    BY <1>7, <1>q
  <2>5. \A i \in Places : list[i] = list[p] => i = p
    BY <2>4, <1>5 DEF IsList, Places
  <2> QED  BY <2>1, <2>2, <2>3, <2>4, <2>5
<1>r. RunningInv'
  <2>1. ASSUME NEW u \in Timers
        PROVE  /\ ~Restarting(u)' /\ ~Restarting(u)
               /\ Listed(u)' <=> Listed(u)
               /\ Queued("stop", u)' <=> Queued("stop", u)
               /\ FirstOpIs("stop", u)' <=> FirstOpIs("stop", u)
    <3>1. ~Restarting(u)' /\ ~Restarting(u)
      BY <1>2, <1>9 DEF Restarting
    <3>2. Listed(u)' <=> Listed(u)
      BY <1>2 DEF Listed
    <3>3. (Queued("stop", u)' <=> Queued("stop", u)) /\ (FirstOpIs("stop", u)' <=> FirstOpIs("stop", u))
      BY <1>2 DEF Queued, FirstOpIs
    <3> QED  BY <3>1, <3>2, <3>3
  <2>2. ASSUME NEW u \in Timers, u # t
        PROVE  /\ node'[u].isRunning => Listed(u)' /\ due'[u] # None /\ ~Expiring(u)'
               /\ node'[u].isRunning /\ ~InBatch' => ~Queued("stop", u)'
               /\ Listed(u)' /\ ~node'[u].isRunning => Expiring(u)' \/ FirstOpIs("stop", u)'
               /\ due'[u] # None /\ ~node'[u].isRunning =>
                     FirstOpIs("stop", u)' \/ (Expiring(u)' /\ u \in Repeated) \/ Restarting(u)'
               /\ Listed(u)' /\ u \in Repeated => due'[u] # None
    <3>1. node'[u] = node[u] /\ due'[u] = due[u] /\ (Expiring(u)' <=> Expiring(u))
      BY <2>2, <1>11, <1>17, <1>19
    <3> QED  BY <3>1, <2>1, <1>1, <1>3 DEF RunningInv
  <2>3. /\ ~node'[t].isRunning /\ Expiring(t)'
        /\ due'[t] # None =>
              FirstOpIs("stop", t)' \/ (Expiring(t)' /\ t \in Repeated) \/ Restarting(t)'
        /\ Listed(t)' /\ t \in Repeated => due'[t] # None
    <3>1. ~node'[t].isRunning /\ Expiring(t)'
      BY <1>7, <1>11, <1>19
    <3>2. CASE node[t].isRunning
      <4>1. due'[t] = AfterTimeout(due[t]) /\ due[t] # None
        BY <3>2, <1>17
      <4>2. /\ t \notin Repeated => due'[t] = None
            /\ t \in Repeated => due'[t] # None
        BY <4>1, <1>1, <1>7, AfterTimeoutIs
      <4> QED  BY <3>1, <4>2
    <3>3. CASE ~node[t].isRunning
      <4>1. due'[t] = due[t]
        BY <3>3, <1>17
      <4>2. /\ due[t] # None => FirstOpIs("stop", t) \/ (Expiring(t) /\ t \in Repeated) \/ Restarting(t)
            /\ Listed(t) /\ t \in Repeated => due[t] # None
        BY <3>3, <1>1, <1>7 DEF RunningInv
      <4> QED  BY <3>1, <4>1, <4>2, <2>1, <1>7
    <3> QED  BY <3>2, <3>3
  <2> QED  BY <2>2, <2>3, <1>7 DEF RunningInv
<1>e. EveryInv'
  <2> SUFFICES ASSUME NEW u \in Timers, due'[u] # None
               PROVE  /\ u \in Repeated => due'[u].every \in Timeouts[u]
                      /\ u \notin Repeated => due'[u].every = 0
                      /\ due'[u].every = node'[u].periodic
    BY DEF EveryInv
  <2>0. node'[u].periodic = node[u].periodic
    BY <1>11
  <2>1. CASE due'[u] = due[u]
    BY <2>0, <2>1, <1>1 DEF EveryInv
  <2>2. CASE due'[u] # due[u]
    <3>1. u = t /\ due[u] # None /\ due'[u] = AfterTimeout(due[u])
      BY <2>2, <1>17
    <3>2. u \in Repeated /\ due'[u].every = due[u].every
      BY <3>1, <1>1, AfterTimeoutIs
    <3> QED  BY <2>0, <3>1, <3>2, <1>1 DEF EveryInv
  <2> QED  BY <2>1, <2>2
<1>d. DistInv'
  <2>1. ASSUME NEW u \in Timers, due'[u] # None PROVE due[u] # None /\ Base(u)' = Base(u)
    <3>1. CASE u # t
      BY <3>1, <2>1, <1>11, <1>17 DEF Base
    <3>2. CASE u = t /\ ~node[t].isRunning
      BY <3>2, <2>1, <1>7, <1>11, <1>17 DEF Base
    <3>3. CASE u = t /\ node[t].isRunning
      <4>1. due[t] # None /\ due'[t] = AfterTimeout(due[t])
        BY <3>3, <1>17
      <4>2. /\ due[t].left \in Int /\ due[t].every \in Nat
            /\ due'[t].left = due[t].left + due[t].every /\ due'[t].every = due[t].every
        BY <4>1, <3>3, <2>1, <1>1, AfterTimeoutIs
      <4>3. Base(t)' = due'[t].left - due'[t].every
        BY <1>11, <1>7 DEF Base
      <4>4. (due[t].left + due[t].every) - due[t].every = due[t].left
        BY <4>2
      <4>5. Base(t)' = due[t].left
        BY <4>2, <4>3, <4>4
      <4>6. Base(t) = due[t].left
        BY <3>3 DEF Base
      <4> QED  BY <3>3, <4>1, <4>5, <4>6
    <3> QED  BY <3>1, <3>2, <3>3
  <2>2. \A u : Queued("stop", u)' <=> Queued("stop", u)
    BY <1>2 DEF Queued
  <2> QED  BY <2>1, <2>2, <1>1, <1>2, <1>13, <1>14, <1>18 DEF DistInv
<1> QED  BY <1>t, <1>z, <1>b, <1>l, <1>w, <1>r, <1>e, <1>d, <1>a, <1>16 DEF IInv

-----------------------------------------------------------------------------
(* The software interrupt, before and after the turns of its loop.         *)

\* The head of a list.
LEMMA HeadIs ==
    ASSUME NEW l, NEW n, IsList(l, n)
    PROVE  /\ HeadOf(l) \in Timers \cup {None}
           /\ HeadOf(l) # None <=> l # <<>>
           /\ l # <<>> => 1 \in 1 .. Len(l) /\ 1 \in 0 .. Len(l) /\ HeadOf(l) = l[1]
                          /\ After(l, n)[1] = n[l[1]].toExpire
           /\ l = <<>> => Len(l) = 0
<1>1. l \in Seq(Timers)
  BY DEF IsList
<1>2. CASE l = <<>>
  BY <1>2 DEF HeadOf
<1>3. CASE l # <<>>
  <2>1. 1 \in 1 .. Len(l) /\ 1 \in 0 .. Len(l) /\ l[1] \in Timers
    BY <1>1, <1>3
  <2>2. HeadOf(l) = l[1] /\ l[1] # None
    BY <1>3, <2>1, NoneIsNothing DEF HeadOf
  <2>3. After(l, n)[1] = After(l, n)[1 - 1] + n[l[1]].toExpire /\ After(l, n)[0] = 0 /\ n[l[1]].toExpire \in Nat
    BY <2>1, AfterOfList
  <2>4. 1 - 1 = 0
    OBVIOUS
  <2>5. After(l, n)[1] = n[l[1]].toExpire
    BY <2>3, <2>4
  <2> QED  BY <1>3, <2>1, <2>2, <2>5
<1> QED  BY <1>2, <1>3

\* The software interrupt, with all operations done, changes no timer.
LEMMA BatchFrame ==
    ASSUME IInv, InBatch, ops = <<>>, isr.pc = "insert" => isr.restart = <<>>,
           isr'.pc \in {"idle", "update", "compare"},
           UNCHANGED <<list, node, expired, ops, due>>
    PROVE  /\ NodesOK' /\ OpsOK' /\ WalkInv' /\ RunningInv' /\ EveryInv' /\ RestartInv' /\ StartsInv'
           /\ HeadInv' /\ expired = None
<1>1. /\ Types /\ NodesOK /\ BatchInv /\ RunningInv /\ EveryInv
  BY DEF IInv
<1>2. expired = None
  BY <1>1 DEF BatchInv
<1>3. isr'.pc # "insert" /\ ~Walking'
  BY DEF Walking
<1>4. ~Walking
  BY DEF InBatch, Walking
<1>5. Len(ops) = 0 /\ ~(\E i \in 1 .. Len(ops) : TRUE)
  OBVIOUS
<1>6. NodesOK'
  BY <1>1, FrameNodes
<1>7. OpsOK' /\ StartsInv'
  BY <1>5 DEF OpsOK, StartsInv
<1>8. WalkInv'
  BY <1>2, <1>3 DEF WalkInv
<1>9. RestartInv' /\ HeadInv'
  BY <1>3 DEF RestartInv, Restarting, HeadInv
<1>10. EveryInv'
  BY <1>1, FrameEvery
<1>11. RunningInv'
  <2>1. ASSUME NEW u \in Timers
        PROVE  /\ ~Restarting(u)' /\ ~Restarting(u)
               /\ ~Expiring(u)' /\ ~Expiring(u)
               /\ Listed(u)' <=> Listed(u)
               /\ ~Queued("stop", u)' /\ ~FirstOpIs("stop", u)
    <3>1. ~Restarting(u)'
      BY <1>3 DEF Restarting
    <3>2. ~Restarting(u)
      <4>1. CASE isr.pc = "insert"
        <5>1. isr.restart = <<>>
          BY <4>1
        <5>2. Len(isr.restart) = 0
          BY <5>1
        <5>3. ~(\E i \in 1 .. Len(isr.restart) : TRUE)
          BY <5>2
        <5> QED  BY <5>3 DEF Restarting
      <4> QED  BY <4>1 DEF Restarting
    <3>3. ~Expiring(u)' /\ ~Expiring(u)
      BY <1>2, <1>3, <1>4 DEF Expiring
    <3>4. Listed(u)' <=> Listed(u)
      BY DEF Listed
    <3>5. ~Queued("stop", u)' /\ ~FirstOpIs("stop", u)
      BY <1>5 DEF Queued, FirstOpIs
    <3> QED  BY <3>1, <3>2, <3>3, <3>4, <3>5
  <2> QED  BY <2>1, <1>1 DEF RunningInv
<1> QED  BY <1>2, <1>6, <1>7, <1>8, <1>9, <1>10, <1>11

\* The software interrupt begins and no timer has expired.
LEMMA SwiNothingExpiredKeeps ==
    ASSUME IInv, SwiNothingExpired
    PROVE  IInv'
<1>1. /\ Types /\ NodesOK /\ OpsOK /\ BatchInv /\ ListInv /\ WalkInv
      /\ RunningInv /\ EveryInv /\ RestartInv /\ DistInv /\ StartsInv
      /\ ClockInv /\ WaitInv /\ HeadInv /\ UpdateInv
  BY DEF IInv
<1>2. /\ UNCHANGED <<counter, cc, rtcRunning, rtcPending, list, node, latest, expired, rtcReset, ops, lag, due>>
      /\ isr.pc = "idle" /\ ~rtcPending /\ expired = None
      /\ isr' = InsertState(FALSE, <<>>, HeadOf(list)) /\ swiPending' = FALSE
  BY DEF SwiNothingExpired, SwiEnters, lists
<1>3. ~InBatch /\ ~Walking /\ ~Passed
  BY <1>2 DEF InBatch, Walking, Passed
<1>4. IsList(list, node)
  BY <1>1 DEF Types
<1>5. /\ HeadOf(list) \in Timers \cup {None}
      /\ HeadOf(list) # None <=> list # <<>>
      /\ list # <<>> => 1 \in 1 .. Len(list) /\ 1 \in 0 .. Len(list) /\ HeadOf(list) = list[1]
  BY <1>4, HeadIs
<1>6. /\ isr'.pc = "insert" /\ ~isr'.update /\ isr'.restart = <<>> /\ isr'.head = HeadOf(list)
      /\ isr' \in IsrType
  BY <1>2, <1>5 DEF InsertState, IsrType, InsertType
<1>7. /\ Len(list) \in Nat /\ A \in [0 .. Len(list) -> Nat]
      /\ Elapsed \in Nat /\ lag \in Nat /\ Compare \in Nat /\ CompareOffset \in Nat
  BY <1>1, Numbers, ConstantsAre
<1>8. A' = A /\ Elapsed' = Elapsed /\ Places' = Places /\ Compare' = Compare /\ Spare' = Spare
  BY <1>2 DEF A, Elapsed, Places, Compare, Spare
<1>9. ~Walking' /\ InBatch'
  BY <1>6 DEF Walking, InBatch
<1>10. ~rtcReset
  BY <1>1, <1>3 DEF BatchInv
<1>t. Types'
  <2>1. swiPending' \in BOOLEAN
    BY <1>2
  <2> QED  BY <2>1, <1>1, <1>2, <1>6 DEF Types
<1>z. NodesOK'
  BY <1>1, <1>2, FrameNodes
<1>o. OpsOK'
  BY <1>1, <1>2, <1>6 DEF OpsOK
<1>b. BatchInv'
  BY <1>2, <1>10 DEF BatchInv
<1>l. ListInv'
  BY <1>1, <1>2, FrameList
<1>w. WalkInv'
  BY <1>2, <1>9 DEF WalkInv
<1>n. \A u : ~Restarting(u)' /\ ~Restarting(u)
  <2>1. Len(isr'.restart) = 0
    BY <1>6
  <2>2. ~(\E i \in 1 .. Len(isr'.restart) : TRUE)
    BY <2>1
  <2> QED  BY <2>2, <1>2 DEF Restarting
<1>r. RunningInv'
  <2>2. ASSUME NEW t \in Timers
        PROVE  /\ ~Expiring(t)' /\ ~Expiring(t)
               /\ Listed(t)' <=> Listed(t)
               /\ Queued("stop", t)' <=> Queued("stop", t)
               /\ FirstOpIs("stop", t)' <=> FirstOpIs("stop", t)
    <3>1. ~Expiring(t)' /\ ~Expiring(t)
      BY <1>2, <1>3, <1>9 DEF Expiring
    <3>3. Listed(t)' <=> Listed(t)
      BY <1>2 DEF Listed
    <3>4. (Queued("stop", t)' <=> Queued("stop", t)) /\ (FirstOpIs("stop", t)' <=> FirstOpIs("stop", t))
      BY <1>2 DEF Queued, FirstOpIs
    <3> QED  BY <3>1, <3>3, <3>4
  <2> QED  BY <2>2, <1>1, <1>2, <1>9, <1>n DEF RunningInv
<1>e. EveryInv'
  BY <1>1, <1>2, FrameEvery
<1>s. RestartInv'
  BY <1>6, <1>n DEF RestartInv
<1>d. DistInv'
  BY <1>1, <1>2, FrameDist
<1>a. StartsInv'
  BY <1>1, <1>2, <1>8, <1>9 DEF StartsInv
<1>c. ClockInv'
  BY <1>1, <1>2, <1>8, <1>9 DEF ClockInv
<1>v. WaitInv'
  BY <1>9 DEF WaitInv
<1>h. HeadInv'
  <2>1. rtcRunning <=> HeadOf(list) # None
    BY <1>1, <1>3, <1>5 DEF ClockInv
  <2>2. ASSUME list # <<>> PROVE CmpBound /\ Elapsed < Compare
    BY <2>2, <1>1, <1>3 DEF WaitInv
  <2>3. ASSUME list # <<>> PROVE Elapsed < Compare + lag
    BY <2>2, <2>3, <1>7
  <2>4. ASSUME list # <<>>, NEW i \in 1 .. Len(ops), ops[i].type = "start", ops[i].timer = HeadOf(list),
              Takes(i)
        PROVE  \/ Compare <= Elapsed - ops[i].age + ops[i].ticks
               \/ Compare <= Elapsed + CompareOffset
    <3>1. rtcRunning /\ 1 \in Places /\ list[1] = ops[i].timer
      BY <2>1, <2>4, <1>5 DEF Places
    <3>2. A[1] <= Elapsed - ops[i].age + ops[i].ticks \/ A[1] <= Elapsed
      BY <3>1, <2>4, <1>1, <1>3, <1>10 DEF StartsInv
    <3>3. Compare <= A[1] \/ Compare <= Elapsed + CompareOffset
      BY <2>2, <2>4 DEF CmpBound
    <3>4. A[1] \in Nat /\ ops[i].age \in Nat /\ ops[i].ticks \in Nat
      <4>1. 1 \in 0 .. Len(list)
        BY <2>4, <1>5
      <4> QED  BY <4>1, <1>7, <1>1, OpsAre
    <3>5. Compare \in Nat /\ Elapsed \in Nat /\ CompareOffset \in Nat
      BY <1>7, <1>1, Numbers, ConstantsAre
    <3>6. CASE A[1] <= Elapsed - ops[i].age + ops[i].ticks
      BY <3>6, <3>3, <3>4, <3>5
    <3>7. CASE A[1] <= Elapsed
      BY <3>7, <3>3, <3>4, <3>5
    <3> QED  BY <3>2, <3>6, <3>7
  <2>5. CmpBound => CmpBound'
    BY <1>2, <1>8, FrameCmp
  <2>6. \A i : Takes(i)' <=> Takes(i)
    BY <1>2, FrameTakes
  <2> QED  BY <2>1, <2>2, <2>3, <2>4, <2>5, <2>6, <1>2, <1>5, <1>6, <1>8 DEF HeadInv
<1>u. UpdateInv'
  BY <1>6 DEF UpdateInv
<1> QED  BY <1>t, <1>z, <1>o, <1>b, <1>l, <1>w, <1>r, <1>e, <1>s, <1>d, <1>a, <1>c, <1>v, <1>h, <1>u DEF IInv

\* The software interrupt ends and leaves the compare register alone.
LEMMA SwiNoUpdateKeeps ==
    ASSUME IInv, SwiNoUpdate
    PROVE  IInv'
<1>1. /\ Types /\ NodesOK /\ OpsOK /\ BatchInv /\ ListInv /\ WalkInv
      /\ RunningInv /\ EveryInv /\ RestartInv /\ DistInv /\ StartsInv
      /\ ClockInv /\ WaitInv /\ HeadInv /\ UpdateInv
  BY DEF IInv
<1>2. /\ UNCHANGED <<counter, cc, rtcRunning, rtcPending, swiPending, list, node, latest, expired, ops, lag, due>>
      /\ isr.pc = "insert" /\ isr.restart = <<>> /\ ops = <<>> /\ ~isr.update /\ HeadOf(list) = isr.head
      /\ isr'.pc = "idle" /\ isr' \in IsrType /\ ~rtcReset' /\ rtcReset' \in BOOLEAN
  BY DEF SwiNoUpdate, SwiInserted, SwiUpdates, hw, IsrType, IsrIdle
<1>3. InBatch /\ ~InBatch' /\ ~Walking'
  BY <1>2 DEF InBatch, Walking
<1>4. HeadOf(list) # None <=> list # <<>>
  BY <1>1, HeadIs DEF Types
<1>5. NodesOK' /\ OpsOK' /\ WalkInv' /\ RunningInv' /\ EveryInv' /\ RestartInv' /\ StartsInv' /\ HeadInv' /\ expired = None
  BY <1>2, <1>3, BatchFrame
<1>7. Elapsed \in Nat /\ lag \in Nat /\ Compare \in Nat
  BY <1>1, Numbers
<1>8. A' = A /\ Elapsed' = Elapsed /\ Places' = Places /\ Compare' = Compare /\ Spare' = Spare
  BY <1>2 DEF A, Elapsed, Places, Compare, Spare
<1>t. Types'
  BY <1>1, <1>2 DEF Types
<1>b. BatchInv'
  BY <1>2, <1>5 DEF BatchInv
<1>l. ListInv'
  BY <1>1, <1>2, FrameList
<1>d. DistInv'
  BY <1>1, <1>2, FrameDist
<1>c. ClockInv'
  BY <1>1, <1>2, <1>4, <1>8 DEF ClockInv, HeadInv
<1>v. WaitInv'
  <2> SUFFICES ASSUME list # <<>> PROVE CmpBound' /\ Elapsed <= Compare + lag /\ (~Passed' => Elapsed < Compare)
    BY <1>2, <1>8 DEF WaitInv
  <2>1. CmpBound /\ Elapsed < Compare + lag /\ (~rtcPending => Elapsed < Compare)
    BY <1>1, <1>2, <1>4 DEF HeadInv
  <2>2. CmpBound'
    BY <2>1, <1>2, <1>8, FrameCmp
  <2> QED  BY <2>1, <2>2, <1>2, <1>7 DEF Passed
<1>u. UpdateInv'
  BY <1>2 DEF UpdateInv
<1> QED  BY <1>t, <1>b, <1>l, <1>d, <1>c, <1>v, <1>u, <1>5 DEF IInv

\* The software interrupt turns to the compare register.
LEMMA SwiUpdateKeeps ==
    ASSUME IInv, SwiUpdate
    PROVE  IInv'
<1>1. /\ Types /\ NodesOK /\ OpsOK /\ BatchInv /\ ListInv /\ WalkInv
      /\ RunningInv /\ EveryInv /\ RestartInv /\ DistInv /\ StartsInv
      /\ ClockInv /\ WaitInv /\ HeadInv /\ UpdateInv
  BY DEF IInv
<1>2. /\ UNCHANGED <<counter, cc, rtcRunning, rtcPending, swiPending, list, node, latest, expired, ops, lag, due, rtcReset>>
      /\ isr.pc = "insert" /\ isr.restart = <<>> /\ ops = <<>> /\ SwiUpdates
      /\ isr'.pc = "update" /\ isr' \in IsrType
  BY DEF SwiUpdate, SwiInserted, hw, lists, IsrType
<1>3. InBatch /\ InBatch' /\ ~Walking'
  BY <1>2 DEF InBatch, Walking
<1>5. NodesOK' /\ OpsOK' /\ WalkInv' /\ RunningInv' /\ EveryInv' /\ RestartInv' /\ StartsInv' /\ HeadInv' /\ expired = None
  BY <1>2, <1>3, BatchFrame
<1>6. IsList(list, node)
  BY <1>1 DEF Types
<1>7. Elapsed \in Nat /\ Spare \in Nat /\ CompareOffset \in Nat /\ A \in [0 .. Len(list) -> Nat] /\ Len(list) \in Nat
  BY <1>1, Numbers, ConstantsAre
<1>8. A' = A /\ Elapsed' = Elapsed /\ Places' = Places /\ Compare' = Compare /\ Spare' = Spare
  BY <1>2 DEF A, Elapsed, Places, Compare, Spare
<1>t. Types'
  BY <1>1, <1>2 DEF Types
<1>b. BatchInv'
  BY <1>1, <1>2, <1>3, <1>5 DEF BatchInv
<1>l. ListInv'
  BY <1>1, <1>2, FrameList
<1>d. DistInv'
  BY <1>1, <1>2, FrameDist
<1>c. ClockInv'
  BY <1>1, <1>2, <1>3, <1>8 DEF ClockInv
<1>v. WaitInv'
  BY <1>3 DEF WaitInv
<1>f. FreshInv => UpInv
  <2> SUFFICES ASSUME FreshInv, NEW i \in 1 .. Len(list)
               PROVE  Elapsed + CompareOffset + Spare <= After(list, node)[i] + Late(i)
    BY DEF UpInv, Bounded
  <2>1. Elapsed + CompareOffset + Spare <= A[i] + Delay
    BY DEF FreshInv, Places
  <2>2. Late(i) \in Nat /\ Delay \in Nat /\ Late(i) >= Delay
    BY <1>6, LateOf
  <2>3. A[i] \in Nat
    <3>1. i \in 0 .. Len(list)
      BY <1>7
    <3> QED  BY <3>1, <1>7
  <2> QED  BY <2>1, <2>2, <2>3, <1>7 DEF A
<1>u. UpInv
  <2>1. CASE isr.update
    BY <2>1, <1>1, <1>2 DEF UpdateInv
  <2>2. CASE ~isr.update /\ list # <<>>
    <3>1. HeadOf(list) # isr.head
      BY <2>2, <1>2 DEF SwiUpdates
    <3> QED  BY <3>1, <2>2, <1>1, <1>2, <1>f DEF HeadInv
  <2>3. CASE list = <<>>
    <3>1. Len(list) = 0
      BY <2>3
    <3> QED  BY <3>1 DEF UpInv, Bounded
  <2> QED  BY <2>1, <2>2, <2>3
<1>x. UpInv'
  BY <1>u, <1>2, <1>8, FrameUp
<1>y. UpdateInv'
  BY <1>x, <1>2 DEF UpdateInv
<1> QED  BY <1>t, <1>b, <1>l, <1>d, <1>c, <1>v, <1>y, <1>5 DEF IInv

\* Without timers the counter stops.
LEMMA SwiStopRtcKeeps ==
    ASSUME IInv, SwiStopRtc
    PROVE  IInv'
<1>1. /\ Types /\ NodesOK /\ OpsOK /\ BatchInv /\ ListInv /\ WalkInv
      /\ RunningInv /\ EveryInv /\ RestartInv /\ DistInv /\ StartsInv
      /\ ClockInv /\ WaitInv /\ HeadInv /\ UpdateInv
  BY DEF IInv
<1>2. /\ UNCHANGED <<cc, swiPending, list, node, expired, ops, lag, due>>
      /\ isr.pc = "update" /\ list = <<>>
      /\ ~rtcRunning' /\ rtcRunning' \in BOOLEAN /\ ~rtcPending' /\ rtcPending' \in BOOLEAN
      /\ counter' = 0 /\ latest' = 0
      /\ isr'.pc = "idle" /\ isr' \in IsrType /\ ~rtcReset' /\ rtcReset' \in BOOLEAN
  BY DEF SwiStopRtc, IsrType, IsrIdle
<1>3. InBatch /\ ~InBatch' /\ ~Walking' /\ ops = <<>>
  BY <1>1, <1>2 DEF InBatch, Walking, UpdateInv
<1>5. NodesOK' /\ OpsOK' /\ WalkInv' /\ RunningInv' /\ EveryInv' /\ RestartInv' /\ StartsInv' /\ HeadInv' /\ expired = None
  BY <1>2, <1>3, BatchFrame
<1>6. Len(list') = 0 /\ 0 \in Ticks /\ list' = <<>>
  BY <1>2, RangeIs
<1>7. ~(\E i \in Places' : TRUE)
  BY <1>6 DEF Places
<1>t. Types'
  BY <1>1, <1>2, <1>6 DEF Types
<1>b. BatchInv'
  BY <1>2, <1>5 DEF BatchInv
<1>l. ListInv'
  BY <1>7 DEF ListInv
<1>d. DistInv'
  BY <1>7 DEF DistInv
<1>c. ClockInv'
  <2>1. Elapsed' = 0
    BY <1>2, <1>6, DiffZero DEF Elapsed
  <2>2. Spare' = Spare /\ Spare <= MaxLatency /\ Spare \in Nat
    <3>1. Spare' = Spare
      BY <1>2 DEF Spare
    <3>2. Spare \in Nat /\ lag \in Nat /\ Spare = MaxLatency - lag
      BY <1>1, Numbers
    <3>3. Spare <= MaxLatency
      BY <3>2, ConstantsAre
    <3> QED  BY <3>1, <3>2, <3>3
  <2>3. MaxLatency < CounterRange /\ MaxLatency \in Nat /\ CounterRange \in Nat
    BY ConstantsAre
  <2>4. 0 + Spare < CounterRange
    BY <2>2, <2>3
  <2> QED  BY <2>1, <2>2, <2>4, <1>2, <1>6 DEF ClockInv
<1>v. WaitInv'
  BY <1>6 DEF WaitInv
<1>u. UpdateInv'
  BY <1>2 DEF UpdateInv
<1> QED  BY <1>t, <1>b, <1>l, <1>d, <1>c, <1>v, <1>u, <1>5 DEF IInv

\* The software interrupt reads the counter.
LEMMA SwiReadCounterKeeps ==
    ASSUME IInv, SwiReadCounter
    PROVE  IInv'
<1>1. /\ Types /\ NodesOK /\ OpsOK /\ BatchInv /\ ListInv /\ WalkInv
      /\ RunningInv /\ EveryInv /\ RestartInv /\ DistInv /\ StartsInv
      /\ ClockInv /\ WaitInv /\ HeadInv /\ UpdateInv
  BY DEF IInv
<1>0. counter \in Ticks
  BY <1>1 DEF Types
<1>2. /\ UNCHANGED <<counter, cc, rtcPending, swiPending, list, node, latest, expired, ops, lag, due, rtcReset>>
      /\ isr.pc = "update" /\ list # <<>>
      /\ rtcRunning' /\ rtcRunning' \in BOOLEAN
      /\ isr'.pc = "compare" /\ isr'.counter = counter /\ isr' \in IsrType
  BY <1>0 DEF SwiReadCounter, IsrType, lists
<1>3. InBatch /\ InBatch' /\ ~Walking' /\ ops = <<>> /\ UpInv
  BY <1>1, <1>2 DEF InBatch, Walking, UpdateInv
<1>5. NodesOK' /\ OpsOK' /\ WalkInv' /\ RunningInv' /\ EveryInv' /\ RestartInv' /\ StartsInv' /\ HeadInv' /\ expired = None
  BY <1>2, <1>3, BatchFrame
<1>7. Elapsed \in Nat /\ lag \in Nat
  BY <1>1, Numbers
<1>8. A' = A /\ Elapsed' = Elapsed /\ Places' = Places /\ Compare' = Compare /\ Spare' = Spare
  BY <1>2 DEF A, Elapsed, Places, Compare, Spare
<1>t. Types'
  BY <1>1, <1>2 DEF Types
<1>b. BatchInv'
  BY <1>1, <1>2, <1>3, <1>5 DEF BatchInv
<1>l. ListInv'
  BY <1>1, <1>2, FrameList
<1>d. DistInv'
  BY <1>1, <1>2, <1>8 DEF DistInv, Queued, Base
<1>c. ClockInv'
  BY <1>1, <1>2, <1>3, <1>8 DEF ClockInv
<1>v. WaitInv'
  BY <1>3 DEF WaitInv
<1>u. UpdateInv'
  <2>1. UpInv'
    BY <1>2, <1>3, <1>8, FrameUp
  <2>2. ticks_diff_get(isr'.counter, latest') = Elapsed
    BY <1>2 DEF Elapsed
  <2>3. Elapsed <= Elapsed /\ Elapsed <= Elapsed + lag
    BY <1>7
  <2> QED  BY <2>1, <2>2, <2>3, <1>2, <1>3, <1>8 DEF UpdateInv
<1> QED  BY <1>t, <1>b, <1>l, <1>d, <1>c, <1>v, <1>u, <1>5 DEF IInv

\* The new value of the compare register.
LEMMA SetCompareIs ==
    ASSUME IInv, SwiSetCompare
    PROVE  \E e0, m \in Nat :
             /\ e0 <= Elapsed
             /\ m = A[1] \/ m = e0 + CompareOffset
             /\ A[1] <= m /\ m < CounterRange
             /\ cc' \in Ticks
             /\ Elapsed + CompareOffset > m => Compare' = Elapsed /\ rtcPending'
             /\ Elapsed + CompareOffset <= m => Compare' = m /\ (rtcPending' <=> rtcPending)
             /\ rtcPending' \in BOOLEAN
<1>1. Types /\ ListInv /\ ClockInv /\ UpdateInv
  BY DEF IInv
<1>2. counter \in Ticks /\ latest \in Ticks /\ IsList(list, node) /\ isr \in IsrType /\ rtcPending \in BOOLEAN
  BY <1>1 DEF Types
<1>3. isr.pc = "compare" /\ isr.counter \in Ticks
  BY <1>2, IsrCases DEF SwiSetCompare
<1>4. /\ list # <<>> /\ UpInv
      /\ ticks_diff_get(isr.counter, latest) <= Elapsed
  BY <1>1, <1>3 DEF UpdateInv
<1>5. /\ Elapsed \in Nat /\ Elapsed < CounterRange /\ Spare \in Nat /\ A \in [0 .. Len(list) -> Nat]
      /\ CompareOffset \in Nat /\ CompareOffset >= 1 /\ CounterRange \in Nat /\ MaxLatency \in Nat
  BY <1>1, Numbers, ConstantsAre
<1>6. 1 \in 1 .. Len(list) /\ 1 \in 0 .. Len(list) /\ A[1] = node[list[1]].toExpire
  BY <1>2, <1>4, HeadIs DEF A
<1> DEFINE e0 == ticks_diff_get(isr.counter, latest)
           x == e0 + CompareOffset
           a == A[1]
           m == IF x < a THEN a ELSE x
           new == (latest + m) % CounterRange
<1>7. e0 \in Nat /\ e0 <= Elapsed
  BY <1>2, <1>3, <1>4, DiffIs, RangeIs
<1>8. a \in Nat /\ a <= Span
  BY <1>1, <1>5, <1>6 DEF ListInv, Places
<1>9. Elapsed + CompareOffset + Spare <= a + Late(1) /\ Late(1) \in Nat
  <2>1. Elapsed + CompareOffset + Spare <= a + Late(1)
    BY <1>4, <1>6 DEF UpInv, Bounded, A
  <2>2. Len(list) <= Cardinality(Timers) /\ Cardinality(Timers) \in Nat /\ Len(list) \in Nat
    BY <1>1, <1>2, ListFits, ConstantsAre, Numbers
  <2>3. 1 \in 1 .. Cardinality(Timers)
    BY <2>2, <1>6
  <2> QED  BY <2>1, <2>3, LateIs
<1>10. Span = CounterRange - MaxLatency - Late(1) - 1
  BY DEF Span
<1>h. e0 = ticks_diff_get(isr.counter, latest)
  OBVIOUS
<1>i. a = A[1]
  OBVIOUS
<1> HIDE DEF e0, a
<1>11. /\ m \in Nat /\ m < CounterRange /\ a <= m /\ (m = a \/ m = e0 + CompareOffset) /\ e0 < m
  BY <1>5, <1>7, <1>8, <1>9, <1>10
<1> HIDE DEF m
<1>12. new \in Ticks /\ ticks_diff_get(new, latest) = m
  <2>1. m \in Ticks /\ new = Ahead(latest, m)
    BY <1>11, RangeIs DEF Ahead
  <2> QED  BY <2>1, <1>2, DiffFrom
<1>n. new = (latest + m) % CounterRange
  OBVIOUS
<1> HIDE DEF new
<1>13. ticks_diff_get(counter, isr.counter) = Elapsed - e0
  BY <1>2, <1>3, <1>4, <1>h, DiffDiff DEF Elapsed
<1>14. ticks_diff_get(new, isr.counter) = m - e0
  <2>1. ticks_diff_get(isr.counter, latest) <= ticks_diff_get(new, latest)
    BY <1>h, <1>7, <1>11, <1>12
  <2>2. ticks_diff_get(new, isr.counter) = ticks_diff_get(new, latest) - ticks_diff_get(isr.counter, latest)
    BY <2>1, <1>2, <1>3, <1>12, DiffDiff
  <2> QED  BY <2>2, <1>h, <1>12
<1> DEFINE late == ticks_diff_get(counter, isr.counter) + CompareOffset > ticks_diff_get(new, isr.counter)
<1>15. late <=> Elapsed + CompareOffset > m
  <2>1. (Elapsed - e0) + CompareOffset > m - e0 <=> Elapsed + CompareOffset > m
    BY <1>5, <1>7, <1>11
  <2> QED  BY <2>1, <1>13, <1>14
<1>16. new = (latest + (IF e0 + CompareOffset < node[list[1]].toExpire
                        THEN node[list[1]].toExpire ELSE e0 + CompareOffset)) % CounterRange
  BY <1>n, <1>i, <1>6 DEF m
<1>17. /\ cc' = IF late THEN counter ELSE new
       /\ rtcPending' = (rtcPending \/ late)
       /\ latest' = latest /\ counter' = counter
  <2>1. LET elapsed == ticks_diff_get(isr.counter, latest) + CompareOffset
            ticks   == node[list[1]].toExpire
            new1    == (latest + (IF elapsed < ticks THEN ticks ELSE elapsed)) % CounterRange
            late1   == ticks_diff_get(counter, isr.counter) + CompareOffset
                         > ticks_diff_get(new1, isr.counter)
        IN  /\ cc' = IF late1 THEN counter ELSE new1
            /\ rtcPending' = (rtcPending \/ late1)
            /\ latest' = latest /\ counter' = counter
    BY DEF SwiSetCompare
  <2> HIDE <1>16
  <2> QED  BY <2>1, <1>16, <1>h
<1> HIDE DEF late
<1>18. /\ cc' \in Ticks /\ rtcPending' \in BOOLEAN
       /\ late => cc' = counter /\ rtcPending'
       /\ ~late => cc' = new /\ (rtcPending' <=> rtcPending)
  BY <1>2, <1>12, <1>17
<1>19. /\ late => Compare' = Elapsed /\ rtcPending'
       /\ ~late => Compare' = m /\ (rtcPending' <=> rtcPending)
  BY <1>12, <1>17, <1>18 DEF Compare, Elapsed
<1>20. Elapsed + CompareOffset <= m <=> ~(Elapsed + CompareOffset > m)
  BY <1>5, <1>11
<1> QED  BY <1>7, <1>11, <1>15, <1>18, <1>19, <1>20, <1>i

\* The software interrupt sets the compare register.
LEMMA SwiSetCompareKeeps ==
    ASSUME IInv, SwiSetCompare
    PROVE  IInv'
<1>1. /\ Types /\ NodesOK /\ OpsOK /\ BatchInv /\ ListInv /\ WalkInv
      /\ RunningInv /\ EveryInv /\ RestartInv /\ DistInv /\ StartsInv
      /\ ClockInv /\ WaitInv /\ HeadInv /\ UpdateInv
  BY DEF IInv
<1>2. /\ UNCHANGED <<counter, rtcRunning, swiPending, list, node, latest, expired, ops, lag, due>>
      /\ isr.pc = "compare"
      /\ isr'.pc = "idle" /\ isr' \in IsrType /\ ~rtcReset' /\ rtcReset' \in BOOLEAN
  BY DEF SwiSetCompare, IsrType, IsrIdle
<1>3. InBatch /\ ~InBatch' /\ ~Walking' /\ ops = <<>> /\ UpInv /\ list # <<>> /\ rtcRunning
  BY <1>1, <1>2 DEF InBatch, Walking, UpdateInv
<1>5. NodesOK' /\ OpsOK' /\ WalkInv' /\ RunningInv' /\ EveryInv' /\ RestartInv' /\ StartsInv' /\ HeadInv' /\ expired = None
  BY <1>2, <1>3, BatchFrame
<1>6. IsList(list, node)
  BY <1>1 DEF Types
<1>7. /\ Elapsed \in Nat /\ lag \in Nat /\ Spare \in Nat /\ CompareOffset \in Nat /\ CompareOffset >= 1
      /\ A \in [0 .. Len(list) -> Nat] /\ Len(list) \in Nat
  BY <1>1, Numbers, ConstantsAre
<1>8. A' = A /\ Elapsed' = Elapsed /\ Places' = Places /\ Spare' = Spare
  BY <1>2 DEF A, Elapsed, Places, Spare
<1>9. PICK e0, m \in Nat :
             /\ e0 <= Elapsed
             /\ m = A[1] \/ m = e0 + CompareOffset
             /\ A[1] <= m /\ m < CounterRange
             /\ cc' \in Ticks
             /\ Elapsed + CompareOffset > m => Compare' = Elapsed /\ rtcPending'
             /\ Elapsed + CompareOffset <= m => Compare' = m /\ (rtcPending' <=> rtcPending)
             /\ rtcPending' \in BOOLEAN
  BY SetCompareIs
<1>10. PICK c : c = Compare'
  OBVIOUS
<1>11. /\ Elapsed + CompareOffset > m => c = Elapsed
       /\ Elapsed + CompareOffset <= m => c = m
  BY <1>9, <1>10
<1>12. c \in Nat
  BY <1>11, <1>9, <1>7
<1>t. Types'
  BY <1>1, <1>2, <1>9 DEF Types
<1>b. BatchInv'
  BY <1>2, <1>5 DEF BatchInv
<1>l. ListInv'
  BY <1>1, <1>2, FrameList
<1>d. DistInv'
  BY <1>1, <1>2, FrameDist
<1>c. ClockInv'
  BY <1>1, <1>2, <1>3, <1>8 DEF ClockInv
<1>v. WaitInv'
  <2>1. ASSUME NEW i \in 1 .. Len(list) PROVE c <= A[i] + Late(i)
    <3>1. Elapsed + CompareOffset + Spare <= A[i] + Late(i)
      BY <1>3 DEF UpInv, Bounded, A
    <3>2. A[i] \in Nat /\ A[1] \in Nat /\ A[1] <= A[i]
      <4>1. i \in 0 .. Len(list) /\ 1 \in 0 .. Len(list) /\ 1 <= i
        BY <1>7
      <4> QED  BY <4>1, <1>7, <1>6, AfterOfList DEF A
    <3>3. Late(i) \in Nat
      <4>1. Len(list) <= Cardinality(Timers) /\ Cardinality(Timers) \in Nat
        BY <1>6, ListFits, ConstantsAre
      <4>2. i \in 1 .. Cardinality(Timers)
        BY <4>1, <1>7
      <4> QED  BY <4>2, LateIs
    <3>4. e0 <= Elapsed /\ (m = A[1] \/ m = e0 + CompareOffset)
      BY <1>9
    <3> QED  BY <3>1, <3>2, <3>3, <3>4, <1>7, <1>11
  <2>2. c <= A[1] \/ c <= Elapsed + CompareOffset
    <3>1. e0 <= Elapsed /\ (m = A[1] \/ m = e0 + CompareOffset)
      BY <1>9
    <3>2. A[1] \in Nat
      <4>1. 1 \in 0 .. Len(list)
        BY <1>3, <1>6, HeadIs
      <4> QED  BY <4>1, <1>7
    <3> QED  BY <3>1, <3>2, <1>7, <1>11
  <2>3. Elapsed <= c + lag
    BY <1>7, <1>11, <1>12
  <2>4. ~rtcPending' => Elapsed < c
    <3>1. ~rtcPending' => ~(Elapsed + CompareOffset > m)
      BY <1>9
    <3> QED  BY <3>1, <1>7, <1>11
  <2>5. CmpBound'
    BY <2>1, <2>2, <1>2, <1>8, <1>10 DEF CmpBound, Bounded, A
  <2> QED  BY <2>3, <2>4, <2>5, <1>2, <1>8, <1>10 DEF WaitInv, Passed
<1>u. UpdateInv'
  BY <1>2 DEF UpdateInv
<1> QED  BY <1>t, <1>b, <1>l, <1>d, <1>c, <1>v, <1>u, <1>5 DEF IInv

-----------------------------------------------------------------------------
(* The software interrupt takes the expired timers out of the list.        *)

\* What SwiTakeExpired does.
LEMMA TakeExpiredIs ==
    ASSUME IInv, SwiTakeExpired
    PROVE  \E k : /\ IsTake(list, node, expired, k, list', node')
                  /\ isr' = InsertState(TRUE, Again(list, node)[k], HeadOf(list'))
<1>1. IsList(list, node) /\ expired \in Nat
  BY DEF IInv, Types, SwiTakeExpired
<1> DEFINE k == CHOOSE i \in 0 .. Len(list) :
                  /\ After(list, node)[i] <= expired
                  /\ i < Len(list) => After(list, node)[i + 1] > expired
<1>2. /\ k \in 0 .. Len(list)
      /\ After(list, node)[k] <= expired
      /\ k < Len(list) => After(list, node)[k + 1] > expired
  BY <1>1, TakeIs
<1>3. /\ list' = SubSeq(list, k + 1, Len(list))
      /\ node' = [t \in Timers |->
                 IF \E i \in 1 .. k : list[i] = t
                 THEN IF node[t].periodic # 0
                      THEN [node[t] EXCEPT !.toExpire = 0,
                              !.atStart = [i \in 1 .. k |-> (latest + After(list, node)[i]) % CounterRange]
                                             [CHOOSE i \in 1 .. k : list[i] = t],
                                           !.first = node[t].periodic]
                      ELSE Unlisted
                 ELSE IF t = HeadOf(SubSeq(list, k + 1, Len(list)))
                      THEN [node[t] EXCEPT !.toExpire = @ - (expired - After(list, node)[k])]
                      ELSE node[t]]
      /\ isr' = InsertState(TRUE, Again(list, node)[k], HeadOf(SubSeq(list, k + 1, Len(list))))
  BY DEF SwiTakeExpired
<1> HIDE DEF k
<1> QED  BY <1>2, <1>3 DEF IsTake

\* The expired timers leave the list.
LEMMA SwiTakeExpiredKeeps ==
    ASSUME IInv, SwiTakeExpired
    PROVE  IInv'
<1>1. /\ Types /\ NodesOK /\ OpsOK /\ BatchInv /\ ListInv /\ WalkInv
      /\ RunningInv /\ EveryInv /\ RestartInv /\ DistInv /\ StartsInv
      /\ ClockInv /\ WaitInv /\ HeadInv /\ UpdateInv
  BY DEF IInv
<1>2. /\ UNCHANGED <<counter, cc, rtcRunning, rtcPending, rtcReset, ops, lag, due>>
      /\ isr.pc = "idle" /\ ~rtcPending /\ expired # None /\ expired' = None
      /\ swiPending' = FALSE /\ latest' = (latest + expired) % CounterRange
  BY DEF SwiTakeExpired, SwiEnters
<1>3. ~InBatch /\ ~Walking /\ ~rtcReset
  BY <1>1, <1>2 DEF InBatch, Walking, BatchInv
<1>4. IsList(list, node) /\ counter \in Ticks /\ latest \in Ticks /\ expired \in Nat /\ None \notin Timers
  BY <1>1, <1>2, NoneIsNothing DEF Types
<1>5. list # <<>> /\ rtcRunning
  BY <1>1, <1>2, <1>3 DEF BatchInv, ClockInv
<1>6. /\ Len(list) \in Nat /\ A \in [0 .. Len(list) -> Nat]
      /\ Elapsed \in Nat /\ Elapsed < CounterRange /\ lag \in Nat /\ Spare \in Nat /\ Spare = MaxLatency - lag
      /\ lag <= MaxLatency /\ Compare \in Nat
      /\ MaxLatency \in Nat /\ CompareOffset \in Nat /\ CounterRange \in Nat
      /\ \A i \in 1 .. Len(list) : list[i] \in Timers
  BY <1>1, Numbers, ConstantsAre DEF Places
<1>7. expired <= Elapsed /\ \A i \in Places : A[i] > expired => Elapsed < A[i] + lag
  BY <1>1, <1>2 DEF WalkInv
<1>8. CmpBound /\ Elapsed <= Compare + lag
  BY <1>1, <1>3, <1>5 DEF WaitInv
<1>9. ASSUME NEW i \in 1 .. Len(list)
      PROVE  /\ A[i] \in Nat /\ A[i] <= Span /\ A[i] < CounterRange /\ A[i] \in Ticks
             /\ Elapsed <= A[i] + Late(1) + lag /\ Late(1) \in Nat
  <2>1. Late(i) \in Nat /\ Late(1) >= Late(i) /\ Late(1) \in Nat
    BY <1>4, LateOf
  <2>2. A[i] \in Nat
    <3>1. i \in 0 .. Len(list)
      BY <1>6
    <3> QED  BY <3>1, <1>6
  <2>3. A[i] <= Span
    BY <1>1 DEF ListInv, Places
  <2>4. A[i] < CounterRange
    BY <2>1, <2>2, <2>3, <1>6 DEF Span
  <2>5. Compare <= A[i] + Late(i)
    BY <1>8 DEF CmpBound, Bounded, A
  <2>6. Elapsed <= A[i] + Late(1) + lag
    BY <2>1, <2>2, <2>5, <1>6, <1>8
  <2>7. A[i] \in Ticks
    BY <2>2, <2>4, RangeIs
  <2> QED  BY <2>1, <2>2, <2>3, <2>4, <2>6, <2>7
<1>10. PICK k : /\ IsTake(list, node, expired, k, list', node')
                /\ isr' = InsertState(TRUE, Again(list, node)[k], HeadOf(list'))
  BY TakeExpiredIs
<1>11a. PICK lm, nm : lm = list' /\ nm = node'
  OBVIOUS
<1>11b. IsTake(list, node, expired, k, lm, nm)
  BY <1>10, <1>11a
<1>11c. \A i \in 1 .. Len(list) : After(list, node)[i] < CounterRange
  BY <1>9 DEF A
<1>11d. /\ IsList(lm, nm) /\ Len(lm) = Len(list) - k /\ k \in 0 .. Len(list)
        /\ \A i \in 1 .. Len(list) - k : lm[i] = list[k + i]
  BY <1>4, <1>11b, <1>11c, TakeKeeps
<1>11e. \A i \in 1 .. Len(list) - k : After(lm, nm)[i] = After(list, node)[k + i] - expired
  BY <1>4, <1>11b, <1>11c, TakeKeeps
<1>11f. /\ \A i \in 1 .. k : After(list, node)[i] <= expired
        /\ \A i \in k + 1 .. Len(list) : After(list, node)[i] > expired
  BY <1>4, <1>11b, <1>11c, TakeKeeps
<1>11g. /\ \A i \in 1 .. k : node[list[i]].periodic = 0 => nm[list[i]] = Unlisted
        /\ \A i \in 1 .. k : node[list[i]].periodic # 0 =>
                                nm[list[i]] = ToRestart(node[list[i]], After(list, node)[i])
  BY <1>4, <1>11b, <1>11c, TakeKeeps
<1>11i. \A i \in k + 1 .. Len(list) : SameBut(nm[list[i]], node[list[i]])
  BY <1>4, <1>11b, <1>11c, TakeKeeps
<1>11j. \A u \in Timers : (\A i \in 1 .. Len(list) : list[i] # u) => nm[u] = node[u]
  BY <1>4, <1>11b, <1>11c, TakeKeeps
<1>11. /\ IsList(list', node') /\ Len(list') = Len(list) - k /\ k \in 0 .. Len(list)
       /\ \A i \in 1 .. Len(list) - k : list'[i] = list[k + i]
       /\ \A i \in 1 .. Len(list) - k : A'[i] = A[k + i] - expired
       /\ \A i \in 1 .. k : A[i] <= expired
       /\ \A i \in k + 1 .. Len(list) : A[i] > expired
       /\ \A i \in 1 .. k : node[list[i]].periodic = 0 => node'[list[i]] = Unlisted
       /\ \A i \in 1 .. k : node[list[i]].periodic # 0 => node'[list[i]] = ToRestart(node[list[i]], A[i])
       /\ \A i \in k + 1 .. Len(list) : SameBut(node'[list[i]], node[list[i]])
       /\ \A u \in Timers : (\A i \in 1 .. Len(list) : list[i] # u) => node'[u] = node[u]
  <2>1. A = After(list, node) /\ A' = After(lm, nm)
    BY <1>11a DEF A
  <2>2. /\ IsList(list', node') /\ Len(list') = Len(list) - k /\ k \in 0 .. Len(list)
        /\ \A i \in 1 .. Len(list) - k : list'[i] = list[k + i]
    BY <1>11a, <1>11d
  <2>3. \A i \in 1 .. Len(list) - k : A'[i] = A[k + i] - expired
    BY <2>1, <1>11e
  <2>4. /\ \A i \in 1 .. k : node[list[i]].periodic = 0 => node'[list[i]] = Unlisted
        /\ \A i \in 1 .. k : node[list[i]].periodic # 0 => node'[list[i]] = ToRestart(node[list[i]], A[i])
    BY <2>1, <1>11a, <1>11g
  <2>5. /\ \A i \in k + 1 .. Len(list) : SameBut(node'[list[i]], node[list[i]])
        /\ \A u \in Timers : (\A i \in 1 .. Len(list) : list[i] # u) => node'[u] = node[u]
    BY <1>11a, <1>11i, <1>11j
  <2> QED  BY <2>1, <2>2, <2>3, <2>4, <2>5, <1>11f
<1>12. k \in Nat /\ k <= Len(list) /\ \A i \in 1 .. Len(list) : i \in Nat
  <2>1. k \in 0 .. Len(list)
    BY <1>11
  <2> QED  BY <2>1, <1>6
<1>13. latest' = Ahead(latest, expired) /\ latest' \in Ticks /\ expired \in Ticks
       /\ Elapsed' = Elapsed - expired
  <2>1. latest' = Ahead(latest, expired)
    BY <1>2 DEF Ahead
  <2>2. Ahead(latest, expired) \in Ticks /\ ticks_diff_get(counter, Ahead(latest, expired)) = ticks_diff_get(counter, latest) - expired
    BY <1>4, <1>7, DiffBehind DEF Elapsed
  <2>3. expired \in Ticks
    BY <1>4, <1>6, <1>7, RangeIs
  <2>4. counter' = counter
    BY <1>2
  <2> QED  BY <2>1, <2>2, <2>3, <2>4 DEF Elapsed
<1>14. PICK E1 \in Int : E1 = Elapsed' /\ E1 = Elapsed - expired
  BY <1>13, <1>6, <1>4
<1>14b. E1 = Elapsed - expired
  BY <1>14
<1>15. /\ isr'.pc = "insert" /\ isr'.update /\ isr'.restart = Again(list, node)[k] /\ isr'.head = HeadOf(list')
       /\ isr' \in IsrType
  <2>1. Again(list, node)[k] \in Seq(Timers)
    BY <1>4, <1>11, AgainIs
  <2>2. HeadOf(list') \in Timers \cup {None}
    BY <1>11, HeadIs
  <2> QED  BY <2>1, <2>2, <1>10 DEF InsertState, IsrType, InsertType
<1>16. InBatch' /\ ~Walking'
  BY <1>15 DEF InBatch, Walking
<1>17. Spare' = Spare
  BY <1>2 DEF Spare
<1>18. ASSUME NEW t \in Timers
       PROVE  \/ \A i \in 1 .. Len(list) : list[i] # t
              \/ \E i \in 1 .. k : i \in 1 .. Len(list) /\ list[i] = t
              \/ \E i \in k + 1 .. Len(list) : i \in 1 .. Len(list) /\ list[i] = t
  <2>1. \A i \in 1 .. Len(list) : i \in 1 .. k \/ i \in k + 1 .. Len(list)
    BY <1>12, <1>6
  <2> QED  BY <2>1
<1>19. ASSUME NEW j \in 1 .. Len(list')
       PROVE  /\ k + j \in k + 1 .. Len(list) /\ k + j \in 1 .. Len(list)
              /\ list'[j] = list[k + j] /\ A'[j] = A[k + j] - expired /\ list[k + j] \in Timers
              /\ A[k + j] > expired /\ j \in 1 .. Len(list)
  <2>1. j \in 1 .. Len(list) - k
    BY <1>11
  <2>2. k + j \in k + 1 .. Len(list) /\ k + j \in 1 .. Len(list) /\ j \in 1 .. Len(list)
    BY <2>1, <1>12, <1>6
  <2> QED  BY <2>1, <2>2, <1>11, <1>6
<1>20. ASSUME NEW i \in k + 1 .. Len(list) PROVE \E j \in 1 .. Len(list') : list'[j] = list[i]
  <2>1. i - k \in 1 .. Len(list) - k /\ k + (i - k) = i
    BY <1>12, <1>6
  <2>2. list'[i - k] = list[k + (i - k)]
    BY <2>1, <1>11
  <2> QED  BY <2>1, <2>2, <1>11
<1>21. ASSUME NEW i \in 1 .. k, i \in 1 .. Len(list), NEW t, t = list[i]
       PROVE  ~Listed(t)' /\ Expiring(t) /\ ~node[t].isRunning /\ ~node'[t].isRunning /\ t \in Timers
  <2>1. t \in Timers /\ Expiring(t)
    BY <1>2, <1>6, <1>11, <1>21 DEF Expiring, Places
  <2>2. ~node[t].isRunning
    BY <2>1, <1>1 DEF RunningInv
  <2>3. ~node'[t].isRunning
    <3>1. node[t] \in Node
      BY <2>1, <1>4 DEF IsList
    <3>2. CASE node[t].periodic = 0
      <4>1. node'[t] = Unlisted
        BY <3>2, <1>11, <1>21
      <4> QED  BY <4>1 DEF Unlisted
    <3>3. CASE node[t].periodic # 0
      <4>1. node'[t] = ToRestart(node[t], A[i])
        BY <3>3, <1>11, <1>21
      <4>2. node'[t].isRunning = node[t].isRunning
        BY <3>1, <4>1 DEF Node, ToRestart
      <4> QED  BY <4>2, <2>2
    <3> QED  BY <3>2, <3>3
  <2>4. ASSUME NEW j \in 1 .. Len(list'), list'[j] = t PROVE FALSE
    <3>1. k + j \in 1 .. Len(list) /\ list[k + j] = list[i] /\ k + j \in k + 1 .. Len(list)
      BY <2>4, <1>19, <1>21
    <3>2. k + j = i
      BY <3>1, <1>21, <1>4 DEF IsList
    <3> QED  BY <3>1, <3>2, <1>21, <1>12
  <2>5. ~Listed(t)'
    BY <2>4 DEF Listed
  <2> QED  BY <2>1, <2>2, <2>3, <2>5
<1> HIDE <1>10
<1>t. Types'
  <2>1. swiPending' \in BOOLEAN
    BY <1>2
  <2> QED  BY <2>1, <1>1, <1>2, <1>11, <1>13, <1>15 DEF Types
<1>z. NodesOK'
  <2> SUFFICES ASSUME NEW t \in Timers
               PROVE  /\ node'[t].atStart \in Ticks
                      /\ node'[t].first \in Timeouts[t] \cup {0}
                      /\ node'[t].periodic \in Timeouts[t] \cup {0}
                      /\ ~Listed(t)' => node'[t].toExpire \in Ticks
    BY DEF NodesOK
  <2>1. /\ node[t].atStart \in Ticks
        /\ node[t].first \in Timeouts[t] \cup {0}
        /\ node[t].periodic \in Timeouts[t] \cup {0}
        /\ ~Listed(t) => node[t].toExpire \in Ticks
        /\ node[t] \in Node
    BY <1>1, <1>4 DEF NodesOK, IsList
  <2>2. CASE \A i \in 1 .. Len(list) : list[i] # t
    <3>1. node'[t] = node[t] /\ ~Listed(t)
      BY <2>2, <1>11 DEF Listed
    <3> QED  BY <2>1, <3>1
  <2>3. ASSUME NEW i \in 1 .. k, i \in 1 .. Len(list), list[i] = t
        PROVE  /\ node'[t].atStart \in Ticks
               /\ node'[t].first \in Timeouts[t] \cup {0}
               /\ node'[t].periodic \in Timeouts[t] \cup {0}
               /\ node'[t].toExpire \in Ticks
    <3>1. 0 \in Ticks
      BY RangeIs
    <3>2. CASE node[t].periodic = 0
      <4>1. node'[t] = Unlisted
        BY <2>3, <3>2, <1>11
      <4> QED  BY <4>1, <3>1 DEF Unlisted
    <3>3. CASE node[t].periodic # 0
      <4>1. node'[t] = ToRestart(node[t], A[i])
        BY <2>3, <3>3, <1>11
      <4>2. Ahead(latest, A[i]) \in Ticks
        BY <2>3, <1>4, <1>9, DiffFrom
      <4> QED  BY <4>1, <4>2, <2>1, <3>1 DEF Node, ToRestart
    <3> QED  BY <3>2, <3>3
  <2>4. ASSUME NEW i \in k + 1 .. Len(list), i \in 1 .. Len(list), list[i] = t
        PROVE  /\ node'[t].atStart = node[t].atStart /\ node'[t].first = node[t].first
               /\ node'[t].periodic = node[t].periodic
               /\ Listed(t)'
    BY <2>4, <1>11, <1>20 DEF SameBut, Listed
  <2> QED  BY <2>1, <2>2, <2>3, <2>4, <1>18
<1>o. OpsOK'
  BY <1>1, <1>2, <1>15 DEF OpsOK
<1>b. BatchInv'
  BY <1>2, <1>3 DEF BatchInv
<1>l. ListInv'
  <2> SUFFICES ASSUME NEW j \in 1 .. Len(list')
               PROVE  /\ A'[j] <= Span
                      /\ list'[j] \in Repeated => node'[list'[j]].periodic \in Timeouts[list'[j]]
                      /\ list'[j] \notin Repeated => node'[list'[j]].periodic = 0
    BY DEF ListInv, Places
  <2> DEFINE i == k + j
  <2>1. i \in k + 1 .. Len(list) /\ i \in 1 .. Len(list) /\ list'[j] = list[i] /\ A'[j] = A[i] - expired
        /\ A[i] \in Nat /\ A[i] <= Span
    BY <1>9, <1>19
  <2> HIDE DEF i
  <2>2. /\ list[i] \in Repeated => node[list[i]].periodic \in Timeouts[list[i]]
        /\ list[i] \notin Repeated => node[list[i]].periodic = 0
    BY <2>1, <1>1 DEF ListInv, Places
  <2>3. node'[list[i]].periodic = node[list[i]].periodic
    BY <2>1, <1>11 DEF SameBut
  <2>4. A[i] - expired <= Span
    <3>1. Span \in Int
      <4>1. Late(1) \in Nat
        BY <2>1, <1>9
      <4> QED  BY <4>1, <1>6 DEF Span
    <3> QED  BY <3>1, <2>1, <1>4
  <2> QED  BY <2>1, <2>2, <2>3, <2>4
<1>w. WalkInv'
  BY <1>2, <1>16 DEF WalkInv
<1>f. ASSUME NEW t \in Timers
      PROVE  /\ ~Expiring(t)' /\ ~Restarting(t)
             /\ Queued("stop", t)' <=> Queued("stop", t)
             /\ FirstOpIs("stop", t)' <=> FirstOpIs("stop", t)
  <2>1. ~Expiring(t)'
    BY <1>2, <1>16 DEF Expiring
  <2>2. ~Restarting(t)
    BY <1>2 DEF Restarting
  <2>3. (Queued("stop", t)' <=> Queued("stop", t)) /\ (FirstOpIs("stop", t)' <=> FirstOpIs("stop", t))
    BY <1>2 DEF Queued, FirstOpIs
  <2> QED  BY <2>1, <2>2, <2>3
<1>r. RunningInv'
  <2> SUFFICES ASSUME NEW t \in Timers
               PROVE  /\ node'[t].isRunning => Listed(t)' /\ due[t] # None
                      /\ Listed(t)' /\ ~node'[t].isRunning => FirstOpIs("stop", t)
                      /\ due[t] # None /\ ~node'[t].isRunning => FirstOpIs("stop", t) \/ Restarting(t)'
                      /\ Listed(t)' /\ t \in Repeated => due[t] # None
    BY <1>2, <1>16, <1>f DEF RunningInv
  <2>0. /\ node[t].isRunning => Listed(t) /\ due[t] # None /\ ~Expiring(t)
        /\ Listed(t) /\ ~node[t].isRunning => Expiring(t) \/ FirstOpIs("stop", t)
        /\ due[t] # None /\ ~node[t].isRunning => FirstOpIs("stop", t) \/ (Expiring(t) /\ t \in Repeated)
        /\ Listed(t) /\ t \in Repeated => due[t] # None
    BY <1>1, <1>f DEF RunningInv
  <2>1. CASE \A i \in 1 .. Len(list) : list[i] # t
    <3>1. node'[t] = node[t] /\ ~Listed(t)
      BY <2>1, <1>11 DEF Listed
    <3>2. ~Listed(t)'
      BY <2>1, <1>19 DEF Listed
    <3>3. ~Expiring(t)
      BY <2>1 DEF Expiring, Places
    <3> QED  BY <2>0, <3>1, <3>2, <3>3
  <2>2. ASSUME NEW i \in 1 .. k, i \in 1 .. Len(list), list[i] = t
        PROVE  /\ ~Listed(t)' /\ ~node'[t].isRunning
               /\ due[t] # None => FirstOpIs("stop", t) \/ Restarting(t)'
    <3>1. ~Listed(t)' /\ ~node'[t].isRunning /\ ~node[t].isRunning /\ Expiring(t)
      BY <2>2, <1>21
    <3>2. ASSUME t \in Repeated PROVE Restarting(t)'
      <4>1. node[list[i]].periodic \in Timeouts[list[i]]
        BY <2>2, <3>2, <1>1 DEF ListInv, Places
      <4>2. node[list[i]].periodic # 0
        BY <4>1, <2>2, TimerAssumption
      <4>3. \E j \in 1 .. Len(Again(list, node)[k]) : list[i] = Again(list, node)[k][j]
        <5>1. k \in 0 .. Len(list) /\ IsList(list, node)
          BY <1>4, <1>11
        <5>2. \A j \in 1 .. k : node[list[j]].periodic # 0 =>
                 \E m \in 1 .. Len(Again(list, node)[k]) : list[j] = Again(list, node)[k][m]
          BY <5>1, AgainIs
        <5> QED  BY <5>2, <2>2, <4>2
      <4> QED  BY <4>3, <2>2, <1>15 DEF Restarting
    <3> QED  BY <2>0, <3>1, <3>2
  <2>3. ASSUME NEW i \in k + 1 .. Len(list), i \in 1 .. Len(list), list[i] = t
        PROVE  /\ Listed(t)' /\ Listed(t) /\ (node'[t].isRunning <=> node[t].isRunning) /\ ~Expiring(t)
    <3>1. Listed(t)' /\ Listed(t)
      BY <2>3, <1>20 DEF Listed
    <3>2. node'[t].isRunning <=> node[t].isRunning
      BY <2>3, <1>11 DEF SameBut
    <3>3. A[i] > expired /\ A[i] \in Nat
      BY <2>3, <1>9, <1>11
    <3>4. \A j \in Places : list[j] = t => j = i
      BY <2>3, <1>4 DEF IsList, Places
    <3>5. ~(A[i] <= expired)
      BY <3>3, <1>4
    <3>6. ~Expiring(t)
      BY <3>4, <3>5, <1>3 DEF Expiring
    <3> QED  BY <3>1, <3>2, <3>6
  <2> QED  BY <2>0, <2>1, <2>2, <2>3, <1>18
<1>e. EveryInv'
  <2>1. ASSUME NEW t \in Timers PROVE node'[t].periodic = node[t].periodic
    <3>1. ASSUME NEW i \in 1 .. k, i \in 1 .. Len(list), list[i] = t
          PROVE  node'[t].periodic = node[t].periodic
      <4>1. CASE node[t].periodic = 0
        <5>1. node'[t] = Unlisted
          BY <3>1, <4>1, <1>11
        <5> QED  BY <4>1, <5>1 DEF Unlisted
      <4>2. CASE node[t].periodic # 0
        <5>1. node'[t] = ToRestart(node[t], A[i])
          BY <3>1, <4>2, <1>11
        <5>2. node[t] \in Node
          BY <1>4 DEF IsList
        <5> QED  BY <5>1, <5>2 DEF Node, ToRestart
      <4> QED  BY <4>1, <4>2
    <3>2. ASSUME NEW i \in k + 1 .. Len(list), list[i] = t
          PROVE  node'[t].periodic = node[t].periodic
      BY <3>2, <1>11 DEF SameBut
    <3>3. CASE \A i \in 1 .. Len(list) : list[i] # t
      BY <3>3, <1>11
    <3> QED  BY <3>1, <3>2, <3>3, <1>18
  <2> QED  BY <2>1, <1>1, <1>2, FrameEvery
<1>s. RestartInv'
  <2>1. ASSUME NEW t \in Timers, Restarting(t)' PROVE RestartOK(t)'
    <3>1. \E j \in 1 .. Len(Again(list, node)[k]) : Again(list, node)[k][j] = t
      BY <2>1, <1>15 DEF Restarting
    <3>2. PICK i \in 1 .. k : list[i] = t /\ node[list[i]].periodic # 0
      <4>1. k \in 0 .. Len(list) /\ IsList(list, node)
        BY <1>4, <1>11
      <4>2. \A j \in 1 .. Len(Again(list, node)[k]) :
                \E i \in 1 .. k : list[i] = Again(list, node)[k][j] /\ node[list[i]].periodic # 0
        BY <4>1, AgainIs
      <4> QED  BY <3>1, <4>2
    <3>3. i \in 1 .. Len(list) /\ i \in Places
      BY <1>12, <1>6 DEF Places
    <3>4. t \in Repeated /\ node[t].periodic \in Timeouts[t]
      BY <3>2, <3>3, <1>1 DEF ListInv
    <3>5. ~Listed(t)'
      BY <3>2, <3>3, <1>21
    <3>6. Expiring(t) /\ ~node[t].isRunning /\ ~node'[t].isRunning
      BY <3>2, <3>3, <1>21
    <3>7. due[t] # None
      <4>1. Listed(t)
        BY <3>2, <3>3 DEF Listed
      <4> QED  BY <4>1, <3>4, <1>1 DEF RunningInv
    <3>8. /\ node'[t].atStart = Ahead(latest, A[i]) /\ node'[t].first = node[t].periodic
          /\ node'[t].periodic = node[t].periodic
      <4>1. node'[t] = ToRestart(node[t], A[i])
        BY <3>2, <1>11
      <4>2. node[t] \in Node
        BY <1>4 DEF IsList
      <4> QED  BY <4>1, <4>2 DEF Node, ToRestart
    <3>9. SinceTimeout(t)' = expired - A[i]
      <4>1. A[i] \in Ticks /\ A[i] <= expired
        BY <3>3, <1>9, <1>11
      <4>2. ticks_diff_get(Ahead(latest, A[i]), latest) = A[i] /\ Ahead(latest, A[i]) \in Ticks
        BY <4>1, <1>4, DiffFrom
      <4>3. ticks_diff_get(Ahead(latest, expired), latest) = expired
        BY <1>4, <1>13, DiffFrom
      <4>4. PICK b \in Ticks, c \in Ticks : b = Ahead(latest, A[i]) /\ c = latest'
        BY <4>2, <1>13
      <4>5. ticks_diff_get(b, latest) = A[i] /\ ticks_diff_get(c, latest) = expired
        BY <4>2, <4>3, <4>4, <1>13
      <4>6. ticks_diff_get(c, b) = expired - A[i]
        BY <4>1, <4>5, <1>4, DiffDiff
      <4>7. SinceTimeout(t)' = ticks_diff_get(latest', node'[t].atStart)
        BY DEF SinceTimeout
      <4> QED  BY <4>4, <4>6, <4>7, <3>8
    <3>10. PICK p : p = node[t].periodic
      OBVIOUS
    <3>11. p \in Timeouts[t] /\ p \in Nat /\ p > Late(1) + MaxLatency
      BY <3>4, <3>10, TimerAssumption, TimingAssumption DEF TimesFit
    <3>12. PICK a \in Nat : a = A[i] /\ a <= expired /\ Elapsed <= a + Late(1) + lag /\ Late(1) \in Nat
      BY <3>3, <1>9, <1>11
    <3>13. expired - a <= Late(1) + MaxLatency
      <4>1. PICK e \in Nat, x \in Nat, l \in Nat, g \in Nat, m \in Nat :
               e = Elapsed /\ x = expired /\ l = Late(1) /\ g = lag /\ m = MaxLatency
        BY <3>12, <1>4, <1>6
      <4>2. x <= e /\ e <= a + l + g /\ g <= m
        BY <3>12, <4>1, <1>4, <1>6, <1>7
      <4>3. x - a <= l + m
        BY ONLY <4>2
      <4> QED  BY <4>1, <4>3
    <3>14. E1 + CompareOffset + Spare <= p - (expired - a) + Delay
      <4>1. Delay = CompareOffset + MaxLatency - 1
        BY DEF Delay
      <4> HIDE DEF Delay
      <4>2. PICK e0, sp, l1, c, m, g, x : e0 = Elapsed /\ sp = Spare /\ l1 = Late(1) /\ c = CompareOffset
                                  /\ m = MaxLatency /\ g = lag /\ x = expired
        OBVIOUS
      <4>3. /\ e0 \in Nat /\ l1 \in Nat /\ c \in Nat /\ m \in Nat /\ g \in Nat /\ x \in Nat
            /\ sp = m - g /\ E1 = e0 - x /\ e0 <= a + l1 + g /\ p > l1 + m
        BY <4>2, <3>11, <3>12, <1>4, <1>6, <1>14b
      <4>4. E1 + c + sp <= p - (x - a) + (c + m - 1)
        BY <4>3, <3>11, <3>12
      <4> QED  BY <4>1, <4>2, <4>4
    <3>15. ASSUME ~Queued("stop", t)
           PROVE  /\ due[t].left <= p - (expired - a) - E1
                  /\ p - (expired - a) - E1 <= due[t].left + MaxLatency
      <4>1. due[t].every = p /\ due[t].left \in Int
        <5>1. due[t].every = node[t].periodic
          BY <3>7, <1>1 DEF EveryInv
        <5>2. due[t] \in DueType
          BY <3>7, <1>1 DEF Types
        <5> QED  BY <5>1, <5>2, <3>10 DEF DueType
      <4>2. Base(t) = due[t].left - p
        BY <3>6, <4>1 DEF Base
      <4>3. Base(t) <= a - Elapsed /\ a - Elapsed <= Base(t) + MaxLatency
        BY <3>2, <3>3, <3>7, <3>12, <3>15, <1>1 DEF DistInv
      <4>4. due[t].left - p <= a - Elapsed /\ a - Elapsed <= (due[t].left - p) + MaxLatency
        BY <4>2, <4>3
      <4> QED  BY <4>1, <4>4, <3>11, <1>4, <1>6, <1>14
    <3>16. Queued("stop", t)' <=> Queued("stop", t)
      BY <1>f
    <3>17. PICK n : n = node'[t] /\ n.first = p /\ n.periodic = p /\ ~n.isRunning
      BY <3>6, <3>8, <3>10
    <3>18. PICK w : w = SinceTimeout(t)' /\ w = expired - a
      BY <3>9, <3>12
    <3>19. /\ due' = due /\ n.first = n.periodic /\ n.periodic \in Timeouts[t]
           /\ w <= Late(1) + MaxLatency
      BY <3>10, <3>11, <3>13, <3>17, <3>18, <1>2
    <3>20. E1 + CompareOffset + Spare <= n.first - w + Delay
      BY <3>14, <3>17, <3>18
    <3>21. ~Queued("stop", t)' =>
             /\ due[t].left <= n.first - w - E1
             /\ n.first - w - E1 <= due[t].left + MaxLatency
      BY <3>15, <3>16, <3>17, <3>18
    <3>22. RestartOK(t)' <=>
             /\ t \in Repeated /\ ~Listed(t)' /\ ~node'[t].isRunning /\ due'[t] # None
             /\ node'[t].first = node'[t].periodic /\ node'[t].periodic \in Timeouts[t]
             /\ SinceTimeout(t)' <= Late(1) + MaxLatency
             /\ Elapsed' + CompareOffset + Spare' <= node'[t].first - SinceTimeout(t)' + Delay
             /\ ~Queued("stop", t)' =>
                  /\ due'[t].left <= node'[t].first - SinceTimeout(t)' - Elapsed'
                  /\ node'[t].first - SinceTimeout(t)' - Elapsed' <= due'[t].left + MaxLatency
      BY DEF RestartOK, Late, Delay
    <3>23. Elapsed' + CompareOffset + Spare' <= node'[t].first - SinceTimeout(t)' + Delay
      BY <3>17, <3>18, <3>20, <1>14, <1>17
    <3>24. ~Queued("stop", t)' =>
                  /\ due'[t].left <= node'[t].first - SinceTimeout(t)' - Elapsed'
                  /\ node'[t].first - SinceTimeout(t)' - Elapsed' <= due'[t].left + MaxLatency
      BY <3>17, <3>18, <3>19, <3>21, <1>14
    <3>25. /\ node'[t].first = node'[t].periodic /\ node'[t].periodic \in Timeouts[t]
           /\ ~node'[t].isRunning /\ due'[t] # None
      BY <3>7, <3>17, <3>19
    <3>26. SinceTimeout(t)' <= Late(1) + MaxLatency
      BY <3>18, <3>19
    <3> HIDE <3>17, <3>18
    <3>27. /\ t \in Repeated /\ ~Listed(t)' /\ ~node'[t].isRunning /\ due'[t] # None
           /\ node'[t].first = node'[t].periodic /\ node'[t].periodic \in Timeouts[t]
      BY <3>4, <3>5, <3>25
    <3> QED  BY <3>22, <3>23, <3>24, <3>26, <3>27, Zenon
  <2>2. \A i, j \in 1 .. Len(isr'.restart) : isr'.restart[i] = isr'.restart[j] => i = j
    <3>1. k \in 0 .. Len(list) /\ IsList(list, node)
      BY <1>4, <1>11
    <3>2. \A i, j \in 1 .. Len(Again(list, node)[k]) :
                Again(list, node)[k][i] = Again(list, node)[k][j] => i = j
      BY <3>1, AgainIs
    <3>3. isr'.restart = Again(list, node)[k]
      BY <1>15
    <3> QED  BY <3>2, <3>3
  <2> QED  BY <2>1, <2>2, <1>2, <1>5, <1>15 DEF RestartInv
<1>d. DistInv'
  <2> SUFFICES ASSUME NEW j \in 1 .. Len(list'), NEW t, t = list'[j], ~Queued("stop", t)', due[t] # None
               PROVE  /\ Base(t)' <= A'[j] - Elapsed'
                      /\ A'[j] - Elapsed' <= Base(t)' + MaxLatency
    <3>1. due' = due /\ rtcRunning'
      BY <1>2, <1>5
    <3> QED  BY <3>1 DEF DistInv, Places
  <2>1. PICK i \in k + 1 .. Len(list) : i \in 1 .. Len(list) /\ list'[j] = list[i] /\ A'[j] = A[i] - expired
    BY <1>19
  <2>2. t \in Timers /\ t = list[i]
    BY <2>1, <1>6
  <2>3. PICK a \in Nat : a = A[i]
    BY <2>1, <1>9
  <2>4. Base(t)' = Base(t)
    BY <2>1, <2>2, <1>2, <1>11 DEF SameBut, Base
  <2>5. Base(t) <= a - Elapsed /\ a - Elapsed <= Base(t) + MaxLatency
    <3>1. ~Queued("stop", t)
      BY <2>2, <1>f
    <3> QED  BY <2>1, <2>2, <2>3, <3>1, <1>1 DEF DistInv, Places
  <2>6. A'[j] - Elapsed' = a - Elapsed
    <3>1. (a - expired) - E1 = a - Elapsed
      BY <1>14, <1>4, <1>6
    <3> QED  BY <3>1, <2>1, <2>3, <1>14
  <2> QED  BY <2>4, <2>5, <2>6
<1>a. StartsInv'
  <2> SUFFICES ASSUME NEW i \in 1 .. Len(ops), ops[i].type = "start"
               PROVE  ticks_diff_get(counter, ops[i].at) = ops[i].age /\ E1 - ops[i].age < HalfRange
    BY <1>2, <1>3, <1>5, <1>14, <1>16 DEF StartsInv
  <2>1. ticks_diff_get(counter, ops[i].at) = ops[i].age /\ Elapsed - ops[i].age < HalfRange
    BY <1>1, <1>3, <1>5 DEF StartsInv
  <2>2. ops[i].age \in Nat /\ HalfRange \in Nat
    BY <1>1, OpsAre, ConstantsAre
  <2> QED  BY <2>1, <2>2, <1>14, <1>4, <1>6
<1>c. ClockInv'
  <2>1. E1 + Spare < CounterRange
    BY <1>14, <1>1, <1>4, <1>6 DEF ClockInv
  <2> QED  BY <2>1, <1>2, <1>5, <1>14, <1>16, <1>17 DEF ClockInv
<1>v. WaitInv'
  BY <1>16 DEF WaitInv
<1>h. HeadInv'
  BY <1>15 DEF HeadInv
<1>u. UpdateInv'
  <2>1. ASSUME NEW j \in 1 .. Len(list') PROVE E1 + CompareOffset + Spare <= A'[j] + Late(j)
    <3>1. PICK i \in 1 .. Len(list) : A'[j] = A[i] - expired /\ A[i] > expired
      BY <1>19
    <3>2. PICK a \in Nat : a = A[i]
      BY <1>9
    <3>3. Elapsed < a + lag
      BY <3>1, <3>2, <1>7 DEF Places
    <3>4. Late(j) \in Nat /\ Late(j) >= Delay
      BY <1>11, LateOf
    <3>5. Delay = CompareOffset + MaxLatency - 1
      BY DEF Delay
    <3> HIDE DEF Delay
    <3>6. E1 + CompareOffset + Spare <= (a - expired) + Late(j)
      BY <3>3, <3>4, <3>5, <1>4, <1>6, <1>14
    <3> QED  BY <3>1, <3>2, <3>6
  <2>2. UpInv'
    BY <2>1, <1>2, <1>14, <1>17 DEF UpInv, Bounded, A
  <2> QED  BY <2>2, <1>15 DEF UpdateInv
<1> QED  BY <1>t, <1>z, <1>o, <1>b, <1>l, <1>w, <1>r, <1>e, <1>s, <1>d, <1>a, <1>c, <1>v, <1>h, <1>u DEF IInv

-----------------------------------------------------------------------------
(* The turns of list_insertions_handler.                                   *)

\* What an operation taken out of the queue changes.
LEMMA TailOps ==
    ASSUME Types, ops # <<>>, ops' = Tail(ops)
    PROVE  /\ ops' \in Seq(Op) /\ Len(ops') = Len(ops) - 1 /\ Len(ops) \in Nat
           /\ 1 \in 1 .. Len(ops) /\ Head(ops) = ops[1] /\ Head(ops) \in Op
           /\ \A i \in 1 .. Len(ops') : i + 1 \in 1 .. Len(ops) /\ ops'[i] = ops[i + 1]
           /\ \A u, ty : Queued(ty, u)' => Queued(ty, u)
           /\ \A u, ty : Queued(ty, u) => Queued(ty, u)' \/ (Head(ops).type = ty /\ Head(ops).timer = u)
           /\ \A u, ty : FirstOpIs(ty, u) /\ Head(ops).timer # u => FirstOpIs(ty, u)'
           /\ \A u, ty : FirstOpIs(ty, u) /\ Head(ops).timer = u => Head(ops).type = ty
<1>1. ops \in Seq(Op) /\ Len(ops) \in Nat
  BY DEF Types
<1>2. /\ ops' \in Seq(Op) /\ Len(ops') = Len(ops) - 1
      /\ 1 \in 1 .. Len(ops) /\ Head(ops) = ops[1] /\ Head(ops) \in Op
  BY <1>1
<1>3. \A i \in 1 .. Len(ops') : i + 1 \in 1 .. Len(ops) /\ ops'[i] = ops[i + 1]
  BY <1>1, <1>2
<1>4. \A i \in 1 .. Len(ops) : i = 1 \/ (i - 1 \in 1 .. Len(ops') /\ ops'[i - 1] = ops[i])
  BY <1>1, <1>2
<1>5. ASSUME NEW u, NEW ty, Queued(ty, u)' PROVE Queued(ty, u)
  BY <1>3, <1>5 DEF Queued
<1>6. ASSUME NEW u, NEW ty, Queued(ty, u) PROVE Queued(ty, u)' \/ (Head(ops).type = ty /\ Head(ops).timer = u)
  <2>1. PICK i \in 1 .. Len(ops) : ops[i].type = ty /\ ops[i].timer = u
    BY <1>6 DEF Queued
  <2> QED  BY <2>1, <1>2, <1>4 DEF Queued
<1>7. ASSUME NEW u, NEW ty, FirstOpIs(ty, u) PROVE \/ Head(ops).timer # u /\ FirstOpIs(ty, u)'
                                                   \/ Head(ops).timer = u /\ Head(ops).type = ty
  <2>1. PICK i \in 1 .. Len(ops) : /\ ops[i].type = ty /\ ops[i].timer = u
                                   /\ \A j \in 1 .. i - 1 : ops[j].timer # u
    BY <1>7 DEF FirstOpIs
  <2>2. CASE i = 1
    BY <2>1, <2>2, <1>2
  <2>3. CASE i # 1
    <3>1. i - 1 \in 1 .. Len(ops') /\ ops'[i - 1] = ops[i]
      BY <2>3, <1>4
    <3>2. 1 \in 1 .. i - 1 /\ Head(ops) = ops[1]
      BY <2>3, <1>2
    <3>3. ASSUME NEW j \in 1 .. (i - 1) - 1 PROVE ops'[j].timer # u
      <4>1. j \in 1 .. Len(ops') /\ j + 1 \in 1 .. i - 1
        BY <3>3, <1>1, <1>2
      <4> QED  BY <4>1, <1>3, <2>1
    <3> QED  BY <3>1, <3>2, <3>3, <2>1 DEF FirstOpIs
  <2> QED  BY <2>2, <2>3
<1> QED  BY <1>1, <1>2, <1>3, <1>5, <1>6, <1>7

\* Every operation that is left was there, and a start that will not be ignored
\* would not have been.
OpsRemain == \A i \in 1 .. Len(ops') : \E j \in 1 .. Len(ops) :
    /\ ops'[i] = ops[j]
    /\ ops'[i].type = "start" /\ Takes(i)' => Takes(j)

\* What the operations that are left still say, when only the one taken out may
\* have cleared is_running.
LEMMA PopKeeps ==
    ASSUME IInv, isr.pc = "insert", ops # <<>>, ops' = Tail(ops), isr'.pc = "insert",
           UNCHANGED lag,
           \A u \in Timers : ~node'[u].isRunning =>
              \/ ~node[u].isRunning
              \/ Head(ops).type = "stop_all"
              \/ Head(ops).type = "stop" /\ Head(ops).timer = u
    PROVE  /\ OpsOK' /\ ops' \in Seq(Op) /\ Len(ops') <= OpQueueSize
           /\ \A i \in 1 .. Len(ops') : \E j \in 1 .. Len(ops) : ops'[i] = ops[j]
           /\ OpsRemain
<1>1. Types /\ OpsOK /\ OpQueueSize \in Nat
  BY ConstantsAre DEF IInv
<1>2. /\ ops' \in Seq(Op) /\ Len(ops') = Len(ops) - 1 /\ Len(ops) \in Nat
      /\ \A i \in 1 .. Len(ops') : i + 1 \in 1 .. Len(ops) /\ ops'[i] = ops[i + 1]
      /\ 1 \in 1 .. Len(ops) /\ Head(ops) = ops[1]
  BY <1>1, TailOps
<1>3. Len(ops') <= OpQueueSize
  BY <1>1, <1>2 DEF Types
<1>4. \A i \in 1 .. Len(ops') : \E j \in 1 .. Len(ops) : ops'[i] = ops[j]
  BY <1>2
<1>5. OpsOK'
  BY <1>1, <1>4 DEF OpsOK
<1>6. ASSUME NEW i \in 1 .. Len(ops'), ops'[i].type = "start", Takes(i)'
      PROVE  Takes(i + 1)
  <2>1. i + 1 \in 1 .. Len(ops) /\ ops'[i] = ops[i + 1] /\ i \in Nat
    BY <1>2
  <2>2. PICK u \in Timers : ops[i + 1].timer = u /\ ops'[i].timer = u
    BY <2>1, <1>1, <1>6 DEF OpsOK
  <2>3. 1 \in 1 .. (i + 1) - 1
    BY <2>1
  <2>4. CASE ~node'[u].isRunning
    BY <2>2, <2>3, <2>4, <1>2 DEF Takes
  <2>5. ASSUME NEW k \in 1 .. i - 1,
               ops'[k].type = "stop_all" \/ (ops'[k].type = "stop" /\ ops'[k].timer = u)
        PROVE  Takes(i + 1)
    <3>1. k \in 1 .. Len(ops') /\ k + 1 \in 1 .. (i + 1) - 1
      BY <2>1, <1>2
    <3>2. ops'[k] = ops[k + 1]
      BY <3>1, <1>2
    <3> QED  BY <3>1, <3>2, <2>2, <2>5 DEF Takes
  <2>6. \/ ~node'[u].isRunning
        \/ \E k \in 1 .. i - 1 : ops'[k].type = "stop_all" \/ (ops'[k].type = "stop" /\ ops'[k].timer = u)
    BY <2>2, <1>6 DEF Takes
  <2> QED  BY <2>4, <2>5, <2>6
<1>7. OpsRemain
  BY <1>2, <1>6 DEF OpsRemain
<1> QED  BY <1>2, <1>3, <1>4, <1>5, <1>7

\* While the software interrupt inserts, no expired timer is in the list.
LEMMA Inserting ==
    ASSUME IInv, isr.pc = "insert"
    PROVE  /\ InBatch /\ ~Walking /\ expired = None
           /\ \A t \in Timers : ~Expiring(t)
<1>1. InBatch /\ ~Walking
  BY DEF InBatch, Walking
<1>2. expired = None
  BY <1>1 DEF IInv, BatchInv
<1> QED  BY <1>1, <1>2 DEF Expiring

\* The other timers are as before whether they run.
LEMMA InsertionLeaves ==
    ASSUME IsList(list, node), NEW t \in Timers, ~Listed(t),
           NEW n1, n1 \in [Timers -> Node], \A u \in Timers : u # t => n1[u] = node[u],
           NEW k, IsInsert(list, n1, t, k, list', node')
    PROVE  \A u \in Timers : u # t => (node'[u].isRunning <=> node[u].isRunning)
<1>1. \A i \in 1 .. Len(list) : list[i] # t
  BY DEF Listed
<1>2. IsList(list, n1)
  <2>1. \A i \in 1 .. Len(list) : n1[list[i]] = node[list[i]]
    BY <1>1 DEF IsList
  <2> QED  BY <2>1 DEF IsList
<1>3. PICK lm, nm : lm = list' /\ nm = node'
  OBVIOUS
<1>4. IsInsert(list, n1, t, k, lm, nm)
  BY <1>3
<1>5. \A u \in Timers : SameBut(nm[u], n1[u])
  BY <1>1, <1>2, <1>4, InsertKeeps
<1> QED  BY <1>3, <1>5 DEF SameBut

\* A timer enters the list, its first expiry x ticks after the last interrupt.
LEMMA InsertionKeeps ==
    ASSUME IInv, isr.pc = "insert",
           NEW t \in Timers, ~Listed(t), NEW x \in Nat, NEW p,
           NEW n1, n1 \in [Timers -> Node], \A u \in Timers : u # t => n1[u] = node[u],
           n1[t] = [toExpire |-> x, atStart |-> 0, first |-> 0, periodic |-> p, isRunning |-> TRUE],
           t \in Repeated => p \in Timeouts[t], t \notin Repeated => p = 0,
           NEW k, IsInsert(list, n1, t, k, list', node'),
           UNCHANGED <<counter, cc, rtcRunning, rtcPending, swiPending, latest, expired, rtcReset, lag>>,
           isr' \in IsrType, isr'.pc = "insert", isr'.update <=> isr.update, isr'.head = isr.head,
           \A u \in Timers : Restarting(u)' => Restarting(u) /\ u # t,
           \A u \in Timers : u # t /\ Restarting(u) => Restarting(u)',
           \A i, j \in 1 .. Len(isr'.restart) : isr'.restart[i] = isr'.restart[j] => i = j,
           isr'.restart # <<>> => isr.restart # <<>>,
           ops' \in Seq(Op), Len(ops') <= OpQueueSize, OpsOK', StartsInv',
           OpsRemain,
           \A u \in Timers : Queued("stop", u)' <=> Queued("stop", u),
           \A u \in Timers : u # t /\ FirstOpIs("stop", u) => FirstOpIs("stop", u)',
           due' \in [Timers -> DueType \cup {None}],
           \A u \in Timers : u # t => due'[u] = due[u],
           due'[t] # None,
           due'[t].every = p,
           x <= Span,
           Elapsed + CompareOffset + Spare <= x + Delay,
           ~isr.update /\ t = isr.head => Compare <= x \/ Compare <= Elapsed + CompareOffset,
           ~Queued("stop", t) => /\ due'[t].left <= x - Elapsed
                                 /\ x - Elapsed <= due'[t].left + MaxLatency
                                 /\ ~rtcRunning => x - Elapsed <= due'[t].left + lag
    PROVE  IInv'
<1>1. /\ Types /\ NodesOK /\ OpsOK /\ BatchInv /\ ListInv /\ WalkInv
      /\ RunningInv /\ EveryInv /\ RestartInv /\ DistInv /\ StartsInv
      /\ ClockInv /\ WaitInv /\ HeadInv /\ UpdateInv
  BY DEF IInv
<1>2. InBatch /\ ~Walking /\ expired = None /\ \A u \in Timers : ~Expiring(u)
  BY Inserting
<1>3. InBatch' /\ ~Walking' /\ expired' = None /\ \A u \in Timers : ~Expiring(u)'
  BY <1>2 DEF InBatch, Walking, Expiring
<1>4. IsList(list, node) /\ counter \in Ticks /\ latest \in Ticks /\ None \notin Timers
  BY <1>1, NoneIsNothing DEF Types
<1>5. /\ Len(list) \in Nat /\ A \in [0 .. Len(list) -> Nat]
      /\ Elapsed \in Nat /\ lag \in Nat /\ Spare \in Nat /\ Spare = MaxLatency - lag
      /\ Compare \in Nat
      /\ MaxLatency \in Nat /\ CompareOffset \in Nat /\ CounterRange \in Nat /\ Delay \in Nat
      /\ \A i \in 1 .. Len(list) : list[i] \in Timers
  BY <1>1, Numbers, ConstantsAre DEF Places
<1>6. \A i \in 1 .. Len(list) : list[i] # t
  BY DEF Listed
<1>7. IsList(list, n1) /\ After(list, n1) = A
  <2>1. IsList(list, n1)
    BY <1>4 DEF IsList
  <2>2. \A i \in 1 .. Len(list) : node[list[i]].toExpire \in Nat /\ n1[list[i]].toExpire = node[list[i]].toExpire
    BY <1>4, <1>5, <1>6, AfterOfList
  <2>3. Len(list) \in Nat
    BY <1>5
  <2>4. After(list, n1) = After(list, node)
    <3>1. PICK m, n, l : m = n1 /\ n = node /\ l = list
      OBVIOUS
    <3>2. Len(l) \in Nat /\ \A i \in 1 .. Len(l) : n[l[i]].toExpire \in Nat /\ m[l[i]].toExpire = n[l[i]].toExpire
      BY <2>2, <2>3, <3>1
    <3>3. After(l, m) = After(l, n)
      BY ONLY <3>2, AfterKept
    <3> QED  BY <3>1, <3>3
  <2> QED  BY <2>1, <2>4 DEF A
<1>8. PICK lm, nm : lm = list' /\ nm = node'
  OBVIOUS
<1>9. IsInsert(list, n1, t, k, lm, nm) /\ A' = After(lm, nm)
  BY <1>8 DEF A
<1>10. n1[t].toExpire = x
  OBVIOUS
<1>11. /\ IsList(lm, nm) /\ Len(lm) = Len(list) + 1
       /\ \A u \in Timers : SameBut(nm[u], n1[u])
       /\ \A u \in Timers : u # t /\ (\A i \in 1 .. Len(list) : list[i] # u) => nm[u] = n1[u]
  BY <1>6, <1>7, <1>9, InsertKeeps
<1>12. \A j \in 1 .. Len(lm) :
         \/ lm[j] = t /\ After(lm, nm)[j] = x
         \/ \E i \in 1 .. Len(list) : lm[j] = list[i] /\ list[i] # t /\ After(lm, nm)[j] = A[i]
  <2>1. \A j \in 1 .. Len(lm) :
          \/ lm[j] = t /\ After(lm, nm)[j] = n1[t].toExpire
          \/ \E i \in 1 .. Len(list) : lm[j] = list[i] /\ list[i] # t /\ After(lm, nm)[j] = After(list, n1)[i]
    <3>1. IsList(list, n1) /\ IsInsert(list, n1, t, k, lm, nm)
      BY <1>7, <1>9
    <3> QED  BY <3>1, <1>6, InsertMap
  <2> QED  BY <2>1, <1>7, <1>10
<1>13. /\ \A i \in 1 .. Len(list) : \E j \in 1 .. Len(lm) : lm[j] = list[i]
       /\ \E j \in 1 .. Len(lm) : lm[j] = t
  <2>1. IsList(list, n1) /\ IsInsert(list, n1, t, k, lm, nm)
    BY <1>7, <1>9
  <2> QED  BY <2>1, <1>6, InsertMap
<1>14. /\ Len(lm) \in Nat /\ Len(lm) >= 1
       /\ \/ /\ lm[1] = t /\ After(lm, nm)[1] = x
             /\ \A i \in 1 .. Len(list) : A[i] >= x
          \/ /\ Len(list) >= 1 /\ lm[1] = list[1] /\ After(lm, nm)[1] = A[1]
             /\ A[1] < x
  BY <1>6, <1>7, <1>9, <1>10, InsertHead
<1>15. IsList(list', node')
  BY <1>8, <1>11
<1>16. ASSUME NEW u \in Timers PROVE Listed(u)' <=> Listed(u) \/ u = t
  <2>1. Listed(u)' <=> \E j \in 1 .. Len(lm) : lm[j] = u
    BY <1>8 DEF Listed
  <2>2. ASSUME NEW j \in 1 .. Len(lm), lm[j] = u PROVE Listed(u) \/ u = t
    BY <2>2, <1>12 DEF Listed
  <2>3. Listed(u) => \E j \in 1 .. Len(lm) : lm[j] = u
    <3> SUFFICES ASSUME Listed(u) PROVE \E j \in 1 .. Len(lm) : lm[j] = u
      OBVIOUS
    <3>1. PICK i \in 1 .. Len(list) : list[i] = u
      BY DEF Listed
    <3> QED  BY <3>1, <1>13
  <2>4. u = t => \E j \in 1 .. Len(lm) : lm[j] = u
    BY <1>13
  <2> QED  BY <2>1, <2>2, <2>3, <2>4
<1>17. /\ \A u \in Timers : u # t => SameBut(node'[u], node[u])
       /\ node'[t].atStart = 0 /\ node'[t].first = 0 /\ node'[t].periodic = p /\ node'[t].isRunning
  <2>1. /\ \A u \in Timers : u # t => SameBut(nm[u], node[u])
    BY <1>11
  <2>2. SameBut(nm[t], n1[t])
    BY <1>11
  <2> QED  BY <2>1, <2>2, <1>8 DEF SameBut
<1>18. Elapsed' = Elapsed /\ Compare' = Compare /\ Spare' = Spare
  BY DEF Elapsed, Compare, Spare
<1>t. Types'
  BY <1>1, <1>15 DEF Types
<1>z. NodesOK'
  <2> SUFFICES ASSUME NEW u \in Timers
               PROVE  /\ node'[u].atStart \in Ticks
                      /\ node'[u].first \in Timeouts[u] \cup {0}
                      /\ node'[u].periodic \in Timeouts[u] \cup {0}
                      /\ ~Listed(u)' => node'[u].toExpire \in Ticks
    BY DEF NodesOK
  <2>1. 0 \in Ticks
    BY RangeIs
  <2>2. CASE u = t
    BY <2>1, <2>2, <1>16, <1>17
  <2>3. CASE u # t
    <3>1. ~Listed(u)' => node'[u] = node[u] /\ ~Listed(u)
      BY <2>3, <1>8, <1>11, <1>16 DEF Listed
    <3>2. SameBut(node'[u], node[u])
      BY <2>3, <1>17
    <3> QED  BY <3>1, <3>2, <1>1 DEF NodesOK, SameBut
  <2> QED  BY <2>2, <2>3
<1>b. BatchInv'
  BY <1>1, <1>2, <1>3 DEF BatchInv
<1>l. ListInv'
  <2> SUFFICES ASSUME NEW j \in 1 .. Len(lm)
               PROVE  /\ After(lm, nm)[j] <= Span
                      /\ lm[j] \in Repeated => nm[lm[j]].periodic \in Timeouts[lm[j]]
                      /\ lm[j] \notin Repeated => nm[lm[j]].periodic = 0
    BY <1>8, <1>9, <1>18 DEF ListInv, Places
  <2>1. CASE lm[j] = t /\ After(lm, nm)[j] = x
    BY <2>1, <1>8, <1>17
  <2>2. ASSUME NEW i \in 1 .. Len(list), lm[j] = list[i], list[i] # t, After(lm, nm)[j] = A[i]
        PROVE  /\ After(lm, nm)[j] <= Span
               /\ lm[j] \in Repeated => nm[lm[j]].periodic \in Timeouts[lm[j]]
               /\ lm[j] \notin Repeated => nm[lm[j]].periodic = 0
    <3>1. nm[list[i]].periodic = node[list[i]].periodic
      BY <2>2, <1>5, <1>8, <1>17 DEF SameBut
    <3> QED  BY <3>1, <2>2, <1>1 DEF ListInv, Places
  <2> QED  BY <2>1, <2>2, <1>12
<1>w. WalkInv'
  BY <1>3 DEF WalkInv
<1>r. RunningInv'
  <2> SUFFICES ASSUME NEW u \in Timers
               PROVE  /\ node'[u].isRunning => Listed(u)' /\ due'[u] # None
                      /\ Listed(u)' /\ ~node'[u].isRunning => FirstOpIs("stop", u)'
                      /\ due'[u] # None /\ ~node'[u].isRunning => FirstOpIs("stop", u)' \/ Restarting(u)'
                      /\ Listed(u)' /\ u \in Repeated => due'[u] # None
    BY <1>3 DEF RunningInv
  <2>1. CASE u = t
    BY <2>1, <1>16, <1>17
  <2>2. CASE u # t
    <3>1. /\ node[u].isRunning => Listed(u) /\ due[u] # None
          /\ Listed(u) /\ ~node[u].isRunning => FirstOpIs("stop", u)
          /\ due[u] # None /\ ~node[u].isRunning => FirstOpIs("stop", u) \/ Restarting(u)
          /\ Listed(u) /\ u \in Repeated => due[u] # None
      BY <1>1, <1>2 DEF RunningInv
    <3>2. (node'[u].isRunning <=> node[u].isRunning) /\ due'[u] = due[u] /\ (Listed(u)' <=> Listed(u))
      BY <2>2, <1>16, <1>17 DEF SameBut
    <3>3. /\ FirstOpIs("stop", u) => FirstOpIs("stop", u)'
          /\ Restarting(u) => Restarting(u)'
      BY <2>2
    <3> QED  BY <3>1, <3>2, <3>3
  <2> QED  BY <2>1, <2>2
<1>e. EveryInv'
  <2>1. ASSUME NEW u \in Timers, u # t, due'[u] # None PROVE due'[u].every = node'[u].periodic
    <3>1. due'[u] = due[u] /\ node'[u].periodic = node[u].periodic
      BY <2>1, <1>17 DEF SameBut
    <3> QED  BY <3>1, <2>1, <1>1 DEF EveryInv
  <2>2. ASSUME NEW u \in Timers, u # t, due'[u] # None
        PROVE  /\ u \in Repeated => due'[u].every \in Timeouts[u]
               /\ u \notin Repeated => due'[u].every = 0
    <3>1. due'[u] = due[u]
      BY <2>2
    <3> QED  BY <3>1, <2>2, <1>1 DEF EveryInv
  <2>3. due'[t].every = node'[t].periodic
    BY <1>17
  <2>4. (t \in Repeated => due'[t].every \in Timeouts[t]) /\ (t \notin Repeated => due'[t].every = 0)
    OBVIOUS
  <2> QED  BY <2>1, <2>2, <2>3, <2>4 DEF EveryInv
<1>s. RestartInv'
  <2>1. ASSUME NEW u \in Timers, Restarting(u)' PROVE RestartOK(u)'
    <3>1. u # t /\ Restarting(u) /\ RestartOK(u)
      BY <2>1, <1>1 DEF RestartInv
    <3>2. due'[u] = due[u] /\ (Queued("stop", u)' <=> Queued("stop", u)) /\ (Listed(u)' <=> Listed(u))
      BY <3>1, <1>16
    <3>3. /\ (node'[u].isRunning <=> node[u].isRunning)
          /\ node'[u].first = node[u].first /\ node'[u].periodic = node[u].periodic
          /\ node'[u].atStart = node[u].atStart
      BY <3>1, <1>17 DEF SameBut
    <3>4. SinceTimeout(u)' = SinceTimeout(u)
      BY <3>3 DEF SinceTimeout
    <3> QED  BY <3>1, <3>2, <3>3, <3>4, <1>18 DEF RestartOK, Late, Delay
  <2> QED  BY <2>1, <1>1 DEF RestartInv
<1>d. DistInv'
  <2> SUFFICES ASSUME NEW j \in 1 .. Len(lm), NEW u, u = lm[j], ~Queued("stop", u)', due'[u] # None
               PROVE  /\ Base(u)' <= A'[j] - Elapsed
                      /\ A'[j] - Elapsed <= Base(u)' + MaxLatency
                      /\ ~rtcRunning => A'[j] - Elapsed <= Base(u)' + lag
    <3>1. /\ rtcRunning' = rtcRunning /\ lag' = lag /\ list' = lm
      BY <1>8
    <3> QED  BY <3>1, <1>18 DEF DistInv, Places
  <2>1. CASE lm[j] = t /\ A'[j] = x
    <3>1. Base(t)' = due'[t].left /\ u = t
      BY <2>1, <1>17 DEF Base
    <3> QED  BY <3>1, <2>1
  <2>2. ASSUME NEW i \in 1 .. Len(list), lm[j] = list[i], list[i] # t, A'[j] = A[i]
        PROVE  /\ Base(u)' <= A'[j] - Elapsed
               /\ A'[j] - Elapsed <= Base(u)' + MaxLatency
               /\ ~rtcRunning => A'[j] - Elapsed <= Base(u)' + lag
    <3>1. u = list[i] /\ u \in Timers /\ u # t
      BY <2>2, <1>5
    <3>2. Base(u)' = Base(u)
      BY <3>1, <1>17 DEF Base, SameBut
    <3>3. ~Queued("stop", u) /\ due[u] # None
      BY <3>1
    <3> QED  BY <3>1, <3>2, <3>3, <2>2, <1>1 DEF DistInv, Places
  <2> QED  BY <2>1, <2>2, <1>9, <1>12
<1>c. ClockInv'
  BY <1>1, <1>3, <1>18 DEF ClockInv
<1>v. WaitInv'
  BY <1>3 DEF WaitInv
<1>h. HeadInv'
  <2> SUFFICES ASSUME ~isr.update
               PROVE  /\ rtcRunning <=> isr.head # None
                      /\ isr.head # None =>
                           /\ Elapsed < Compare + lag
                           /\ ~rtcPending => Elapsed < Compare
                           /\ \A i \in 1 .. Len(ops') : ops'[i].type = "start" /\ ops'[i].timer = isr.head /\ Takes(i)' =>
                                \/ Compare <= Elapsed - ops'[i].age + ops'[i].ticks
                                \/ Compare <= Elapsed + CompareOffset
                      /\ HeadOf(lm) = isr.head => CmpBound'
                      /\ HeadOf(lm) # isr.head => FreshInv'
    BY <1>8, <1>18 DEF HeadInv
  <2>1. /\ rtcRunning <=> isr.head # None
        /\ isr.head # None =>
             /\ Elapsed < Compare + lag
             /\ ~rtcPending => Elapsed < Compare
             /\ \A i \in 1 .. Len(ops) : ops[i].type = "start" /\ ops[i].timer = isr.head /\ Takes(i) =>
                  \/ Compare <= Elapsed - ops[i].age + ops[i].ticks
                  \/ Compare <= Elapsed + CompareOffset
        /\ list # <<>> /\ HeadOf(list) = isr.head => CmpBound
        /\ list # <<>> /\ HeadOf(list) # isr.head => FreshInv
    BY <1>1 DEF HeadInv
  <2>2. ASSUME NEW i \in 1 .. Len(ops'), ops'[i].type = "start", ops'[i].timer = isr.head, isr.head # None, Takes(i)'
        PROVE  \/ Compare <= Elapsed - ops'[i].age + ops'[i].ticks
               \/ Compare <= Elapsed + CompareOffset
    <3>1. PICK j \in 1 .. Len(ops) : ops'[i] = ops[j] /\ Takes(j)
      BY <2>2 DEF OpsRemain
    <3> QED  BY <3>1, <2>1, <2>2
  <2>3. HeadOf(lm) = lm[1] /\ 1 \in 1 .. Len(lm)
    BY <1>11, <1>14, HeadIs
  <2>4. Elapsed + CompareOffset + Spare <= x + Delay
    OBVIOUS
  <2>5. ASSUME FreshInv \/ \A i \in 1 .. Len(list) : A[i] >= x PROVE FreshInv'
    <3>1. ASSUME NEW j \in 1 .. Len(lm) PROVE Elapsed + CompareOffset + Spare <= After(lm, nm)[j] + Delay
      <4>1. CASE lm[j] = t /\ After(lm, nm)[j] = x
        BY <4>1, <2>4
      <4>2. ASSUME NEW i \in 1 .. Len(list), After(lm, nm)[j] = A[i]
            PROVE  Elapsed + CompareOffset + Spare <= After(lm, nm)[j] + Delay
        <5>1. A[i] \in Nat
          <6>1. i \in 0 .. Len(list)
            BY <1>5
          <6> QED  BY <6>1, <1>5
        <5>2. CASE FreshInv
          BY <5>2, <4>2 DEF FreshInv, Places
        <5>3. CASE A[i] >= x
          BY <5>1, <5>3, <4>2, <2>4, <1>5
        <5> QED  BY <5>2, <5>3, <2>5
      <4> QED  BY <4>1, <4>2, <1>12
    <3> QED  BY <3>1, <1>8, <1>9, <1>18 DEF FreshInv, Places
  <2>6. ASSUME NEW y \in Int, Bounded(list, node, y), y <= x + Delay PROVE Bounded(lm, nm, y)
    <3>1. Bounded(list, n1, y)
      BY <2>6, <1>7 DEF Bounded, A
    <3>2. y <= n1[t].toExpire + Delay
      BY <2>6, <1>5, <1>10
    <3> QED  BY <3>1, <3>2, <1>6, <1>7, <1>9, BoundedInsert
  <2>7. CASE lm[1] = t /\ After(lm, nm)[1] = x /\ \A i \in 1 .. Len(list) : A[i] >= x
    <3>1. ASSUME t = isr.head PROVE CmpBound'
      <4>1. Compare <= x \/ Compare <= Elapsed + CompareOffset
        BY <3>1
      <4>5. PICK c \in Nat, e \in Nat, o \in Nat, p1 \in Nat, y \in Nat :
               c = Compare /\ e = Elapsed /\ o = CompareOffset /\ p1 = Spare /\ y = Delay
        BY <1>5
      <4>6. (c <= x \/ c <= e + o) /\ e + o + p1 <= x + y /\ x \in Nat
        BY <4>1, <4>5, <2>4
      <4>7. c <= x + y
        BY ONLY <4>6
      <4>2. Bounded(list, node, Compare)
        <5> SUFFICES ASSUME NEW i \in 1 .. Len(list) PROVE Compare <= A[i] + Late(i)
          BY DEF Bounded, A
        <5>1. A[i] \in Nat
          <6>1. i \in 0 .. Len(list)
            BY <1>5
          <6> QED  BY <6>1, <1>5
        <5>2. Late(i) \in Nat /\ Late(i) >= Delay
          BY <1>4, LateOf
        <5>3. A[i] >= x
          BY <2>7
        <5>4. PICK a \in Nat, l \in Nat : a = A[i] /\ l = Late(i)
          BY <5>1, <5>2
        <5>5. c <= x + y /\ x <= a /\ y <= l /\ x \in Nat
          BY <5>2, <5>3, <5>4, <4>5, <4>7
        <5>6. c <= a + l
          BY ONLY <5>5
        <5> QED  BY <5>4, <5>6, <4>5
      <4>3. Bounded(lm, nm, Compare)
        BY <4>2, <4>5, <4>7, <2>6
      <4>4. Compare <= After(lm, nm)[1] \/ Compare <= Elapsed + CompareOffset
        BY <4>1, <2>7
      <4> QED  BY <4>3, <4>4, <1>8, <1>9, <1>18 DEF CmpBound
    <3>2. FreshInv'
      BY <2>5, <2>7
    <3> QED  BY <3>1, <3>2, <2>1, <2>2, <2>3, <2>7
  <2>8. CASE Len(list) >= 1 /\ lm[1] = list[1] /\ After(lm, nm)[1] = A[1] /\ A[1] < x
    <3>1. list # <<>> /\ HeadOf(list) = list[1]
      <4>1. list # <<>>
        BY <2>8
      <4> QED  BY <4>1 DEF HeadOf
    <3>2. A[1] \in Nat
      <4>1. 1 \in 0 .. Len(list)
        BY <2>8, <1>5
      <4> QED  BY <4>1, <1>5
    <3>3. ASSUME CmpBound PROVE CmpBound'
      <4>1. Bounded(list, node, Compare) /\ (Compare <= A[1] \/ Compare <= Elapsed + CompareOffset)
        BY <3>3 DEF CmpBound
      <4>2. Compare <= x + Delay
        <5>1. PICK c \in Nat, e \in Nat, o \in Nat, p1 \in Nat, y \in Nat, a \in Nat :
                 /\ c = Compare /\ e = Elapsed /\ o = CompareOffset /\ p1 = Spare /\ y = Delay
                 /\ a = A[1]
          BY <1>5, <3>2
        <5>2. (c <= a \/ c <= e + o) /\ e + o + p1 <= x + y /\ a < x /\ x \in Nat
          BY <4>1, <5>1, <2>4, <2>8
        <5>3. c <= x + y
          BY ONLY <5>2
        <5> QED  BY <5>1, <5>3
      <4>3. Bounded(lm, nm, Compare)
        BY <4>1, <4>2, <2>6, <1>5
      <4>4. Compare <= After(lm, nm)[1] \/ Compare <= Elapsed + CompareOffset
        BY <4>1, <2>8
      <4> QED  BY <4>3, <4>4, <1>8, <1>9, <1>18 DEF CmpBound
    <3> QED  BY <3>1, <3>3, <2>1, <2>2, <2>3, <2>5, <2>8
  <2> QED  BY <2>7, <2>8, <1>14
<1>u. UpdateInv'
  <2>1. ASSUME isr.update PROVE UpInv'
    <3>1. Bounded(list, node, Elapsed + CompareOffset + Spare)
      BY <2>1, <1>1 DEF UpdateInv, UpInv
    <3>2. Bounded(list, n1, Elapsed + CompareOffset + Spare)
      BY <3>1, <1>7 DEF Bounded, A
    <3>3. PICK y \in Int : y = Elapsed + CompareOffset + Spare
      BY <1>5
    <3>4. Bounded(list, n1, y) /\ y <= n1[t].toExpire + Delay
      BY <3>2, <3>3, <2>1
    <3>5. Bounded(lm, nm, y)
      BY <3>4, <1>6, <1>7, <1>9, BoundedInsert
    <3> QED  BY <3>3, <3>5, <1>8, <1>18 DEF UpInv
  <2> QED  BY <2>1 DEF UpdateInv
<1> QED  BY <1>t, <1>z, <1>b, <1>l, <1>w, <1>r, <1>e, <1>s, <1>d, <1>c, <1>v, <1>h, <1>u DEF IInv

\* What the timeouts of a timer have room for.
LEMMA TimeoutFits ==
    ASSUME NEW t \in Timers, NEW d \in Timeouts[t]
    PROVE  /\ d \in Nat /\ d >= 1 /\ Late(1) \in Nat /\ Span \in Int
           /\ d + HalfRange <= CounterRange - MaxLatency - Late(1)
           /\ Span = CounterRange - MaxLatency - Late(1) - 1
           /\ d + HalfRange - 1 <= Span
           /\ t \in Repeated => d > Late(1) + MaxLatency
<1>1. d \in Nat /\ d >= 1
  BY TimerAssumption
<1>2. /\ CounterRange \in Nat /\ MaxLatency \in Nat /\ HalfRange \in Nat /\ Cardinality(Timers) \in Nat
      /\ IsFiniteSet(Timers)
  BY ConstantsAre, TimingAssumption DEF TimesFit
<1>3. Cardinality(Timers) # 0
  BY <1>2, FS_EmptySet
<1>4. Late(1) \in Nat
  <2>1. 1 \in 1 .. Cardinality(Timers)
    BY <1>2, <1>3
  <2> QED  BY <2>1, LateIs
<1>5. /\ d + HalfRange - 1 <= Span
      /\ t \in Repeated => d > Late(1) + MaxLatency
  BY TimingAssumption DEF TimesFit
<1>6. Span = CounterRange - MaxLatency - Late(1) - 1
  BY DEF Span
<1>7. Span \in Int /\ d + HalfRange <= CounterRange - MaxLatency - Late(1)
  BY <1>1, <1>2, <1>4, <1>5, <1>6
<1> QED  BY <1>1, <1>4, <1>5, <1>6, <1>7

\* The two ways around the counter.
LEMMA DiffBack ==
    ASSUME NEW at \in Ticks, NEW old \in Ticks
    PROVE  /\ ticks_diff_get(at, old) = 0 => ticks_diff_get(old, at) = 0
           /\ ticks_diff_get(at, old) > 0 => ticks_diff_get(old, at) = CounterRange - ticks_diff_get(at, old)
           /\ ticks_diff_get(at, old) \in Nat /\ ticks_diff_get(at, old) < CounterRange
           /\ ticks_diff_get(old, at) \in Nat /\ ticks_diff_get(old, at) < CounterRange
<1>1. ticks_diff_get(old, old) = 0
  BY DiffZero
<1>2. /\ ticks_diff_get(at, old) \in Nat /\ ticks_diff_get(at, old) < CounterRange
      /\ ticks_diff_get(old, at) \in Nat /\ ticks_diff_get(old, at) < CounterRange
      /\ CounterRange \in Nat
  BY DiffIs, RangeIs
<1>3. /\ ticks_diff_get(at, old) <= 0 => ticks_diff_get(old, at) = 0 - ticks_diff_get(at, old)
      /\ ticks_diff_get(at, old) > 0 =>
           ticks_diff_get(old, at) = 0 - ticks_diff_get(at, old) + CounterRange
  BY <1>1, DiffDiff
<1> QED  BY <1>2, <1>3

\* A repeated timer that expired before latest gets what is left of its period.
LEMMA RestartTicks ==
    ASSUME latest \in Ticks, NEW at \in Ticks, NEW t \in Timers, t \in Repeated,
           NEW d \in Timeouts[t], ticks_diff_get(latest, at) <= Late(1) + MaxLatency
    PROVE  /\ ticks_to_expire(at, d) = d - ticks_diff_get(latest, at)
           /\ d - ticks_diff_get(latest, at) \in Nat /\ ticks_diff_get(latest, at) \in Nat
<1> DEFINE w == ticks_diff_get(latest, at)
           f == ticks_diff_get(at, latest)
<1>1. /\ d \in Nat /\ Late(1) \in Nat /\ d > Late(1) + MaxLatency
      /\ d + HalfRange <= CounterRange - MaxLatency - Late(1)
  BY TimeoutFits
<1>2. CounterRange \in Nat /\ MaxLatency \in Nat /\ HalfRange \in Nat /\ HalfRange >= 1
  BY ConstantsAre
<1>3. /\ f = 0 => w = 0
      /\ f > 0 => w = CounterRange - f
      /\ f \in Nat /\ f < CounterRange /\ w \in Nat /\ w < CounterRange
  BY DiffBack
<1>4. w <= Late(1) + MaxLatency
  OBVIOUS
<1>5. ticks_to_expire(at, d) = IF f < HalfRange THEN f + d ELSE IF d > w THEN d - w ELSE 0
  BY DEF ticks_to_expire
<1> HIDE DEF w, f
<1>6. d > w
  BY <1>1, <1>2, <1>3, <1>4
<1>7. CASE f = 0
  <2>1. w = 0 /\ f < HalfRange
    BY <1>2, <1>3, <1>7
  <2>2. ticks_to_expire(at, d) = d - w
    BY <2>1, <1>1, <1>5, <1>7
  <2> QED  BY <2>2, <1>1, <1>3, <1>6 DEF w
<1>8. CASE f > 0
  <2>1. ~(f < HalfRange)
    BY <1>1, <1>2, <1>3, <1>4, <1>8
  <2>2. ticks_to_expire(at, d) = d - w
    BY <2>1, <1>5, <1>6
  <2> QED  BY <2>2, <1>1, <1>3, <1>6 DEF w
<1> QED  BY <1>3, <1>7, <1>8 DEF w

\* A start that waited age ticks gets the timeout less the age, or nothing if that was
\* over before the last interrupt.
LEMMA StartTicks ==
    ASSUME latest \in Ticks, counter \in Ticks, NEW at \in Ticks, NEW t \in Timers,
           NEW d \in Timeouts[t], NEW age \in Nat, age = ticks_diff_get(counter, at), age <= MaxLatency,
           Elapsed - age < HalfRange
    PROVE  /\ Elapsed - age + d >= 0 => ticks_to_expire(at, d) = Elapsed - age + d
           /\ Elapsed - age + d < 0 => ticks_to_expire(at, d) = 0
<1> DEFINE w == ticks_diff_get(latest, at)
           f == ticks_diff_get(at, latest)
           e == ticks_diff_get(counter, latest)
<1>1. /\ d \in Nat /\ Late(1) \in Nat
      /\ d + HalfRange <= CounterRange - MaxLatency - Late(1)
  BY TimeoutFits
<1>2. CounterRange \in Nat /\ MaxLatency \in Nat /\ HalfRange \in Nat /\ CompareOffset \in Nat /\ CompareOffset >= 1
  BY ConstantsAre
<1>3. /\ f = 0 => w = 0
      /\ f > 0 => w = CounterRange - f
      /\ f \in Nat /\ f < CounterRange /\ w \in Nat /\ w < CounterRange
  BY DiffBack
<1>4. /\ f <= e => age = e - f
      /\ f > e => age = e - f + CounterRange
      /\ e \in Nat
  BY DiffDiff, DiffIs, RangeIs
<1>5. ticks_to_expire(at, d) = IF f < HalfRange THEN f + d ELSE IF d > w THEN d - w ELSE 0
  BY DEF ticks_to_expire
<1>6. e - age < HalfRange /\ Elapsed = e
  BY DEF Elapsed
<1> HIDE DEF w, f, e
<1>7. CASE f <= e
  <2>1. f = e - age /\ f < HalfRange
    BY <1>3, <1>4, <1>6, <1>7
  <2>2. ticks_to_expire(at, d) = f + d /\ f + d = e - age + d /\ f + d >= 0
    BY <2>1, <1>1, <1>3, <1>4, <1>5
  <2>3. e \in Nat /\ Elapsed = e /\ age \in Nat /\ d \in Nat /\ f \in Nat
    BY <1>1, <1>3, <1>4, <1>6
  <2> QED  BY ONLY <2>2, <2>3
<1>8. CASE f > e
  <2>1. w = age - e /\ f = e - age + CounterRange
    BY <1>2, <1>3, <1>4, <1>8
  <2>2. ~(f < HalfRange)
    BY <2>1, <1>1, <1>2, <1>3, <1>4
  <2>3. ticks_to_expire(at, d) = IF d > w THEN d - w ELSE 0
    BY <2>2, <1>5
  <2>4. d - w = e - age + d
    BY <2>1, <1>1, <1>4
  <2> QED  BY <2>3, <2>4, <1>1, <1>3, <1>6
<1> QED  BY <1>3, <1>4, <1>7, <1>8

\* What Inserted does.
LEMMA InsertedIs ==
    ASSUME NEW n \in [Timers -> Node], IsList(list, n), NEW t \in Timers, NEW x \in Nat,
           x = ticks_to_expire(n[t].atStart, n[t].first)
    PROVE  \E n1, k :
             /\ n1 \in [Timers -> Node]
             /\ n1[t] = [toExpire |-> x, atStart |-> 0, first |-> 0, periodic |-> n[t].periodic, isRunning |-> TRUE]
             /\ \A u \in Timers : u # t => n1[u] = n[u]
             /\ IsInsert(list, n1, t, k, Inserted(n, t).list, Inserted(n, t).node)
<1> DEFINE v == [toExpire |-> x, atStart |-> 0, first |-> 0, periodic |-> n[t].periodic, isRunning |-> TRUE]
           n1 == [n EXCEPT ![t].toExpire = ticks_to_expire(n[t].atStart, n[t].first),
                           ![t].atStart = 0, ![t].first = 0, ![t].isRunning = TRUE]
<1>1. n[t] \in Node
  OBVIOUS
<1>2. n1 = [n EXCEPT ![t] = v]
  <2> DEFINE v1 == [n[t] EXCEPT !.toExpire = x]
             v2 == [v1 EXCEPT !.atStart = 0]
             v3 == [v2 EXCEPT !.first = 0]
             m1 == [n EXCEPT ![t].toExpire = x]
             m2 == [m1 EXCEPT ![t].atStart = 0]
             m3 == [m2 EXCEPT ![t].first = 0]
  <2>1. m1 = [n EXCEPT ![t] = v1]
    OBVIOUS
  <2>2. v1 \in Node /\ v1.toExpire = x /\ v1.periodic = n[t].periodic
    BY <1>1 DEF Node
  <2> HIDE DEF v1
  <2>3. m2 = [n EXCEPT ![t] = v2]
    BY <2>1
  <2>4. v2 \in Node /\ v2.toExpire = x /\ v2.periodic = n[t].periodic /\ v2.atStart = 0
    BY <2>2 DEF Node
  <2> HIDE DEF v2, m1
  <2>5. m3 = [n EXCEPT ![t] = v3]
    BY <2>3
  <2>6. v3 \in Node /\ v3.toExpire = x /\ v3.periodic = n[t].periodic /\ v3.atStart = 0 /\ v3.first = 0
    BY <2>4 DEF Node
  <2> HIDE DEF v3, m2
  <2>7. [m3 EXCEPT ![t].isRunning = TRUE] = [n EXCEPT ![t] = [v3 EXCEPT !.isRunning = TRUE]]
    BY <2>5
  <2>8. [v3 EXCEPT !.isRunning = TRUE] = v
    <3>1. v3 = [toExpire |-> x, atStart |-> 0, first |-> 0, periodic |-> n[t].periodic, isRunning |-> v3.isRunning]
      BY <2>6 DEF Node
    <3>2. [v3 EXCEPT !.isRunning = TRUE].toExpire = x /\ [v3 EXCEPT !.isRunning = TRUE].atStart = 0
      BY <2>6 DEF Node
    <3>3. [v3 EXCEPT !.isRunning = TRUE].first = 0 /\ [v3 EXCEPT !.isRunning = TRUE].periodic = n[t].periodic
      BY <2>6 DEF Node
    <3>4. [v3 EXCEPT !.isRunning = TRUE].isRunning = TRUE /\ [v3 EXCEPT !.isRunning = TRUE] \in Node
      BY <2>6 DEF Node
    <3>5. \A y \in Node : y = [toExpire |-> y.toExpire, atStart |-> y.atStart, first |-> y.first,
                              periodic |-> y.periodic, isRunning |-> y.isRunning]
      BY DEF Node
    <3> HIDE DEF v3
    <3> QED  BY <3>2, <3>3, <3>4, <3>5
  <2> HIDE DEF m3
  <2>9. n1 = [m3 EXCEPT ![t].isRunning = TRUE]
    BY DEF m1, m2, m3
  <2> QED  BY <2>7, <2>8, <2>9
<1>3. v \in Node
  BY <1>1 DEF Node
<1>4. Inserted(n, t) = timer_list_insert(list, n1, t)
  BY DEF Inserted
<1> HIDE DEF n1, v
<1>5. n1 \in [Timers -> Node] /\ n1[t] = v /\ \A u \in Timers : u # t => n1[u] = n[u]
  BY <1>2, <1>3
<1>6. IsList(list, n1)
  BY <1>5 DEF IsList
<1>7. PICK k : IsInsert(list, n1, t, k, timer_list_insert(list, n1, t).list, timer_list_insert(list, n1, t).node)
  BY <1>6, InsertIs
<1> QED  BY <1>4, <1>5, <1>7 DEF v

\* What a sequence without repetitions is without its head.
LEMMA TailIs ==
    ASSUME NEW S, NEW s \in Seq(S), s # <<>>, \A i, j \in 1 .. Len(s) : s[i] = s[j] => i = j
    PROVE  /\ Tail(s) \in Seq(S) /\ Head(s) \in S /\ 1 \in 1 .. Len(s) /\ Head(s) = s[1]
           /\ \A i \in 1 .. Len(Tail(s)) : \E j \in 1 .. Len(s) : Tail(s)[i] = s[j] /\ s[j] # Head(s)
           /\ \A j \in 1 .. Len(s) : s[j] # Head(s) => \E i \in 1 .. Len(Tail(s)) : Tail(s)[i] = s[j]
           /\ \A i, j \in 1 .. Len(Tail(s)) : Tail(s)[i] = Tail(s)[j] => i = j
<1>1. /\ Tail(s) \in Seq(S) /\ Len(Tail(s)) = Len(s) - 1 /\ Len(s) \in Nat
      /\ 1 \in 1 .. Len(s) /\ Head(s) = s[1] /\ s[1] \in S
  OBVIOUS
<1>2. \A i \in 1 .. Len(Tail(s)) : i + 1 \in 1 .. Len(s) /\ i + 1 # 1 /\ Tail(s)[i] = s[i + 1]
  BY <1>1
<1>3. \A j \in 1 .. Len(s) : j = 1 \/ (j - 1 \in 1 .. Len(Tail(s)) /\ Tail(s)[j - 1] = s[j])
  BY <1>1
<1>4. \A i \in 1 .. Len(Tail(s)) : s[i + 1] # s[1]
  BY <1>1, <1>2
<1>5. ASSUME NEW i \in 1 .. Len(Tail(s)), NEW j \in 1 .. Len(Tail(s)), Tail(s)[i] = Tail(s)[j] PROVE i = j
  <2>1. i + 1 = j + 1
    BY <1>2, <1>5
  <2>2. i \in Nat /\ j \in Nat
    BY <1>1
  <2> QED  BY <2>1, <2>2
<1>6. \A i \in 1 .. Len(Tail(s)) : \E j \in 1 .. Len(s) : Tail(s)[i] = s[j] /\ s[j] # Head(s)
  BY <1>1, <1>2, <1>4
<1>7. \A j \in 1 .. Len(s) : s[j] # Head(s) => \E i \in 1 .. Len(Tail(s)) : Tail(s)[i] = s[j]
  BY <1>1, <1>3
<1> QED  BY <1>1, <1>5, <1>6, <1>7

\* A repeated timer that expired enters the list again.
LEMMA SwiRestartKeeps ==
    ASSUME IInv, SwiRestart
    PROVE  IInv'
<1>1. /\ Types /\ NodesOK /\ OpsOK /\ RestartInv /\ EveryInv /\ StartsInv
  BY DEF IInv
<1>2. /\ UNCHANGED <<counter, cc, rtcRunning, rtcPending, swiPending, latest, expired, rtcReset, ops, lag, due>>
      /\ isr.pc = "insert" /\ isr.restart # <<>> /\ isr' = [isr EXCEPT !.restart = Tail(@)]
  BY DEF SwiRestart, hw
<1>3. isr \in InsertType /\ isr.restart \in Seq(Timers) /\ isr.head \in Timers \cup {None}
  BY <1>1, <1>2, IsrCases DEF Types
<1>4. /\ isr.update /\ rtcRunning
      /\ \A i, j \in 1 .. Len(isr.restart) : isr.restart[i] = isr.restart[j] => i = j
  BY <1>1, <1>2 DEF RestartInv
<1>5. PICK t : t = Head(isr.restart)
  OBVIOUS
<1>6. /\ Tail(isr.restart) \in Seq(Timers) /\ t \in Timers /\ 1 \in 1 .. Len(isr.restart) /\ t = isr.restart[1]
      /\ \A i \in 1 .. Len(Tail(isr.restart)) :
            \E j \in 1 .. Len(isr.restart) : Tail(isr.restart)[i] = isr.restart[j] /\ isr.restart[j] # t
  BY <1>2, <1>3, <1>4, <1>5, TailIs
<1>7. \A j \in 1 .. Len(isr.restart) : isr.restart[j] # t =>
            \E i \in 1 .. Len(Tail(isr.restart)) : Tail(isr.restart)[i] = isr.restart[j]
  BY <1>2, <1>3, <1>4, <1>5, TailIs
<1>8. \A i, j \in 1 .. Len(Tail(isr.restart)) : Tail(isr.restart)[i] = Tail(isr.restart)[j] => i = j
  BY <1>2, <1>3, <1>4, TailIs
<1>9. /\ isr'.pc = "insert" /\ (isr'.update <=> isr.update) /\ isr'.head = isr.head
      /\ isr'.restart = Tail(isr.restart)
      /\ isr' \in IsrType
  BY <1>2, <1>3, <1>6 DEF InsertType, IsrType
<1>10. Restarting(t)
  BY <1>2, <1>6 DEF Restarting
<1>11. /\ \A u \in Timers : Restarting(u)' => Restarting(u) /\ u # t
       /\ \A u \in Timers : u # t /\ Restarting(u) => Restarting(u)'
  <2>1. PICK r, tl : r = isr.restart /\ tl = Tail(isr.restart)
    OBVIOUS
  <2>2. \A u : Restarting(u) <=> \E i \in 1 .. Len(r) : r[i] = u
    BY <2>1, <1>2 DEF Restarting
  <2>3. \A u : Restarting(u)' <=> \E i \in 1 .. Len(tl) : tl[i] = u
    BY <2>1, <1>9 DEF Restarting
  <2>4. /\ \A i \in 1 .. Len(tl) : \E j \in 1 .. Len(r) : tl[i] = r[j] /\ r[j] # t
        /\ \A j \in 1 .. Len(r) : r[j] # t => \E i \in 1 .. Len(tl) : tl[i] = r[j]
    BY <1>6, <1>7, <2>1
  <2>5. \A u \in Timers : Restarting(u)' => Restarting(u) /\ u # t
    BY <2>2, <2>3, <2>4
  <2>6. \A u \in Timers : u # t /\ Restarting(u) => Restarting(u)'
    BY <2>2, <2>3, <2>4
  <2> QED  BY <2>5, <2>6
<1>12. RestartOK(t)
  BY <1>1, <1>6, <1>10 DEF RestartInv
<1>13. PICK w, p : w = SinceTimeout(t) /\ p = node[t].periodic
  OBVIOUS
<1>14. /\ t \in Repeated /\ ~Listed(t) /\ due[t] # None
       /\ node[t].first = p /\ p \in Timeouts[t]
       /\ w <= Late(1) + MaxLatency
       /\ Elapsed + CompareOffset + Spare <= p - w + Delay
       /\ ~Queued("stop", t) => /\ due[t].left <= p - w - Elapsed
                                /\ p - w - Elapsed <= due[t].left + MaxLatency
  BY <1>12, <1>13 DEF RestartOK
<1>15. IsList(list, node) /\ latest \in Ticks /\ counter \in Ticks /\ node \in [Timers -> Node]
       /\ node[t].atStart \in Ticks
  BY <1>1, <1>6 DEF Types, IsList, NodesOK
<1>16. ticks_to_expire(node[t].atStart, p) = p - w /\ p - w \in Nat /\ w \in Nat
  BY <1>6, <1>13, <1>14, <1>15, RestartTicks DEF SinceTimeout
<1>17. PICK x \in Nat : x = p - w
  BY <1>16
<1>18. PICK n1, k :
             /\ n1 \in [Timers -> Node]
             /\ n1[t] = [toExpire |-> x, atStart |-> 0, first |-> 0, periodic |-> node[t].periodic, isRunning |-> TRUE]
             /\ \A u \in Timers : u # t => n1[u] = node[u]
             /\ IsInsert(list, n1, t, k, Inserted(node, t).list, Inserted(node, t).node)
  BY <1>6, <1>14, <1>15, <1>16, <1>17, InsertedIs
<1>19. IsInsert(list, n1, t, k, list', node')
  <2>1. list' = Inserted(node, t).list /\ node' = Inserted(node, t).node
    BY <1>5 DEF SwiRestart
  <2> QED  BY <2>1, <1>18
<1>20. /\ p \in Nat /\ Span \in Int /\ HalfRange \in Nat /\ HalfRange >= 1 /\ p + HalfRange - 1 <= Span
       /\ Elapsed \in Nat
  BY <1>1, <1>6, <1>14, TimeoutFits, ConstantsAre, Numbers
<1>21. x <= Span
  <2>1. x <= p
    BY <1>16, <1>17, <1>20
  <2> QED  BY <2>1, <1>20
<1>22. due[t].every = p
  BY <1>1, <1>6, <1>13, <1>14 DEF EveryInv
<1>23. \A u \in Timers : /\ Queued("stop", u)' <=> Queued("stop", u)
                         /\ FirstOpIs("stop", u)' <=> FirstOpIs("stop", u)
  BY <1>2 DEF Queued, FirstOpIs
<1>31. \A u \in Timers : u # t => n1[u] = node[u]
  BY <1>18
<1>31b. \A u \in Timers : ~node'[u].isRunning => ~node[u].isRunning
  <2>1. \A u \in Timers : u # t => (node'[u].isRunning <=> node[u].isRunning)
    BY <1>6, <1>14, <1>15, <1>18, <1>19, <1>31, InsertionLeaves
  <2>2. ~node[t].isRunning
    BY <1>12 DEF RestartOK
  <2> QED  BY <2>1, <2>2
<1>24. OpsOK' /\ StartsInv' /\ ops' \in Seq(Op) /\ Len(ops') <= OpQueueSize
       /\ due' \in [Timers -> DueType \cup {None}]
       /\ OpsRemain
  <2>1. InBatch /\ InBatch' /\ Elapsed' = Elapsed
    BY <1>2, <1>9 DEF InBatch, Elapsed
  <2>2. OpsOK'
    BY <1>1, <1>2, <1>9 DEF OpsOK
  <2>3. StartsInv'
    BY <2>1, <1>1, <1>2 DEF StartsInv
  <2>4. ops' \in Seq(Op) /\ Len(ops') <= OpQueueSize /\ due' \in [Timers -> DueType \cup {None}]
    BY <1>1, <1>2 DEF Types
  <2>5. ASSUME NEW i \in 1 .. Len(ops'), ops'[i].type = "start", Takes(i)' PROVE Takes(i)
    <3>1. ops' = ops
      BY <1>2
    <3>2. PICK u \in Timers : u = ops[i].timer
      BY <2>5, <3>1, <1>1 DEF OpsOK
    <3>3. ~node'[u].isRunning => ~node[u].isRunning
      BY <1>31b
    <3> QED  BY <3>1, <3>2, <3>3, <2>5 DEF Takes
  <2>6. OpsRemain
    BY <2>5, <1>2 DEF OpsRemain
  <2> QED  BY <2>2, <2>3, <2>4, <2>6
<1>25. ~Queued("stop", t) => /\ due'[t].left <= x - Elapsed
                             /\ x - Elapsed <= due'[t].left + MaxLatency
                             /\ ~rtcRunning => x - Elapsed <= due'[t].left + lag
  BY <1>2, <1>4, <1>14, <1>17
<1>26. n1[t] = [toExpire |-> x, atStart |-> 0, first |-> 0, periodic |-> p, isRunning |-> TRUE]
  BY <1>13, <1>18
<1>27. /\ Elapsed + CompareOffset + Spare <= x + Delay
       /\ ~isr.update /\ t = isr.head => Compare <= x \/ Compare <= Elapsed + CompareOffset
  BY <1>4, <1>14, <1>17
<1>28. /\ due'[t] # None
       /\ due'[t].every = p
       /\ \A u \in Timers : u # t => due'[u] = due[u]
  BY <1>2, <1>14, <1>22
<1>29. /\ \A i, j \in 1 .. Len(isr'.restart) : isr'.restart[i] = isr'.restart[j] => i = j
       /\ isr'.restart # <<>> => isr.restart # <<>>
  BY <1>2, <1>8, <1>9
<1>30. UNCHANGED <<counter, cc, rtcRunning, rtcPending, swiPending, latest, expired, rtcReset, lag>>
  BY <1>2
<1> HIDE DEF SwiRestart
<1>32. t \in Repeated => p \in Timeouts[t]
  BY <1>14
<1>33. t \notin Repeated => p = 0
  BY <1>14
<1>34. ~Listed(t) /\ isr.pc = "insert" /\ IInv /\ t \in Timers
  BY <1>2, <1>6, <1>14
<1>35. n1 \in [Timers -> Node]
  BY <1>18
<1> QED  BY <1>35, <1>9, <1>32, <1>33, <1>34, <1>11, <1>19, <1>21, <1>23, <1>24, <1>25, <1>26,
            <1>27, <1>28, <1>29, <1>30, <1>31, InsertionKeeps, SMTT(60)

\* What taking a start out of the queue leaves as it was.
LEMMA StartPopped ==
    ASSUME IInv, isr.pc = "insert", isr.restart = <<>>, ops # <<>>, Head(ops).type = "start",
           ops' = Tail(ops), UNCHANGED <<counter, latest, rtcRunning, rtcReset, isr, lag>>,
           \A u \in Timers : ~node'[u].isRunning => ~node[u].isRunning
    PROVE  /\ OpsOK' /\ ops' \in Seq(Op) /\ Len(ops') <= OpQueueSize
           /\ OpsRemain
           /\ \A u \in Timers : Queued("stop", u)' <=> Queued("stop", u)
           /\ \A u \in Timers : u # Head(ops).timer /\ FirstOpIs("stop", u) => FirstOpIs("stop", u)'
           /\ ~FirstOpIs("stop", Head(ops).timer)
           /\ StartsInv'
           /\ \A u : ~Restarting(u) /\ ~Restarting(u)'
<1>1. Types /\ StartsInv
  BY DEF IInv
<1>2. /\ \A u, ty : Queued(ty, u)' => Queued(ty, u)
      /\ \A u, ty : Queued(ty, u) => Queued(ty, u)' \/ (Head(ops).type = ty /\ Head(ops).timer = u)
      /\ \A u, ty : FirstOpIs(ty, u) /\ Head(ops).timer # u => FirstOpIs(ty, u)'
      /\ \A u, ty : FirstOpIs(ty, u) /\ Head(ops).timer = u => Head(ops).type = ty
  BY <1>1, TailOps
<1>3. /\ OpsOK' /\ ops' \in Seq(Op) /\ Len(ops') <= OpQueueSize
      /\ \A i \in 1 .. Len(ops') : \E j \in 1 .. Len(ops) : ops'[i] = ops[j]
      /\ OpsRemain
  BY PopKeeps
<1>4. \A u \in Timers : Queued("stop", u)' <=> Queued("stop", u)
  BY <1>2
<1>5. \A u \in Timers : u # Head(ops).timer /\ FirstOpIs("stop", u) => FirstOpIs("stop", u)'
  BY <1>2
<1>6. ~FirstOpIs("stop", Head(ops).timer)
  BY <1>2
<1>7. StartsInv'
  <2>1. InBatch' /\ Elapsed' = Elapsed
    BY DEF InBatch, Elapsed
  <2> QED  BY <2>1, <1>1, <1>3 DEF StartsInv
<1>8. \A u : ~Restarting(u) /\ ~Restarting(u)'
  <2>1. Len(isr.restart) = 0
    OBVIOUS
  <2>2. ~(\E i \in 1 .. Len(isr.restart) : TRUE)
    BY <2>1
  <2> QED  BY <2>2 DEF Restarting
<1> QED  BY <1>3, <1>4, <1>5, <1>6, <1>7, <1>8

\* A start of a timer that runs is ignored.
LEMMA IgnoredStartKeeps ==
    ASSUME IInv, isr.pc = "insert", isr.restart = <<>>, ops # <<>>, Head(ops).type = "start",
           ops' = Tail(ops), UNCHANGED <<hw, lists, isr, lag, due>>, node[Head(ops).timer].isRunning
    PROVE  IInv'
<1>1. /\ Types /\ NodesOK /\ OpsOK /\ BatchInv /\ ListInv /\ WalkInv
      /\ RunningInv /\ EveryInv /\ RestartInv /\ DistInv /\ StartsInv
      /\ ClockInv /\ WaitInv /\ HeadInv /\ UpdateInv
  BY DEF IInv
<1>2. UNCHANGED <<counter, cc, rtcRunning, rtcPending, swiPending, list, node, latest, expired, rtcReset, isr, lag, due>>
  BY DEF hw, lists
<1>3. /\ OpsOK' /\ ops' \in Seq(Op) /\ Len(ops') <= OpQueueSize
      /\ OpsRemain
      /\ \A u \in Timers : Queued("stop", u)' <=> Queued("stop", u)
      /\ \A u \in Timers : u # Head(ops).timer /\ FirstOpIs("stop", u) => FirstOpIs("stop", u)'
      /\ ~FirstOpIs("stop", Head(ops).timer)
      /\ StartsInv'
      /\ \A u : ~Restarting(u) /\ ~Restarting(u)'
  BY <1>2, StartPopped
<1>4. /\ A' = A /\ Elapsed' = Elapsed /\ Places' = Places /\ Compare' = Compare /\ Spare' = Spare
      /\ (InBatch' <=> InBatch) /\ (Walking' <=> Walking)
  BY <1>2 DEF A, Elapsed, Places, Compare, Spare, InBatch, Walking
<1>5. InBatch /\ InBatch' /\ ~Walking /\ expired = None
  BY <1>4, Inserting
<1>t. Types'
  BY <1>1, <1>2, <1>3 DEF Types
<1>z. NodesOK'
  BY <1>1, <1>2, FrameNodes
<1>b. BatchInv'
  BY <1>1, <1>2, <1>4 DEF BatchInv
<1>l. ListInv'
  BY <1>1, <1>2, FrameList
<1>w. WalkInv'
  BY <1>2, <1>4, <1>5 DEF WalkInv
<1>r. RunningInv'
  <2>1. ASSUME NEW u \in Timers
        PROVE  /\ ~Expiring(u)' /\ ~Expiring(u)
               /\ Listed(u)' <=> Listed(u)
               /\ ~node[u].isRunning /\ FirstOpIs("stop", u) => FirstOpIs("stop", u)'
    <3>1. ~Expiring(u)' /\ ~Expiring(u)
      BY <1>2, <1>4, <1>5 DEF Expiring
    <3>2. Listed(u)' <=> Listed(u)
      BY <1>2 DEF Listed
    <3>3. ~node[u].isRunning => u # Head(ops).timer
      OBVIOUS
    <3> QED  BY <3>1, <3>2, <3>3, <1>3
  <2> QED  BY <2>1, <1>1, <1>2, <1>3, <1>5 DEF RunningInv
<1>e. EveryInv'
  BY <1>1, <1>2, FrameEvery
<1>s. RestartInv'
  BY <1>1, <1>2, <1>3 DEF RestartInv
<1>d. DistInv'
  <2> SUFFICES ASSUME NEW i \in Places, NEW t \in Timers, t = list[i], ~Queued("stop", t)', due[t] # None
               PROVE  /\ Base(t) <= A[i] - Elapsed
                      /\ A[i] - Elapsed <= Base(t) + MaxLatency
                      /\ ~rtcRunning => A[i] - Elapsed <= Base(t) + lag
    <3>1. \A i \in Places : list[i] \in Timers
      BY <1>1, Numbers
    <3>2. \A t : Base(t)' = Base(t)
      BY <1>2 DEF Base
    <3> QED  BY <3>1, <3>2, <1>2, <1>4 DEF DistInv
  <2>1. ~Queued("stop", t)
    BY <1>3
  <2> QED  BY <2>1, <1>1 DEF DistInv
<1>c. ClockInv'
  BY <1>1, <1>2, <1>5, FrameClock
<1>v. WaitInv'
  BY <1>5 DEF WaitInv
<1>h. HeadInv'
  <2>1. CmpBound => CmpBound'
    BY <1>2, <1>4, FrameCmp
  <2>2. FreshInv => FreshInv'
    BY <1>2, <1>4, FrameFresh
  <2>3. /\ isr' = isr /\ list' = list /\ rtcRunning' = rtcRunning /\ rtcPending' = rtcPending /\ lag' = lag
    BY <1>2
  <2>4. HeadOf(list)' = HeadOf(list)
    BY <2>3 DEF HeadOf
  <2> SUFFICES ASSUME ~isr.update
               PROVE  /\ rtcRunning <=> isr.head # None
                      /\ isr.head # None =>
                           /\ Elapsed < Compare + lag
                           /\ ~rtcPending => Elapsed < Compare
                           /\ \A i \in 1 .. Len(ops') : ops'[i].type = "start" /\ ops'[i].timer = isr.head /\ Takes(i)' =>
                                \/ Compare <= Elapsed - ops'[i].age + ops'[i].ticks
                                \/ Compare <= Elapsed + CompareOffset
                      /\ list # <<>> /\ HeadOf(list) = isr.head => CmpBound'
                      /\ list # <<>> /\ HeadOf(list) # isr.head => FreshInv'
    BY <2>3, <2>4, <1>4 DEF HeadInv
  <2>5. ASSUME isr.head # None, NEW i \in 1 .. Len(ops'), ops'[i].type = "start", ops'[i].timer = isr.head, Takes(i)'
        PROVE  \/ Compare <= Elapsed - ops'[i].age + ops'[i].ticks
               \/ Compare <= Elapsed + CompareOffset
    <3>1. PICK j \in 1 .. Len(ops) : ops'[i] = ops[j] /\ Takes(j)
      BY <2>5, <1>3 DEF OpsRemain
    <3> QED  BY <2>5, <3>1, <1>1 DEF HeadInv
  <2>6. /\ rtcRunning <=> isr.head # None
        /\ isr.head # None => /\ Elapsed < Compare + lag
                              /\ ~rtcPending => Elapsed < Compare
    BY <1>1 DEF HeadInv
  <2>7. /\ list # <<>> /\ HeadOf(list) = isr.head => CmpBound
        /\ list # <<>> /\ HeadOf(list) # isr.head => FreshInv
    BY <1>1 DEF HeadInv
  <2>8. /\ list # <<>> /\ HeadOf(list) = isr.head => CmpBound'
        /\ list # <<>> /\ HeadOf(list) # isr.head => FreshInv'
    BY <2>1, <2>2, <2>7
  <2>9. isr.head # None => \A i \in 1 .. Len(ops') : ops'[i].type = "start" /\ ops'[i].timer = isr.head /\ Takes(i)' =>
                                \/ Compare <= Elapsed - ops'[i].age + ops'[i].ticks
                                \/ Compare <= Elapsed + CompareOffset
    BY <2>5
  <2>10. isr.head # None =>
                           /\ Elapsed < Compare + lag
                           /\ ~rtcPending => Elapsed < Compare
                           /\ \A i \in 1 .. Len(ops') : ops'[i].type = "start" /\ ops'[i].timer = isr.head /\ Takes(i)' =>
                                \/ Compare <= Elapsed - ops'[i].age + ops'[i].ticks
                                \/ Compare <= Elapsed + CompareOffset
    BY <2>6, <2>9
  <2> QED  BY <2>6, <2>8, <2>10
<1>u. UpdateInv'
  <2>1. UpInv => UpInv'
    BY <1>2, <1>4, FrameUp
  <2> QED  BY <2>1, <1>1, <1>2 DEF UpdateInv
<1> QED  BY <1>t, <1>z, <1>3, <1>b, <1>l, <1>w, <1>r, <1>e, <1>s, <1>d, <1>c, <1>v, <1>h, <1>u DEF IInv

\* When a start that waited in the queue lets its timer expire.
LEMMA StartEnters ==
    ASSUME IInv, isr.pc = "insert", isr.restart = <<>>, ops # <<>>, Head(ops).type = "start",
           NEW t, t = Head(ops).timer, NEW d, d = Head(ops).ticks, NEW age, age = Head(ops).age,
           ~node[t].isRunning
    PROVE  /\ t \in Timers /\ d \in Timeouts[t] /\ d \in Nat /\ age \in Nat /\ age <= lag
           /\ (IF rtcReset THEN 0 ELSE Head(ops).at) \in Ticks
           /\ \E x \in Nat :
                /\ x = ticks_to_expire(IF rtcReset THEN 0 ELSE Head(ops).at, d)
                /\ x <= Span /\ x <= Elapsed + d
                /\ Elapsed + CompareOffset + Spare <= x + Delay
                /\ ~isr.update /\ t = isr.head => Compare <= x \/ Compare <= Elapsed + CompareOffset
                /\ d - age <= x - Elapsed
                /\ x - Elapsed <= d - age + lag
<1>1. Types /\ OpsOK /\ BatchInv /\ StartsInv /\ ClockInv /\ HeadInv
  BY DEF IInv
<1>2. 1 \in 1 .. Len(ops) /\ Head(ops) = ops[1]
  BY <1>1, TailOps
<1>3. /\ t \in Timers /\ d \in Timeouts[t] /\ age \in Nat /\ age <= lag /\ Head(ops).at \in Ticks
  BY <1>1, <1>2, OpsAre DEF OpsOK
<1>4. /\ d \in Nat /\ d >= 1 /\ Span \in Int /\ d + HalfRange - 1 <= Span
  BY <1>3, TimeoutFits
<1>5. /\ Elapsed \in Nat /\ Compare \in Nat /\ lag \in Nat /\ Spare \in Nat /\ lag <= MaxLatency /\ Spare = MaxLatency - lag
      /\ CompareOffset \in Nat /\ MaxLatency \in Nat /\ HalfRange \in Nat /\ HalfRange >= 1
      /\ counter \in Ticks /\ latest \in Ticks /\ Delay \in Nat /\ Delay = CompareOffset + MaxLatency - 1
  BY <1>1, Numbers, ConstantsAre DEF Types, Delay
<1>5a. PICK e \in Nat, s \in Nat, g \in Nat, m \in Nat, c \in Nat, h \in Nat, y \in Nat, z \in Int :
          /\ e = Elapsed /\ s = Spare /\ g = lag /\ m = MaxLatency /\ c = CompareOffset
          /\ h = HalfRange /\ z = Span /\ y = Delay
  BY <1>4, <1>5
<1>5b. /\ d \in Nat /\ age \in Nat /\ age <= g /\ g <= m /\ s = m - g /\ h >= 1
       /\ d >= 1 /\ d + h - 1 <= z /\ y = c + m - 1
  BY <1>3, <1>4, <1>5, <1>5a
<1>6. 0 \in Ticks
  BY RangeIs
<1>7. InBatch
  BY DEF InBatch
<1>8. PICK at : at = IF rtcReset THEN 0 ELSE Head(ops).at
  OBVIOUS
<1>9. at \in Ticks
  BY <1>3, <1>6, <1>8
<1>11. latest = 0 => ticks_to_expire(0, d) = d
  <2>1. ticks_diff_get(0, 0) = 0
    BY <1>6, DiffZero
  <2> QED  BY <2>1, <1>4, <1>5 DEF ticks_to_expire
<1>12. \E x \in Nat : /\ x = ticks_to_expire(at, d)
                      /\ x <= Span /\ x <= Elapsed + d
                      /\ Elapsed + CompareOffset + Spare <= x + Delay
                      /\ ~isr.update /\ t = isr.head => Compare <= x \/ Compare <= Elapsed + CompareOffset
                      /\ d - age <= x - Elapsed
                      /\ x - Elapsed <= d - age + lag
  <2>1. CASE rtcReset
    <3>1. at = 0 /\ latest = 0 /\ isr.update /\ Elapsed <= age
      BY <2>1, <1>1, <1>2, <1>3, <1>8 DEF BatchInv, StartsInv
    <3>2. ticks_to_expire(at, d) = d
      BY <3>1, <1>11
    <3>3. /\ d <= Span /\ d <= Elapsed + d
          /\ Elapsed + CompareOffset + Spare <= d + Delay
          /\ d - age <= d - Elapsed
          /\ d - Elapsed <= d - age + lag
      <4>1. e <= age
        BY <3>1, <1>5a
      <4>2. d <= z /\ d <= e + d /\ e + c + s <= d + y /\ d - age <= d - e /\ d - e <= d - age + g
        BY ONLY <4>1, <1>5b
      <4> QED  BY <4>2, <1>5a
    <3> QED  BY <3>1, <3>2, <3>3, <1>4
  <2>2. CASE ~rtcReset /\ rtcRunning
    <3>1. at = Head(ops).at /\ ticks_diff_get(counter, at) = age /\ Elapsed - age < HalfRange
      BY <2>2, <1>1, <1>2, <1>8 DEF StartsInv
    <3>2. age <= MaxLatency
      BY <1>3, <1>5
    <3>3. PICK w \in Int : w = Elapsed - age + d /\ w = e - age + d
      <4>1. e - age + d \in Int
        BY ONLY <1>5b
      <4> QED  BY <4>1, <1>5a
    <3>4. /\ w >= 0 => ticks_to_expire(at, d) = w
          /\ w < 0 => ticks_to_expire(at, d) = 0
      BY <3>1, <3>2, <3>3, <1>3, <1>5, <1>9, StartTicks
    <3>5. PICK x \in Nat : x = ticks_to_expire(at, d) /\ (w >= 0 => x = w) /\ (w < 0 => x = 0)
      <4>1. CASE w >= 0
        BY <4>1, <3>3, <3>4
      <4>2. CASE w < 0
        BY <4>2, <3>3, <3>4
      <4> QED  BY <4>1, <4>2, <3>3
    <3>6. /\ x <= Span /\ x <= Elapsed + d
          /\ Elapsed + CompareOffset + Spare <= x + Delay
          /\ d - age <= x - Elapsed
          /\ x - Elapsed <= d - age + lag
      <4>1. e - age < h /\ w = e - age + d /\ w \in Int /\ x \in Nat /\ (w >= 0 => x = w) /\ (w < 0 => x = 0)
        BY <3>1, <3>3, <3>5, <1>5a
      <4>2. x <= z /\ x <= e + d
        BY ONLY <4>1, <1>5b
      <4>3. d - age <= x - e /\ e + c + s <= x + y /\ x - e <= d - age + g
        BY ONLY <4>1, <1>5b
      <4> QED  BY <4>2, <4>3, <1>5a
    <3>7. ASSUME ~isr.update, t = isr.head PROVE Compare <= x \/ Compare <= Elapsed + CompareOffset
      <4>1. isr.head # None
        BY <3>7, <1>3, NoneIsNothing
      <4>2. \/ Compare <= Elapsed - age + d
            \/ Compare <= Elapsed + CompareOffset
        <5>1. Takes(1)
          BY <1>2 DEF Takes
        <5> QED  BY <4>1, <5>1, <3>7, <1>1, <1>2 DEF HeadInv
      <4>3. PICK c1 \in Nat : c1 = Compare
        BY <1>5
      <4>4. Compare <= Elapsed - age + d => c1 <= w
        BY <3>3, <4>3
      <4>5. c1 <= w => c1 <= x
        BY <3>3, <3>5
      <4> QED  BY <4>2, <4>3, <4>4, <4>5
    <3> QED  BY <3>5, <3>6, <3>7
  <2>3. CASE ~rtcReset /\ ~rtcRunning
    <3>1. at = 0 /\ counter = 0 /\ latest = 0
      BY <2>3, <1>1, <1>2, <1>8 DEF StartsInv, ClockInv
    <3>2. Elapsed = 0
      BY <3>1, <1>6, DiffZero DEF Elapsed
    <3>3. ticks_to_expire(at, d) = d
      BY <3>1, <1>11
    <3>4. /\ d <= Span /\ d <= Elapsed + d
          /\ Elapsed + CompareOffset + Spare <= d + Delay
          /\ d - age <= d - Elapsed
          /\ d - Elapsed <= d - age + lag
      <4>1. e = 0
        BY <3>2, <1>5a
      <4>2. d <= z /\ d <= e + d /\ e + c + s <= d + y /\ d - age <= d - e /\ d - e <= d - age + g
        BY ONLY <4>1, <1>5b
      <4> QED  BY <4>2, <1>5a
    <3>5. ~isr.update => t # isr.head
      <4>1. ~isr.update => isr.head = None
        BY <2>3, <1>1 DEF HeadInv
      <4> QED  BY <4>1, <1>3, NoneIsNothing
    <3> QED  BY <3>3, <3>4, <3>5, <1>4
  <2> QED  BY <2>1, <2>2, <2>3
<1> QED  BY <1>3, <1>4, <1>8, <1>9, <1>12

\* The nodes when a start has set the parameters of a timer.
Parameters(n, t, at, d, p) == [n EXCEPT ![t].atStart = at, ![t].first = d, ![t].periodic = p]

\* A timer that does not run, with the parameters of its start.
LEMMA ParametersSet ==
    ASSUME NEW n \in [Timers -> Node], NEW t \in Timers, NEW at \in Nat, NEW d \in Nat, NEW p \in Nat,
           NEW m, m = Parameters(n, t, at, d, p)
    PROVE  /\ m \in [Timers -> Node] /\ m[t].atStart = at /\ m[t].first = d /\ m[t].periodic = p
           /\ \A u \in Timers : u # t => m[u] = n[u]
<1> DEFINE v1 == [n[t] EXCEPT !.atStart = at]
           v2 == [v1 EXCEPT !.first = d]
           v3 == [v2 EXCEPT !.periodic = p]
           m1 == [n EXCEPT ![t].atStart = at]
           m2 == [m1 EXCEPT ![t].first = d]
<1>1. m1 = [n EXCEPT ![t] = v1]
  OBVIOUS
<1>2. v1 \in Node /\ v1.atStart = at
  BY DEF Node
<1>3. m = [m2 EXCEPT ![t].periodic = p]
  BY DEF Parameters
<1> HIDE DEF v1
<1>4. m2 = [n EXCEPT ![t] = v2]
  BY <1>1
<1>5. v2 \in Node /\ v2.atStart = at /\ v2.first = d
  BY <1>2 DEF Node
<1> HIDE DEF v2, m1, m2
<1>6. m = [n EXCEPT ![t] = v3]
  BY <1>3, <1>4
<1>7. v3 \in Node /\ v3.atStart = at /\ v3.first = d /\ v3.periodic = p
  BY <1>5 DEF Node
<1> HIDE DEF v3
<1> QED  BY <1>6, <1>7

\* A start of a timer that does not run puts it into the list.
LEMMA SwiStartKeeps ==
    ASSUME IInv, SwiStart
    PROVE  IInv'
<1>1. /\ Types /\ NodesOK /\ OpsOK /\ RunningInv
  BY DEF IInv
<1>2. /\ isr.pc = "insert" /\ isr.restart = <<>> /\ ops # <<>> /\ Head(ops).type = "start" /\ ops' = Tail(ops)
      /\ UNCHANGED <<hw, latest, expired, rtcReset, isr, lag>>
  BY DEF SwiStart, Pops
<1>3. PICK t, d, age : t = Head(ops).timer /\ d = Head(ops).ticks /\ age = Head(ops).age
  OBVIOUS
<1>4. CASE node[t].isRunning
  <2>1. UNCHANGED <<list, node, due>>
    BY <1>3, <1>4 DEF SwiStart
  <2>2. UNCHANGED <<hw, lists, isr, lag, due>>
    BY <2>1, <1>2 DEF lists
  <2> QED  BY <2>2, <1>2, <1>3, <1>4, IgnoredStartKeeps
<1>5. CASE ~node[t].isRunning
  <2>1. UNCHANGED <<counter, cc, rtcRunning, rtcPending, swiPending, latest, expired, rtcReset, isr, lag>>
    BY <1>2 DEF hw
  <2>2. PICK at, p : /\ at = (IF rtcReset THEN 0 ELSE Head(ops).at)
                     /\ p = (IF t \in Repeated THEN d ELSE 0)
    OBVIOUS
  <2>3. /\ t \in Timers /\ d \in Timeouts[t] /\ d \in Nat /\ age \in Nat /\ age <= lag /\ at \in Ticks
    BY <1>2, <1>3, <1>5, <2>2, StartEnters
  <2>4. PICK x \in Nat :
                /\ x = ticks_to_expire(at, d)
                /\ x <= Span /\ x <= Elapsed + d
                /\ Elapsed + CompareOffset + Spare <= x + Delay
                /\ ~isr.update /\ t = isr.head => Compare <= x \/ Compare <= Elapsed + CompareOffset
                /\ d - age <= x - Elapsed
                /\ x - Elapsed <= d - age + lag
    BY <1>2, <1>3, <1>5, <2>2, StartEnters
  <2>4b. ~FirstOpIs("stop", t)
    BY <1>1, <1>2, <1>3, TailOps
  <2>6. ~Listed(t)
    <3>1. ~Expiring(t)
      BY <1>2, <2>3, Inserting
    <3> QED  BY <3>1, <2>3, <2>4b, <1>1, <1>5 DEF RunningInv
  <2>7. IsList(list, node) /\ node \in [Timers -> Node] /\ at \in Nat /\ p \in Nat
    BY <1>1, <2>2, <2>3, RangeIs DEF Types, IsList
  <2>8. PICK m : m = [node EXCEPT ![t].atStart = at, ![t].first = d, ![t].periodic = p]
    OBVIOUS
  <2>9. /\ m \in [Timers -> Node] /\ m[t].atStart = at /\ m[t].first = d /\ m[t].periodic = p
        /\ \A u \in Timers : u # t => m[u] = node[u]
    <3>1. m = Parameters(node, t, at, d, p)
      BY <2>8 DEF Parameters
    <3>2. node \in [Timers -> Node] /\ t \in Timers /\ at \in Nat /\ d \in Nat /\ p \in Nat
      BY <2>3, <2>7
    <3> QED  BY ONLY <3>1, <3>2, ParametersSet
  <2>10. /\ list' = Inserted(m, t).list /\ node' = Inserted(m, t).node
         /\ due' = [due EXCEPT ![t] = Left(t, d, age)]
    BY <1>3, <1>5, <2>2, <2>8 DEF SwiStart
  <2>11. IsList(list, m)
    BY <2>7, <2>9 DEF IsList
  <2>12. x = ticks_to_expire(m[t].atStart, m[t].first)
    BY <2>4, <2>9
  <2>13. PICK n1, k :
             /\ n1 \in [Timers -> Node]
             /\ n1[t] = [toExpire |-> x, atStart |-> 0, first |-> 0, periodic |-> m[t].periodic, isRunning |-> TRUE]
             /\ \A u \in Timers : u # t => n1[u] = m[u]
             /\ IsInsert(list, n1, t, k, Inserted(m, t).list, Inserted(m, t).node)
    BY <2>3, <2>9, <2>11, <2>12, InsertedIs
  <2>14. /\ n1[t] = [toExpire |-> x, atStart |-> 0, first |-> 0, periodic |-> p, isRunning |-> TRUE]
         /\ \A u \in Timers : u # t => n1[u] = node[u]
         /\ IsInsert(list, n1, t, k, list', node')
    BY <2>9, <2>10, <2>13
  <2>5. /\ OpsOK' /\ ops' \in Seq(Op) /\ Len(ops') <= OpQueueSize
        /\ OpsRemain
        /\ \A u \in Timers : Queued("stop", u)' <=> Queued("stop", u)
        /\ \A u \in Timers : u # t /\ FirstOpIs("stop", u) => FirstOpIs("stop", u)'
        /\ StartsInv'
        /\ \A u : ~Restarting(u) /\ ~Restarting(u)'
    <3>1. \A u \in Timers : ~node'[u].isRunning => ~node[u].isRunning
      <4>1. \A u \in Timers : u # t => (node'[u].isRunning <=> node[u].isRunning)
        BY <2>3, <2>6, <2>7, <2>13, <2>14, InsertionLeaves
      <4> QED  BY <4>1, <1>5
    <3> QED  BY <3>1, <1>2, <1>3, <2>1, StartPopped
  <2>15. /\ t \in Repeated => p \in Timeouts[t]
         /\ t \notin Repeated => p = 0
    BY <2>2, <2>3
  <2>16. /\ Left(t, d, age) \in DueType /\ Left(t, d, age).left = d - age
         /\ Left(t, d, age).every = p
    BY <2>2, <2>3 DEF Left, DueType
  <2>17. due \in [Timers -> DueType \cup {None}]
    BY <1>1 DEF Types
  <2>18. /\ due' \in [Timers -> DueType \cup {None}]
         /\ due'[t] = Left(t, d, age)
         /\ \A u \in Timers : u # t => due'[u] = due[u]
    <3> HIDE DEF DueType
    <3>1. PICK v \in DueType : v = Left(t, d, age)
      BY <2>16
    <3> QED  BY <3>1, <2>3, <2>10, <2>17
  <2>19. due'[t] # None
    BY <2>16, <2>18, NoneIsNothing
  <2>20. due'[t].every = p
    BY <2>16, <2>18
  <2>22. /\ CompareOffset \in Nat /\ MaxLatency \in Nat /\ Delay \in Nat /\ Elapsed \in Nat /\ Spare \in Nat
         /\ lag \in Nat /\ lag <= MaxLatency
    BY <1>1, ConstantsAre, Numbers
  <2>23. /\ Elapsed + CompareOffset + Spare <= x + Delay
         /\ ~isr.update /\ t = isr.head => Compare <= x \/ Compare <= Elapsed + CompareOffset
    BY <2>4
  <2>24. ~Queued("stop", t) => /\ due'[t].left <= x - Elapsed
                               /\ x - Elapsed <= due'[t].left + MaxLatency
                               /\ ~rtcRunning => x - Elapsed <= due'[t].left + lag
    <3>1. PICK left \in Int : left = d - age
      BY <2>3
    <3>2. left <= x - Elapsed /\ x - Elapsed <= left + lag
      BY <2>4, <3>1
    <3>3. x - Elapsed <= left + MaxLatency
      BY <3>2, <2>22
    <3>4. due'[t].left = left
      BY <3>1, <2>16, <2>18
    <3> QED  BY <3>2, <3>3, <3>4
  <2>25. isr' \in IsrType /\ isr'.pc = "insert" /\ (isr'.update <=> isr.update) /\ isr'.head = isr.head
    BY <1>1, <1>2, <2>1 DEF Types
  <2>26. /\ \A u \in Timers : Restarting(u)' => Restarting(u) /\ u # t
         /\ \A u \in Timers : u # t /\ Restarting(u) => Restarting(u)'
    BY <2>5
  <2>27. /\ isr'.restart = <<>>
         /\ \A i, j \in 1 .. Len(isr'.restart) : isr'.restart[i] = isr'.restart[j] => i = j
         /\ isr'.restart # <<>> => isr.restart # <<>>
    <3>1. isr'.restart = <<>> /\ Len(isr'.restart) = 0
      BY <1>2, <2>1
    <3>2. ~(\E i \in 1 .. Len(isr'.restart) : TRUE)
      BY <3>1
    <3> QED  BY <3>1, <3>2
  <2>28. x <= Span
    BY <2>4
  <2>29. UNCHANGED <<counter, cc, rtcRunning, rtcPending, swiPending, latest, expired, rtcReset, lag>>
    BY <2>1
  <2>30. n1 \in [Timers -> Node]
    BY <2>13
  <2> HIDE DEF SwiStart
  <2> QED  BY <1>2, <2>30, <2>3, <2>5, <2>6, <2>14, <2>15, <2>18, <2>19, <2>20, <2>23, <2>24,
              <2>25, <2>26, <2>27, <2>28, <2>29, InsertionKeeps
<1> QED  BY <1>4, <1>5

\* Timer t is not in the list lm any more, and the others stay where they are.
Stopped(t, lm, nm) ==
    /\ IsList(lm, nm) /\ nm[t] = Unlisted
    /\ \A u \in Timers : u # t => SameBut(nm[u], node[u])
    /\ \A u \in Timers : u # t /\ ~Listed(u) => nm[u] = node[u]
    /\ \A j \in 1 .. Len(lm) :
         \E i \in 1 .. Len(list) : lm[j] = list[i] /\ list[i] # t /\ After(lm, nm)[j] = A[i]
    /\ \A i \in 1 .. Len(list) : list[i] # t => \E j \in 1 .. Len(lm) : lm[j] = list[i]

\* It is not due any more, and the others are as before.
NotDue(t) == /\ due' \in [Timers -> DueType \cup {None}] /\ due'[t] = None
             /\ \A u \in Timers : u # t => due'[u] = due[u]

\* When no timer is left, the counter is reset.
ResetOrNot == \/ UNCHANGED <<counter, latest, rtcReset>>
              \/ counter' = 0 /\ latest' = 0 /\ rtcReset' = TRUE /\ list' = <<>> /\ isr'.update

\* What a stop of timer t leaves of the invariant.
LEMMA StopKeepsMost ==
    ASSUME IInv, isr.pc = "insert", isr.restart = <<>>, ops # <<>>,
           Head(ops).type = "stop", NEW t \in Timers, Head(ops).timer = t, ops' = Tail(ops),
           UNCHANGED <<cc, rtcRunning, rtcPending, swiPending, expired, lag>>,
           isr' \in IsrType, isr'.pc = "insert", isr'.restart = <<>>, isr.update => isr'.update,
           Stopped(t, list', node'), NotDue(t), ResetOrNot
    PROVE  /\ Types' /\ NodesOK' /\ OpsOK' /\ BatchInv' /\ ListInv' /\ WalkInv'
           /\ RunningInv' /\ EveryInv' /\ RestartInv' /\ DistInv' /\ StartsInv'
           /\ ClockInv' /\ WaitInv'
           /\ OpsRemain
<1> PICK lm, nm : lm = list' /\ nm = node'
  OBVIOUS
<1>h. /\ IsList(lm, nm) /\ nm[t] = Unlisted
      /\ \A u \in Timers : u # t => SameBut(nm[u], node[u])
      /\ \A u \in Timers : u # t /\ ~Listed(u) => nm[u] = node[u]
      /\ \A j \in 1 .. Len(lm) :
           \E i \in 1 .. Len(list) : lm[j] = list[i] /\ list[i] # t /\ After(lm, nm)[j] = A[i]
      /\ \A i \in 1 .. Len(list) : list[i] # t => \E j \in 1 .. Len(lm) : lm[j] = list[i]
  BY DEF Stopped
<1>i. \A u \in Timers : Listed(u)' <=> Listed(u) /\ u # t
  <2> SUFFICES ASSUME NEW u \in Timers PROVE (\E j \in 1 .. Len(lm) : lm[j] = u) <=> Listed(u) /\ u # t
    BY DEF Listed
  <2>1. ASSUME NEW j \in 1 .. Len(lm), lm[j] = u PROVE Listed(u) /\ u # t
    <3>1. PICK i \in 1 .. Len(list) : lm[j] = list[i] /\ list[i] # t
      BY <1>h
    <3> QED  BY <2>1, <3>1 DEF Listed
  <2>2. ASSUME Listed(u), u # t PROVE \E j \in 1 .. Len(lm) : lm[j] = u
    <3>1. PICK i \in 1 .. Len(list) : list[i] = u
      BY <2>2 DEF Listed
    <3> QED  BY <2>2, <3>1, <1>h
  <2> QED  BY <2>1, <2>2
<1>j. /\ due' \in [Timers -> DueType \cup {None}] /\ due'[t] = None
      /\ \A u \in Timers : u # t => due'[u] = due[u]
  BY DEF NotDue
<1>k. \/ UNCHANGED <<counter, latest, rtcReset>>
      \/ counter' = 0 /\ latest' = 0 /\ rtcReset' = TRUE /\ list' = <<>> /\ isr'.update
  BY DEF ResetOrNot
<1>0. Types
  BY DEF IInv
<1>9. /\ Len(list) \in Nat /\ \A i \in 1 .. Len(list) : list[i] \in Timers
      /\ A \in [0 .. Len(list) -> Nat]
      /\ Elapsed \in Nat /\ lag \in Nat /\ Spare \in Nat /\ Spare <= MaxLatency
      /\ MaxLatency \in Nat /\ CounterRange \in Nat /\ MaxLatency < CounterRange
  <2>1. Spare = MaxLatency - lag /\ lag \in Nat /\ Spare \in Nat /\ MaxLatency \in Nat
    BY <1>0, Numbers, ConstantsAre
  <2>2. Spare <= MaxLatency
    BY <2>1
  <2> QED  BY <2>1, <2>2, <1>0, Numbers, ConstantsAre DEF Places
<1>10. 0 \in Ticks
  BY RangeIs
<1> USE <1>h, <1>i, <1>j, <1>k
<1>1. /\ Types /\ NodesOK /\ OpsOK /\ BatchInv /\ ListInv /\ WalkInv
      /\ RunningInv /\ EveryInv /\ RestartInv /\ DistInv /\ StartsInv
      /\ ClockInv /\ WaitInv
  BY DEF IInv
<1>2. /\ OpsOK' /\ ops' \in Seq(Op) /\ Len(ops') <= OpQueueSize
      /\ \A i \in 1 .. Len(ops') : \E j \in 1 .. Len(ops) : ops'[i] = ops[j]
      /\ OpsRemain
  <2>1. \A u \in Timers : ~node'[u].isRunning =>
            ~node[u].isRunning \/ (Head(ops).type = "stop" /\ Head(ops).timer = u)
    BY DEF SameBut
  <2> QED  BY <2>1, PopKeeps
<1>3. /\ \A u, ty : Queued(ty, u)' => Queued(ty, u)
      /\ \A u, ty : Queued(ty, u) => Queued(ty, u)' \/ (Head(ops).type = ty /\ Head(ops).timer = u)
      /\ \A u, ty : FirstOpIs(ty, u) /\ Head(ops).timer # u => FirstOpIs(ty, u)'
  BY <1>1, TailOps
<1>4. \A u \in Timers : u # t => (Queued("stop", u)' <=> Queued("stop", u))
  BY <1>3
<1>5. \A u \in Timers : u # t /\ FirstOpIs("stop", u) => FirstOpIs("stop", u)'
  BY <1>3
<1>6. InBatch /\ ~Walking /\ expired = None /\ \A u \in Timers : ~Expiring(u)
  BY Inserting
<1>7. InBatch' /\ ~Walking' /\ expired' = None /\ \A u \in Timers : ~Expiring(u)'
  BY <1>6 DEF InBatch, Walking, Expiring
<1>8. \A u : ~Restarting(u) /\ ~Restarting(u)'
  <2>1. Len(isr.restart) = 0 /\ Len(isr'.restart) = 0
    OBVIOUS
  <2>2. ~(\E i \in 1 .. Len(isr.restart) : TRUE) /\ ~(\E i \in 1 .. Len(isr'.restart) : TRUE)
    BY <2>1
  <2> QED  BY <2>2 DEF Restarting
<1>11. Spare' = Spare /\ A' = After(lm, nm)
  BY DEF Spare, A
<1>12. list' # <<>> => Elapsed' = Elapsed
  BY DEF Elapsed
<1>13. Elapsed' = Elapsed \/ Elapsed' = 0
  <2>1. ticks_diff_get(0, 0) = 0
    BY <1>10, DiffZero
  <2> QED  BY <2>1 DEF Elapsed
<1>14. list' = <<>> => Len(lm) = 0
  OBVIOUS
<1>16. /\ due' \in [Timers -> DueType \cup {None}] /\ due'[t] = None
       /\ \A u \in Timers : u # t => due'[u] = due[u]
  OBVIOUS
<1>t. Types'
  <2>1. counter' \in Ticks /\ latest' \in Ticks /\ rtcReset' \in BOOLEAN
    BY <1>1, <1>10 DEF Types
  <2> QED  BY <2>1, <1>1, <1>2, <1>16 DEF Types
<1>z. NodesOK'
  <2> SUFFICES ASSUME NEW u \in Timers
               PROVE  /\ node'[u].atStart \in Ticks
                      /\ node'[u].first \in Timeouts[u] \cup {0}
                      /\ node'[u].periodic \in Timeouts[u] \cup {0}
                      /\ ~Listed(u)' => node'[u].toExpire \in Ticks
    BY DEF NodesOK
  <2>1. CASE u = t
    BY <2>1, <1>10 DEF Unlisted
  <2>2. CASE u # t
    <3>1. ~Listed(u)' => node'[u] = node[u] /\ ~Listed(u)
      BY <2>2
    <3>2. SameBut(node'[u], node[u])
      BY <2>2
    <3> QED  BY <3>1, <3>2, <1>1 DEF NodesOK, SameBut
  <2> QED  BY <2>1, <2>2
<1>b. BatchInv'
  BY <1>1, <1>6, <1>7 DEF BatchInv
<1>l. ListInv'
  <2> SUFFICES ASSUME NEW j \in 1 .. Len(lm)
               PROVE  /\ After(lm, nm)[j] <= Span
                      /\ lm[j] \in Repeated => nm[lm[j]].periodic \in Timeouts[lm[j]]
                      /\ lm[j] \notin Repeated => nm[lm[j]].periodic = 0
    BY <1>11, <1>12, <1>14 DEF ListInv, Places
  <2>1. PICK i \in 1 .. Len(list) : lm[j] = list[i] /\ list[i] # t /\ After(lm, nm)[j] = A[i]
    OBVIOUS
  <2>2. nm[list[i]].periodic = node[list[i]].periodic
    BY <2>1, <1>9 DEF SameBut
  <2>3. /\ A[i] <= Span
        /\ list[i] \in Repeated => node[list[i]].periodic \in Timeouts[list[i]]
        /\ list[i] \notin Repeated => node[list[i]].periodic = 0
    BY <1>1 DEF ListInv, Places
  <2>4. PICK u, y : u = list[i] /\ y = A[i]
    OBVIOUS
  <2>5. lm[j] = u /\ After(lm, nm)[j] = y /\ nm[u].periodic = node[u].periodic
    BY <2>1, <2>2, <2>4
  <2>6. /\ y <= Span
        /\ u \in Repeated => node[u].periodic \in Timeouts[u]
        /\ u \notin Repeated => node[u].periodic = 0
    BY <2>3, <2>4
  <2> QED  BY ONLY <2>5, <2>6
<1>w. WalkInv'
  BY <1>7 DEF WalkInv
<1>r. RunningInv'
  <2> SUFFICES ASSUME NEW u \in Timers
               PROVE  /\ node'[u].isRunning => Listed(u)' /\ due'[u] # None
                      /\ Listed(u)' /\ ~node'[u].isRunning => FirstOpIs("stop", u)'
                      /\ due'[u] # None /\ ~node'[u].isRunning => FirstOpIs("stop", u)' \/ Restarting(u)'
                      /\ Listed(u)' /\ u \in Repeated => due'[u] # None
    BY <1>7 DEF RunningInv
  <2>1. CASE u = t
    BY <2>1, <1>16 DEF Unlisted
  <2>2. CASE u # t
    <3>1. /\ node[u].isRunning => Listed(u) /\ due[u] # None
          /\ Listed(u) /\ ~node[u].isRunning => FirstOpIs("stop", u)
          /\ due[u] # None /\ ~node[u].isRunning => FirstOpIs("stop", u)
          /\ Listed(u) /\ u \in Repeated => due[u] # None
      BY <1>1, <1>6, <1>8 DEF RunningInv
    <3>2. (node'[u].isRunning <=> node[u].isRunning) /\ due'[u] = due[u] /\ (Listed(u)' <=> Listed(u))
      BY <2>2, <1>16 DEF SameBut
    <3>3. FirstOpIs("stop", u) => FirstOpIs("stop", u)'
      BY <2>2, <1>5
    <3> QED  BY <3>1, <3>2, <3>3
  <2> QED  BY <2>1, <2>2
<1>e. EveryInv'
  <2>1. ASSUME NEW u \in Timers, due'[u] # None
        PROVE  u # t /\ due'[u] = due[u] /\ node'[u].periodic = node[u].periodic
    <3>1. u # t
      BY <2>1, <1>16
    <3> QED  BY <3>1, <1>16 DEF SameBut
  <2>2. ASSUME NEW u \in Timers, due'[u] # None PROVE due'[u].every = node'[u].periodic
    BY <2>1, <2>2, <1>1 DEF EveryInv
  <2>3. ASSUME NEW u \in Timers, due'[u] # None
        PROVE  /\ u \in Repeated => due'[u].every \in Timeouts[u]
               /\ u \notin Repeated => due'[u].every = 0
    BY <2>1, <2>3, <1>1 DEF EveryInv
  <2> QED  BY <2>2, <2>3 DEF EveryInv
<1>s. RestartInv'
  BY <1>8 DEF RestartInv
<1>d. DistInv'
  <2> SUFFICES ASSUME NEW j \in 1 .. Len(lm), NEW u, u = lm[j], ~Queued("stop", u)', due'[u] # None
               PROVE  /\ Base(u)' <= A'[j] - Elapsed
                      /\ A'[j] - Elapsed <= Base(u)' + MaxLatency
                      /\ ~rtcRunning => A'[j] - Elapsed <= Base(u)' + lag
    <3>1. /\ rtcRunning' = rtcRunning /\ lag' = lag /\ list' = lm
      OBVIOUS
    <3> QED  BY <3>1, <1>12, <1>14 DEF DistInv, Places
  <2>1. PICK i \in 1 .. Len(list) : lm[j] = list[i] /\ list[i] # t /\ A'[j] = A[i]
    BY <1>11
  <2>2. u = list[i] /\ u \in Timers /\ u # t
    BY <2>1, <1>9
  <2>3. Base(u)' = Base(u)
    BY <2>2, <1>16 DEF Base, SameBut
  <2>4. ~Queued("stop", u) /\ due[u] # None
    BY <2>2, <1>4, <1>16
  <2> QED  BY <2>1, <2>2, <2>3, <2>4, <1>1 DEF DistInv, Places
<1>a. StartsInv'
  <2>1. CASE UNCHANGED <<counter, latest, rtcReset>>
    <3>1. Elapsed' = Elapsed
      BY <2>1 DEF Elapsed
    <3> QED  BY <2>1, <3>1, <1>1, <1>2, <1>7 DEF StartsInv
  <2>2. CASE counter' = 0 /\ latest' = 0 /\ rtcReset' = TRUE
    <3>1. Elapsed' = 0
      BY <2>2, <1>10, DiffZero DEF Elapsed
    <3>2. \A i \in 1 .. Len(ops') : ops'[i].age >= 0
      BY <1>1, <1>2, OpsAre
    <3>3. \A i \in 1 .. Len(ops') : ops'[i].type = "start" => (~rtcRunning => ops'[i].at = 0)
      BY <1>1, <1>2 DEF StartsInv
    <3> QED  BY <2>2, <3>1, <3>2, <3>3 DEF StartsInv
  <2> QED  BY <2>1, <2>2
<1>c. ClockInv'
  <2>1. Elapsed' + Spare < CounterRange
    <3>1. Elapsed + Spare < CounterRange
      BY <1>1 DEF ClockInv
    <3>2. 0 + Spare < CounterRange
      BY <1>9
    <3> QED  BY <3>1, <3>2, <1>13
  <2>2. ~rtcRunning => counter' = 0 /\ latest' = 0 /\ ~rtcPending
    BY <1>1 DEF ClockInv
  <2> QED  BY <2>1, <2>2, <1>7, <1>11 DEF ClockInv
<1>v. WaitInv'
  BY <1>7 DEF WaitInv
<1> QED  BY <1>t, <1>z, <1>2, <1>b, <1>l, <1>w, <1>r, <1>e, <1>s, <1>d, <1>a, <1>c, <1>v

\* The compare register after a stop of a timer that was not in the list, or not
\* its head.
LEMMA StopKeepsHead ==
    ASSUME IInv, isr.pc = "insert", ~isr.update,
           OpsRemain,
           UNCHANGED <<counter, cc, latest, rtcRunning, rtcPending, isr, lag>>,
           HeadOf(list') = HeadOf(list), list # <<>> /\ list' # <<>> => A'[1] = A[1],
           list' # <<>> => list # <<>>,
           \A x \in Int : Bounded(list, node, x) => Bounded(list', node', x),
           FreshInv => FreshInv'
    PROVE  HeadInv'
<1>1. HeadInv /\ Types
  BY DEF IInv
<1>2. Elapsed' = Elapsed /\ Compare' = Compare /\ Spare' = Spare
  BY DEF Elapsed, Compare, Spare
<1>3. Compare \in Int
  BY <1>1, Numbers
<1>4. isr' = isr /\ rtcRunning' = rtcRunning /\ rtcPending' = rtcPending /\ lag' = lag
  OBVIOUS
<1> SUFFICES ASSUME TRUE
               PROVE  /\ rtcRunning <=> isr.head # None
                      /\ isr.head # None =>
                           /\ Elapsed < Compare + lag
                           /\ ~rtcPending => Elapsed < Compare
                           /\ \A i \in 1 .. Len(ops') : ops'[i].type = "start" /\ ops'[i].timer = isr.head /\ Takes(i)' =>
                                \/ Compare <= Elapsed - ops'[i].age + ops'[i].ticks
                                \/ Compare <= Elapsed + CompareOffset
                      /\ list' # <<>> /\ HeadOf(list') = isr.head => CmpBound'
                      /\ list' # <<>> /\ HeadOf(list') # isr.head => FreshInv'
  BY <1>2, <1>4 DEF HeadInv
<1>5. ASSUME isr.head # None, NEW i \in 1 .. Len(ops'), ops'[i].type = "start", ops'[i].timer = isr.head, Takes(i)'
      PROVE  \/ Compare <= Elapsed - ops'[i].age + ops'[i].ticks
             \/ Compare <= Elapsed + CompareOffset
  <2>1. PICK j \in 1 .. Len(ops) : ops'[i] = ops[j] /\ Takes(j)
    BY <1>5 DEF OpsRemain
  <2> QED  BY <1>5, <2>1, <1>1 DEF HeadInv
<1>6. /\ rtcRunning <=> isr.head # None
      /\ isr.head # None => /\ Elapsed < Compare + lag
                            /\ ~rtcPending => Elapsed < Compare
  BY <1>1 DEF HeadInv
<1>7. ASSUME list' # <<>>, HeadOf(list') = isr.head PROVE CmpBound'
  <2>1. Bounded(list, node, Compare) /\ (Compare <= A[1] \/ Compare <= Elapsed + CompareOffset)
    BY <1>1, <1>7 DEF HeadInv, CmpBound
  <2>2. Bounded(list', node', Compare)
    BY <2>1, <1>3
  <2>3. A'[1] = A[1]
    BY <1>7
  <2> QED  BY <2>1, <2>2, <2>3, <1>2 DEF CmpBound
<1>8. ASSUME list' # <<>>, HeadOf(list') # isr.head PROVE FreshInv'
  BY <1>1, <1>8 DEF HeadInv
<1>9. isr.head # None => \A i \in 1 .. Len(ops') : ops'[i].type = "start" /\ ops'[i].timer = isr.head /\ Takes(i)' =>
                                \/ Compare <= Elapsed - ops'[i].age + ops'[i].ticks
                                \/ Compare <= Elapsed + CompareOffset
  BY <1>5
<1> QED  BY <1>6, <1>7, <1>8, <1>9

\* The list is not late when the compare register has to be set.
LEMMA MustUpdate ==
    ASSUME IInv, isr.pc = "insert", list # <<>>
    PROVE  \/ isr.update /\ Bounded(list, node, Elapsed + CompareOffset + Spare)
           \/ /\ ~isr.update
              /\ \/ Bounded(list, node, Compare) /\ Elapsed + CompareOffset + Spare <= Compare + Delay
                 \/ FreshInv
<1>1. HeadInv /\ UpdateInv /\ Types
  BY DEF IInv
<1>2. CASE isr.update
  BY <1>1, <1>2 DEF UpdateInv, UpInv
<1>3. CASE ~isr.update
  <2>1. CASE HeadOf(list) # isr.head
    BY <2>1, <1>1, <1>3 DEF HeadInv
  <2>2. CASE HeadOf(list) = isr.head
    <3>1. isr.head # None
      BY <2>2, <1>1, HeadIs DEF Types
    <3>2. Bounded(list, node, Compare) /\ Elapsed < Compare + lag
      BY <3>1, <2>2, <1>1, <1>3 DEF HeadInv, CmpBound
    <3>3. /\ Elapsed \in Nat /\ Compare \in Nat /\ lag \in Nat /\ Spare = MaxLatency - lag
          /\ CompareOffset \in Nat /\ MaxLatency \in Nat /\ Delay = CompareOffset + MaxLatency - 1
      BY <1>1, Numbers, ConstantsAre DEF Delay
    <3>4. Elapsed + CompareOffset + Spare <= Compare + Delay
      BY <3>2, <3>3
    <3> QED  BY <3>2, <3>4, <1>3
  <2> QED  BY <2>1, <2>2
<1> QED  BY <1>2, <1>3

\* A bound on the lateness holds for an earlier moment too, and a list in which
\* no timer is late is within it.
LEMMA BoundedLess ==
    ASSUME NEW l, NEW n, IsList(l, n), NEW y \in Int, Bounded(l, n, y), NEW x \in Int, x <= y
    PROVE  Bounded(l, n, x)
<1> SUFFICES ASSUME NEW i \in 1 .. Len(l) PROVE x <= After(l, n)[i] + Late(i)
  BY DEF Bounded
<1>1. y <= After(l, n)[i] + Late(i)
  BY DEF Bounded
<1>2. After(l, n)[i] \in Nat /\ Late(i) \in Nat
  <2>1. Len(l) <= Cardinality(Timers) /\ Cardinality(Timers) \in Nat /\ Len(l) \in Nat
    BY ListFits, ConstantsAre, AfterOfList
  <2>2. i \in 1 .. Cardinality(Timers) /\ i \in 0 .. Len(l)
    BY <2>1
  <2> QED  BY <2>2, LateIs, AfterOfList
<1> QED  BY <1>1, <1>2

\* When no timer lies more than Delay before x, none is late if CC[0] is x.
LEMMA NoneLate ==
    ASSUME NEW l, NEW n, IsList(l, n), NEW x \in Int, \A i \in 1 .. Len(l) : x <= After(l, n)[i] + Delay
    PROVE  Bounded(l, n, x)
<1> SUFFICES ASSUME NEW i \in 1 .. Len(l) PROVE x <= After(l, n)[i] + Late(i)
  BY DEF Bounded
<1>1. After(l, n)[i] \in Nat
  <2>1. i \in 0 .. Len(l)
    BY AfterOfList
  <2> QED  BY <2>1, AfterOfList
<1>2. PICK a \in Nat, b \in Nat, d \in Nat : a = After(l, n)[i] /\ b = Late(i) /\ d = Delay /\ b >= d
  BY <1>1, LateOf
<1>3. x <= a + d
  BY <1>2
<1>4. x <= a + b
  BY ONLY <1>2, <1>3
<1> QED  BY <1>2, <1>4

\* Nothing is due any more of the timer that is stopped; the others are as before.
LEMMA StopDue ==
    ASSUME Types, NEW t \in Timers, due' = [due EXCEPT ![t] = None]
    PROVE  NotDue(t)
<1>1. due \in [Timers -> DueType \cup {None}]
  BY DEF Types
<1> HIDE DEF DueType
<1> QED  BY <1>1 DEF NotDue

\* A stop of a timer that is not in the list.
LEMMA StopUnlistedKeeps ==
    ASSUME IInv, isr.pc = "insert", isr.restart = <<>>, ops # <<>>,
           Head(ops).type = "stop", NEW t \in Timers, Head(ops).timer = t, ops' = Tail(ops),
           UNCHANGED <<counter, latest, rtcReset, list, isr, cc, rtcRunning, rtcPending, swiPending, expired, lag>>,
           ~Listed(t), node' = [node EXCEPT ![t] = Unlisted], NotDue(t)
    PROVE  IInv'
<1>1. Types /\ HeadInv /\ UpdateInv
  BY DEF IInv
<1>2. IsList(list, node) /\ node \in [Timers -> Node] /\ isr \in IsrType
  BY <1>1 DEF Types, IsList
<1>3. /\ Len(list) \in Nat /\ \A i \in 1 .. Len(list) : list[i] \in Timers
      /\ A \in [0 .. Len(list) -> Nat]
  BY <1>1, Numbers DEF Places
<1>4. \A i \in 1 .. Len(list) : list[i] # t
  BY DEF Listed
<1>5. /\ node' \in [Timers -> Node] /\ node'[t] = Unlisted /\ \A u \in Timers : u # t => node'[u] = node[u]
  BY <1>2, UnlistedIsNode
<1>6. PICK lm, nm : lm = list' /\ nm = node'
  OBVIOUS
<1>7. lm = list /\ nm[t] = Unlisted /\ \A u \in Timers : u # t => nm[u] = node[u]
  BY <1>5, <1>6
<1>8. IsList(lm, nm)
  BY <1>2, <1>5, <1>6, <1>7 DEF IsList
<1>9. After(list, nm) = A
  <2>1. \A i \in 1 .. Len(list) : node[list[i]].toExpire \in Nat /\ nm[list[i]].toExpire = node[list[i]].toExpire
    BY <1>2, <1>3, <1>4, <1>7, AfterOfList
  <2>2. Len(list) \in Nat
    BY <1>3
  <2>3. PICK m, n, l : m = nm /\ n = node /\ l = list
    OBVIOUS
  <2>4. Len(l) \in Nat /\ \A i \in 1 .. Len(l) : n[l[i]].toExpire \in Nat /\ m[l[i]].toExpire = n[l[i]].toExpire
    BY <2>1, <2>2, <2>3
  <2>5. After(l, m) = After(l, n)
    BY ONLY <2>4, AfterKept
  <2> QED  BY <2>3, <2>5 DEF A
<1>10. A' = A /\ After(lm, nm) = A
  BY <1>6, <1>7, <1>9 DEF A
<1>11. \A u \in Timers : u # t => SameBut(nm[u], node[u])
  BY <1>7 DEF SameBut
<1>13. \A j \in 1 .. Len(lm) :
          \E i \in 1 .. Len(list) : lm[j] = list[i] /\ list[i] # t /\ After(lm, nm)[j] = A[i]
  BY <1>4, <1>7, <1>10
<1>14. isr' \in IsrType /\ isr'.pc = "insert" /\ isr'.restart = <<>> /\ (isr.update => isr'.update)
  BY <1>2
<1>15. /\ Types' /\ NodesOK' /\ OpsOK' /\ BatchInv' /\ ListInv' /\ WalkInv'
       /\ RunningInv' /\ EveryInv' /\ RestartInv' /\ DistInv' /\ StartsInv'
       /\ ClockInv' /\ WaitInv'
       /\ OpsRemain
  <2>1. Stopped(t, list', node')
    <3>1. \A u \in Timers : u # t /\ ~Listed(u) => nm[u] = node[u]
      BY <1>7
    <3>2. \A i \in 1 .. Len(list) : list[i] # t => \E j \in 1 .. Len(lm) : lm[j] = list[i]
      BY <1>7
    <3>3. Stopped(t, lm, nm)
      BY <3>1, <3>2, <1>7, <1>8, <1>11, <1>13 DEF Stopped
    <3> QED  BY <3>3, <1>6
  <2>2. ResetOrNot
    BY DEF ResetOrNot
  <2> QED  BY <2>1, <2>2, <1>14, StopKeepsMost
<1>16. Elapsed' = Elapsed /\ Compare' = Compare /\ Spare' = Spare
  BY DEF Elapsed, Compare, Spare
<1>17. HeadInv'
  <2>1. CASE isr.update
    BY <2>1 DEF HeadInv
  <2>2. CASE ~isr.update
    <3>1. HeadOf(list') = HeadOf(list)
      OBVIOUS
    <3>2. FreshInv => FreshInv'
      BY <1>10, <1>16, FrameFresh
    <3>3. \A x \in Int : Bounded(list, node, x) => Bounded(list', node', x)
      <4>1. After(list', node') = After(list, node) /\ list' = list
        BY <1>6, <1>7, <1>10 DEF A
      <4> QED  BY <4>1 DEF Bounded
    <3> QED  BY <2>2, <3>1, <3>2, <3>3, <1>10, <1>15, StopKeepsHead
  <2> QED  BY <2>1, <2>2
<1>18. UpdateInv'
  <2>1. UpInv => UpInv'
    BY <1>10, <1>16, FrameUp
  <2>2. isr'.pc = "insert" /\ isr' = isr
    OBVIOUS
  <2> QED  BY <2>1, <2>2, <1>1 DEF UpdateInv
<1> QED  BY <1>15, <1>17, <1>18 DEF IInv

\* A stop of a timer of the list.
LEMMA StopListedKeeps ==
    ASSUME IInv, isr.pc = "insert", isr.restart = <<>>, ops # <<>>,
           Head(ops).type = "stop", NEW t \in Timers, Head(ops).timer = t, ops' = Tail(ops),
           UNCHANGED <<cc, rtcRunning, rtcPending, swiPending, expired, lag>>,
           NEW k, IsRemove(list, node, k, list', node'), list[k] = t,
           isr' = [isr EXCEPT !.update = @ \/ k = 1], NotDue(t),
           IF list' = <<>> THEN counter' = 0 /\ latest' = 0 /\ rtcReset' = TRUE
                           ELSE UNCHANGED <<counter, latest, rtcReset>>
    PROVE  IInv'
<1>1. Types /\ HeadInv /\ UpdateInv
  BY DEF IInv
<1>2. IsList(list, node) /\ node \in [Timers -> Node] /\ isr \in InsertType
  BY <1>1, IsrCases DEF Types, IsList
<1>3. /\ Len(list) \in Nat /\ \A i \in 1 .. Len(list) : list[i] \in Timers
      /\ A \in [0 .. Len(list) -> Nat]
      /\ Elapsed \in Nat /\ Spare \in Nat /\ Compare \in Nat /\ CompareOffset \in Nat /\ Delay \in Nat
  BY <1>1, Numbers, ConstantsAre DEF Places
<1>4. PICK lm, nm : lm = list' /\ nm = node'
  OBVIOUS
<1>5. IsRemove(list, node, k, lm, nm)
  BY <1>4
<1>6. /\ IsList(lm, nm) /\ Len(lm) = Len(list) - 1 /\ k \in 1 .. Len(list)
      /\ nm[t] = Unlisted
      /\ \A u \in Timers : u # t => SameBut(nm[u], node[u])
      /\ \A u \in Timers : (\A i \in 1 .. Len(list) : list[i] # u) => nm[u] = node[u]
  BY <1>2, <1>5, RemoveKeeps
<1>7. \A j \in 1 .. Len(lm) :
         \E i \in 1 .. Len(list) : lm[j] = list[i] /\ list[i] # t /\ After(lm, nm)[j] = A[i]
  <2>1. \A j \in 1 .. Len(lm) :
         \E i \in 1 .. Len(list) : lm[j] = list[i] /\ list[i] # list[k] /\ After(lm, nm)[j] = After(list, node)[i]
    <3>1. IsList(list, node) /\ IsRemove(list, node, k, lm, nm)
      BY <1>2, <1>5
    <3> QED  BY ONLY <3>1, RemoveMap
  <2> QED  BY <2>1 DEF A
<1>8. \A i \in 1 .. Len(list) : list[i] # t => \E j \in 1 .. Len(lm) : lm[j] = list[i]
  BY <1>2, <1>5, RemoveMap
<1>10. \A u \in Timers : u # t /\ ~Listed(u) => nm[u] = node[u]
  BY <1>6 DEF Listed
<1>11. /\ isr' \in IsrType /\ isr'.pc = "insert" /\ isr'.restart = <<>> /\ isr'.head = isr.head
       /\ isr'.update <=> isr.update \/ k = 1
  BY <1>2 DEF InsertType, IsrType
<1>12. lm = <<>> => k = 1
  <2>1. lm = <<>> => Len(lm) = 0
    OBVIOUS
  <2>2. PICK x, y : x = Len(lm) /\ y = Len(list)
    OBVIOUS
  <2>3. x = y - 1 /\ k \in 1 .. y /\ y \in Nat
    BY <2>2, <1>3, <1>6
  <2>4. x = 0 => k = 1
    BY ONLY <2>3
  <2> QED  BY <2>1, <2>2, <2>4
<1>13. ResetOrNot
  BY <1>4, <1>11, <1>12 DEF ResetOrNot
<1>14. /\ Types' /\ NodesOK' /\ OpsOK' /\ BatchInv' /\ ListInv' /\ WalkInv'
       /\ RunningInv' /\ EveryInv' /\ RestartInv' /\ DistInv' /\ StartsInv'
       /\ ClockInv' /\ WaitInv'
       /\ OpsRemain
  <2>1. isr.update => isr'.update
    BY <1>11
  <2>2. Stopped(t, list', node')
    <3>1. Stopped(t, lm, nm)
      BY <1>6, <1>7, <1>8, <1>10 DEF Stopped
    <3> QED  BY <3>1, <1>4
  <2> QED  BY <2>1, <2>2, <1>11, <1>13, StopKeepsMost
<1>15. list # <<>>
  BY <1>3, <1>6
<1>16. ASSUME NEW x \in Int, Bounded(list, node, x)
       PROVE  /\ Bounded(lm, nm, x)
              /\ k = 1 => Bounded(lm, nm, x + Delay)
  BY <1>2, <1>5, <1>16, BoundedRemove
<1>17. A' = After(lm, nm)
  BY <1>4 DEF A
<1>18. lm # <<>> => Elapsed' = Elapsed /\ Compare' = Compare /\ Spare' = Spare
  BY <1>4 DEF Elapsed, Compare, Spare
<1>19. HeadInv'
  <2>1. CASE isr'.update
    BY <2>1 DEF HeadInv
  <2>2. CASE ~isr'.update
    <3>1. ~isr.update /\ k # 1 /\ lm # <<>>
      BY <2>2, <1>11, <1>12
    <3>2. isr' = isr
      BY <3>1, <1>2 DEF InsertType
    <3>3. 1 \in 1 .. k - 1 /\ lm[1] = list[1] /\ After(lm, nm)[1] = A[1]
      <4>1. 1 \in 1 .. k - 1
        BY <3>1, <1>3, <1>6
      <4>0. IsList(list, node) /\ IsRemove(list, node, k, lm, nm)
        BY <1>2, <1>5
      <4>5. \A i \in 1 .. k - 1 : lm[i] = list[i]
        BY ONLY <4>0, RemoveKeeps
      <4>2. lm[1] = list[1]
        BY <4>1, <4>5
      <4>3. After(lm, nm)[1] = After(list, node)[1]
        BY <4>0, <4>1, RemoveAfter
      <4> QED  BY <4>1, <4>2, <4>3 DEF A
    <3>4. HeadOf(list') = HeadOf(list)
      BY <3>1, <3>3, <1>4, <1>15 DEF HeadOf
    <3>5. FreshInv => FreshInv'
      <4> SUFFICES ASSUME FreshInv, NEW j \in 1 .. Len(lm) PROVE Elapsed + CompareOffset + Spare <= A'[j] + Delay
        BY <3>1, <1>4, <1>18 DEF FreshInv, Places
      <4>1. PICK i \in 1 .. Len(list) : After(lm, nm)[j] = A[i]
        BY <1>7
      <4> QED  BY <4>1, <1>17 DEF FreshInv, Places
    <3>6. \A x \in Int : Bounded(list, node, x) => Bounded(list', node', x)
      BY <1>4, <1>16
    <3>7. UNCHANGED <<counter, latest>>
      BY <3>1, <1>4
    <3>8. A'[1] = A[1]
      BY <3>3, <1>17
    <3> QED  BY <3>1, <3>2, <3>4, <3>5, <3>6, <3>7, <3>8, <1>14, <1>15, StopKeepsHead
  <2> QED  BY <2>1, <2>2
<1>20. ASSUME isr'.update, lm # <<>> PROVE Bounded(lm, nm, Elapsed + CompareOffset + Spare)
  <2>0. PICK x \in Int : x = Elapsed + CompareOffset + Spare
    BY <1>3
  <2>1. CASE isr.update
    <3>1. Bounded(list, node, x)
      BY <2>0, <2>1, <1>15, MustUpdate
    <3> QED  BY <2>0, <3>1, <1>16
  <2>2. CASE ~isr.update
    <3>1. k = 1
      BY <2>2, <1>11, <1>20
    <3>2. CASE Bounded(list, node, Compare) /\ x <= Compare + Delay
      <4>1. Compare \in Int
        BY <1>3
      <4>2. Bounded(lm, nm, Compare + Delay)
        BY <4>1, <3>1, <3>2, <1>16
      <4>3. PICK y \in Int : y = Compare + Delay
        BY <1>3
      <4>4. Bounded(lm, nm, y) /\ x <= y
        BY <4>2, <4>3, <3>2
      <4>5. Bounded(lm, nm, x)
        BY <4>4, <1>6, BoundedLess
      <4> QED  BY <4>5, <2>0
    <3>3. CASE FreshInv
      <4>1. \A j \in 1 .. Len(lm) : x <= After(lm, nm)[j] + Delay
        <5> SUFFICES ASSUME NEW j \in 1 .. Len(lm) PROVE x <= After(lm, nm)[j] + Delay
          OBVIOUS
        <5>1. PICK i \in 1 .. Len(list) : After(lm, nm)[j] = A[i]
          BY <1>7
        <5> QED  BY <5>1, <2>0, <3>3 DEF FreshInv, Places
      <4>2. Bounded(lm, nm, x)
        BY <4>1, <1>6, NoneLate
      <4> QED  BY <4>2, <2>0
    <3> QED  BY <2>0, <2>2, <3>2, <3>3, <1>15, MustUpdate
  <2> QED  BY <2>1, <2>2
<1>21. UpdateInv'
  <2>1. ASSUME isr'.update PROVE UpInv'
    <3>1. CASE lm = <<>>
      <4>1. Len(lm) = 0 /\ 1 .. Len(lm) = {}
        BY <3>1
      <4> QED  BY <4>1, <1>4 DEF UpInv, Bounded
    <3>2. CASE lm # <<>>
      BY <2>1, <3>2, <1>4, <1>18, <1>20 DEF UpInv
    <3> QED  BY <3>1, <3>2
  <2> QED  BY <2>1, <1>11 DEF UpdateInv
<1> QED  BY <1>14, <1>19, <1>21 DEF IInv

\* The software interrupt stops a timer.
LEMMA SwiStopKeeps ==
    ASSUME IInv, SwiStop
    PROVE  IInv'
<1>1. Types /\ OpsOK
  BY DEF IInv
<1>2. /\ isr.pc = "insert" /\ isr.restart = <<>> /\ ops # <<>> /\ Head(ops).type = "stop" /\ ops' = Tail(ops)
      /\ UNCHANGED <<cc, rtcRunning, rtcPending, swiPending, expired, lag>>
  BY DEF SwiStop, Pops
<1>3. PICK t : t = Head(ops).timer
  OBVIOUS
<1>4. t \in Timers
  <2>1. 1 \in 1 .. Len(ops) /\ Head(ops) = ops[1]
    BY <1>1, <1>2, TailOps
  <2> QED  BY <2>1, <1>1, <1>2, <1>3 DEF OpsOK
<1>5. NotDue(t)
  <2>1. due' = [due EXCEPT ![t] = None]
    BY <1>3 DEF SwiStop
  <2> QED  BY <2>1, <1>1, <1>4, StopDue
<1>6. CASE ~Listed(t)
  <2>1. node' = [node EXCEPT ![t] = Unlisted] /\ UNCHANGED <<list, isr, counter, latest, rtcReset>>
    BY <1>3, <1>6 DEF SwiStop
  <2> HIDE DEF SwiStop
  <2> QED  BY <2>1, <1>2, <1>3, <1>4, <1>5, <1>6, StopUnlistedKeeps
<1>7. CASE Listed(t)
  <2> DEFINE h == Head(ops).timer
             k == CHOOSE i \in 1 .. Len(list) : list[i] = h
  <2>1. Listed(h)
    BY <1>3, <1>7
  <2>8. /\ list' = SubSeq(list, 1, k - 1) \o SubSeq(list, k + 1, Len(list))
        /\ node' = LET stopped == [node EXCEPT ![h] = Unlisted]
                   IN  IF k = Len(list) THEN stopped
                       ELSE [stopped EXCEPT ![list[k + 1]].toExpire = @ + node[h].toExpire]
        /\ isr' = [isr EXCEPT !.update = @ \/ k = 1]
        /\ IF SubSeq(list, 1, k - 1) \o SubSeq(list, k + 1, Len(list)) = <<>>
           THEN counter' = 0 /\ latest' = 0 /\ rtcReset' = TRUE
           ELSE UNCHANGED <<counter, latest, rtcReset>>
    BY <2>1, Zenon DEF SwiStop
  <2>2. k \in 1 .. Len(list) /\ list[k] = h
    BY <2>1 DEF Listed
  <2> HIDE DEF SwiStop, h, k
  <2>9. h = t
    BY <1>3 DEF h
  <2>3. list' = SubSeq(list, 1, k - 1) \o SubSeq(list, k + 1, Len(list)) /\ list[k] = t
    BY <2>8, <2>2, <2>9
  <2>5. node' = LET stopped == [node EXCEPT ![t] = Unlisted]
                IN  IF k = Len(list) THEN stopped
                    ELSE [stopped EXCEPT ![list[k + 1]].toExpire = @ + node[t].toExpire]
    BY <2>8, <2>9
  <2>6. isr' = [isr EXCEPT !.update = @ \/ k = 1]
    BY <2>8
  <2>7. IF list' = <<>> THEN counter' = 0 /\ latest' = 0 /\ rtcReset' = TRUE
                        ELSE UNCHANGED <<counter, latest, rtcReset>>
    BY <2>8
  <2>4. IsRemove(list, node, k, list', node')
    BY <2>2, <2>3, <2>5 DEF IsRemove, Without
  <2> QED  BY <2>2, <2>3, <2>6, <2>7, <2>4, <1>2, <1>3, <1>4, <1>5, StopListedKeeps
<1> QED  BY <1>6, <1>7

\* The software interrupt stops all timers.
LEMMA SwiStopAllKeeps ==
    ASSUME IInv, SwiStopAll
    PROVE  IInv'
<1>1. /\ Types /\ NodesOK /\ OpsOK /\ BatchInv /\ ListInv /\ WalkInv
      /\ RunningInv /\ EveryInv /\ RestartInv /\ DistInv /\ StartsInv
      /\ ClockInv /\ WaitInv /\ HeadInv /\ UpdateInv
  BY DEF IInv
<1>2. /\ isr.pc = "insert" /\ isr.restart = <<>> /\ ops # <<>> /\ Head(ops).type = "stop_all" /\ ops' = Tail(ops)
      /\ UNCHANGED <<counter, cc, rtcRunning, rtcPending, swiPending, latest, expired, rtcReset, isr, lag>>
      /\ list' = <<>> /\ node' = [t \in Timers |-> IF Listed(t) THEN Unlisted ELSE node[t]]
      /\ due' = [t \in Timers |-> None]
  BY DEF SwiStopAll, Pops, hw
<1>3. isr' \in IsrType /\ isr'.pc = "insert" /\ isr'.restart = <<>>
  BY <1>1, <1>2 DEF Types
<1>4. /\ OpsOK' /\ ops' \in Seq(Op) /\ Len(ops') <= OpQueueSize
      /\ \A i \in 1 .. Len(ops') : \E j \in 1 .. Len(ops) : ops'[i] = ops[j]
      /\ OpsRemain
  BY <1>2, <1>3, PopKeeps
<1>5. InBatch /\ ~Walking /\ expired = None /\ InBatch' /\ ~Walking' /\ expired' = None
  BY <1>2, Inserting DEF InBatch, Walking
<1>6. Elapsed' = Elapsed /\ Compare' = Compare /\ Spare' = Spare
  BY <1>2 DEF Elapsed, Compare, Spare
<1>7. Len(list') = 0 /\ Places' = {} /\ \A t : ~Listed(t)'
  <2>1. Len(list') = 0 /\ 1 .. Len(list') = {}
    BY <1>2
  <2>2. Places' = {}
    BY <2>1 DEF Places
  <2> QED  BY <2>1, <2>2 DEF Listed
<1>8. ASSUME NEW t \in Timers
      PROVE  /\ node'[t] \in Node /\ ~node'[t].isRunning /\ due'[t] = None
             /\ node'[t] = Unlisted \/ (node'[t] = node[t] /\ ~Listed(t))
  <2>1. node[t] \in Node /\ due'[t] = None
    BY <1>1, <1>2 DEF Types, IsList
  <2>2. CASE Listed(t)
    <3>1. node'[t] = Unlisted
      BY <2>2, <1>2
    <3> QED  BY <3>1, <2>1, UnlistedIsNode DEF Unlisted
  <2>3. CASE ~Listed(t)
    <3>1. node'[t] = node[t]
      BY <2>3, <1>2
    <3>2. ~node[t].isRunning
      BY <2>3, <1>1 DEF RunningInv
    <3> QED  BY <2>3, <3>1, <3>2, <2>1
  <2> QED  BY <2>2, <2>3
<1>9. \A u : ~Restarting(u)'
  <2>1. Len(isr'.restart) = 0
    BY <1>3
  <2>2. ~(\E i \in 1 .. Len(isr'.restart) : TRUE)
    BY <2>1
  <2> QED  BY <2>2 DEF Restarting
<1>t. Types'
  <2>1. node' \in [Timers -> Node]
    <3>1. node' = [t \in Timers |-> node'[t]]
      BY <1>2
    <3> QED  BY <3>1, <1>8
  <2>2. list' \in Seq(Timers) /\ \A i, j \in 1 .. Len(list') : list'[i] = list'[j] => i = j
    <3>1. <<>> \in Seq(Timers) /\ 1 .. Len(list') = {}
      BY <1>7
    <3> QED  BY <3>1, <1>2
  <2>3. IsList(list', node')
    BY <2>1, <2>2 DEF IsList
  <2>4. due' \in [Timers -> DueType \cup {None}]
    BY <1>2
  <2> QED  BY <2>3, <2>4, <1>1, <1>2, <1>3, <1>4 DEF Types
<1>z. NodesOK'
  <2> SUFFICES ASSUME NEW u \in Timers
               PROVE  /\ node'[u].atStart \in Ticks
                      /\ node'[u].first \in Timeouts[u] \cup {0}
                      /\ node'[u].periodic \in Timeouts[u] \cup {0}
                      /\ node'[u].toExpire \in Ticks
    BY DEF NodesOK
  <2>1. 0 \in Ticks
    BY RangeIs
  <2>2. CASE node'[u] = Unlisted
    BY <2>1, <2>2 DEF Unlisted
  <2>3. CASE node'[u] = node[u] /\ ~Listed(u)
    BY <2>3, <1>1 DEF NodesOK
  <2> QED  BY <2>2, <2>3, <1>8
<1>b. BatchInv'
  BY <1>1, <1>2, <1>5 DEF BatchInv
<1>l. ListInv'
  BY <1>7 DEF ListInv
<1>w. WalkInv'
  BY <1>5 DEF WalkInv
<1>r. RunningInv'
  BY <1>7, <1>8 DEF RunningInv
<1>e. EveryInv'
  BY <1>8 DEF EveryInv
<1>s. RestartInv'
  BY <1>3, <1>9 DEF RestartInv
<1>d. DistInv'
  BY <1>7 DEF DistInv
<1>a. StartsInv'
  BY <1>1, <1>2, <1>4, <1>5, <1>6 DEF StartsInv
<1>c. ClockInv'
  BY <1>1, <1>2, <1>5, <1>6 DEF ClockInv
<1>v. WaitInv'
  BY <1>5 DEF WaitInv
<1>h. HeadInv'
  <2> SUFFICES ASSUME ~isr.update
               PROVE  /\ rtcRunning <=> isr.head # None
                      /\ isr.head # None =>
                           /\ Elapsed < Compare + lag
                           /\ ~rtcPending => Elapsed < Compare
                           /\ \A i \in 1 .. Len(ops') : ops'[i].type = "start" /\ ops'[i].timer = isr.head /\ Takes(i)' =>
                                \/ Compare <= Elapsed - ops'[i].age + ops'[i].ticks
                                \/ Compare <= Elapsed + CompareOffset
    <3>1. isr' = isr /\ rtcRunning' = rtcRunning /\ rtcPending' = rtcPending /\ lag' = lag /\ list' = <<>>
      BY <1>2
    <3> QED  BY <3>1, <1>6 DEF HeadInv
  <2>1. ASSUME isr.head # None, NEW i \in 1 .. Len(ops'), ops'[i].type = "start", ops'[i].timer = isr.head, Takes(i)'
        PROVE  \/ Compare <= Elapsed - ops'[i].age + ops'[i].ticks
               \/ Compare <= Elapsed + CompareOffset
    <3>1. PICK j \in 1 .. Len(ops) : ops'[i] = ops[j] /\ Takes(j)
      BY <2>1, <1>4 DEF OpsRemain
    <3> QED  BY <2>1, <3>1, <1>1, <1>2 DEF HeadInv
  <2>2. /\ rtcRunning <=> isr.head # None
        /\ isr.head # None => /\ Elapsed < Compare + lag
                              /\ ~rtcPending => Elapsed < Compare
    BY <1>1, <1>2 DEF HeadInv
  <2>3. isr.head # None => \A i \in 1 .. Len(ops') : ops'[i].type = "start" /\ ops'[i].timer = isr.head /\ Takes(i)' =>
                                \/ Compare <= Elapsed - ops'[i].age + ops'[i].ticks
                                \/ Compare <= Elapsed + CompareOffset
    BY <2>1
  <2> QED  BY <2>2, <2>3
<1>u. UpdateInv'
  <2>1. UpInv'
    <3>1. 1 .. Len(list') = {}
      BY <1>7
    <3> QED  BY <3>1 DEF UpInv, Bounded
  <2> QED  BY <2>1, <1>3 DEF UpdateInv
<1> QED  BY <1>t, <1>z, <1>4, <1>b, <1>l, <1>w, <1>r, <1>e, <1>s, <1>d, <1>a, <1>c, <1>v, <1>h, <1>u DEF IInv

-----------------------------------------------------------------------------
(* The invariant always holds.                                             *)

\* The invariant holds at the start.
LEMMA InitIInv == ASSUME Init PROVE IInv
<1>1. 0 \in Ticks /\ MaxLatency \in Nat /\ CounterRange \in Nat /\ MaxLatency < CounterRange /\ OpQueueSize \in Nat
  BY ConstantsAre, RangeIs
<1>2. Len(list) = 0 /\ Len(ops) = 0 /\ Places = {} /\ 1 .. Len(ops) = {} /\ list = <<>> /\ ops = <<>>
  <2>1. Len(list) = 0 /\ Len(ops) = 0 /\ list = <<>> /\ ops = <<>>
    BY DEF Init
  <2> QED  BY <2>1 DEF Places
<1>3. isr.pc = "idle" /\ ~Walking /\ ~InBatch /\ isr \in IsrType
  BY DEF Init, IsrIdle, Walking, InBatch, IsrType
<1>4. Elapsed = 0 /\ Spare = MaxLatency
  <2>1. lag = 0
    BY DEF Init
  <2>2. Elapsed = 0
    BY <1>1, DiffZero DEF Init, Elapsed
  <2> QED  BY <2>1, <2>2, <1>1 DEF Spare
<1>5. \A t : ~Listed(t) /\ ~Restarting(t) /\ ~Expiring(t)
  BY <1>2, <1>3 DEF Listed, Restarting, Expiring, Places
<1>6. \A t \in Timers : node[t] = Unlisted /\ due[t] = None
  BY DEF Init
<1>7. ASSUME NEW t \in Timers
      PROVE  /\ node[t].toExpire = 0 /\ node[t].atStart = 0 /\ node[t].first = 0 /\ node[t].periodic = 0
             /\ node[t].isRunning = FALSE /\ due[t] = None
  <2>1. node[t] = Unlisted /\ due[t] = None
    BY <1>6
  <2> QED  BY ONLY <2>1 DEF Unlisted
<1>t. Types
  <2>1. IsList(list, node)
    <3>1. node \in [Timers -> Node]
      BY UnlistedIsNode DEF Init
    <3>2. list \in Seq(Timers) /\ 1 .. Len(list) = {}
      BY <1>2
    <3> QED  BY <3>1, <3>2 DEF IsList
  <2>2. ops \in Seq(Op) /\ Len(ops) <= OpQueueSize
    BY <1>1, <1>2
  <2>3. due \in [Timers -> DueType \cup {None}]
    BY DEF Init
  <2>4. lag \in 0 .. MaxLatency
    BY <1>1 DEF Init
  <2>5. counter \in Ticks /\ cc \in Ticks /\ latest \in Ticks
    BY <1>1 DEF Init
  <2>6. /\ rtcRunning \in BOOLEAN /\ rtcPending \in BOOLEAN /\ swiPending \in BOOLEAN
        /\ rtcReset \in BOOLEAN
    BY DEF Init
  <2>7. expired \in Nat \cup {None}
    BY DEF Init
  <2>8. isr \in IsrType
    BY <1>3
  <2> QED  BY ONLY <2>1, <2>2, <2>3, <2>4, <2>5, <2>6, <2>7, <2>8 DEF Types
<1>z. NodesOK
  <2> SUFFICES ASSUME NEW t \in Timers
               PROVE  /\ node[t].atStart \in Ticks /\ node[t].first = 0 /\ node[t].periodic = 0
                      /\ node[t].toExpire \in Ticks
    BY DEF NodesOK
  <2> QED  BY <1>1, <1>7
<1>o. OpsOK
  BY <1>2 DEF OpsOK
<1>b. BatchInv
  BY DEF BatchInv, Init
<1>l. ListInv
  BY <1>2 DEF ListInv
<1>w. WalkInv
  <2>1. expired = None
    BY DEF Init
  <2>2. ~Walking
    BY <1>3
  <2> QED  BY ONLY <2>1, <2>2 DEF WalkInv
<1>r. RunningInv
  <2>1. \A t \in Timers : ~Listed(t) /\ ~node[t].isRunning /\ ~(due[t] # None)
    BY <1>5, <1>7
  <2> QED  BY ONLY <2>1 DEF RunningInv
<1>e. EveryInv
  BY <1>6 DEF EveryInv
<1>s. RestartInv
  BY <1>3, <1>5 DEF RestartInv
<1>d. DistInv
  BY <1>2 DEF DistInv
<1>a. StartsInv
  BY <1>2 DEF StartsInv
<1>c. ClockInv
  BY <1>1, <1>2, <1>4 DEF ClockInv, Init
<1>v. WaitInv
  BY <1>2 DEF WaitInv
<1>h. HeadInv
  BY <1>3 DEF HeadInv
<1>u. UpdateInv
  BY <1>3 DEF UpdateInv
<1> QED  BY <1>t, <1>z, <1>o, <1>b, <1>l, <1>w, <1>r, <1>e, <1>s, <1>d, <1>a, <1>c, <1>v, <1>h, <1>u DEF IInv

\* A step that changes nothing keeps it.
LEMMA StutterKeeps == ASSUME IInv, UNCHANGED vars PROVE IInv'
<1>1. /\ counter' = counter /\ cc' = cc /\ rtcRunning' = rtcRunning /\ rtcPending' = rtcPending
      /\ swiPending' = swiPending /\ list' = list /\ node' = node /\ ops' = ops /\ latest' = latest
      /\ expired' = expired /\ rtcReset' = rtcReset /\ isr' = isr /\ lag' = lag /\ due' = due
  BY DEF vars, hw, lists
<1>2. /\ A' = A /\ Elapsed' = Elapsed /\ Places' = Places /\ Compare' = Compare /\ Spare' = Spare
      /\ (InBatch' <=> InBatch) /\ (Walking' <=> Walking) /\ (Passed' <=> Passed)
  BY <1>1 DEF A, Elapsed, Places, Compare, Spare, InBatch, Walking, Passed
<1>3. ASSUME NEW t
      PROVE  /\ Listed(t)' <=> Listed(t)
             /\ Restarting(t)' <=> Restarting(t)
             /\ Expiring(t)' <=> Expiring(t)
             /\ \A ty : (Queued(ty, t)' <=> Queued(ty, t)) /\ (FirstOpIs(ty, t)' <=> FirstOpIs(ty, t))
             /\ Base(t)' = Base(t)
             /\ RestartOK(t) => RestartOK(t)'
  <2>1. Listed(t)' <=> Listed(t)
    BY <1>1 DEF Listed
  <2>2. Restarting(t)' <=> Restarting(t)
    BY <1>1 DEF Restarting
  <2>3. Expiring(t)' <=> Expiring(t)
    BY <1>1, <1>2 DEF Expiring
  <2>4. \A ty : (Queued(ty, t)' <=> Queued(ty, t)) /\ (FirstOpIs(ty, t)' <=> FirstOpIs(ty, t))
    BY <1>1 DEF Queued, FirstOpIs
  <2>5. Base(t)' = Base(t)
    BY <1>1 DEF Base
  <2>6. SinceTimeout(t)' = SinceTimeout(t)
    BY <1>1 DEF SinceTimeout
  <2>7. RestartOK(t) => RestartOK(t)'
    BY <2>1, <2>4, <2>6, <1>1, <1>2 DEF RestartOK, Late, Delay
  <2> QED  BY <2>1, <2>2, <2>3, <2>4, <2>5, <2>7
<1>t. Types => Types'
  BY <1>1 DEF Types
<1>z. NodesOK => NodesOK'
  BY <1>1, FrameNodes
<1>o. OpsOK => OpsOK'
  BY <1>1, FrameOps
<1>b. BatchInv => BatchInv'
  BY <1>1, <1>2 DEF BatchInv
<1>l. ListInv => ListInv'
  BY <1>1, FrameList
<1>w. WalkInv => WalkInv'
  BY <1>1, <1>2 DEF WalkInv
<1>r. RunningInv => RunningInv'
  BY <1>1, <1>2, <1>3 DEF RunningInv
<1>e. EveryInv => EveryInv'
  BY <1>1, FrameEvery
<1>s. RestartInv => RestartInv'
  BY <1>1, <1>3 DEF RestartInv
<1>d. DistInv => DistInv'
  BY <1>1, FrameDist
<1>a. StartsInv => StartsInv'
  BY <1>1, <1>2, FrameStarts
<1>c. ClockInv => ClockInv'
  BY <1>1, <1>2, FrameClock
<1>f. /\ CmpBound => CmpBound'
      /\ UpInv => UpInv'
      /\ FreshInv => FreshInv'
  BY <1>1, <1>2, FrameCmp, FrameUp, FrameFresh
<1>v. WaitInv => WaitInv'
  BY <1>1, <1>2, <1>f DEF WaitInv
<1>h. HeadInv => HeadInv'
  <2>1. HeadOf(list') = HeadOf(list)
    BY <1>1
  <2>2. \A i : Takes(i)' <=> Takes(i)
    BY <1>1, FrameTakes
  <2> QED  BY <2>1, <2>2, <1>1, <1>2, <1>f DEF HeadInv
<1>u. UpdateInv => UpdateInv'
  BY <1>1, <1>2, <1>f DEF UpdateInv
<1> QED  BY <1>t, <1>z, <1>o, <1>b, <1>l, <1>w, <1>r, <1>e, <1>s, <1>d, <1>a, <1>c, <1>v, <1>h, <1>u DEF IInv

\* Every step keeps the invariant.
LEMMA NextKeeps == ASSUME Usage = {}, IInv, [Next]_vars PROVE IInv'
<1>1. CASE Tick
  BY <1>1, TickKeeps
<1>2. ASSUME NEW t \in Timers, NEW d \in Timeouts[t], app_timer_start(t, d) PROVE IInv'
  BY <1>2, StartCallKeeps
<1>3. ASSUME NEW t \in Timers, app_timer_stop(t) PROVE IInv'
  BY <1>3, StopCallKeeps
<1>4. CASE app_timer_stop_all
  BY <1>4, StopAllCallKeeps
<1>5. CASE RtcEnter
  BY <1>5, RtcEnterKeeps
<1>6. CASE RtcExpire
  BY <1>6, RtcExpireKeeps
<1>7. CASE RtcHandlerReturns
  BY <1>7, RtcHandlerReturnsKeeps
<1>8. CASE RtcLeave
  BY <1>8, RtcLeaveKeeps
<1>9. CASE SwiNothingExpired
  BY <1>9, SwiNothingExpiredKeeps
<1>10. CASE SwiTakeExpired
  BY <1>10, SwiTakeExpiredKeeps
<1>11. CASE SwiRestart
  BY <1>11, SwiRestartKeeps
<1>12. CASE SwiStart
  BY <1>12, SwiStartKeeps
<1>13. CASE SwiStop
  BY <1>13, SwiStopKeeps
<1>14. CASE SwiStopAll
  BY <1>14, SwiStopAllKeeps
<1>15. CASE SwiNoUpdate
  BY <1>15, SwiNoUpdateKeeps
<1>16. CASE SwiUpdate
  BY <1>16, SwiUpdateKeeps
<1>17. CASE SwiStopRtc
  BY <1>17, SwiStopRtcKeeps
<1>18. CASE SwiReadCounter
  BY <1>18, SwiReadCounterKeeps
<1>19. CASE SwiSetCompare
  BY <1>19, SwiSetCompareKeeps
<1>20. CASE UNCHANGED vars
  BY <1>20, StutterKeeps
<1> QED
  BY <1>1, <1>2, <1>3, <1>4, <1>5, <1>6, <1>7, <1>8, <1>9, <1>10, <1>11, <1>12, <1>13, <1>14,
     <1>15, <1>16, <1>17, <1>18, <1>19, <1>20
  DEF Next, Calls, RTC1_IRQHandler, SWI_IRQHandler

\* It always holds.
LEMMA IInvAlways == ASSUME Usage = {} PROVE Spec => []IInv
<1>1. Init => IInv
  BY InitIInv
<1>2. IInv /\ [Next]_vars => IInv'
  BY NextKeeps
<1> HIDE DEF IInv, Init, Next, vars
<1> QED  BY <1>1, <1>2, PTL DEF Spec

-----------------------------------------------------------------------------
(* What follows from the invariant.                                        *)

\* The invariant gives each variable its type.
LEMMA TypesFit == ASSUME IInv PROVE TypeOK
<1>1. Types /\ NodesOK /\ ListInv /\ WalkInv
  BY DEF IInv
<1>2. /\ A \in [0 .. Len(list) -> Nat] /\ A[0] = 0 /\ Len(list) \in Nat
      /\ Elapsed \in Nat /\ Elapsed < CounterRange
      /\ \A i \in Places : list[i] \in Timers
  BY <1>1, Numbers
<1>3. node \in [Timers -> Node] /\ DOMAIN node = Timers
  BY <1>1 DEF Types, IsList
<1>4. ASSUME NEW i \in Places PROVE node[list[i]].toExpire \in Ticks
  <2>1. A[i] <= Span
    BY <1>1 DEF ListInv
  <2>2. A[i] = A[i - 1] + node[list[i]].toExpire /\ node[list[i]].toExpire \in Nat
    BY <1>1, AfterOfList DEF Types, A, Places
  <2>3. A[i] \in Nat /\ A[i - 1] \in Nat
    BY <1>2 DEF Places
  <2>4. Span < CounterRange /\ Span \in Int
    <3>1. Late(1) \in Nat
      <4>1. i \in 1 .. Cardinality(Timers)
        <5>1. Len(list) <= Cardinality(Timers) /\ Cardinality(Timers) \in Nat
          BY <1>1, ListFits, ConstantsAre DEF Types
        <5> QED  BY <5>1, <1>2 DEF Places
      <4> QED  BY <4>1, LateIs
    <3>2. MaxLatency \in Nat /\ CounterRange \in Nat
      BY ConstantsAre
    <3> QED  BY <3>1, <3>2 DEF Span
  <2>5. CounterRange \in Nat
    BY RangeIs
  <2>6. node[list[i]].toExpire < CounterRange
    BY <2>1, <2>2, <2>3, <2>4, <2>5
  <2> QED  BY <2>2, <2>6, RangeIs
<1>5. ASSUME NEW t \in Timers PROVE node[t] \in NodeType(t)
  <2>1. node[t].toExpire \in Ticks
    <3>1. CASE Listed(t)
      <4>1. PICK i \in Places : list[i] = t
        BY <3>1 DEF Listed, Places
      <4> QED  BY <4>1, <1>4
    <3>2. CASE ~Listed(t)
      BY <3>2, <1>1 DEF NodesOK
    <3> QED  BY <3>1, <3>2
  <2>2. /\ node[t].atStart \in Ticks /\ node[t].first \in Timeouts[t] \cup {0}
        /\ node[t].periodic \in Timeouts[t] \cup {0}
    BY <1>1 DEF NodesOK
  <2>3. node[t] \in Node
    BY <1>3
  <2> QED  BY ONLY <2>1, <2>2, <2>3 DEF Node, NodeType
<1>6. expired \in Ticks \cup {None}
  <2>1. CASE expired = None
    BY <2>1
  <2>2. CASE expired # None
    <3>1. expired \in Nat /\ expired <= Elapsed
      BY <2>2, <1>1 DEF Types, WalkInv
    <3>2. CounterRange \in Nat
      BY RangeIs
    <3>3. expired < CounterRange
      BY <3>1, <3>2, <1>2
    <3> QED  BY <3>1, <3>3, RangeIs
  <2> QED  BY <2>1, <2>2
<1>7. \A i \in 1 .. Len(list) : list[i] \in Timers
  BY <1>2 DEF Places
<1>8. /\ counter \in Ticks /\ cc \in Ticks /\ latest \in Ticks
      /\ rtcRunning \in BOOLEAN /\ rtcPending \in BOOLEAN /\ swiPending \in BOOLEAN
      /\ rtcReset \in BOOLEAN /\ lag \in 0 .. MaxLatency
      /\ Len(ops) <= OpQueueSize
  BY <1>1 DEF Types
<1>9. DOMAIN node = Timers /\ \A t \in Timers : node[t] \in NodeType(t)
  BY <1>3, <1>5
<1> QED  BY <1>6, <1>7, <1>8, <1>9 DEF TypeOK

\* Each variable of app_timer.c has its type: the ticks to a timer always fit
\* into the 24 bits of the counter.
THEOREM AppTimerTypeOK == ASSUME Usage = {} PROVE Spec => []TypeOK
<1>1. IInv => TypeOK
  BY TypesFit
<1>2. Spec => []IInv
  BY IInvAlways
<1> HIDE DEF IInv, TypeOK
<1> QED  BY <1>1, <1>2, PTL

\* A timer is at most once in the list, and there if it is marked as running.
THEOREM TimerListIsSound == ASSUME Usage = {} PROVE Spec => []ListIsSound
<1>1. IInv => ListIsSound
  <2> SUFFICES ASSUME IInv PROVE ListIsSound
    OBVIOUS
  <2>1. \A i, j \in 1 .. Len(list) : list[i] = list[j] => i = j
    BY DEF IInv, Types, IsList
  <2>2. \A t \in Timers : node[t].isRunning => Listed(t)
    BY DEF IInv, RunningInv
  <2> QED  BY <2>1, <2>2 DEF ListIsSound
<1>2. Spec => []IInv
  BY IInvAlways
<1> HIDE DEF IInv, ListIsSound
<1> QED  BY <1>1, <1>2, PTL

\* The distances in the list add up to what is due, and no more than MaxLatency
\* beyond it.
THEOREM TimerDistancesTellTheTime ==
    ASSUME Usage = {} PROVE Spec => []DistancesTellTheTime
<1>1. ASSUME IInv PROVE DistancesTellTheTime
  <2> SUFFICES ASSUME NEW i \in 1 .. Len(list), node[list[i]].isRunning, ~Queued("stop", list[i])
               PROVE  A[i] - Elapsed \in due[list[i]].left .. due[list[i]].left + MaxLatency
    BY DEF DistancesTellTheTime, A, Elapsed
  <2>1. Types /\ DistInv /\ RunningInv
    BY <1>1 DEF IInv
  <2>2. A[i] \in Nat /\ Elapsed \in Nat /\ list[i] \in Timers /\ i \in Places
    BY <2>1, Numbers DEF Places
  <2>3. due[list[i]] # None
    BY <2>1, <2>2 DEF RunningInv
  <2>4. due[list[i]].left \in Int
    <3>1. due[list[i]] \in DueType
      BY <2>1, <2>2, <2>3 DEF Types
    <3> QED  BY <3>1 DEF DueType
  <2>5. Base(list[i]) = due[list[i]].left
    BY DEF Base
  <2>6. Base(list[i]) <= A[i] - Elapsed /\ A[i] - Elapsed <= Base(list[i]) + MaxLatency
    BY <2>1, <2>2, <2>3 DEF DistInv
  <2>7. MaxLatency \in Nat
    BY ConstantsAre
  <2> QED  BY <2>2, <2>4, <2>5, <2>6, <2>7
<1>2. Spec => []IInv
  BY IInvAlways
<1> HIDE DEF IInv, DistancesTellTheTime
<1> QED  BY <1>1, <1>2, PTL

\* Nothing is under way: the head of the list runs.
LEMMA QuietHead ==
    ASSUME IInv, ~Busy, list # <<>>
    PROVE  /\ ~InBatch /\ ~Passed /\ ops = <<>> /\ 1 \in Places
           /\ \A i \in Places : node[list[i]].isRunning /\ due[list[i]] # None /\ ~Queued("stop", list[i])
<1>1. Types /\ OpsOK /\ BatchInv /\ RunningInv
  BY DEF IInv
<1>2. ~rtcPending /\ ~swiPending /\ isr.pc = "idle"
  BY DEF Busy
<1>3. ~InBatch /\ ~Walking /\ isr.pc # "insert"
  BY <1>2 DEF InBatch, Walking
<1>4. expired = None
  BY <1>1, <1>2 DEF BatchInv
<1>5. ops = <<>>
  BY <1>1, <1>2, <1>3 DEF OpsOK
<1>6. ~Passed
  BY <1>2, <1>3, <1>4 DEF Passed
<1>7. 1 \in Places
  <2>1. list \in Seq(Timers)
    BY <1>1 DEF Types, IsList
  <2>2. Len(list) # 0 /\ Len(list) \in Nat
    BY <2>1
  <2> QED  BY <2>2 DEF Places
<1>8. ASSUME NEW i \in Places
      PROVE  node[list[i]].isRunning /\ due[list[i]] # None /\ ~Queued("stop", list[i])
  <2>1. list[i] \in Timers /\ Listed(list[i])
    BY <1>1, Numbers DEF Listed, Places
  <2>2. \A ty : ~Queued(ty, list[i]) /\ ~FirstOpIs(ty, list[i])
    BY <1>5 DEF Queued, FirstOpIs
  <2>3. ~Expiring(list[i])
    BY <1>3, <1>4 DEF Expiring
  <2>4. node[list[i]].isRunning
    BY <1>1, <2>1, <2>2, <2>3 DEF RunningInv
  <2>5. due[list[i]] # None
    BY <1>1, <2>1, <2>4 DEF RunningInv
  <2> QED  BY <2>2, <2>4, <2>5
<1> QED  BY <1>3, <1>5, <1>6, <1>7, <1>8

-----------------------------------------------------------------------------
(* The properties of CC[0], and of the lateness of a handler.              *)

\* CC[0] is set in time whenever no interrupt work is outstanding.
THEOREM TimerCompareIsSet == ASSUME Usage = {} PROVE Spec => []CompareIsSet
<1>1. ASSUME IInv PROVE CompareIsSet
  <2> SUFFICES ASSUME ~Busy, list # <<>>
               PROVE  /\ rtcRunning
                      /\ ticks_diff_get(cc, counter) <= due[list[1]].left + Jitter
    BY DEF CompareIsSet
  <2>1. Types /\ DistInv /\ ClockInv /\ WaitInv
    BY <1>1 DEF IInv
  <2>2. /\ ~InBatch /\ ~Passed /\ 1 \in Places
        /\ node[list[1]].isRunning /\ due[list[1]] # None /\ ~Queued("stop", list[1])
    BY <1>1, QuietHead
  <2>3. rtcRunning
    BY <2>1, <2>2 DEF ClockInv
  <2>4. CmpBound /\ Elapsed < Compare
    BY <2>1, <2>2 DEF WaitInv
  <2>5. /\ A[1] \in Nat /\ Elapsed \in Nat /\ Compare \in Nat /\ list[1] \in Timers
    BY <2>1, <2>2, Numbers DEF Places
  <2>6. ticks_diff_get(cc, counter) = Compare - Elapsed
    <3>1. cc \in Ticks /\ counter \in Ticks /\ latest \in Ticks
      BY <2>1 DEF Types
    <3>2. ticks_diff_get(counter, latest) <= ticks_diff_get(cc, latest)
      BY <2>4, <2>5 DEF Elapsed, Compare
    <3> QED  BY <3>1, <3>2, DiffDiff DEF Elapsed, Compare
  <2>7. Compare <= A[1] + Late(1)
    BY <2>2, <2>4 DEF CmpBound, Bounded, A, Places
  <2>8. A[1] - Elapsed <= due[list[1]].left + MaxLatency
    <3>1. A[1] - Elapsed <= Base(list[1]) + MaxLatency
      BY <2>1, <2>2 DEF DistInv
    <3> QED  BY <3>1, <2>2 DEF Base
  <2>9. due[list[1]].left \in Int
    <3>1. due[list[1]] \in DueType
      BY <2>1, <2>2, <2>5 DEF Types
    <3> QED  BY <3>1 DEF DueType
  <2>10. Late(1) \in Nat
    <3>1. Len(list) <= Cardinality(Timers) /\ Cardinality(Timers) \in Nat /\ Len(list) \in Nat
      BY <2>1, ListFits, ConstantsAre, Numbers DEF Types
    <3>2. 1 \in 1 .. Cardinality(Timers)
      BY <3>1, <2>2 DEF Places
    <3> QED  BY <3>2, LateIs
  <2>11. Jitter \in Nat /\ MaxLatency \in Nat /\ Jitter = Late(1) + 2 * MaxLatency
    BY ConstantsAre DEF Jitter
  <2>12. Compare - Elapsed <= due[list[1]].left + Jitter
    <3> DEFINE l == due[list[1]].left
               a == A[1]
               L == Late(1)
    <3>1. l \in Int /\ a \in Nat /\ L \in Nat /\ Compare <= a + L /\ a - Elapsed <= l + MaxLatency
          /\ Jitter = L + 2 * MaxLatency
      BY <2>5, <2>7, <2>8, <2>9, <2>10, <2>11
    <3> HIDE DEF l, a, L
    <3>2. Compare - Elapsed <= l + Jitter
      BY <3>1, <2>5, <2>11
    <3> QED  BY <3>2 DEF l
  <2> QED  BY <2>3, <2>6, <2>12
<1>2. Spec => []IInv
  BY IInvAlways
<1> HIDE DEF IInv, CompareIsSet
<1> QED  BY <1>1, <1>2, PTL

-----------------------------------------------------------------------------
(* The timer module implements TimerService.                               *)

\* How late the timer at place i of the list can be.
LEMMA ListedNotTooLate ==
    ASSUME IInv, Busy => lag < MaxLatency, NEW i \in Places
    PROVE  Elapsed - A[i] < Late(1) + MaxLatency
<1>1. Types /\ WaitInv /\ HeadInv /\ UpdateInv
  BY DEF IInv
<1>2. /\ A[i] \in Nat /\ Elapsed \in Nat /\ Compare \in Nat /\ lag \in Nat /\ Spare \in Nat
      /\ lag <= MaxLatency /\ list[i] \in Timers
  BY <1>1, Numbers DEF Places
<1>3. MaxLatency \in Nat /\ CompareOffset \in Nat /\ CompareOffset >= 1
  BY ConstantsAre
<1>4. Late(i) \in Nat /\ Late(1) \in Nat /\ Late(i) <= Late(1)
  <2>1. Len(list) <= Cardinality(Timers) /\ Cardinality(Timers) \in Nat /\ Len(list) \in Nat
    BY <1>1, ListFits, ConstantsAre, Numbers DEF Types
  <2>2. i \in 1 .. Cardinality(Timers)
    BY <2>1 DEF Places
  <2> QED  BY <2>2, LateIs
<1>5. list # <<>>
  BY DEF Places
<1>6. CmpBound => Compare <= A[i] + Late(i)
  BY DEF CmpBound, Bounded, A, Places
<1>7. UpInv => Elapsed + CompareOffset + Spare <= A[i] + Late(i)
  BY DEF UpInv, Bounded, A, Places
<1>8. FreshInv => Elapsed + CompareOffset + Spare <= A[i] + Late(i)
  <2>1. Late(i) >= Delay /\ Delay \in Nat
    BY <1>1, LateOf DEF Types, Places
  <2>2. FreshInv => Elapsed + CompareOffset + Spare <= A[i] + Delay
    BY DEF FreshInv
  <2> QED  BY <2>1, <2>2, <1>2, <1>3, <1>4
<1> DEFINE a == A[i]
           L == Late(i)
           M == Late(1)
<1>9. /\ a \in Nat /\ L \in Nat /\ M \in Nat /\ L <= M
      /\ CmpBound => Compare <= a + L
      /\ UpInv => Elapsed + CompareOffset + Spare <= a + L
      /\ FreshInv => Elapsed + CompareOffset + Spare <= a + L
  BY <1>2, <1>4, <1>6, <1>7, <1>8
<1> SUFFICES Elapsed - a < M + MaxLatency
  OBVIOUS
<1> HIDE DEF a, L, M
<1>10. CASE ~InBatch
  <2>1. CmpBound /\ Elapsed <= Compare + lag /\ (~Passed => Elapsed < Compare)
    BY <1>1, <1>5, <1>10 DEF WaitInv
  <2>2. CASE Busy
    <3>1. Compare <= a + L /\ Elapsed <= Compare + lag /\ lag < MaxLatency
      BY <1>9, <2>1, <2>2
    <3> QED  BY ONLY <3>1, <1>2, <1>3, <1>9
  <2>3. CASE ~Busy
    <3>1. ~Passed
      BY <2>3, QuietHead, <1>5
    <3>2. Compare <= a + L /\ Elapsed < Compare
      BY <1>9, <2>1, <3>1
    <3> QED  BY ONLY <3>2, <1>2, <1>3, <1>9
  <2> QED  BY <2>2, <2>3
<1>11. CASE InBatch
  <2>1. lag < MaxLatency
    BY <1>11 DEF InBatch, Busy
  <2>2. CASE UpInv
    <3>1. Elapsed + CompareOffset + Spare <= a + L
      BY <1>9, <2>2
    <3> QED  BY ONLY <3>1, <1>2, <1>3, <1>9
  <2>3. CASE FreshInv
    <3>1. Elapsed + CompareOffset + Spare <= a + L
      BY <1>9, <2>3
    <3> QED  BY ONLY <3>1, <1>2, <1>3, <1>9
  <2>4. CASE CmpBound /\ Elapsed < Compare + lag
    <3>1. Compare <= a + L /\ Elapsed < Compare + lag
      BY <1>9, <2>4
    <3> QED  BY ONLY <3>1, <2>1, <1>2, <1>3, <1>9
  <2>5. UpInv \/ FreshInv \/ (CmpBound /\ Elapsed < Compare + lag)
    <3>1. CASE isr.pc = "insert" /\ ~isr.update
      <4>1. HeadOf(list) # isr.head => FreshInv
        BY <1>1, <1>5, <3>1 DEF HeadInv
      <4>2. CASE HeadOf(list) = isr.head
        <5>1. isr.head # None
          <6>1. 1 \in Places
            BY <1>1, Numbers DEF Places
          <6>2. list[1] \in Timers
            BY <1>1, <6>1, Numbers
          <6> QED  BY <6>2, <4>2, <1>5, NoneIsNothing DEF HeadOf
        <5> QED  BY <5>1, <4>2, <1>1, <1>5, <3>1 DEF HeadInv
      <4> QED  BY <4>1, <4>2
    <3>2. CASE isr.pc = "insert" /\ isr.update
      BY <3>2, <1>1 DEF UpdateInv
    <3>3. CASE isr.pc \in {"update", "compare"}
      BY <3>3, <1>1 DEF UpdateInv
    <3> QED  BY <3>1, <3>2, <3>3, <1>11 DEF InBatch
  <2> QED  BY <2>2, <2>3, <2>4, <2>5
<1> QED  BY <1>10, <1>11

\* A tick that may pass makes no timer more than Jitter ticks late.
LEMMA NotTooLate ==
    ASSUME IInv, Busy => lag < MaxLatency,
           NEW t \in Timers, due[t] # None, ~Queued("stop", t)
    PROVE  due[t].left > -Jitter
<1>1. Types /\ RunningInv /\ DistInv /\ RestartInv
  BY DEF IInv
<1>2. Elapsed \in Nat /\ Spare \in Nat
  BY <1>1, Numbers
<1>3. MaxLatency \in Nat /\ CompareOffset \in Nat /\ Jitter \in Nat /\ Delay \in Nat
  BY ConstantsAre
<1>4. due[t].left \in Int /\ due[t].every \in Nat
  <2>1. due[t] \in DueType
    BY <1>1 DEF Types
  <2> QED  BY <2>1 DEF DueType
<1>5. Late(1) \in Nat /\ Jitter = Late(1) + 2 * MaxLatency
  <2>1. Cardinality(Timers) \in Nat /\ IsFiniteSet(Timers)
    BY ConstantsAre, TimingAssumption DEF TimesFit
  <2>2. Cardinality(Timers) # 0
    BY <2>1, FS_EmptySet
  <2>3. 1 \in 1 .. Cardinality(Timers)
    BY <2>1, <2>2
  <2> QED  BY <2>3, LateIs DEF Jitter
<1>6. CASE Listed(t)
  <2>1. PICK i \in Places : list[i] = t
    BY <1>6 DEF Listed, Places
  <2>2. Elapsed - A[i] < Late(1) + MaxLatency /\ A[i] \in Nat
    <3>1. A[i] \in Nat
      BY <1>1, Numbers DEF Places
    <3> QED  BY <3>1, ListedNotTooLate
  <2>3. A[i] - Elapsed <= Base(t) + MaxLatency
    BY <1>1, <2>1 DEF DistInv
  <2>4. Base(t) <= due[t].left /\ Base(t) \in Int
    BY <1>4 DEF Base
  <2> DEFINE L == Late(1)
             a == A[i]
             b == Base(t)
             d == due[t].left
  <2>5. /\ L \in Nat /\ a \in Nat /\ b \in Int /\ d \in Int
        /\ Elapsed - a < L + MaxLatency /\ a - Elapsed <= b + MaxLatency /\ b <= d
        /\ Jitter = L + 2 * MaxLatency
    BY <1>4, <1>5, <2>2, <2>3, <2>4
  <2> HIDE DEF L, a, b, d
  <2>6. d > -Jitter
    BY ONLY <2>5, <1>2, <1>3
  <2> QED  BY <2>6 DEF d
<1>7. CASE ~Listed(t)
  <2>1. ~node[t].isRunning
    BY <1>1, <1>7 DEF RunningInv
  <2>2. ~FirstOpIs("stop", t)
    BY DEF FirstOpIs, Queued
  <2>3. ~Expiring(t)
    BY <1>7 DEF Expiring, Listed, Places
  <2>4. Restarting(t)
    BY <1>1, <2>1, <2>2, <2>3 DEF RunningInv
  <2>5. RestartOK(t)
    BY <1>1, <2>4 DEF RestartInv
  <2> DEFINE f == node[t].first - SinceTimeout(t)
             d == due[t].left
  <2>6. /\ Elapsed + CompareOffset + Spare <= f + Delay
        /\ f - Elapsed <= d + MaxLatency
    BY <2>5 DEF RestartOK
  <2>7. f \in Int /\ d \in Int
    <3>1. node[t].first \in Nat /\ node[t].atStart \in Ticks
      <4>1. NodesOK /\ node[t] \in Node
        BY <1>1 DEF IInv, Types, IsList
      <4> QED  BY <4>1 DEF NodesOK, Node
    <3>2. latest \in Ticks
      BY <1>1 DEF Types
    <3>3. SinceTimeout(t) \in Ticks
      BY <3>1, <3>2, DiffIs DEF SinceTimeout
    <3>4. SinceTimeout(t) \in Nat
      BY <3>3, RangeIs
    <3> QED  BY <3>1, <3>4, <1>4
  <2> HIDE DEF f, d
  <2> DEFINE L == Late(1)
  <2>8. L \in Nat /\ Jitter = L + 2 * MaxLatency /\ Delay = CompareOffset + MaxLatency - 1
    BY <1>5 DEF Delay
  <2> HIDE DEF L
  <2>9. d > -Jitter
    BY ONLY <2>6, <2>7, <2>8, <1>2, <1>3
  <2> QED  BY <2>9 DEF d
<1> QED  BY <1>6, <1>7

\* A timer whose handler is called has timed out, and nobody asked it to stop.
LEMMA CalledInTime ==
    ASSUME IInv, isr.pc = "scan", ScanFinds,
           NEW t, t = list[isr.next], node[t].isRunning
    PROVE  t \in Timers /\ due[t] # None /\ due[t].left <= 0 /\ ~Queued("stop", t)
<1>1. Types /\ RunningInv /\ DistInv /\ WalkInv
  BY DEF IInv
<1>2. Walking /\ ~InBatch
  BY DEF Walking, InBatch
<1> DEFINE i == isr.next
<1>3. i \in Places /\ i - 1 \in 0 .. Len(list) /\ i \in Nat /\ isr.expired \in Nat /\ isr.elapsed \in Nat
  <2>1. isr.next \in Nat /\ isr.expired \in Nat /\ isr.elapsed \in Nat
    BY <1>1, IsrCases DEF Types
  <2>2. isr.next >= 1 /\ isr.next <= Len(list)
    BY <1>1, <1>2 DEF WalkInv, ScanFinds
  <2>3. Len(list) \in Nat
    BY <1>1, Numbers
  <2> QED  BY <2>1, <2>2, <2>3 DEF Places
<1>4. t \in Timers /\ t = list[i]
  BY <1>1, <1>3, Numbers
<1>5. due[t] # None /\ ~Queued("stop", t)
  BY <1>1, <1>2, <1>4 DEF RunningInv
<1>6. A[i] <= Elapsed
  <2>1. isr.expired = A[i - 1] /\ isr.elapsed + isr.expired <= Elapsed
    BY <1>1, <1>2 DEF WalkInv
  <2>2. A[i] = A[i - 1] + node[t].toExpire /\ node[t].toExpire \in Nat
    <3>1. IsList(list, node) /\ i \in 1 .. Len(list)
      BY <1>1, <1>3 DEF Types, Places
    <3>2. A[i] = A[i - 1] + node[list[i]].toExpire /\ node[list[i]].toExpire \in Nat
      <4> HIDE DEF i
      <4> QED  BY <3>1, AfterOfList DEF A
    <3> QED  BY <3>2, <1>4
  <2>3. node[t].toExpire <= isr.elapsed
    BY <1>4 DEF ScanFinds
  <2>4. A[i] \in Nat /\ A[i - 1] \in Nat /\ Elapsed \in Nat
    BY <1>1, <1>3, Numbers DEF Places
  <2> QED  BY <2>1, <2>2, <2>3, <2>4, <1>3
<1>7. Base(t) <= A[i] - Elapsed
  BY <1>1, <1>3, <1>4, <1>5 DEF DistInv
<1>8. due[t].left = Base(t) /\ due[t].left \in Int
  <2>1. due[t] \in DueType
    BY <1>1, <1>4, <1>5 DEF Types
  <2> QED  BY <2>1 DEF DueType, Base
<1>9. A[i] \in Nat /\ Elapsed \in Nat
  BY <1>1, <1>3, Numbers DEF Places
<1>10. due[t].left <= 0
  BY <1>6, <1>7, <1>8, <1>9
<1> QED  BY <1>4, <1>5, <1>10

\* A start that the software interrupt takes from the queue while its timer is
\* not running is a start of a timer that is not due.
LEMMA StartOfNoneDue ==
    ASSUME IInv, Pops("start"),
           NEW t, t = Head(ops).timer, ~node[t].isRunning
    PROVE  t \in Timers /\ due[t] = None
<1>1. Types /\ OpsOK /\ BatchInv /\ RunningInv
  BY DEF IInv
<1>2. /\ isr.pc = "insert" /\ isr.restart = <<>> /\ ops # <<>> /\ ops \in Seq(Op)
      /\ 1 \in 1 .. Len(ops) /\ Head(ops) = ops[1] /\ ops[1].type = "start"
  <2>1. isr.pc = "insert" /\ isr.restart = <<>> /\ ops # <<>> /\ Head(ops).type = "start"
    BY DEF Pops
  <2>2. ops \in Seq(Op)
    BY <1>1 DEF Types
  <2>3. 1 \in 1 .. Len(ops) /\ Head(ops) = ops[1]
    BY <2>1, <2>2
  <2> QED  BY <2>1, <2>2, <2>3
<1>3. t \in Timers /\ ops[1].timer = t
  BY <1>1, <1>2 DEF OpsOK
<1>4. ~FirstOpIs("stop", t)
  <2> SUFFICES ASSUME NEW i \in 1 .. Len(ops), ops[i].type = "stop",
                      \A j \in 1 .. i - 1 : ops[j].timer # t
               PROVE  FALSE
    BY DEF FirstOpIs
  <2>1. i # 1
    BY <1>2
  <2>2. 1 \in 1 .. i - 1
    BY <2>1
  <2> QED  BY <2>2, <1>3
<1>5. ~Expiring(t)
  <2>1. ~Walking /\ InBatch
    BY <1>2 DEF Walking, InBatch
  <2>2. expired = None
    BY <1>1, <2>1 DEF BatchInv
  <2> QED  BY <2>1, <2>2 DEF Expiring
<1>6. ~Restarting(t)
  BY <1>2 DEF Restarting
<1> QED  BY <1>1, <1>3, <1>4, <1>5, <1>6 DEF RunningInv

-----------------------------------------------------------------------------
(* The refinement of TimerService.                                         *)

\* The requests of the service.
Request(op) == [type |-> op.type, timer |-> op.timer, ticks |-> op.ticks, age |-> op.age]

\* The queue of operations, as requests.
Requests == [i \in 1 .. Len(ops) |-> Request(ops[i])]

\* The requests are those of the operations, in order.
LEMMA RequestsAre ==
    ASSUME ops \in Seq(Op)
    PROVE  /\ Len(Requests) = Len(ops) /\ Len(ops) \in Nat /\ DOMAIN Requests = 1 .. Len(ops)
           /\ (Requests = <<>> <=> ops = <<>>)
           /\ \A i \in 1 .. Len(ops) : Requests[i] = Request(ops[i])
           /\ Requests \in Seq({Request(ops[i]) : i \in 1 .. Len(ops)})
<1>1. Len(ops) \in Nat
  OBVIOUS
<1>2. DOMAIN Requests = 1 .. Len(ops) /\ \A i \in 1 .. Len(ops) : Requests[i] = Request(ops[i])
  BY DEF Requests
<1>3. Requests \in Seq({Request(ops[i]) : i \in 1 .. Len(ops)})
  <2>1. Requests \in [1 .. Len(ops) -> {Request(ops[i]) : i \in 1 .. Len(ops)}]
    BY DEF Requests
  <2> QED  BY <1>1, <2>1
<1>4. Len(Requests) = Len(ops)
  BY <1>1, <1>2, <1>3
<1>5. Requests = <<>> <=> ops = <<>>
  BY <1>1, <1>3, <1>4
<1> QED  BY <1>1, <1>2, <1>3, <1>4, <1>5

\* Append, entry by entry.
LEMMA AppendIs ==
    ASSUME NEW S, NEW s \in Seq(S), NEW e
    PROVE  Append(s, e) = [i \in 1 .. Len(s) + 1 |-> IF i = Len(s) + 1 THEN e ELSE s[i]]
<1>1. s \in Seq(S \cup {e}) /\ e \in S \cup {e} /\ Len(s) \in Nat
  <2>1. Len(s) \in Nat /\ s \in [1 .. Len(s) -> S]
    OBVIOUS
  <2>2. s \in [1 .. Len(s) -> S \cup {e}]
    BY <2>1
  <2> QED  BY <2>1, <2>2
<1> DEFINE a == Append(s, e)
<1>2. a \in Seq(S \cup {e}) /\ Len(a) = Len(s) + 1 /\ a[Len(s) + 1] = e /\ \A i \in 1 .. Len(s) : a[i] = s[i]
  BY <1>1
<1> HIDE DEF a
<1>3. a = [i \in 1 .. Len(s) + 1 |-> a[i]]
  BY <1>2
<1>4. ASSUME NEW i \in 1 .. Len(s) + 1 PROVE a[i] = IF i = Len(s) + 1 THEN e ELSE s[i]
  <2>1. i # Len(s) + 1 => i \in 1 .. Len(s)
    BY <1>1
  <2> QED  BY <2>1, <1>2
<1>5. a = [i \in 1 .. Len(s) + 1 |-> IF i = Len(s) + 1 THEN e ELSE s[i]]
  BY <1>3, <1>4
<1> QED  BY <1>5 DEF a

\* Tail, entry by entry.
LEMMA TailOfQueue ==
    ASSUME NEW S, NEW s \in Seq(S), s # <<>>, NEW a, a = Tail(s)
    PROVE  /\ a \in Seq(S) /\ Len(a) = Len(s) - 1 /\ Len(a) \in Nat
           /\ \A i \in 1 .. Len(s) - 1 : a[i] = s[i + 1]
OBVIOUS

\* What the service's steps are in the module's variables.
LEMMA StutterIs == ops' = ops /\ due' = due => UNCHANGED Service!vars
BY DEF Service!vars

\* Appending a request is asking for it.
LEMMA AskIs ==
    ASSUME NEW r, Len(Requests) < OpQueueSize, Requests' = Append(Requests, r), due' = due
    PROVE  Service!Ask(r)
BY DEF Service!Ask, Requests, Request

\* StopAsked, for these requests.
LEMMA StopAskedIs == ASSUME NEW t PROVE Service!StopAsked(t) <=> \E i \in 1 .. Len(Requests) :
                    Requests[i].type = "stop" /\ Requests[i].timer = t
BY DEF Service!StopAsked, Requests, Request

\* A stop was asked for exactly if its operation is queued.
LEMMA StopAskedQueued ==
    ASSUME ops \in Seq(Op), NEW t PROVE Service!StopAsked(t) <=> Queued("stop", t)
<1>1. /\ Len(Requests) = Len(ops)
      /\ \A i \in 1 .. Len(ops) : Requests[i] = Request(ops[i])
  BY RequestsAre
<1>2. \A i \in 1 .. Len(ops) : Requests[i].type = ops[i].type /\ Requests[i].timer = ops[i].timer
  <2> SUFFICES ASSUME NEW i \in 1 .. Len(ops)
               PROVE  Requests[i].type = ops[i].type /\ Requests[i].timer = ops[i].timer
    OBVIOUS
  <2>1. Requests[i] = Request(ops[i])
    BY <1>1
  <2> QED  BY ONLY <2>1 DEF Request
<1> QED  BY <1>1, <1>2, StopAskedIs DEF Queued

\* Calling the handler of a timer that is due and not asked to stop is a timeout.
LEMMA TimeoutIs ==
    ASSUME ops \in Seq(Op), NEW t \in Timers, due[t] # None, due[t].left <= 0, ~Queued("stop", t),
           due' = [due EXCEPT ![t] = AfterTimeout(@)], ops' = ops
    PROVE  Service!Timeout(t)
<1>1. ~Service!StopAsked(t)
  BY StopAskedQueued
<1>2. \A d : Service!AfterTimeout(d) = AfterTimeout(d)
  BY DEF Service!AfterTimeout, AfterTimeout
<1>3. due' = [due EXCEPT ![t] = Service!AfterTimeout(@)]
  BY <1>2
<1> QED  BY <1>1, <1>3 DEF Service!Timeout

\* A call adds its request.
LEMMA EnqueueAsks ==
    ASSUME ops \in Seq(Op), NEW op, Len(ops) < OpQueueSize, Enqueue(op)
    PROVE  Service!Ask(Request(op))
<1>1. ops' = Append(ops, op) /\ due' = due
  BY DEF Enqueue
<1>2. Len(Requests) = Len(ops) /\ Len(ops) \in Nat
  BY RequestsAre
<1>3. Requests' = Append(Requests, Request(op))
  <2>1. /\ Len(ops') = Len(ops) + 1 /\ ops'[Len(ops) + 1] = op
        /\ \A i \in 1 .. Len(ops) : ops'[i] = ops[i]
    BY <1>1
  <2>2. Requests' = [i \in 1 .. Len(ops) + 1 |-> Request(ops'[i])]
    BY <2>1 DEF Requests, Request
  <2>3. Append(Requests, Request(op)) =
          [i \in 1 .. Len(ops) + 1 |-> IF i = Len(ops) + 1 THEN Request(op) ELSE Requests[i]]
    <3>1. PICK S : Requests \in Seq(S)
      BY RequestsAre
    <3> QED  BY <3>1, <1>2, AppendIs
  <2>4. ASSUME NEW i \in 1 .. Len(ops) + 1
        PROVE  Request(ops'[i]) = IF i = Len(ops) + 1 THEN Request(op) ELSE Requests[i]
    <3>1. CASE i = Len(ops) + 1
      BY <3>1, <2>1
    <3>2. CASE i # Len(ops) + 1
      <4>1. i \in 1 .. Len(ops)
        BY <3>2, <1>2
      <4> QED  BY <4>1, <3>2, <2>1, RequestsAre
    <3> QED  BY <3>1, <3>2
  <2> QED  BY <2>2, <2>3, <2>4
<1> QED  BY <1>1, <1>2, <1>3, AskIs

\* The first request is carried out when its operation leaves the queue.
LEMMA PopPerforms ==
    ASSUME ops \in Seq(Op), NEW type, Pops(type)
    PROVE  /\ Requests # <<>> /\ Requests' = Tail(Requests)
           /\ Head(Requests) = Request(Head(ops)) /\ Head(ops).type = type
<1>1. ops # <<>> /\ Head(ops).type = type /\ ops' = Tail(ops)
  BY DEF Pops
<1>2. Len(Requests) = Len(ops) /\ Len(ops) \in Nat /\ Requests # <<>> /\ Len(ops) >= 1
  BY <1>1, RequestsAre
<1>3. Head(Requests) = Request(Head(ops))
  <2>1. Head(ops) = ops[1] /\ Head(Requests) = Requests[1] /\ 1 \in 1 .. Len(ops)
    BY <1>1, <1>2
  <2> QED  BY <2>1, RequestsAre
<1>4. Requests' = Tail(Requests)
  <2>1. /\ Len(ops') = Len(ops) - 1
        /\ \A i \in 1 .. Len(ops) - 1 : ops'[i] = ops[i + 1]
    BY <1>1, <1>2
  <2>2. Requests' = [i \in 1 .. Len(ops) - 1 |-> Request(ops'[i])]
    BY <2>1 DEF Requests, Request
  <2>5. PICK a : a = Tail(Requests)
    OBVIOUS
  <2>7. PICK S : Requests \in Seq(S)
    BY RequestsAre
  <2>3. /\ a \in Seq(S) /\ Len(a) = Len(ops) - 1
        /\ \A i \in 1 .. Len(ops) - 1 : a[i] = Requests[i + 1]
    <3>1. Requests # <<>> /\ Len(Requests) = Len(ops)
      BY <1>2
    <3>2. /\ a \in Seq(S) /\ Len(a) = Len(Requests) - 1
          /\ \A i \in 1 .. Len(Requests) - 1 : a[i] = Requests[i + 1]
      BY ONLY <2>7, <3>1, <2>5, TailOfQueue
    <3> QED  BY ONLY <3>1, <3>2
  <2>8. a = [i \in 1 .. Len(ops) - 1 |-> a[i]]
    BY ONLY <2>3, <1>2
  <2>4. ASSUME NEW i \in 1 .. Len(ops) - 1 PROVE Request(ops'[i]) = Requests[i + 1]
    <3>1. ops'[i] = ops[i + 1] /\ i + 1 \in 1 .. Len(ops)
      BY <2>1, <1>2
    <3> QED  BY <3>1, RequestsAre
  <2>6. Requests' = a
    BY <2>2, <2>3, <2>4, <2>8
  <2> QED  BY <2>5, <2>6
<1> QED  BY <1>1, <1>2, <1>3, <1>4

\* Carrying out the oldest request is a step of the service.
LEMMA PerformIs ==
    ASSUME Requests # <<>>, Requests' = Tail(Requests), NEW r, r = Head(Requests),
           \/ /\ r.type = "start" /\ due[r.timer] = None
              /\ due' = [due EXCEPT ![r.timer] = Left(r.timer, r.ticks, r.age)]
           \/ /\ r.type = "start" /\ due[r.timer] # None
              /\ due' = due
           \/ /\ r.type = "stop"
              /\ due' = [due EXCEPT ![r.timer] = None]
           \/ /\ r.type = "stop_all"
              /\ due' = [t \in Timers |-> None]
    PROVE  Service!Perform
<1>1. \A t, x, y : Service!Left(t, x, y) = Left(t, x, y)
  BY DEF Service!Left, Left
<1> QED  BY <1>1 DEF Service!Perform, Requests, Request

\* Time passes for the requests as it does for the operations.
LEMMA TickAgesRequests ==
    ASSUME ops \in Seq(Op),
           ops' = [i \in DOMAIN ops |-> IF ops[i].type = "start"
                                        THEN [ops[i] EXCEPT !.age = @ + 1] ELSE ops[i]]
    PROVE  Requests' = [i \in DOMAIN Requests |->
                          IF Requests[i].type = "start"
                          THEN [Requests[i] EXCEPT !.age = @ + 1] ELSE Requests[i]]
<1>1. DOMAIN ops = 1 .. Len(ops) /\ Len(ops) \in Nat /\ DOMAIN Requests = 1 .. Len(ops)
  BY RequestsAre
<1>2. PICK p : p = ops'
  OBVIOUS
<1>3. p = [i \in 1 .. Len(ops) |-> IF ops[i].type = "start"
                                   THEN [ops[i] EXCEPT !.age = @ + 1] ELSE ops[i]]
  BY <1>1, <1>2
<1>4. Len(p) = Len(ops)
  <2>1. DOMAIN p = 1 .. Len(ops)
    BY <1>3
  <2> QED  BY <2>1, <1>1, LenProperties
<1>5. Requests' = [i \in 1 .. Len(ops) |-> Request(p[i])]
  BY <1>2, <1>4 DEF Requests, Request
<1>6. ASSUME NEW i \in 1 .. Len(ops)
      PROVE  Request(p[i]) = IF Requests[i].type = "start"
                             THEN [Requests[i] EXCEPT !.age = @ + 1] ELSE Requests[i]
  <2>1. PICK op \in Op : op = ops[i]
    BY <1>1
  <2>2. Requests[i] = Request(op)
    BY <2>1, RequestsAre
  <2>3. p[i] = IF op.type = "start" THEN [op EXCEPT !.age = @ + 1] ELSE op
    BY <1>3, <2>1
  <2>4. Request(op).type = op.type
    BY DEF Request
  <2>5. CASE op.type = "start"
    <3>1. p[i] = [op EXCEPT !.age = @ + 1]
      BY <2>3, <2>5
    <3>2. Request(p[i]) = [Request(op) EXCEPT !.age = @ + 1]
      BY ONLY <3>1, <2>1 DEF Request, Op
    <3> QED  BY <3>2, <2>2, <2>4, <2>5
  <2>6. CASE op.type # "start"
    BY <2>2, <2>3, <2>4, <2>6
  <2> QED  BY <2>5, <2>6
<1> QED  BY <1>1, <1>5, <1>6

\* A tick that passes over no handler too late is a tick of the service.
LEMMA ServiceTickIs ==
    ASSUME \A t \in Timers : due[t] # None /\ ~Service!StopAsked(t) => due[t].left > -Jitter,
           due' = [t \in Timers |-> OneTickOn(due[t])],
           Requests' = [i \in DOMAIN Requests |->
                          IF Requests[i].type = "start"
                          THEN [Requests[i] EXCEPT !.age = @ + 1] ELSE Requests[i]]
    PROVE  Service!Tick
<1>1. \A d : Service!OneTickOn(d) = OneTickOn(d)
  BY DEF Service!OneTickOn, OneTickOn
<1>2. due' = [t \in Timers |-> Service!OneTickOn(due[t])]
  BY <1>1
<1> QED  BY <1>2 DEF Service!Tick, Requests, Request

\* A tick.
LEMMA TickMaps == ASSUME IInv, Tick PROVE Service!Tick
<1>1. ops \in Seq(Op)
  BY DEF IInv, Types
<1>2. Busy => lag < MaxLatency
  BY DEF Tick
<1>3. ASSUME NEW t \in Timers, due[t] # None, ~Service!StopAsked(t) PROVE due[t].left > -Jitter
  <2>1. ~Queued("stop", t)
    BY <1>1, <1>3, StopAskedQueued
  <2> QED  BY <1>2, <1>3, <2>1, NotTooLate
<1>4. due' = [t \in Timers |-> OneTickOn(due[t])]
  BY DEF Tick
<1>5. ops' = [i \in DOMAIN ops |-> IF ops[i].type = "start"
                                   THEN [ops[i] EXCEPT !.age = @ + 1] ELSE ops[i]]
  BY DEF Tick
<1>6. Requests' = [i \in DOMAIN Requests |->
                          IF Requests[i].type = "start"
                          THEN [Requests[i] EXCEPT !.age = @ + 1] ELSE Requests[i]]
  BY <1>1, <1>5, TickAgesRequests
<1> QED  BY <1>3, <1>4, <1>6, ServiceTickIs

\* The calls.
LEMMA CallMaps ==
    ASSUME Usage = {}, IInv, Calls PROVE Service!Next
<1>1. ops \in Seq(Op)
  BY DEF IInv, Types
<1>2. ASSUME NEW t \in Timers, NEW d \in Timeouts[t], app_timer_start(t, d) PROVE Service!Next
  <2>0. PICK op : op = [type |-> "start", timer |-> t, at |-> counter, ticks |-> d, age |-> 0]
    OBVIOUS
  <2>1. Enqueue(op) /\ Len(ops) < OpQueueSize
    BY <1>2, <2>0 DEF app_timer_start
  <2>2. Request(op) = Service!Request("start", t, d)
    BY <2>0 DEF Request, Service!Request
  <2>3. Service!Ask(Request(op))
    BY <1>1, <2>1, EnqueueAsks
  <2>4. Service!Ask(Service!Request("start", t, d))
    BY <2>2, <2>3
  <2> QED  BY <2>4 DEF Service!Next
<1>3. ASSUME NEW t \in Timers, app_timer_stop(t) PROVE Service!Next
  <2> DEFINE op == [type |-> "stop", timer |-> t, at |-> 0, ticks |-> 0, age |-> 0]
  <2>1. Enqueue(op) /\ Len(ops) < OpQueueSize
    <3>1. "stop_when_full" \notin Usage
      OBVIOUS
    <3> QED  BY <1>3, <3>1 DEF app_timer_stop
  <2>2. Request(op) = Service!Request("stop", t, 0)
    BY DEF Request, Service!Request
  <2> HIDE DEF op
  <2>3. Service!Ask(Request(op))
    BY <1>1, <2>1, EnqueueAsks
  <2>4. Service!Ask(Service!Request("stop", t, 0))
    BY <2>2, <2>3
  <2> QED  BY <2>4 DEF Service!Next
<1>4. CASE app_timer_stop_all
  <2> DEFINE op == [type |-> "stop_all", timer |-> None, at |-> 0, ticks |-> 0, age |-> 0]
  <2>1. Enqueue(op) /\ Len(ops) < OpQueueSize
    BY <1>4 DEF app_timer_stop_all
  <2>2. Request(op) = Service!Request("stop_all", None, 0)
    BY DEF Request, Service!Request
  <2> HIDE DEF op
  <2>3. Service!Ask(Request(op))
    BY <1>1, <2>1, EnqueueAsks
  <2>4. Service!Ask(Service!Request("stop_all", None, 0))
    BY <2>2, <2>3
  <2> QED  BY <2>4 DEF Service!Next
<1> QED  BY <1>2, <1>3, <1>4 DEF Calls

\* The handler of RTC1.
LEMMA RtcMaps ==
    ASSUME IInv, RTC1_IRQHandler PROVE [Service!Next]_(Service!vars)
<1>1. ops \in Seq(Op)
  BY DEF IInv, Types
<1>2. CASE RtcEnter \/ RtcHandlerReturns \/ RtcLeave
  BY <1>2, StutterIs DEF RtcEnter, RtcHandlerReturns, RtcLeave
<1>3. CASE RtcExpire
  <2>0. PICK t : t = list[isr.next]
    OBVIOUS
  <2>1. isr.pc = "scan" /\ ScanFinds /\ ops' = ops
    BY <1>3 DEF RtcExpire
  <2>2. CASE ~node[t].isRunning
    <3>1. due' = due
      BY <1>3, <2>0, <2>2 DEF RtcExpire
    <3> QED  BY <3>1, <2>1, StutterIs
  <2>3. CASE node[t].isRunning
    <3>1. due' = [due EXCEPT ![t] = AfterTimeout(@)]
      BY <1>3, <2>0, <2>3 DEF RtcExpire
    <3>2. t \in Timers /\ due[t] # None /\ due[t].left <= 0 /\ ~Queued("stop", t)
      BY <2>0, <2>1, <2>3, CalledInTime
    <3>3. Service!Timeout(t)
      BY <1>1, <2>1, <3>1, <3>2, TimeoutIs
    <3> QED  BY <3>2, <3>3 DEF Service!Next
  <2> QED  BY <2>2, <2>3
<1> QED  BY <1>2, <1>3 DEF RTC1_IRQHandler

\* The handler of the software interrupt.
LEMMA SwiMaps ==
    ASSUME IInv, SWI_IRQHandler PROVE [Service!Next]_(Service!vars)
<1>1. ops \in Seq(Op)
  BY DEF IInv, Types
<1>2. CASE \/ SwiNothingExpired \/ SwiTakeExpired \/ SwiRestart
           \/ SwiNoUpdate \/ SwiUpdate \/ SwiStopRtc \/ SwiReadCounter \/ SwiSetCompare
  BY <1>2, StutterIs DEF SwiNothingExpired, SwiTakeExpired, SwiRestart,
           SwiNoUpdate, SwiUpdate, SwiStopRtc, SwiReadCounter, SwiSetCompare
<1> DEFINE op == Head(ops)
           r == Head(Requests)
<1>3. \A o : /\ Request(o).type = o.type /\ Request(o).timer = o.timer
             /\ Request(o).ticks = o.ticks /\ Request(o).age = o.age
  BY DEF Request
<1>4. CASE SwiStart
  <2>1. Pops("start")
    BY <1>4 DEF SwiStart
  <2>2. Requests # <<>> /\ Requests' = Tail(Requests) /\ r = Request(op) /\ op.type = "start"
    BY <1>1, <2>1, PopPerforms
  <2>3. PICK t : t = op.timer
    OBVIOUS
  <2>4. r.type = "start" /\ r.timer = t /\ r.ticks = op.ticks /\ r.age = op.age
    BY <1>3, <2>2, <2>3
  <2>5. CASE node[t].isRunning
    <3>1. due' = due
      BY <1>4, <2>3, <2>5 DEF SwiStart
    <3>2. due[t] # None
      <4>1. t \in Timers
        <5>1. ops # <<>> /\ ops[1].type = "start" /\ ops[1] = op /\ 1 \in 1 .. Len(ops)
          BY <2>1, <1>1 DEF Pops
        <5> QED  BY <5>1, <2>3 DEF IInv, OpsOK
      <4> QED  BY <4>1, <2>5 DEF IInv, RunningInv
    <3> HIDE DEF r, op
    <3>3. Service!Perform
      BY <2>2, <2>4, <3>1, <3>2, PerformIs DEF r
    <3> QED  BY <3>3 DEF Service!Next
  <2>6. CASE ~node[t].isRunning
    <3>1. due' = [due EXCEPT ![t] = Left(t, op.ticks, op.age)]
      BY <1>4, <2>3, <2>6 DEF SwiStart
    <3>2. due[t] = None
      BY <2>1, <2>3, <2>6, StartOfNoneDue
    <3> HIDE DEF r, op
    <3>4. due' = [due EXCEPT ![r.timer] = Left(r.timer, r.ticks, r.age)] /\ due[r.timer] = None
      BY <2>4, <3>1, <3>2
    <3>3. Service!Perform
      BY <2>2, <2>4, <3>4, PerformIs DEF r
    <3> QED  BY <3>3 DEF Service!Next
  <2> QED  BY <2>5, <2>6
<1>5. CASE SwiStop
  <2>1. Pops("stop") /\ due' = [due EXCEPT ![op.timer] = None]
    BY <1>5 DEF SwiStop
  <2>2. Requests # <<>> /\ Requests' = Tail(Requests) /\ r = Request(op) /\ op.type = "stop"
    BY <1>1, <2>1, PopPerforms
  <2> HIDE DEF r, op
  <2>3. r.type = "stop" /\ due' = [due EXCEPT ![r.timer] = None]
    BY <1>3, <2>1, <2>2
  <2>4. Service!Perform
    BY <2>2, <2>3, PerformIs DEF r
  <2> QED  BY <2>4 DEF Service!Next
<1>6. CASE SwiStopAll
  <2>1. Pops("stop_all") /\ due' = [t \in Timers |-> None]
    BY <1>6 DEF SwiStopAll
  <2>2. Requests # <<>> /\ Requests' = Tail(Requests) /\ r = Request(op) /\ op.type = "stop_all"
    BY <1>1, <2>1, PopPerforms
  <2> HIDE DEF r, op
  <2>3. r.type = "stop_all"
    BY <1>3, <2>2
  <2>4. Service!Perform
    BY <2>1, <2>2, <2>3, PerformIs DEF r
  <2> QED  BY <2>4 DEF Service!Next
<1> QED  BY <1>2, <1>4, <1>5, <1>6 DEF SWI_IRQHandler

\* Every step of the timer module is a step of the service, or leaves it alone.
LEMMA StepMaps ==
    ASSUME Usage = {}, IInv, [Next]_vars PROVE [Service!Next]_(Service!vars)
<1>1. CASE Tick
  BY <1>1, TickMaps DEF Service!Next
<1>2. CASE Calls
  BY <1>2, CallMaps
<1>3. CASE RTC1_IRQHandler
  BY <1>3, RtcMaps
<1>4. CASE SWI_IRQHandler
  BY <1>4, SwiMaps
<1>5. CASE UNCHANGED vars
  BY <1>5, StutterIs DEF vars
<1> QED  BY <1>1, <1>2, <1>3, <1>4, <1>5 DEF Next

\* The initial states map to the initial state.
LEMMA InitMaps == ASSUME Init PROVE Service!Init
<1>1. ops = <<>> /\ due = [t \in Timers |-> None]
  BY DEF Init
<1>2. ops \in Seq(Op)
  BY <1>1
<1>3. Requests = <<>>
  BY <1>1, <1>2, RequestsAre
<1> QED  BY <1>1, <1>3 DEF Service!Init, Requests, Request

\* The timer module does what app_timer.h promises: whatever the order of
\* calls, ticks and interrupts, requests take effect in order, no handler is
\* called early, none after its timer was asked to stop, and none more than
\* Jitter ticks late.
THEOREM TimersImplementService ==
    ASSUME Usage = {} PROVE Spec => TimersKeepTheirTime
<1>1. Init => IInv
  BY InitIInv
<1>2. IInv /\ [Next]_vars => IInv'
  BY NextKeeps
<1>3. Init => Service!Init
  BY InitMaps
<1>4. IInv /\ [Next]_vars => [Service!Next]_(Service!vars)
  BY StepMaps
<1> HIDE DEF IInv, Init, Next, vars
<1> QED  BY <1>1, <1>2, <1>3, <1>4, PTL DEF Spec, TimersKeepTheirTime, Service!Spec

=============================================================================
