---------------------------- MODULE NumbersProofs ---------------------------
(***************************************************************************)
(* Theorems about Numbers for every machine word, all widths of the fixed  *)
(* types, all bounds of Fin and all operands of up to two words: whatever  *)
(* is computed with whatever, the number that results is the one that      *)
(* mathematics says, modulo 2^bits where the width is fixed, it is in the  *)
(* form of its type, and a conversion keeps what fits its target.          *)
(*                                                                         *)
(* The lemmas come in the order of the model: induction and powers,        *)
(* division, words and two's complement, the two forms of a Nat, sums of   *)
(* bits, Nat, Int, words, Fin, BitVec and ranges.  Then the invariant says *)
(* that what is held is in the form of its type, and that the last         *)
(* operation gave what it should have given; each action keeps it.  The    *)
(* digits of a Nat, printed at once or in chunks, and the conversions      *)
(* follow: each needs no more than that invariant before its step.         *)
(***************************************************************************)
EXTENDS Numbers, WellFoundedInduction, FiniteSetTheorems, TLAPS

\* A set that holds 0 and with a number the next one holds every number.
LEMMA NumbersByInduction ==
  ASSUME NEW S, 0 \in S, \A n \in Nat : n \in S => n + 1 \in S
  PROVE  Nat \subseteq S
<1> DEFINE T == Nat \ S
<1>1. SUFFICES ASSUME T # {} PROVE FALSE
  OBVIOUS
<1>2. PICK x \in T : \A y \in T : ~(<<y, x>> \in OpToRel(<, Nat))
  <2>1. T \subseteq Nat
    OBVIOUS
  <2> HIDE DEF T
  <2>. QED
    BY <1>1, <2>1, NatLessThanWellFounded, WFMin
<1>3. x # 0
  BY <1>2
<1>4. x - 1 \in Nat /\ x - 1 < x
  BY <1>3
<1>5. <<x - 1, x>> \in OpToRel(<, Nat)
  BY <1>4 DEF OpToRel
<1>6. x - 1 \in S
  BY <1>2, <1>4, <1>5
<1>7. (x - 1) + 1 \in S
  BY <1>4, <1>6
<1>8. (x - 1) + 1 = x
  OBVIOUS
<1>. QED
  BY <1>7, <1>8

\* The same up to a bound.
LEMMA RangeByInduction ==
  ASSUME NEW d \in Nat, NEW S, 0 \in S, \A n \in Nat : n < d /\ n \in S => n + 1 \in S
  PROVE  \A n \in 0..d : n \in S
<1> DEFINE T == S \cup {n \in Nat : n > d}
<1>1. 0 \in T /\ \A n \in Nat : n \in T => n + 1 \in T
  OBVIOUS
<1>2. Nat \subseteq T
  <2> HIDE DEF T
  <2>. QED BY <1>1, NumbersByInduction
<1>. QED
  BY <1>2

-----------------------------------------------------------------------------
\* Powers: the function that Power multiplies up exists, and is unique.
Powers(f, x, n) == f = [k \in 0..n |-> IF k = 0 THEN 1 ELSE x * f[k - 1]]

\* What a power is.
LEMMA PowersExist ==
  ASSUME NEW x, NEW n \in Nat
  PROVE  \E f : Powers(f, x, n)
<1> DEFINE S == {d \in Nat : \E f : Powers(f, x, d)}
<1>1. 0 \in S
  <2>1. Powers([k \in 0..0 |-> 1], x, 0)
    BY DEF Powers
  <2>. QED BY <2>1
<1>2. ASSUME NEW d \in Nat, d \in S
      PROVE  d + 1 \in S
  <2>1. PICK f : Powers(f, x, d)
    BY <1>2
  <2> DEFINE h == [k \in 0..(d + 1) |-> IF k = d + 1 THEN x * f[d] ELSE f[k]]
             r == [k \in 0..(d + 1) |-> IF k = 0 THEN 1 ELSE x * h[k - 1]]
  <2>2. ASSUME NEW k \in 0..(d + 1)
        PROVE  h[k] = r[k]
    <3>1. CASE k = d + 1
      BY <3>1
    <3>2. CASE k \in 0..d
      <4>1. f[k] = IF k = 0 THEN 1 ELSE x * f[k - 1]
        BY <2>1, <3>2 DEF Powers
      <4>2. k # 0 => k - 1 \in 0..d
        BY <3>2
      <4>3. h[k] = f[k] /\ (k # 0 => h[k - 1] = f[k - 1])
        BY <3>2, <4>2
      <4>. QED BY <4>1, <4>3
    <3>. QED BY <3>1, <3>2
  <2>3. Powers(h, x, d + 1)
    <3>1. h = [k \in 0..(d + 1) |-> h[k]] /\ r = [k \in 0..(d + 1) |-> r[k]]
      OBVIOUS
    <3>. QED BY <2>2, <3>1 DEF Powers
  <2>. HIDE DEF h
  <2>. QED BY <2>3
<1>. HIDE DEF S
<1>3. n \in S
  BY <1>1, <1>2, NumbersByInduction
<1>. QED
  BY <1>3 DEF S

\* One factor more.
LEMMA PowerSteps ==
  ASSUME NEW x, NEW n \in Nat
  PROVE  Power(x, 0) = 1 /\ Power(x, n + 1) = x * Power(x, n)
<1> DEFINE F(m) == CHOOSE f : Powers(f, x, m)
<1>1. \A m \in Nat : Powers(F(m), x, m) /\ Power(x, m) = F(m)[m]
  <2>1. ASSUME NEW m \in Nat
        PROVE  Powers(F(m), x, m)
    BY PowersExist
  <2>2. ASSUME NEW m \in Nat
        PROVE  Power(x, m) = F(m)[m]
    BY Zenon DEF Power, Powers
  <2>. QED BY <2>1, <2>2
<1>. HIDE DEF F
<1>2. \A m \in Nat : \A k \in 0..m : F(m)[k] = IF k = 0 THEN 1 ELSE x * F(m)[k - 1]
  <2>1. ASSUME NEW m \in Nat, NEW k \in 0..m
        PROVE  F(m)[k] = IF k = 0 THEN 1 ELSE x * F(m)[k - 1]
    <3>1. F(m) = [j \in 0..m |-> IF j = 0 THEN 1 ELSE x * F(m)[j - 1]]
      BY <1>1 DEF Powers
    <3>. HIDE DEF F
    <3> DEFINE f == F(m)
    <3>2. f = [j \in 0..m |-> IF j = 0 THEN 1 ELSE x * f[j - 1]]
      BY <3>1
    <3>. HIDE DEF f
    <3>3. f[k] = IF k = 0 THEN 1 ELSE x * f[k - 1]
      BY <3>2
    <3>. QED BY <3>3 DEF f
  <2>. QED BY <2>1
<1> DEFINE S == {k \in Nat : k <= n => F(n + 1)[k] = F(n)[k]}
<1>3. 0 \in S
  BY <1>2
<1>4. ASSUME NEW k \in Nat, k < n, k \in S
      PROVE  k + 1 \in S
  <2>1. k + 1 \in 0..n /\ k + 1 \in 0..n + 1 /\ k + 1 # 0 /\ (k + 1) - 1 = k
    BY <1>4
  <2>. QED BY <1>2, <1>4, <2>1
<1>5. \A k \in 0..n : k \in S
  <2>. HIDE DEF S
  <2>. QED BY <1>3, <1>4, RangeByInduction
<1>6. F(n + 1)[n + 1] = x * F(n + 1)[n]
  <2>1. n + 1 \in Nat /\ n + 1 \in 0..(n + 1) /\ n + 1 # 0 /\ (n + 1) - 1 = n
    OBVIOUS
  <2>. QED BY <1>2, <2>1
<1>7. Power(x, 0) = 1
  BY <1>1, <1>2
<1>. QED
  BY <1>1, <1>5, <1>6, <1>7

\* Powers of natural numbers are natural numbers.
LEMMA PowerIsNat ==
  ASSUME NEW x \in Nat, NEW n \in Nat
  PROVE  Power(x, n) \in Nat /\ (x # 0 => Power(x, n) # 0)
<1> DEFINE S == {k \in Nat : Power(x, k) \in Nat /\ (x # 0 => Power(x, k) # 0)}
<1>1. 0 \in S
  BY PowerSteps
<1>2. ASSUME NEW k \in Nat, k \in S
      PROVE  k + 1 \in S
  BY <1>2, PowerSteps
<1>. HIDE DEF S
<1>3. n \in S
  BY <1>1, <1>2, NumbersByInduction
<1>. QED
  BY <1>3 DEF S

\* Powers of two.
LEMMA Pow2Is ==
  ASSUME NEW n \in Nat
  PROVE  /\ Pow2(n) \in Nat /\ Pow2(n) > 0 /\ Pow2(n + 1) = 2 * Pow2(n) /\ Pow2(0) = 1
<1>1. Power(2, n) \in Nat /\ Power(2, n) # 0
  BY PowerIsNat
<1>. QED
  BY <1>1, PowerSteps DEF Pow2

\* The power of a sum is the product of the powers.
LEMMA Pow2Adds ==
  ASSUME NEW m \in Nat, NEW n \in Nat
  PROVE  Pow2(m + n) = Pow2(m) * Pow2(n)
<1> DEFINE S == {k \in Nat : Pow2(m + k) = Pow2(m) * Pow2(k)}
<1>1. 0 \in S
  BY Pow2Is
<1>2. ASSUME NEW k \in Nat, k \in S
      PROVE  k + 1 \in S
  <2>1. Pow2(m + (k + 1)) = 2 * Pow2(m + k) /\ Pow2(k + 1) = 2 * Pow2(k)
    <3>1. m + (k + 1) = (m + k) + 1 /\ m + k \in Nat
      OBVIOUS
    <3>. QED BY <3>1, Pow2Is
  <2>2. Pow2(m) \in Nat /\ Pow2(k) \in Nat
    BY Pow2Is
  <2>. QED BY <1>2, <2>1, <2>2
<1>. HIDE DEF S
<1>3. n \in S
  BY <1>1, <1>2, NumbersByInduction
<1>. QED
  BY <1>3 DEF S

\* Powers of two grow.
LEMMA Pow2Grows ==
  ASSUME NEW m \in Nat, NEW n \in Nat
  PROVE  /\ m <= n => Pow2(m) <= Pow2(n)
         /\ m < n => 2 * Pow2(m) <= Pow2(n)
         /\ n < Pow2(n)
<1>1. ASSUME m <= n
      PROVE  Pow2(m) <= Pow2(n)
  <2>1. n - m \in Nat /\ n = m + (n - m)
    BY <1>1
  <2>2. Pow2(n) = Pow2(m) * Pow2(n - m) /\ Pow2(m) \in Nat /\ Pow2(n - m) \in Nat /\ Pow2(n - m) > 0
    BY <2>1, Pow2Adds, Pow2Is
  <2> DEFINE a == Pow2(m)
             b == Pow2(n - m)
  <2>3. Pow2(n) = a * b /\ a \in Nat /\ b \in Nat /\ b >= 1
    BY <2>2
  <2>. HIDE DEF a, b
  <2>4. a <= a * b
    BY <2>3
  <2>. QED BY <2>3, <2>4 DEF a
<1>2. ASSUME m < n
      PROVE  2 * Pow2(m) <= Pow2(n)
  <2>1. n - (m + 1) \in Nat /\ n = (m + 1) + (n - (m + 1)) /\ m + 1 \in Nat
    BY <1>2
  <2> DEFINE a == Pow2(m + 1)
             b == Pow2(n - (m + 1))
  <2>2. Pow2(n) = a * b /\ a \in Nat /\ b \in Nat /\ b >= 1 /\ a = 2 * Pow2(m)
    <3>1. Pow2(n) = a * b
      BY <2>1, Pow2Adds
    <3>2. Pow2(m + 1) \in Nat /\ Pow2(n - (m + 1)) \in Nat /\ Pow2(n - (m + 1)) > 0 /\ a = 2 * Pow2(m)
      BY <2>1, Pow2Is
    <3>. QED BY <3>1, <3>2
  <2>. HIDE DEF a, b
  <2>3. a <= a * b
    BY <2>2
  <2>. QED BY <2>2, <2>3
<1>3. n < Pow2(n)
  <2> DEFINE S == {k \in Nat : k < Pow2(k)}
  <2>1. 0 \in S
    BY Pow2Is
  <2>2. ASSUME NEW k \in Nat, k \in S
        PROVE  k + 1 \in S
    BY <2>2, Pow2Is
  <2>. HIDE DEF S
  <2>3. n \in S
    BY <2>1, <2>2, NumbersByInduction
  <2>. QED BY <2>3 DEF S
<1>. QED
  BY <1>1, <1>2, <1>3

-----------------------------------------------------------------------------
\* Division: the quotient and the remainder are the ones that fit.
LEMMA Division ==
  ASSUME NEW x \in Int, NEW y \in Nat, y # 0
  PROVE  /\ x \div y \in Int /\ x % y \in 0..y - 1
         /\ x = (x \div y) * y + (x % y)
         /\ \A q \in Int, r \in 0..y - 1 : x = q * y + r => q = x \div y /\ r = x % y
<1>1. \A q \in Int, r \in 0..y - 1 : x = q * y + r => q = x \div y /\ r = x % y
  <2>1. ASSUME NEW q \in Int, NEW r \in 0..y - 1, x = q * y + r
        PROVE  q = x \div y /\ r = x % y
    BY <2>1
  <2>. QED BY <2>1
<1>2. PICK q \in Int : q = x \div y
  OBVIOUS
<1>3. q * y <= x /\ x < q * y + y
  BY <1>2
<1>4. x - q * y \in 0..y - 1 /\ x = q * y + (x - q * y)
  <2>1. q * y \in Int
    OBVIOUS
  <2> DEFINE p == q * y
  <2>2. p \in Int /\ p <= x /\ x < p + y
    BY <1>3, <2>1
  <2>. HIDE DEF p
  <2>3. x - p \in 0..y - 1 /\ x = p + (x - p)
    BY <2>2
  <2>. QED BY <2>3 DEF p
<1>5. x - q * y = x % y
  BY <1>1, <1>4
<1>. QED
  BY <1>1, <1>2, <1>4, <1>5

\* Multiples of the divisor do not change the remainder.
LEMMA Congruent ==
  ASSUME NEW x \in Int, NEW y \in Nat, y # 0, NEW k \in Int
  PROVE  (x + k * y) % y = x % y /\ (x + k * y) \div y = (x \div y) + k
<1> DEFINE q == x \div y
           r == x % y
           s == q * y
           t == k * y
<1>1. q \in Int /\ r \in 0..y - 1 /\ x = s + r /\ s \in Int /\ t \in Int /\ (q + k) * y = s + t
  BY Division
<1>2. x + t = (q + k) * y + r
  <2>. HIDE DEF q, r, s, t
  <2>. QED BY <1>1
<1> DEFINE u == x + t
           w == q + k
<1>3. u \in Int /\ w \in Int /\ u = w * y + r /\ r \in 0..y - 1
  BY <1>1, <1>2
<1>. HIDE DEF q, r, s, t, u, w
<1>4. w = u \div y /\ r = u % y
  BY <1>3, Division
<1>. QED
  BY <1>4 DEF q, r, t, u, w

\* What is smaller than the divisor is its own remainder.
LEMMA SmallRemainder ==
  ASSUME NEW y \in Nat, y # 0, NEW x \in 0..y - 1
  PROVE  x % y = x /\ x \div y = 0
<1>1. x \in Int /\ x = 0 * y + x
  OBVIOUS
<1>. QED
  BY <1>1, Division

-----------------------------------------------------------------------------
\* Words: what Wrap and Signed do to words of b bits.
LEMMA Words ==
  ASSUME NEW b \in Nat, b # 0
  PROVE  /\ Pow2(b - 1) \in Nat /\ Pow2(b - 1) > 0 /\ Pow2(b) = 2 * Pow2(b - 1) /\ Pow2(b) \in Nat /\ Pow2(b) > 1
         /\ \A x \in Int : Wrap(x, b) \in 0..Pow2(b) - 1
         /\ \A w \in 0..Pow2(b) - 1 :
              /\ Wrap(w, b) = w /\ Wrap(Signed(w, b), b) = w
              /\ Signed(w, b) \in -Pow2(b - 1)..Pow2(b - 1) - 1
              /\ \E k \in {0, 1} : Signed(w, b) = w - k * Pow2(b)
         /\ \A x \in -Pow2(b - 1)..Pow2(b - 1) - 1 : Signed(Wrap(x, b), b) = x
         /\ \A x, k \in Int : Wrap(x + k * Pow2(b), b) = Wrap(x, b)
<1> DEFINE h == Pow2(b - 1)
           m == Pow2(b)
<1>1. h \in Nat /\ h > 0 /\ m = 2 * h /\ m \in Nat /\ m > 1 /\ m # 0
  <2>1. b - 1 \in Nat /\ (b - 1) + 1 = b
    OBVIOUS
  <2>2. Pow2(b - 1) \in Nat /\ Pow2(b - 1) > 0 /\ Pow2((b - 1) + 1) = 2 * Pow2(b - 1)
    BY <2>1, Pow2Is
  <2>3. h \in Nat /\ h > 0 /\ m = 2 * h
    BY <2>1, <2>2
  <2>. HIDE DEF h, m
  <2>. QED BY <2>3
<1>2. \A x : Wrap(x, b) = x % m
  BY DEF Wrap
<1>3. \A w : Signed(w, b) = IF w < h THEN w ELSE w - m
  BY DEF Signed
<1>. HIDE DEF h, m
<1>4. \A x, k \in Int : (x + k * m) % m = x % m
  BY <1>1, Congruent
<1>5. \A x \in Int : x % m \in 0..m - 1
  BY <1>1, Division
<1>6. \A w \in 0..m - 1 : w % m = w
  BY <1>1, SmallRemainder
<1>7. ASSUME NEW w \in 0..m - 1
      PROVE  /\ Wrap(Signed(w, b), b) = w /\ Signed(w, b) \in -h..h - 1
             /\ \E k \in {0, 1} : Signed(w, b) = w - k * m
  <2>1. CASE w < h
    BY <1>1, <1>2, <1>3, <1>6, <2>1
  <2>2. CASE ~(w < h)
    <3>1. Signed(w, b) = w - m /\ w - m = w + (-1) * m
      BY <1>1, <1>3, <2>2
    <3>2. (w + (-1) * m) % m = w % m
      BY <1>4
    <3>3. Wrap(Signed(w, b), b) = w
      BY <1>2, <1>6, <3>1, <3>2
    <3>4. w - m \in -h..h - 1 /\ w - m = w - 1 * m
      BY <1>1, <2>2
    <3>. QED BY <3>1, <3>3, <3>4
  <2>. QED BY <2>1, <2>2
<1>8. ASSUME NEW x \in -h..h - 1
      PROVE  Signed(Wrap(x, b), b) = x
  <2>1. CASE x >= 0
    <3>1. x \in 0..m - 1 /\ x < h
      BY <1>1, <2>1
    <3>. QED BY <1>2, <1>3, <1>6, <3>1
  <2>2. CASE x < 0
    <3>1. x + m \in 0..m - 1 /\ ~(x + m < h) /\ (x + m) - m = x /\ x \in Int /\ x + 1 * m = x + m
      BY <1>1, <2>2
    <3>2. (x + 1 * m) % m = x % m
      BY <1>4, <3>1
    <3>3. Wrap(x, b) = x + m
      BY <1>2, <1>6, <3>1, <3>2
    <3>. QED BY <1>3, <3>1, <3>3
  <2>. QED BY <1>1, <2>1, <2>2
<1>9. \A w \in 0..m - 1 : Wrap(w, b) = w
  BY <1>2, <1>6
<1>10. \A x \in Int : Wrap(x, b) \in 0..m - 1
  BY <1>2, <1>5
<1>11. \A x, k \in Int : Wrap(x + k * m, b) = Wrap(x, b)
  BY <1>2, <1>4
<1>. QED
  BY <1>1, <1>7, <1>8, <1>9, <1>10, <1>11 DEF h, m

\* Arithmetic on words is arithmetic on the numbers that they stand for.
LEMMA WordArithmetic ==
  ASSUME NEW b \in Nat, b # 0, NEW a \in 0..Pow2(b) - 1, NEW c \in 0..Pow2(b) - 1
  PROVE  LET x == Signed(a, b)  y == Signed(c, b) IN
         /\ Wrap(x + y, b) = Wrap(a + c, b) /\ Wrap(x - y, b) = Wrap(a - c, b) /\ Wrap(x * y, b) = Wrap(a * c, b)
         /\ Wrap(-x, b) = Wrap(-a, b) /\ Wrap(-1 - x, b) = Wrap(-1 - a, b)
<1> DEFINE m == Pow2(b)
           x == Signed(a, b)
           y == Signed(c, b)
<1>1. PICK k \in {0, 1} : x = a - k * m
  BY Words
<1>2. PICK l \in {0, 1} : y = c - l * m
  BY Words
<1>3. m \in Nat /\ \A z, j \in Int : Wrap(z + j * m, b) = Wrap(z, b)
  BY Words
<1>. HIDE DEF m, x, y
<1>4. a \in Int /\ c \in Int /\ k \in Int /\ l \in Int
  OBVIOUS
<1>5. /\ x + y = (a + c) + (-k - l) * m
      /\ x - y = (a - c) + (l - k) * m
      /\ -x = -a + k * m /\ -1 - x = (-1 - a) + k * m
  <2>1. CASE k = 0 /\ l = 0
    BY <1>1, <1>2, <1>3, <1>4, <2>1
  <2>2. CASE k = 1 /\ l = 0
    BY <1>1, <1>2, <1>3, <1>4, <2>2
  <2>3. CASE k = 0 /\ l = 1
    BY <1>1, <1>2, <1>3, <1>4, <2>3
  <2>4. CASE k = 1 /\ l = 1
    BY <1>1, <1>2, <1>3, <1>4, <2>4
  <2>. QED BY <2>1, <2>2, <2>3, <2>4
<1>6. x * y = a * c + (k * l * m - k * c - l * a) * m
  <2>1. CASE k = 0 /\ l = 0
    BY <1>1, <1>2, <1>3, <1>4, <2>1
  <2>2. CASE k = 1 /\ l = 0
    BY <1>1, <1>2, <1>3, <1>4, <2>2
  <2>3. CASE k = 0 /\ l = 1
    BY <1>1, <1>2, <1>3, <1>4, <2>3
  <2>4. CASE k = 1 /\ l = 1
    BY <1>1, <1>2, <1>3, <1>4, <2>4
  <2>. QED BY <2>1, <2>2, <2>3, <2>4
<1>7. /\ a + c \in Int /\ -k - l \in Int /\ a - c \in Int /\ l - k \in Int /\ -a \in Int /\ -1 - a \in Int
      /\ a * c \in Int /\ k * l * m - k * c - l * a \in Int
  BY <1>3, <1>4
<1>8. Wrap(x + y, b) = Wrap(a + c, b) /\ Wrap(x - y, b) = Wrap(a - c, b)
  BY <1>3, <1>5, <1>7
<1>9. Wrap(-x, b) = Wrap(-a, b) /\ Wrap(-1 - x, b) = Wrap(-1 - a, b)
  <2>1. Wrap(-a + k * m, b) = Wrap(-a, b) /\ Wrap((-1 - a) + k * m, b) = Wrap(-1 - a, b)
    BY <1>3, <1>4, <1>7
  <2>. QED BY <1>5, <2>1
<1>10. Wrap(x * y, b) = Wrap(a * c, b)
  BY <1>3, <1>6, <1>7
<1>. QED
  BY <1>8, <1>9, <1>10 DEF x, y

-----------------------------------------------------------------------------
\* The borders of the small numbers.
LEMMA Borders ==
  LET half == P \div 2 IN
  /\ P \in Nat /\ P > 3 /\ P - 1 \in Nat /\ half \in Nat /\ half > 1 /\ half <= P - 1
  /\ Pow2(P - 1) = MaxSmallNat + 1 /\ MaxSmallNat \in Nat
  /\ Pow2(half - 1) = MaxSmallInt + 1 /\ MaxSmallInt \in Nat /\ MinSmallInt = -MaxSmallInt - 1
  /\ MaxSmallInt < MaxSmallNat /\ Pow2(P) = 2 * (MaxSmallNat + 1) /\ MaxSmallNat > 1
  /\ Pow2(P - 1) = Pow2(P - 1 - half) * Pow2(half) /\ P - 1 - half \in Nat
  /\ I64 = -MaxSmallNat - 1..MaxSmallNat
<1> DEFINE half == P \div 2
<1>1. P \in Nat /\ P > 3 /\ P % 2 = 0
  BY NumbersAssumption
<1>2. half \in Nat /\ half > 1 /\ half <= P - 1 /\ P - 1 \in Nat /\ P - 1 - half \in Nat
  BY <1>1
<1>. HIDE DEF half
<1>3. half - 1 \in Nat /\ half - 1 < P - 1 /\ P - 1 > 1 /\ 1 \in Nat
  BY <1>1, <1>2
<1>4. Pow2(half - 1) \in Nat /\ Pow2(half - 1) > 0 /\ Pow2(P - 1) \in Nat /\ Pow2(P - 1) > 0
  BY <1>2, <1>3, Pow2Is
<1>5. 2 * Pow2(half - 1) <= Pow2(P - 1)
  BY <1>2, <1>3, Pow2Grows
<1>6. Pow2(P) = 2 * Pow2(P - 1)
  <2> DEFINE q == P - 1
  <2>1. q \in Nat /\ q + 1 = P
    BY <1>1
  <2>. HIDE DEF q
  <2>2. Pow2(q + 1) = 2 * Pow2(q)
    BY <2>1, Pow2Is
  <2>. QED BY <2>1, <2>2 DEF q
<1>7. Pow2(P - 1) = Pow2(P - 1 - half) * Pow2(half)
  <2> DEFINE r == P - 1 - half
  <2>1. r \in Nat /\ P - 1 = r + half
    BY <1>1, <1>2
  <2>. HIDE DEF r
  <2>2. Pow2(r + half) = Pow2(r) * Pow2(half)
    BY <1>2, <2>1, Pow2Adds
  <2>. QED BY <2>1, <2>2 DEF r
<1>8. 2 * Pow2(1) <= Pow2(P - 1) /\ Pow2(1) = 2
  <2>1. 1 \in Nat /\ 1 < P - 1
    BY <1>3
  <2>2. Pow2(0 + 1) = 2 * Pow2(0) /\ Pow2(0) = 1
    BY Pow2Is
  <2>. QED BY <1>2, <2>1, <2>2, Pow2Grows
<1>9. MaxSmallNat = Pow2(P - 1) - 1 /\ MaxSmallInt = Pow2(half - 1) - 1 /\ MinSmallInt = -Pow2(half - 1)
  BY DEF MaxSmallNat, MaxSmallInt, MinSmallInt, half
<1>10. I64 = -Pow2(P - 1)..Pow2(P - 1) - 1
  BY DEF I64
<1> DEFINE a == Pow2(half - 1)
           c == Pow2(P - 1)
<1>11. a \in Nat /\ a > 0 /\ c \in Nat /\ 2 * a <= c /\ c >= 4
  BY <1>4, <1>5, <1>8
<1>. HIDE DEF a, c
<1>12. /\ c = (c - 1) + 1 /\ c - 1 \in Nat /\ a = (a - 1) + 1 /\ a - 1 \in Nat /\ -a = -(a - 1) - 1
       /\ a - 1 < c - 1 /\ 2 * c = 2 * ((c - 1) + 1) /\ c - 1 > 1 /\ -c = -(c - 1) - 1
  BY <1>11
<1>. QED
  BY <1>1, <1>2, <1>6, <1>7, <1>9, <1>10, <1>12 DEF a, c, half

\* The form that a Nat always has: a boxed word exactly when it is small.
NatRep(x) == [small |-> x <= MaxSmallNat, w |-> x]

\* Every way to make a Nat object gives it that form.
LEMMA NatReps ==
  ASSUME NEW x \in Nat
  PROVE  /\ BigNatResult(x) = NatRep(x) /\ lean_usize_to_nat(x) = NatRep(x)
         /\ x <= MaxSmallNat => Box(x) = NatRep(x)
         /\ NatValue(NatRep(x)) = x /\ NatRep(x).w = x /\ NatRep(x).small = (x <= MaxSmallNat)
<1>1. ASSUME x <= MaxSmallNat
      PROVE  Box(x) = NatRep(x)
  <2> DEFINE m == Pow2(P - 1)
  <2>1. m = MaxSmallNat + 1 /\ MaxSmallNat \in Nat
    BY Borders
  <2>2. x \in 0..m - 1 /\ m \in Nat /\ m # 0
    BY <1>1, <2>1
  <2>3. x % m = x
    <3>. HIDE DEF m
    <3>. QED BY <2>2, SmallRemainder
  <2>4. Box(x) = [small |-> TRUE, w |-> x]
    BY <2>3 DEF Box, Wrap
  <2>. QED BY <1>1, <2>4 DEF NatRep
<1>2. ASSUME ~(x <= MaxSmallNat)
      PROVE  Big(x) = NatRep(x)
  <2>1. (x <= MaxSmallNat) = FALSE
    BY <1>2
  <2>. QED BY <2>1, Zenon DEF Big, NatRep
<1>. QED
  BY <1>1, <1>2 DEF BigNatResult, lean_usize_to_nat, NatRep, NatValue

\* The operations of Nat give the form, whichever path they take.
LEMMA NatArithmetic ==
  ASSUME NEW x \in Nat, NEW y \in Nat
  PROVE  /\ lean_nat_add(NatRep(x), NatRep(y)) = NatRep(x + y)
         /\ lean_nat_sub(NatRep(x), NatRep(y)) = NatRep(IF x >= y THEN x - y ELSE 0)
         /\ lean_nat_mul(NatRep(x), NatRep(y)) = NatRep(x * y)
         /\ lean_nat_div(NatRep(x), NatRep(y)) = NatRep(IF y = 0 THEN 0 ELSE x \div y)
         /\ lean_nat_mod(NatRep(x), NatRep(y)) = NatRep(IF y = 0 THEN x ELSE x % y)
         /\ lean_nat_dec_eq(NatRep(x), NatRep(y)) = (x = y)
         /\ lean_nat_dec_lt(NatRep(x), NatRep(y)) = (x < y)
         /\ lean_nat_dec_le(NatRep(x), NatRep(y)) = (x <= y)
<1> DEFINE a == NatRep(x)
           b == NatRep(y)
<1>1. /\ a.w = x /\ b.w = y /\ NatValue(a) = x /\ NatValue(b) = y
      /\ BothSmall(a, b) = (x <= MaxSmallNat /\ y <= MaxSmallNat)
  BY NatReps DEF BothSmall
<1>2. MaxSmallNat \in Nat
  BY Borders
<1>3. \A z \in Nat : BigNatResult(z) = NatRep(z) /\ (z <= MaxSmallNat => Box(z) = NatRep(z))
  BY NatReps
<1>4. x + y \in Nat /\ x * y \in Nat /\ (x >= y => x - y \in Nat)
  OBVIOUS
<1>5. y # 0 => x \div y \in Nat /\ x % y \in Nat /\ x \div y <= x /\ x % y <= x
  OBVIOUS
<1>6. a = b <=> x = y
  BY DEF NatRep
<1>. HIDE DEF a, b
<1>7. lean_nat_add(a, b) = NatRep(x + y)
  BY <1>1, <1>3, <1>4 DEF lean_nat_add, NatBig, RefNat
<1>8. lean_nat_sub(a, b) = NatRep(IF x >= y THEN x - y ELSE 0)
  <2>1. x >= y /\ x <= MaxSmallNat => x - y <= MaxSmallNat
    BY <1>2
  <2>. QED BY <1>1, <1>3, <1>4, <2>1 DEF lean_nat_sub, NatBig, RefNat
<1>9. lean_nat_mul(a, b) = NatRep(x * y)
  BY <1>1, <1>3, <1>4 DEF lean_nat_mul, NatBig, RefNat
<1>10. lean_nat_div(a, b) = NatRep(IF y = 0 THEN 0 ELSE x \div y)
  <2>1. y # 0 /\ x <= MaxSmallNat => x \div y <= MaxSmallNat
    BY <1>2, <1>5
  <2>. QED BY <1>1, <1>3, <1>5, <2>1 DEF lean_nat_div, NatBig, RefNat
<1>11. lean_nat_mod(a, b) = NatRep(IF y = 0 THEN x ELSE x % y)
  <2>1. y # 0 /\ x <= MaxSmallNat => x % y <= MaxSmallNat
    BY <1>2, <1>5
  <2>. QED BY <1>1, <1>3, <1>5, <2>1 DEF lean_nat_mod, NatBig, RefNat
<1>12. /\ lean_nat_dec_eq(a, b) = (x = y) /\ lean_nat_dec_lt(a, b) = (x < y)
       /\ lean_nat_dec_le(a, b) = (x <= y)
  BY <1>1, <1>6 DEF lean_nat_dec_eq, lean_nat_dec_lt, lean_nat_dec_le
<1>. QED
  BY <1>7, <1>8, <1>9, <1>10, <1>11, <1>12 DEF a, b

-----------------------------------------------------------------------------
\* Sums: the function that adds up the terms t exists, over natural numbers.
Sums(f, t, n) == f = [i \in 0..n |-> IF i = 0 THEN 0 ELSE f[i - 1] + t[i - 1]]

\* What a sum is.
LEMMA SumsExist ==
  ASSUME NEW n \in Nat, NEW t, \A i \in Nat : i < n => t[i] \in Nat
  PROVE  \E f : /\ Sums(f, t, n) /\ f[0] = 0
                /\ \A i \in 0..n : f[i] \in Nat
                /\ \A i \in Nat : i < n => f[i + 1] = f[i] + t[i]
<1> DEFINE S == {d \in Nat : d <= n => \E f : Sums(f, t, d)}
<1>1. 0 \in S
  <2>1. Sums([i \in 0..0 |-> 0], t, 0)
    BY DEF Sums
  <2>. QED BY <2>1
<1>2. ASSUME NEW d \in Nat, d < n, d \in S
      PROVE  d + 1 \in S
  <2>1. PICK f : Sums(f, t, d)
    BY <1>2
  <2> DEFINE h == [k \in 0..(d + 1) |-> IF k = d + 1 THEN f[d] + t[d] ELSE f[k]]
             r == [k \in 0..(d + 1) |-> IF k = 0 THEN 0 ELSE h[k - 1] + t[k - 1]]
  <2>2. ASSUME NEW k \in 0..(d + 1)
        PROVE  h[k] = r[k]
    <3>1. CASE k = d + 1
      BY <3>1
    <3>2. CASE k \in 0..d
      <4>1. f[k] = IF k = 0 THEN 0 ELSE f[k - 1] + t[k - 1]
        BY <2>1, <3>2 DEF Sums
      <4>2. k # 0 => k - 1 \in 0..d
        BY <3>2
      <4>3. h[k] = f[k] /\ (k # 0 => h[k - 1] = f[k - 1])
        BY <3>2, <4>2
      <4>. QED BY <4>1, <4>3
    <3>. QED BY <3>1, <3>2
  <2>3. Sums(h, t, d + 1)
    <3>1. h = [k \in 0..(d + 1) |-> h[k]] /\ r = [k \in 0..(d + 1) |-> r[k]]
      OBVIOUS
    <3>. QED BY <2>2, <3>1 DEF Sums
  <2>. HIDE DEF h
  <2>. QED BY <2>3
<1>3. n \in S
  <2>. HIDE DEF S
  <2>1. \A d \in 0..n : d \in S
    BY <1>1, <1>2, RangeByInduction
  <2>. QED BY <2>1
<1>4. PICK f : Sums(f, t, n)
  BY <1>3
<1>5. f[0] = 0 /\ \A i \in Nat : i < n => f[i + 1] = f[i] + t[i]
  <2>1. f[0] = 0
    BY <1>4 DEF Sums
  <2>2. ASSUME NEW i \in Nat, i < n
        PROVE  f[i + 1] = f[i] + t[i]
    <3>1. i + 1 \in 0..n /\ i + 1 # 0 /\ (i + 1) - 1 = i
      BY <2>2
    <3>. QED BY <1>4, <3>1 DEF Sums
  <2>. QED BY <2>1, <2>2
<1> DEFINE T == {i \in Nat : f[i] \in Nat}
<1>6. \A i \in 0..n : i \in T
  <2>1. 0 \in T
    BY <1>5
  <2>2. \A i \in Nat : i < n /\ i \in T => i + 1 \in T
    BY <1>5
  <2>. HIDE DEF T
  <2>. QED BY <2>1, <2>2, RangeByInduction
<1>. QED
  BY <1>4, <1>5, <1>6

\* The number with the bits S, added up bit by bit.
BitSums(f, S) ==
  /\ f[0] = 0
  /\ \A i \in 0..2 * P + 1 : f[i] \in Nat
  /\ \A i \in 0..2 * P : f[i + 1] = f[i] + (IF i \in S THEN Pow2(i) ELSE 0)

\* OfBits adds up the bits.
LEMMA OfBitsSums ==
  ASSUME NEW S
  PROVE  \E f : BitSums(f, S) /\ OfBits(S) = f[2 * P + 1]
<1> DEFINE n == 2 * P + 1
           t == [i \in 0..2 * P |-> IF i \in S THEN Pow2(i) ELSE 0]
           B(f) == f = [i \in 0..n |-> IF i = 0 THEN 0 ELSE f[i - 1] + (IF i - 1 \in S THEN Pow2(i - 1) ELSE 0)]
<1>1. n \in Nat /\ 2 * P \in Nat
  BY NumbersAssumption
<1>2. \A i \in Nat : i < n => i \in 0..2 * P /\ t[i] \in Nat /\ t[i] = IF i \in S THEN Pow2(i) ELSE 0
  <2>1. \A i \in Nat : Pow2(i) \in Nat
    BY Pow2Is
  <2>. QED BY <1>1, <2>1
<1>3. ASSUME NEW f
      PROVE  Sums(f, t, n) <=> B(f)
  <2> DEFINE l == [i \in 0..n |-> IF i = 0 THEN 0 ELSE f[i - 1] + t[i - 1]]
             r == [i \in 0..n |-> IF i = 0 THEN 0 ELSE f[i - 1] + (IF i - 1 \in S THEN Pow2(i - 1) ELSE 0)]
  <2>1. ASSUME NEW i \in 0..n, i # 0
        PROVE  t[i - 1] = IF i - 1 \in S THEN Pow2(i - 1) ELSE 0
    <3>1. i - 1 \in Nat /\ i - 1 < n
      BY <1>1, <2>1
    <3>. QED BY <1>2, <3>1
  <2>2. l = r
    BY <2>1
  <2>. QED BY <2>2 DEF Sums
<1>4. OfBits(S) = (CHOOSE f : B(f))[n]
  BY Zenon DEF OfBits
<1>. HIDE DEF B, t
<1>5. PICK g : B(g)
  <2>1. \E f : Sums(f, t, n)
    <3>. HIDE DEF n
    <3>. QED BY <1>1, <1>2, SumsExist
  <2>. QED BY <2>1, <1>3
<1> DEFINE c == CHOOSE f : B(f)
<1>6. B(c)
  BY <1>5
<1>. HIDE DEF c
<1>7. c[0] = 0 /\ \A i \in 0..2 * P : c[i + 1] = c[i] + (IF i \in S THEN Pow2(i) ELSE 0)
  <2>1. c[0] = 0
    BY <1>1, <1>6 DEF B
  <2>2. ASSUME NEW i \in 0..2 * P
        PROVE  c[i + 1] = c[i] + (IF i \in S THEN Pow2(i) ELSE 0)
    <3>1. i + 1 \in 0..n /\ i + 1 # 0 /\ (i + 1) - 1 = i
      BY <1>1
    <3>. HIDE DEF n
    <3>. QED BY <1>6, <3>1 DEF B
  <2>. QED BY <2>1, <2>2
<1> DEFINE T == {i \in Nat : c[i] \in Nat}
<1>8. \A i \in 0..n : i \in T
  <2>1. 0 \in T
    BY <1>7
  <2>2. ASSUME NEW i \in Nat, i < n, i \in T
        PROVE  i + 1 \in T
    <3>1. i \in 0..2 * P /\ Pow2(i) \in Nat
      BY <1>1, <2>2, Pow2Is
    <3>. QED BY <1>7, <2>2, <3>1
  <2>. HIDE DEF T, n
  <2>. QED BY <1>1, <2>1, <2>2, RangeByInduction
<1>9. BitSums(c, S)
  BY <1>7, <1>8 DEF BitSums
<1>. QED
  BY <1>4, <1>9 DEF c

\* The sum up to a bit is smaller than the next power, and the sum grows.
LEMMA BitSumsGrow ==
  ASSUME NEW S, NEW f, BitSums(f, S)
  PROVE  /\ 2 * P \in Nat
         /\ \A n \in 0..2 * P + 1 : f[n] < Pow2(n) /\ f[n] <= f[2 * P + 1]
         /\ \A n \in 0..2 * P + 1 : (\A i \in S : i \in 0..2 * P => i < n) => f[2 * P + 1] = f[n]
<1> DEFINE m == 2 * P
<1>1. m \in Nat
  BY NumbersAssumption
<1>2. /\ f[0] = 0 /\ \A i \in 0..m + 1 : f[i] \in Nat
      /\ \A i \in 0..m : f[i + 1] = f[i] + (IF i \in S THEN Pow2(i) ELSE 0)
  BY DEF BitSums
<1>. HIDE DEF m
<1>3. ASSUME NEW n \in Nat, n <= m
      PROVE  n \in 0..m /\ n \in 0..m + 1 /\ n + 1 \in 0..m + 1
  BY <1>1, <1>3
<1>4. \A n \in Nat : Pow2(n) \in Nat /\ Pow2(n) > 0 /\ Pow2(n + 1) = 2 * Pow2(n) /\ Pow2(0) = 1
  BY Pow2Is
<1>5. \A n \in 0..m + 1 : f[n] < Pow2(n)
  <2> DEFINE T == {n \in Nat : f[n] < Pow2(n)}
  <2>1. 0 \in T
    BY <1>2, <1>4
  <2>2. ASSUME NEW n \in Nat, n < m + 1, n \in T
        PROVE  n + 1 \in T
    <3>1. n \in 0..m /\ f[n] \in Nat
      BY <1>1, <1>2, <2>2
    <3>2. f[n + 1] = f[n] \/ f[n + 1] = f[n] + Pow2(n)
      BY <1>2, <1>4, <3>1
    <3>. QED BY <1>4, <2>2, <3>1, <3>2
  <2>. HIDE DEF T
  <2>3. m + 1 \in Nat
    BY <1>1
  <2>4. \A n \in 0..m + 1 : n \in T
    BY <2>1, <2>2, <2>3, RangeByInduction
  <2>. QED BY <2>4 DEF T
<1>6. ASSUME NEW n \in 0..m + 1
      PROVE  /\ f[n] <= f[m + 1]
             /\ (\A i \in S : i \in 0..m => i < n) => f[m + 1] = f[n]
  <2> DEFINE T == {d \in Nat : n + d <= m + 1 =>
                     /\ f[n] <= f[n + d]
                     /\ (\A i \in S : i \in 0..m => i < n) => f[n + d] = f[n]}
  <2>1. 0 \in T
    BY <1>2
  <2>2. ASSUME NEW d \in Nat, d \in T
        PROVE  d + 1 \in T
    <3>1. SUFFICES ASSUME n + (d + 1) <= m + 1
                   PROVE  /\ f[n] <= f[n + (d + 1)]
                          /\ (\A i \in S : i \in 0..m => i < n) => f[n + (d + 1)] = f[n]
      OBVIOUS
    <3> DEFINE k == n + d
    <3>2. k \in 0..m /\ k \in 0..m + 1 /\ n + (d + 1) = k + 1 /\ k >= n /\ k \in Nat
      BY <1>1, <3>1
    <3>3. f[n] <= f[k] /\ ((\A i \in S : i \in 0..m => i < n) => f[k] = f[n])
      BY <2>2, <3>2
    <3>4. f[k + 1] = f[k] + (IF k \in S THEN Pow2(k) ELSE 0) /\ f[k] \in Nat /\ Pow2(k) \in Nat /\ f[n] \in Nat
      BY <1>2, <1>4, <3>2
    <3>. HIDE DEF k
    <3>5. f[n] <= f[k + 1]
      BY <3>3, <3>4
    <3>6. ASSUME \A i \in S : i \in 0..m => i < n
          PROVE  f[k + 1] = f[n]
      <4>1. k \notin S
        BY <3>2, <3>6
      <4>. QED BY <3>3, <3>4, <3>6, <4>1
    <3>. QED BY <3>2, <3>5, <3>6
  <2>. HIDE DEF T
  <2>3. m + 1 - n \in Nat /\ n + (m + 1 - n) = m + 1
    BY <1>1
  <2>4. m + 1 - n \in T
    BY <2>1, <2>2, <2>3, NumbersByInduction
  <2>. QED BY <2>3, <2>4 DEF T
<1>. QED
  BY <1>1, <1>5, <1>6 DEF m

\* The number with the bits S fits the highest of them.
LEMMA OfBitsIsNat ==
  ASSUME NEW S
  PROVE  /\ OfBits(S) \in Nat
         /\ \A n \in 0..2 * P + 1 : S \subseteq 0..n - 1 => OfBits(S) < Pow2(n)
         /\ OfBits(S) = 0 <=> S \cap 0..2 * P = {}
<1>1. PICK f : BitSums(f, S) /\ OfBits(S) = f[2 * P + 1]
  BY OfBitsSums
<1> DEFINE m == 2 * P
<1>2. /\ m \in Nat
      /\ \A n \in 0..m + 1 : f[n] < Pow2(n) /\ f[n] <= f[m + 1]
      /\ \A n \in 0..m + 1 : (\A i \in S : i \in 0..m => i < n) => f[m + 1] = f[n]
  BY <1>1, BitSumsGrow
<1>3. /\ f[0] = 0 /\ \A i \in 0..m + 1 : f[i] \in Nat
      /\ \A i \in 0..m : f[i + 1] = f[i] + (IF i \in S THEN Pow2(i) ELSE 0)
  BY <1>1 DEF BitSums
<1>4. OfBits(S) = f[m + 1]
  BY <1>1
<1>. HIDE DEF m
<1>5. OfBits(S) \in Nat
  BY <1>2, <1>3, <1>4
<1>6. ASSUME NEW n \in 0..m + 1, S \subseteq 0..n - 1
      PROVE  OfBits(S) < Pow2(n)
  <2>1. \A i \in S : i \in 0..m => i < n
    BY <1>6
  <2>. QED BY <1>2, <1>4, <2>1
<1>7. ASSUME S \cap 0..m = {}
      PROVE  OfBits(S) = 0
  BY <1>2, <1>3, <1>4, <1>7
<1>8. ASSUME NEW i \in S \cap 0..m
      PROVE  OfBits(S) # 0
  <2>1. i \in 0..m /\ i + 1 \in 0..m + 1 /\ i \in Nat /\ i \in 0..m + 1
    BY <1>2
  <2>2. f[i + 1] = f[i] + Pow2(i) /\ f[i] \in Nat /\ Pow2(i) \in Nat /\ Pow2(i) > 0
    BY <1>3, <2>1, Pow2Is
  <2>3. f[i + 1] > 0
    BY <2>2
  <2>4. f[i + 1] <= f[m + 1] /\ f[m + 1] \in Nat /\ f[i + 1] \in Nat
    BY <1>2, <1>3, <2>1
  <2>. QED BY <1>4, <2>3, <2>4
<1>. QED
  BY <1>5, <1>6, <1>7, <1>8 DEF m

-----------------------------------------------------------------------------
\* One bit more of a number.
LEMMA OneBit ==
  ASSUME NEW x \in Nat, NEW i \in Nat
  PROVE  /\ x % Pow2(i + 1) = (x % Pow2(i)) + (IF (x \div Pow2(i)) % 2 = 1 THEN Pow2(i) ELSE 0)
         /\ x \div Pow2(i + 1) = (x \div Pow2(i)) \div 2
<1> DEFINE p == Pow2(i)
           q == x \div p
           r == x % p
           d == q \div 2
           b == q % 2
           t == Pow2(i + 1)
<1>1. p \in Nat /\ p > 0 /\ p # 0 /\ t = 2 * p /\ t \in Nat /\ t # 0
  BY Pow2Is
<1>2. q \in Int /\ r \in 0..p - 1 /\ x = q * p + r
  <2>. HIDE DEF p, d, b, t
  <2>1. x \div p \in Int /\ x % p \in 0..p - 1 /\ x = (x \div p) * p + (x % p)
    BY <1>1, Division
  <2>. QED BY <2>1
<1>3. q = d * 2 + b /\ b \in 0..1 /\ d \in Int
  <2>. HIDE DEF q
  <2>. QED BY <1>2
<1>. HIDE DEF p, q, r, d, b, t
<1>4. b * p + r \in 0..t - 1 /\ b * p + r = r + (IF b = 1 THEN p ELSE 0)
  <2>1. CASE b = 0
    BY <1>1, <1>2, <2>1
  <2>2. CASE b = 1
    BY <1>1, <1>2, <2>2
  <2>. QED BY <1>3, <2>1, <2>2
<1>5. x = d * t + (b * p + r)
  <2>1. q * p = (d * 2) * p + b * p
    BY <1>1, <1>2, <1>3
  <2>2. (d * 2) * p = d * t
    BY <1>1, <1>3
  <2>3. d * t \in Int /\ b * p \in Int /\ q * p \in Int
    BY <1>1, <1>2, <1>3
  <2>. QED BY <1>2, <2>1, <2>2, <2>3
<1> DEFINE s == b * p + r
<1>6. s \in 0..t - 1 /\ x = d * t + s
  BY <1>4, <1>5
<1>. HIDE DEF s
<1>7. d = x \div t /\ s = x % t
  BY <1>1, <1>3, <1>6, Division
<1>. QED
  BY <1>4, <1>7 DEF p, q, r, d, b, t, s

\* The quotients and remainders by powers of two.
LEMMA PowerQuotients ==
  ASSUME NEW x \in Nat, NEW i \in Nat
  PROVE  /\ x \div Pow2(i) \in Nat /\ x % Pow2(i) \in Nat /\ x \div Pow2(i) <= x /\ x % Pow2(i) < Pow2(i)
         /\ x < Pow2(i) => x \div Pow2(i) = 0 /\ x % Pow2(i) = x
         /\ x \div Pow2(0) = x /\ x % Pow2(0) = 0
         /\ x = (x \div Pow2(i)) * Pow2(i) + (x % Pow2(i))
<1> DEFINE p == Pow2(i)
<1>1. p \in Nat /\ p > 0 /\ p # 0 /\ Pow2(0) = 1
  BY Pow2Is
<1>. HIDE DEF p
<1>2. x \div p \in Int /\ x % p \in 0..p - 1 /\ x = (x \div p) * p + (x % p)
  BY <1>1, Division
<1>3. x \div p \in Nat /\ x \div p <= x
  BY <1>1
<1>4. x < p => x \div p = 0 /\ x % p = x
  BY <1>1, SmallRemainder
<1>5. x \div Pow2(0) = x /\ x % Pow2(0) = 0
  <2>1. x \div 1 = x /\ x % 1 = 0
    OBVIOUS
  <2>. QED BY <1>1, <2>1
<1>6. x % p \in Nat /\ x % p < p
  BY <1>1, <1>2
<1>7. /\ x \div p \in Nat /\ x % p \in Nat /\ x \div p <= x /\ x % p < p
      /\ x < p => x \div p = 0 /\ x % p = x
      /\ x = (x \div p) * p + (x % p)
  BY <1>2, <1>3, <1>4, <1>6
<1>. QED
  BY <1>5, <1>7 DEF p

\* The bits of a number are below its size, and it is the sum of its bits.
LEMMA BitsOfNumbers ==
  ASSUME NEW x \in Nat, NEW n \in 0..2 * P + 1, x < Pow2(n)
  PROVE  Bits(x) \subseteq 0..n - 1 /\ OfBits(Bits(x)) = x
<1> DEFINE m == 2 * P
<1>1. m \in Nat
  BY NumbersAssumption
<1>2. Bits(x) \subseteq 0..n - 1
  <2>1. ASSUME NEW i \in Bits(x), i \notin 0..n - 1
        PROVE  FALSE
    <3>1. i \in Nat /\ n \in Nat /\ n <= i /\ (x \div Pow2(i)) % 2 = 1
      BY <1>1, <2>1 DEF Bits
    <3>2. Pow2(n) <= Pow2(i) /\ Pow2(n) \in Nat /\ Pow2(i) \in Nat
      BY <3>1, Pow2Grows, Pow2Is
    <3>3. x < Pow2(i)
      BY <3>2
    <3>4. x \div Pow2(i) = 0
      BY <3>1, <3>3, PowerQuotients
    <3>. QED BY <3>1, <3>4
  <2>. QED BY <2>1
<1>3. PICK f : BitSums(f, Bits(x)) /\ OfBits(Bits(x)) = f[m + 1]
  BY OfBitsSums
<1>4. /\ f[0] = 0 /\ \A i \in 0..m + 1 : f[i] \in Nat
      /\ \A i \in 0..m : f[i + 1] = f[i] + (IF i \in Bits(x) THEN Pow2(i) ELSE 0)
  BY <1>3 DEF BitSums
<1>5. \A i \in 0..m : i \in Bits(x) <=> (x \div Pow2(i)) % 2 = 1
  BY DEF Bits
<1>. HIDE DEF m
<1> DEFINE S == {i \in Nat : f[i] = x % Pow2(i)}
<1>6. 0 \in S
  BY <1>4, PowerQuotients
<1>7. ASSUME NEW i \in Nat, i < m + 1, i \in S
      PROVE  i + 1 \in S
  <2>1. i \in 0..m
    BY <1>1, <1>7
  <2>2. x % Pow2(i + 1) = (x % Pow2(i)) + (IF (x \div Pow2(i)) % 2 = 1 THEN Pow2(i) ELSE 0)
    BY OneBit
  <2>3. f[i + 1] = f[i] + (IF (x \div Pow2(i)) % 2 = 1 THEN Pow2(i) ELSE 0)
    BY <1>4, <1>5, <2>1
  <2>. QED BY <1>7, <2>2, <2>3
<1>. HIDE DEF S
<1>8. m + 1 \in S
  <2>1. m + 1 \in Nat
    BY <1>1
  <2>. QED BY <1>6, <1>7, <2>1, RangeByInduction
<1>9. x < Pow2(m + 1)
  <2>1. n \in Nat /\ m + 1 \in Nat /\ n <= m + 1
    BY <1>1 DEF m
  <2>2. Pow2(n) <= Pow2(m + 1) /\ Pow2(n) \in Nat /\ Pow2(m + 1) \in Nat
    BY <2>1, Pow2Grows, Pow2Is
  <2>. QED BY <2>2
<1>10. x % Pow2(m + 1) = x
  <2>1. m + 1 \in Nat
    BY <1>1
  <2>. QED BY <1>9, <2>1, PowerQuotients
<1>. QED
  BY <1>2, <1>3, <1>8, <1>10 DEF S

\* The word of ones, and what is left of it without the bits of a number.
LEMMA Complements ==
  ASSUME NEW n \in 0..2 * P, NEW x \in Nat, x < Pow2(n)
  PROVE  /\ Bits(Pow2(n) - 1) = 0..n - 1
         /\ OfBits(SymDiff(Bits(Pow2(n) - 1), Bits(x))) = Pow2(n) - 1 - x
<1> DEFINE m == 2 * P
           ones == Pow2(n) - 1
<1>1. m \in Nat /\ n \in Nat /\ n \in 0..m /\ n \in 0..m + 1
  BY NumbersAssumption
<1>2. Pow2(n) \in Nat /\ Pow2(n) > 0 /\ ones \in Nat /\ ones < Pow2(n)
  BY <1>1, Pow2Is
<1>3. ASSUME NEW i \in 0..n - 1
      PROVE  (ones \div Pow2(i)) % 2 = 1
  <2> DEFINE k == n - (i + 1)
             p == Pow2(i)
             q == Pow2(k)
  <2>1. k \in Nat /\ i \in Nat /\ i + 1 \in Nat /\ n = (i + 1) + k
    BY <1>1
  <2>2. Pow2(n) = Pow2(i + 1) * q /\ Pow2(i + 1) = 2 * p /\ p \in Nat /\ p > 0 /\ q \in Nat /\ q > 0
    <3>. HIDE DEF k
    <3>1. Pow2((i + 1) + k) = Pow2(i + 1) * Pow2(k)
      BY <2>1, Pow2Adds
    <3>2. Pow2(i + 1) = 2 * Pow2(i) /\ Pow2(i) \in Nat /\ Pow2(i) > 0 /\ Pow2(k) \in Nat /\ Pow2(k) > 0
      BY <2>1, Pow2Is
    <3>. QED BY <2>1, <3>1, <3>2
  <2>. HIDE DEF k, p, q
  <2> DEFINE d == 2 * q - 1
  <2>3. d \in Int /\ d % 2 = 1 /\ p - 1 \in 0..p - 1 /\ p # 0
    BY <2>2
  <2>4. ones = d * p + (p - 1)
    <3>1. Pow2(n) = (2 * q) * p
      BY <2>2
    <3>2. d * p = (2 * q) * p - p
      BY <2>2
    <3>3. (2 * q) * p \in Int /\ d * p \in Int
      BY <2>2
    <3>. QED BY <2>2, <3>1, <3>2, <3>3
  <2> DEFINE r == p - 1
             u == Pow2(n) - 1
  <2>5. u = d * p + r /\ r \in 0..p - 1 /\ u \in Int /\ d \in Int /\ p \in Nat /\ p # 0
    BY <1>2, <2>2, <2>3, <2>4
  <2>. HIDE DEF d, r, u
  <2>6. d = u \div p
    BY <2>5, Division
  <2>. QED BY <2>3, <2>6 DEF p, u
<1>4. Bits(ones) = 0..n - 1
  <2>1. 0..n - 1 \subseteq Bits(ones)
    <3>1. 0..n - 1 \subseteq 0..m
      BY <1>1
    <3>. QED BY <1>3, <3>1 DEF Bits
  <2>2. Bits(ones) \subseteq 0..n - 1
    <3>. HIDE DEF ones
    <3>. QED BY <1>1, <1>2, BitsOfNumbers DEF m
  <2>. QED BY <2>1, <2>2
<1>5. Bits(x) \subseteq 0..n - 1 /\ OfBits(Bits(x)) = x /\ OfBits(0..n - 1) = ones
  <2>1. Bits(x) \subseteq 0..n - 1 /\ OfBits(Bits(x)) = x
    BY <1>1, BitsOfNumbers
  <2>2. OfBits(Bits(ones)) = ones
    <3>. HIDE DEF ones
    <3>. QED BY <1>1, <1>2, BitsOfNumbers
  <2>. QED BY <1>4, <2>1, <2>2
<1> DEFINE A == 0..n - 1
           C == (0..n - 1) \ Bits(x)
<1>6. SymDiff(Bits(ones), Bits(x)) = C
  BY <1>4, <1>5 DEF SymDiff
<1>7. PICK f : BitSums(f, Bits(x)) /\ OfBits(Bits(x)) = f[m + 1]
  BY OfBitsSums
<1>8. PICK g : BitSums(g, C) /\ OfBits(C) = g[m + 1]
  BY OfBitsSums
<1>9. PICK h : BitSums(h, A) /\ OfBits(A) = h[m + 1]
  BY OfBitsSums
<1>10. \A i \in 0..m : i \in A <=> (i \in Bits(x) /\ i \notin C) \/ (i \notin Bits(x) /\ i \in C)
  BY <1>5
<1>11. \A i \in 0..m : ~(i \in A) => i \notin Bits(x) /\ i \notin C
  BY <1>5
<1> DEFINE S == {i \in Nat : f[i] + g[i] = h[i]}
<1>. HIDE DEF A, C
<1>12. 0 \in S
  BY <1>7, <1>8, <1>9 DEF BitSums
<1>13. ASSUME NEW i \in Nat, i < m + 1, i \in S
       PROVE  i + 1 \in S
  <2>1. i \in 0..m /\ i \in 0..m + 1 /\ Pow2(i) \in Nat
    BY <1>1, <1>13, Pow2Is
  <2>2. /\ f[i + 1] = f[i] + (IF i \in Bits(x) THEN Pow2(i) ELSE 0)
        /\ g[i + 1] = g[i] + (IF i \in C THEN Pow2(i) ELSE 0)
        /\ h[i + 1] = h[i] + (IF i \in A THEN Pow2(i) ELSE 0)
        /\ f[i] \in Nat /\ g[i] \in Nat /\ h[i] \in Nat
    BY <1>7, <1>8, <1>9, <2>1 DEF BitSums
  <2>3. f[i + 1] + g[i + 1] = h[i + 1]
    BY <1>10, <1>11, <1>13, <2>1, <2>2
  <2>. QED BY <2>3
<1>. HIDE DEF S
<1>14. m + 1 \in S
  <2>1. m + 1 \in Nat
    BY <1>1
  <2>. QED BY <1>12, <1>13, <2>1, RangeByInduction
<1>15. f[m + 1] + g[m + 1] = h[m + 1] /\ g[m + 1] \in Nat
  <2>1. m + 1 \in 0..m + 1
    BY <1>1
  <2>. QED BY <1>8, <1>14, <2>1 DEF S, BitSums
<1>16. x + OfBits(C) = ones /\ OfBits(C) \in Nat
  BY <1>5, <1>7, <1>8, <1>9, <1>15 DEF A
<1>. QED
  BY <1>2, <1>4, <1>6, <1>16

-----------------------------------------------------------------------------
\* The logarithm of a number is the position of its highest bit.
LEMMA Logarithms ==
  ASSUME NEW w \in Nat, w # 0, w < Pow2(2 * P + 1)
  PROVE  /\ log2(w) \in 0..2 * P /\ log2(w) \in Nat
         /\ Pow2(log2(w)) <= w /\ w < Pow2(log2(w) + 1)
<1> DEFINE m == 2 * P
           S == {n \in Nat : w < Pow2(n) => \E k \in 0..n - 1 : Pow2(k) <= w /\ w < Pow2(k + 1)}
<1>1. m \in Nat /\ m + 1 \in Nat
  BY NumbersAssumption
<1>2. 0 \in S
  <2>1. Pow2(0) = 1
    BY Pow2Is
  <2>. QED BY <2>1
<1>3. ASSUME NEW n \in Nat, n \in S
      PROVE  n + 1 \in S
  <2>1. SUFFICES ASSUME w < Pow2(n + 1)
                 PROVE  \E k \in 0..(n + 1) - 1 : Pow2(k) <= w /\ w < Pow2(k + 1)
    OBVIOUS
  <2>2. CASE w < Pow2(n)
    BY <1>3, <2>2
  <2>3. CASE Pow2(n) <= w
    <3>1. n \in 0..(n + 1) - 1
      OBVIOUS
    <3>. QED BY <2>1, <2>3, <3>1
  <2>4. Pow2(n) \in Nat
    BY Pow2Is
  <2>. QED BY <2>2, <2>3, <2>4
<1>4. m + 1 \in S
  <2>. HIDE DEF S, m
  <2>. QED BY <1>1, <1>2, <1>3, NumbersByInduction
<1>5. \E k \in 0..m : Pow2(k) <= w /\ w < Pow2(k + 1)
  <2>1. (m + 1) - 1 = m
    BY <1>1
  <2>. QED BY <1>4, <2>1
<1> DEFINE c == CHOOSE k \in 0..2 * P : Pow2(k) <= w /\ w < Pow2(k + 1)
<1>6. c \in 0..m /\ Pow2(c) <= w /\ w < Pow2(c + 1)
  BY <1>5
<1>7. log2(w) = c
  BY DEF log2
<1>. HIDE DEF c
<1>. QED
  BY <1>1, <1>6, <1>7

\* The logarithm is smaller than the number, and a natural number.
LEMMA LogarithmIsNat ==
  ASSUME NEW w \in Nat, w < Pow2(2 * P + 1)
  PROVE  log2(w) \in Nat /\ log2(w) <= w
<1>1. CASE w = 0
  BY <1>1 DEF log2
<1>2. CASE w # 0
  <2>1. log2(w) \in Nat /\ Pow2(log2(w)) <= w
    BY <1>2, Logarithms
  <2> DEFINE k == log2(w)
  <2>2. k \in Nat
    BY <2>1
  <2>. HIDE DEF k
  <2>3. k < Pow2(k) /\ Pow2(k) \in Nat
    BY <2>2, Pow2Grows, Pow2Is
  <2>. QED BY <2>1, <2>2, <2>3 DEF k
<1>. QED
  BY <1>1, <1>2

\* One less clears the lowest bit, sets the ones below it and keeps the others.
LEMMA LowestBit ==
  ASSUME NEW x \in Nat, x # 0, x < Pow2(2 * P + 1)
  PROVE  \E l \in Bits(x) : Bits(x) \cap Bits(x - 1) = Bits(x) \ {l}
<1> DEFINE m == 2 * P
           S == {n \in Nat : \/ x % Pow2(n) = 0
                             \/ \E l \in 0..n - 1 : (x \div Pow2(l)) % 2 = 1 /\ x % Pow2(l) = 0}
<1>1. m \in Nat /\ m + 1 \in Nat
  BY NumbersAssumption
<1>2. 0 \in S
  BY PowerQuotients
<1>3. ASSUME NEW n \in Nat, n \in S
      PROVE  n + 1 \in S
  <2>1. CASE x % Pow2(n) = 0 /\ (x \div Pow2(n)) % 2 = 1
    <3>1. n \in 0..(n + 1) - 1
      OBVIOUS
    <3>. QED BY <2>1, <3>1
  <2>2. CASE x % Pow2(n) = 0 /\ (x \div Pow2(n)) % 2 # 1
    <3>1. x % Pow2(n + 1) = (x % Pow2(n)) + (IF (x \div Pow2(n)) % 2 = 1 THEN Pow2(n) ELSE 0)
      BY OneBit
    <3>2. x % Pow2(n + 1) = 0
      BY <2>2, <3>1
    <3>. QED BY <3>2
  <2>3. CASE x % Pow2(n) # 0
    BY <1>3, <2>3
  <2>. QED BY <2>1, <2>2, <2>3
<1>4. m + 1 \in S
  <2>. HIDE DEF S, m
  <2>. QED BY <1>1, <1>2, <1>3, NumbersByInduction
<1>5. x % Pow2(m + 1) = x
  <2>. HIDE DEF S
  <2>1. x < Pow2(m + 1)
    OBVIOUS
  <2>. QED BY <1>1, <2>1, PowerQuotients
<1>6. PICK l \in 0..m : (x \div Pow2(l)) % 2 = 1 /\ x % Pow2(l) = 0
  <2>1. (m + 1) - 1 = m
    BY <1>1
  <2>. QED BY <1>4, <1>5, <2>1
<1>. HIDE DEF S, m
<1> DEFINE p == Pow2(l)
           q == x \div p
           y == x - 1
<1>7. l \in Nat /\ l + 1 \in Nat /\ p \in Nat /\ p > 0 /\ Pow2(l + 1) = 2 * p /\ y \in Nat
  BY <1>1, <1>6, Pow2Is
<1>8. q \in Nat /\ q % 2 = 1 /\ x = q * p
  <2>1. x \div Pow2(l) \in Nat /\ x = (x \div Pow2(l)) * Pow2(l) + (x % Pow2(l))
    BY <1>7, PowerQuotients
  <2>2. (x \div Pow2(l)) * Pow2(l) \in Nat
    BY <1>7, <2>1
  <2>. QED BY <1>6, <2>1, <2>2
<1>9. l \in Bits(x)
  BY <1>6 DEF Bits, m
<1>10. y \div p = q - 1
  <2>. HIDE DEF p, q
  <2> DEFINE d == q - 1
             r == p - 1
  <2>1. d \in Int /\ r \in 0..p - 1 /\ p # 0
    BY <1>7, <1>8
  <2>2. y = d * p + r
    <3>1. d * p = q * p - p /\ q * p \in Int
      BY <1>7, <1>8
    <3>. QED BY <1>7, <1>8, <3>1
  <2>4. y \in Int /\ d \in Int /\ r \in 0..p - 1 /\ p \in Nat /\ p # 0 /\ y = d * p + r
    BY <1>7, <2>1, <2>2
  <2>. HIDE DEF d, r, y
  <2>3. d = y \div p
    BY <2>4, Division
  <2>. QED BY <2>3 DEF d
<1>11. l \notin Bits(y)
  <2>1. (y \div Pow2(l)) % 2 = 0
    <3>1. (q - 1) % 2 = 0
      <4>. HIDE DEF q
      <4>. QED BY <1>8
    <3>. QED BY <1>10, <3>1
  <2>. HIDE DEF y
  <2>. QED BY <2>1 DEF Bits
<1>12. ASSUME NEW i \in Nat, i < l
       PROVE  (x \div Pow2(i)) % 2 # 1
  <2> DEFINE k == l - (i + 1)
             a == Pow2(i)
             c == Pow2(k)
             d == (q * c) * 2
  <2>1. k \in Nat /\ i + 1 \in Nat /\ l = (i + 1) + k
    BY <1>7, <1>12
  <2>2. p = (2 * a) * c /\ a \in Nat /\ a > 0 /\ a # 0 /\ c \in Nat
    <3>. HIDE DEF k
    <3>1. Pow2((i + 1) + k) = Pow2(i + 1) * Pow2(k)
      BY <2>1, Pow2Adds
    <3>2. Pow2(i + 1) = 2 * Pow2(i) /\ Pow2(i) \in Nat /\ Pow2(i) > 0 /\ Pow2(k) \in Nat
      BY <2>1, Pow2Is
    <3>. QED BY <2>1, <3>1, <3>2
  <2>. HIDE DEF a, c, k, p, q
  <2>3. x = d * a + 0 /\ d \in Int
    <3>1. q * ((2 * a) * c) = ((q * c) * 2) * a
      BY <1>8, <2>2
    <3>2. q * c \in Int
      BY <1>8, <2>2
    <3>. QED BY <1>8, <2>2, <3>1, <3>2
  <2>4. d % 2 = 0
    <3>1. q * c \in Int
      BY <1>8, <2>2
    <3> DEFINE e == q * c
    <3>2. e \in Int /\ d = e * 2
      BY <3>1
    <3>. HIDE DEF e, d
    <3>. QED BY <3>2
  <2>. HIDE DEF d
  <2>5. 0 \in 0..a - 1
    BY <2>2
  <2>6. d = x \div a
    BY <2>2, <2>3, <2>5, Division
  <2>. QED BY <2>4, <2>6 DEF a
<1>13. ASSUME NEW i \in Nat, i > l
       PROVE  x \div Pow2(i) = y \div Pow2(i)
  <2> DEFINE k == i - (l + 1)
             c == Pow2(k)
             t == Pow2(l + 1)
  <2>1. k \in Nat /\ i = (l + 1) + k
    BY <1>7, <1>13
  <2>2. Pow2(i) = t * c /\ c \in Nat /\ c > 0 /\ t \in Nat /\ t > 0
    <3>. HIDE DEF k
    <3>1. Pow2((l + 1) + k) = Pow2(l + 1) * Pow2(k)
      BY <1>7, <2>1, Pow2Adds
    <3>2. Pow2(l + 1) \in Nat /\ Pow2(l + 1) > 0 /\ Pow2(k) \in Nat /\ Pow2(k) > 0
      BY <1>7, <2>1, Pow2Is
    <3>. QED BY <2>1, <3>1, <3>2
  <2>3. x \div t = (x \div p) \div 2 /\ y \div t = (y \div p) \div 2
    BY <1>7, OneBit
  <2>4. x \div t = y \div t
    <3>1. q \div 2 = (q - 1) \div 2
      <4>. HIDE DEF q
      <4>. QED BY <1>8
    <3>. QED BY <1>10, <2>3, <3>1
  <2>. HIDE DEF t, c, y
  <2>5. x \div (t * c) = (x \div t) \div c /\ y \div (t * c) = (y \div t) \div c
    BY <1>7, <2>2
  <2>. QED BY <2>2, <2>4, <2>5
<1>14. ASSUME NEW i \in Bits(x)
       PROVE  i \in Bits(y) <=> i # l
  <2>1. i \in Nat /\ i \in 0..m /\ (x \div Pow2(i)) % 2 = 1
    BY <1>1 DEF Bits, m
  <2>2. ~(i < l)
    BY <1>12, <2>1
  <2>3. ASSUME i > l
        PROVE  i \in Bits(y)
    <3>1. (y \div Pow2(i)) % 2 = 1
      BY <1>13, <2>1, <2>3
    <3>. HIDE DEF y
    <3>. QED BY <2>1, <3>1 DEF Bits, m
  <2>. QED BY <1>7, <1>11, <2>1, <2>2, <2>3
<1>15. Bits(x) \cap Bits(x - 1) = Bits(x) \ {l}
  BY <1>14
<1>. QED
  BY <1>9, <1>15

-----------------------------------------------------------------------------
\* A set of numbers below a bound has a greatest one.
LEMMA GreatestOf ==
  ASSUME NEW n \in Nat, NEW D \in SUBSET (0..n), D # {}
  PROVE  Max(D) \in D /\ \A y \in D : Max(D) >= y
<1> DEFINE S == {k \in Nat : \A E \in SUBSET (0..k) : E # {} => \E x \in E : \A y \in E : x >= y}
<1>1. 0 \in S
  <2>1. ASSUME NEW E \in SUBSET (0..0), E # {}
        PROVE  \E x \in E : \A y \in E : x >= y
    <3>1. 0..0 = {0}
      OBVIOUS
    <3>2. E = {0}
      BY <2>1, <3>1
    <3>. QED BY <3>2
  <2>. QED BY <2>1
<1>2. ASSUME NEW k \in Nat, k \in S
      PROVE  k + 1 \in S
  <2>1. ASSUME NEW E \in SUBSET (0..(k + 1)), E # {}
        PROVE  \E x \in E : \A y \in E : x >= y
    <3>1. CASE k + 1 \in E
      <4>1. \A y \in E : k + 1 >= y
        OBVIOUS
      <4>. QED BY <3>1, <4>1
    <3>2. CASE k + 1 \notin E
      <4>1. E \in SUBSET (0..k)
        BY <3>2
      <4>. QED BY <1>2, <2>1, <4>1
    <3>. QED BY <3>1, <3>2
  <2>. QED BY <2>1
<1>3. n \in S
  <2>. HIDE DEF S
  <2>. QED BY <1>1, <1>2, NumbersByInduction
<1>4. \E x \in D : \A y \in D : x >= y
  BY <1>3
<1>. QED
  BY <1>4 DEF Max

\* The greatest common divisor is a natural number, and positive unless both are 0.
LEMMA GcdIsNat ==
  ASSUME NEW x \in Nat, NEW y \in Nat
  PROVE  Gcd(x, y) \in Nat /\ (x # 0 => Gcd(x, y) # 0)
<1>1. x = 0 => Gcd(x, y) = y
  BY DEF Gcd
<1>3. x # 0 /\ y = 0 => Gcd(x, y) = x
  BY DEF Gcd
<1>2. CASE x # 0 /\ y # 0
  <2> DEFINE D == Divisors(x) \cap Divisors(y)
  <2>1. D \in SUBSET (0..x) /\ 1 \in D /\ \A d \in D : d \in Nat /\ d # 0
    <3>1. x % 1 = 0 /\ y % 1 = 0 /\ 1 \in 1..x /\ 1 \in 1..y
      BY <1>2
    <3>. QED BY <3>1 DEF Divisors
  <2>2. Gcd(x, y) = Max(D)
    BY <1>2 DEF Gcd
  <2>. HIDE DEF D
  <2>3. Max(D) \in D
    BY <2>1, GreatestOf
  <2>. QED BY <2>1, <2>2, <2>3
<1>. QED
  BY <1>1, <1>2, <1>3

\* Natural numbers below twice the width of a word.
Small(x) == -Pow2(2 * P) < x /\ x < Pow2(2 * P)

\* Natural numbers are closed under the operations of Nat.
LEMMA RefNatIsNat ==
  ASSUME NEW x \in Nat, NEW y \in Nat, Small(x),
         NEW op \in NatOps \cup NatBitOps \cup NatShifts \cup NatOtherOps
  PROVE  RefNat(op, x, y) \in Nat
<1>1. CASE op \in NatOps
  <2>1. y # 0 => x \div y \in Nat /\ x % y \in Nat
    OBVIOUS
  <2>2. x + y \in Nat /\ x * y \in Nat /\ (x >= y => x - y \in Nat)
    OBVIOUS
  <2>. QED BY <1>1, <2>1, <2>2 DEF NatOps, RefNat
<1>2. CASE op \in NatBitOps
  <2>1. \A S : OfBits(S) \in Nat
    BY OfBitsIsNat
  <2>. QED BY <1>2, <2>1 DEF NatBitOps, RefNat
<1>3. CASE op \in NatShifts
  <2>1. Power(x, y) \in Nat /\ Pow2(y) \in Nat /\ x \div Pow2(y) \in Nat
    BY PowerIsNat, Pow2Is, PowerQuotients
  <2>2. x * Pow2(y) \in Nat
    BY <2>1
  <2>. QED BY <1>3, <2>1, <2>2 DEF NatShifts, RefNat
<1>4. CASE op \in NatOtherOps
  <2>1. Gcd(x, y) \in Nat /\ (x # 0 => Gcd(x, y) # 0)
    BY GcdIsNat
  <2>2. x * y # 0 => (x * y) \div Gcd(x, y) \in Nat
    <3> DEFINE g == Gcd(x, y)
               p == x * y
    <3>1. p # 0 => x # 0
      OBVIOUS
    <3>2. p \in Nat
      OBVIOUS
    <3>. HIDE DEF p
    <3>3. p # 0 => g \in Nat /\ g # 0
      BY <2>1, <3>1
    <3>. HIDE DEF g
    <3>4. p # 0 => p \div g \in Nat
      BY <3>2, <3>3
    <3>. QED BY <3>4 DEF g, p
  <2>3. {x, y} \in SUBSET (0..x + y) /\ {x, y} # {} /\ x + y \in Nat
    OBVIOUS
  <2>4. Max({x, y}) \in {x, y}
    BY <2>3, GreatestOf
  <2>5. Min({x, y}) \in {x, y}
    <3>1. \E a \in {x, y} : \A b \in {x, y} : a <= b
      OBVIOUS
    <3>. QED BY <3>1 DEF Min
  <2>6. ASSUME NEW z \in 0..x
        PROVE  log2(z) \in Nat
    <3>1. Pow2(2 * P) \in Nat /\ Pow2(2 * P + 1) = 2 * Pow2(2 * P)
      <4>1. 2 * P \in Nat
        BY NumbersAssumption
      <4>. QED BY <4>1, Pow2Is
    <3>2. z \in Nat /\ z < Pow2(2 * P + 1)
      BY <3>1 DEF Small
    <3>. QED BY <3>2, LogarithmIsNat
  <2>7. log2(x) \in Nat
    BY <2>6
  <2>8. x > 1 => Pow2(log2(x - 1) + 1) \in Nat
    <3>1. x > 1 => x - 1 \in 0..x
      OBVIOUS
    <3>2. x > 1 => log2(x - 1) \in Nat
      BY <2>6, <3>1
    <3> DEFINE k == log2(x - 1)
    <3>3. x > 1 => k + 1 \in Nat
      BY <3>2
    <3>. HIDE DEF k
    <3>4. x > 1 => Pow2(k + 1) \in Nat
      BY <3>3, Pow2Is
    <3>. QED BY <3>4 DEF k
  <2>9. CASE op = "gcd"
    BY <2>1, <2>9 DEF RefNat
  <2>10. CASE op = "lcm"
    BY <2>2, <2>10 DEF RefNat
  <2>11. CASE op \in {"min", "max"}
    BY <2>4, <2>5, <2>11 DEF RefNat
  <2>12. CASE op = "log2"
    BY <2>7, <2>12 DEF RefNat
  <2>13. CASE op = "pred"
    BY <2>13 DEF RefNat
  <2>14. CASE op = "nextPowerOfTwo"
    BY <2>8, <2>14 DEF RefNat
  <2>. QED BY <1>4, <2>9, <2>10, <2>11, <2>12, <2>13, <2>14 DEF NatOtherOps
<1>. QED
  BY <1>1, <1>2, <1>3, <1>4

\* The form that an operation of Nat gives is that of the number that it is about.
LEMMA NatOpIsExact ==
  ASSUME NEW x \in Nat, NEW y \in Nat, Small(x),
         NEW op \in NatOps \cup NatBitOps \cup NatShifts \cup NatOtherOps
  PROVE  NatOp(op, NatRep(x), NatRep(y)) = NatRep(RefNat(op, x, y)) /\ RefNat(op, x, y) \in Nat
<1>1. RefNat(op, x, y) \in Nat
  BY RefNatIsNat
<1>2. CASE op \in NatOps
  <2>1. CASE op = "add"
    BY <2>1, NatArithmetic DEF NatOp, RefNat
  <2>2. CASE op = "sub"
    BY <2>2, NatArithmetic DEF NatOp, RefNat
  <2>3. CASE op = "mul"
    BY <2>3, NatArithmetic DEF NatOp, RefNat
  <2>4. CASE op = "div"
    <3> DEFINE r == IF y = 0 THEN 0 ELSE x \div y
    <3>1. NatOp("div", NatRep(x), NatRep(y)) = lean_nat_div(NatRep(x), NatRep(y))
      BY DEF NatOp
    <3>2. RefNat("div", x, y) = r
      BY DEF RefNat
    <3>3. lean_nat_div(NatRep(x), NatRep(y)) = NatRep(r)
      BY NatArithmetic
    <3>. HIDE DEF r
    <3>. QED BY <1>1, <2>4, <3>1, <3>2, <3>3
  <2>5. CASE op = "mod"
    <3> DEFINE r == IF y = 0 THEN x ELSE x % y
    <3>1. NatOp("mod", NatRep(x), NatRep(y)) = lean_nat_mod(NatRep(x), NatRep(y))
      BY DEF NatOp
    <3>2. RefNat("mod", x, y) = r
      BY DEF RefNat
    <3>3. lean_nat_mod(NatRep(x), NatRep(y)) = NatRep(r)
      BY NatArithmetic
    <3>. HIDE DEF r
    <3>. QED BY <1>1, <2>5, <3>1, <3>2, <3>3
  <2>. QED BY <1>1, <1>2, <2>1, <2>2, <2>3, <2>4, <2>5 DEF NatOps
<1>3. CASE op \notin NatOps
  <2>1. NatOp(op, NatRep(x), NatRep(y)) = NatBig(op, NatRep(x), NatRep(y))
    BY <1>3 DEF NatOps, NatOp
  <2>2. NatBig(op, NatRep(x), NatRep(y)) = BigNatResult(RefNat(op, x, y))
    BY NatReps DEF NatBig
  <2>. QED BY <1>1, <2>1, <2>2, NatReps
<1>. QED
  BY <1>1, <1>2, <1>3

\* A number is a power of two exactly if it has one bit.
LEMMA PowersOfTwo ==
  ASSUME NEW x \in Nat, Small(x)
  PROVE  isPowerOfTwo(NatRep(x)) <=> Cardinality(Bits(x)) = 1
<1>1. 2 * P \in Nat /\ 0 \in Nat /\ 1 \in Nat
  BY NumbersAssumption
<1>2. x < Pow2(2 * P + 1)
  <2>1. Pow2(2 * P) \in Nat /\ Pow2(2 * P + 1) = 2 * Pow2(2 * P)
    BY <1>1, Pow2Is
  <2>. QED BY <2>1 DEF Small
<1>3. Box(0) = NatRep(0) /\ Box(1) = NatRep(1)
  BY <1>1, Borders, NatReps
<1>4. lean_nat_dec_eq(NatRep(x), NatRep(0)) <=> x = 0
  BY <1>1, NatArithmetic
<1>5. CASE x = 0
  <2>1. Bits(0) = {}
    <3>1. ASSUME NEW i \in Bits(0)
          PROVE  FALSE
      <4>1. i \in Nat /\ (0 \div Pow2(i)) % 2 = 1
        BY <1>1 DEF Bits
      <4>2. 0 < Pow2(i)
        BY <4>1, Pow2Is
      <4>3. 0 \div Pow2(i) = 0
        BY <4>1, <4>2, PowerQuotients
      <4>. QED BY <4>1, <4>3
    <3>. QED BY <3>1
  <2>2. Cardinality(Bits(x)) = 0
    BY <1>5, <2>1, FS_EmptySet
  <2>. QED BY <1>3, <1>4, <1>5, <2>2 DEF isPowerOfTwo
<1>6. CASE x # 0
  <2> DEFINE z == OfBits(Bits(x) \cap Bits(x - 1))
  <2>1. lean_nat_sub(NatRep(x), NatRep(1)) = NatRep(x - 1) /\ x - 1 \in Nat
    BY <1>1, <1>6, NatArithmetic
  <2>2. NatOp("land", NatRep(x), NatRep(x - 1)) = NatRep(z) /\ z \in Nat
    <3>1. "land" \in NatBitOps
      BY DEF NatBitOps
    <3>2. RefNat("land", x, x - 1) = z
      BY DEF RefNat
    <3>. QED BY <2>1, <3>1, <3>2, NatOpIsExact
  <2>3. isPowerOfTwo(NatRep(x)) <=> z = 0
    <3>1. lean_nat_dec_eq(NatRep(z), NatRep(0)) <=> z = 0
      <4>. HIDE DEF z
      <4>. QED BY <1>1, <2>2, NatArithmetic
    <3>. QED BY <1>3, <1>4, <1>6, <2>1, <2>2, <3>1 DEF isPowerOfTwo
  <2>4. PICK l \in Bits(x) : Bits(x) \cap Bits(x - 1) = Bits(x) \ {l}
    BY <1>2, <1>6, LowestBit
  <2>5. z = 0 <=> Bits(x) = {l}
    <3>1. z = 0 <=> (Bits(x) \ {l}) \cap 0..2 * P = {}
      BY <2>4, OfBitsIsNat
    <3>2. Bits(x) \subseteq 0..2 * P
      BY DEF Bits
    <3>. QED BY <3>1, <3>2
  <2>6. Cardinality(Bits(x)) = 1 <=> Bits(x) = {l}
    <3>1. IsFiniteSet(Bits(x))
      <4>1. IsFiniteSet(0..2 * P)
        BY <1>1, FS_Interval
      <4>. QED BY <4>1, FS_Subset DEF Bits
    <3>2. ASSUME Cardinality(Bits(x)) = 1
          PROVE  Bits(x) = {l}
      <4>1. PICK a : Bits(x) = {a}
        BY <3>1, <3>2, FS_Singleton
      <4>. QED BY <4>1
    <3>3. Cardinality({l}) = 1
      BY FS_Singleton
    <3>. QED BY <3>2, <3>3
  <2>. QED BY <2>3, <2>5, <2>6
<1>. QED
  BY <1>5, <1>6

-----------------------------------------------------------------------------
\* The form that an Int always has, and the number that it stands for.
LEMMA IntReps ==
  ASSUME NEW v \in Int
  PROVE  /\ IntValue(BigIntResult(v)) = v /\ lean_int64_to_int(v) = BigIntResult(v)
         /\ v \in MinSmallInt..MaxSmallInt => BigIntResult(v).small /\ lean_scalar_to_int64(BigIntResult(v)) = v
         /\ v \notin MinSmallInt..MaxSmallInt =>
              ~BigIntResult(v).small /\ BigIntResult(v) = [small |-> FALSE, w |-> v] /\ BigIntResult(v).w = v
         /\ v \in 0..MaxSmallInt => BigIntResult(v) = [small |-> TRUE, w |-> v]
<1> DEFINE half == P \div 2
           m == Pow2(P - 1)
           h == Pow2(half)
           c == Pow2(P - 1 - half)
<1>1. /\ half \in Nat /\ half # 0 /\ m = MaxSmallNat + 1 /\ m = c * h
      /\ MaxSmallInt \in Nat /\ MaxSmallNat \in Nat /\ MaxSmallInt < MaxSmallNat /\ MinSmallInt = -MaxSmallInt - 1
      /\ Pow2(half - 1) = MaxSmallInt + 1
  BY Borders
<1>2. c \in Nat
  BY Borders, Pow2Is
<1>3. /\ h \in Nat /\ h > 1
      /\ \A x \in -Pow2(half - 1)..Pow2(half - 1) - 1 : Signed(Wrap(x, half), half) = x
      /\ \A x, k \in Int : Wrap(x + k * h, half) = Wrap(x, half)
  <2>. HIDE DEF half
  <2>. QED BY <1>1, Words
<1>4. \A x : Wrap(x, P - 1) = x % m
  BY DEF Wrap
<1>5. \A o : lean_scalar_to_int64(o) = Signed(Wrap(o.w, half), half)
  BY DEF lean_scalar_to_int64
<1>. HIDE DEF half, m, h, c
<1>6. ASSUME v \in MinSmallInt..MaxSmallInt
      PROVE  /\ BigIntResult(v) = [small |-> TRUE, w |-> v % m] /\ lean_scalar_to_int64(BigIntResult(v)) = v
  <2>1. BigIntResult(v) = [small |-> TRUE, w |-> v % m]
    BY <1>4, <1>6 DEF BigIntResult, Box
  <2>2. m \in Nat /\ m # 0
    BY <1>1
  <2> DEFINE q == v \div m
             r == v % m
             k == -(q * c)
  <2>3. q \in Int /\ r \in Int /\ v = q * m + r
    BY <2>2, Division
  <2>4. k \in Int /\ r = v + k * h
    <3>. HIDE DEF q, r
    <3>1. q * c \in Int /\ q * (c * h) = (q * c) * h /\ (-(q * c)) * h = -((q * c) * h)
      BY <1>2, <1>3, <2>3
    <3>2. (q * c) * h \in Int
      BY <1>3, <3>1
    <3>3. v = (q * c) * h + r
      BY <1>1, <2>3, <3>1
    <3>. QED BY <2>3, <3>1, <3>2, <3>3
  <2>5. Wrap(r, half) = Wrap(v, half)
    <3>. HIDE DEF k, r, q
    <3>. QED BY <1>3, <2>4
  <2>6. Signed(Wrap(v, half), half) = v
    BY <1>1, <1>3, <1>6
  <2>7. lean_scalar_to_int64(BigIntResult(v)) = Signed(Wrap(r, half), half)
    <3>. HIDE DEF r
    <3>1. BigIntResult(v).w = r
      BY <2>1 DEF r
    <3>. QED BY <1>5, <3>1
  <2>. QED BY <2>1, <2>5, <2>6, <2>7
<1>7. ASSUME v \notin MinSmallInt..MaxSmallInt
      PROVE  BigIntResult(v) = [small |-> FALSE, w |-> v]
  BY <1>7 DEF BigIntResult, Big
<1>8. ASSUME v \in 0..MaxSmallInt
      PROVE  BigIntResult(v) = [small |-> TRUE, w |-> v]
  <2>1. v \in MinSmallInt..MaxSmallInt /\ v \in 0..m - 1 /\ m \in Nat /\ m # 0
    BY <1>1, <1>8
  <2>2. v % m = v
    BY <2>1, SmallRemainder
  <2>. QED BY <1>6, <2>1, <2>2
<1>9. lean_int64_to_int(v) = BigIntResult(v)
  BY DEF lean_int64_to_int, BigIntResult
<1>10. IntValue(BigIntResult(v)) = v
  BY <1>6, <1>7 DEF IntValue
<1>11. v \in MinSmallInt..MaxSmallInt => BigIntResult(v).small /\ lean_scalar_to_int64(BigIntResult(v)) = v
  BY <1>6
<1>12. v \notin MinSmallInt..MaxSmallInt =>
         ~BigIntResult(v).small /\ BigIntResult(v) = [small |-> FALSE, w |-> v] /\ BigIntResult(v).w = v
  BY <1>7
<1>. QED
  BY <1>8, <1>9, <1>10, <1>11, <1>12

\* Comparisons of Ints are comparisons of the numbers that they stand for.
LEMMA IntComparisons ==
  ASSUME NEW x \in Int, NEW y \in Int
  PROVE  /\ lean_int_eq(BigIntResult(x), BigIntResult(y)) <=> x = y
         /\ lean_int_lt(BigIntResult(x), BigIntResult(y)) <=> x < y
         /\ lean_int_le(BigIntResult(x), BigIntResult(y)) <=> x <= y
         /\ isNonNeg(BigIntResult(x)) <=> x >= 0
<1>1. IntValue(BigIntResult(x)) = x /\ IntValue(BigIntResult(y)) = y
  BY IntReps
<1>. QED
  BY <1>1 DEF lean_int_eq, lean_int_lt, lean_int_le, isNonNeg

\* The test for the i64 range gives the right answer.
LEMMA FitsIsRange ==
  ASSUME NEW v \in Int
  PROVE  FitsI64(BigIntResult(v)) <=> v \in I64
<1>1. /\ MinSmallInt..MaxSmallInt \subseteq I64 /\ I64 = -Pow2(P - 1)..Pow2(P - 1) - 1 /\ P \in Nat /\ P # 0
  <2>1. /\ I64 = -MaxSmallNat - 1..MaxSmallNat /\ MaxSmallInt \in Nat /\ MaxSmallNat \in Nat
        /\ MaxSmallInt < MaxSmallNat /\ MinSmallInt = -MaxSmallInt - 1 /\ P \in Nat /\ P > 3
    BY Borders
  <2>2. MinSmallInt..MaxSmallInt \subseteq I64
    BY <2>1
  <2>. QED BY <2>1, <2>2 DEF I64
<1>2. CASE v \in MinSmallInt..MaxSmallInt
  <2>1. BigIntResult(v).small
    BY <1>2, IntReps
  <2>. QED BY <1>1, <1>2, <2>1 DEF FitsI64
<1>3. CASE v \notin MinSmallInt..MaxSmallInt
  <2> DEFINE s == Signed(Wrap(v, P), P)
  <2>1. ~BigIntResult(v).small /\ BigIntResult(v).w = v
    BY <1>3, IntReps
  <2>2. s \in -Pow2(P - 1)..Pow2(P - 1) - 1 /\ (v \in -Pow2(P - 1)..Pow2(P - 1) - 1 => s = v)
    <3>1. Wrap(v, P) \in 0..Pow2(P) - 1
      BY <1>1, Words
    <3>. QED BY <1>1, <3>1, Words
  <2>3. s \in Int
    <3>1. Pow2(P - 1) \in Int
      BY <1>1, Words
    <3>. HIDE DEF s
    <3>. QED BY <2>2, <3>1
  <2>4. FitsI64(BigIntResult(v)) <=> lean_int_eq(BigIntResult(v), lean_int64_to_int(s))
    BY <2>1 DEF FitsI64
  <2>. HIDE DEF s
  <2>5. lean_int_eq(BigIntResult(v), lean_int64_to_int(s)) <=> v = s
    BY <2>3, IntReps, IntComparisons
  <2>. QED BY <1>1, <2>2, <2>4, <2>5
<1>. QED
  BY <1>2, <1>3

\* Truncated division: the quotient is rounded towards zero, the remainder has
\* the sign of the dividend.
LEMMA Truncation ==
  ASSUME NEW x \in Int, NEW y \in Int, y # 0
  PROVE  /\ Quot(x, y) \in Int /\ Rem(x, y) \in Int /\ x = y * Quot(x, y) + Rem(x, y)
         /\ x >= 0 => Rem(x, y) >= 0 /\ Rem(x, y) < AbsV(y)
         /\ x < 0 => Rem(x, y) <= 0 /\ -Rem(x, y) < AbsV(y)
         /\ AbsV(Quot(x, y)) <= AbsV(x)
         /\ AbsV(Quot(x, y)) = AbsV(x) => x = 0 \/ AbsV(y) = 1
         /\ (x >= 0 <=> y >= 0) => Quot(x, y) >= 0
         /\ x >= 0 /\ y > 0 => Quot(x, y) = x \div y /\ Rem(x, y) = x % y
<1> DEFINE a == AbsV(x)
           b == AbsV(y)
           q == a \div b
           r == a % b
<1>1. a \in Nat /\ b \in Nat /\ b # 0 /\ b > 0
  BY DEF AbsV
<1>2. q \in Int /\ r \in 0..b - 1 /\ a = q * b + r
  <2>. HIDE DEF a, b
  <2>1. a \div b \in Int /\ a % b \in 0..b - 1 /\ a = (a \div b) * b + (a % b)
    BY <1>1, Division
  <2>. QED BY <2>1
<1>3. q >= 0 /\ q <= a /\ (q = a => a = 0 \/ b = 1)
  <2>. HIDE DEF a, b
  <2>1. q >= 0 /\ q <= a
    BY <1>1
  <2>2. ASSUME q = a, b # 1
        PROVE  a = 0
    <3>. HIDE DEF q, r
    <3>1. b >= 2 /\ a * b <= a
      BY <1>1, <1>2, <2>2
    <3>. QED BY <1>1, <3>1
  <2>. QED BY <2>1, <2>2
<1>4. /\ (x < 0 <=> y < 0) => Quot(x, y) = q
      /\ ~(x < 0 <=> y < 0) => Quot(x, y) = -q
  BY DEF Quot
<1>5. Rem(x, y) = x - y * Quot(x, y)
  BY DEF Rem
<1>6. /\ (x >= 0 => a = x) /\ (x < 0 => a = -x) /\ (y >= 0 => b = y) /\ (y < 0 => b = -y)
  BY DEF AbsV
<1> DEFINE t == q * b
<1>7. t \in Int /\ y * q \in Int /\ (y > 0 => y * q = t /\ y * (-q) = -t) /\ (y < 0 => y * q = -t /\ y * (-q) = t)
  <2>. HIDE DEF a, b, q, r
  <2>. QED BY <1>1, <1>2, <1>6
<1>8. \A z \in Int : (z >= 0 => AbsV(z) = z) /\ (z < 0 => AbsV(z) = -z)
  BY DEF AbsV
<1>9. x >= 0 /\ y > 0 => q = x \div y /\ r = x % y
  BY <1>6
<1>. HIDE DEF a, b, q, r, t
<1>10. a = t + r
  BY <1>2 DEF t
<1>11. AbsV(x) = a /\ AbsV(y) = b
  BY DEF a, b
<1> DEFINE u == Quot(x, y)
           w == Rem(x, y)
<1>12. CASE x >= 0 /\ y > 0
  <2>1. u = q
    BY <1>4, <1>12
  <2>2. w = r
    BY <1>5, <1>6, <1>7, <1>10, <1>12, <2>1, <1>2
  <2>3. y * u = t /\ x = a
    BY <1>6, <1>7, <1>12, <2>1
  <2>. QED BY <1>2, <1>3, <1>7, <1>8, <1>9, <1>10, <1>11, <1>12, <2>1, <2>2, <2>3
<1>13. CASE x >= 0 /\ y < 0
  <2>1. u = -q
    BY <1>4, <1>13
  <2>2. w = r
    BY <1>5, <1>6, <1>7, <1>10, <1>13, <2>1, <1>2
  <2>3. y * u = t /\ x = a
    BY <1>6, <1>7, <1>13, <2>1
  <2>4. AbsV(u) = q
    BY <1>2, <1>3, <1>8, <2>1
  <2>5. u \in Int /\ w \in Int
    BY <1>2, <2>1, <2>2
  <2>6. x = y * u + w
    BY <1>2, <1>7, <1>10, <2>2, <2>3
  <2>7. /\ x >= 0 => w >= 0 /\ w < AbsV(y)
        /\ x < 0 => w <= 0 /\ -w < AbsV(y)
    BY <1>1, <1>2, <1>11, <1>13, <2>2
  <2>8. AbsV(u) <= AbsV(x) /\ (AbsV(u) = AbsV(x) => x = 0 \/ AbsV(y) = 1)
    BY <1>1, <1>3, <1>11, <2>3, <2>4, <1>6, <1>13
  <2>9. (x >= 0 <=> y >= 0) => u >= 0
    BY <1>3, <1>13, <2>1
  <2>. QED BY <1>13, <2>5, <2>6, <2>7, <2>8, <2>9
<1>14. CASE x < 0 /\ y > 0
  <2>1. u = -q
    BY <1>4, <1>14
  <2>2. w = -r
    BY <1>5, <1>6, <1>7, <1>10, <1>14, <2>1, <1>2
  <2>3. y * u = -t /\ x = -a
    BY <1>6, <1>7, <1>14, <2>1
  <2>4. AbsV(u) = q
    BY <1>2, <1>3, <1>8, <2>1
  <2>5. u \in Int /\ w \in Int
    BY <1>2, <2>1, <2>2
  <2>6. x = y * u + w
    BY <1>2, <1>7, <1>10, <2>2, <2>3
  <2>7. /\ x >= 0 => w >= 0 /\ w < AbsV(y)
        /\ x < 0 => w <= 0 /\ -w < AbsV(y)
    BY <1>1, <1>2, <1>11, <1>14, <2>2
  <2>8. AbsV(u) <= AbsV(x) /\ (AbsV(u) = AbsV(x) => x = 0 \/ AbsV(y) = 1)
    BY <1>1, <1>3, <1>11, <2>3, <2>4, <1>6, <1>14
  <2>9. (x >= 0 <=> y >= 0) => u >= 0
    BY <1>3, <1>14, <2>1
  <2>. QED BY <1>14, <2>5, <2>6, <2>7, <2>8, <2>9
<1>15. CASE x < 0 /\ y < 0
  <2>1. u = q
    BY <1>4, <1>15
  <2>2. w = -r
    BY <1>5, <1>6, <1>7, <1>10, <1>15, <2>1, <1>2
  <2>3. y * u = -t /\ x = -a
    BY <1>6, <1>7, <1>15, <2>1
  <2>4. AbsV(u) = q
    BY <1>2, <1>3, <1>8, <2>1
  <2>5. u \in Int /\ w \in Int
    BY <1>2, <2>1, <2>2
  <2>6. x = y * u + w
    BY <1>2, <1>7, <1>10, <2>2, <2>3
  <2>7. /\ x >= 0 => w >= 0 /\ w < AbsV(y)
        /\ x < 0 => w <= 0 /\ -w < AbsV(y)
    BY <1>1, <1>2, <1>11, <1>15, <2>2
  <2>8. AbsV(u) <= AbsV(x) /\ (AbsV(u) = AbsV(x) => x = 0 \/ AbsV(y) = 1)
    BY <1>1, <1>3, <1>11, <2>3, <2>4, <1>6, <1>15
  <2>9. (x >= 0 <=> y >= 0) => u >= 0
    BY <1>3, <1>15, <2>1
  <2>. QED BY <1>15, <2>5, <2>6, <2>7, <2>8, <2>9
<1>. QED
  BY <1>12, <1>13, <1>14, <1>15

-----------------------------------------------------------------------------
\* Euclidean division of small numbers by a positive one is Euclidean division.
LEMMA EuclidUpwards ==
  ASSUME NEW x \in Int, NEW y \in Int, y > 0
  PROVE  /\ EuclideanQuot(x, y) = x \div y /\ EuclideanRem(x, y) = x % y
         /\ lean_int_ediv(x, y) = EuclideanQuot(x, y) /\ lean_int_emod(x, y) = EuclideanRem(x, y)
<1> DEFINE q == x \div y
           r == x % y
           u == Quot(x, y)
           w == Rem(x, y)
<1>1. q \in Int /\ r \in 0..y - 1 /\ x = q * y + r /\ y \in Nat /\ y # 0
  <2>1. y \in Nat /\ y # 0
    OBVIOUS
  <2>2. x \div y \in Int /\ x % y \in 0..y - 1 /\ x = (x \div y) * y + (x % y)
    BY <2>1, Division
  <2>. QED BY <2>1, <2>2
<1>2. AbsV(y) = y
  BY DEF AbsV
<1>3. EuclideanRem(x, y) = r
  BY <1>2 DEF EuclideanRem
<1>4. EuclideanQuot(x, y) = q
  <2>1. EuclideanQuot(x, y) = (x - r) \div y
    BY <1>2, <1>3 DEF EuclideanQuot
  <2> DEFINE z == x - r
  <2>. HIDE DEF q, r
  <2>2. z = q * y + 0 /\ z \in Int /\ 0 \in 0..y - 1
    <3>1. q * y \in Int
      BY <1>1
    <3>. QED BY <1>1, <3>1
  <2>. HIDE DEF z
  <2>3. q = z \div y
    BY <1>1, <2>2, Division
  <2>. QED BY <2>1, <2>3 DEF z
<1>5. /\ u \in Int /\ w \in Int /\ x = y * u + w
      /\ x >= 0 => w >= 0 /\ w < y
      /\ x < 0 => w <= 0 /\ -w < y
  <2>1. y # 0
    OBVIOUS
  <2>. HIDE DEF q, r
  <2>2. /\ Quot(x, y) \in Int /\ Rem(x, y) \in Int /\ x = y * Quot(x, y) + Rem(x, y)
        /\ x >= 0 => Rem(x, y) >= 0 /\ Rem(x, y) < AbsV(y)
        /\ x < 0 => Rem(x, y) <= 0 /\ -Rem(x, y) < AbsV(y)
    BY <2>1, Truncation
  <2>. QED BY <1>2, <2>2
<1>6. /\ lean_int_ediv(x, y) = IF w < 0 THEN u - 1 ELSE u
      /\ lean_int_emod(x, y) = IF w < 0 THEN w + y ELSE w
  BY <1>5 DEF lean_int_ediv, lean_int_emod
<1>7. \A k \in Int, j \in 0..y - 1 : x = k * y + j => k = q /\ j = r
  <2>. QED BY <1>1, Division
<1>. HIDE DEF q, r, u, w
<1>8. CASE w < 0
  <2> DEFINE k == u - 1
             j == w + y
  <2>1. k \in Int /\ j \in 0..y - 1
    BY <1>5, <1>8
  <2>2. x = k * y + j
    <3>1. k * y = y * u - y /\ y * u \in Int
      BY <1>5
    <3>. QED BY <1>5, <3>1
  <2>. HIDE DEF k, j
  <2>3. k = q /\ j = r
    BY <1>7, <2>1, <2>2
  <2>. QED BY <1>3, <1>4, <1>6, <1>8, <2>3 DEF k, j, q, r
<1>9. CASE w >= 0
  <2>1. w \in 0..y - 1
    BY <1>5, <1>9
  <2>2. x = u * y + w
    BY <1>5
  <2>3. u = q /\ w = r
    BY <1>5, <1>7, <2>1, <2>2
  <2>. QED BY <1>3, <1>4, <1>5, <1>6, <1>9, <2>3 DEF q, r
<1>. QED
  BY <1>5, <1>8, <1>9

\* Integers are closed under the operations of Int.
LEMMA RefIntIsInt ==
  ASSUME NEW x \in Int, NEW y \in Int, NEW op \in IntOps
  PROVE  RefInt(op, x, y) \in Int /\ SmallIntOp(op, x, y) \in Int
<1>1. x + y \in Int /\ x - y \in Int /\ x * y \in Int
  OBVIOUS
<1>2. y # 0 => Quot(x, y) \in Int /\ Rem(x, y) \in Int
  BY Truncation
<1>3. y # 0 => EuclideanRem(x, y) \in Int
  BY DEF EuclideanRem, AbsV
<1>4. y # 0 => EuclideanQuot(x, y) \in Int
  <2> DEFINE z == x - EuclideanRem(x, y)
  <2>1. y # 0 => z \in Int
    BY <1>3
  <2>. HIDE DEF z
  <2>2. y # 0 => z \div AbsV(y) \in Int
    BY <2>1 DEF AbsV
  <2>. QED BY <2>2 DEF EuclideanQuot, z
<1>5. y # 0 => lean_int_ediv(x, y) \in Int
  BY <1>2 DEF lean_int_ediv
<1>6. y # 0 => lean_int_emod(x, y) \in Int
  BY <1>2 DEF lean_int_emod
<1>7. y = 0 => lean_int_ediv(x, y) = 0 /\ lean_int_emod(x, y) = x
  BY DEF lean_int_ediv, lean_int_emod
<1>8. CASE op \in {"add", "sub", "mul"}
  BY <1>1, <1>8 DEF RefInt, SmallIntOp
<1>9. CASE op \in {"div", "mod"}
  BY <1>2, <1>9 DEF RefInt, SmallIntOp
<1>10. CASE op \in {"ediv", "emod"}
  BY <1>3, <1>4, <1>5, <1>6, <1>7, <1>10 DEF RefInt, SmallIntOp
<1>. QED
  BY <1>8, <1>9, <1>10 DEF IntOps

\* The operations of Int give the form, whichever path they take, and the number.
LEMMA IntOpIsExact ==
  ASSUME NEW x \in Int, NEW y \in Int, NEW op \in IntOps
  PROVE  \E v \in Int : /\ IntOp(op, BigIntResult(x), BigIntResult(y)) = BigIntResult(v)
                        /\ op \in {"add", "sub", "mul", "div", "mod"} \/ y > 0 => v = RefInt(op, x, y)
<1> DEFINE a == BigIntResult(x)
           b == BigIntResult(y)
           s == SmallIntOp(op, x, y)
           t == RefInt(op, x, y)
<1>1. s \in Int /\ t \in Int
  BY RefIntIsInt
<1>2. op \in {"add", "sub", "mul", "div", "mod"} \/ y > 0 => s = t
  <2>1. op \in {"add", "sub", "mul", "div", "mod"} => s = t
    BY DEF SmallIntOp
  <2>2. op = "ediv" /\ y > 0 => s = t
    <3>1. y > 0 => lean_int_ediv(x, y) = EuclideanQuot(x, y) /\ y # 0
      BY EuclidUpwards
    <3>. QED BY <3>1 DEF SmallIntOp, RefInt
  <2>3. op = "emod" /\ y > 0 => s = t
    <3>1. y > 0 => lean_int_emod(x, y) = EuclideanRem(x, y) /\ y # 0
      BY EuclidUpwards
    <3>. QED BY <3>1 DEF SmallIntOp, RefInt
  <2>. HIDE DEF s, t
  <2>. QED BY <2>1, <2>2, <2>3 DEF IntOps
<1>3. /\ IntValue(a) = x /\ IntValue(b) = y
      /\ a.small => lean_scalar_to_int64(a) = x
      /\ b.small => lean_scalar_to_int64(b) = y
  BY IntReps
<1>4. lean_int64_to_int(s) = BigIntResult(s)
  <2>. HIDE DEF s
  <2>. QED BY <1>1, IntReps
<1>. HIDE DEF a, b
<1>5. IntOp(op, a, b) = IF BothSmall(a, b) THEN BigIntResult(s) ELSE BigIntResult(t)
  BY <1>3, <1>4 DEF IntOp, BothSmall
<1>6. CASE BothSmall(a, b)
  BY <1>1, <1>2, <1>5, <1>6 DEF a, b
<1>7. CASE ~BothSmall(a, b)
  BY <1>1, <1>2, <1>5, <1>7 DEF a, b
<1>. QED
  BY <1>6, <1>7

\* Negation, and the conversions between Nat and Int, give the form too; the sign
\* is that of the number.
LEMMA IntConversions ==
  ASSUME NEW v \in Int
  PROVE  /\ lean_int_neg(BigIntResult(v)) = BigIntResult(-v)
         /\ natAbs(BigIntResult(v)) = NatRep(AbsV(v)) /\ AbsV(v) \in Nat
         /\ toNat(BigIntResult(v)) = NatRep(IF v >= 0 THEN AbsV(v) ELSE 0)
         /\ IntSign(BigIntResult(v)) = IF v > 0 THEN 1 ELSE IF v < 0 THEN -1 ELSE 0
         /\ v >= 0 => lean_nat_to_int(NatRep(v)) = BigIntResult(v)
<1> DEFINE o == BigIntResult(v)
<1>1. /\ I64 = -MaxSmallNat - 1..MaxSmallNat /\ MaxSmallInt \in Nat /\ MaxSmallNat \in Nat
      /\ MaxSmallInt < MaxSmallNat /\ MinSmallInt = -MaxSmallInt - 1
  BY Borders
<1>2. /\ IntValue(o) = v /\ (o.small => lean_scalar_to_int64(o) = v) /\ (~o.small => o = Big(v) /\ o.w = v)
      /\ v \in MinSmallInt..MaxSmallInt <=> o.small
      /\ v \in 0..MaxSmallInt => o = [small |-> TRUE, w |-> v]
  BY IntReps DEF Big
<1>3. -v \in Int /\ lean_int64_to_int(-v) = BigIntResult(-v) /\ AbsV(v) \in Nat
  BY IntReps DEF AbsV
<1>4. lean_int_neg(o) = BigIntResult(-v)
  BY <1>2, <1>3 DEF lean_int_neg
<1>5. (FitsI64(o) <=> v \in I64) /\ (isNonNeg(o) <=> v >= 0)
  BY FitsIsRange, IntComparisons
<1>6. lean_usize_to_nat(AbsV(v)) = NatRep(AbsV(v)) /\ lean_usize_to_nat(0) = NatRep(0)
  BY <1>3, NatReps
<1>7. ASSUME v \notin I64, v >= 0
      PROVE  o = NatRep(AbsV(v))
  <2>1. v > MaxSmallNat /\ v \notin MinSmallInt..MaxSmallInt /\ AbsV(v) = v /\ v \in Nat
    BY <1>1, <1>7 DEF AbsV
  <2>2. BigNatResult(v) = NatRep(v)
    BY <2>1, NatReps
  <2>3. BigNatResult(v) = Big(v)
    BY <1>1, <2>1 DEF BigNatResult
  <2>. QED BY <1>2, <2>1, <2>2, <2>3
<1>8. ASSUME v \notin I64, v < 0
      PROVE  lean_int_neg(o) = NatRep(AbsV(v))
  <2> DEFINE n == -v
  <2>1. n > MaxSmallNat /\ n > MaxSmallInt /\ AbsV(v) = n /\ n \in Nat
    BY <1>1, <1>8 DEF AbsV
  <2>2. lean_int_neg(o) = BigIntResult(n)
    BY <1>4
  <2>. HIDE DEF n
  <2>3. BigNatResult(n) = NatRep(n)
    BY <2>1, NatReps
  <2>4. BigNatResult(n) = Big(n) /\ BigIntResult(n) = Big(n)
    BY <1>1, <2>1 DEF BigNatResult, BigIntResult
  <2>. QED BY <2>1, <2>2, <2>3, <2>4
<1>. HIDE DEF o
<1>9. natAbs(o) = NatRep(AbsV(v))
  BY <1>2, <1>5, <1>6, <1>7, <1>8 DEF natAbs
<1>10. toNat(o) = NatRep(IF v >= 0 THEN AbsV(v) ELSE 0)
  BY <1>5, <1>6, <1>9 DEF toNat
<1>11. IntSign(o) = IF v > 0 THEN 1 ELSE IF v < 0 THEN -1 ELSE 0
  <2>1. v \notin I64 => v # 0
    BY <1>1
  <2>. QED BY <1>2, <1>5, <2>1 DEF IntSign
<1>12. ASSUME v >= 0
       PROVE  lean_nat_to_int(NatRep(v)) = BigIntResult(v)
  <2>1. v \in Nat /\ NatRep(v).w = v /\ (NatRep(v).small <=> v <= MaxSmallNat)
    <3>1. v \in Nat
      BY <1>12
    <3>. QED BY <3>1, NatReps
  <2>2. CASE v <= MaxSmallInt
    <3>1. v <= MaxSmallNat /\ v \in 0..MaxSmallInt
      BY <1>1, <1>12, <2>2
    <3>2. (v <= MaxSmallNat) = TRUE
      BY <3>1
    <3>3. NatRep(v) = [small |-> TRUE, w |-> v]
      BY <3>2, Zenon DEF NatRep
    <3>4. lean_nat_to_int(NatRep(v)) = NatRep(v)
      BY <2>1, <2>2, <1>1 DEF lean_nat_to_int
    <3>. QED BY <1>2, <3>1, <3>3, <3>4 DEF o
  <2>3. CASE v > MaxSmallInt /\ v <= MaxSmallNat
    <3>1. lean_nat_to_int(NatRep(v)) = Big(v)
      BY <2>1, <2>3 DEF lean_nat_to_int
    <3>2. BigIntResult(v) = Big(v)
      BY <1>1, <2>3 DEF BigIntResult
    <3>. QED BY <3>1, <3>2
  <2>4. CASE v > MaxSmallNat
    <3>1. lean_nat_to_int(NatRep(v)) = NatRep(v)
      BY <1>1, <2>1, <2>4 DEF lean_nat_to_int
    <3>2. BigIntResult(v) = Big(v) /\ BigNatResult(v) = Big(v)
      BY <1>1, <2>4 DEF BigIntResult, BigNatResult
    <3>3. BigNatResult(v) = NatRep(v)
      BY <2>1, NatReps
    <3>. QED BY <3>1, <3>2, <3>3
  <2>. QED BY <1>1, <2>2, <2>3, <2>4
<1>. QED
  BY <1>3, <1>4, <1>9, <1>10, <1>11, <1>12 DEF o

-----------------------------------------------------------------------------
\* However a word is stored, it is read again.
LEMMA WordsAreStored ==
  ASSUME NEW b \in 2..P, NEW w \in 0..Pow2(b) - 1
  PROVE  mk(w, b).w = w
<1>1. b \in Nat /\ P \in Nat /\ P - 1 \in Nat /\ Pow2(b) \in Nat /\ Pow2(P - 1) \in Nat /\ Pow2(P - 1) > 0
  BY NumbersAssumption, Pow2Is
<1>2. CASE b < P
  <2> DEFINE m == Pow2(P - 1)
  <2>1. b <= P - 1
    BY <1>1, <1>2
  <2>2. Pow2(b) <= m
    <3> DEFINE k == P - 1
    <3>1. k \in Nat /\ b <= k
      BY <1>1, <2>1
    <3>. HIDE DEF k
    <3>2. Pow2(b) <= Pow2(k)
      BY <1>1, <3>1, Pow2Grows
    <3>. QED BY <3>2 DEF k
  <2>3. w \in 0..m - 1 /\ m \in Nat /\ m # 0
    BY <1>1, <2>2
  <2>4. w % m = w
    <3>. HIDE DEF m
    <3>. QED BY <2>3, SmallRemainder
  <2>. QED BY <1>2, <2>4 DEF mk, Boxed, Box, Wrap
<1>3. CASE ~(b < P)
  BY <1>3 DEF mk, Boxed, Big
<1>. QED
  BY <1>2, <1>3

\* Words of bits, as OfBits makes them, fit the width.
LEMMA BitwiseWords ==
  ASSUME NEW b \in 2..P, NEW a \in 0..Pow2(b) - 1, NEW c \in 0..Pow2(b) - 1, NEW op \in NatBitOps
  PROVE  RefNat(op, a, c) \in 0..Pow2(b) - 1
<1>1. P \in Nat /\ b \in Nat /\ b \in 0..2 * P + 1 /\ Pow2(b) \in Nat
  BY NumbersAssumption, Pow2Is
<1>2. a \in Nat /\ c \in Nat /\ a < Pow2(b) /\ c < Pow2(b)
  BY <1>1
<1>3. Bits(a) \subseteq 0..b - 1 /\ Bits(c) \subseteq 0..b - 1
  BY <1>1, <1>2, BitsOfNumbers
<1>4. ASSUME NEW S, S \subseteq 0..b - 1
      PROVE  OfBits(S) \in 0..Pow2(b) - 1
  <2>1. OfBits(S) \in Nat /\ OfBits(S) < Pow2(b)
    BY <1>1, <1>4, OfBitsIsNat
  <2>. QED BY <1>1, <2>1
<1>5. /\ Bits(a) \cap Bits(c) \subseteq 0..b - 1 /\ Bits(a) \cup Bits(c) \subseteq 0..b - 1
      /\ SymDiff(Bits(a), Bits(c)) \subseteq 0..b - 1
  BY <1>3 DEF SymDiff
<1>6. CASE op = "land"
  BY <1>4, <1>5, <1>6 DEF RefNat
<1>7. CASE op = "lor"
  BY <1>4, <1>5, <1>7 DEF RefNat
<1>8. CASE op = "xor"
  BY <1>4, <1>5, <1>8 DEF RefNat
<1>. QED
  BY <1>6, <1>7, <1>8 DEF NatBitOps

\* The complement of a word is -1 minus the word.
LEMMA WordComplement ==
  ASSUME NEW b \in Nat, b # 0, NEW a \in 0..Pow2(b) - 1
  PROVE  Wrap(-1 - a, b) = Pow2(b) - 1 - a /\ Pow2(b) - 1 - a \in 0..Pow2(b) - 1
<1> DEFINE m == Pow2(b)
           z == -1 - a
           w == m - 1 - a
<1>1. m \in Nat /\ m > 1 /\ \A x, k \in Int : Wrap(x + k * m, b) = Wrap(x, b)
  BY Words
<1>2. \A v \in 0..m - 1 : Wrap(v, b) = v
  BY Words
<1>. HIDE DEF m
<1>3. w \in 0..m - 1 /\ z \in Int /\ z + 1 * m = w
  <2>1. a \in 0..m - 1
    BY DEF m
  <2>. QED BY <1>1, <2>1
<1>4. Wrap(z + 1 * m, b) = Wrap(z, b)
  <2>. HIDE DEF z, w
  <2>. QED BY <1>1, <1>3
<1>5. Wrap(w, b) = w
  <2>. HIDE DEF z, w
  <2>. QED BY <1>2, <1>3
<1>. QED
  BY <1>3, <1>4, <1>5 DEF m

\* The operations of unsigned words, one by one.
LEMMA UIntTable ==
  ASSUME NEW a, NEW c, NEW b
  PROVE  /\ UIntOp("add", a, c, b) = Wrap(a + c, b)
         /\ UIntOp("sub", a, c, b) = Wrap(a - c, b)
         /\ UIntOp("mul", a, c, b) = Wrap(a * c, b)
         /\ UIntOp("div", a, c, b) = (IF c = 0 THEN 0 ELSE a \div c)
         /\ UIntOp("mod", a, c, b) = (IF c = 0 THEN a ELSE a % c)
         /\ UIntOp("neg", a, c, b) = Wrap(-a, b)
         /\ UIntOp("complement", a, c, b) = Pow2(b) - 1 - a
         /\ UIntOp("shiftLeft", a, c, b) = Wrap(a * Pow2(c % b), b)
         /\ UIntOp("shiftRight", a, c, b) = a \div Pow2(c % b)
         /\ UIntOp("log2", a, c, b) = log2(a)
<1>1. UIntOp("add", a, c, b) = Wrap(a + c, b)
  BY DEF UIntOp, NatBitOps
<1>2. UIntOp("sub", a, c, b) = Wrap(a - c, b)
  BY DEF UIntOp, NatBitOps
<1>3. UIntOp("mul", a, c, b) = Wrap(a * c, b)
  BY DEF UIntOp, NatBitOps
<1>4. UIntOp("div", a, c, b) = (IF c = 0 THEN 0 ELSE a \div c)
  BY DEF UIntOp, NatBitOps
<1>5. UIntOp("mod", a, c, b) = (IF c = 0 THEN a ELSE a % c)
  BY DEF UIntOp, NatBitOps
<1>6. UIntOp("neg", a, c, b) = Wrap(-a, b)
  BY DEF UIntOp, NatBitOps
<1>7. UIntOp("complement", a, c, b) = Pow2(b) - 1 - a
  BY DEF UIntOp, NatBitOps
<1>8. UIntOp("shiftLeft", a, c, b) = Wrap(a * Pow2(c % b), b)
  BY DEF UIntOp, NatBitOps
<1>9. UIntOp("shiftRight", a, c, b) = a \div Pow2(c % b)
  BY DEF UIntOp, NatBitOps
<1>10. UIntOp("log2", a, c, b) = log2(a)
  BY DEF UIntOp, NatBitOps
<1>. QED
  BY <1>1, <1>2, <1>3, <1>4, <1>5, <1>6, <1>7, <1>8, <1>9, <1>10

\* The reference for words, operation by operation.
LEMMA RefWordTable ==
  ASSUME NEW x, NEW y, NEW type, NEW b
  PROVE  /\ RefWord("add", x, y, type, b) = Modular(x + y, type, b)
         /\ RefWord("sub", x, y, type, b) = Modular(x - y, type, b)
         /\ RefWord("mul", x, y, type, b) = Modular(x * y, type, b)
         /\ RefWord("div", x, y, type, b) = (IF y = 0 THEN 0 ELSE Quot(x, y))
         /\ RefWord("mod", x, y, type, b) = (IF y = 0 THEN x ELSE Rem(x, y))
         /\ RefWord("neg", x, y, type, b) = Modular(-x, type, b)
         /\ RefWord("complement", x, y, type, b) = Modular(-1 - x, type, b)
         /\ RefWord("abs", x, y, type, b) = Modular(AbsV(x), type, b)
         /\ RefWord("shiftLeft", x, y, type, b) = Modular(x * Pow2(y % b), type, b)
         /\ RefWord("shiftRight", x, y, type, b) = x \div Pow2(y % b)
         /\ RefWord("log2", x, y, type, b) = log2(x)
<1>1. RefWord("add", x, y, type, b) = Modular(x + y, type, b)
  BY DEF RefWord, RefInt, NatBitOps
<1>2. RefWord("sub", x, y, type, b) = Modular(x - y, type, b)
  BY DEF RefWord, RefInt, NatBitOps
<1>3. RefWord("mul", x, y, type, b) = Modular(x * y, type, b)
  BY DEF RefWord, RefInt, NatBitOps
<1>4. RefWord("div", x, y, type, b) = (IF y = 0 THEN 0 ELSE Quot(x, y))
  BY DEF RefWord, RefInt, NatBitOps
<1>5. RefWord("mod", x, y, type, b) = (IF y = 0 THEN x ELSE Rem(x, y))
  BY DEF RefWord, RefInt, NatBitOps
<1>6. RefWord("neg", x, y, type, b) = Modular(-x, type, b)
  BY DEF RefWord, RefInt, NatBitOps
<1>7. RefWord("complement", x, y, type, b) = Modular(-1 - x, type, b)
  BY DEF RefWord, RefInt, NatBitOps
<1>8. RefWord("abs", x, y, type, b) = Modular(AbsV(x), type, b)
  BY DEF RefWord, RefInt, NatBitOps
<1>9. RefWord("shiftLeft", x, y, type, b) = Modular(x * Pow2(y % b), type, b)
  BY DEF RefWord, RefInt, NatBitOps
<1>10. RefWord("shiftRight", x, y, type, b) = x \div Pow2(y % b)
  BY DEF RefWord, RefInt, NatBitOps
<1>11. RefWord("log2", x, y, type, b) = log2(x)
  BY DEF RefWord, RefInt, NatBitOps
<1>. QED
  BY <1>1, <1>2, <1>3, <1>4, <1>5, <1>6, <1>7, <1>8, <1>9, <1>10, <1>11

\* The bitwise operations of words, and the reference for them.
LEMMA BitwiseTable ==
  ASSUME NEW a, NEW c, NEW b, NEW type, NEW op \in NatBitOps
  PROVE  /\ UIntOp(op, a, c, b) = RefNat(op, a, c)
         /\ RefWord(op, a, c, type, b) = Modular(RefNat(op, Wrap(a, b), Wrap(c, b)), type, b)
<1>1. UIntOp(op, a, c, b) = RefNat(op, a, c)
  BY DEF UIntOp, NatBitOps
<1>2. RefWord(op, a, c, type, b) = Modular(RefNat(op, Wrap(a, b), Wrap(c, b)), type, b)
  BY DEF RefWord, NatBitOps
<1>. QED
  BY <1>1, <1>2

\* Unsigned words: every operation gives a word, the one that arithmetic modulo
\* the width gives.
LEMMA UnsignedWords ==
  ASSUME NEW b \in 2..P, NEW a \in 0..Pow2(b) - 1, NEW c \in 0..Pow2(b) - 1, NEW op \in UIntOps,
         NEW type, ~IsSigned(type)
  PROVE  UIntOp(op, a, c, b) \in 0..Pow2(b) - 1 /\ RefWord(op, a, c, type, b) = UIntOp(op, a, c, b)
<1> DEFINE m == Pow2(b)
           s == Pow2(c % b)
<1>1. P \in Nat /\ b \in Nat /\ b # 0 /\ m \in Nat /\ m > 1
  <2>1. P \in Nat /\ b \in Nat /\ b # 0
    BY NumbersAssumption
  <2>. QED BY <2>1, Words
<1>2. (\A x \in Int : Wrap(x, b) \in 0..m - 1) /\ \A w \in 0..m - 1 : Wrap(w, b) = w
  BY <1>1, Words
<1>3. \A x : Modular(x, type, b) = Wrap(x, b)
  BY DEF Modular
<1>4. s \in Nat /\ s > 0 /\ c % b \in Nat
  <2>1. c % b \in Nat
    BY <1>1, Division
  <2>. QED BY <2>1, Pow2Is
<1>5. a \in Int /\ c \in Int /\ a \in 0..m - 1 /\ c \in 0..m - 1
  BY <1>1
<1>. HIDE DEF m, s
<1>6. /\ Wrap(a + c, b) \in 0..m - 1 /\ Wrap(a - c, b) \in 0..m - 1 /\ Wrap(a * c, b) \in 0..m - 1
      /\ Wrap(-a, b) \in 0..m - 1 /\ Wrap(a * s, b) \in 0..m - 1
  <2>1. a + c \in Int /\ a - c \in Int /\ a * c \in Int /\ -a \in Int /\ a * s \in Int
    BY <1>4, <1>5
  <2>. QED BY <1>2, <2>1
<1>7. CASE op \in {"add", "sub", "mul", "neg"}
  <2>1. CASE op = "add"
    BY <1>3, <1>6, <2>1, UIntTable, RefWordTable DEF m
  <2>2. CASE op = "sub"
    BY <1>3, <1>6, <2>2, UIntTable, RefWordTable DEF m
  <2>3. CASE op = "mul"
    BY <1>3, <1>6, <2>3, UIntTable, RefWordTable DEF m
  <2>4. CASE op = "neg"
    BY <1>3, <1>6, <2>4, UIntTable, RefWordTable DEF m
  <2>. QED BY <1>7, <2>1, <2>2, <2>3, <2>4
<1>8. CASE op \in {"div", "mod"}
  <2>1. ASSUME c # 0
        PROVE  Quot(a, c) = a \div c /\ Rem(a, c) = a % c
    <3>1. a >= 0 /\ c > 0
      BY <1>1, <1>5, <2>1
    <3>. QED BY <1>5, <2>1, <3>1, Truncation
  <2>2. c # 0 => a \div c \in 0..m - 1 /\ a % c \in 0..m - 1
    <3>1. c # 0 => a \div c \in Nat /\ a % c \in Nat /\ a \div c <= a /\ a % c <= a
      BY <1>5
    <3>. QED BY <1>1, <1>5, <3>1
  <2>3. 0 \in 0..m - 1
    BY <1>1
  <2>4. CASE op = "div"
    <3>1. UIntOp(op, a, c, b) = (IF c = 0 THEN 0 ELSE a \div c)
      BY <2>4, UIntTable
    <3>2. RefWord(op, a, c, type, b) = (IF c = 0 THEN 0 ELSE Quot(a, c))
      BY <2>4, RefWordTable
    <3>. QED BY <2>1, <2>2, <2>3, <3>1, <3>2 DEF m
  <2>5. CASE op = "mod"
    <3>1. UIntOp(op, a, c, b) = (IF c = 0 THEN a ELSE a % c)
      BY <2>5, UIntTable
    <3>2. RefWord(op, a, c, type, b) = (IF c = 0 THEN a ELSE Rem(a, c))
      BY <2>5, RefWordTable
    <3>. QED BY <1>5, <2>1, <2>2, <3>1, <3>2 DEF m
  <2>. QED BY <1>8, <2>4, <2>5
<1>9. CASE op = "complement"
  <2>1. Wrap(-1 - a, b) = m - 1 - a /\ m - 1 - a \in 0..m - 1
    BY <1>1, WordComplement DEF m
  <2>. QED BY <1>3, <1>9, <2>1, UIntTable, RefWordTable DEF m
<1>10. CASE op \in NatBitOps
  <2>1. RefNat(op, a, c) \in 0..m - 1
    BY <1>10, BitwiseWords DEF m
  <2>2. UIntOp(op, a, c, b) = RefNat(op, a, c)
    BY <1>10, BitwiseTable
  <2>3. RefWord(op, a, c, type, b) = Modular(RefNat(op, Wrap(a, b), Wrap(c, b)), type, b)
    BY <1>10, BitwiseTable
  <2>. QED BY <1>2, <1>3, <1>5, <2>1, <2>2, <2>3 DEF m
<1>11. CASE op = "shiftLeft"
  BY <1>3, <1>6, <1>11 DEF UIntOp, RefWord, NatBitOps, m, s
<1>12. CASE op = "shiftRight"
  <2>1. UIntOp(op, a, c, b) = a \div s /\ RefWord(op, a, c, type, b) = a \div s
    BY <1>12 DEF UIntOp, RefWord, NatBitOps, s
  <2>2. a \div s \in Nat /\ a \div s <= a
    BY <1>4, <1>5
  <2>. QED BY <1>1, <1>5, <2>1, <2>2 DEF m
<1>13. CASE op = "log2"
  <2>1. UIntOp(op, a, c, b) = log2(a) /\ RefWord(op, a, c, type, b) = log2(a)
    BY <1>13 DEF UIntOp, RefWord, NatBitOps
  <2>2. a \in Nat /\ a < Pow2(2 * P + 1)
    <3> DEFINE k == 2 * P + 1
    <3>1. k \in Nat /\ b <= k
      BY <1>1
    <3>. HIDE DEF k
    <3>2. m <= Pow2(k) /\ Pow2(k) \in Nat
      BY <1>1, <3>1, Pow2Grows, Pow2Is DEF m
    <3>. QED BY <1>1, <1>5, <3>2 DEF k
  <2>3. log2(a) \in Nat /\ log2(a) <= a
    BY <2>2, LogarithmIsNat
  <2>. QED BY <1>1, <1>5, <2>1, <2>3 DEF m
<1>. QED
  BY <1>7, <1>8, <1>9, <1>10, <1>11, <1>12, <1>13 DEF UIntOps, NatBitOps

\* Signed words: every operation that does not panic gives a word, and it stands
\* for the number that arithmetic modulo the width gives.
LEMMA SignedWords ==
  ASSUME NEW b \in 2..P, NEW a \in 0..Pow2(b) - 1, NEW c \in 0..Pow2(b) - 1, NEW op \in SIntOps,
         NEW type, IsSigned(type), ~SIntPanics(op, a, c, b)
  PROVE  /\ SIntOp(op, a, c, b) \in 0..Pow2(b) - 1
         /\ Signed(SIntOp(op, a, c, b), b) = RefWord(op, Signed(a, b), Signed(c, b), type, b)
<1> DEFINE m == Pow2(b)
           h == Pow2(b - 1)
           x == Signed(a, b)
           y == Signed(c, b)
           s == Pow2(y % b)
           w == SIntOp(op, a, c, b)
<1>1. P \in Nat /\ b \in Nat /\ b # 0 /\ m \in Nat /\ m > 1 /\ h \in Nat /\ h > 0 /\ m = 2 * h
  <2>1. P \in Nat /\ b \in Nat /\ b # 0
    BY NumbersAssumption
  <2>. QED BY <2>1, Words
<1>2. /\ \A z \in Int : Wrap(z, b) \in 0..m - 1
      /\ \A z \in -h..h - 1 : Signed(Wrap(z, b), b) = z
      /\ \A v \in 0..m - 1 : Wrap(v, b) = v /\ Wrap(Signed(v, b), b) = v /\ Signed(v, b) \in -h..h - 1
  BY <1>1, Words
<1>3. \A z : Modular(z, type, b) = Signed(Wrap(z, b), b)
  BY DEF Modular
<1>4. x \in -h..h - 1 /\ y \in -h..h - 1 /\ x \in Int /\ y \in Int
  BY <1>1, <1>2
<1>5. /\ Wrap(x + y, b) = Wrap(a + c, b) /\ Wrap(x - y, b) = Wrap(a - c, b) /\ Wrap(x * y, b) = Wrap(a * c, b)
      /\ Wrap(-x, b) = Wrap(-a, b) /\ Wrap(-1 - x, b) = Wrap(-1 - a, b)
  BY <1>1, WordArithmetic
<1>6. a \in Int /\ c \in Int /\ a \in 0..m - 1 /\ c \in 0..m - 1
  BY <1>1
<1>7. s \in Nat /\ s > 0
  <2>1. y % b \in Nat
    <3>. HIDE DEF y
    <3>. QED BY <1>1, <1>4, Division
  <2>. HIDE DEF y
  <2>. QED BY <2>1, Pow2Is
<1>8. SIntOp(op, a, c, b) =
        CASE op \in {"add", "sub", "mul", "neg", "complement", "land", "lor", "xor"} -> UIntOp(op, a, c, b)
          [] op = "div" -> IF y = 0 THEN 0 ELSE Wrap(Quot(x, y), b)
          [] op = "mod" -> IF y = 0 THEN a ELSE Wrap(Rem(x, y), b)
          [] op = "abs" -> IF x < 0 THEN Wrap(-x, b) ELSE a
          [] op = "shiftLeft" -> Wrap(x * s, b)
          [] op = "shiftRight" -> Wrap(x \div s, b)
  BY DEF SIntOp
<1>. HIDE DEF m, h, s
<1>9. x * s \in Int /\ -x \in Int
  BY <1>4, <1>7
<1>11. Wrap(x, b) = a /\ Wrap(y, b) = c
  BY <1>2, <1>6
<1>12. SIntPanics(op, a, c, b) <=> op \in {"div", "mod"} /\ x = -h /\ y = -1
  BY DEF SIntPanics, h
<1>. HIDE DEF x, y, w
<1>13. CASE op \in {"add", "sub", "mul"}
  <2>1. UIntOp(op, a, c, b) = Wrap(RefInt(op, a, c), b)
    <3>1. CASE op = "add"
      BY <3>1, UIntTable DEF RefInt
    <3>2. CASE op = "sub"
      BY <3>2, UIntTable DEF RefInt
    <3>3. CASE op = "mul"
      BY <3>3, UIntTable DEF RefInt
    <3>. QED BY <1>13, <3>1, <3>2, <3>3
  <2>2. RefInt(op, a, c) \in Int
    BY <1>6, <1>13 DEF RefInt
  <2>3. Wrap(RefInt(op, x, y), b) = Wrap(RefInt(op, a, c), b)
    BY <1>5, <1>13 DEF RefInt
  <2>4. w = Wrap(RefInt(op, a, c), b)
    BY <1>8, <1>13, <2>1 DEF w
  <2>5. RefWord(op, x, y, type, b) = Modular(RefInt(op, x, y), type, b)
    <3>1. CASE op = "add"
      BY <3>1, RefWordTable DEF RefInt
    <3>2. CASE op = "sub"
      BY <3>2, RefWordTable DEF RefInt
    <3>3. CASE op = "mul"
      BY <3>3, RefWordTable DEF RefInt
    <3>. QED BY <1>13, <3>1, <3>2, <3>3
  <2>. QED BY <1>2, <1>3, <2>2, <2>3, <2>4, <2>5 DEF m, w, x, y
<1>14. CASE op = "neg"
  <2>1. w = Wrap(-a, b)
    <3>1. w = UIntOp(op, a, c, b)
      BY <1>8, <1>14 DEF w
    <3>. QED BY <1>14, <3>1, UIntTable
  <2>2. RefWord(op, x, y, type, b) = Signed(Wrap(-x, b), b)
    BY <1>3, <1>14, RefWordTable
  <2>3. -a \in Int
    BY <1>6
  <2>. QED BY <1>2, <1>5, <2>1, <2>2, <2>3 DEF m, w, x, y
<1>15. CASE op = "complement"
  <2>1. w = m - 1 - a
    <3>1. w = UIntOp(op, a, c, b)
      BY <1>8, <1>15 DEF w
    <3>. QED BY <1>15, <3>1, UIntTable DEF m
  <2>2. RefWord(op, x, y, type, b) = Signed(Wrap(-1 - x, b), b)
    BY <1>3, <1>15, RefWordTable
  <2>3. Wrap(-1 - a, b) = m - 1 - a /\ m - 1 - a \in 0..m - 1
    BY <1>1, WordComplement DEF m
  <2>. QED BY <1>5, <2>1, <2>2, <2>3 DEF m, w, x, y
<1>16. CASE op \in NatBitOps
  <2>1. RefNat(op, a, c) \in 0..m - 1
    BY <1>16, BitwiseWords DEF m
  <2>2. w = RefNat(op, a, c)
    <3>1. w = UIntOp(op, a, c, b)
      BY <1>8, <1>16 DEF w, NatBitOps
    <3>2. UIntOp(op, a, c, b) = RefNat(op, a, c)
      BY <1>16, BitwiseTable
    <3>. QED BY <3>1, <3>2
  <2>3. RefWord(op, x, y, type, b) = Signed(Wrap(RefNat(op, a, c), b), b)
    <3>1. RefWord(op, x, y, type, b) = Modular(RefNat(op, Wrap(x, b), Wrap(y, b)), type, b)
      BY <1>16, BitwiseTable
    <3>. QED BY <1>3, <1>11, <3>1
  <2>. QED BY <1>2, <2>1, <2>2, <2>3 DEF m, w, x, y
<1>17. CASE op = "div"
  <2>1. RefWord(op, x, y, type, b) = IF y = 0 THEN 0 ELSE Quot(x, y)
    BY <1>17, RefWordTable
  <2>2. w = IF y = 0 THEN 0 ELSE Wrap(Quot(x, y), b)
    BY <1>8, <1>17 DEF w
  <2>3. 0 \in 0..m - 1 /\ Signed(0, b) = 0
    BY <1>1 DEF Signed, h
  <2>4. ASSUME y # 0
        PROVE  Quot(x, y) \in -h..h - 1
    <3> DEFINE u == Quot(x, y)
    <3>1. /\ u \in Int /\ AbsV(u) <= AbsV(x) /\ (AbsV(u) = AbsV(x) => x = 0 \/ AbsV(y) = 1)
          /\ (x >= 0 <=> y >= 0) => u >= 0
      BY <1>4, <2>4, Truncation
    <3>2. ~(x = -h /\ y = -1)
      BY <1>12, <1>17
    <3>. HIDE DEF u
    <3>3. AbsV(x) <= h
      BY <1>1, <1>4 DEF AbsV
    <3>4. u >= -h /\ u <= h
      BY <1>1, <1>4, <3>1, <3>3 DEF AbsV
    <3>5. u # h
      <4>1. SUFFICES ASSUME u = h PROVE FALSE
        OBVIOUS
      <4>2. AbsV(u) = h
        BY <1>1, <4>1 DEF AbsV
      <4>3. AbsV(x) = h
        BY <1>1, <1>4, <3>1, <3>3, <4>2 DEF AbsV
      <4>4. x = -h
        BY <1>1, <1>4, <4>3 DEF AbsV
      <4>5. y = 1 \/ y = -1
        BY <1>1, <1>4, <3>1, <4>2, <4>3, <4>4 DEF AbsV
      <4>6. y = 1
        BY <3>2, <4>4, <4>5
      <4>7. Quot(x, y) = x
        <5>1. AbsV(y) = 1 /\ AbsV(x) \div 1 = -x /\ x < 0 /\ ~(y < 0)
          BY <1>1, <1>4, <4>4, <4>6 DEF AbsV
        <5>2. Quot(x, y) = -(-x)
          BY <5>1 DEF Quot
        <5>. QED BY <1>4, <5>2
      <4>. QED BY <1>1, <4>1, <4>4, <4>7 DEF u
    <3>. QED BY <1>1, <3>1, <3>4, <3>5 DEF u
  <2>5. y # 0 => Quot(x, y) \in Int
    BY <1>4, Truncation
  <2>. QED BY <1>2, <2>1, <2>2, <2>3, <2>4, <2>5 DEF m, w, x, y
<1>18. CASE op = "mod"
  <2>1. RefWord(op, x, y, type, b) = IF y = 0 THEN x ELSE Rem(x, y)
    BY <1>18, RefWordTable
  <2>2. w = IF y = 0 THEN a ELSE Wrap(Rem(x, y), b)
    BY <1>8, <1>18 DEF w
  <2>3. ASSUME y # 0
        PROVE  Rem(x, y) \in -h..h - 1 /\ Rem(x, y) \in Int
    <3> DEFINE r == Rem(x, y)
    <3>1. /\ r \in Int /\ (x >= 0 => r >= 0 /\ r < AbsV(y)) /\ (x < 0 => r <= 0 /\ -r < AbsV(y))
      BY <1>4, <2>3, Truncation
    <3>. HIDE DEF r
    <3>2. AbsV(y) <= h /\ AbsV(y) \in Int
      BY <1>1, <1>4 DEF AbsV
    <3>3. r >= -h /\ r <= h - 1
      BY <1>1, <1>4, <3>1, <3>2
    <3>. QED BY <1>1, <3>1, <3>3 DEF r
  <2>4. CASE y = 0
    BY <1>6, <2>1, <2>2, <2>4 DEF m, w, x, y
  <2>5. CASE y # 0
    BY <1>2, <2>1, <2>2, <2>3, <2>5 DEF m, w, x, y
  <2>. QED BY <2>4, <2>5
<1>19. CASE op = "abs"
  <2>1. RefWord(op, x, y, type, b) = Signed(Wrap(AbsV(x), b), b)
    BY <1>3, <1>19, RefWordTable
  <2>2. w = IF x < 0 THEN Wrap(-x, b) ELSE a
    BY <1>8, <1>19 DEF w
  <2>3. w = Wrap(AbsV(x), b)
    BY <1>11, <2>2 DEF AbsV
  <2>4. AbsV(x) \in Int
    BY <1>4 DEF AbsV
  <2>. QED BY <1>2, <2>1, <2>3, <2>4 DEF m, w, x, y
<1>20. CASE op = "shiftLeft"
  <2>1. w = Wrap(x * s, b)
    BY <1>8, <1>20 DEF w
  <2>2. RefWord(op, x, y, type, b) = Signed(Wrap(x * s, b), b)
    BY <1>3, <1>20, RefWordTable DEF s
  <2>. QED BY <1>2, <1>9, <2>1, <2>2 DEF m, w, x, y
<1>21. CASE op = "shiftRight"
  <2>1. w = Wrap(x \div s, b)
    BY <1>8, <1>21 DEF w
  <2>2. RefWord(op, x, y, type, b) = x \div s
    BY <1>21, RefWordTable DEF s
  <2>3. x \div s \in -h..h - 1 /\ x \div s \in Int
    <3>1. x \div s \in Int /\ (x >= 0 => x \div s >= 0 /\ x \div s <= x) /\ (x < 0 => x \div s >= x /\ x \div s < 0)
      BY <1>4, <1>7
    <3>. QED BY <1>1, <1>4, <3>1
  <2>. QED BY <1>2, <2>1, <2>2, <2>3 DEF m, w, x, y
<1>. QED
  BY <1>13, <1>14, <1>15, <1>16, <1>17, <1>18, <1>19, <1>20, <1>21 DEF SIntOps, UIntOps, NatBitOps

-----------------------------------------------------------------------------
\* Reduction to a bound.
LEMMA Reduction ==
  ASSUME NEW z \in Nat, NEW n \in Nat, n # 0
  PROVE  /\ lean_nat_mod(NatRep(z), NatRep(n)) = NatRep(z % n) /\ z % n \in 0..n - 1
         /\ z < n => z % n = z
<1>1. z % n \in 0..n - 1
  BY Division
<1>2. z < n => z % n = z
  BY SmallRemainder
<1> DEFINE r == IF n = 0 THEN z ELSE z % n
<1>3. lean_nat_mod(NatRep(z), NatRep(n)) = NatRep(r)
  BY NatArithmetic
<1>4. r = z % n
  OBVIOUS
<1>. HIDE DEF r
<1>. QED
  BY <1>1, <1>2, <1>3, <1>4

\* A difference modulo the bound, taken from the bound downwards.
LEMMA DifferenceModulo ==
  ASSUME NEW x \in Nat, NEW y \in Nat, NEW n \in Nat, n # 0
  PROVE  (n - y + x) % n = (x - y) % n
<1> DEFINE d == x - y
<1>1. d \in Int /\ n - y + x = d + 1 * n
  OBVIOUS
<1>. HIDE DEF d
<1>2. (d + 1 * n) % n = d % n
  <2>1. \A k \in Int : (d + k * n) % n = d % n
    BY <1>1, Congruent
  <2>. QED BY <2>1
<1>. QED
  BY <1>1, <1>2 DEF d

\* The operations of Fin stay below the bound and compute modulo it.
LEMMA FinOpIsExact ==
  ASSUME NEW n \in Nat, n # 0, NEW x \in 0..n - 1, Small(x), NEW y \in 0..n - 1, NEW op \in FinOps
  PROVE  \E v \in 0..n - 1 :
           /\ FinOp(op, NatRep(x), NatRep(y), NatRep(n)) = NatRep(v)
           /\ op \in {"add", "sub", "mul"} => v = RefInt(op, x, y) % n
           /\ op \in NatBitOps \cup NatShifts => v = RefNat(op, x, y) % n
<1> DEFINE z == RefNat(op, x, y)
<1>1. x \in Nat /\ y \in Nat /\ op \in NatOps \cup NatBitOps \cup NatShifts \cup NatOtherOps
  BY DEF FinOps, NatOps, NatBitOps, NatShifts
<1>2. NatOp(op, NatRep(x), NatRep(y)) = NatRep(z) /\ z \in Nat
  BY <1>1, NatOpIsExact
<1>3. CASE op = "sub"
  <2> DEFINE d == n - y
             e == d + x
             v == e % n
  <2>1. d \in Nat /\ e \in Nat /\ n >= y
    BY <1>1
  <2>2. lean_nat_sub(NatRep(n), NatRep(y)) = NatRep(d)
    BY <1>1, <2>1, NatArithmetic
  <2>3. lean_nat_add(NatRep(d), NatRep(x)) = NatRep(e)
    <3>. HIDE DEF d
    <3>. QED BY <1>1, <2>1, NatArithmetic
  <2>4. lean_nat_mod(NatRep(e), NatRep(n)) = NatRep(v) /\ v \in 0..n - 1
    <3>. HIDE DEF e
    <3>. QED BY <2>1, Reduction
  <2>5. v = (x - y) % n
    BY <1>1, DifferenceModulo
  <2>6. FinOp(op, NatRep(x), NatRep(y), NatRep(n)) = NatRep(v)
    <3>. HIDE DEF d, e, v
    <3>. QED BY <1>3, <2>2, <2>3, <2>4 DEF FinOp
  <2>7. RefInt(op, x, y) = x - y /\ op \notin NatBitOps \cup NatShifts
    BY <1>3 DEF RefInt, NatBitOps, NatShifts
  <2>. HIDE DEF v
  <2>. QED BY <2>4, <2>5, <2>6, <2>7
<1>4. CASE op \in {"div", "mod", "shiftRight"}
  <2>1. z <= x
    <3>1. y # 0 => x \div y <= x /\ x % y <= x
      BY <1>1
    <3>2. x \div Pow2(y) <= x
      BY <1>1, PowerQuotients
    <3>3. CASE op = "div"
      BY <1>1, <3>1, <3>3 DEF RefNat
    <3>4. CASE op = "mod"
      BY <1>1, <3>1, <3>4 DEF RefNat
    <3>5. CASE op = "shiftRight"
      BY <3>2, <3>5 DEF RefNat
    <3>. QED BY <1>4, <3>3, <3>4, <3>5
  <2>2. FinOp(op, NatRep(x), NatRep(y), NatRep(n)) = NatRep(z)
    BY <1>2, <1>4 DEF FinOp
  <2>3. op \notin {"add", "sub", "mul"}
    BY <1>4
  <2>. HIDE DEF z
  <2>4. z \in 0..n - 1 /\ z < n
    BY <1>1, <1>2, <2>1
  <2>5. z % n = z
    BY <1>2, <2>4, Reduction
  <2>. QED BY <2>2, <2>3, <2>4, <2>5 DEF z
<1>5. CASE op \in {"add", "mul", "land", "lor", "xor", "shiftLeft"}
  <2> DEFINE v == z % n
  <2>1. FinOp(op, NatRep(x), NatRep(y), NatRep(n)) = lean_nat_mod(NatRep(z), NatRep(n))
    BY <1>2, <1>5 DEF FinOp
  <2>2. lean_nat_mod(NatRep(z), NatRep(n)) = NatRep(v) /\ v \in 0..n - 1
    <3>. HIDE DEF z
    <3>. QED BY <1>2, Reduction
  <2>3. op \in {"add", "sub", "mul"} => RefInt(op, x, y) = z
    BY <1>5 DEF RefInt, RefNat
  <2>4. op \in {"add", "sub", "mul"} => v = RefInt(op, x, y) % n
    <3>. HIDE DEF z
    <3>. QED BY <2>3
  <2>5. v = RefNat(op, x, y) % n
    OBVIOUS
  <2>. HIDE DEF v, z
  <2>. QED BY <2>1, <2>2, <2>4, <2>5
<1>. QED
  BY <1>3, <1>4, <1>5 DEF FinOps

\* The operations of BitVec stay below the power and compute modulo it.
LEMMA BitVecOpIsExact ==
  ASSUME NEW b \in 2..P, NEW x \in 0..Pow2(b) - 1, Small(x), NEW y \in Nat, NEW op \in BitVecOps,
         op \notin NatShifts => y < Pow2(b)
  PROVE  \E v \in 0..Pow2(b) - 1 :
           /\ BitVecOp(op, NatRep(x), NatRep(y), b) = NatRep(v)
           /\ op \in {"add", "sub", "mul"} => v = Wrap(RefInt(op, x, y), b)
           /\ op \in NatBitOps \cup NatShifts => v = RefNat(op, x, y) % Pow2(b)
           /\ op = "not" => v + x = Pow2(b) - 1
<1> DEFINE n == Pow2(b)
           z == RefNat(op, x, y)
<1>1. P \in Nat /\ b \in Nat /\ b # 0 /\ n \in Nat /\ n > 1 /\ x \in Nat /\ x < n /\ n # 0
  <2>1. P \in Nat /\ b \in Nat /\ b # 0
    BY NumbersAssumption
  <2>2. n \in Nat /\ n > 1
    BY <2>1, Words
  <2>. QED BY <2>1, <2>2
<1>2. \A w : Wrap(w, b) = w % n
  BY DEF Wrap
<1>3. BigNatResult(n) = NatRep(n)
  <2>. HIDE DEF n
  <2>. QED BY <1>1, NatReps
<1>4. \A w \in Nat : BitVecOfNat(NatRep(w), b) = NatRep(w % n) /\ w % n \in 0..n - 1 /\ (w < n => w % n = w)
  <2>1. \A w : BitVecOfNat(w, b) = lean_nat_mod(w, NatRep(n))
    BY <1>3 DEF BitVecOfNat
  <2>. HIDE DEF n
  <2>. QED BY <1>1, <2>1, Reduction
<1>5. CASE op = "sub"
  <2> DEFINE d == n + x
             e == d - y
             v == e % n
  <2>1. d \in Nat /\ y < n
    BY <1>1, <1>5 DEF NatShifts
  <2>2. e \in Nat /\ d >= y
    BY <1>1, <2>1
  <2>3. lean_nat_add(NatRep(n), NatRep(x)) = NatRep(d)
    <3>. HIDE DEF n
    <3>. QED BY <1>1, NatArithmetic
  <2>4. lean_nat_sub(NatRep(d), NatRep(y)) = NatRep(e)
    <3>1. lean_nat_sub(NatRep(d), NatRep(y)) = NatRep(IF d >= y THEN d - y ELSE 0)
      <4>. HIDE DEF d
      <4>. QED BY <2>1, NatArithmetic
    <3>2. (IF d >= y THEN d - y ELSE 0) = e
      <4>. HIDE DEF d
      <4>. QED BY <2>2
    <3>. QED BY <3>1, <3>2
  <2>5. BitVecOfNat(NatRep(e), b) = NatRep(v) /\ v \in 0..n - 1
    <3>. HIDE DEF e, n
    <3>. QED BY <1>4, <2>2
  <2>6. v = Wrap(x - y, b)
    <3>1. (n - y + x) % n = (x - y) % n
      <4>. HIDE DEF n
      <4>. QED BY <1>1, DifferenceModulo
    <3>2. n - y + x = e
      <4>. HIDE DEF n
      <4>. QED BY <1>1
    <3>. QED BY <1>2, <3>1, <3>2
  <2>7. BitVecOp(op, NatRep(x), NatRep(y), b) = NatRep(v)
    <3>1. BitVecOp(op, NatRep(x), NatRep(y), b)
            = BitVecOfNat(lean_nat_sub(lean_nat_add(BigNatResult(n), NatRep(x)), NatRep(y)), b)
      BY <1>5 DEF BitVecOp
    <3>. HIDE DEF d, e, v, n
    <3>. QED BY <1>3, <2>3, <2>4, <2>5, <3>1
  <2>8. RefInt(op, x, y) = x - y /\ op \notin NatBitOps \cup NatShifts /\ op # "not"
    BY <1>5 DEF RefInt, NatBitOps, NatShifts
  <2>. HIDE DEF v
  <2>. QED BY <2>5, <2>6, <2>7, <2>8
<1>6. CASE op = "not"
  <2> DEFINE ones == n - 1
             v == ones - x
  <2>1. ones \in Nat /\ ones < n /\ v \in Nat /\ v \in 0..n - 1 /\ v < n /\ v + x = n - 1
    BY <1>1
  <2>2. lean_nat_sub(NatRep(n), NatRep(1)) = NatRep(ones)
    <3>. HIDE DEF n
    <3>1. n >= 1 /\ 1 \in Nat
      BY <1>1
    <3>. QED BY <1>1, <3>1, NatArithmetic
  <2>3. Box(1) = NatRep(1)
    BY Borders, NatReps
  <2>4. BitVecAllOnes(b) = NatRep(ones)
    <3>1. BitVecAllOnes(b) = BitVecOfNat(NatRep(ones), b)
      BY <1>3, <2>2, <2>3 DEF BitVecAllOnes
    <3>. HIDE DEF ones, n
    <3>. QED BY <1>4, <2>1, <3>1
  <2>5. NatOp("xor", NatRep(ones), NatRep(x)) = NatRep(v)
    <3>1. Small(ones)
      <4> DEFINE k == 2 * P
      <4>1. k \in Nat /\ b <= k
        BY <1>1
      <4>. HIDE DEF k
      <4>2. n <= Pow2(k) /\ Pow2(k) \in Nat
        BY <1>1, <4>1, Pow2Grows, Pow2Is
      <4>3. n <= Pow2(2 * P) /\ Pow2(2 * P) \in Nat
        BY <4>2 DEF k
      <4>. HIDE DEF n
      <4>. QED BY <1>1, <2>1, <4>3 DEF Small
    <3>2. RefNat("xor", ones, x) = OfBits(SymDiff(Bits(ones), Bits(x)))
      BY DEF RefNat
    <3>3. OfBits(SymDiff(Bits(ones), Bits(x))) = v
      <4>1. b \in 0..2 * P
        BY <1>1
      <4>. QED BY <1>1, <4>1, Complements
    <3>4. "xor" \in NatBitOps
      BY DEF NatBitOps
    <3>. HIDE DEF ones, v
    <3>. QED BY <1>1, <2>1, <3>1, <3>2, <3>3, <3>4, NatOpIsExact
  <2>6. BitVecOp(op, NatRep(x), NatRep(y), b) = NatRep(v)
    <3>1. BitVecOp(op, NatRep(x), NatRep(y), b) = BitVecOfNat(NatOp("xor", BitVecAllOnes(b), NatRep(x)), b)
      BY <1>6 DEF BitVecOp
    <3>. HIDE DEF v, ones, n
    <3>. QED BY <1>4, <2>1, <2>4, <2>5, <3>1
  <2>7. op \notin {"add", "sub", "mul"} /\ op \notin NatBitOps \cup NatShifts
    BY <1>6 DEF NatBitOps, NatShifts
  <2>. HIDE DEF v
  <2>. QED BY <2>1, <2>6, <2>7
<1>7. op # "not" => NatOp(op, NatRep(x), NatRep(y)) = NatRep(z) /\ z \in Nat
  <2>1. op # "not" => op \in NatOps \cup NatBitOps \cup NatShifts \cup NatOtherOps
    BY DEF BitVecOps, NatOps, NatBitOps, NatShifts
  <2>. QED BY <1>1, <2>1, NatOpIsExact
<1>8. CASE op = "shiftRight"
  <2>1. z <= x
    <3>1. x \div Pow2(y) <= x
      BY <1>1, PowerQuotients
    <3>. QED BY <1>8, <3>1 DEF RefNat
  <2>2. BitVecOp(op, NatRep(x), NatRep(y), b) = NatRep(z)
    BY <1>7, <1>8 DEF BitVecOp
  <2>3. op \notin {"add", "sub", "mul"} /\ op # "not"
    BY <1>8
  <2>4. z \in Nat
    BY <1>7, <1>8
  <2>. HIDE DEF z
  <2>5. z \in 0..n - 1 /\ z < n
    <3>. HIDE DEF n
    <3>. QED BY <1>1, <2>1, <2>4
  <2>6. z % n = z
    <3>. HIDE DEF n
    <3>. QED BY <1>4, <2>4, <2>5
  <2>. QED BY <2>2, <2>3, <2>5, <2>6 DEF z
<1>9. CASE op \in {"add", "mul", "land", "lor", "xor", "shiftLeft"}
  <2> DEFINE v == z % n
  <2>1. BitVecOp(op, NatRep(x), NatRep(y), b) = BitVecOfNat(NatRep(z), b) /\ z \in Nat
    BY <1>7, <1>9 DEF BitVecOp
  <2>2. BitVecOfNat(NatRep(z), b) = NatRep(v) /\ v \in 0..n - 1
    <3>. HIDE DEF z, n
    <3>. QED BY <1>4, <2>1
  <2>3. op \in {"add", "sub", "mul"} => RefInt(op, x, y) = z
    BY <1>9 DEF RefInt, RefNat
  <2>4. op \in {"add", "sub", "mul"} => v = Wrap(RefInt(op, x, y), b)
    <3>. HIDE DEF z, n
    <3>. QED BY <1>2, <2>3
  <2>5. v = RefNat(op, x, y) % n /\ op # "not"
    BY <1>9
  <2>. HIDE DEF v, z
  <2>. QED BY <2>1, <2>2, <2>4, <2>5
<1>. QED
  BY <1>5, <1>6, <1>8, <1>9 DEF BitVecOps

\* A range has as many elements as its size says.
LEMMA RangeIsExact ==
  ASSUME NEW start \in Nat, NEW stop \in Nat, NEW step \in 1..3
  PROVE  \E v \in Nat : /\ RangeSize(NatRep(start), NatRep(stop), NatRep(step)) = NatRep(v)
                        /\ \A i \in 0..v : i < v <=> start + i * step < stop
<1> DEFINE d == IF stop >= start THEN stop - start ELSE 0
           e == d + step
           f == e - 1
           v == f \div step
<1>1. d \in Nat /\ e \in Nat /\ f \in Nat /\ step \in Nat /\ step # 0 /\ e >= 1 /\ 1 \in Nat
  OBVIOUS
<1>2. v \in Nat
  <2>. HIDE DEF f
  <2>. QED BY <1>1
<1>3. lean_nat_sub(NatRep(stop), NatRep(start)) = NatRep(d)
  BY NatArithmetic
<1>4. lean_nat_add(NatRep(d), NatRep(step)) = NatRep(e)
  <2>. HIDE DEF d
  <2>. QED BY <1>1, NatArithmetic
<1>5. lean_nat_sub(NatRep(e), NatRep(1)) = NatRep(f)
  <2>1. lean_nat_sub(NatRep(e), NatRep(1)) = NatRep(IF e >= 1 THEN e - 1 ELSE 0)
    <3>. HIDE DEF e
    <3>. QED BY <1>1, NatArithmetic
  <2>2. (IF e >= 1 THEN e - 1 ELSE 0) = f
    <3>. HIDE DEF e
    <3>. QED BY <1>1
  <2>. QED BY <2>1, <2>2
<1>6. lean_nat_div(NatRep(f), NatRep(step)) = NatRep(v)
  <2>1. lean_nat_div(NatRep(f), NatRep(step)) = NatRep(IF step = 0 THEN 0 ELSE f \div step)
    <3>. HIDE DEF f
    <3>. QED BY <1>1, NatArithmetic
  <2>2. (IF step = 0 THEN 0 ELSE f \div step) = v
    <3>. HIDE DEF f
    <3>. QED BY <1>1
  <2>. QED BY <2>1, <2>2
<1>7. Box(1) = NatRep(1)
  BY Borders, NatReps
<1>8. RangeSize(NatRep(start), NatRep(stop), NatRep(step)) = NatRep(v)
  <2>1. RangeSize(NatRep(start), NatRep(stop), NatRep(step))
          = lean_nat_div(lean_nat_sub(lean_nat_add(lean_nat_sub(NatRep(stop), NatRep(start)), NatRep(step)), Box(1)), NatRep(step))
    BY DEF RangeSize
  <2>. HIDE DEF d, e, f, v
  <2>. QED BY <1>3, <1>4, <1>5, <1>6, <1>7, <2>1
<1>9. ASSUME NEW i \in 0..v
      PROVE  i < v <=> start + i * step < stop
  <2>1. v * step <= f /\ f < v * step + step
    <3>. HIDE DEF f
    <3>1. f % step \in 0..step - 1 /\ f = (f \div step) * step + (f % step)
      BY <1>1, Division
    <3>2. v * step \in Int
      BY <1>1, <1>2
    <3>. QED BY <1>1, <3>1, <3>2
  <2>2. i \in Nat /\ i <= v
    BY <1>2
  <2>. HIDE DEF v
  <2>3. CASE step = 1
    BY <1>1, <1>2, <2>1, <2>2, <2>3
  <2>4. CASE step = 2
    BY <1>1, <1>2, <2>1, <2>2, <2>4
  <2>5. CASE step = 3
    BY <1>1, <1>2, <2>1, <2>2, <2>5
  <2>. QED BY <2>3, <2>4, <2>5
<1>. HIDE DEF v
<1>. QED
  BY <1>2, <1>8, <1>9

\* A fold adds up natural numbers.
LEMMA FoldIsNat ==
  ASSUME NEW v \in Nat
  PROVE  NatFold(NatRep(v)) \in Nat
<1> DEFINE t == [i \in Nat |-> i]
           B(f) == f = [i \in 0..v |-> IF i = 0 THEN 0 ELSE f[i - 1] + (i - 1)]
<1>1. ASSUME NEW f
      PROVE  Sums(f, t, v) <=> B(f)
  <2>1. ASSUME NEW i \in 0..v, i # 0
        PROVE  t[i - 1] = i - 1
    BY <2>1
  <2>2. [i \in 0..v |-> IF i = 0 THEN 0 ELSE f[i - 1] + t[i - 1]]
          = [i \in 0..v |-> IF i = 0 THEN 0 ELSE f[i - 1] + (i - 1)]
    BY <2>1
  <2>. QED BY <2>2 DEF Sums
<1>2. NatFold(NatRep(v)) = IF NatRep(v).small THEN (CHOOSE f : B(f))[v] ELSE 0
  <2>1. NatRep(v).w = v
    BY NatReps
  <2>. QED BY <2>1 DEF NatFold
<1>. HIDE DEF B
<1>3. \E f : B(f)
  <2>1. \E f : Sums(f, t, v)
    <3>1. \A i \in Nat : i < v => t[i] \in Nat
      OBVIOUS
    <3>. HIDE DEF t
    <3>. QED BY <3>1, SumsExist
  <2>. QED BY <1>1, <2>1
<1> DEFINE c == CHOOSE f : B(f)
<1>4. B(c)
  BY <1>3
<1>. HIDE DEF c
<1> DEFINE T == {i \in Nat : c[i] \in Nat}
<1>5. \A i \in 0..v : i \in T
  <2>1. 0 \in T
    BY <1>4 DEF B
  <2>2. ASSUME NEW i \in Nat, i < v, i \in T
        PROVE  i + 1 \in T
    <3>1. i + 1 \in 0..v /\ i + 1 # 0 /\ (i + 1) - 1 = i
      BY <2>2
    <3>2. c[i + 1] = c[i] + i
      BY <1>4, <3>1 DEF B
    <3>. QED BY <2>2, <3>2
  <2>. HIDE DEF T
  <2>. QED BY <2>1, <2>2, RangeByInduction
<1>6. c[v] \in Nat
  BY <1>5
<1>. QED
  BY <1>2, <1>6 DEF c

-----------------------------------------------------------------------------
\* What the calculator holds is in the form of its type.
Holds(a) ==
  /\ a.type = "nat" => \E v \in Nat : a.rep = NatRep(v)
  /\ a.type = "int" => \E v \in Int : a.rep = BigIntResult(v)
  /\ a.type \in WordTypes =>
       a.bits \in WidthsOf(a.type) /\ \E w \in 0..Pow2(a.bits) - 1 : a.rep = mk(w, a.bits)
  /\ a.type = "fin" => a.bits \in Bounds /\ \E v \in 0..a.bits - 1 : a.rep = NatRep(v)
  /\ a.type = "bitvec" => a.bits \in Widths /\ \E v \in 0..Pow2(a.bits) - 1 : a.rep = NatRep(v)

\* The inductive invariant: it holds a number in its form, one of bounded size when
\* a computation begins, and the number that the last operation should have given.
NumbersInv ==
  /\ Holds(acc)
  /\ last = Fresh => Small(Value(acc))
  /\ ExactArithmetic
  /\ BoundedArithmetic

\* The widths of words are widths, and the bounds of Fin are positive.
LEMMA WidthsAndBounds ==
  /\ \A type \in WordTypes : WidthsOf(type) \subseteq 2..P
  /\ Widths \subseteq 2..P /\ Bounds \subseteq Nat \ {0}
  /\ P \in Nat /\ P > 3 /\ \A b \in 2..P : b \in Nat /\ b # 0 /\ Pow2(b) \in Nat
<1>1. P \in Nat /\ P > 3 /\ Widths \subseteq 2..P /\ Bounds \subseteq Nat \ {0}
  BY NumbersAssumption
<1>2. \A b \in 2..P : b \in Nat /\ b # 0 /\ Pow2(b) \in Nat
  BY <1>1, Pow2Is
<1>3. P \in 2..P
  BY <1>1
<1>. QED
  BY <1>1, <1>2, <1>3 DEF WidthsOf

\* The value of what is held.
LEMMA Held ==
  ASSUME NEW a, Holds(a)
  PROVE  /\ a.type = "nat" => \E v \in Nat : a.rep = NatRep(v) /\ Value(a) = v
         /\ a.type = "int" => \E v \in Int : a.rep = BigIntResult(v) /\ Value(a) = v
         /\ a.type \in WordTypes =>
              /\ a.bits \in WidthsOf(a.type) /\ a.bits \in 2..P
              /\ \E w \in 0..Pow2(a.bits) - 1 : a.rep.w = w /\ Value(a) = WordValue(w, a.type, a.bits)
         /\ a.type = "fin" =>
              a.bits \in Bounds /\ \E v \in 0..a.bits - 1 : a.rep = NatRep(v) /\ Value(a) = v
         /\ a.type = "bitvec" =>
              /\ a.bits \in Widths /\ a.bits \in 2..P
              /\ \E v \in 0..Pow2(a.bits) - 1 : a.rep = NatRep(v) /\ Value(a) = v
<1>1. ASSUME a.type = "nat"
      PROVE  \E v \in Nat : a.rep = NatRep(v) /\ Value(a) = v
  <2>1. PICK v \in Nat : a.rep = NatRep(v)
    BY <1>1 DEF Holds
  <2>2. NatValue(a.rep) = v /\ Value(a) = NatValue(a.rep)
    BY <1>1, <2>1, NatReps DEF Value, WordTypes
  <2>. QED BY <2>1, <2>2
<1>2. ASSUME a.type = "int"
      PROVE  \E v \in Int : a.rep = BigIntResult(v) /\ Value(a) = v
  <2>1. PICK v \in Int : a.rep = BigIntResult(v)
    BY <1>2 DEF Holds
  <2>2. IntValue(a.rep) = v
    BY <2>1, IntReps
  <2>3. Value(a) = IntValue(a.rep)
    BY <1>2 DEF Value, WordTypes
  <2>. QED BY <2>1, <2>2, <2>3
<1>3. ASSUME a.type \in WordTypes
      PROVE  /\ a.bits \in WidthsOf(a.type) /\ a.bits \in 2..P
             /\ \E w \in 0..Pow2(a.bits) - 1 : a.rep.w = w /\ Value(a) = WordValue(w, a.type, a.bits)
  <2>1. a.bits \in WidthsOf(a.type) /\ a.bits \in 2..P
    BY <1>3, WidthsAndBounds DEF Holds
  <2>2. PICK w \in 0..Pow2(a.bits) - 1 : a.rep = mk(w, a.bits)
    BY <1>3 DEF Holds
  <2>3. a.rep.w = w
    BY <2>1, <2>2, WordsAreStored
  <2>4. Value(a) = WordValue(w, a.type, a.bits)
    BY <1>3, <2>3 DEF Value, WordTypes
  <2>. QED BY <2>1, <2>3, <2>4
<1>4. ASSUME a.type = "fin"
      PROVE  a.bits \in Bounds /\ \E v \in 0..a.bits - 1 : a.rep = NatRep(v) /\ Value(a) = v
  <2>1. PICK v \in 0..a.bits - 1 : a.rep = NatRep(v)
    BY <1>4 DEF Holds
  <2>2. a.bits \in Bounds /\ v \in Nat
    BY <1>4, WidthsAndBounds DEF Holds
  <2>3. NatValue(a.rep) = v /\ Value(a) = NatValue(a.rep)
    BY <1>4, <2>1, <2>2, NatReps DEF Value, WordTypes
  <2>. QED BY <2>1, <2>2, <2>3
<1>5. ASSUME a.type = "bitvec"
      PROVE  /\ a.bits \in Widths /\ a.bits \in 2..P
             /\ \E v \in 0..Pow2(a.bits) - 1 : a.rep = NatRep(v) /\ Value(a) = v
  <2>1. PICK v \in 0..Pow2(a.bits) - 1 : a.rep = NatRep(v)
    BY <1>5 DEF Holds
  <2>2. a.bits \in Widths
    BY <1>5 DEF Holds
  <2>3. a.bits \in 2..P
    BY <2>2, WidthsAndBounds
  <2>4. v \in Nat
    OBVIOUS
  <2>5. NatValue(a.rep) = v /\ Value(a) = NatValue(a.rep)
    BY <1>5, <2>1, <2>4, NatReps DEF Value, WordTypes
  <2>. QED BY <2>1, <2>2, <2>3, <2>5
<1>. QED
  BY <1>1, <1>2, <1>3, <1>4, <1>5

\* What the constructors and operations make is held in its form, with its value.
LEMMA Made ==
  ASSUME NEW bits
  PROVE  /\ \A v \in Nat : Holds(Number("nat", NatRep(v), bits)) /\ Value(Number("nat", NatRep(v), bits)) = v
         /\ \A v \in Int : Holds(Number("int", BigIntResult(v), bits)) /\ Value(Number("int", BigIntResult(v), bits)) = v
         /\ \A type \in WordTypes : bits \in WidthsOf(type) =>
              \A w \in 0..Pow2(bits) - 1 :
                Holds(Number(type, mk(w, bits), bits)) /\ Value(Number(type, mk(w, bits), bits)) = WordValue(w, type, bits)
         /\ bits \in Bounds => \A v \in 0..bits - 1 :
              Holds(Number("fin", NatRep(v), bits)) /\ Value(Number("fin", NatRep(v), bits)) = v
         /\ bits \in Widths => \A v \in 0..Pow2(bits) - 1 :
              Holds(Number("bitvec", NatRep(v), bits)) /\ Value(Number("bitvec", NatRep(v), bits)) = v
         /\ \A type \in {"bool", "sign", "text", "char", "panic", "error"} : \A rep : Holds(Number(type, rep, bits))
<1>1. ASSUME NEW v \in Nat
      PROVE  Holds(Number("nat", NatRep(v), bits)) /\ Value(Number("nat", NatRep(v), bits)) = v
  BY NatReps DEF Holds, Value, Number, WordTypes
<1>2. ASSUME NEW v \in Int
      PROVE  Holds(Number("int", BigIntResult(v), bits)) /\ Value(Number("int", BigIntResult(v), bits)) = v
  BY IntReps DEF Holds, Value, Number, WordTypes
<1>3. ASSUME NEW type \in WordTypes, bits \in WidthsOf(type), NEW w \in 0..Pow2(bits) - 1
      PROVE  /\ Holds(Number(type, mk(w, bits), bits))
             /\ Value(Number(type, mk(w, bits), bits)) = WordValue(w, type, bits)
  <2> DEFINE a == Number(type, mk(w, bits), bits)
  <2>1. a.type = type /\ a.rep = mk(w, bits) /\ a.bits = bits
    BY DEF Number
  <2>2. type \notin {"nat", "int", "fin", "bitvec"}
    BY DEF WordTypes
  <2>3. mk(w, bits).w = w
    BY <1>3, WidthsAndBounds, WordsAreStored
  <2>. HIDE DEF a
  <2>4. Holds(a)
    BY <1>3, <2>1, <2>2 DEF Holds
  <2>5. Value(a) = WordValue(w, type, bits)
    BY <2>1, <2>2, <2>3 DEF Value
  <2>. QED BY <2>4, <2>5 DEF a
<1>4. ASSUME bits \in Bounds, NEW v \in 0..bits - 1
      PROVE  Holds(Number("fin", NatRep(v), bits)) /\ Value(Number("fin", NatRep(v), bits)) = v
  <2>1. v \in Nat
    BY <1>4, WidthsAndBounds
  <2>. QED BY <1>4, <2>1, NatReps DEF Holds, Value, Number, WordTypes
<1>5. ASSUME bits \in Widths, NEW v \in 0..Pow2(bits) - 1
      PROVE  Holds(Number("bitvec", NatRep(v), bits)) /\ Value(Number("bitvec", NatRep(v), bits)) = v
  <2>1. v \in Nat
    BY <1>5, WidthsAndBounds
  <2>. QED BY <1>5, <2>1, NatReps DEF Holds, Value, Number, WordTypes
<1>6. ASSUME NEW type \in {"bool", "sign", "text", "char", "panic", "error"}, NEW rep
      PROVE  Holds(Number(type, rep, bits))
  BY DEF Holds, Number, WordTypes
<1>. QED
  BY <1>1, <1>2, <1>3, <1>4, <1>5, <1>6

\* Fin and BitVec are below their bound.
LEMMA HeldIsBounded ==
  ASSUME NEW a, Holds(a)
  PROVE  /\ a.type = "fin" => Value(a) < a.bits
         /\ a.type = "bitvec" => Value(a) < Pow2(a.bits)
<1>1. a.type = "fin" => Value(a) < a.bits
  <2>1. a.type = "fin" => a.bits \in Nat
    BY WidthsAndBounds DEF Holds
  <2>. QED BY <2>1, Held
<1>2. a.type = "bitvec" => Value(a) < Pow2(a.bits)
  <2>1. a.type = "bitvec" => Pow2(a.bits) \in Nat
    BY WidthsAndBounds DEF Holds
  <2>. QED BY <2>1, Held
<1>. QED
  BY <1>1, <1>2

\* A held number is in the normal form.
LEMMA HeldIsCanonical ==
  ASSUME Holds(acc)
  PROVE  Canonical
<1>1. ASSUME NEW v \in Nat, acc.rep = NatRep(v)
      PROVE  acc.rep = BigNatResult(NatValue(acc.rep))
  <2>1. NatValue(acc.rep) = v /\ BigNatResult(v) = NatRep(v)
    BY <1>1, NatReps
  <2>. QED BY <1>1, <2>1
<1>2. acc.type \in {"nat", "fin", "bitvec"} => \E v \in Nat : acc.rep = NatRep(v)
  <2>1. acc.type = "nat" => \E v \in Nat : acc.rep = NatRep(v)
    BY DEF Holds
  <2>2. acc.type = "fin" => \E v \in Nat : acc.rep = NatRep(v)
    <3>1. acc.type = "fin" => \A v \in 0..acc.bits - 1 : v \in Nat
      BY WidthsAndBounds DEF Holds
    <3>. QED BY <3>1 DEF Holds
  <2>3. acc.type = "bitvec" => \E v \in Nat : acc.rep = NatRep(v)
    <3>1. acc.type = "bitvec" => \A v \in 0..Pow2(acc.bits) - 1 : v \in Nat
      OBVIOUS
    <3>. QED BY <3>1 DEF Holds
  <2>. QED BY <2>1, <2>2, <2>3
<1>3. ASSUME acc.type = "int"
      PROVE  /\ acc.rep = BigIntResult(IntValue(acc.rep))
             /\ \A y \in Operands : lean_int_eq(acc.rep, BigIntResult(y)) <=> (IntValue(acc.rep) = y)
  <2>1. PICK v \in Int : acc.rep = BigIntResult(v)
    BY <1>3 DEF Holds
  <2>2. IntValue(acc.rep) = v
    BY <2>1, IntReps
  <2>3. \A y \in Operands : y \in Int
    BY NumbersAssumption
  <2>. QED BY <2>1, <2>2, <2>3, IntComparisons
<1>4. \A y : lean_int_eq(acc.rep, BigIntResult(y)) \in BOOLEAN
  BY DEF lean_int_eq
<1>5. acc.type = "int" =>
        \A y \in Operands : lean_int_eq(acc.rep, BigIntResult(y)) = (IntValue(acc.rep) = y)
  BY <1>3, <1>4
<1>6. acc.type \in {"nat", "fin", "bitvec"} => acc.rep = BigNatResult(NatValue(acc.rep))
  BY <1>1, <1>2
<1>7. acc.type = "int" => acc.rep = BigIntResult(IntValue(acc.rep))
  BY <1>3
<1>. QED BY <1>5, <1>6, <1>7 DEF Canonical

-----------------------------------------------------------------------------
\* A fresh computation has shown nothing yet.
LEMMA SettlesFresh ==
  ASSUME last' = Fresh, Holds(acc'), Small(Value(acc')), acc'.type # "panic"
  PROVE  NumbersInv'
<1>1. /\ last'.type = "none" /\ last'.op = "new" /\ last'.y = 0 /\ "none" \notin WordTypes
      /\ "new" \notin Comparisons
  BY DEF Fresh, WordTypes, Comparisons
<1>2. ExactArithmetic'
  BY <1>1 DEF ExactArithmetic
<1>3. BoundedArithmetic'
  BY <1>1, HeldIsBounded DEF BoundedArithmetic
<1>. QED
  BY <1>2, <1>3 DEF NumbersInv

\* What an operation of Nat must give.
LEMMA SettlesNat ==
  ASSUME NEW op, NEW x, NEW y, NEW bits, op \notin {"new", "sign"},
         last' = [type |-> "nat", op |-> op, x |-> x, y |-> y, bits |-> bits],
         Holds(acc'), acc'.type # "panic",
         op \in NatOps => Value(acc') = RefNat(op, x, y),
         op = "succ" => Value(acc') = x + 1,
         op \in Comparisons => acc'.rep = Compare(op, x, y),
         op = "isPowerOfTwo" => acc'.rep = (Cardinality(Bits(x)) = 1)
  PROVE  NumbersInv'
<1>1. last'.type = "nat" /\ last'.op = op /\ last'.x = x /\ last'.y = y
  OBVIOUS
<1>2. "nat" \notin WordTypes
  BY DEF WordTypes
<1>3. ExactArithmetic'
  BY <1>1, <1>2 DEF ExactArithmetic, EuclideanDivision
<1>4. BoundedArithmetic'
  BY <1>1, HeldIsBounded DEF BoundedArithmetic
<1>5. last' # Fresh
  BY <1>1 DEF Fresh
<1>. QED
  BY <1>3, <1>4, <1>5 DEF NumbersInv

\* What an operation of Int must give.
LEMMA SettlesInt ==
  ASSUME NEW op, NEW x, NEW y, NEW bits, op \notin {"new", "succ", "isPowerOfTwo"},
         last' = [type |-> "int", op |-> op, x |-> x, y |-> y, bits |-> bits],
         Holds(acc'), acc'.type # "panic",
         op \in {"add", "sub", "mul", "div", "mod"} => Value(acc') = RefInt(op, x, y),
         op = "neg" => Value(acc') = -x,
         op \in {"ediv", "emod"} /\ y > 0 => Value(acc') = RefInt(op, x, y),
         op \in Comparisons => acc'.rep = Compare(op, x, y),
         op = "sign" => acc'.rep * AbsV(x) = x /\ acc'.rep \in {-1, 0, 1}
  PROVE  NumbersInv'
<1>1. last'.type = "int" /\ last'.op = op /\ last'.x = x /\ last'.y = y
  OBVIOUS
<1>2. "int" \notin WordTypes
  BY DEF WordTypes
<1>3. y # 0 => RefInt("ediv", x, y) = EuclideanQuot(x, y) /\ RefInt("emod", x, y) = EuclideanRem(x, y)
  BY DEF RefInt
<1>4. y > 0 => EuclideanDivision'
  BY <1>1, <1>3 DEF EuclideanDivision
<1>5. ExactArithmetic'
  <2>. HIDE DEF EuclideanDivision
  <2>. QED BY <1>1, <1>2, <1>4 DEF ExactArithmetic
<1>6. BoundedArithmetic'
  BY <1>1, HeldIsBounded DEF BoundedArithmetic
<1>7. last' # Fresh
  BY <1>1 DEF Fresh
<1>. QED
  BY <1>5, <1>6, <1>7 DEF NumbersInv

\* What an operation on a word must give.
LEMMA SettlesWord ==
  ASSUME NEW op, NEW x, NEW y, NEW bits, NEW type \in WordTypes, op \notin {"new", "succ", "isPowerOfTwo", "sign"},
         last' = [type |-> type, op |-> op, x |-> x, y |-> y, bits |-> bits],
         Holds(acc'),
         op \in Comparisons => acc'.rep = Compare(op, x, y),
         acc'.type = type /\ op # "cast" => Value(acc') = RefWord(op, x, y, type, acc'.bits),
         acc'.type = "panic" => op \in {"div", "mod"} /\ x = -(Pow2(acc'.bits - 1)) /\ y = -1
  PROVE  NumbersInv'
<1>1. last'.type = type /\ last'.op = op /\ last'.x = x /\ last'.y = y
  OBVIOUS
<1>2. type \notin {"nat", "int", "fin", "bitvec", "range"}
  BY DEF WordTypes
<1>3. ExactArithmetic'
  BY <1>1, <1>2 DEF ExactArithmetic, EuclideanDivision
<1>4. BoundedArithmetic'
  BY <1>1, <1>2, HeldIsBounded DEF BoundedArithmetic
<1>5. last' # Fresh
  BY <1>1 DEF Fresh
<1>. QED
  BY <1>3, <1>4, <1>5 DEF NumbersInv

\* What an operation of Fin must give.
LEMMA SettlesFin ==
  ASSUME NEW op \in FinOps \cup {"toNat"}, NEW x, NEW y, NEW bits,
         last' = [type |-> "fin", op |-> op, x |-> x, y |-> y, bits |-> bits],
         Holds(acc'), acc'.type # "panic",
         op \in {"add", "sub", "mul"} => Value(acc') = RefInt(op, x, y) % acc'.bits,
         op \in NatBitOps \cup NatShifts => acc'.type = "fin" /\ Value(acc') = RefNat(op, x, y) % acc'.bits
  PROVE  NumbersInv'
<1>1. last'.type = "fin" /\ last'.op = op /\ last'.x = x /\ last'.y = y
  OBVIOUS
<1>2. "fin" \notin WordTypes /\ op \notin Comparisons \cup {"new", "succ", "isPowerOfTwo", "sign"}
  BY DEF WordTypes, FinOps, Comparisons
<1>3. ExactArithmetic'
  BY <1>1, <1>2 DEF ExactArithmetic, EuclideanDivision
<1>4. BoundedArithmetic'
  BY <1>1, HeldIsBounded DEF BoundedArithmetic
<1>5. last' # Fresh
  BY <1>1 DEF Fresh
<1>. QED
  BY <1>3, <1>4, <1>5 DEF NumbersInv

\* What an operation of BitVec must give.
LEMMA SettlesBitVec ==
  ASSUME NEW op \in BitVecOps \cup {"toNat"}, NEW x, NEW y, NEW bits,
         last' = [type |-> "bitvec", op |-> op, x |-> x, y |-> y, bits |-> bits],
         Holds(acc'), acc'.type # "panic",
         op \in {"add", "sub", "mul"} => Value(acc') = Wrap(RefInt(op, x, y), acc'.bits),
         op \in NatBitOps \cup NatShifts => acc'.type # "fin" /\ Value(acc') = RefNat(op, x, y) % Pow2(acc'.bits),
         op = "not" => Value(acc') + x = Pow2(acc'.bits) - 1
  PROVE  NumbersInv'
<1>1. last'.type = "bitvec" /\ last'.op = op /\ last'.x = x /\ last'.y = y
  OBVIOUS
<1>2. "bitvec" \notin WordTypes /\ op \notin Comparisons \cup {"new", "succ", "isPowerOfTwo", "sign"}
  BY DEF WordTypes, BitVecOps, Comparisons
<1>3. ExactArithmetic'
  BY <1>1, <1>2 DEF ExactArithmetic, EuclideanDivision
<1>4. BoundedArithmetic'
  BY <1>1, HeldIsBounded DEF BoundedArithmetic
<1>5. last' # Fresh
  BY <1>1 DEF Fresh
<1>. QED
  BY <1>3, <1>4, <1>5 DEF NumbersInv

\* What the size of a range must be.
LEMMA SettlesRange ==
  ASSUME NEW x, NEW y, NEW bits,
         last' = [type |-> "range", op |-> "size", x |-> x, y |-> y, bits |-> bits],
         Holds(acc'), acc'.type # "panic",
         \A i \in 0..Value(acc') : (i < Value(acc')) = (x + i * acc'.bits < y)
  PROVE  NumbersInv'
<1>1. last'.type = "range" /\ last'.op = "size" /\ last'.x = x /\ last'.y = y
  OBVIOUS
<1>2. "range" \notin WordTypes /\ "size" \notin Comparisons
  BY DEF WordTypes, Comparisons
<1>3. ExactArithmetic'
  BY <1>1, <1>2 DEF ExactArithmetic, EuclideanDivision
<1>4. BoundedArithmetic'
  BY <1>1, HeldIsBounded DEF BoundedArithmetic
<1>5. last' # Fresh
  BY <1>1 DEF Fresh
<1>. QED
  BY <1>3, <1>4, <1>5 DEF NumbersInv

-----------------------------------------------------------------------------
\* The operands are of bounded size and of their type.
LEMMA OperandsFit ==
  /\ \A y \in NatOperands : y \in Nat /\ Small(y) /\ BigNatResult(y) = NatRep(y)
  /\ \A y \in Operands : y \in Int /\ Small(y)
  /\ Shifts \subseteq NatOperands
  /\ \A b \in 2..P : \A w \in WordOperands(b) : w \in 0..Pow2(b) - 1
  /\ \A type : \A b \in 2..P : \A w \in 0..Pow2(b) - 1 :
       WordValue(w, type, b) \in Int /\ Small(WordValue(w, type, b)) /\ (~IsSigned(type) => WordValue(w, type, b) = w)
<1>1. \A y \in Operands : y \in Int /\ Small(y)
  BY NumbersAssumption DEF Small
<1>2. \A y \in NatOperands : y \in Operands /\ y \in Nat
  BY <1>1 DEF NatOperands
<1>3. \A y \in NatOperands : y \in Nat /\ Small(y) /\ BigNatResult(y) = NatRep(y)
  BY <1>1, <1>2, NatReps
<1>4. ASSUME NEW b \in 2..P
      PROVE  /\ \A w \in WordOperands(b) : w \in 0..Pow2(b) - 1
             /\ \A type : \A w \in 0..Pow2(b) - 1 :
                  WordValue(w, type, b) \in Int /\ Small(WordValue(w, type, b)) /\ (~IsSigned(type) => WordValue(w, type, b) = w)
  <2>1. b \in Nat /\ b # 0 /\ P \in Nat /\ 2 * P \in Nat /\ b <= 2 * P
    BY WidthsAndBounds
  <2>2. Pow2(b) \in Nat /\ Pow2(b - 1) \in Nat /\ Pow2(b) = 2 * Pow2(b - 1)
    BY <2>1, Words
  <2>3. Pow2(2 * P) \in Nat /\ Pow2(b) <= Pow2(2 * P)
    BY <2>1, Pow2Is, Pow2Grows
  <2>4. ASSUME NEW w \in WordOperands(b)
        PROVE  w \in 0..Pow2(b) - 1
    <3>1. PICK n \in Operands : w = Wrap(n, b)
      BY DEF WordOperands
    <3>. QED BY <1>1, <2>1, <3>1, Words
  <2>5. ASSUME NEW type, NEW w \in 0..Pow2(b) - 1
        PROVE  WordValue(w, type, b) \in Int /\ Small(WordValue(w, type, b)) /\ (~IsSigned(type) => WordValue(w, type, b) = w)
    <3>1. Signed(w, b) \in -Pow2(b - 1)..Pow2(b - 1) - 1
      BY <2>1, Words
    <3>2. Small(w) /\ w \in Int /\ Small(Signed(w, b)) /\ Signed(w, b) \in Int
      BY <2>2, <2>3, <3>1 DEF Small
    <3>. QED BY <3>2 DEF WordValue, IsSigned
  <2>. QED BY <2>4, <2>5
<1>5. Shifts \subseteq NatOperands
  BY DEF Shifts
<1>. QED
  BY <1>1, <1>3, <1>4, <1>5

\* The comparisons.
LEMMA CompareTable ==
  ASSUME NEW x, NEW y
  PROVE  /\ Compare("decEq", x, y) = (x = y)
         /\ Compare("decLt", x, y) = (x < y)
         /\ Compare("decLe", x, y) = (x <= y)
<1>1. Compare("decEq", x, y) = (x = y)
  BY DEF Compare
<1>2. Compare("decLt", x, y) = (x < y)
  BY DEF Compare
<1>3. Compare("decLe", x, y) = (x <= y)
  BY DEF Compare
<1>. QED
  BY <1>1, <1>2, <1>3

\* When a computation begins, what is held is of bounded size.
LEMMA Begins ==
  ASSUME NumbersInv, last = Fresh
  PROVE  Holds(acc) /\ Small(Value(acc))
BY DEF NumbersInv

\* An operation on two Nats.
LEMMA NatOperationKeeps ==
  ASSUME NumbersInv, last = Fresh, acc.type = "nat",
         NEW op \in NatOps \cup NatBitOps \cup NatShifts \cup NatOtherOps, NEW y \in NatOperands,
         Result("nat", NatOp(op, acc.rep, BigNatResult(y))), Record(op, Value(acc), y)
  PROVE  NumbersInv'
<1>1. PICK v \in Nat : acc.rep = NatRep(v) /\ Value(acc) = v
  BY Begins, Held
<1>2. Small(v) /\ y \in Nat /\ BigNatResult(y) = NatRep(y)
  BY <1>1, Begins, OperandsFit
<1> DEFINE z == RefNat(op, v, y)
<1>3. NatOp(op, NatRep(v), NatRep(y)) = NatRep(z) /\ z \in Nat
  BY <1>2, NatOpIsExact
<1>4. acc' = Number("nat", NatRep(z), acc.bits)
  BY <1>1, <1>2, <1>3 DEF Result
<1>. HIDE DEF z
<1>5. Holds(acc') /\ Value(acc') = z /\ acc'.type = "nat"
  <2>1. Number("nat", NatRep(z), acc.bits).type = "nat"
    BY DEF Number
  <2>. QED BY <1>3, <1>4, <2>1, Made
<1>6. last' = [type |-> "nat", op |-> op, x |-> v, y |-> y, bits |-> acc.bits]
  BY <1>1 DEF Record
<1>7. op \notin Comparisons \cup {"new", "sign", "succ", "isPowerOfTwo"}
  BY DEF NatOps, NatBitOps, NatShifts, NatOtherOps, Comparisons
<1>8. Value(acc') = RefNat(op, v, y)
  BY <1>5 DEF z
<1>. QED
  BY <1>5, <1>6, <1>7, <1>8, SettlesNat

\* A number, a truth value, a text or an error that no conjunct is about.
LEMMA NatOtherResultKeeps ==
  ASSUME NEW op \in {"repr", "any", "all", "fold", "toInt", "truncate", "toUInt"}, NEW x, NEW y,
         acc.type = "nat", Record(op, x, y), Holds(acc'), acc'.type # "panic"
  PROVE  NumbersInv'
<1>1. last' = [type |-> "nat", op |-> op, x |-> x, y |-> y, bits |-> acc.bits]
  BY DEF Record
<1>2. op \notin Comparisons \cup NatOps \cup {"new", "sign", "succ", "isPowerOfTwo"}
  BY DEF NatOps, Comparisons
<1>. QED
  BY <1>1, <1>2, SettlesNat

\* Addition to remainder of Nats.
LEMMA NatStepKeeps ==
  ASSUME NumbersInv, last = Fresh, NatStep
  PROVE  NumbersInv'
BY NatOperationKeeps DEF NatStep

\* The bit operations of Nat.
LEMMA NatBitStepKeeps ==
  ASSUME NumbersInv, last = Fresh, NatBitStep
  PROVE  NumbersInv'
<1>1. PICK op \in NatBitOps \cup {"shiftLeft", "shiftRight"} : \E y \in NatOperandsOf(op) :
        Result("nat", NatOp(op, acc.rep, BigNatResult(y))) /\ Record(op, Value(acc), y)
  BY DEF NatBitStep
<1>2. PICK y \in NatOperandsOf(op) : Result("nat", NatOp(op, acc.rep, BigNatResult(y))) /\ Record(op, Value(acc), y)
  BY <1>1
<1>3. op \in NatBitOps \cup NatShifts /\ y \in NatOperands /\ acc.type = "nat"
  BY OperandsFit DEF NatShifts, NatOperandsOf, NatBitStep
<1>. QED
  BY <1>2, <1>3, NatOperationKeeps

\* The other operations of Nat, and the successor.
LEMMA NatOtherStepKeeps ==
  ASSUME NumbersInv, last = Fresh, NatOtherStep
  PROVE  NumbersInv'
<1>1. acc.type = "nat"
  BY DEF NatOtherStep
<1>2. CASE \E op \in NatOtherOps \cup {"pow"} : \E y \in NatOperandsOf(op) :
             Result("nat", NatOp(op, acc.rep, BigNatResult(y))) /\ Record(op, Value(acc), y)
  <2>1. PICK op \in NatOtherOps \cup {"pow"} : \E y \in NatOperandsOf(op) :
          Result("nat", NatOp(op, acc.rep, BigNatResult(y))) /\ Record(op, Value(acc), y)
    BY <1>2
  <2>2. PICK y \in NatOperandsOf(op) : Result("nat", NatOp(op, acc.rep, BigNatResult(y))) /\ Record(op, Value(acc), y)
    BY <2>1
  <2>3. op \in NatOtherOps \cup NatShifts /\ y \in NatOperands
    BY OperandsFit DEF NatShifts, NatOperandsOf
  <2>. QED BY <1>1, <2>2, <2>3, NatOperationKeeps
<1>3. CASE Result("nat", succ(acc.rep)) /\ Record("succ", Value(acc), 0)
  <2>1. PICK v \in Nat : acc.rep = NatRep(v) /\ Value(acc) = v
    BY <1>1, Begins, Held
  <2>2. succ(NatRep(v)) = NatRep(v + 1)
    BY NatReps, NatArithmetic DEF succ
  <2>3. acc' = Number("nat", NatRep(v + 1), acc.bits) /\ v + 1 \in Nat
    BY <1>3, <2>1, <2>2 DEF Result
  <2>4. Holds(acc') /\ Value(acc') = v + 1
    BY <2>3, Made
  <2>5. acc'.type = "nat"
    BY <2>3 DEF Number
  <2>6. last' = [type |-> "nat", op |-> "succ", x |-> v, y |-> 0, bits |-> acc.bits]
    BY <1>1, <1>3, <2>1 DEF Record
  <2>7. "succ" \notin Comparisons \cup NatOps
    BY DEF Comparisons, NatOps
  <2>. QED BY <2>4, <2>5, <2>6, <2>7, SettlesNat
<1>. QED
  BY <1>2, <1>3 DEF NatOtherStep

\* A query of a Nat: the truth value that was asked for.
LEMMA NatQueryResultKeeps ==
  ASSUME NEW op \in Comparisons \cup {"isPowerOfTwo"}, NEW x, NEW y, NEW rep, acc.type = "nat",
         Result("bool", rep), Record(op, x, y),
         op \in Comparisons => rep = Compare(op, x, y),
         op = "isPowerOfTwo" => rep = (Cardinality(Bits(x)) = 1)
  PROVE  NumbersInv'
<1>1. last' = [type |-> "nat", op |-> op, x |-> x, y |-> y, bits |-> acc.bits]
  BY DEF Record
<1>2. op \notin NatOps \cup {"new", "sign", "succ"}
  BY DEF NatOps, Comparisons
<1>3. acc' = Number("bool", rep, acc.bits)
  BY DEF Result
<1>4. acc'.type = "bool" /\ acc'.rep = rep
  BY <1>3 DEF Number
<1>5. Holds(acc')
  BY <1>3, Made
<1>. QED
  BY <1>1, <1>2, <1>4, <1>5, SettlesNat

\* Comparisons, the test for a power of two, and printing.
LEMMA NatQueryKeeps ==
  ASSUME NumbersInv, last = Fresh, NatQuery
  PROVE  NumbersInv'
<1>1. acc.type = "nat"
  BY DEF NatQuery
<1>2. PICK v \in Nat : acc.rep = NatRep(v) /\ Value(acc) = v
  BY <1>1, Begins, Held
<1>3. ASSUME NEW y \in NatOperands
      PROVE  /\ lean_nat_dec_eq(acc.rep, BigNatResult(y)) = Compare("decEq", v, y)
             /\ lean_nat_dec_lt(acc.rep, BigNatResult(y)) = Compare("decLt", v, y)
             /\ lean_nat_dec_le(acc.rep, BigNatResult(y)) = Compare("decLe", v, y)
  <2>1. y \in Nat /\ BigNatResult(y) = NatRep(y)
    BY OperandsFit
  <2>2. /\ lean_nat_dec_eq(NatRep(v), NatRep(y)) = (v = y)
        /\ lean_nat_dec_lt(NatRep(v), NatRep(y)) = (v < y)
        /\ lean_nat_dec_le(NatRep(v), NatRep(y)) = (v <= y)
    BY <2>1, NatArithmetic
  <2>3. /\ lean_nat_dec_eq(acc.rep, BigNatResult(y)) = (v = y)
        /\ lean_nat_dec_lt(acc.rep, BigNatResult(y)) = (v < y)
        /\ lean_nat_dec_le(acc.rep, BigNatResult(y)) = (v <= y)
    BY <1>2, <2>1, <2>2
  <2>. QED BY <2>3, CompareTable
<1>4. isPowerOfTwo(acc.rep) = (Cardinality(Bits(v)) = 1)
  <2>1. isPowerOfTwo(NatRep(v)) \in BOOLEAN
    BY DEF isPowerOfTwo
  <2>2. Small(v)
    BY <1>2, Begins
  <2>3. isPowerOfTwo(NatRep(v)) <=> Cardinality(Bits(v)) = 1
    BY <2>2, PowersOfTwo
  <2>. QED BY <1>2, <2>1, <2>3
<1>5. {"decEq", "decLt", "decLe"} = Comparisons /\ "isPowerOfTwo" \notin Comparisons
  BY DEF Comparisons
<1>6. CASE \E y \in NatOperands :
             \/ Result("bool", lean_nat_dec_eq(acc.rep, BigNatResult(y))) /\ Record("decEq", Value(acc), y)
             \/ Result("bool", lean_nat_dec_lt(acc.rep, BigNatResult(y))) /\ Record("decLt", Value(acc), y)
             \/ Result("bool", lean_nat_dec_le(acc.rep, BigNatResult(y))) /\ Record("decLe", Value(acc), y)
  <2>1. PICK y \in NatOperands :
             \/ Result("bool", lean_nat_dec_eq(acc.rep, BigNatResult(y))) /\ Record("decEq", Value(acc), y)
             \/ Result("bool", lean_nat_dec_lt(acc.rep, BigNatResult(y))) /\ Record("decLt", Value(acc), y)
             \/ Result("bool", lean_nat_dec_le(acc.rep, BigNatResult(y))) /\ Record("decLe", Value(acc), y)
    BY <1>6
  <2>2. CASE Result("bool", lean_nat_dec_eq(acc.rep, BigNatResult(y))) /\ Record("decEq", Value(acc), y)
    BY <1>1, <1>2, <1>3, <1>5, <2>2, NatQueryResultKeeps
  <2>3. CASE Result("bool", lean_nat_dec_lt(acc.rep, BigNatResult(y))) /\ Record("decLt", Value(acc), y)
    BY <1>1, <1>2, <1>3, <1>5, <2>3, NatQueryResultKeeps
  <2>4. CASE Result("bool", lean_nat_dec_le(acc.rep, BigNatResult(y))) /\ Record("decLe", Value(acc), y)
    BY <1>1, <1>2, <1>3, <1>5, <2>4, NatQueryResultKeeps
  <2>. QED BY <2>1, <2>2, <2>3, <2>4
<1>7. CASE Result("bool", isPowerOfTwo(acc.rep)) /\ Record("isPowerOfTwo", Value(acc), 0)
  BY <1>1, <1>2, <1>4, <1>5, <1>7, NatQueryResultKeeps
<1>8. CASE Result("text", to_decimal_string(acc.rep)) /\ Record("repr", Value(acc), 0)
  <2>1. acc' = Number("text", to_decimal_string(acc.rep), acc.bits)
    BY <1>8 DEF Result
  <2>2. acc'.type = "text"
    BY <2>1 DEF Number
  <2>3. Holds(acc')
    BY <2>1, Made
  <2>. QED BY <1>1, <1>8, <2>2, <2>3, NatOtherResultKeeps
<1>. QED
  BY <1>6, <1>7, <1>8 DEF NatQuery

\* The loops over the numbers below a Nat.
LEMMA NatLoopKeeps ==
  ASSUME NumbersInv, last = Fresh, NatLoop
  PROVE  NumbersInv'
<1>1. acc.type = "nat"
  BY DEF NatLoop
<1>2. ASSUME NEW op \in {"any", "all"}, NEW rep, NEW k, Result("bool", rep), Record(op, Value(acc), k)
      PROVE  NumbersInv'
  <2>1. acc' = Number("bool", rep, acc.bits)
    BY <1>2 DEF Result
  <2>2. acc'.type = "bool"
    BY <2>1 DEF Number
  <2>3. Holds(acc')
    BY <2>1, Made
  <2>. QED BY <1>1, <1>2, <2>2, <2>3, NatOtherResultKeeps
<1>3. CASE Result("nat", lean_usize_to_nat(NatFold(acc.rep))) /\ Record("fold", Value(acc), 0)
  <2>1. PICK v \in Nat : acc.rep = NatRep(v)
    BY <1>1, Begins, Held
  <2> DEFINE n == NatFold(acc.rep)
  <2>2. n \in Nat
    BY <2>1, FoldIsNat
  <2>. HIDE DEF n
  <2>3. acc' = Number("nat", NatRep(n), acc.bits)
    BY <1>3, <2>2, NatReps DEF Result, n
  <2>4. Holds(acc')
    BY <2>2, <2>3, Made
  <2>5. acc'.type = "nat"
    BY <2>3 DEF Number
  <2>. QED BY <1>1, <1>3, <2>4, <2>5, NatOtherResultKeeps
<1>. QED
  BY <1>2, <1>3 DEF NatLoop

\* An Int becomes another Int.
LEMMA IntResult ==
  ASSUME NEW z \in Int, Result("int", BigIntResult(z))
  PROVE  Holds(acc') /\ Value(acc') = z /\ acc'.type = "int"
<1>1. acc' = Number("int", BigIntResult(z), acc.bits)
  BY DEF Result
<1>2. acc'.type = "int"
  BY <1>1 DEF Number
<1>. QED
  BY <1>1, <1>2, Made

\* An operation gives a Nat.
LEMMA NatResult ==
  ASSUME NEW z \in Nat, Result("nat", NatRep(z))
  PROVE  Holds(acc') /\ Value(acc') = z /\ acc'.type = "nat"
<1>1. acc' = Number("nat", NatRep(z), acc.bits)
  BY DEF Result
<1>2. acc'.type = "nat"
  BY <1>1 DEF Number
<1>. QED
  BY <1>1, <1>2, Made

\* An operation gives neither a number nor a panic.
LEMMA OtherResult ==
  ASSUME NEW type \in {"bool", "sign", "text", "char", "error"}, NEW rep, Result(type, rep)
  PROVE  Holds(acc') /\ acc'.type = type /\ acc'.rep = rep
<1>1. acc' = Number(type, rep, acc.bits)
  BY DEF Result
<1>2. acc'.type = type /\ acc'.rep = rep
  BY <1>1 DEF Number
<1>. QED
  BY <1>1, <1>2, Made

\* Arithmetic of Ints.
LEMMA IntStepKeeps ==
  ASSUME NumbersInv, last = Fresh, IntStep
  PROVE  NumbersInv'
<1>1. acc.type = "int"
  BY DEF IntStep
<1>2. PICK op \in IntOps \cup {"neg"}, y \in Operands :
        /\ Result("int", IF op = "neg" THEN lean_int_neg(acc.rep) ELSE IntOp(op, acc.rep, BigIntResult(y)))
        /\ Record(op, Value(acc), y)
  BY DEF IntStep
<1>3. PICK x \in Int : acc.rep = BigIntResult(x) /\ Value(acc) = x
  BY <1>1, Begins, Held
<1>4. y \in Int
  BY OperandsFit
<1>5. last' = [type |-> "int", op |-> op, x |-> x, y |-> y, bits |-> acc.bits]
  BY <1>1, <1>2, <1>3 DEF Record
<1>6. op \notin Comparisons \cup {"new", "succ", "isPowerOfTwo", "sign"}
  BY DEF IntOps, Comparisons
<1>7. CASE op = "neg"
  <2>1. Result("int", BigIntResult(-x)) /\ -x \in Int
    BY <1>2, <1>3, <1>7, IntConversions
  <2>2. Holds(acc') /\ Value(acc') = -x /\ acc'.type = "int"
    BY <2>1, IntResult
  <2>. QED BY <1>5, <1>6, <1>7, <2>2, SettlesInt
<1>8. CASE op # "neg"
  <2>1. op \in IntOps
    BY <1>8
  <2>2. PICK v \in Int : /\ IntOp(op, BigIntResult(x), BigIntResult(y)) = BigIntResult(v)
                         /\ op \in {"add", "sub", "mul", "div", "mod"} \/ y > 0 => v = RefInt(op, x, y)
    BY <1>4, <2>1, IntOpIsExact
  <2>3. Result("int", BigIntResult(v))
    BY <1>2, <1>3, <1>8, <2>2
  <2>4. Holds(acc') /\ Value(acc') = v /\ acc'.type = "int"
    BY <2>3, IntResult
  <2>. QED BY <1>5, <1>6, <1>8, <2>2, <2>4, SettlesInt
<1>. QED
  BY <1>7, <1>8

\* Comparisons of Ints, and the sign.
LEMMA IntQueryKeeps ==
  ASSUME NumbersInv, last = Fresh, IntQuery
  PROVE  NumbersInv'
<1>1. acc.type = "int"
  BY DEF IntQuery
<1>2. PICK x \in Int : acc.rep = BigIntResult(x) /\ Value(acc) = x
  BY <1>1, Begins, Held
<1>3. ASSUME NEW op \in Comparisons, NEW y, NEW rep, Result("bool", rep), Record(op, Value(acc), y), rep = Compare(op, x, y)
      PROVE  NumbersInv'
  <2>1. last' = [type |-> "int", op |-> op, x |-> x, y |-> y, bits |-> acc.bits]
    BY <1>1, <1>2, <1>3 DEF Record
  <2>2. op \notin IntOps \cup {"neg", "new", "succ", "isPowerOfTwo", "sign"}
    BY DEF IntOps, Comparisons
  <2>3. op \notin {"add", "sub", "mul", "div", "mod", "ediv", "emod"}
    BY <2>2 DEF IntOps
  <2>4. Holds(acc') /\ acc'.type = "bool" /\ acc'.rep = rep
    BY <1>3, OtherResult
  <2>. QED BY <1>3, <2>1, <2>2, <2>3, <2>4, SettlesInt
<1>4. ASSUME NEW y \in Operands
      PROVE  /\ lean_int_eq(acc.rep, BigIntResult(y)) = Compare("decEq", x, y)
             /\ lean_int_lt(acc.rep, BigIntResult(y)) = Compare("decLt", x, y)
             /\ lean_int_le(acc.rep, BigIntResult(y)) = Compare("decLe", x, y)
  <2>1. y \in Int
    BY OperandsFit
  <2>2. /\ lean_int_eq(BigIntResult(x), BigIntResult(y)) <=> x = y
        /\ lean_int_lt(BigIntResult(x), BigIntResult(y)) <=> x < y
        /\ lean_int_le(BigIntResult(x), BigIntResult(y)) <=> x <= y
    BY <2>1, IntComparisons
  <2>3. lean_int_eq(BigIntResult(x), BigIntResult(y)) \in BOOLEAN
    BY DEF lean_int_eq
  <2>4. IntValue(BigIntResult(x)) = x /\ IntValue(BigIntResult(y)) = y
    BY <2>1, IntReps
  <2>5. lean_int_lt(BigIntResult(x), BigIntResult(y)) = (x < y) /\ lean_int_le(BigIntResult(x), BigIntResult(y)) = (x <= y)
    BY <2>4 DEF lean_int_lt, lean_int_le
  <2>6. lean_int_eq(BigIntResult(x), BigIntResult(y)) = (x = y)
    BY <2>2, <2>3
  <2>. QED BY <1>2, <2>5, <2>6, CompareTable
<1>5. "decEq" \in Comparisons /\ "decLt" \in Comparisons /\ "decLe" \in Comparisons
  BY DEF Comparisons
<1>6. ASSUME NEW y \in Operands,
             \/ Result("bool", lean_int_eq(acc.rep, BigIntResult(y))) /\ Record("decEq", Value(acc), y)
             \/ Result("bool", lean_int_lt(acc.rep, BigIntResult(y))) /\ Record("decLt", Value(acc), y)
             \/ Result("bool", lean_int_le(acc.rep, BigIntResult(y))) /\ Record("decLe", Value(acc), y)
      PROVE  NumbersInv'
  <2>1. CASE Result("bool", lean_int_eq(acc.rep, BigIntResult(y))) /\ Record("decEq", Value(acc), y)
    BY <1>3, <1>4, <1>5, <2>1
  <2>2. CASE Result("bool", lean_int_lt(acc.rep, BigIntResult(y))) /\ Record("decLt", Value(acc), y)
    BY <1>3, <1>4, <1>5, <2>2
  <2>3. CASE Result("bool", lean_int_le(acc.rep, BigIntResult(y))) /\ Record("decLe", Value(acc), y)
    BY <1>3, <1>4, <1>5, <2>3
  <2>. QED BY <1>6, <2>1, <2>2, <2>3
<1>7. CASE Result("sign", IntSign(acc.rep)) /\ Record("sign", Value(acc), 0)
  <2> DEFINE s == IF x > 0 THEN 1 ELSE IF x < 0 THEN -1 ELSE 0
  <2>1. IntSign(acc.rep) = s
    BY <1>2, IntConversions
  <2>2. s * AbsV(x) = x /\ s \in {-1, 0, 1}
    BY DEF AbsV
  <2>. HIDE DEF s
  <2>3. Holds(acc') /\ acc'.type = "sign" /\ acc'.rep = s
    BY <1>7, <2>1, OtherResult
  <2>4. last' = [type |-> "int", op |-> "sign", x |-> x, y |-> 0, bits |-> acc.bits]
    BY <1>1, <1>2, <1>7 DEF Record
  <2>5. "sign" \notin Comparisons
    BY DEF Comparisons
  <2>. QED BY <2>2, <2>3, <2>4, <2>5, SettlesInt
<1>. QED
  BY <1>6, <1>7 DEF IntQuery

\* A Nat becomes an Int.
LEMMA NatToIntKeeps ==
  ASSUME NumbersInv, last = Fresh, NatToInt
  PROVE  NumbersInv'
<1>1. acc.type = "nat" /\ Result("int", lean_nat_to_int(acc.rep)) /\ Record("toInt", Value(acc), 0)
  BY DEF NatToInt
<1>2. PICK v \in Nat : acc.rep = NatRep(v)
  BY <1>1, Begins, Held
<1>3. Result("int", BigIntResult(v)) /\ v \in Int
  BY <1>1, <1>2, IntConversions
<1>4. Holds(acc') /\ acc'.type = "int"
  BY <1>3, IntResult
<1>. QED
  BY <1>1, <1>4, NatOtherResultKeeps

\* An Int becomes a Nat, or an error.
LEMMA IntToNatKeeps ==
  ASSUME NumbersInv, last = Fresh, IntToNat
  PROVE  NumbersInv'
<1>1. acc.type = "int"
  BY DEF IntToNat
<1>2. PICK x \in Int : acc.rep = BigIntResult(x) /\ Value(acc) = x
  BY <1>1, Begins, Held
<1>3. ASSUME NEW op \in {"natAbs", "toNat", "toNatOption"}, Record(op, Value(acc), 0), Holds(acc'), acc'.type # "panic"
      PROVE  NumbersInv'
  <2>1. last' = [type |-> "int", op |-> op, x |-> x, y |-> 0, bits |-> acc.bits]
    BY <1>1, <1>2, <1>3 DEF Record
  <2>2. op \notin Comparisons
    BY DEF Comparisons
  <2>. QED BY <1>3, <2>1, <2>2, SettlesInt
<1> DEFINE n == IF x >= 0 THEN AbsV(x) ELSE 0
<1>4. natAbs(acc.rep) = NatRep(AbsV(x)) /\ AbsV(x) \in Nat /\ toNat(acc.rep) = NatRep(n)
  BY <1>2, IntConversions
<1>5. n \in Nat
  BY <1>4
<1>. HIDE DEF n
<1>6. CASE Result("nat", natAbs(acc.rep)) /\ Record("natAbs", Value(acc), 0)
  <2>1. Holds(acc') /\ acc'.type = "nat"
    BY <1>4, <1>6, NatResult
  <2>. QED BY <1>3, <1>6, <2>1
<1>7. CASE Result("nat", toNat(acc.rep)) /\ Record("toNat", Value(acc), 0)
  <2>1. Holds(acc') /\ acc'.type = "nat"
    BY <1>4, <1>5, <1>7, NatResult
  <2>. QED BY <1>3, <1>7, <2>1
<1>8. CASE /\ IF isNonNeg(acc.rep) THEN Result("nat", natAbs(acc.rep)) ELSE Result("error", 0)
           /\ Record("toNatOption", Value(acc), 0)
  <2>1. CASE Result("nat", natAbs(acc.rep))
    <3>1. Holds(acc') /\ acc'.type = "nat"
      BY <1>4, <2>1, NatResult
    <3>. QED BY <1>3, <1>8, <3>1
  <2>2. CASE Result("error", 0)
    <3>1. Holds(acc') /\ acc'.type = "error"
      BY <2>2, OtherResult
    <3>. QED BY <1>3, <1>8, <3>1
  <2>. QED BY <1>8, <2>1, <2>2
<1>. QED
  BY <1>6, <1>7, <1>8 DEF IntToNat

\* A word that is held.
LEMMA HeldWord ==
  ASSUME NumbersInv, last = Fresh, acc.type \in WordTypes
  PROVE  /\ acc.bits \in WidthsOf(acc.type) /\ acc.bits \in 2..P
         /\ acc.rep.w \in 0..Pow2(acc.bits) - 1
         /\ Value(acc) = WordValue(acc.rep.w, acc.type, acc.bits) /\ Value(acc) \in Int
<1>1. acc.bits \in WidthsOf(acc.type) /\ acc.bits \in 2..P
  BY Begins, Held
<1>2. PICK w \in 0..Pow2(acc.bits) - 1 : acc.rep.w = w /\ Value(acc) = WordValue(w, acc.type, acc.bits)
  BY Begins, Held
<1>. QED
  BY <1>1, <1>2, OperandsFit

\* An operation gives a word.
LEMMA WordResult ==
  ASSUME NEW type \in WordTypes, NEW bits \in WidthsOf(type), NEW w \in 0..Pow2(bits) - 1,
         acc' = Number(type, mk(w, bits), bits)
  PROVE  Holds(acc') /\ Value(acc') = WordValue(w, type, bits) /\ acc'.type = type /\ acc'.bits = bits
<1>1. Number(type, mk(w, bits), bits).type = type /\ Number(type, mk(w, bits), bits).bits = bits
  BY DEF Number
<1>. QED
  BY <1>1, Made

\* An operation of one of the word types.
LEMMA WordStepKeeps ==
  ASSUME NumbersInv, last = Fresh, NEW type \in WordTypes, NEW boxed, WordStep(type, boxed)
  PROVE  NumbersInv'
<1>1. acc.type = type
  BY DEF WordStep
<1> DEFINE b == acc.bits
           a == acc.rep.w
<1>2. PICK op \in IF IsSigned(type) THEN SIntOps ELSE UIntOps, w \in WordOperands(b) :
        /\ \/ IsSigned(type) /\ SIntPanics(op, a, w, b) /\ Result("panic", 0)
           \/ IsSigned(type) /\ ~SIntPanics(op, a, w, b) /\ Result(type, mk(SIntOp(op, a, w, b), b))
           \/ ~IsSigned(type) /\ Result(type, mk(UIntOp(op, a, w, b), b))
        /\ Record(op, Value(acc), WordValue(w, type, b))
  BY DEF WordStep
<1>3. b \in WidthsOf(type) /\ b \in 2..P /\ a \in 0..Pow2(b) - 1 /\ Value(acc) = WordValue(a, type, b)
  BY <1>1, HeldWord
<1>4. w \in 0..Pow2(b) - 1
  BY <1>3, OperandsFit
<1> DEFINE x == WordValue(a, type, b)
           y == WordValue(w, type, b)
<1>5. last' = [type |-> type, op |-> op, x |-> x, y |-> y, bits |-> b]
  BY <1>1, <1>2, <1>3 DEF Record
<1>6. op \notin Comparisons \cup {"new", "succ", "isPowerOfTwo", "sign", "cast"} /\ op \in UIntOps \cup SIntOps
  BY DEF SIntOps, UIntOps, Comparisons
<1>7. type # "panic"
  BY DEF WordTypes
<1>8. IsSigned(type) => x = Signed(a, b) /\ y = Signed(w, b)
  BY DEF WordValue, IsSigned
<1>9. ~IsSigned(type) => x = a /\ y = w
  BY DEF WordValue, IsSigned
<1>10. ASSUME NEW rep, Result(type, rep)
       PROVE  acc' = Number(type, rep, b)
  BY <1>10 DEF Result
<1>11. CASE IsSigned(type) /\ SIntPanics(op, a, w, b) /\ Result("panic", 0)
  <2>1. acc' = Number("panic", 0, b)
    BY <1>11 DEF Result
  <2>2. acc'.type = "panic" /\ acc'.bits = b
    BY <2>1 DEF Number
  <2>3. Holds(acc')
    BY <2>1, Made
  <2>4. op \in {"div", "mod"} /\ x = -(Pow2(b - 1)) /\ y = -1
    BY <1>8, <1>11 DEF SIntPanics
  <2>. HIDE DEF x, y
  <2>. QED BY <1>5, <1>6, <1>7, <2>2, <2>3, <2>4, SettlesWord
<1>12. CASE IsSigned(type) /\ ~SIntPanics(op, a, w, b) /\ Result(type, mk(SIntOp(op, a, w, b), b))
  <2>1. op \in SIntOps
    BY <1>2, <1>12
  <2>2. SIntOp(op, a, w, b) \in 0..Pow2(b) - 1 /\ Signed(SIntOp(op, a, w, b), b) = RefWord(op, x, y, type, b)
    BY <1>3, <1>4, <1>8, <1>12, <2>1, SignedWords
  <2>3. acc' = Number(type, mk(SIntOp(op, a, w, b), b), b)
    BY <1>10, <1>12
  <2>4. Holds(acc') /\ Value(acc') = WordValue(SIntOp(op, a, w, b), type, b) /\ acc'.type = type /\ acc'.bits = b
    BY <1>3, <2>2, <2>3, WordResult
  <2>5. Value(acc') = RefWord(op, x, y, type, acc'.bits)
    BY <1>12, <2>2, <2>4 DEF WordValue, IsSigned
  <2>. HIDE DEF x, y
  <2>. QED BY <1>5, <1>6, <1>7, <2>4, <2>5, SettlesWord
<1>13. CASE ~IsSigned(type) /\ Result(type, mk(UIntOp(op, a, w, b), b))
  <2>1. op \in UIntOps
    BY <1>2, <1>13
  <2>2. UIntOp(op, a, w, b) \in 0..Pow2(b) - 1 /\ RefWord(op, x, y, type, b) = UIntOp(op, a, w, b)
    BY <1>3, <1>4, <1>9, <1>13, <2>1, UnsignedWords
  <2>3. acc' = Number(type, mk(UIntOp(op, a, w, b), b), b)
    BY <1>10, <1>13
  <2>4. Holds(acc') /\ Value(acc') = WordValue(UIntOp(op, a, w, b), type, b) /\ acc'.type = type /\ acc'.bits = b
    BY <1>3, <2>2, <2>3, WordResult
  <2>5. Value(acc') = RefWord(op, x, y, type, acc'.bits)
    BY <1>13, <2>2, <2>4 DEF WordValue, IsSigned
  <2>. HIDE DEF x, y
  <2>. QED BY <1>5, <1>6, <1>7, <2>4, <2>5, SettlesWord
<1>. QED
  BY <1>2, <1>11, <1>12, <1>13

\* A word becomes something that no conjunct is about.
LEMMA WordOtherResultKeeps ==
  ASSUME NEW op \in {"toChar", "cast", "toNat", "toInt"}, NEW x, NEW y, acc.type \in WordTypes, Record(op, x, y),
         Holds(acc'), acc'.type # "panic", op # "cast" => acc'.type \notin WordTypes
  PROVE  NumbersInv'
<1>1. last' = [type |-> acc.type, op |-> op, x |-> x, y |-> y, bits |-> acc.bits]
  BY DEF Record
<1>2. op \notin Comparisons \cup {"new", "succ", "isPowerOfTwo", "sign"}
  BY DEF Comparisons
<1>. QED
  BY <1>1, <1>2, SettlesWord

\* Comparisons of words, and the test for a character.
LEMMA WordQueryKeeps ==
  ASSUME NumbersInv, last = Fresh, WordQuery
  PROVE  NumbersInv'
<1>1. acc.type \in WordTypes
  BY DEF WordQuery
<1>2. CASE \E op \in Comparisons, w \in WordOperands(acc.bits) :
             /\ Result("bool", WordCompare(op, acc.rep.w, w, acc.type, acc.bits))
             /\ Record(op, Value(acc), WordValue(w, acc.type, acc.bits))
  <2>1. PICK op \in Comparisons, w \in WordOperands(acc.bits) :
             /\ Result("bool", WordCompare(op, acc.rep.w, w, acc.type, acc.bits))
             /\ Record(op, Value(acc), WordValue(w, acc.type, acc.bits))
    BY <1>2
  <2> DEFINE y == WordValue(w, acc.type, acc.bits)
  <2>2. WordCompare(op, acc.rep.w, w, acc.type, acc.bits) = Compare(op, Value(acc), y)
    BY <1>1, HeldWord DEF WordCompare
  <2>3. Holds(acc') /\ acc'.type = "bool" /\ acc'.rep = Compare(op, Value(acc), y)
    BY <2>1, <2>2, OtherResult
  <2>4. last' = [type |-> acc.type, op |-> op, x |-> Value(acc), y |-> y, bits |-> acc.bits]
    BY <2>1 DEF Record
  <2>5. op \notin {"new", "succ", "isPowerOfTwo", "sign"} /\ acc'.type \notin WordTypes
    BY <2>3 DEF Comparisons, WordTypes
  <2>. HIDE DEF y
  <2>. QED BY <1>1, <2>3, <2>4, <2>5, SettlesWord
<1>3. CASE /\ IF isValidChar(Value(acc)) THEN Result("char", Value(acc)) ELSE Result("error", 0)
           /\ Record("toChar", Value(acc), 0)
  <2>1. Holds(acc') /\ acc'.type \in {"char", "error"}
    BY <1>3, OtherResult
  <2>2. acc'.type \notin WordTypes
    BY <2>1 DEF WordTypes
  <2>. QED BY <1>1, <1>3, <2>1, <2>2, WordOtherResultKeeps
<1>. QED
  BY <1>2, <1>3 DEF WordQuery

\* A word is cut or extended to another width.
LEMMA WordCastKeeps ==
  ASSUME NumbersInv, last = Fresh, WordCast
  PROVE  NumbersInv'
<1>1. acc.type \in WordTypes /\ Record("cast", Value(acc), 0)
  BY DEF WordCast
<1>2. PICK type \in WordTypes : \E bits \in WidthsOf(type) :
        acc' = Number(type, mk(Cast(acc.rep.w, acc.type, acc.bits, bits), bits), bits)
  BY DEF WordCast
<1>3. PICK bits \in WidthsOf(type) : acc' = Number(type, mk(Cast(acc.rep.w, acc.type, acc.bits, bits), bits), bits)
  BY <1>2
<1>4. bits \in Nat /\ bits # 0
  BY WidthsAndBounds
<1>5. Cast(acc.rep.w, acc.type, acc.bits, bits) \in 0..Pow2(bits) - 1
  BY <1>1, <1>4, HeldWord, Words DEF Cast
<1>6. Holds(acc') /\ acc'.type = type
  BY <1>3, <1>5, WordResult
<1>7. acc'.type # "panic"
  BY <1>6 DEF WordTypes
<1>. QED
  BY <1>1, <1>6, <1>7, WordOtherResultKeeps

\* A word becomes a Nat or an Int.
LEMMA WordToNatOrIntKeeps ==
  ASSUME NumbersInv, last = Fresh, WordToNatOrInt
  PROVE  NumbersInv'
<1>1. acc.type \in WordTypes
  BY DEF WordToNatOrInt
<1> DEFINE w == acc.rep.w
<1>2. w \in Nat /\ Signed(w, acc.bits) \in Int
  <2>1. acc.bits \in Nat /\ acc.bits # 0 /\ w \in 0..Pow2(acc.bits) - 1
    BY <1>1, HeldWord, WidthsAndBounds
  <2>2. Signed(w, acc.bits) \in -Pow2(acc.bits - 1)..Pow2(acc.bits - 1) - 1
    BY <2>1, Words
  <2>. QED BY <2>1, <2>2
<1>3. UIntToNat(w) = NatRep(w) /\ UIntToInt(w) = BigIntResult(w) /\ w \in Int
  BY <1>2, NatReps, IntConversions DEF UIntToNat, UIntToInt
<1>4. SIntToInt(w, acc.bits) = BigIntResult(Signed(w, acc.bits))
  BY <1>2, IntReps DEF SIntToInt
<1>5. Result("nat", UIntToNat(w)) => Holds(acc') /\ acc'.type = "nat"
  BY <1>2, <1>3, NatResult
<1>6. Result("int", UIntToInt(w)) => Holds(acc') /\ acc'.type = "int"
  BY <1>3, IntResult
<1>7. Result("int", SIntToInt(w, acc.bits)) => Holds(acc') /\ acc'.type = "int"
  BY <1>2, <1>4, IntResult
<1>8. Result("error", 0) => Holds(acc') /\ acc'.type = "error"
  BY OtherResult
<1>9. Holds(acc') /\ acc'.type \in {"nat", "int", "error"}
  BY <1>5, <1>6, <1>7, <1>8 DEF WordToNatOrInt
<1>10. acc'.type \notin WordTypes /\ acc'.type # "panic"
  BY <1>9 DEF WordTypes
<1>11. Record("toNat", Value(acc), 0) \/ Record("toInt", Value(acc), 0)
  BY DEF WordToNatOrInt
<1>. QED
  BY <1>1, <1>9, <1>10, <1>11, WordOtherResultKeeps

\* A Nat or an Int becomes a word.
LEMMA NatOrIntToWordKeeps ==
  ASSUME NumbersInv, last = Fresh, NatOrIntToWord
  PROVE  NumbersInv'
<1>1. PICK type \in WordTypes : \E bits \in WidthsOf(type) :
        /\ \/ acc.type = "nat" /\ acc' = Number(type, mk(UIntOfNat(acc.rep, bits), bits), bits)
           \/ acc.type = "int" /\ acc' = Number(type, mk(OfInt(acc.rep, bits), bits), bits)
        /\ Record("truncate", Value(acc), 0)
  BY DEF NatOrIntToWord
<1>2. PICK bits \in WidthsOf(type) :
        /\ \/ acc.type = "nat" /\ acc' = Number(type, mk(UIntOfNat(acc.rep, bits), bits), bits)
           \/ acc.type = "int" /\ acc' = Number(type, mk(OfInt(acc.rep, bits), bits), bits)
        /\ Record("truncate", Value(acc), 0)
  BY <1>1
<1>3. bits \in Nat /\ bits # 0 /\ type # "panic"
  BY WidthsAndBounds DEF WordTypes
<1>4. CASE acc.type = "nat" /\ acc' = Number(type, mk(UIntOfNat(acc.rep, bits), bits), bits)
  <2>1. PICK v \in Nat : acc.rep = NatRep(v)
    BY <1>4, Begins, Held
  <2>2. acc.rep.w \in Int
    BY <2>1, NatReps
  <2>3. UIntOfNat(acc.rep, bits) \in 0..Pow2(bits) - 1
    BY <1>3, <2>2, Words DEF UIntOfNat
  <2>4. Holds(acc') /\ acc'.type = type
    BY <1>4, <2>3, WordResult
  <2>. QED BY <1>2, <1>3, <1>4, <2>4, NatOtherResultKeeps
<1>5. CASE acc.type = "int" /\ acc' = Number(type, mk(OfInt(acc.rep, bits), bits), bits)
  <2>1. PICK v \in Int : acc.rep = BigIntResult(v)
    BY <1>5, Begins, Held
  <2>2. IntValue(acc.rep) \in Int
    BY <2>1, IntReps
  <2> DEFINE z == IF FitsI64(acc.rep) THEN IntValue(acc.rep) ELSE 0
  <2>3. z \in Int /\ OfInt(acc.rep, bits) = Wrap(z, bits)
    BY <2>2 DEF OfInt
  <2>. HIDE DEF z
  <2>4. OfInt(acc.rep, bits) \in 0..Pow2(bits) - 1
    BY <1>3, <2>3, Words
  <2>5. Holds(acc') /\ acc'.type = type
    BY <1>5, <2>4, WordResult
  <2>6. last' = [type |-> "int", op |-> "truncate", x |-> Value(acc), y |-> 0, bits |-> acc.bits]
    BY <1>2, <1>5 DEF Record
  <2>7. "truncate" \notin Comparisons
    BY DEF Comparisons
  <2>. QED BY <1>3, <2>5, <2>6, <2>7, SettlesInt
<1>. QED
  BY <1>2, <1>4, <1>5

\* A Nat becomes a word or an error.
LEMMA NatToUIntCheckedKeeps ==
  ASSUME NumbersInv, last = Fresh, NatToUIntChecked
  PROVE  NumbersInv'
<1>1. acc.type = "nat" /\ Record("toUInt", Value(acc), 0)
  BY DEF NatToUIntChecked
<1>2. PICK bits \in Widths :
        acc' = IF acc.rep.small /\ acc.rep.w >= Pow2(bits)
               THEN Number("error", 0, bits) ELSE Number("uint", mk(Wrap(acc.rep.w, bits), bits), bits)
  BY DEF NatToUIntChecked
<1>3. bits \in Nat /\ bits # 0 /\ "uint" \in WordTypes /\ bits \in WidthsOf("uint")
  BY WidthsAndBounds DEF WordTypes, WidthsOf
<1>4. PICK v \in Nat : acc.rep = NatRep(v)
  BY <1>1, Begins, Held
<1>5. acc.rep.w \in Int
  BY <1>4, NatReps
<1>6. CASE acc' = Number("error", 0, bits)
  <2>1. acc'.type = "error"
    BY <1>6 DEF Number
  <2>2. Holds(acc')
    BY <1>6, Made
  <2>. QED BY <1>1, <2>1, <2>2, NatOtherResultKeeps
<1>7. CASE acc' = Number("uint", mk(Wrap(acc.rep.w, bits), bits), bits)
  <2>1. Wrap(acc.rep.w, bits) \in 0..Pow2(bits) - 1
    BY <1>3, <1>5, Words
  <2>2. Holds(acc') /\ acc'.type = "uint"
    BY <1>3, <1>7, <2>1, WordResult
  <2>. QED BY <1>1, <2>2, NatOtherResultKeeps
<1>. QED
  BY <1>2, <1>6, <1>7

\* Arithmetic modulo the bound of Fin.
LEMMA FinStepKeeps ==
  ASSUME NumbersInv, last = Fresh, FinStep
  PROVE  NumbersInv'
<1>1. acc.type = "fin"
  BY DEF FinStep
<1> DEFINE n == acc.bits
<1>2. PICK op \in FinOps, y \in 0..n - 1 :
        /\ Result("fin", FinOp(op, acc.rep, BigNatResult(y), BigNatResult(n)))
        /\ Record(op, Value(acc), y)
  BY DEF FinStep
<1>3. n \in Bounds /\ n \in Nat /\ n # 0
  BY <1>1, Begins, Held, WidthsAndBounds
<1>4. PICK x \in 0..n - 1 : acc.rep = NatRep(x) /\ Value(acc) = x
  BY <1>1, Begins, Held
<1>5. Small(x) /\ BigNatResult(y) = NatRep(y) /\ BigNatResult(n) = NatRep(n)
  <2>1. y \in Nat
    BY <1>3
  <2>. QED BY <1>3, <1>4, <2>1, Begins, NatReps
<1>6. PICK v \in 0..n - 1 :
        /\ FinOp(op, NatRep(x), NatRep(y), NatRep(n)) = NatRep(v)
        /\ op \in {"add", "sub", "mul"} => v = RefInt(op, x, y) % n
        /\ op \in NatBitOps \cup NatShifts => v = RefNat(op, x, y) % n
  BY <1>3, <1>5, FinOpIsExact
<1>7. acc' = Number("fin", NatRep(v), n)
  BY <1>2, <1>4, <1>5, <1>6 DEF Result
<1>8. Holds(acc') /\ Value(acc') = v
  BY <1>3, <1>7, Made
<1>9. acc'.type = "fin" /\ acc'.bits = n
  BY <1>7 DEF Number
<1>10. last' = [type |-> "fin", op |-> op, x |-> x, y |-> y, bits |-> n]
  BY <1>1, <1>2, <1>4 DEF Record
<1>. QED
  BY <1>6, <1>8, <1>9, <1>10, SettlesFin

\* Arithmetic of bit vectors.
LEMMA BitVecStepKeeps ==
  ASSUME NumbersInv, last = Fresh, BitVecStep
  PROVE  NumbersInv'
<1>1. acc.type = "bitvec"
  BY DEF BitVecStep
<1> DEFINE b == acc.bits
<1>2. PICK op \in BitVecOps, y \in WordOperands(b) \cup Shifts :
        /\ y \in IF op \in NatShifts THEN Shifts ELSE WordOperands(b)
        /\ Result("bitvec", BitVecOp(op, acc.rep, BigNatResult(y), b))
        /\ Record(op, Value(acc), y)
  BY DEF BitVecStep
<1>3. b \in Widths /\ b \in 2..P /\ Pow2(b) \in Nat
  BY <1>1, Begins, Held, WidthsAndBounds
<1>4. PICK x \in 0..Pow2(b) - 1 : acc.rep = NatRep(x) /\ Value(acc) = x
  BY <1>1, Begins, Held
<1>5. y \in Nat /\ (op \notin NatShifts => y < Pow2(b))
  <2>1. CASE op \in NatShifts
    <3>1. y \in Shifts
      BY <1>2, <2>1
    <3>. QED BY <2>1, <3>1, OperandsFit
  <2>2. CASE op \notin NatShifts
    <3>1. y \in 0..Pow2(b) - 1
      BY <1>2, <1>3, <2>2, OperandsFit
    <3>. QED BY <1>3, <3>1
  <2>. QED BY <2>1, <2>2
<1>6. Small(x) /\ BigNatResult(y) = NatRep(y)
  BY <1>4, <1>5, Begins, NatReps
<1>7. PICK v \in 0..Pow2(b) - 1 :
        /\ BitVecOp(op, NatRep(x), NatRep(y), b) = NatRep(v)
        /\ op \in {"add", "sub", "mul"} => v = Wrap(RefInt(op, x, y), b)
        /\ op \in NatBitOps \cup NatShifts => v = RefNat(op, x, y) % Pow2(b)
        /\ op = "not" => v + x = Pow2(b) - 1
  BY <1>3, <1>5, <1>6, BitVecOpIsExact
<1>8. acc' = Number("bitvec", NatRep(v), b)
  BY <1>2, <1>4, <1>6, <1>7 DEF Result
<1>9. Holds(acc') /\ Value(acc') = v
  BY <1>3, <1>8, Made
<1>10. acc'.type = "bitvec" /\ acc'.bits = b
  BY <1>8 DEF Number
<1>11. last' = [type |-> "bitvec", op |-> op, x |-> x, y |-> y, bits |-> b]
  BY <1>1, <1>2, <1>4 DEF Record
<1>. QED
  BY <1>7, <1>9, <1>10, <1>11, SettlesBitVec

\* The Nat of a Fin or a BitVec.
LEMMA BoundedToNatKeeps ==
  ASSUME NumbersInv, last = Fresh, BoundedToNat
  PROVE  NumbersInv'
<1>1. acc.type \in {"fin", "bitvec"} /\ Result("nat", acc.rep) /\ Record("toNat", Value(acc), 0)
  BY DEF BoundedToNat
<1>2. \E v \in Nat : acc.rep = NatRep(v)
  <2>1. CASE acc.type = "fin"
    <3>1. acc.bits \in Nat /\ \E v \in 0..acc.bits - 1 : acc.rep = NatRep(v)
      BY <2>1, Begins, Held, WidthsAndBounds
    <3>. QED BY <3>1
  <2>2. CASE acc.type = "bitvec"
    <3>1. \E v \in 0..Pow2(acc.bits) - 1 : acc.rep = NatRep(v)
      BY <2>2, Begins, Held
    <3>. QED BY <3>1
  <2>. QED BY <1>1, <2>1, <2>2
<1>3. Holds(acc') /\ acc'.type = "nat"
  BY <1>1, <1>2, NatResult
<1>4. last' = [type |-> acc.type, op |-> "toNat", x |-> Value(acc), y |-> 0, bits |-> acc.bits]
  BY <1>1 DEF Record
<1>5. "toNat" \notin NatBitOps \cup NatShifts
  BY DEF NatBitOps, NatShifts
<1>6. CASE acc.type = "fin"
  BY <1>3, <1>4, <1>5, <1>6, SettlesFin
<1>7. CASE acc.type = "bitvec"
  BY <1>3, <1>4, <1>5, <1>7, SettlesBitVec
<1>. QED
  BY <1>1, <1>6, <1>7

\* The size of a range.
LEMMA RangeStepKeeps ==
  ASSUME NumbersInv, last = Fresh, RangeStep
  PROVE  NumbersInv'
<1>1. acc.type = "nat"
  BY DEF RangeStep
<1>2. PICK stop \in NatOperands, step \in 1..3 :
        /\ acc' = Number("nat", RangeSize(acc.rep, BigNatResult(stop), BigNatResult(step)), step)
        /\ last' = [type |-> "range", op |-> "size", x |-> Value(acc), y |-> stop, bits |-> step]
  BY DEF RangeStep
<1>3. PICK x \in Nat : acc.rep = NatRep(x) /\ Value(acc) = x
  BY <1>1, Begins, Held
<1>4. stop \in Nat /\ BigNatResult(stop) = NatRep(stop) /\ BigNatResult(step) = NatRep(step)
  BY OperandsFit, NatReps
<1>5. PICK v \in Nat : /\ RangeSize(NatRep(x), NatRep(stop), NatRep(step)) = NatRep(v)
                       /\ \A i \in 0..v : i < v <=> x + i * step < stop
  BY <1>4, RangeIsExact
<1>6. acc' = Number("nat", NatRep(v), step)
  BY <1>2, <1>3, <1>4, <1>5
<1>7. Holds(acc') /\ Value(acc') = v
  BY <1>6, Made
<1>8. acc'.type = "nat" /\ acc'.bits = step
  BY <1>6 DEF Number
<1>9. last' = [type |-> "range", op |-> "size", x |-> x, y |-> stop, bits |-> step]
  BY <1>2, <1>3
<1>10. \A i \in 0..Value(acc') : (i < Value(acc')) = (x + i * acc'.bits < stop)
  <2>1. ASSUME NEW i \in 0..v
        PROVE  (i < v) = (x + i * step < stop)
    BY <1>5
  <2>. QED BY <1>7, <1>8, <2>1
<1>. QED
  BY <1>7, <1>8, <1>9, <1>10, SettlesRange

\* A number from the outside is in the form of its type.
LEMMA NewKeeps ==
  ASSUME NumbersInv, last = Fresh, New
  PROVE  NumbersInv'
<1>1. last' = Fresh
  BY DEF New
<1>2. ASSUME NEW n \in NatOperands, acc' = Number("nat", BigNatResult(n), 0)
      PROVE  NumbersInv'
  <2>1. Holds(acc') /\ Small(Value(acc'))
    BY <1>2, OperandsFit, Made
  <2>2. acc'.type = "nat"
    BY <1>2 DEF Number
  <2>. QED BY <1>1, <2>1, <2>2, SettlesFresh
<1>3. ASSUME NEW n \in Operands, acc' = Number("int", BigIntResult(n), 0)
      PROVE  NumbersInv'
  <2>1. Holds(acc') /\ Small(Value(acc'))
    BY <1>3, OperandsFit, Made
  <2>2. acc'.type = "int"
    BY <1>3 DEF Number
  <2>. QED BY <1>1, <2>1, <2>2, SettlesFresh
<1>4. ASSUME NEW type \in WordTypes, NEW bits \in WidthsOf(type), NEW w \in WordOperands(bits),
             acc' = Number(type, mk(w, bits), bits)
      PROVE  NumbersInv'
  <2>1. bits \in 2..P
    BY WidthsAndBounds
  <2>2. w \in 0..Pow2(bits) - 1
    BY <2>1, OperandsFit
  <2>3. Holds(acc') /\ Value(acc') = WordValue(w, type, bits) /\ acc'.type = type
    BY <1>4, <2>2, WordResult
  <2>4. Small(Value(acc')) /\ acc'.type # "panic"
    BY <2>1, <2>2, <2>3, OperandsFit DEF WordTypes
  <2>. QED BY <1>1, <2>3, <2>4, SettlesFresh
<1>5. ASSUME NEW z \in Nat, Small(z), NEW n \in Nat, n # 0
      PROVE  lean_nat_mod(NatRep(z), NatRep(n)) = NatRep(z % n) /\ z % n \in 0..n - 1 /\ Small(z % n)
  <2>1. lean_nat_mod(NatRep(z), NatRep(n)) = NatRep(z % n) /\ z % n \in 0..n - 1 /\ (z < n => z % n = z)
    BY <1>5, Reduction
  <2> DEFINE r == z % n
             top == Pow2(2 * P)
  <2>2. top \in Nat
    <3>1. 2 * P \in Nat
      BY NumbersAssumption
    <3>. QED BY <3>1, Pow2Is
  <2>3. Small(r)
    <3>1. r \in 0..n - 1 /\ (z < n => r = z)
      BY <2>1
    <3>2. z < top
      BY <1>5 DEF Small
    <3>. HIDE DEF r, top
    <3>3. r <= z
      BY <3>1
    <3>4. r \in Int /\ 0 <= r
      BY <1>5, <3>1
    <3>5. -top < r /\ r < top
      <4>1. r < top /\ 0 < top
        BY <2>2, <3>2, <3>3, <3>4
      <4>. QED BY <2>2, <3>4, <4>1
    <3>. QED BY <3>5 DEF Small, top
  <2>. QED BY <2>1, <2>3
<1>6. ASSUME NEW bits \in Widths, NEW n \in NatOperands, acc' = Number("bitvec", BitVecOfNat(BigNatResult(n), bits), bits)
      PROVE  NumbersInv'
  <2> DEFINE p == Pow2(bits)
             v == n % p
  <2>1. p \in Nat /\ p # 0
    BY WidthsAndBounds, Pow2Is
  <2>2. n \in Nat /\ Small(n) /\ BigNatResult(n) = NatRep(n) /\ BigNatResult(p) = NatRep(p)
    BY <2>1, OperandsFit, NatReps
  <2>3. BitVecOfNat(BigNatResult(n), bits) = lean_nat_mod(NatRep(n), NatRep(p))
    BY <2>2 DEF BitVecOfNat
  <2>4. BitVecOfNat(BigNatResult(n), bits) = NatRep(v) /\ v \in 0..p - 1 /\ Small(v)
    <3>. HIDE DEF p
    <3>. QED BY <1>5, <2>1, <2>2, <2>3
  <2>. HIDE DEF v
  <2>5. acc' = Number("bitvec", NatRep(v), bits)
    BY <1>6, <2>4
  <2>6. Holds(acc') /\ Value(acc') = v
    BY <2>4, <2>5, Made
  <2>7. acc'.type = "bitvec"
    BY <2>5 DEF Number
  <2>. QED BY <1>1, <2>4, <2>6, <2>7, SettlesFresh
<1>7. ASSUME NEW n \in Bounds, NEW z \in NatOperands, acc' = Number("fin", FinOfNat(BigNatResult(z), BigNatResult(n)), n)
      PROVE  NumbersInv'
  <2> DEFINE v == z % n
  <2>1. n \in Nat /\ n # 0
    BY WidthsAndBounds
  <2>2. z \in Nat /\ Small(z) /\ BigNatResult(z) = NatRep(z) /\ BigNatResult(n) = NatRep(n)
    BY <2>1, OperandsFit, NatReps
  <2>3. FinOfNat(BigNatResult(z), BigNatResult(n)) = NatRep(v) /\ v \in 0..n - 1 /\ Small(v)
    BY <1>5, <2>1, <2>2 DEF FinOfNat
  <2>. HIDE DEF v
  <2>4. acc' = Number("fin", NatRep(v), n)
    BY <1>7, <2>3
  <2>5. Holds(acc') /\ Value(acc') = v
    BY <2>3, <2>4, Made
  <2>6. acc'.type = "fin"
    BY <2>4 DEF Number
  <2>. QED BY <1>1, <2>3, <2>5, <2>6, SettlesFresh
<1>. QED
  BY <1>2, <1>3, <1>4, <1>6, <1>7 DEF New

\* The result of a computation is the operand of the next.
LEMMA ContinueKeeps ==
  ASSUME NumbersInv, Continue
  PROVE  NumbersInv'
<1>1. last' = Fresh /\ acc' = acc /\ acc.type # "panic" /\ Value(acc) \in Further
  BY DEF Continue
<1>2. Small(Value(acc))
  BY <1>1, NumbersAssumption DEF Small
<1>3. Holds(acc') /\ Small(Value(acc')) /\ acc'.type # "panic"
  BY <1>1, <1>2 DEF NumbersInv
<1>. QED
  BY <1>1, <1>3, SettlesFresh

\* Every computation keeps the invariant.
LEMMA ComputeKeeps ==
  ASSUME NumbersInv, last = Fresh, Compute
  PROVE  NumbersInv'
<1>1. CASE UIntStep \/ UInt64Step \/ USizeStep \/ SIntStep \/ Int64Step \/ ISizeStep
  <2>1. PICK type \in WordTypes, boxed \in BOOLEAN : WordStep(type, boxed)
    BY <1>1 DEF UIntStep, UInt64Step, USizeStep, SIntStep, Int64Step, ISizeStep, WordTypes
  <2>. QED BY <2>1, WordStepKeeps
<1>. QED
  BY <1>1, NatStepKeeps, NatBitStepKeeps, NatOtherStepKeeps, NatQueryKeeps, NatLoopKeeps, IntStepKeeps,
     IntQueryKeeps, WordQueryKeeps, WordCastKeeps, FinStepKeeps, BitVecStepKeeps, BoundedToNatKeeps,
     NatToIntKeeps, IntToNatKeeps, WordToNatOrIntKeeps, NatOrIntToWordKeeps, NatToUIntCheckedKeeps,
     RangeStepKeeps
  DEF Compute

\* The calculator starts with a zero in its form.
LEMMA ZeroIsHeld ==
  ASSUME Init
  PROVE  NumbersInv
<1>1. acc = Number("nat", NatRep(0), 0)
  <2>1. Box(0) = NatRep(0)
    BY Borders, NatReps
  <2>. QED BY <2>1 DEF Init
<1>2. Holds(acc) /\ Value(acc) = 0
  BY <1>1, Made
<1>3. acc.type = "nat"
  BY <1>1 DEF Number
<1>4. Small(0)
  <2>1. 2 * P \in Nat
    BY NumbersAssumption
  <2>. QED BY <2>1, Pow2Is DEF Small
<1>5. /\ last.type = "none" /\ last.op = "new" /\ last.y = 0 /\ "none" \notin WordTypes
      /\ "new" \notin Comparisons
  BY DEF Init, Fresh, WordTypes, Comparisons
<1>6. ExactArithmetic
  BY <1>3, <1>5 DEF ExactArithmetic
<1>7. BoundedArithmetic
  BY <1>3, <1>5 DEF BoundedArithmetic
<1>. QED
  BY <1>2, <1>4, <1>6, <1>7 DEF NumbersInv

\* The invariant holds in every state.
LEMMA NumbersInvHolds == Spec => []NumbersInv
<1>1. Init => NumbersInv
  BY ZeroIsHeld
<1>2. NumbersInv /\ [Next]_vars => NumbersInv'
  <2>1. ASSUME NumbersInv, UNCHANGED vars
        PROVE  NumbersInv'
    BY <2>1 DEF vars, NumbersInv, ExactArithmetic, BoundedArithmetic, EuclideanDivision
  <2>2. ASSUME NumbersInv, Next
        PROVE  NumbersInv'
    BY <2>2, NewKeeps, ComputeKeeps, ContinueKeeps DEF Next
  <2>. QED BY <2>1, <2>2
<1>. QED
  BY <1>1, <1>2, PTL DEF Spec

\* Arithmetic is exact in every state: what is held is in the normal form of its
\* type, and every operation gives the number that mathematics, modulo 2^bits for
\* the fixed widths, says.
THEOREM ArithmeticIsAlwaysExact == Spec => []ArithmeticIsExact
<1>1. NumbersInv => ArithmeticIsExact
  BY HeldIsCanonical DEF NumbersInv, ArithmeticIsExact
<1>. QED
  BY <1>1, NumbersInvHolds, PTL

-----------------------------------------------------------------------------
\* Dividing twice is dividing by the product.
LEMMA DivisionTwice ==
  ASSUME NEW x \in Nat, NEW y \in Nat, y # 0, NEW z \in Nat, z # 0
  PROVE  /\ y * z \in Nat /\ y * z # 0 /\ x \div y \in Nat
         /\ (x \div y) \div z = x \div (y * z)
         /\ x % (y * z) = ((x \div y) % z) * y + (x % y)
<1> DEFINE a == x \div y
           r == x % y
           b == a \div z
           c == a % z
           m == y * z
<1>1. a \in Int /\ r \in 0..y - 1 /\ x = a * y + r
  BY Division
<1>2. a \in Nat
  OBVIOUS
<1>3. b \in Int /\ c \in 0..z - 1 /\ a = b * z + c
  BY <1>2, Division
<1>4. m \in Nat /\ m # 0
  OBVIOUS
<1>. HIDE DEF a, r, b, c
<1>5. a * y = b * m + c * y
  <2>1. (b * z + c) * y = b * (y * z) + c * y
    <3> DEFINE d == b * z
    <3>1. d \in Int /\ d * y = b * (y * z)
      BY <1>3
    <3>2. (d + c) * y = d * y + c * y
      <4>. HIDE DEF d
      <4>. QED BY <1>3, <3>1
    <3>. QED BY <3>1, <3>2
  <2>. QED BY <1>3, <2>1
<1>6. c * y + r \in 0..m - 1
  <2>1. c * y \in Nat /\ (c + 1) * y <= z * y /\ (c + 1) * y = c * y + y
    <3>1. c \in Nat /\ c + 1 <= z
      BY <1>3
    <3>2. \A i, j, k \in Nat : i <= j => i * k <= j * k
      OBVIOUS
    <3>3. (c + 1) * y <= z * y
      BY <3>1, <3>2
    <3>. QED BY <3>1, <3>3
  <2>2. z * y = m
    OBVIOUS
  <2> DEFINE e == c * y
  <2>. HIDE DEF e, m
  <2>3. e \in Nat /\ e + y <= m
    BY <2>1, <2>2, <1>4 DEF e
  <2>4. e + r \in 0..m - 1
    BY <1>1, <1>4, <2>3
  <2>. QED BY <2>4 DEF e
<1> DEFINE e == c * y
           f == b * m
<1>7. x = f + (e + r)
  <2>1. f \in Int /\ e \in Int
    BY <1>3, <1>4
  <2>. HIDE DEF e, f
  <2>2. a * y = f + e
    BY <1>5 DEF e, f
  <2>. QED BY <1>1, <2>1, <2>2
<1>8. b = x \div m /\ e + r = x % m
  <2> DEFINE g == e + r
  <2>1. x = b * m + g /\ g \in 0..m - 1
    BY <1>6, <1>7
  <2>. HIDE DEF m, g
  <2>2. \A q \in Int, t \in 0..m - 1 : x = q * m + t => q = x \div m /\ t = x % m
    BY <1>4, Division
  <2>3. b = x \div m /\ g = x % m
    BY <1>3, <2>1, <2>2
  <2>. QED BY <2>3 DEF g
<1>. QED
  BY <1>2, <1>4, <1>8 DEF a, b, c, r

-----------------------------------------------------------------------------
\* Digits: the function that reads the first n digits of s exists.
ReadsDigits(f, s, n) == f = [i \in 0..n |-> IF i = 0 THEN 0 ELSE f[i - 1] * Radix + s[i]]

\* What is read of a sequence.
LEMMA DigitsAreRead ==
  ASSUME NEW s, NEW n \in Nat
  PROVE  \E f : ReadsDigits(f, s, n)
<1> DEFINE S == {d \in Nat : \E f : ReadsDigits(f, s, d)}
<1>1. 0 \in S
  <2>1. ReadsDigits([k \in 0..0 |-> 0], s, 0)
    BY DEF ReadsDigits
  <2>. QED BY <2>1
<1>2. ASSUME NEW d \in Nat, d \in S
      PROVE  d + 1 \in S
  <2>1. PICK f : ReadsDigits(f, s, d)
    BY <1>2
  <2> DEFINE h == [k \in 0..(d + 1) |-> IF k = d + 1 THEN f[d] * Radix + s[k] ELSE f[k]]
             r == [k \in 0..(d + 1) |-> IF k = 0 THEN 0 ELSE h[k - 1] * Radix + s[k]]
  <2>2. ASSUME NEW k \in 0..(d + 1)
        PROVE  h[k] = r[k]
    <3>1. CASE k = d + 1
      BY <3>1
    <3>2. CASE k \in 0..d
      <4>1. f[k] = IF k = 0 THEN 0 ELSE f[k - 1] * Radix + s[k]
        BY <2>1, <3>2 DEF ReadsDigits
      <4>2. k # 0 => k - 1 \in 0..d
        BY <3>2
      <4>3. h[k] = f[k] /\ (k # 0 => h[k - 1] = f[k - 1])
        BY <3>2, <4>2
      <4>. QED BY <4>1, <4>3
    <3>. QED BY <3>1, <3>2
  <2>3. ReadsDigits(h, s, d + 1)
    <3>1. h = [k \in 0..(d + 1) |-> h[k]] /\ r = [k \in 0..(d + 1) |-> r[k]]
      OBVIOUS
    <3>. QED BY <2>2, <3>1 DEF ReadsDigits
  <2>. HIDE DEF h
  <2>. QED BY <2>3
<1>. HIDE DEF S
<1>3. n \in S
  BY <1>1, <1>2, NumbersByInduction
<1>. QED
  BY <1>3 DEF S

\* One digit more.
LEMMA OneDigitMore ==
  ASSUME NEW s \in Seq(Nat)
  PROVE  /\ s = <<>> => DigitsValue(s) = 0
         /\ \A d \in Nat : DigitsValue(Append(s, d)) = DigitsValue(s) * Radix + d
<1> DEFINE F(t, m) == CHOOSE f : ReadsDigits(f, t, m)
<1>1. ASSUME NEW t \in Seq(Nat)
      PROVE  ReadsDigits(F(t, Len(t)), t, Len(t)) /\ DigitsValue(t) = F(t, Len(t))[Len(t)]
  <2>1. ReadsDigits(F(t, Len(t)), t, Len(t))
    <3>1. Len(t) \in Nat
      OBVIOUS
    <3>. QED BY <3>1, DigitsAreRead
  <2>2. DigitsValue(t) = F(t, Len(t))[Len(t)]
    BY Zenon DEF DigitsValue, ReadsDigits
  <2>. QED BY <2>1, <2>2
<1>. HIDE DEF F
<1>2. ASSUME NEW t \in Seq(Nat), NEW k \in 0..Len(t)
      PROVE  F(t, Len(t))[k] = IF k = 0 THEN 0 ELSE F(t, Len(t))[k - 1] * Radix + t[k]
  <2> DEFINE f == F(t, Len(t))
  <2>1. f = [i \in 0..Len(t) |-> IF i = 0 THEN 0 ELSE f[i - 1] * Radix + t[i]]
    BY <1>1 DEF ReadsDigits
  <2>. HIDE DEF f
  <2>2. f[k] = IF k = 0 THEN 0 ELSE f[k - 1] * Radix + t[k]
    BY <2>1
  <2>. QED BY <2>2 DEF f
<1>3. s = <<>> => DigitsValue(s) = 0
  <2>1. s = <<>> => Len(s) = 0 /\ 0 \in 0..Len(s)
    OBVIOUS
  <2>. QED BY <1>1, <1>2, <2>1
<1>4. ASSUME NEW d \in Nat
      PROVE  DigitsValue(Append(s, d)) = DigitsValue(s) * Radix + d
  <2> DEFINE t == Append(s, d)
             n == Len(s)
             f == F(t, n + 1)
             g == F(s, n)
  <2>1. /\ t \in Seq(Nat) /\ Len(t) = n + 1 /\ n \in Nat /\ t[n + 1] = d
        /\ \A k \in 1..n : t[k] = s[k]
    OBVIOUS
  <2>2. \A k \in 0..n + 1 : f[k] = IF k = 0 THEN 0 ELSE f[k - 1] * Radix + t[k]
    BY <1>2, <2>1
  <2>3. \A k \in 0..n : g[k] = IF k = 0 THEN 0 ELSE g[k - 1] * Radix + s[k]
    BY <1>2
  <2>4. DigitsValue(t) = f[n + 1] /\ DigitsValue(s) = g[n]
    BY <1>1, <2>1
  <2>. HIDE DEF t, n, f, g
  <2> DEFINE S == {k \in Nat : k <= n => f[k] = g[k]}
  <2>5. 0 \in S
    BY <2>1, <2>2, <2>3
  <2>6. ASSUME NEW k \in Nat, k < n, k \in S
        PROVE  k + 1 \in S
    <3>1. k + 1 \in 0..n /\ k + 1 \in 0..n + 1 /\ k + 1 # 0 /\ (k + 1) - 1 = k /\ k + 1 \in 1..n /\ k <= n
      BY <2>1, <2>6
    <3>. QED BY <2>1, <2>2, <2>3, <2>6, <3>1
  <2>7. \A k \in 0..n : k \in S
    <3>. HIDE DEF S
    <3>. QED BY <2>1, <2>5, <2>6, RangeByInduction
  <2>8. f[n] = g[n]
    BY <2>1, <2>7
  <2>9. f[n + 1] = f[n] * Radix + d
    <3>1. n + 1 \in 0..n + 1 /\ n + 1 # 0 /\ (n + 1) - 1 = n
      BY <2>1
    <3>. QED BY <2>1, <2>2, <3>1
  <2>. QED BY <2>4, <2>8, <2>9 DEF t
<1>. QED
  BY <1>3, <1>4

\* What is read is a natural number.
LEMMA DigitsAreNat ==
  ASSUME NEW s \in Seq(Nat)
  PROVE  DigitsValue(s) \in Nat
<1> DEFINE S == {n \in Nat : \A t \in Seq(Nat) : Len(t) = n => DigitsValue(t) \in Nat}
<1>1. 0 \in S
  <2>1. \A t \in Seq(Nat) : Len(t) = 0 => t = <<>>
    OBVIOUS
  <2>. QED BY <2>1, OneDigitMore
<1>2. ASSUME NEW n \in Nat, n \in S
      PROVE  n + 1 \in S
  <2>1. ASSUME NEW t \in Seq(Nat), Len(t) = n + 1
        PROVE  DigitsValue(t) \in Nat
    <3> DEFINE u == SubSeq(t, 1, n)
               d == t[n + 1]
    <3>1. u \in Seq(Nat) /\ Len(u) = n /\ d \in Nat /\ t = Append(u, d)
      BY <2>1
    <3>. HIDE DEF u, d
    <3>2. DigitsValue(u) \in Nat
      BY <1>2, <3>1
    <3>3. DigitsValue(t) = DigitsValue(u) * Radix + d
      BY <3>1, OneDigitMore
    <3>4. Radix \in Nat
      BY NumbersAssumption
    <3>5. DigitsValue(u) * Radix \in Nat
      <4>1. \A a, b \in Nat : a * b \in Nat
        OBVIOUS
      <4>. QED BY <3>2, <3>4, <4>1
    <3>6. d \in Nat
      BY <3>1
    <3>. QED BY <3>3, <3>5, <3>6
  <2>. QED BY <2>1
<1>3. Len(s) \in S
  <2>1. Len(s) \in Nat
    OBVIOUS
  <2>. HIDE DEF S
  <2>. QED BY <1>1, <1>2, <2>1, NumbersByInduction
<1>. QED
  BY <1>3

\* Powers of the radix.
LEMMA RadixPowers ==
  /\ Radix \in Nat /\ Radix > 1 /\ Radix # 0 /\ Power(Radix, 0) = 1
  /\ \A n \in Nat : Power(Radix, n) \in Nat /\ Power(Radix, n) # 0 /\ Power(Radix, n + 1) = Radix * Power(Radix, n)
<1>1. Radix \in Nat /\ Radix > 1 /\ Radix # 0
  BY NumbersAssumption
<1>. QED
  BY <1>1, PowerSteps, PowerIsNat

\* The last of the digits of a number that is padded is its remainder.
LEMMA PaddedGrows ==
  ASSUME NEW v \in Nat, NEW w \in Nat
  PROVE  /\ Padded(v, 0) = <<>> /\ Padded(v, w) \in Seq(0..Radix - 1) /\ Len(Padded(v, w)) = w
         /\ v \div Radix \in Nat /\ v % Radix \in 0..Radix - 1
         /\ Padded(v, w + 1) = Append(Padded(v \div Radix, w), v % Radix)
<1>1. Radix \in Nat /\ Radix # 0 /\ Power(Radix, 0) = 1
  BY RadixPowers
<1>2. v \div Radix \in Nat /\ v % Radix \in 0..Radix - 1
  BY <1>1
<1>3. ASSUME NEW x \in Nat, NEW n \in Nat
      PROVE  Padded(x, n) \in Seq(0..Radix - 1) /\ Len(Padded(x, n)) = n
  <2>1. \A i \in 1..n : (x \div Power(Radix, n - i)) % Radix \in 0..Radix - 1
    <3>1. ASSUME NEW i \in 1..n
          PROVE  (x \div Power(Radix, n - i)) % Radix \in 0..Radix - 1
      <4> DEFINE p == Power(Radix, n - i)
      <4>1. p \in Nat /\ p # 0
        BY RadixPowers
      <4>. HIDE DEF p
      <4>2. x \div p \in Int
        BY <4>1
      <4>. QED BY <1>1, <4>2 DEF p
    <3>. QED BY <3>1
  <2> DEFINE f == [i \in 1..n |-> (x \div Power(Radix, n - i)) % Radix]
  <2>2. f \in [1..n -> 0..Radix - 1]
    BY <2>1
  <2>3. Padded(x, n) = f
    BY Zenon DEF Padded
  <2>. HIDE DEF f
  <2>4. f \in Seq(0..Radix - 1) /\ Len(f) = n
    <3> DEFINE D == 0..Radix - 1
    <3>1. f \in [1..n -> D]
      BY <2>2
    <3>. HIDE DEF D
    <3>2. f \in Seq(D) /\ Len(f) = n
      BY <3>1
    <3>. QED BY <3>2 DEF D
  <2>. QED BY <2>3, <2>4
<1>4. Padded(v, 0) = <<>>
  BY <1>3
<1> DEFINE s == Padded(v, w + 1)
           t == Padded(v \div Radix, w)
           d == v % Radix
<1>5. s \in Seq(0..Radix - 1) /\ t \in Seq(0..Radix - 1) /\ Len(s) = w + 1 /\ Len(t) = w
  BY <1>2, <1>3
<1>6. s[w + 1] = d
  <2>1. (w + 1) - (w + 1) = 0 /\ w + 1 \in 1..w + 1 /\ v \div 1 = v
    OBVIOUS
  <2>. QED BY <1>1, <2>1 DEF Padded
<1>7. ASSUME NEW i \in 1..w
      PROVE  s[i] = t[i]
  <2> DEFINE p == Power(Radix, w - i)
             u == v \div Radix
  <2>1. w - i \in Nat /\ (w + 1) - i = (w - i) + 1 /\ i \in 1..w + 1
    OBVIOUS
  <2>2. p \in Nat /\ p # 0 /\ Power(Radix, (w + 1) - i) = Radix * p
    BY <2>1, RadixPowers
  <2>3. s[i] = (v \div (Radix * p)) % Radix
    BY <2>1, <2>2 DEF Padded
  <2>4. t[i] = (u \div p) % Radix
    BY DEF Padded
  <2>5. u \div p = v \div (Radix * p)
    BY <1>1, <2>2, DivisionTwice
  <2>. QED BY <2>3, <2>4, <2>5
<1>. HIDE DEF s, t, d
<1>8. s = Append(t, d)
  <2>1. Append(t, d) \in Seq(0..Radix - 1) /\ Len(Append(t, d)) = w + 1 /\ Append(t, d)[w + 1] = d
        /\ \A i \in 1..w : Append(t, d)[i] = t[i]
    BY <1>2, <1>5 DEF d
  <2> DEFINE r == Append(t, d)
  <2>. HIDE DEF r
  <2>2. \A i \in 1..w + 1 : s[i] = r[i]
    <3>1. \A i \in 1..w + 1 : i = w + 1 \/ i \in 1..w
      OBVIOUS
    <3>. QED BY <1>6, <1>7, <2>1, <3>1 DEF r
  <2>. QED BY <1>5, <2>1, <2>2 DEF r
<1>. QED
  BY <1>2, <1>3, <1>4, <1>8 DEF s, t, d

\* Digits that are put behind others shift them.
LEMMA DigitsBehind ==
  ASSUME NEW s \in Seq(Nat), NEW w \in Nat, NEW v \in Nat
  PROVE  /\ s \o Padded(v, w) \in Seq(Nat)
         /\ DigitsValue(s \o Padded(v, w)) = DigitsValue(s) * Power(Radix, w) + (v % Power(Radix, w))
<1> DEFINE Shifted(n, x) ==
      DigitsValue(s \o Padded(x, n)) = DigitsValue(s) * Power(Radix, n) + (x % Power(Radix, n))
           S == {n \in Nat : \A x \in Nat : Shifted(n, x)}
<1>1. DigitsValue(s) \in Nat
  BY DigitsAreNat
<1>2. 0 \in S
  <2>1. ASSUME NEW x \in Nat
        PROVE  Shifted(0, x)
    <3>1. Padded(x, 0) = <<>> /\ Power(Radix, 0) = 1 /\ x % 1 = 0
      BY PaddedGrows, RadixPowers
    <3>2. s \o <<>> = s
      OBVIOUS
    <3>3. DigitsValue(s \o Padded(x, 0)) = DigitsValue(s)
      BY <3>1, <3>2
    <3>4. DigitsValue(s) * Power(Radix, 0) + (x % Power(Radix, 0)) = DigitsValue(s)
      BY <1>1, <3>1
    <3>. QED BY <3>3, <3>4
  <2>. QED BY <2>1
<1>3. ASSUME NEW n \in Nat, n \in S
      PROVE  n + 1 \in S
  <2>1. ASSUME NEW x \in Nat
        PROVE  Shifted(n + 1, x)
    <3> DEFINE u == x \div Radix
               d == x % Radix
               t == Padded(u, n)
               p == Power(Radix, n)
               a == DigitsValue(s)
    <3>1. u \in Nat /\ d \in Nat /\ t \in Seq(Nat) /\ Padded(x, n + 1) = Append(t, d)
      <4>1. u \in Nat /\ d \in 0..Radix - 1 /\ Padded(x, n + 1) = Append(t, d) /\ Radix \in Nat
        BY PaddedGrows, RadixPowers
      <4>2. t \in Seq(0..Radix - 1)
        <5>. HIDE DEF u
        <5>. QED BY <4>1, PaddedGrows
      <4>3. 0..Radix - 1 \subseteq Nat
        OBVIOUS
      <4>. QED BY <4>1, <4>2, <4>3
    <3>2. p \in Nat /\ p # 0 /\ Power(Radix, n + 1) = Radix * p /\ Radix \in Nat /\ Radix # 0
      BY RadixPowers
    <3>3. x % (Radix * p) = (u % p) * Radix + d
      BY <3>2, DivisionTwice
    <3>4. DigitsValue(s \o t) = a * p + (u % p)
      <4>1. Shifted(n, u)
        <5>. HIDE DEF u
        <5>. QED BY <1>3, <3>1
      <4>. QED BY <4>1
    <3>. HIDE DEF u, d, t, p, a
    <3>5. s \o t \in Seq(Nat) /\ s \o Append(t, d) = Append(s \o t, d)
      BY <3>1
    <3>6. DigitsValue(Append(s \o t, d)) = DigitsValue(s \o t) * Radix + d
      BY <3>1, <3>5, OneDigitMore
    <3>7. (a * p + (u % p)) * Radix + d = a * (Radix * p) + ((u % p) * Radix + d)
      <4> DEFINE r == u % p
      <4>1. a \in Nat /\ r \in Nat
        BY <1>1, <3>1, <3>2 DEF a
      <4>. HIDE DEF r
      <4>2. (a * p + r) * Radix + d = a * (Radix * p) + (r * Radix + d)
        BY <3>1, <3>2, <4>1
      <4>. QED BY <4>2 DEF r
    <3>8. DigitsValue(s \o Padded(x, n + 1)) = a * (Radix * p) + (x % (Radix * p))
      BY <3>1, <3>3, <3>4, <3>5, <3>6, <3>7
    <3>. QED BY <3>2, <3>8 DEF a
  <2>. QED BY <1>3, <2>1
<1>4. w \in S
  <2>. HIDE DEF S
  <2>. QED BY <1>2, <1>3, NumbersByInduction
<1>5. s \o Padded(v, w) \in Seq(Nat)
  <2>1. Padded(v, w) \in Seq(Nat)
    <3> DEFINE t == Padded(v, w)
    <3>1. t \in Seq(0..Radix - 1) /\ Radix \in Nat /\ 0..Radix - 1 \subseteq Nat
      BY PaddedGrows, RadixPowers
    <3>. HIDE DEF t
    <3>2. t \in Seq(Nat)
      BY <3>1
    <3>. QED BY <3>2 DEF t
  <2>. QED BY <2>1
<1>. QED
  BY <1>4, <1>5

\* Powers grow at least like powers of two.
LEMMA PowersGrow ==
  ASSUME NEW x \in Nat, x > 1, NEW n \in Nat
  PROVE  Pow2(n) <= Power(x, n)
<1> DEFINE S == {k \in Nat : Pow2(k) <= Power(x, k)}
<1>1. 0 \in S
  BY Pow2Is, PowerSteps
<1>2. ASSUME NEW k \in Nat, k \in S
      PROVE  k + 1 \in S
  <2> DEFINE a == Pow2(k)
             b == Power(x, k)
  <2>1. a \in Nat /\ b \in Nat /\ a <= b /\ 2 <= x
    BY <1>2, Pow2Is, PowerIsNat
  <2>2. Pow2(k + 1) = 2 * a /\ Power(x, k + 1) = x * b
    BY Pow2Is, PowerSteps
  <2>. HIDE DEF a, b
  <2>3. 2 * b <= x * b
    BY <2>1
  <2>4. 2 * a <= x * b
    <3>1. x * b \in Nat /\ 2 * a \in Nat /\ 2 * b \in Nat
      BY <2>1
    <3>. QED BY <2>1, <2>3, <3>1
  <2>. QED BY <2>2, <2>4
<1>. HIDE DEF S
<1>3. n \in S
  BY <1>1, <1>2, NumbersByInduction
<1>. QED
  BY <1>3 DEF S

\* The digits of a number are its digits, and the first of them is not zero
\* unless it is the only one.
LEMMA DigitsOfNumbers ==
  ASSUME NEW v \in Nat, v < Pow2(2 * P)
  PROVE  /\ Digits(v) \in Seq(Nat) /\ Len(Digits(v)) > 0 /\ DigitsValue(Digits(v)) = v
         /\ Digits(v)[1] = 0 => v = 0 /\ Len(Digits(v)) = 1
<1> DEFINE width == IF v = 0 THEN 1 ELSE CHOOSE n \in 1..2 * P : Power(Radix, n - 1) <= v /\ v < Power(Radix, n)
           m == 2 * P
<1>1. Radix \in Nat /\ Radix > 1 /\ Radix # 0 /\ m \in Nat /\ m > 0
  BY RadixPowers, NumbersAssumption
<1>2. width \in Nat /\ width > 0 /\ v < Power(Radix, width) /\ (v = 0 => width = 1) /\ (v # 0 => Power(Radix, width - 1) <= v)
  <2>1. CASE v = 0
    <3>1. 1 = 0 + 1 /\ 0 \in Nat
      OBVIOUS
    <3>2. Power(Radix, 1) \in Nat /\ Power(Radix, 1) # 0
      BY RadixPowers
    <3>. QED BY <2>1, <3>2
  <2>2. CASE v # 0
    <3> DEFINE S == {n \in Nat : v < Power(Radix, n) => \E k \in 1..n : Power(Radix, k - 1) <= v /\ v < Power(Radix, k)}
    <3>1. 0 \in S
      BY <2>2, RadixPowers
    <3>2. ASSUME NEW n \in Nat, n \in S
          PROVE  n + 1 \in S
      <4>1. SUFFICES ASSUME v < Power(Radix, n + 1)
                     PROVE  \E k \in 1..n + 1 : Power(Radix, k - 1) <= v /\ v < Power(Radix, k)
        OBVIOUS
      <4>2. CASE v < Power(Radix, n)
        BY <3>2, <4>2
      <4>3. CASE Power(Radix, n) <= v
        <5>1. n + 1 \in 1..n + 1 /\ (n + 1) - 1 = n
          OBVIOUS
        <5>. QED BY <4>1, <4>3, <5>1
      <4>4. Power(Radix, n) \in Nat
        BY RadixPowers
      <4>. QED BY <4>2, <4>3, <4>4
    <3>3. m \in S
      <4>. HIDE DEF S, m
      <4>. QED BY <1>1, <3>1, <3>2, NumbersByInduction
    <3>4. v < Power(Radix, m)
      <4>1. Pow2(m) <= Power(Radix, m) /\ Pow2(m) \in Nat /\ Power(Radix, m) \in Nat
        BY <1>1, PowersGrow, Pow2Is, RadixPowers
      <4>. QED BY <4>1
    <3>5. \E k \in 1..2 * P : Power(Radix, k - 1) <= v /\ v < Power(Radix, k)
      BY <3>3, <3>4
    <3> DEFINE c == CHOOSE n \in 1..2 * P : Power(Radix, n - 1) <= v /\ v < Power(Radix, n)
    <3>6. c \in 1..2 * P /\ Power(Radix, c - 1) <= v /\ v < Power(Radix, c)
      BY <3>5
    <3>7. width = c
      BY <2>2
    <3>. HIDE DEF c, width
    <3>. QED BY <1>1, <2>2, <3>6, <3>7
  <2>. QED BY <2>1, <2>2
<1>3. Digits(v) = Padded(v, width)
  BY DEF Digits
<1>. HIDE DEF width
<1>4. Padded(v, width) \in Seq(Nat) /\ Len(Padded(v, width)) = width
  <2> DEFINE t == Padded(v, width)
  <2>1. t \in Seq(0..Radix - 1) /\ Len(t) = width
    BY <1>2, PaddedGrows
  <2>. HIDE DEF t
  <2>2. t \in Seq(Nat)
    BY <1>1, <2>1
  <2>. QED BY <2>1, <2>2 DEF t
<1>5. DigitsValue(Padded(v, width)) = v
  <2> DEFINE p == Power(Radix, width)
  <2>1. p \in Nat /\ p # 0 /\ v \in 0..p - 1
    BY <1>2, RadixPowers
  <2>2. v % p = v
    <3>. HIDE DEF p
    <3>. QED BY <2>1, SmallRemainder
  <2>3. <<>> \in Seq(Nat) /\ DigitsValue(<<>>) = 0
    <3>1. <<>> \in Seq(Nat)
      OBVIOUS
    <3> DEFINE e == <<>>
    <3>2. e \in Seq(Nat)
      BY <3>1
    <3>. HIDE DEF e
    <3>3. e = <<>> => DigitsValue(e) = 0
      BY <3>2, OneDigitMore
    <3>. QED BY <3>1, <3>3 DEF e
  <2>4. DigitsValue(<<>> \o Padded(v, width)) = 0 * p + v
    <3> DEFINE e == <<>>
    <3>1. e \in Seq(Nat) /\ DigitsValue(e) = 0
      BY <2>3
    <3>. HIDE DEF e
    <3>2. DigitsValue(e \o Padded(v, width)) = DigitsValue(e) * p + (v % p)
      BY <1>2, <3>1, DigitsBehind
    <3>. QED BY <2>2, <3>1, <3>2 DEF e
  <2>5. <<>> \o Padded(v, width) = Padded(v, width)
    BY <1>4
  <2>. HIDE DEF p
  <2>6. 0 * p + v = v
    BY <2>1
  <2>. QED BY <2>4, <2>5, <2>6
<1>6. ASSUME v # 0
      PROVE  Padded(v, width)[1] # 0
  <2> DEFINE p == Power(Radix, width - 1)
             q == v \div p
  <2>1. width - 1 \in Nat /\ (width - 1) + 1 = width /\ 1 \in 1..width
    BY <1>2
  <2>2. p \in Nat /\ p # 0 /\ Power(Radix, width) = Radix * p /\ p <= v /\ v < Radix * p
    BY <1>2, <1>6, <2>1, RadixPowers
  <2>3. Padded(v, width)[1] = q % Radix
    BY <2>1 DEF Padded
  <2>4. q \in 1..Radix - 1
    <3>. HIDE DEF p
    <3>1. q \in Int /\ (v % p) \in 0..p - 1 /\ v = q * p + (v % p)
      <4>1. v \in Int /\ p \in Nat /\ p # 0
        BY <2>2
      <4>. QED BY <4>1, Division
    <3> DEFINE r == v % p
    <3>. HIDE DEF q, r
    <3>2. q \in Int /\ r \in Nat /\ r < p /\ v = q * p + r
      BY <2>2, <3>1 DEF r
    <3>3. q > 0
      <4>1. q <= 0 => q * p <= 0
        BY <2>2, <3>2
      <4>. QED BY <2>2, <3>2, <4>1
    <3>4. q < Radix
      <4>1. q >= Radix => q * p >= Radix * p
        BY <1>1, <2>2, <3>2
      <4>2. q * p \in Int /\ Radix * p \in Int
        BY <1>1, <2>2, <3>2
      <4>. QED BY <1>1, <2>2, <3>2, <4>1, <4>2
    <3>. QED BY <1>1, <3>2, <3>3, <3>4
  <2>. HIDE DEF q
  <2>5. q % Radix = q
    <3>1. q \in 0..Radix - 1
      BY <2>4
    <3>. QED BY <1>1, <3>1, SmallRemainder
  <2>. QED BY <2>3, <2>4, <2>5
<1>. QED
  BY <1>2, <1>3, <1>4, <1>5, <1>6

\* The base that a big number is divided by.
ChunkBase == lean_usize_to_nat(Power(Radix, ChunkWidth))

\* The quotients of a number, and the text that is put together from the chunks
\* between them.
Quotients(f, o) == f = [k \in 0..2 * P |-> IF k = 0 THEN o ELSE lean_nat_div(f[k - 1], ChunkBase)]
Texts(f, c, n) ==
  f = [i \in 0..n - 1 |->
         IF i = 0 THEN Digits(lean_nat_mod(c[n - 1], ChunkBase).w)
         ELSE f[i - 1] \o Padded(lean_nat_mod(c[n - 1 - i], ChunkBase).w, ChunkWidth)]

\* How the digits of a number are printed.
LEMMA DecimalString ==
  ASSUME NEW o
  PROVE  LET c == CHOOSE f : Quotients(f, o)
             n == CHOOSE k \in 1..2 * P : lean_nat_dec_eq(c[k], Box(0)) /\ ~lean_nat_dec_eq(c[k - 1], Box(0))
             t == CHOOSE f : Texts(f, c, n)
         IN to_decimal_string(o) = IF o.small THEN Digits(o.w) ELSE t[n - 1]
  BY Zenon DEF to_decimal_string, Quotients, Texts, ChunkBase

\* The base is in the form of a Nat, and at least 2.
LEMMA ChunkBases ==
  LET b == Power(Radix, ChunkWidth)
  IN b \in Nat /\ b > 1 /\ b # 0 /\ ChunkBase = NatRep(b) /\ ChunkWidth \in Nat
<1> DEFINE b == Power(Radix, ChunkWidth)
           w == ChunkWidth - 1
           p == Power(Radix, w)
<1>1. ChunkWidth \in Nat /\ w \in Nat /\ w + 1 = ChunkWidth
  BY NumbersAssumption
<1>2. p \in Nat /\ p # 0 /\ b = Radix * p /\ Radix \in Nat /\ Radix > 1
  BY <1>1, RadixPowers
<1>3. b \in Nat
  BY <1>1, RadixPowers
<1>4. ChunkBase = NatRep(b)
  BY <1>3, NatReps DEF ChunkBase
<1>. HIDE DEF b, p
<1>5. b > 1
  <2>1. Radix * p >= Radix * 1
    BY <1>2
  <2>. QED BY <1>2, <1>3, <2>1
<1>. QED
  BY <1>1, <1>3, <1>4, <1>5 DEF b

\* The quotients of a number by the powers of the base.
LEMMA QuotientsAre ==
  ASSUME NEW v \in Nat, NEW b \in Nat, b # 0, ChunkBase = NatRep(b)
  PROVE  LET c == CHOOSE f : Quotients(f, NatRep(v))
         IN \A k \in 0..2 * P :
              /\ Power(b, k) \in Nat /\ Power(b, k) # 0 /\ v \div Power(b, k) \in Nat
              /\ c[k] = NatRep(v \div Power(b, k))
<1> DEFINE m == 2 * P
           Q(k) == v \div Power(b, k)
           g == [k \in 0..m |-> NatRep(Q(k))]
<1>1. m \in Nat
  BY NumbersAssumption
<1>2. ASSUME NEW k \in Nat
      PROVE  Power(b, k) \in Nat /\ Power(b, k) # 0 /\ Q(k) \in Nat
  <2> DEFINE p == Power(b, k)
  <2>1. p \in Nat /\ p # 0
    BY PowerIsNat
  <2>. HIDE DEF p
  <2>2. v \div p \in Nat
    BY <2>1
  <2>. QED BY <2>1, <2>2 DEF p
<1>3. Q(0) = v
  <2>1. Power(b, 0) = 1 /\ v \div 1 = v
    BY PowerSteps
  <2>. QED BY <2>1
<1>4. ASSUME NEW k \in Nat
      PROVE  lean_nat_div(NatRep(Q(k)), ChunkBase) = NatRep(Q(k + 1))
  <2> DEFINE p == Power(b, k)
  <2>1. p \in Nat /\ p # 0 /\ Power(b, k + 1) = b * p
    BY PowerSteps, PowerIsNat
  <2>. HIDE DEF p
  <2>2. (v \div p) \div b = v \div (p * b) /\ v \div p \in Nat
    BY <2>1, DivisionTwice
  <2>3. p * b = b * p
    BY <2>1
  <2>4. lean_nat_div(NatRep(v \div p), NatRep(b)) = NatRep((v \div p) \div b)
    <3> DEFINE u == v \div p
    <3>1. u \in Nat
      BY <2>2
    <3>. HIDE DEF u
    <3>2. lean_nat_div(NatRep(u), NatRep(b)) = NatRep(IF b = 0 THEN 0 ELSE u \div b)
      BY <3>1, NatArithmetic
    <3>. QED BY <3>2 DEF u
  <2>. QED BY <2>1, <2>2, <2>3, <2>4 DEF p
<1>. HIDE DEF Q
<1>5. Quotients(g, NatRep(v))
  <2> DEFINE r == [k \in 0..m |-> IF k = 0 THEN NatRep(v) ELSE lean_nat_div(g[k - 1], ChunkBase)]
  <2>1. ASSUME NEW k \in 0..m
        PROVE  g[k] = r[k]
    <3>1. CASE k = 0
      BY <1>3, <3>1
    <3>2. CASE k # 0
      <4>1. k - 1 \in Nat /\ (k - 1) + 1 = k /\ k - 1 \in 0..m
        BY <1>1, <3>2
      <4>2. lean_nat_div(NatRep(Q(k - 1)), ChunkBase) = NatRep(Q(k))
        BY <1>4, <4>1
      <4>. QED BY <3>2, <4>1, <4>2
    <3>. QED BY <3>1, <3>2
  <2>2. g = [k \in 0..m |-> g[k]] /\ r = [k \in 0..m |-> r[k]]
    OBVIOUS
  <2>. QED BY <2>1, <2>2 DEF Quotients
<1> DEFINE c == CHOOSE f : Quotients(f, NatRep(v))
<1>6. Quotients(c, NatRep(v))
  <2>. HIDE DEF g
  <2>. QED BY <1>5
<1>. HIDE DEF c, g
<1>7. \A k \in 0..m : c[k] = IF k = 0 THEN NatRep(v) ELSE lean_nat_div(c[k - 1], ChunkBase)
  BY <1>6 DEF Quotients
<1> DEFINE S == {k \in Nat : k <= m => c[k] = NatRep(Q(k))}
<1>8. 0 \in S
  BY <1>1, <1>3, <1>7
<1>9. ASSUME NEW k \in Nat, k < m, k \in S
      PROVE  k + 1 \in S
  <2>1. k + 1 \in 0..m /\ k + 1 # 0 /\ (k + 1) - 1 = k /\ k <= m
    BY <1>1, <1>9
  <2>. QED BY <1>4, <1>7, <1>9, <2>1
<1>10. \A k \in 0..m : k \in S
  <2>. HIDE DEF S, m
  <2>. QED BY <1>1, <1>8, <1>9, RangeByInduction
<1>11. ASSUME NEW k \in 0..m
       PROVE  Power(b, k) \in Nat /\ Power(b, k) # 0 /\ Q(k) \in Nat /\ c[k] = NatRep(Q(k))
  <2>1. k \in Nat /\ k <= m
    BY <1>1
  <2>. QED BY <1>2, <1>10, <2>1
<1>. QED
  BY <1>11 DEF c, Q

\* The text that is put together exists.
LEMMA TextsExist ==
  ASSUME NEW c, NEW n \in Nat, n # 0
  PROVE  \E f : Texts(f, c, n)
<1> DEFINE first == Digits(lean_nat_mod(c[n - 1], ChunkBase).w)
           More(i) == Padded(lean_nat_mod(c[n - 1 - i], ChunkBase).w, ChunkWidth)
           Part(f, d) == f = [i \in 0..d |-> IF i = 0 THEN first ELSE f[i - 1] \o More(i)]
           S == {d \in Nat : \E f : Part(f, d)}
<1>. HIDE DEF first, More
<1>1. 0 \in S
  <2>1. Part([k \in 0..0 |-> first], 0)
    OBVIOUS
  <2>. QED BY <2>1
<1>2. ASSUME NEW d \in Nat, d \in S
      PROVE  d + 1 \in S
  <2>1. PICK f : Part(f, d)
    BY <1>2
  <2> DEFINE h == [k \in 0..(d + 1) |-> IF k = d + 1 THEN f[d] \o More(k) ELSE f[k]]
             r == [k \in 0..(d + 1) |-> IF k = 0 THEN first ELSE h[k - 1] \o More(k)]
  <2>2. ASSUME NEW k \in 0..(d + 1)
        PROVE  h[k] = r[k]
    <3>1. CASE k = d + 1
      <4>1. d \in 0..d + 1 /\ d # d + 1 /\ k # 0 /\ k - 1 = d
        BY <3>1
      <4>2. h[k] = f[d] \o More(k) /\ h[k - 1] = f[d] /\ r[k] = h[k - 1] \o More(k)
        BY <3>1, <4>1
      <4>. QED BY <4>2
    <3>2. CASE k \in 0..d
      <4>1. f[k] = IF k = 0 THEN first ELSE f[k - 1] \o More(k)
        BY <2>1, <3>2
      <4>2. k # 0 => k - 1 \in 0..d
        BY <3>2
      <4>3. h[k] = f[k] /\ (k # 0 => h[k - 1] = f[k - 1])
        BY <3>2, <4>2
      <4>. QED BY <4>1, <4>3
    <3>3. k = d + 1 \/ k \in 0..d
      OBVIOUS
    <3>. QED BY <3>1, <3>2, <3>3
  <2>3. Part(h, d + 1)
    <3>1. h = [k \in 0..(d + 1) |-> h[k]] /\ r = [k \in 0..(d + 1) |-> r[k]]
      OBVIOUS
    <3>. QED BY <2>2, <3>1
  <2>. HIDE DEF h, Part
  <2>4. d + 1 \in Nat
    OBVIOUS
  <2>. QED BY <2>3, <2>4
<1>3. n - 1 \in S
  <2>1. n - 1 \in Nat
    OBVIOUS
  <2>. HIDE DEF S
  <2>. QED BY <1>1, <1>2, <2>1, NumbersByInduction
<1>. QED
  BY <1>3 DEF Texts, first, More

\* What is printed for a number are its digits, whether it is printed at once or
\* in chunks.
LEMMA PrintedDigits ==
  ASSUME NEW v \in Nat, v < Pow2(2 * P)
  PROVE  LET s == to_decimal_string(NatRep(v))
         IN /\ s \in Seq(Nat) /\ Len(s) > 0 /\ DigitsValue(s) = v
            /\ s[1] = 0 => v = 0 /\ Len(s) = 1
<1> DEFINE o == NatRep(v)
           b == Power(Radix, ChunkWidth)
           m == 2 * P
           Q(k) == v \div Power(b, k)
           c == CHOOSE f : Quotients(f, o)
           n == CHOOSE k \in 1..2 * P : lean_nat_dec_eq(c[k], Box(0)) /\ ~lean_nat_dec_eq(c[k - 1], Box(0))
           t == CHOOSE f : Texts(f, c, n)
<1>1. to_decimal_string(o) = IF o.small THEN Digits(o.w) ELSE t[n - 1]
  BY DecimalString
<1>2. o.w = v /\ (o.small <=> v <= MaxSmallNat) /\ Box(0) = NatRep(0) /\ MaxSmallNat \in Nat
  <2>1. MaxSmallNat \in Nat
    BY Borders
  <2>2. NatRep(v).w = v /\ NatRep(v).small = (v <= MaxSmallNat)
    BY NatReps
  <2>3. 0 \in Nat /\ 0 <= MaxSmallNat
    BY <2>1
  <2>4. Box(0) = NatRep(0)
    BY <2>3, NatReps
  <2>. QED BY <2>1, <2>2, <2>4
<1>3. b \in Nat /\ b > 1 /\ b # 0 /\ ChunkBase = NatRep(b) /\ ChunkWidth \in Nat
  BY ChunkBases
<1>4. \A k \in 0..m : Power(b, k) \in Nat /\ Power(b, k) # 0 /\ Q(k) \in Nat /\ c[k] = NatRep(Q(k))
  <2>. HIDE DEF b
  <2>. QED BY <1>3, QuotientsAre
<1>5. m \in Nat /\ m > 0
  BY NumbersAssumption
<1>6. Q(0) = v
  <2>. HIDE DEF b
  <2>1. Power(b, 0) = 1 /\ v \div 1 = v
    BY PowerSteps
  <2>. QED BY <2>1
<1>7. Q(m) = 0
  <2>. HIDE DEF b
  <2>1. Pow2(m) <= Power(b, m) /\ Pow2(m) \in Nat /\ Power(b, m) \in Nat /\ Power(b, m) # 0
    BY <1>3, <1>5, PowersGrow, Pow2Is, PowerIsNat
  <2> DEFINE p == Power(b, m)
  <2>2. p \in Nat /\ p # 0 /\ v \in 0..p - 1
    BY <2>1
  <2>. HIDE DEF p
  <2>3. v \div p = 0
    BY <2>2, SmallRemainder
  <2>. QED BY <2>3 DEF p
<1>8. ASSUME NEW k \in Nat, k < m
      PROVE  Q(k + 1) = Q(k) \div b /\ Q(k) <= v
  <2>. HIDE DEF b
  <2> DEFINE p == Power(b, k)
  <2>1. p \in Nat /\ p # 0 /\ Power(b, k + 1) = b * p
    BY <1>3, PowerSteps, PowerIsNat
  <2>. HIDE DEF p
  <2>2. (v \div p) \div b = v \div (p * b) /\ p * b = b * p /\ v \div p <= v
    <3>1. (v \div p) \div b = v \div (p * b)
      BY <1>3, <2>1, DivisionTwice
    <3>2. v \div p <= v /\ p * b = b * p
      BY <1>3, <2>1
    <3>. QED BY <3>1, <3>2
  <2>. QED BY <2>1, <2>2 DEF p
<1>9. ASSUME NEW k \in 0..m
      PROVE  lean_nat_dec_eq(c[k], Box(0)) = (Q(k) = 0)
  <2> DEFINE q == Q(k)
  <2>1. q \in Nat /\ c[k] = NatRep(q) /\ Box(0) = NatRep(0) /\ 0 \in Nat
    BY <1>2, <1>4
  <2>. HIDE DEF c, q
  <2>2. lean_nat_dec_eq(NatRep(q), NatRep(0)) = (q = 0)
    BY <2>1, NatArithmetic
  <2>. QED BY <2>1, <2>2 DEF q
<1>10. ASSUME NEW k \in 0..m
       PROVE  lean_nat_mod(c[k], ChunkBase).w = Q(k) % b /\ Q(k) % b \in Nat
  <2>. HIDE DEF c, Q, b
  <2> DEFINE q == Q(k)
             r == q % b
  <2>1. q \in Nat /\ c[k] = NatRep(q)
    BY <1>4
  <2>. HIDE DEF q
  <2>2. lean_nat_mod(NatRep(q), NatRep(b)) = NatRep(IF b = 0 THEN q ELSE q % b)
    BY <1>3, <2>1, NatArithmetic
  <2>3. lean_nat_mod(NatRep(q), NatRep(b)) = NatRep(r)
    BY <1>3, <2>2
  <2>4. r \in Nat
    BY <1>3, <2>1
  <2>. HIDE DEF r
  <2>5. NatRep(r).w = r
    BY <2>4, NatReps
  <2>. QED BY <1>3, <2>1, <2>3, <2>4, <2>5 DEF q, r
<1>11. CASE o.small
  <2>1. to_decimal_string(o) = Digits(v)
    BY <1>1, <1>2, <1>11
  <2>. QED BY <2>1, DigitsOfNumbers
<1>12. CASE ~o.small
  <2>1. v # 0 /\ to_decimal_string(o) = t[n - 1]
    BY <1>1, <1>2, <1>12
  <2>. HIDE DEF o, b, c, Q
  <2>2. \E k \in 1..m : Q(k) = 0 /\ Q(k - 1) # 0
    <3> DEFINE S == {k \in Nat : Q(k) = 0 => \E j \in 1..k : Q(j) = 0 /\ Q(j - 1) # 0}
    <3>1. 0 \in S
      BY <1>6, <2>1
    <3>2. ASSUME NEW k \in Nat, k \in S
          PROVE  k + 1 \in S
      <4>1. CASE Q(k) = 0
        BY <3>2, <4>1
      <4>2. CASE Q(k) # 0
        <5>1. k + 1 \in 1..k + 1 /\ (k + 1) - 1 = k
          OBVIOUS
        <5>. QED BY <4>2, <5>1
      <4>. QED BY <4>1, <4>2
    <3>3. m \in S
      <4>. HIDE DEF S, m
      <4>. QED BY <1>5, <3>1, <3>2, NumbersByInduction
    <3>. QED BY <1>7, <3>3
  <2>3. \E k \in 1..2 * P : lean_nat_dec_eq(c[k], Box(0)) /\ ~lean_nat_dec_eq(c[k - 1], Box(0))
    <3>1. PICK k \in 1..m : Q(k) = 0 /\ Q(k - 1) # 0
      BY <2>2
    <3>2. k \in 0..m /\ k - 1 \in 0..m
      BY <1>5
    <3>. QED BY <1>9, <3>1, <3>2
  <2>4. n \in 1..m /\ lean_nat_dec_eq(c[n], Box(0)) /\ ~lean_nat_dec_eq(c[n - 1], Box(0))
    <3> DEFINE A(k) == lean_nat_dec_eq(c[k], Box(0)) /\ ~lean_nat_dec_eq(c[k - 1], Box(0))
    <3>. HIDE DEF A
    <3>1. \E k \in 1..m : A(k)
      BY <2>3 DEF A
    <3>2. n = CHOOSE k \in 1..m : A(k)
      BY DEF A
    <3>. HIDE DEF n, m
    <3>3. n \in 1..m /\ A(n)
      BY <3>1, <3>2
    <3>. QED BY <3>3 DEF A
  <2>. HIDE DEF n
  <2>5. n \in Nat /\ n # 0 /\ n - 1 \in Nat /\ n - 1 < m /\ (n - 1) + 1 = n /\ n \in 0..m /\ n - 1 \in 0..m
    BY <1>5, <2>4
  <2>6. Q(n) = 0 /\ Q(n - 1) # 0
    BY <1>9, <2>4, <2>5
  <2>7. Q(n - 1) % b = Q(n - 1) /\ Q(n - 1) \in Nat /\ Q(n - 1) < Pow2(2 * P)
    <3> DEFINE q == Q(n - 1)
    <3>1. q \in Nat /\ q \div b = 0 /\ q <= v
      BY <1>4, <1>8, <2>5, <2>6
    <3>2. Pow2(2 * P) \in Nat
      BY <1>5, Pow2Is
    <3>. HIDE DEF q
    <3>3. q % b = q
      <4>1. q = (q \div b) * b + (q % b) /\ q % b \in 0..b - 1
        <5>1. q \in Int /\ b \in Nat /\ b # 0
          BY <1>3, <3>1
        <5>. HIDE DEF b
        <5>. QED BY <5>1, Division
      <4>2. 0 * b = 0
        BY <1>3
      <4>. QED BY <1>3, <3>1, <4>1, <4>2
    <3>. QED BY <3>1, <3>2, <3>3 DEF q
  <2>8. Texts(t, c, n)
    BY <2>5, TextsExist
  <2>. HIDE DEF t
  <2>9. \A i \in 0..n - 1 : t[i] = IF i = 0 THEN Digits(lean_nat_mod(c[n - 1], ChunkBase).w)
                                   ELSE t[i - 1] \o Padded(lean_nat_mod(c[n - 1 - i], ChunkBase).w, ChunkWidth)
    BY <2>8 DEF Texts
  <2> DEFINE Good(i) == /\ t[i] \in Seq(Nat) /\ Len(t[i]) > 0 /\ t[i][1] # 0
                        /\ DigitsValue(t[i]) = Q(n - 1 - i)
             S == {i \in Nat : i <= n - 1 => Good(i)}
  <2>10. 0 \in S
    <3>1. 0 \in 0..n - 1 /\ n - 1 - 0 = n - 1
      BY <2>5
    <3>2. t[0] = Digits(Q(n - 1))
      BY <1>10, <2>5, <2>7, <2>9, <3>1
    <3>3. Good(0)
      BY <2>6, <2>7, <3>1, <3>2, DigitsOfNumbers
    <3>. QED BY <3>3
  <2>11. ASSUME NEW i \in Nat, i < n - 1, i \in S
         PROVE  i + 1 \in S
    <3> DEFINE k == n - 1 - (i + 1)
               q == Q(k)
               p == Padded(q % b, ChunkWidth)
               s == t[i]
    <3>1. /\ i + 1 \in 0..n - 1 /\ i + 1 # 0 /\ (i + 1) - 1 = i /\ i <= n - 1
          /\ k \in Nat /\ k \in 0..m /\ k < m /\ k + 1 = n - 1 - i
      BY <1>5, <2>4, <2>5, <2>11
    <3>2. q \in Nat /\ lean_nat_mod(c[k], ChunkBase).w = q % b /\ q % b \in Nat
      BY <1>4, <1>10, <3>1
    <3>3. t[i + 1] = s \o p
      BY <2>9, <3>1, <3>2
    <3>4. s \in Seq(Nat) /\ Len(s) > 0 /\ s[1] # 0 /\ DigitsValue(s) = Q(k + 1)
      BY <2>11, <3>1
    <3>5. Q(k + 1) = q \div b
      BY <1>8, <3>1
    <3>. HIDE DEF k, q, s
    <3>6. s \o p \in Seq(Nat) /\ DigitsValue(s \o p) = (q \div b) * b + ((q % b) % b)
      BY <1>3, <3>2, <3>4, <3>5, DigitsBehind DEF b
    <3>7. (q \div b) * b + ((q % b) % b) = q
      <4>1. q = (q \div b) * b + (q % b) /\ q % b \in 0..b - 1
        <5>1. q \in Int /\ b \in Nat /\ b # 0
          BY <1>3, <3>2
        <5>. QED BY <5>1, Division
      <4> DEFINE r == q % b
      <4>2. r % b = r
        <5>1. r \in 0..b - 1
          BY <4>1
        <5>. HIDE DEF r
        <5>. QED BY <1>3, <5>1, SmallRemainder
      <4>. QED BY <4>1, <4>2
    <3>8. Len(s \o p) > 0 /\ (s \o p)[1] = s[1]
      <4>1. p \in Seq(0..Radix - 1)
        BY <1>3, <3>2, PaddedGrows
      <4>. HIDE DEF p
      <4>. QED BY <3>4, <4>1
    <3>9. Good(i + 1)
      BY <3>3, <3>4, <3>6, <3>7, <3>8 DEF q, k
    <3>. QED BY <3>9
  <2>12. Good(n - 1)
    <3>1. \A i \in 0..n - 1 : i \in S
      <4>. HIDE DEF S
      <4>. QED BY <2>5, <2>10, <2>11, RangeByInduction
    <3>2. n - 1 \in 0..n - 1
      BY <2>5
    <3>. QED BY <3>1, <3>2
  <2>13. n - 1 - (n - 1) = 0
    BY <2>5
  <2>. QED BY <1>6, <2>1, <2>12, <2>13 DEF o
<1>. QED
  BY <1>11, <1>12

-----------------------------------------------------------------------------
\* The operations that convert a number.
Conversions == {"toInt", "natAbs", "toNat", "toNatOption", "cast", "toChar", "repr", "truncate", "toUInt"}

\* Nothing is asked of the other operations.
LEMMA OthersConvertNothing ==
  ASSUME last'.op \notin Conversions
  PROVE  ConversionsKeepValues'
BY DEF Conversions, ConversionsKeepValues

\* What is asked of a conversion to a Nat or an Int.
LEMMA SettlesNumber ==
  ASSUME NEW op \in {"toInt", "natAbs", "toNat", "toNatOption"}, last'.op = op,
         op = "toInt" => Value(acc') = last'.x,
         op = "natAbs" => Value(acc') = AbsV(last'.x),
         op = "toNat" /\ acc'.type = "nat" => Value(acc') = IF last'.x < 0 THEN 0 ELSE last'.x,
         op = "toNatOption" => IF last'.x < 0 THEN acc'.type = "error" ELSE Value(acc') = last'.x
  PROVE  ConversionsKeepValues'
BY DEF ConversionsKeepValues

\* What is asked of a conversion to a word, a character or a text.
LEMMA SettlesOther ==
  ASSUME NEW op \in {"cast", "toChar", "repr", "truncate", "toUInt"}, last'.op = op,
         op = "cast" => Value(acc') = Modular(last'.x, acc'.type, acc'.bits),
         op = "toChar" =>
           (acc'.type = "char") = (last'.x \in (0..Min({MaxChar, Pow2(P \div 2) - 1})) \ Surrogates),
         op = "repr" =>
           DigitsValue(acc'.rep) = last'.x /\ (acc'.rep[1] = 0 => last'.x = 0 /\ Len(acc'.rep) = 1),
         op = "truncate" =>
           Value(acc') = IF last'.type = "int" /\ last'.x \notin I64 THEN 0
                         ELSE Modular(last'.x, acc'.type, acc'.bits),
         op = "toUInt" =>
           IF last'.x < Pow2(acc'.bits) THEN acc'.type = "uint" /\ Value(acc') = last'.x
           ELSE last'.x <= MaxSmallNat => acc'.type = "error"
  PROVE  ConversionsKeepValues'
BY DEF ConversionsKeepValues

\* What is recorded of an operation.
LEMMA Recorded ==
  ASSUME NEW op, NEW x, NEW y, Record(op, x, y)
  PROVE  last'.op = op /\ last'.x = x /\ last'.type = acc.type
BY DEF Record

\* Fresh computations and arithmetic convert nothing.
LEMMA ArithmeticConvertsNothing ==
  ASSUME \/ NatStep \/ NatBitStep \/ NatOtherStep \/ NatLoop \/ IntStep \/ IntQuery
         \/ FinStep \/ BitVecStep \/ RangeStep
         \/ \E type \in WordTypes, boxed \in BOOLEAN : WordStep(type, boxed)
  PROVE  ConversionsKeepValues'
<1> DEFINE Others == NatOps \cup NatBitOps \cup NatShifts \cup NatOtherOps \cup IntOps \cup UIntOps \cup SIntOps
                       \cup FinOps \cup BitVecOps \cup {"succ", "any", "all", "fold", "neg", "sign", "size"} \cup Comparisons
<1>1. Others \cap Conversions = {}
  BY DEF NatOps, NatBitOps, NatShifts, NatOtherOps, IntOps, UIntOps, SIntOps, FinOps, BitVecOps, Comparisons,
         Conversions
<1>2. last'.op \in Others
  <2>1. CASE NatStep
    BY <2>1, Recorded DEF NatStep
  <2>2. CASE NatBitStep
    <3>1. PICK op \in NatBitOps \cup {"shiftLeft", "shiftRight"} : \E y \in NatOperandsOf(op) : Record(op, Value(acc), y)
      BY <2>2 DEF NatBitStep
    <3>. QED BY <3>1, Recorded DEF NatShifts
  <2>3. CASE NatOtherStep
    <3>1. \/ \E op \in NatOtherOps \cup {"pow"} : \E y \in NatOperandsOf(op) : Record(op, Value(acc), y)
          \/ Record("succ", Value(acc), 0)
      BY <2>3 DEF NatOtherStep
    <3>. QED BY <3>1, Recorded DEF NatShifts
  <2>4. CASE NatLoop
    <3>1. \/ \E k \in NatOperands : Record("any", Value(acc), k) \/ Record("all", Value(acc), k)
          \/ Record("fold", Value(acc), 0)
      BY <2>4 DEF NatLoop
    <3>. QED BY <3>1, Recorded
  <2>5. CASE IntStep
    <3>1. \E op \in IntOps \cup {"neg"}, y \in Operands : Record(op, Value(acc), y)
      BY <2>5 DEF IntStep
    <3>. QED BY <3>1, Recorded
  <2>6. CASE IntQuery
    <3>1. \/ \E y \in Operands :
               Record("decEq", Value(acc), y) \/ Record("decLt", Value(acc), y) \/ Record("decLe", Value(acc), y)
          \/ Record("sign", Value(acc), 0)
      BY <2>6 DEF IntQuery
    <3>. QED BY <3>1, Recorded DEF Comparisons
  <2>7. CASE FinStep
    <3>1. \E op \in FinOps, y \in 0..acc.bits - 1 : Record(op, Value(acc), y)
      BY <2>7 DEF FinStep
    <3>. QED BY <3>1, Recorded
  <2>8. CASE BitVecStep
    <3>1. \E op \in BitVecOps, y \in WordOperands(acc.bits) \cup Shifts : Record(op, Value(acc), y)
      BY <2>8 DEF BitVecStep
    <3>. QED BY <3>1, Recorded
  <2>9. CASE RangeStep
    BY <2>9 DEF RangeStep
  <2>10. CASE \E type \in WordTypes, boxed \in BOOLEAN : WordStep(type, boxed)
    <3>1. PICK type \in WordTypes, boxed \in BOOLEAN : WordStep(type, boxed)
      BY <2>10
    <3>2. PICK op \in IF IsSigned(type) THEN SIntOps ELSE UIntOps, w \in WordOperands(acc.bits) :
            Record(op, Value(acc), WordValue(w, type, acc.bits))
      BY <3>1 DEF WordStep
    <3>3. op \in UIntOps \cup SIntOps
      BY <3>2
    <3>. QED BY <3>2, <3>3, Recorded
  <2>. HIDE DEF Others
  <2>. QED BY <2>1, <2>2, <2>3, <2>4, <2>5, <2>6, <2>7, <2>8, <2>9, <2>10
<1>. HIDE DEF Others
<1>. QED
  BY <1>1, <1>2, OthersConvertNothing

\* A text has the digits of its Nat.
LEMMA NatQueryConverts ==
  ASSUME NumbersInv, last = Fresh, NatQuery
  PROVE  ConversionsKeepValues'
<1>1. acc.type = "nat"
  BY DEF NatQuery
<1>2. PICK v \in Nat : acc.rep = NatRep(v) /\ Value(acc) = v
  BY <1>1, Begins, Held
<1>3. v < Pow2(2 * P)
  BY <1>2, Begins DEF Small
<1>4. CASE \/ \E y \in NatOperands :
                Record("decEq", Value(acc), y) \/ Record("decLt", Value(acc), y) \/ Record("decLe", Value(acc), y)
           \/ Record("isPowerOfTwo", Value(acc), 0)
  BY <1>4, Recorded, OthersConvertNothing DEF Conversions
<1>5. CASE Result("text", to_decimal_string(acc.rep)) /\ Record("repr", Value(acc), 0)
  <2> DEFINE s == to_decimal_string(NatRep(v))
  <2>1. DigitsValue(s) = v /\ (s[1] = 0 => v = 0 /\ Len(s) = 1)
    BY <1>3, PrintedDigits
  <2>. HIDE DEF s
  <2>2. acc'.rep = s
    <3>1. acc' = Number("text", s, acc.bits)
      BY <1>2, <1>5 DEF Result, s
    <3>. QED BY <3>1 DEF Number
  <2>3. last'.op = "repr" /\ last'.x = v
    BY <1>2, <1>5, Recorded
  <2>. QED BY <2>1, <2>2, <2>3, SettlesOther
<1>. QED
  BY <1>4, <1>5 DEF NatQuery

\* A Nat becomes the Int of the same value.
LEMMA NatToIntConverts ==
  ASSUME NumbersInv, last = Fresh, NatToInt
  PROVE  ConversionsKeepValues'
<1>1. acc.type = "nat" /\ Result("int", lean_nat_to_int(acc.rep)) /\ Record("toInt", Value(acc), 0)
  BY DEF NatToInt
<1>2. PICK v \in Nat : acc.rep = NatRep(v) /\ Value(acc) = v
  BY <1>1, Begins, Held
<1>3. Result("int", BigIntResult(v)) /\ v \in Int
  BY <1>1, <1>2, IntConversions
<1>4. Value(acc') = v
  BY <1>3, IntResult
<1>. QED
  BY <1>1, <1>2, <1>4, Recorded, SettlesNumber

\* An Int becomes a Nat of its value, or of its absolute value, or an error.
LEMMA IntToNatConverts ==
  ASSUME NumbersInv, last = Fresh, IntToNat
  PROVE  ConversionsKeepValues'
<1>1. acc.type = "int"
  BY DEF IntToNat
<1>2. PICK x \in Int : acc.rep = BigIntResult(x) /\ Value(acc) = x
  BY <1>1, Begins, Held
<1> DEFINE n == IF x >= 0 THEN AbsV(x) ELSE 0
<1>3. natAbs(acc.rep) = NatRep(AbsV(x)) /\ AbsV(x) \in Nat /\ toNat(acc.rep) = NatRep(n)
  BY <1>2, IntConversions
<1>4. n \in Nat /\ n = IF x < 0 THEN 0 ELSE x
  BY <1>3 DEF AbsV
<1>. HIDE DEF n
<1>5. CASE Result("nat", natAbs(acc.rep)) /\ Record("natAbs", Value(acc), 0)
  <2>1. Value(acc') = AbsV(x)
    BY <1>3, <1>5, NatResult
  <2>. QED BY <1>2, <1>5, <2>1, Recorded, SettlesNumber
<1>6. CASE Result("nat", toNat(acc.rep)) /\ Record("toNat", Value(acc), 0)
  <2>1. Value(acc') = IF x < 0 THEN 0 ELSE x
    BY <1>3, <1>4, <1>6, NatResult
  <2>2. last'.op = "toNat" /\ last'.x = x
    BY <1>2, <1>6, Recorded
  <2>. QED BY <2>1, <2>2, SettlesNumber
<1>7. CASE /\ IF isNonNeg(acc.rep) THEN Result("nat", natAbs(acc.rep)) ELSE Result("error", 0)
           /\ Record("toNatOption", Value(acc), 0)
  <2>1. isNonNeg(acc.rep) <=> x >= 0
    BY <1>2, IntReps DEF isNonNeg
  <2>2. last'.op = "toNatOption" /\ last'.x = x
    BY <1>2, <1>7, Recorded
  <2>3. CASE x < 0
    <3>1. Result("error", 0)
      BY <1>7, <2>1, <2>3
    <3>2. acc'.type = "error"
      BY <3>1, OtherResult
    <3>. QED BY <2>2, <2>3, <3>2, SettlesNumber
  <2>4. CASE x >= 0
    <3>1. Result("nat", NatRep(AbsV(x))) /\ AbsV(x) = x
      BY <1>3, <1>7, <2>1, <2>4 DEF AbsV
    <3>2. Value(acc') = x
      BY <1>3, <3>1, NatResult
    <3>. QED BY <2>2, <2>4, <3>2, SettlesNumber
  <2>. QED BY <2>3, <2>4
<1>. QED
  BY <1>5, <1>6, <1>7 DEF IntToNat

\* What a word of a width stands for.
LEMMA WordsOfNumbers ==
  ASSUME NEW type, NEW x \in Int, NEW b \in Nat, b # 0
  PROVE  /\ WordValue(Wrap(x, b), type, b) = Modular(x, type, b) /\ Wrap(x, b) \in 0..Pow2(b) - 1
         /\ WordValue(Wrap(0, b), type, b) = 0
<1>1. WordValue(Wrap(x, b), type, b) = Modular(x, type, b)
  BY DEF WordValue, Modular, IsSigned
<1>2. Wrap(0, b) = 0 /\ Signed(0, b) = 0
  <2>1. 0 \in 0..Pow2(b) - 1 /\ Pow2(b - 1) > 0
    <3>1. Pow2(b) \in Nat /\ Pow2(b) > 1 /\ Pow2(b - 1) \in Nat /\ Pow2(b - 1) > 0
      BY Words
    <3>. QED BY <3>1
  <2>2. Wrap(0, b) = 0
    BY <2>1, Words
  <2>. QED BY <2>1, <2>2 DEF Signed
<1>. QED
  BY <1>1, <1>2, Words DEF WordValue

\* A word becomes a character, if it is one.
LEMMA WordQueryConverts ==
  ASSUME NumbersInv, last = Fresh, WordQuery
  PROVE  ConversionsKeepValues'
<1>1. acc.type \in WordTypes
  BY DEF WordQuery
<1>2. CASE \E op \in Comparisons, w \in WordOperands(acc.bits) : Record(op, Value(acc), WordValue(w, acc.type, acc.bits))
  <2>1. Comparisons \cap Conversions = {}
    BY DEF Comparisons, Conversions
  <2>. QED BY <1>2, <2>1, Recorded, OthersConvertNothing
<1>3. CASE /\ IF isValidChar(Value(acc)) THEN Result("char", Value(acc)) ELSE Result("error", 0)
           /\ Record("toChar", Value(acc), 0)
  <2> DEFINE x == Value(acc)
             a == MaxChar
             b == Pow2(P \div 2) - 1
  <2>1. x \in Int
    BY <1>1, HeldWord
  <2>2. a \in Nat /\ b \in Nat /\ Pow2(P \div 2) = b + 1
    <3>1. P \div 2 \in Nat
      BY Borders
    <3>2. Pow2(P \div 2) \in Nat /\ Pow2(P \div 2) > 0
      BY <3>1, Pow2Is
    <3>. QED BY <3>2, NumbersAssumption
  <2>3. Min({a, b}) = IF a <= b THEN a ELSE b
    <3>. HIDE DEF a, b
    <3>. QED BY <2>2 DEF Min
  <2>4. isValidChar(x) <=> x \in (0..Min({a, b})) \ Surrogates
    <3>1. isValidChar(x) <=> 0 <= x /\ x < b + 1 /\ x <= a /\ x \notin Surrogates
      BY <2>2 DEF isValidChar, char_from_u32
    <3>. HIDE DEF x, a, b
    <3>. QED BY <2>1, <2>2, <2>3, <3>1
  <2>5. acc'.type = "char" <=> isValidChar(x)
    BY <1>3, OtherResult
  <2>6. (acc'.type = "char") = (x \in (0..Min({a, b})) \ Surrogates)
    BY <2>4, <2>5
  <2>7. last'.op = "toChar" /\ last'.x = x
    BY <1>3, Recorded
  <2>. HIDE DEF x
  <2>. QED BY <2>6, <2>7, SettlesOther
<1>. QED
  BY <1>2, <1>3 DEF WordQuery

\* A word is cut or extended to the word of another width that stands for the
\* same number modulo 2^bits.
LEMMA WordCastConverts ==
  ASSUME NumbersInv, last = Fresh, WordCast
  PROVE  ConversionsKeepValues'
<1>1. acc.type \in WordTypes /\ Record("cast", Value(acc), 0)
  BY DEF WordCast
<1>2. PICK type \in WordTypes : \E bits \in WidthsOf(type) :
        acc' = Number(type, mk(Cast(acc.rep.w, acc.type, acc.bits, bits), bits), bits)
  BY DEF WordCast
<1>3. PICK bits \in WidthsOf(type) : acc' = Number(type, mk(Cast(acc.rep.w, acc.type, acc.bits, bits), bits), bits)
  BY <1>2
<1> DEFINE x == Value(acc)
<1>4. bits \in Nat /\ bits # 0 /\ x \in Int /\ x = WordValue(acc.rep.w, acc.type, acc.bits)
  BY <1>1, WidthsAndBounds, HeldWord
<1>5. Cast(acc.rep.w, acc.type, acc.bits, bits) = Wrap(x, bits)
  BY <1>4 DEF Cast
<1>. HIDE DEF x
<1>6. Wrap(x, bits) \in 0..Pow2(bits) - 1 /\ WordValue(Wrap(x, bits), type, bits) = Modular(x, type, bits)
  BY <1>4, WordsOfNumbers
<1>7. Value(acc') = Modular(x, acc'.type, acc'.bits)
  BY <1>3, <1>5, <1>6, WordResult
<1>8. last'.op = "cast" /\ last'.x = x
  BY <1>1, Recorded DEF x
<1>. QED
  BY <1>7, <1>8, SettlesOther

\* A word becomes the Nat or Int of its value, or an error.
LEMMA WordToNatOrIntConverts ==
  ASSUME NumbersInv, last = Fresh, WordToNatOrInt
  PROVE  ConversionsKeepValues'
<1>1. acc.type \in WordTypes
  BY DEF WordToNatOrInt
<1> DEFINE w == acc.rep.w
           b == acc.bits
           x == Value(acc)
<1>2. b \in Nat /\ b # 0 /\ w \in 0..Pow2(b) - 1 /\ x = WordValue(w, acc.type, b) /\ x \in Int
  BY <1>1, HeldWord, WidthsAndBounds
<1>3. w \in Nat /\ Pow2(b) \in Nat
  BY <1>2, Pow2Is
<1>4. UIntToNat(w) = NatRep(w) /\ UIntToInt(w) = BigIntResult(w) /\ w \in Int
  BY <1>3, NatReps, IntConversions DEF UIntToNat, UIntToInt
<1>5. ~IsSigned(acc.type) => x = w
  BY <1>2 DEF WordValue, IsSigned
<1>6. IsSigned(acc.type) => x = Signed(w, b) /\ SIntToInt(w, b) = BigIntResult(x) /\ (x >= 0 => x = w)
  <2>1. IsSigned(acc.type) => x = Signed(w, b)
    BY <1>2 DEF WordValue, IsSigned
  <2>2. SIntToInt(w, b) = lean_int64_to_int(Signed(w, b))
    BY DEF SIntToInt
  <2>3. lean_int64_to_int(x) = BigIntResult(x)
    BY <1>2, IntReps
  <2>4. Signed(w, b) = w \/ Signed(w, b) = w - Pow2(b)
    BY DEF Signed
  <2>5. w - Pow2(b) < 0
    BY <1>2, <1>3
  <2>. HIDE DEF w, b, x
  <2>. QED BY <1>2, <2>1, <2>2, <2>3, <2>4, <2>5
<1>7. CASE ~IsSigned(acc.type) /\ Result("nat", UIntToNat(w)) /\ Record("toNat", x, 0)
  <2>1. Value(acc') = x /\ x >= 0
    BY <1>3, <1>4, <1>5, <1>7, NatResult
  <2>2. last'.op = "toNat" /\ last'.x = x
    BY <1>7, Recorded
  <2>. HIDE DEF x
  <2>. QED BY <1>2, <2>1, <2>2, SettlesNumber
<1>8. CASE ~IsSigned(acc.type) /\ Result("int", UIntToInt(w)) /\ Record("toInt", x, 0)
  <2>1. Value(acc') = x
    BY <1>4, <1>5, <1>8, IntResult
  <2>2. last'.op = "toInt" /\ last'.x = x
    BY <1>8, Recorded
  <2>. HIDE DEF x
  <2>. QED BY <2>1, <2>2, SettlesNumber
<1>9. CASE IsSigned(acc.type) /\ Result("int", SIntToInt(w, b)) /\ Record("toInt", x, 0)
  <2>1. Value(acc') = x
    BY <1>2, <1>6, <1>9, IntResult
  <2>2. last'.op = "toInt" /\ last'.x = x
    BY <1>9, Recorded
  <2>. HIDE DEF x
  <2>. QED BY <2>1, <2>2, SettlesNumber
<1>10. CASE /\ IsSigned(acc.type)
            /\ IF x < 0 THEN Result("error", 0) ELSE Result("nat", UIntToNat(w))
            /\ Record("toNat", x, 0)
  <2>1. last'.op = "toNat" /\ last'.x = x
    BY <1>10, Recorded
  <2>2. CASE x < 0
    <3>1. acc'.type = "error"
      BY <1>10, <2>2, OtherResult
    <3>. QED BY <2>1, <3>1, SettlesNumber
  <2>3. CASE x >= 0
    <3>1. Result("nat", NatRep(w)) /\ x = w
      BY <1>2, <1>4, <1>6, <1>10, <2>3
    <3>2. Value(acc') = x
      BY <1>3, <3>1, NatResult
    <3>. HIDE DEF x
    <3>. QED BY <1>2, <2>1, <2>3, <3>2, SettlesNumber
  <2>. QED BY <1>2, <2>2, <2>3
<1>. QED
  BY <1>7, <1>8, <1>9, <1>10 DEF WordToNatOrInt

\* A Nat or an Int becomes the word that stands for it modulo 2^bits, and an Int
\* beyond i64 becomes 0.
LEMMA NatOrIntToWordConverts ==
  ASSUME NumbersInv, last = Fresh, NatOrIntToWord
  PROVE  ConversionsKeepValues'
<1>1. PICK type \in WordTypes : \E bits \in WidthsOf(type) :
        /\ \/ acc.type = "nat" /\ acc' = Number(type, mk(UIntOfNat(acc.rep, bits), bits), bits)
           \/ acc.type = "int" /\ acc' = Number(type, mk(OfInt(acc.rep, bits), bits), bits)
        /\ Record("truncate", Value(acc), 0)
  BY DEF NatOrIntToWord
<1>2. PICK bits \in WidthsOf(type) :
        /\ \/ acc.type = "nat" /\ acc' = Number(type, mk(UIntOfNat(acc.rep, bits), bits), bits)
           \/ acc.type = "int" /\ acc' = Number(type, mk(OfInt(acc.rep, bits), bits), bits)
        /\ Record("truncate", Value(acc), 0)
  BY <1>1
<1>3. bits \in Nat /\ bits # 0
  BY WidthsAndBounds
<1>4. CASE acc.type = "nat" /\ acc' = Number(type, mk(UIntOfNat(acc.rep, bits), bits), bits)
  <2>1. PICK v \in Nat : acc.rep = NatRep(v) /\ Value(acc) = v
    BY <1>4, Begins, Held
  <2>2. UIntOfNat(acc.rep, bits) = Wrap(v, bits)
    BY <2>1, NatReps DEF UIntOfNat
  <2>3. Wrap(v, bits) \in 0..Pow2(bits) - 1 /\ WordValue(Wrap(v, bits), type, bits) = Modular(v, type, bits)
    BY <1>3, WordsOfNumbers
  <2>4. Value(acc') = Modular(v, acc'.type, acc'.bits)
    BY <1>4, <2>2, <2>3, WordResult
  <2>5. last'.op = "truncate" /\ last'.x = v /\ last'.type = "nat"
    BY <1>2, <1>4, <2>1, Recorded
  <2>. QED BY <2>4, <2>5, SettlesOther
<1>5. CASE acc.type = "int" /\ acc' = Number(type, mk(OfInt(acc.rep, bits), bits), bits)
  <2>1. PICK v \in Int : acc.rep = BigIntResult(v) /\ Value(acc) = v
    BY <1>5, Begins, Held
  <2>2. IntValue(acc.rep) = v /\ (FitsI64(acc.rep) <=> v \in I64)
    BY <2>1, IntReps, FitsIsRange
  <2>3. last'.op = "truncate" /\ last'.x = v /\ last'.type = "int"
    BY <1>2, <1>5, <2>1, Recorded
  <2>4. CASE v \in I64
    <3>1. OfInt(acc.rep, bits) = Wrap(v, bits)
      BY <2>2, <2>4 DEF OfInt
    <3>2. Wrap(v, bits) \in 0..Pow2(bits) - 1 /\ WordValue(Wrap(v, bits), type, bits) = Modular(v, type, bits)
      BY <1>3, WordsOfNumbers
    <3>3. Value(acc') = Modular(v, acc'.type, acc'.bits)
      BY <1>5, <3>1, <3>2, WordResult
    <3>. QED BY <2>3, <2>4, <3>3, SettlesOther
  <2>5. CASE v \notin I64
    <3>1. OfInt(acc.rep, bits) = Wrap(0, bits)
      BY <2>2, <2>5 DEF OfInt
    <3>2. Wrap(0, bits) \in 0..Pow2(bits) - 1 /\ WordValue(Wrap(0, bits), type, bits) = 0
      <4>1. 0 \in Int
        OBVIOUS
      <4>. QED BY <1>3, <4>1, WordsOfNumbers
    <3>3. Value(acc') = 0
      BY <1>5, <3>1, <3>2, WordResult
    <3>. QED BY <2>3, <2>5, <3>3, SettlesOther
  <2>. QED BY <2>4, <2>5
<1>. QED
  BY <1>2, <1>4, <1>5

\* A Nat becomes its word, or an error if it is small and too wide.
LEMMA NatToUIntCheckedConverts ==
  ASSUME NumbersInv, last = Fresh, NatToUIntChecked
  PROVE  ConversionsKeepValues'
<1>1. acc.type = "nat" /\ Record("toUInt", Value(acc), 0)
  BY DEF NatToUIntChecked
<1>2. PICK bits \in Widths :
        acc' = IF acc.rep.small /\ acc.rep.w >= Pow2(bits)
               THEN Number("error", 0, bits) ELSE Number("uint", mk(Wrap(acc.rep.w, bits), bits), bits)
  BY DEF NatToUIntChecked
<1>3. bits \in Nat /\ bits # 0 /\ "uint" \in WordTypes /\ bits \in WidthsOf("uint") /\ ~IsSigned("uint") /\ "uint" # "error"
  BY WidthsAndBounds DEF WordTypes, WidthsOf, IsSigned
<1>4. PICK v \in Nat : acc.rep = NatRep(v) /\ Value(acc) = v
  BY <1>1, Begins, Held
<1>5. acc.rep.w = v /\ (acc.rep.small <=> v <= MaxSmallNat) /\ MaxSmallNat \in Nat
  <2>1. NatRep(v).w = v /\ NatRep(v).small = (v <= MaxSmallNat)
    BY NatReps
  <2>. QED BY <1>4, <2>1, Borders
<1>6. last'.op = "toUInt" /\ last'.x = v
  BY <1>1, <1>4, Recorded
<1>7. CASE acc.rep.small /\ acc.rep.w >= Pow2(bits)
  <2>1. acc' = Number("error", 0, bits)
    BY <1>2, <1>7
  <2>2. acc'.type = "error" /\ acc'.bits = bits
    BY <2>1 DEF Number
  <2>3. ~(v < Pow2(bits))
    BY <1>3, <1>5, <1>7, Pow2Is
  <2>. QED BY <1>6, <2>2, <2>3, SettlesOther
<1>8. CASE ~(acc.rep.small /\ acc.rep.w >= Pow2(bits))
  <2>1. acc' = Number("uint", mk(Wrap(v, bits), bits), bits)
    BY <1>2, <1>5, <1>8
  <2>2. Wrap(v, bits) \in 0..Pow2(bits) - 1
    BY <1>3, WordsOfNumbers
  <2>3. Value(acc') = WordValue(Wrap(v, bits), "uint", bits) /\ acc'.type = "uint" /\ acc'.bits = bits
    BY <1>3, <2>1, <2>2, WordResult
  <2>4. Value(acc') = Wrap(v, bits)
    BY <2>3 DEF WordValue
  <2>5. v < Pow2(bits) => Wrap(v, bits) = v
    <3>1. Pow2(bits) \in Nat /\ Pow2(bits) > 0
      BY <1>3, Pow2Is
    <3>2. \A q \in Nat : q > 0 /\ v < q => v % q = v
      OBVIOUS
    <3>. QED BY <3>1, <3>2 DEF Wrap
  <2>6. ~(v < Pow2(bits)) => ~(v <= MaxSmallNat)
    BY <1>3, <1>5, <1>8, Pow2Is
  <2>. QED BY <1>6, <2>3, <2>4, <2>5, <2>6, SettlesOther
<1>. QED
  BY <1>7, <1>8

\* A Fin or a BitVec becomes the Nat of its value.
LEMMA BoundedToNatConverts ==
  ASSUME NumbersInv, last = Fresh, BoundedToNat
  PROVE  ConversionsKeepValues'
<1>1. acc.type \in {"fin", "bitvec"} /\ Result("nat", acc.rep) /\ Record("toNat", Value(acc), 0)
  BY DEF BoundedToNat
<1>2. \E v \in Nat : acc.rep = NatRep(v) /\ Value(acc) = v
  <2>1. CASE acc.type = "fin"
    <3>1. acc.bits \in Nat /\ \E v \in 0..acc.bits - 1 : acc.rep = NatRep(v) /\ Value(acc) = v
      BY <2>1, Begins, Held, WidthsAndBounds
    <3>. QED BY <3>1
  <2>2. CASE acc.type = "bitvec"
    <3>1. \E v \in 0..Pow2(acc.bits) - 1 : acc.rep = NatRep(v) /\ Value(acc) = v
      BY <2>2, Begins, Held
    <3>. QED BY <3>1
  <2>. QED BY <1>1, <2>1, <2>2
<1>3. PICK v \in Nat : acc.rep = NatRep(v) /\ Value(acc) = v
  BY <1>2
<1>4. Value(acc') = v
  BY <1>1, <1>3, NatResult
<1>5. last'.op = "toNat" /\ last'.x = v /\ v >= 0
  BY <1>1, <1>3, Recorded
<1>. QED
  BY <1>4, <1>5, SettlesNumber

\* Every conversion keeps the value where it fits the target, in every state: also
\* across the borders of the two forms, and the digits of every Nat are its digits.
THEOREM ConversionsAlwaysKeepValues == Spec => []ConversionsKeepValues
<1>1. Init => NumbersInv /\ ConversionsKeepValues
  <2>1. Init => last.op \notin Conversions
    BY DEF Init, Fresh, Conversions
  <2>2. last.op \notin Conversions => ConversionsKeepValues
    BY DEF Conversions, ConversionsKeepValues
  <2>. QED BY <2>1, <2>2, ZeroIsHeld
<1>2. NumbersInv /\ ConversionsKeepValues /\ [Next]_vars => ConversionsKeepValues'
  <2>1. ASSUME ConversionsKeepValues, UNCHANGED vars
        PROVE  ConversionsKeepValues'
    <3>1. acc' = acc /\ last' = last
      BY <2>1 DEF vars
    <3>. QED BY <2>1, <3>1 DEF ConversionsKeepValues
  <2>2. ASSUME last' = Fresh
        PROVE  ConversionsKeepValues'
    <3>1. last'.op \notin Conversions
      BY <2>2 DEF Fresh, Conversions
    <3>. QED BY <3>1, OthersConvertNothing
  <2>3. ASSUME NumbersInv, last = Fresh, Compute
        PROVE  ConversionsKeepValues'
    <3>1. CASE UIntStep \/ UInt64Step \/ USizeStep \/ SIntStep \/ Int64Step \/ ISizeStep
      <4>1. \E type \in WordTypes, boxed \in BOOLEAN : WordStep(type, boxed)
        BY <3>1 DEF UIntStep, UInt64Step, USizeStep, SIntStep, Int64Step, ISizeStep, WordTypes
      <4>. QED BY <4>1, ArithmeticConvertsNothing
    <3>2. CASE NatStep \/ NatBitStep \/ NatOtherStep \/ NatLoop \/ IntStep \/ IntQuery \/ FinStep \/ BitVecStep \/ RangeStep
      BY <3>2, ArithmeticConvertsNothing
    <3>. QED
      BY <2>3, <3>1, <3>2, NatQueryConverts, WordQueryConverts, WordCastConverts, BoundedToNatConverts,
         NatToIntConverts, IntToNatConverts, WordToNatOrIntConverts, NatOrIntToWordConverts, NatToUIntCheckedConverts
      DEF Compute
  <2>4. ASSUME last = Fresh, New
        PROVE  last' = Fresh
    BY <2>4 DEF New
  <2>5. ASSUME Continue
        PROVE  last' = Fresh
    BY <2>5 DEF Continue
  <2>. QED BY <2>1, <2>2, <2>3, <2>4, <2>5 DEF Next
<1>3. Spec => []NumbersInv
  BY NumbersInvHolds
<1>. QED
  BY <1>1, <1>2, <1>3, PTL DEF Spec
=============================================================================
