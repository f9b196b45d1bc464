----------------------------- MODULE Codec_proofs -----------------------------
(***************************************************************************)
(* Proofs about module Codec, for any number of values of a byte, any      *)
(* length of a token and of frames, and any number of references: the      *)
(* three passes of the encoder agree, the receiver reads what the sender   *)
(* wrote, and a command frees its own memory and nothing else.             *)
(*                                                                         *)
(* The passes are folds.  What a fold computes is a recursive function,    *)
(* whose equation holds once a function is known to satisfy it: the first  *)
(* part finds one, by induction on the number of elements.                 *)
(***************************************************************************)
EXTENDS Codec, SequenceTheorems, WellFoundedInduction, TLAPS

-----------------------------------------------------------------------------
(* Induction and folds.                                                    *)

\* A set that has zero, and with a number the next one, has all of them.
LEMMA Induction ==
    ASSUME NEW P, 0 \in P, \A n \in Nat : n \in P => n + 1 \in P
    PROVE  Nat \subseteq P
<1> SUFFICES ASSUME Nat \ P # {} PROVE FALSE  OBVIOUS
<1> DEFINE T == Nat \ P
           R == OpToRel(<, Nat)
<1>1. IsWellFoundedOn(R, Nat)  BY NatLessThanWellFounded
<1>2. T \subseteq Nat /\ T # {}  OBVIOUS
<1> HIDE DEF T, R
<1>3. PICK x \in T : \A y \in T : ~(<<y, x>> \in R)
  BY <1>1, <1>2, WFMin
<1> USE DEF T, R
<1>4. x \in Nat /\ x \notin P /\ x # 0  BY <1>3
<1>5. x - 1 \in Nat /\ x - 1 < x /\ (x - 1) + 1 = x  BY <1>4
<1>6. x - 1 \notin P  BY <1>4, <1>5
<1>7. <<x - 1, x>> \in R  BY <1>4, <1>5 DEF OpToRel
<1>8. QED  BY <1>3, <1>5, <1>6, <1>7

\* The largest of some of the first n numbers.
LEMMA Largest ==
    ASSUME NEW n \in Nat, NEW s \in SUBSET (1..n), s # {}
    PROVE  Max(s) \in s /\ \A y \in s : Max(s) >= y
<1> DEFINE P == {k \in Nat : \A t \in SUBSET (1..k) :
                                t # {} => \E x \in t : \A y \in t : x >= y}
<1>1. 0 \in P
  <2>1. 1..0 = {}  OBVIOUS
  <2>2. \A t \in SUBSET (1..0) : t = {}  BY <2>1
  <2>3. QED  BY <2>2
<1>2. ASSUME NEW k \in Nat, k \in P PROVE k + 1 \in P
  <2> SUFFICES ASSUME NEW t \in SUBSET (1 .. k + 1), t # {}
      PROVE  \E x \in t : \A y \in t : x >= y
    OBVIOUS
  <2>1. CASE k + 1 \in t
    <3>1. \A y \in t : k + 1 >= y  OBVIOUS
    <3>2. QED  BY <2>1, <3>1
  <2>2. CASE k + 1 \notin t
    <3>1. t \in SUBSET (1..k)
      <4> SUFFICES ASSUME NEW y \in t PROVE y \in 1..k  OBVIOUS
      <4>1. y \in 1 .. k + 1 /\ y # k + 1  BY <2>2
      <4>2. QED  BY <4>1
    <3>2. QED  BY <1>2, <3>1
  <2>3. QED  BY <2>1, <2>2
<1> HIDE DEF P
<1>3. n \in P  BY <1>1, <1>2, Induction
<1>4. \E x \in s : \A y \in s : x >= y  BY <1>3 DEF P
<1>5. QED  BY <1>4 DEF Max

\* The function f folds k elements from b, its step Do taking the number of the
\* element and the value so far.
Folding(f, k, b, Do) ==
    f = [s \in SUBSET (1..k) |->
            IF s = {} THEN b ELSE Do[<<Max(s), f[s \ {Max(s)}]>>]]

CanFold(k, V, b, Do) == \E f \in [SUBSET (1..k) -> V] : Folding(f, k, b, Do)

\* There is such a function, when the values are in a set V.
LEMMA FoldExists ==
    ASSUME NEW n \in Nat, NEW V, NEW b \in V, NEW Do \in [(1..n) \X V -> V]
    PROVE  CanFold(n, V, b, Do)
<1> DEFINE P == {k \in Nat : k <= n => CanFold(k, V, b, Do)}
<1>1. 0 \in P
  <2> DEFINE f == [s \in SUBSET (1..0) |-> b]
  <2>1. 1..0 = {}  OBVIOUS
  <2>2. \A s \in SUBSET (1..0) : s = {}  BY <2>1
  <2>3. f \in [SUBSET (1..0) -> V]  OBVIOUS
  <2>4. Folding(f, 0, b, Do)  BY <2>2 DEF Folding
  <2>5. QED  BY <2>3, <2>4 DEF CanFold
<1>2. ASSUME NEW k \in Nat, k \in P PROVE k + 1 \in P
  <2> SUFFICES ASSUME k + 1 <= n
      PROVE  CanFold(k + 1, V, b, Do)
    OBVIOUS
  <2>0. k <= n  OBVIOUS
  <2>1. PICK g \in [SUBSET (1..k) -> V] : Folding(g, k, b, Do)  BY <1>2, <2>0 DEF CanFold
  <2> DEFINE f == [s \in SUBSET (1 .. k + 1) |->
                     IF k + 1 \in s THEN Do[<<k + 1, g[s \ {k + 1}]>>] ELSE g[s]]
  <2>2. ASSUME NEW s \in SUBSET (1 .. k + 1)
        PROVE  /\ s \ {k + 1} \in SUBSET (1..k)
               /\ k + 1 \notin s => s \in SUBSET (1..k)
               /\ k + 1 \in s => Max(s) = k + 1
    <3>1. \A y \in s : y \in 1 .. k + 1  OBVIOUS
    <3>2. s \ {k + 1} \in SUBSET (1..k) /\ (k + 1 \notin s => s \in SUBSET (1..k))
      BY <3>1
    <3>3. ASSUME k + 1 \in s PROVE Max(s) = k + 1
      <4>1. k + 1 \in Nat /\ s # {}  BY <3>3
      <4>2. Max(s) \in s /\ \A y \in s : Max(s) >= y  BY <4>1, Largest
      <4>3. Max(s) >= k + 1 /\ Max(s) \in 1 .. k + 1  BY <3>1, <3>3, <4>2
      <4>4. QED  BY <4>3
    <3>4. QED  BY <3>2, <3>3
  <2>3. f \in [SUBSET (1 .. k + 1) -> V]
    <3> SUFFICES ASSUME NEW s \in SUBSET (1 .. k + 1) PROVE f[s] \in V  OBVIOUS
    <3>1. CASE k + 1 \in s
      <4>1. g[s \ {k + 1}] \in V /\ k + 1 \in 1..n  BY <2>2
      <4>2. QED  BY <3>1, <4>1
    <3>2. CASE k + 1 \notin s  BY <2>2, <3>2
    <3>3. QED  BY <3>1, <3>2
  <2>4. ASSUME NEW s \in SUBSET (1 .. k + 1)
        PROVE  f[s] = IF s = {} THEN b ELSE Do[<<Max(s), f[s \ {Max(s)}]>>]
    <3>1. CASE k + 1 \in s
      <4>1. f[s \ {k + 1}] = g[s \ {k + 1}]
        <5>1. k + 1 \notin s \ {k + 1} /\ s \ {k + 1} \in SUBSET (1 .. k + 1)  OBVIOUS
        <5>2. QED  BY <5>1
      <4>2. f[s] = Do[<<k + 1, g[s \ {k + 1}]>>]  BY <3>1
      <4>3. Max(s) = k + 1  BY <2>2, <3>1
      <4> HIDE DEF f
      <4>4. QED  BY <3>1, <4>1, <4>2, <4>3
    <3>2. CASE k + 1 \notin s
      <4>1. s \in SUBSET (1..k)  BY <2>2, <3>2
      <4>2. f[s] = g[s]  BY <3>2
      <4>3. g[s] = IF s = {} THEN b ELSE Do[<<Max(s), g[s \ {Max(s)}]>>]
        BY <2>1, <4>1 DEF Folding
      <4>4. s \ {Max(s)} \in SUBSET (1 .. k + 1) /\ k + 1 \notin s \ {Max(s)}
        BY <3>2
      <4>5. f[s \ {Max(s)}] = g[s \ {Max(s)}]  BY <4>4
      <4> HIDE DEF f
      <4>6. QED  BY <4>2, <4>3, <4>5
    <3>3. QED  BY <3>1, <3>2
  <2>5. f = [s \in SUBSET (1 .. k + 1) |-> f[s]]  OBVIOUS
  <2> HIDE DEF f
  <2>6. Folding(f, k + 1, b, Do)  BY <2>4, <2>5 DEF Folding
  <2>7. QED  BY <2>3, <2>6 DEF CanFold
<1> HIDE DEF P
<1>3. n \in P  BY <1>1, <1>2, Induction
<1>4. QED  BY <1>3 DEF P
\* The sets of the first elements, which a fold goes through.
LEMMA FirstOnes ==
    ASSUME NEW n \in Nat, NEW k \in 1..n
    PROVE  /\ 1..k \in SUBSET (1..n) /\ 1..k # {}
           /\ Max(1..k) = k /\ (1..k) \ {k} = 1 .. k - 1
<1>1. 1..k \in SUBSET (1..n) /\ k \in 1..k  OBVIOUS
<1>2. Max(1..k) \in 1..k /\ \A y \in 1..k : Max(1..k) >= y  BY <1>1, Largest
<1>3. Max(1..k) = k  BY <1>1, <1>2
<1>4. (1..k) \ {k} = 1 .. k - 1  OBVIOUS
<1>5. QED  BY <1>1, <1>3, <1>4

-----------------------------------------------------------------------------
(* Integers.                                                               *)

\* The bytes are shifted in one after the other.
LEMMA ShiftsIn ==
    ASSUME NEW n \in Nat, NEW bytes \in [1..n -> Int]
    PROVE  \E g :
            /\ g[0] = 0
            /\ \A k \in 1..n : g[k] = g[k - 1] * Byte + bytes[k]
            /\ DECODE_INT(bytes) = g[n]
<1> DEFINE Do == [p \in (1..n) \X Int |-> p[2] * Byte + bytes[p[1]]]
           Steps(f) == f = [s \in SUBSET (1..n) |->
                               IF s = {} THEN 0
                               ELSE f[s \ {Max(s)}] * Byte + bytes[Max(s)]]
<1>1. Byte \in Nat  BY CodecAssumption
<1>2. Do \in [(1..n) \X Int -> Int]  BY <1>1
<1>3. PICK f \in [SUBSET (1..n) -> Int] : Folding(f, n, 0, Do)
  <2> HIDE DEF Do
  <2>1. CanFold(n, Int, 0, Do)  BY <1>2, 0 \in Int, FoldExists, Zenon
  <2>2. QED  BY <2>1 DEF CanFold
<1>4. ASSUME NEW s \in SUBSET (1..n), s # {}
      PROVE  Do[<<Max(s), f[s \ {Max(s)}]>>] = f[s \ {Max(s)}] * Byte + bytes[Max(s)]
  <2>1. Max(s) \in 1..n  BY <1>4, Largest
  <2>2. f[s \ {Max(s)}] \in Int  BY <1>3
  <2>3. QED  BY <2>1, <2>2
<1>5. Steps(f)  BY <1>3, <1>4 DEF Folding
<1>6. DOMAIN bytes = 1..n  OBVIOUS
<1> DEFINE h == CHOOSE e : Steps(e)
           g == [k \in 0..n |-> h[1..k]]
<1>7. DECODE_INT(bytes) = h[1..n]
  BY <1>6 DEF DECODE_INT, FoldLeft, MapThenFoldSet
<1>8. Steps(h)  BY <1>5
<1> HIDE DEF h
<1>9. g[0] = 0
  <2>1. 1..0 = {} /\ 1..0 \in SUBSET (1..n) /\ 0 \in 0..n  OBVIOUS
  <2>2. QED  BY <1>8, <2>1
<1>10. ASSUME NEW k \in 1..n PROVE g[k] = g[k - 1] * Byte + bytes[k]
  <2>1. h[1..k] = h[(1..k) \ {k}] * Byte + bytes[k]  BY <1>8, FirstOnes
  <2>2. (1..k) \ {k} = 1 .. k - 1 /\ k \in 0..n /\ k - 1 \in 0..n  BY FirstOnes
  <2>3. QED  BY <2>1, <2>2
<1>11. n \in 0..n  OBVIOUS
<1> HIDE DEF g
<1>12. g[n] = h[1..n]  BY <1>11 DEF g
<1>13. QED  BY <1>7, <1>9, <1>10, <1>12

\* The function f has the powers of a byte up to k.
Powers(f, k) == f = [n \in 0..k |-> IF n = 0 THEN 1 ELSE Byte * f[n - 1]]
HasPowers(k) == \E f \in [0..k -> Nat] : Powers(f, k)

LEMMA PowersExist == \E f : Powers(f, 8)
<1> DEFINE P == {k \in Nat : HasPowers(k)}
<1>0. Byte \in Nat  BY CodecAssumption
<1>1. 0 \in P
  <2> DEFINE f == [n \in 0..0 |-> 1]
  <2>1. f \in [0..0 -> Nat]  OBVIOUS
  <2>2. Powers(f, 0)  BY DEF Powers
  <2>3. QED  BY <2>1, <2>2 DEF HasPowers
<1>2. ASSUME NEW k \in Nat, k \in P PROVE k + 1 \in P
  <2>1. PICK f \in [0..k -> Nat] : Powers(f, k)  BY <1>2 DEF HasPowers
  <2> DEFINE g == [n \in 0 .. k + 1 |-> IF n = k + 1 THEN Byte * f[k] ELSE f[n]]
  <2>2. f[k] \in Nat /\ Byte * f[k] \in Nat  BY <1>0
  <2>3. \A n \in 0 .. k + 1 : n # k + 1 => n \in 0..k  OBVIOUS
  <2>4. g \in [0 .. k + 1 -> Nat]  BY <2>2, <2>3
  <2>5. \A n \in 0..k : f[n] = IF n = 0 THEN 1 ELSE Byte * f[n - 1]  BY <2>1 DEF Powers
  <2>6. ASSUME NEW n \in 0 .. k + 1
        PROVE  g[n] = IF n = 0 THEN 1 ELSE Byte * g[n - 1]
    <3>1. CASE n = k + 1
      <4>1. g[n] = Byte * f[k] /\ n # 0 /\ n - 1 = k /\ k \in 0 .. k + 1 /\ k # k + 1
        BY <3>1
      <4>2. g[n - 1] = f[k]  BY <4>1
      <4> HIDE DEF g
      <4>3. QED  BY <4>1, <4>2
    <3>2. CASE n # k + 1
      <4>1. n \in 0..k  BY <2>3, <3>2
      <4>2. g[n] = f[n] /\ (n # 0 => n - 1 \in 0 .. k + 1 /\ n - 1 # k + 1)
        BY <3>2, <4>1
      <4>3. n # 0 => g[n - 1] = f[n - 1]  BY <4>2
      <4> HIDE DEF g
      <4>4. QED  BY <2>5, <4>1, <4>2, <4>3
    <3>3. QED  BY <3>1, <3>2
  <2>7. g = [n \in 0 .. k + 1 |-> g[n]]  OBVIOUS
  <2> HIDE DEF g
  <2>8. Powers(g, k + 1)  BY <2>6, <2>7 DEF Powers
  <2>9. QED  BY <2>4, <2>8 DEF HasPowers
<1> HIDE DEF P
<1>3. 8 \in P  BY <1>1, <1>2, Induction
<1>4. QED  BY <1>3 DEF P, HasPowers

\* The number of values of so many bytes.
LEMMA PowerFacts ==
    /\ Power[0] = 1
    /\ \A k \in 1..8 : Power[k] = Byte * Power[k - 1]
<1>1. Powers(Power, 8)  BY PowersExist DEF Powers, Power
<1>2. QED  BY <1>1 DEF Powers

LEMMA PowerType == \A k \in 0..8 : Power[k] \in Nat \ {0}
<1> DEFINE P == {k \in Nat : k <= 8 => Power[k] \in Nat \ {0}}
<1>1. 0 \in P  BY PowerFacts
<1>2. ASSUME NEW k \in Nat, k \in P PROVE k + 1 \in P
  <2> SUFFICES ASSUME k + 1 <= 8 PROVE Power[k + 1] \in Nat \ {0}  OBVIOUS
  <2>1. Power[k] \in Nat \ {0} /\ k + 1 \in 1..8 /\ (k + 1) - 1 = k  BY <1>2
  <2>2. Power[k + 1] = Byte * Power[k]  BY <2>1, PowerFacts
  <2>3. \A x, y \in Nat \ {0} : x * y \in Nat \ {0}  OBVIOUS
  <2>4. Byte \in Nat \ {0}  BY CodecAssumption
  <2>5. QED  BY <2>1, <2>2, <2>3, <2>4
<1>3. Nat \subseteq P
  <2> HIDE DEF P
  <2>1. QED  BY <1>1, <1>2, Induction
<1>4. QED  BY <1>3

\* A quotient is the number that leaves a remainder less than the divisor.
LEMMA Quotient ==
    ASSUME NEW v \in Int, NEW a \in Nat \ {0}, NEW q \in Int, NEW r \in 0 .. a - 1,
           v = q * a + r
    PROVE  v \div a = q
OBVIOUS

LEMMA Product ==
    ASSUME NEW a \in Nat \ {0}, NEW b \in Nat \ {0}, NEW x \in 0 .. a - 1, NEW y \in 0 .. b - 1
    PROVE  a * b \in Nat \ {0} /\ y * a + x \in 0 .. a * b - 1
<1>1. y * a >= 0 /\ y * a + x >= 0  OBVIOUS
<1>2. b - 1 - y >= 0 /\ (b - 1 - y) * a >= 0  OBVIOUS
<1>3. (b - 1 - y) * a = b * a - a - y * a  OBVIOUS
<1>4. y * a + a <= a * b  BY <1>2, <1>3
<1>5. a * b \in Nat \ {0}  OBVIOUS
<1>6. y * a \in Int  OBVIOUS
<1>7. QED  BY <1>1, <1>4, <1>5, <1>6

\* Shifting twice is shifting by the sum.
LEMMA ShiftTwice ==
    ASSUME NEW v \in Int, NEW a \in Nat \ {0}, NEW b \in Nat \ {0}
    PROVE  v \div (a * b) = (v \div a) \div b
<1> DEFINE q == v \div a
           r == v % a
           p == q \div b
           s == q % b
<1>1. q \in Int /\ r \in 0 .. a - 1 /\ v = q * a + r  OBVIOUS
<1>2. p \in Int /\ s \in 0 .. b - 1 /\ q = p * b + s  OBVIOUS
<1> HIDE DEF q, r, p, s
<1>3. a * b \in Nat \ {0} /\ s * a + r \in 0 .. a * b - 1  BY <1>1, <1>2, Product
<1>4. v = p * (a * b) + (s * a + r)
  <2>1. v = (p * b + s) * a + r  BY <1>1, <1>2
  <2>2. (p * b + s) * a = p * (a * b) + s * a  BY <1>1, <1>2
  <2>3. QED  BY <1>1, <1>2, <2>1, <2>2
<1>5. v \div (a * b) = p
  <2> DEFINE ab == a * b  t == s * a + r
  <2>1. v = p * ab + t /\ ab \in Nat \ {0} /\ t \in 0 .. ab - 1  BY <1>3, <1>4
  <2> HIDE DEF ab, t
  <2>2. v \div ab = p  BY <1>2, <2>1, Quotient
  <2>3. QED  BY <2>2 DEF ab
<1>6. QED  BY <1>5 DEF p, q

\* What a signed integer of n bytes can be.
IntRange(n) == -(Power[n] \div 2) .. Power[n] \div 2 - 1

LEMMA HalfPower ==
    \A n \in 1..8 : Power[n] = 2 * (Power[n] \div 2) /\ Power[n] \div 2 \in Nat \ {0}
<1> SUFFICES ASSUME NEW n \in 1..8
    PROVE  Power[n] = 2 * (Power[n] \div 2) /\ Power[n] \div 2 \in Nat \ {0}
  OBVIOUS
<1>1. n - 1 \in 0..8 /\ n \in 0..8  OBVIOUS
<1>2. Power[n] = Byte * Power[n - 1]  BY PowerFacts
<1>3. Power[n - 1] \in Nat \ {0}  BY <1>1, PowerType
<1>4. PICK h \in Nat \ {0} : Byte = 2 * h
  <2>1. Byte = 2 * (Byte \div 2) /\ Byte \div 2 \in Nat \ {0}  BY CodecAssumption
  <2>2. QED  BY <2>1
<1>5. h * Power[n - 1] \in Nat \ {0} /\ Power[n] = 2 * (h * Power[n - 1])  BY <1>2, <1>3, <1>4
<1>6. \A x, y \in Nat : x = 2 * y => x \div 2 = y  OBVIOUS
<1>7. Power[n] \in Nat  BY <1>1, PowerType
<1>8. Power[n] \div 2 = h * Power[n - 1]  BY <1>5, <1>6, <1>7
<1>9. QED  BY <1>5, <1>8

\* DECODE_INT shifts in what ENCODE_INT has shifted out: of any number of bytes up to
\* eight, of any width of a byte, and with the sign of a negative value.
THEOREM IntegerRoundTrip ==
    ASSUME NEW n \in 1..8, NEW v \in IntRange(n)
    PROVE  decode_int(encode_int(v, n)) = v
<1> DEFINE e == encode_int(v, n)
           q == [k \in 0..n |-> v \div Power[n - k]]
<1>1. \A k \in 0..n : n - k \in 0..8 /\ Power[n - k] \in Nat \ {0}  BY PowerType
<1>2. v \in Int /\ Power[n] \in Nat \ {0} /\ Power[n] = 2 * (Power[n] \div 2)
  BY HalfPower, PowerType, n \in 0..8 DEF IntRange
<1>3. Byte \in Nat \ {0}  BY CodecAssumption
<1>4. q \in [0..n -> Int]
  <2>1. \A k \in 0..n : v \div Power[n - k] \in Int  BY <1>1, <1>2
  <2>2. QED  BY <2>1
<1>5. \A i \in 1..n : e[i] = q[i] % Byte  BY DEF encode_int
<1>6. e \in [1..n -> Int]
  <2>1. \A x \in Int : x % Byte \in Int  BY <1>3
  <2>2. \A i \in 1..n : q[i] \in Int  BY <1>4
  <2>3. \A i \in 1..n : e[i] \in Int  BY <1>5, <2>1, <2>2
  <2>4. e = [i \in 1..n |-> e[i]]  BY DEF encode_int
  <2> HIDE DEF e
  <2>5. QED  BY <2>3, <2>4
<1>7. ASSUME NEW k \in 1..n PROVE q[k] = q[k - 1] * Byte + e[k]
  <2>1. k - 1 \in 0..n /\ k \in 0..n /\ n - (k - 1) \in 1..8 /\ (n - (k - 1)) - 1 = n - k
    OBVIOUS
  <2>2. Power[n - (k - 1)] = Byte * Power[n - k]  BY <2>1, PowerFacts
  <2>3. Power[n - k] \in Nat \ {0}  BY <1>1, <2>1
  <2>4. Byte * Power[n - k] = Power[n - k] * Byte  BY <1>3, <2>3
  <2>5. v \div (Power[n - k] * Byte) = (v \div Power[n - k]) \div Byte
    BY <1>2, <1>3, <2>3, ShiftTwice
  <2>6. q[k - 1] = q[k] \div Byte  BY <2>1, <2>2, <2>4, <2>5
  <2>7. \A x \in Int : x = (x \div Byte) * Byte + (x % Byte)  BY <1>3
  <2>8. q[k] \in Int  BY <1>4, <2>1
  <2> HIDE DEF q, e
  <2>9. QED  BY <1>5, <2>6, <2>7, <2>8
<1>8. q[0] = v \div Power[n] /\ q[n] = v
  <2>1. n - 0 = n /\ n - n = 0 /\ 0 \in 0..n /\ n \in 0..n  OBVIOUS
  <2>2. q[0] = v \div Power[n] /\ q[n] = v \div 1  BY <2>1, PowerFacts
  <2>3. QED  BY <1>2, <2>2
<1>9. PICK g : g[0] = 0 /\ (\A k \in 1..n : g[k] = g[k - 1] * Byte + e[k])
               /\ DECODE_INT(e) = g[n]
  <2> HIDE DEF e
  <2>1. n \in Nat  OBVIOUS
  <2>2. QED  BY <1>6, <2>1, ShiftsIn
<1> HIDE DEF q, e
<1> DEFINE P == {k \in Nat : k <= n => g[k] = q[k] - q[0] * Power[k]}
<1>10. 0 \in P
  <2>1. 0 \in 0..n /\ q[0] \in Int  BY <1>4
  <2>2. g[0] = q[0] - q[0] * Power[0]  BY <1>9, <2>1, PowerFacts
  <2>3. QED  BY <2>2
<1>11. ASSUME NEW k \in Nat, k \in P PROVE k + 1 \in P
  <2> SUFFICES ASSUME k + 1 <= n PROVE g[k + 1] = q[k + 1] - q[0] * Power[k + 1]  OBVIOUS
  <2>1. k \in 0..n /\ k + 1 \in 1..n /\ k + 1 \in 1..8 /\ (k + 1) - 1 = k /\ k \in 0..8
        /\ 0 \in 0..n /\ k + 1 \in 0..n
    OBVIOUS
  <2>2. g[k] = q[k] - q[0] * Power[k]  BY <1>11, <2>1
  <2>3. g[k + 1] = g[k] * Byte + e[k + 1] /\ q[k + 1] = q[k] * Byte + e[k + 1]
    BY <1>7, <1>9, <2>1
  <2>4. Power[k + 1] = Byte * Power[k]  BY <2>1, PowerFacts
  <2>5. q[k] \in Int /\ q[0] \in Int /\ Power[k] \in Int /\ e[k + 1] \in Int /\ Byte \in Int
    <3>1. q[k] \in Int /\ q[0] \in Int  BY <1>4, <2>1
    <3>2. Power[k] \in Int  BY <2>1, PowerType
    <3>3. e[k + 1] \in Int  BY <1>6, <2>1
    <3>4. QED  BY <1>3, <3>1, <3>2, <3>3
  <2>6. (q[k] - q[0] * Power[k]) * Byte = q[k] * Byte - q[0] * (Byte * Power[k])  BY <2>5
  <2>7. g[k + 1] = (q[k] * Byte - q[0] * Power[k + 1]) + e[k + 1]  BY <2>2, <2>3, <2>4, <2>6
  <2>8. q[k] * Byte \in Int /\ q[0] * Power[k + 1] \in Int  BY <2>4, <2>5
  <2>9. QED  BY <2>3, <2>5, <2>7, <2>8
<1>12. n \in P
  <2> HIDE DEF P
  <2>1. n \in Nat  OBVIOUS
  <2>2. QED  BY <1>10, <1>11, <2>1, Induction
<1>13. DECODE_INT(e) = v - q[0] * Power[n]  BY <1>8, <1>9, <1>12
<1>14. Len(e) = n /\ n \in Nat
  <2>1. DOMAIN e = 1..n /\ n \in Nat  BY <1>6
  <2>2. QED  BY <2>1
<1> DEFINE h == Power[n] \div 2
<1>15. h \in Nat /\ Power[n] = 2 * h /\ h # 0  BY HalfPower
<1>16. v >= -h /\ v < h  BY <1>15 DEF IntRange
<1>17. decode_int(e) = IF DECODE_INT(e) >= h THEN DECODE_INT(e) - Power[n] ELSE DECODE_INT(e)
  BY <1>14 DEF decode_int
<1> HIDE DEF h
<1>18. CASE v >= 0
  <2>1. v \in 0 .. Power[n] - 1 /\ v = 0 * Power[n] + v  BY <1>2, <1>15, <1>16, <1>18
  <2>2. q[0] = 0  BY <1>2, <1>8, <2>1, Quotient
  <2>3. DECODE_INT(e) = v  BY <1>2, <1>13, <2>2
  <2>4. QED  BY <1>2, <1>15, <1>16, <1>17, <2>3 DEF e
<1>19. CASE v < 0
  <2>1. v + Power[n] \in 0 .. Power[n] - 1 /\ v = (-1) * Power[n] + (v + Power[n])
    BY <1>2, <1>15, <1>16, <1>19
  <2>2. q[0] = -1  BY <1>2, <1>8, <2>1, Quotient
  <2>3. DECODE_INT(e) = v + Power[n]  BY <1>2, <1>13, <2>2
  <2>4. QED  BY <1>2, <1>15, <1>16, <1>17, <2>3 DEF e
<1>20. QED  BY <1>2, <1>18, <1>19

-----------------------------------------------------------------------------
(* The layouts.                                                            *)

\* What the layouts of the protocol have in common: the two fields that every
\* packet starts with, no name twice, and a reference in the last place only.
GoodLayout(layout) ==
    /\ Len(layout) \in Nat /\ Len(layout) >= 2 /\ DOMAIN layout = 1..Len(layout)
    /\ \A i \in 1..Len(layout) :
        layout[i].type \in {"int", "str", "ref"} /\ layout[i].len \in Nat
    /\ layout[1] = Int32("packet_len") /\ layout[2] = Int32("cmd")
    /\ \A i \in 1..Len(layout) : layout[i].type = "int" => layout[i].len \in 1..8
    /\ \A i \in 1 .. Len(layout) - 1 : layout[i].type # "ref"
    /\ \A i, j \in 1..Len(layout) : layout[i].name = layout[j].name => i = j

\* The fields of each command.
Fields_preview_cmd ==
    <<Int32("packet_len"), Int32("cmd"), Int32("seqno"),
      Int32("src_addr"), Int32("dest_addr"), FixedString("token", TokenLen),
      Int64("dvr_id"), Int16("channel_no"), Int32("frame_mode")>>
Fields_preview_cmd_res ==
    <<Int32("packet_len"), Int32("cmd"), Int32("seqno"),
      Int32("src_addr"), Int32("dest_addr"), Int32("status"),
      Int32("brightness"), Int32("contrast"), Int32("saturation"),
      Int32("Hue")>>
Fields_smts_frame_res ==
    <<Int32("packet_len"), Int32("cmd"), Int32("seqno"),
      Int32("src_addr"), Int32("dest_addr"), Int32("frame_type"),
      BinaryBufRef("frame", 20)>>
Fields_mock_dvr_preview ==
    <<Int32("packet_len"), Int32("cmd"), Int32("bitrate"),
      Int32("frame_rate")>>
Fields_mock_dvr_frame ==
    <<Int32("packet_len"), Int32("cmd"), Int32("seqno"),
      Int32("frame_type"), Int64("st"), BinaryBufRef("frame", 24)>>
Fields_test_PTZ_cmd ==
    <<Int32("packet_len"), Int32("cmd"), Int32("seqno"),
      Int32("src_addr"), Int32("dest_addr"), Int32("ptz")>>
Fields_common_res ==
    <<Int32("packet_len"), Int32("cmd"), Int32("seqno"),
      Int32("src_addr"), Int32("dest_addr"), Int32("status")>>

LEMMA LayoutFields ==
    /\ Layout("preview_cmd") = Fields_preview_cmd
    /\ Layout("preview_cmd_res") = Fields_preview_cmd_res
    /\ Layout("smts_frame_res") = Fields_smts_frame_res
    /\ Layout("mock_dvr_preview") = Fields_mock_dvr_preview
    /\ Layout("mock_dvr_frame") = Fields_mock_dvr_frame
    /\ Layout("test_PTZ_cmd") = Fields_test_PTZ_cmd
    /\ Layout("common_res") = Fields_common_res
BY DEF Layout, PROTOCOL_MAP, PROTOCOL_HEAD_FILED, PROTOCOL_TOP_FILED,
       Fields_preview_cmd,
       Fields_preview_cmd_res,
       Fields_smts_frame_res,
       Fields_mock_dvr_preview,
       Fields_mock_dvr_frame,
       Fields_test_PTZ_cmd,
       Fields_common_res

LEMMA Layouts == \A c \in DOMAIN PROTOCOL_MAP : GoodLayout(Layout(c))
<1> USE CodecAssumption DEF GoodLayout, Int16, Int32, Int64, FixedString, BinaryBufRef
<1>1. GoodLayout(Fields_preview_cmd)
  <2>1. DOMAIN Fields_preview_cmd = 1..9 /\ Len(Fields_preview_cmd) = 9  BY DEF Fields_preview_cmd
  <2>2. QED  BY <2>1 DEF Fields_preview_cmd
<1>2. GoodLayout(Fields_preview_cmd_res)
  <2>1. DOMAIN Fields_preview_cmd_res = 1..10 /\ Len(Fields_preview_cmd_res) = 10  BY DEF Fields_preview_cmd_res
  <2>2. QED  BY <2>1 DEF Fields_preview_cmd_res
<1>3. GoodLayout(Fields_smts_frame_res)
  <2>1. DOMAIN Fields_smts_frame_res = 1..7 /\ Len(Fields_smts_frame_res) = 7  BY DEF Fields_smts_frame_res
  <2>2. QED  BY <2>1 DEF Fields_smts_frame_res
<1>4. GoodLayout(Fields_mock_dvr_preview)
  <2>1. DOMAIN Fields_mock_dvr_preview = 1..4 /\ Len(Fields_mock_dvr_preview) = 4  BY DEF Fields_mock_dvr_preview
  <2>2. QED  BY <2>1 DEF Fields_mock_dvr_preview
<1>5. GoodLayout(Fields_mock_dvr_frame)
  <2>1. DOMAIN Fields_mock_dvr_frame = 1..6 /\ Len(Fields_mock_dvr_frame) = 6  BY DEF Fields_mock_dvr_frame
  <2>2. QED  BY <2>1 DEF Fields_mock_dvr_frame
<1>6. GoodLayout(Fields_test_PTZ_cmd)
  <2>1. DOMAIN Fields_test_PTZ_cmd = 1..6 /\ Len(Fields_test_PTZ_cmd) = 6  BY DEF Fields_test_PTZ_cmd
  <2>2. QED  BY <2>1 DEF Fields_test_PTZ_cmd
<1>7. GoodLayout(Fields_common_res)
  <2>1. DOMAIN Fields_common_res = 1..6 /\ Len(Fields_common_res) = 6  BY DEF Fields_common_res
  <2>2. QED  BY <2>1 DEF Fields_common_res
<1> HIDE DEF GoodLayout, Int16, Int32, Int64, FixedString, BinaryBufRef
<1>8. QED  BY <1>1, <1>2, <1>3, <1>4, <1>5, <1>6, <1>7, LayoutFields DEF PROTOCOL_MAP

-----------------------------------------------------------------------------
(* The passes, step by step.                                               *)

\* Whether the value of a field is one that its type can hold.
GoodValue(f, v) ==
    CASE f.type = "int" -> v \in IntRange(f.len)
      [] f.type = "str" -> v \in [1..f.len -> Int]
      [] f.type = "ref" -> v \in Seq(Int)

GoodValues(layout, v) == \A i \in 1..Len(layout) : GoodValue(layout[i], v[layout[i].name])

\* A field is written to as many bytes as are counted for it.
LEMMA FieldBytesLen ==
    ASSUME NEW layout, GoodLayout(layout), NEW v, GoodValues(layout, v),
           NEW i \in 1..Len(layout)
    PROVE  /\ FieldBytes(layout[i], v) \in Seq(Int)
           /\ Len(FieldBytes(layout[i], v)) = FieldLen(layout[i], v)
           /\ FieldLen(layout[i], v) \in Nat
<1> DEFINE f == layout[i]
           w == v[f.name]
<1>1. f.type \in {"int", "str", "ref"} /\ f.len \in Nat /\ (f.type = "int" => f.len \in 1..8)
  BY DEF GoodLayout
<1>2. GoodValue(f, w)  BY DEF GoodValues
<1> HIDE DEF f
<1>3. CASE f.type = "int"
  <2>1. w \in Int  BY <1>2, <1>3 DEF GoodValue, IntRange
  <2>2. \A k \in 1..f.len : f.len - k \in 0..8  BY <1>1, <1>3
  <2> HIDE DEF w
  <2>3. \A k \in 1..f.len : (w \div Power[f.len - k]) % Byte \in Int
    <3>1. \A x \in Int : x % Byte \in Int  BY CodecAssumption
    <3>2. \A k \in 1..f.len : Power[f.len - k] \in Nat \ {0}  BY <2>2, PowerType
    <3>3. \A k \in 1..f.len : w \div Power[f.len - k] \in Int  BY <2>1, <3>2
    <3>4. QED  BY <3>1, <3>3
  <2>4. encode_int(w, f.len) \in [1..f.len -> Int]  BY <2>3 DEF encode_int
  <2>5. encode_int(w, f.len) \in Seq(Int) /\ Len(encode_int(w, f.len)) = f.len
    BY <1>1, <2>4
  <2>6. FieldBytes(f, v) = encode_int(w, f.len)  BY <1>3 DEF FieldBytes, w
  <2>7. FieldLen(f, v) = f.len  BY <1>3 DEF FieldLen
  <2>8. QED  BY <1>1, <2>5, <2>6, <2>7 DEF f
<1>4. CASE f.type = "str"
  <2>1. w \in [1..f.len -> Int]  BY <1>2, <1>4 DEF GoodValue
  <2>2. w \in Seq(Int) /\ Len(w) = f.len  BY <1>1, <2>1
  <2>3. FieldBytes(f, v) = w /\ FieldLen(f, v) = f.len  BY <1>4 DEF FieldBytes, FieldLen
  <2>4. QED  BY <1>1, <2>2, <2>3 DEF f
<1>5. CASE f.type = "ref"
  <2>1. w \in Seq(Int)  BY <1>2, <1>5 DEF GoodValue
  <2>2. Len(w) \in Nat  BY <2>1
  <2>3. FieldBytes(f, v) = w /\ FieldLen(f, v) = Len(w)  BY <1>5 DEF FieldBytes, FieldLen
  <2>4. QED  BY <2>1, <2>2, <2>3 DEF f
<1>6. QED  BY <1>1, <1>3, <1>4, <1>5

\* How many bytes there are up to each field.
Lengths(layout, v, g) ==
    /\ g[0] = 0
    /\ \A k \in 1..Len(layout) : g[k] = g[k - 1] + FieldLen(layout[k], v)

LEMMA CmdLen ==
    ASSUME NEW layout, NEW n \in Nat, n = Len(layout), DOMAIN layout = 1..n,
           NEW v, \A i \in 1..n : FieldLen(layout[i], v) \in Nat
    PROVE  \E g : Lengths(layout, v, g) /\ cmd_len(layout, v) = g[n]
<1> DEFINE Do == [p \in (1..n) \X Nat |-> p[2] + FieldLen(layout[p[1]], v)]
           Steps(f) == f = [s \in SUBSET (1..n) |->
                               IF s = {} THEN 0
                               ELSE f[s \ {Max(s)}] + FieldLen(layout[Max(s)], v)]
<1>1. Do \in [(1..n) \X Nat -> Nat]  OBVIOUS
<1>2. PICK f \in [SUBSET (1..n) -> Nat] : Folding(f, n, 0, Do)
  <2> HIDE DEF Do
  <2>1. CanFold(n, Nat, 0, Do)  BY <1>1, 0 \in Nat, FoldExists, Zenon
  <2>2. QED  BY <2>1 DEF CanFold
<1>3. ASSUME NEW s \in SUBSET (1..n), s # {}
      PROVE  Do[<<Max(s), f[s \ {Max(s)}]>>] = f[s \ {Max(s)}] + FieldLen(layout[Max(s)], v)
  <2>1. Max(s) \in 1..n /\ f[s \ {Max(s)}] \in Nat  BY <1>2, <1>3, Largest
  <2>2. QED  BY <2>1
<1>4. Steps(f)  BY <1>2, <1>3 DEF Folding
<1> DEFINE h == CHOOSE e : Steps(e)
           g == [k \in 0..n |-> h[1..k]]
<1>5. cmd_len(layout, v) = h[1..n]  BY DEF cmd_len, FoldLeft, MapThenFoldSet
<1>6. Steps(h)  BY <1>4
<1> HIDE DEF h
<1>7. g[0] = 0
  <2>1. 1..0 = {} /\ 1..0 \in SUBSET (1..n) /\ 0 \in 0..n  OBVIOUS
  <2>2. QED  BY <1>6, <2>1
<1>8. ASSUME NEW k \in 1..n PROVE g[k] = g[k - 1] + FieldLen(layout[k], v)
  <2>1. h[1..k] = h[(1..k) \ {k}] + FieldLen(layout[k], v)  BY <1>6, FirstOnes
  <2>2. (1..k) \ {k} = 1 .. k - 1 /\ k \in 0..n /\ k - 1 \in 0..n  BY FirstOnes
  <2>3. QED  BY <2>1, <2>2
<1>9. n \in 0..n  OBVIOUS
<1> HIDE DEF g
<1>10. g[n] = h[1..n]  BY <1>9 DEF g
<1>11. Lengths(layout, v, g)  BY <1>7, <1>8 DEF Lengths
<1>12. QED  BY <1>5, <1>10, <1>11

\* The buffers are counted: a reference takes one of its own.
CountStep(a, f) ==
    IF f.type = "ref" THEN [n |-> a.n + 1, is_new |-> TRUE]
    ELSE [n |-> IF a.is_new THEN a.n + 1 ELSE a.n, is_new |-> FALSE]

Counts(layout, g) ==
    /\ g[0] = [n |-> 0, is_new |-> TRUE]
    /\ \A k \in 1..Len(layout) : g[k] = CountStep(g[k - 1], layout[k])

LEMMA BufsAlloc ==
    ASSUME NEW layout, NEW n \in Nat, n = Len(layout), DOMAIN layout = 1..n
    PROVE  \E g : Counts(layout, g) /\ bufs_alloc(layout) = g[n].n
<1> DEFINE V == [n : Nat, is_new : BOOLEAN]
           b == [n |-> 0, is_new |-> TRUE]
           Do == [p \in (1..n) \X V |-> CountStep(p[2], layout[p[1]])]
           Steps(f) == f = [s \in SUBSET (1..n) |->
                               IF s = {} THEN b
                               ELSE CountStep(f[s \ {Max(s)}], layout[Max(s)])]
<1>1. b \in V /\ Do \in [(1..n) \X V -> V]
  <2>1. \A a \in V : \A f : CountStep(a, f) \in V  BY DEF CountStep
  <2>2. QED  BY <2>1
<1>2. PICK f \in [SUBSET (1..n) -> V] : Folding(f, n, b, Do)
  <2> HIDE DEF Do, V, b
  <2>1. CanFold(n, V, b, Do)  BY <1>1, FoldExists, Zenon
  <2>2. QED  BY <2>1 DEF CanFold
<1>3. ASSUME NEW s \in SUBSET (1..n), s # {}
      PROVE  Do[<<Max(s), f[s \ {Max(s)}]>>] = CountStep(f[s \ {Max(s)}], layout[Max(s)])
  <2> HIDE DEF V
  <2>1. Max(s) \in 1..n /\ f[s \ {Max(s)}] \in V  BY <1>2, <1>3, Largest
  <2>2. QED  BY <2>1
<1>4. Steps(f)
  <2> HIDE DEF Do, V, b
  <2>1. QED  BY <1>2, <1>3 DEF Folding
<1> DEFINE h == CHOOSE e : Steps(e)
           g == [k \in 0..n |-> h[1..k]]
<1>5. bufs_alloc(layout) = h[1..n].n  BY DEF bufs_alloc, FoldLeft, MapThenFoldSet, CountStep
<1>6. Steps(h)  BY <1>4
<1> HIDE DEF h, b
<1>7. g[0] = b
  <2>1. 1..0 = {} /\ 1..0 \in SUBSET (1..n) /\ 0 \in 0..n  OBVIOUS
  <2>2. QED  BY <1>6, <2>1
<1>8. ASSUME NEW k \in 1..n PROVE g[k] = CountStep(g[k - 1], layout[k])
  <2>1. h[1..k] = CountStep(h[(1..k) \ {k}], layout[k])  BY <1>6, FirstOnes
  <2>2. (1..k) \ {k} = 1 .. k - 1 /\ k \in 0..n /\ k - 1 \in 0..n  BY FirstOnes
  <2>3. QED  BY <2>1, <2>2
<1>9. n \in 0..n  OBVIOUS
<1> HIDE DEF g
<1>10. g[n] = h[1..n]  BY <1>9 DEF g
<1>11. Counts(layout, g)  BY <1>7, <1>8 DEF Counts, b
<1>12. QED  BY <1>5, <1>10, <1>11

\* The buffers are allocated: a reference ends the one before it.
AllocStep(b, f, v) ==
    IF f.type = "ref"
    THEN [bufs   |-> b.bufs \o <<[base |-> "malloc", len |-> b.size],
                                 [base |-> "ref", len |-> FieldLen(f, v)]>>,
          size   |-> 0, is_new |-> TRUE,
          index  |-> b.index + 1,
          bitmap |-> b.bitmap \cup {ref_bit(b.index)}]
    ELSE [b EXCEPT !.size = @ + FieldLen(f, v), !.is_new = FALSE]

NoBuffer == [bufs |-> <<>>, size |-> 0, is_new |-> TRUE, index |-> 0, bitmap |-> {}]

Allocated(a) ==
    [bufs   |-> IF a.is_new THEN a.bufs
                ELSE Append(a.bufs, [base |-> "malloc", len |-> a.size]),
     bitmap |-> a.bitmap]

Allocs(layout, v, g) ==
    /\ g[0] = NoBuffer
    /\ \A k \in 1..Len(layout) : g[k] = AllocStep(g[k - 1], layout[k], v)

LEMMA BufsInnerAlloc ==
    ASSUME NEW layout, NEW n \in Nat, n = Len(layout), DOMAIN layout = 1..n,
           NEW v, \A i \in 1..n : FieldLen(layout[i], v) \in Nat
    PROVE  \E g : Allocs(layout, v, g) /\ bufs_inner_alloc(layout, v) = Allocated(g[n])
<1> DEFINE V == [bufs : Seq([base : {"malloc", "ref"}, len : Nat]), size : Nat,
                 is_new : BOOLEAN, index : Nat, bitmap : SUBSET Nat]
           b == NoBuffer
           Do == [p \in (1..n) \X V |-> AllocStep(p[2], layout[p[1]], v)]
           Steps(f) == f = [s \in SUBSET (1..n) |->
                               IF s = {} THEN b
                               ELSE AllocStep(f[s \ {Max(s)}], layout[Max(s)], v)]
<1>1. b \in V /\ Do \in [(1..n) \X V -> V]
  <2>1. b \in V  BY DEF NoBuffer
  <2>2. ASSUME NEW a \in V, NEW i \in 1..n PROVE AllocStep(a, layout[i], v) \in V
    <3> DEFINE l == FieldLen(layout[i], v)
               B == [base : {"malloc", "ref"}, len : Nat]
               two == <<[base |-> "malloc", len |-> a.size], [base |-> "ref", len |-> l]>>
    <3>1. l \in Nat  OBVIOUS
    <3>2. a.size \in Nat /\ a.index \in Nat /\ a.bitmap \in SUBSET Nat /\ a.bufs \in Seq(B)
          /\ a = [bufs |-> a.bufs, size |-> a.size, is_new |-> a.is_new,
                  index |-> a.index, bitmap |-> a.bitmap]
      OBVIOUS
    <3>3. two \in Seq(B)
      <4>1. [base |-> "malloc", len |-> a.size] \in B /\ [base |-> "ref", len |-> l] \in B
        BY <3>1, <3>2
      <4> HIDE DEF B
      <4>2. QED  BY <4>1
    <3>4. a.bufs \o two \in Seq(B)
      <4> HIDE DEF B, two
      <4>1. QED  BY <3>2, <3>3, ConcatProperties
    <3>5. a.index + 1 \in Nat /\ a.bitmap \cup {ref_bit(a.index)} \in SUBSET Nat
          /\ a.size + l \in Nat
      BY <3>1, <3>2 DEF ref_bit
    <3> HIDE DEF l, B
    <3>6. CASE layout[i].type = "ref"
      <4>1. AllocStep(a, layout[i], v) =
              [bufs |-> a.bufs \o two, size |-> 0, is_new |-> TRUE, index |-> a.index + 1,
               bitmap |-> a.bitmap \cup {ref_bit(a.index)}]
        BY <3>6 DEF AllocStep, l
      <4> HIDE DEF two
      <4>2. QED  BY <3>4, <3>5, <4>1 DEF B
    <3>7. CASE layout[i].type # "ref"
      <4>1. AllocStep(a, layout[i], v) = [a EXCEPT !.size = @ + l, !.is_new = FALSE]
        BY <3>7 DEF AllocStep, l
      <4>2. QED  BY <3>2, <3>5, <4>1 DEF B
    <3>8. QED  BY <3>6, <3>7
  <2> HIDE DEF V
  <2>3. QED  BY <2>1, <2>2
<1>2. PICK f \in [SUBSET (1..n) -> V] : Folding(f, n, b, Do)
  <2> HIDE DEF Do, V, b
  <2>1. CanFold(n, V, b, Do)  BY <1>1, FoldExists, Zenon
  <2>2. QED  BY <2>1 DEF CanFold
<1>3. ASSUME NEW s \in SUBSET (1..n), s # {}
      PROVE  Do[<<Max(s), f[s \ {Max(s)}]>>]
                = AllocStep(f[s \ {Max(s)}], layout[Max(s)], v)
  <2> HIDE DEF V
  <2>1. Max(s) \in 1..n /\ f[s \ {Max(s)}] \in V  BY <1>2, <1>3, Largest
  <2>2. QED  BY <2>1
<1>4. Steps(f)
  <2> HIDE DEF Do, V, b
  <2>1. QED  BY <1>2, <1>3 DEF Folding
<1> DEFINE h == CHOOSE e : Steps(e)
           g == [k \in 0..n |-> h[1..k]]
<1>5. bufs_inner_alloc(layout, v) = Allocated(h[1..n])
  BY DEF bufs_inner_alloc, FoldLeft, MapThenFoldSet, AllocStep, NoBuffer, Allocated
<1>6. Steps(h)  BY <1>4
<1> HIDE DEF h, b
<1>7. g[0] = b
  <2>1. 1..0 = {} /\ 1..0 \in SUBSET (1..n) /\ 0 \in 0..n  OBVIOUS
  <2>2. QED  BY <1>6, <2>1
<1>8. ASSUME NEW k \in 1..n PROVE g[k] = AllocStep(g[k - 1], layout[k], v)
  <2>1. h[1..k] = AllocStep(h[(1..k) \ {k}], layout[k], v)  BY <1>6, FirstOnes
  <2>2. (1..k) \ {k} = 1 .. k - 1 /\ k \in 0..n /\ k - 1 \in 0..n  BY FirstOnes
  <2>3. QED  BY <2>1, <2>2
<1>9. n \in 0..n  OBVIOUS
<1> HIDE DEF g
<1>10. g[n] = h[1..n]  BY <1>9 DEF g
<1>11. Allocs(layout, v, g)  BY <1>7, <1>8 DEF Allocs, b
<1>12. QED  BY <1>5, <1>10, <1>11

\* The buffers are written.
EncodeStep(w, f, v) ==
    IF f.type = "ref"
    THEN [at  |-> ref_buffer(w.at) + 1,
          out |-> [w.out EXCEPT ![ref_buffer(w.at)] = FieldBytes(f, v)]]
    ELSE [w EXCEPT !.out[w.at] = @ \o FieldBytes(f, v)]

Empty(m) == [at |-> 1, out |-> [i \in 1..m |-> <<>>]]

WrittenAsBytes(layout, v) ==
    \A i \in 1..Len(layout) : FieldBytes(layout[i], v) \in Seq(Int)

Writes(layout, v, m, g) ==
    /\ g[0] = Empty(m)
    /\ \A k \in 1..Len(layout) : g[k] = EncodeStep(g[k - 1], layout[k], v)

LEMMA Encode ==
    ASSUME NEW layout, NEW n \in Nat, n = Len(layout), DOMAIN layout = 1..n,
           NEW m \in Nat, NEW v, WrittenAsBytes(layout, v)
    PROVE  \E g : Writes(layout, v, m, g) /\ encode(layout, v, m) = g[n].out
<1> DEFINE V == [at : Nat, out : [1..m -> Seq(Int)]]
           b == Empty(m)
           Do == [p \in (1..n) \X V |-> EncodeStep(p[2], layout[p[1]], v)]
           Steps(f) == f = [s \in SUBSET (1..n) |->
                               IF s = {} THEN b
                               ELSE EncodeStep(f[s \ {Max(s)}], layout[Max(s)], v)]
<1>1. b \in V /\ Do \in [(1..n) \X V -> V]
  <2>1. b \in V  BY DEF Empty
  <2>2. ASSUME NEW w \in V, NEW i \in 1..n PROVE EncodeStep(w, layout[i], v) \in V
    <3>1. FieldBytes(layout[i], v) \in Seq(Int)  BY DEF WrittenAsBytes
    <3>2. w.at \in 1..m => w.out[w.at] \o FieldBytes(layout[i], v) \in Seq(Int)
      BY <3>1, ConcatProperties
    <3>3. \A o \in [1..m -> Seq(Int)] : \A at, e :
            (at \in 1..m => e \in Seq(Int)) => [o EXCEPT ![at] = e] \in [1..m -> Seq(Int)]
      OBVIOUS
    <3> DEFINE e == FieldBytes(layout[i], v)
    <3>4. w.at \in Nat /\ ref_buffer(w.at) \in Nat /\ w.out \in [1..m -> Seq(Int)]
      BY DEF ref_buffer
    <3>5. CASE layout[i].type = "ref"
      <4>1. EncodeStep(w, layout[i], v) =
              [at |-> ref_buffer(w.at) + 1, out |-> [w.out EXCEPT ![ref_buffer(w.at)] = e]]
        BY <3>5 DEF EncodeStep
      <4>2. [w.out EXCEPT ![ref_buffer(w.at)] = e] \in [1..m -> Seq(Int)]
        BY <3>1, <3>3, <3>4
      <4>3. QED  BY <3>4, <4>1, <4>2
    <3>6. CASE layout[i].type # "ref"
      <4>1. EncodeStep(w, layout[i], v)
              = [at |-> w.at, out |-> [w.out EXCEPT ![w.at] = w.out[w.at] \o e]]
        BY <3>6 DEF EncodeStep
      <4>2. [w.out EXCEPT ![w.at] = w.out[w.at] \o e] \in [1..m -> Seq(Int)]
        BY <3>2, <3>3, <3>4
      <4>3. QED  BY <3>4, <4>1, <4>2
    <3>7. QED  BY <3>5, <3>6
  <2> HIDE DEF V
  <2>3. QED  BY <2>1, <2>2
<1>2. PICK f \in [SUBSET (1..n) -> V] : Folding(f, n, b, Do)
  <2> HIDE DEF Do, V, b
  <2>1. CanFold(n, V, b, Do)  BY <1>1, FoldExists, Zenon
  <2>2. QED  BY <2>1 DEF CanFold
<1>3. ASSUME NEW s \in SUBSET (1..n), s # {}
      PROVE  Do[<<Max(s), f[s \ {Max(s)}]>>]
                = EncodeStep(f[s \ {Max(s)}], layout[Max(s)], v)
  <2> HIDE DEF V
  <2>1. Max(s) \in 1..n /\ f[s \ {Max(s)}] \in V  BY <1>2, <1>3, Largest
  <2>2. QED  BY <2>1
<1>4. Steps(f)
  <2> HIDE DEF Do, V, b
  <2>1. QED  BY <1>2, <1>3 DEF Folding
<1> DEFINE h == CHOOSE e : Steps(e)
           g == [k \in 0..n |-> h[1..k]]
<1>5. encode(layout, v, m) = h[1..n].out
  BY DEF encode, FoldLeft, MapThenFoldSet, EncodeStep, Empty
<1>6. Steps(h)  BY <1>4
<1> HIDE DEF h, b
<1>7. g[0] = b
  <2>1. 1..0 = {} /\ 1..0 \in SUBSET (1..n) /\ 0 \in 0..n  OBVIOUS
  <2>2. QED  BY <1>6, <2>1
<1>8. ASSUME NEW k \in 1..n PROVE g[k] = EncodeStep(g[k - 1], layout[k], v)
  <2>1. h[1..k] = EncodeStep(h[(1..k) \ {k}], layout[k], v)  BY <1>6, FirstOnes
  <2>2. (1..k) \ {k} = 1 .. k - 1 /\ k \in 0..n /\ k - 1 \in 0..n  BY FirstOnes
  <2>3. QED  BY <2>1, <2>2
<1>9. n \in 0..n  OBVIOUS
<1> HIDE DEF g
<1>10. g[n] = h[1..n]  BY <1>9 DEF g
<1>11. Writes(layout, v, m, g)  BY <1>7, <1>8 DEF Writes, b
<1>12. QED  BY <1>5, <1>10, <1>11

\* The lengths of fields that are not references.
FixedStep(n, f) == n + f.len

FixedLengths(layout, g) ==
    /\ g[0] = 0
    /\ \A k \in 1..Len(layout) : g[k] = FixedStep(g[k - 1], layout[k])

LEMMA FixedLength ==
    ASSUME NEW layout, NEW n \in Nat, n = Len(layout), DOMAIN layout = 1..n,
           \A k \in 1..n : layout[k].len \in Nat
    PROVE  \E g : FixedLengths(layout, g) /\ FixedLen(layout) = g[n]
<1> DEFINE V == Nat
           b == 0
           Do == [p \in (1..n) \X V |-> FixedStep(p[2], layout[p[1]])]
           Steps(f) == f = [s \in SUBSET (1..n) |->
                               IF s = {} THEN b
                               ELSE FixedStep(f[s \ {Max(s)}], layout[Max(s)])]
<1>1. b \in V /\ Do \in [(1..n) \X V -> V]
  <2>1. 0 \in Nat /\ \A a \in Nat, k \in 1..n : FixedStep(a, layout[k]) \in Nat
    BY DEF FixedStep
  <2>2. QED  BY <2>1
<1>2. PICK f \in [SUBSET (1..n) -> V] : Folding(f, n, b, Do)
  <2> HIDE DEF Do, V, b
  <2>1. CanFold(n, V, b, Do)  BY <1>1, FoldExists, Zenon
  <2>2. QED  BY <2>1 DEF CanFold
<1>3. ASSUME NEW s \in SUBSET (1..n), s # {}
      PROVE  Do[<<Max(s), f[s \ {Max(s)}]>>]
                = FixedStep(f[s \ {Max(s)}], layout[Max(s)])
  <2> HIDE DEF V
  <2>1. Max(s) \in 1..n /\ f[s \ {Max(s)}] \in V  BY <1>2, <1>3, Largest
  <2>2. QED  BY <2>1
<1>4. Steps(f)
  <2> HIDE DEF Do, V, b
  <2>1. QED  BY <1>2, <1>3 DEF Folding
<1> DEFINE h == CHOOSE e : Steps(e)
           g == [k \in 0..n |-> h[1..k]]
<1>5. FixedLen(layout) = h[1..n]
  BY DEF FixedLen, FoldLeft, MapThenFoldSet, FixedStep
<1>6. Steps(h)  BY <1>4
<1> HIDE DEF h, b
<1>7. g[0] = b
  <2>1. 1..0 = {} /\ 1..0 \in SUBSET (1..n) /\ 0 \in 0..n  OBVIOUS
  <2>2. QED  BY <1>6, <2>1
<1>8. ASSUME NEW k \in 1..n PROVE g[k] = FixedStep(g[k - 1], layout[k])
  <2>1. h[1..k] = FixedStep(h[(1..k) \ {k}], layout[k])  BY <1>6, FirstOnes
  <2>2. (1..k) \ {k} = 1 .. k - 1 /\ k \in 0..n /\ k - 1 \in 0..n  BY FirstOnes
  <2>3. QED  BY <2>1, <2>2
<1>9. n \in 0..n  OBVIOUS
<1> HIDE DEF g
<1>10. g[n] = h[1..n]  BY <1>9 DEF g
<1>11. FixedLengths(layout, g)  BY <1>7, <1>8 DEF FixedLengths, b
<1>12. QED  BY <1>5, <1>10, <1>11

\* Sequences are put together one after the other.
Joined(n, seqs, g) ==
    /\ g[0] = <<>>
    /\ \A k \in 1..n : g[k] = g[k - 1] \o seqs[k]
    /\ FlattenSeq(seqs) = g[n]

LEMMA Flattening ==
    ASSUME NEW S, NEW n \in Nat \ {0}, NEW seqs \in [1..n -> Seq(S)]
    PROVE  \E g \in [0..n -> Seq(S)] : Joined(n, seqs, g)
<1> DEFINE Do == [p \in (1..n) \X Seq(S) |-> p[2] \o seqs[p[1]]]
           Steps(f) == f = [i \in 1..n |-> IF i = 1 THEN seqs[i] ELSE f[i - 1] \o seqs[i]]
<1>0. Len(seqs) = n /\ n \in Nat /\ <<>> \in Seq(S)  OBVIOUS
<1>1. Do \in [(1..n) \X Seq(S) -> Seq(S)]  BY ConcatProperties
<1>2. PICK f \in [SUBSET (1..n) -> Seq(S)] : Folding(f, n, <<>>, Do)
  <2> HIDE DEF Do
  <2>1. CanFold(n, Seq(S), <<>>, Do)  BY <1>0, <1>1, FoldExists, Zenon
  <2>2. QED  BY <2>1 DEF CanFold
<1> DEFINE e == [k \in 1..n |-> f[1..k]]
<1>3. f[1..0] = <<>>
  <2>1. 1..0 = {} /\ 1..0 \in SUBSET (1..n)  OBVIOUS
  <2> HIDE DEF Do
  <2>2. QED  BY <1>2, <2>1 DEF Folding
<1>4. ASSUME NEW k \in 1..n PROVE f[1..k] = f[1 .. k - 1] \o seqs[k]
  <2>1. 1..k \in SUBSET (1..n) /\ 1..k # {} /\ Max(1..k) = k /\ (1..k) \ {k} = 1 .. k - 1
        /\ 1 .. k - 1 \in SUBSET (1..n)
    BY <1>0, FirstOnes
  <2>2. f[1 .. k - 1] \in Seq(S)  BY <1>2, <2>1
  <2>3. Do[<<k, f[1 .. k - 1]>>] = f[1 .. k - 1] \o seqs[k]  BY <2>2
  <2> HIDE DEF Do
  <2>4. f[1..k] = Do[<<k, f[1 .. k - 1]>>]  BY <1>2, <2>1 DEF Folding
  <2>5. QED  BY <2>3, <2>4
<1>5. Steps(e)
  <2> SUFFICES ASSUME NEW k \in 1..n
      PROVE  e[k] = IF k = 1 THEN seqs[k] ELSE e[k - 1] \o seqs[k]
    OBVIOUS
  <2>1. CASE k = 1
    <3>1. f[1..1] = f[1..0] \o seqs[1]  BY <1>4, <2>1, 1 - 1 = 0
    <3>2. f[1..1] = seqs[1]  BY <1>3, <2>1, <3>1, ConcatEmptySeq
    <3>3. QED  BY <2>1, <3>2
  <2>2. CASE k # 1
    <3>1. k - 1 \in 1..n  BY <2>2
    <3>2. QED  BY <1>4, <2>2, <3>1
  <2>3. QED  BY <2>1, <2>2
<1> DEFINE h == CHOOSE d : Steps(d)
           g == [k \in 0..n |-> IF k = 0 THEN <<>> ELSE h[k]]
<1>6. FlattenSeq(seqs) = h[n]  BY <1>0 DEF FlattenSeq
<1>7. Steps(h)
  <2> HIDE DEF e
  <2>1. QED  BY <1>5
<1> HIDE DEF h
<1>8. g[0] = <<>>  OBVIOUS
<1>9. ASSUME NEW k \in 1..n PROVE g[k] = g[k - 1] \o seqs[k]
  <2>1. h[k] = IF k = 1 THEN seqs[k] ELSE h[k - 1] \o seqs[k]  BY <1>7
  <2>2. g[k] = h[k] /\ g[k - 1] = (IF k = 1 THEN <<>> ELSE h[k - 1])  OBVIOUS
  <2>3. seqs[k] \in Seq(S)  OBVIOUS
  <2>4. <<>> \o seqs[k] = seqs[k]  BY <2>3, ConcatEmptySeq
  <2>5. QED  BY <2>1, <2>2, <2>4
<1>10. g[n] = h[n]  OBVIOUS
<1>11. g = [k \in 0..n |-> g[k]]  OBVIOUS
<1> HIDE DEF g
<1> DEFINE P == {k \in Nat : k <= n => g[k] \in Seq(S)}
<1>12. 0 \in P  BY <1>0, <1>8
<1>13. ASSUME NEW k \in Nat, k \in P PROVE k + 1 \in P
  <2> SUFFICES ASSUME k + 1 <= n PROVE g[k + 1] \in Seq(S)  OBVIOUS
  <2>1. g[k] \in Seq(S) /\ k + 1 \in 1..n /\ (k + 1) - 1 = k /\ seqs[k + 1] \in Seq(S)
    BY <1>13
  <2>2. g[k] \o seqs[k + 1] \in Seq(S)  BY <2>1, ConcatProperties
  <2>3. QED  BY <1>9, <2>1, <2>2
<1>14. Nat \subseteq P
  <2> HIDE DEF P
  <2>1. QED  BY <1>12, <1>13, Induction
<1>15. g \in [0..n -> Seq(S)]  BY <1>11, <1>14
<1>16. Joined(n, seqs, g)  BY <1>6, <1>8, <1>9, <1>10 DEF Joined
<1>17. QED  BY <1>15, <1>16

\* Bytes that are shifted in make an integer, whatever they are.
LEMMA DecodeIntType ==
    ASSUME NEW n \in 1..8, NEW bytes \in [1..n -> Int]
    PROVE  decode_int(bytes) \in Int
<1>1. n \in Nat /\ n \in 0..8 /\ Len(bytes) = n  OBVIOUS
<1>2. PICK g : g[0] = 0 /\ (\A k \in 1..n : g[k] = g[k - 1] * Byte + bytes[k])
               /\ DECODE_INT(bytes) = g[n]
  BY <1>1, ShiftsIn
<1> DEFINE P == {k \in Nat : k <= n => g[k] \in Int}
<1>3. 0 \in P  BY <1>2
<1>4. ASSUME NEW k \in Nat, k \in P PROVE k + 1 \in P
  <2> SUFFICES ASSUME k + 1 <= n PROVE g[k + 1] \in Int  OBVIOUS
  <2>1. g[k] \in Int /\ k + 1 \in 1..n /\ (k + 1) - 1 = k  BY <1>4
  <2>2. bytes[k + 1] \in Int /\ Byte \in Int  BY <2>1, CodecAssumption
  <2>3. g[k + 1] = g[k] * Byte + bytes[k + 1]  BY <1>2, <2>1
  <2>4. QED  BY <2>1, <2>2, <2>3
<1>5. Nat \subseteq P
  <2> HIDE DEF P
  <2>1. QED  BY <1>3, <1>4, Induction
<1>6. g[n] \in Int  BY <1>1, <1>5
<1>7. Power[n] \in Nat  BY <1>1, PowerType
<1>8. QED  BY <1>1, <1>2, <1>6, <1>7 DEF decode_int

\* The fields are read.
DecodeBytes(d, f, wire) ==
    BytesAt(wire, d.pos, IF f.type = "ref" THEN d.v["packet_len"] - f.len ELSE f.len)

DecodeStep(d, f, wire) ==
    [pos |-> d.pos + (IF f.type = "ref" THEN d.v["packet_len"] - f.len ELSE f.len),
     v   |-> [d.v EXCEPT ![f.name] = IF f.type = "int" THEN decode_int(DecodeBytes(d, f, wire))
                                     ELSE DecodeBytes(d, f, wire)]]

Unread(layout) ==
    [pos |-> 0, v |-> [x \in {layout[i].name : i \in DOMAIN layout} |-> 0]]

Reads(layout, wire, g) ==
    /\ g[0] = Unread(layout)
    /\ \A k \in 1..Len(layout) : g[k] = DecodeStep(g[k - 1], layout[k], wire)

LEMMA Decode ==
    ASSUME NEW layout, NEW n \in Nat, n = Len(layout), DOMAIN layout = 1..n,
           GoodLayout(layout), NEW wire \in Seq(Int)
    PROVE  \E g : Reads(layout, wire, g) /\ decode(layout, wire) = g[n].v
<1> DEFINE N == {layout[i].name : i \in 1..n}
           Read == Int \cup UNION {[1..k -> Int] : k \in Int}
           W == {w \in [N -> Read] : w["packet_len"] \in Int}
           V == [pos : Int, v : W]
           b == Unread(layout)
           Do == [p \in (1..n) \X V |-> DecodeStep(p[2], layout[p[1]], wire)]
           Steps(f) == f = [s \in SUBSET (1..n) |->
                               IF s = {} THEN b
                               ELSE DecodeStep(f[s \ {Max(s)}], layout[Max(s)], wire)]
<1>1. b \in V /\ Do \in [(1..n) \X V -> V]
  <2>1. b \in V
    <3>1. Unread(layout).pos = 0
          /\ Unread(layout).v = [x \in N |-> 0]
          /\ Unread(layout) = [pos |-> Unread(layout).pos, v |-> Unread(layout).v]
      BY DEF Unread
    <3>2. 1 \in 1..n /\ layout[1].name = "packet_len"  BY DEF GoodLayout, Int32
    <3>3. "packet_len" \in N  BY <3>2
    <3>4. [x \in N |-> 0] \in W  BY <3>3
    <3> HIDE DEF W
    <3>5. QED  BY <3>1, <3>4
  <2>2. ASSUME NEW d \in V, NEW i \in 1..n PROVE DecodeStep(d, layout[i], wire) \in V
    <3> DEFINE f == layout[i]
               l == IF f.type = "ref" THEN d.v["packet_len"] - f.len ELSE f.len
               bytes == DecodeBytes(d, f, wire)
               x == IF f.type = "int" THEN decode_int(bytes) ELSE bytes
    <3>1. f.type \in {"int", "str", "ref"} /\ f.len \in Nat /\ (f.type = "int" => f.len \in 1..8)
          /\ (f.name = "packet_len" => f.type = "int")
      <4>1. 1 \in 1..n /\ layout[1].name = "packet_len" /\ layout[1].type = "int"
        BY DEF GoodLayout, Int32
      <4>2. QED  BY <4>1 DEF GoodLayout
    <3>2. d.pos \in Int /\ d.v \in W  OBVIOUS
    <3>3. l \in Int  BY <3>1, <3>2
    <3>4. bytes \in [1..l -> Int]
      <4>1. \A k \in DOMAIN wire : wire[k] \in Int  OBVIOUS
      <4> HIDE DEF l
      <4>2. BytesAt(wire, d.pos, l) \in [1..l -> Int]  BY <4>1 DEF BytesAt, Outside
      <4>3. QED  BY <4>2 DEF DecodeBytes, l
    <3>5. x \in Read /\ (f.type = "int" => x \in Int)
      <4>1. CASE f.type = "int"
        <5>1. bytes \in [1..f.len -> Int] /\ f.len \in 1..8  BY <3>1, <3>4, <4>1
        <5> HIDE DEF bytes
        <5>2. decode_int(bytes) \in Int  BY <5>1, DecodeIntType
        <5>3. QED  BY <4>1, <5>2
      <4>2. CASE f.type # "int"
        <5> HIDE DEF l, bytes
        <5>1. bytes \in Read  BY <3>3, <3>4
        <5>2. QED  BY <4>2, <5>1
      <4>3. QED  BY <4>1, <4>2
    <3> HIDE DEF x, l, Read
    <3>6. [d.v EXCEPT ![f.name] = x] \in W
      <4>1. d.v \in [N -> Read] /\ d.v["packet_len"] \in Int  BY <3>2
      <4>2. [d.v EXCEPT ![f.name] = x] \in [N -> Read]  BY <3>5, <4>1
      <4>3. [d.v EXCEPT ![f.name] = x]["packet_len"] \in Int
        <5>0. 1 \in 1..n /\ layout[1].name = "packet_len"  BY DEF GoodLayout, Int32
        <5>1. "packet_len" \in N  BY <5>0
        <5> HIDE DEF N, f
        <5>2. QED  BY <3>1, <3>5, <4>1, <5>1
      <4>4. QED  BY <4>2, <4>3
    <3> HIDE DEF W
    <3>7. d.pos + l \in Int  BY <3>2, <3>3
    <3>8. DecodeStep(d, f, wire) = [pos |-> d.pos + l, v |-> [d.v EXCEPT ![f.name] = x]]
      BY DEF DecodeStep, l, x
    <3> HIDE DEF f
    <3>9. QED  BY <3>6, <3>7, <3>8 DEF f
  <2> HIDE DEF V
  <2>3. QED  BY <2>1, <2>2
<1>2. PICK f \in [SUBSET (1..n) -> V] : Folding(f, n, b, Do)
  <2> HIDE DEF Do, V, b
  <2>1. CanFold(n, V, b, Do)  BY <1>1, FoldExists, Zenon
  <2>2. QED  BY <2>1 DEF CanFold
<1>3. ASSUME NEW s \in SUBSET (1..n), s # {}
      PROVE  Do[<<Max(s), f[s \ {Max(s)}]>>]
                = DecodeStep(f[s \ {Max(s)}], layout[Max(s)], wire)
  <2> HIDE DEF V
  <2>1. Max(s) \in 1..n /\ f[s \ {Max(s)}] \in V  BY <1>2, <1>3, Largest
  <2>2. QED  BY <2>1
<1>4. Steps(f)
  <2> HIDE DEF Do, V, b
  <2>1. QED  BY <1>2, <1>3 DEF Folding
<1> DEFINE h == CHOOSE e : Steps(e)
           g == [k \in 0..n |-> h[1..k]]
<1>5. decode(layout, wire) = h[1..n].v
  BY DEF decode, FoldLeft, MapThenFoldSet, DecodeStep, DecodeBytes, Unread
<1>6. Steps(h)  BY <1>4
<1> HIDE DEF h, b
<1>7. g[0] = b
  <2>1. 1..0 = {} /\ 1..0 \in SUBSET (1..n) /\ 0 \in 0..n  OBVIOUS
  <2>2. QED  BY <1>6, <2>1
<1>8. ASSUME NEW k \in 1..n PROVE g[k] = DecodeStep(g[k - 1], layout[k], wire)
  <2>1. h[1..k] = DecodeStep(h[(1..k) \ {k}], layout[k], wire)  BY <1>6, FirstOnes
  <2>2. (1..k) \ {k} = 1 .. k - 1 /\ k \in 0..n /\ k - 1 \in 0..n  BY FirstOnes
  <2>3. QED  BY <2>1, <2>2
<1>9. n \in 0..n  OBVIOUS
<1> HIDE DEF g
<1>10. g[n] = h[1..n]  BY <1>9 DEF g
<1>11. Reads(layout, wire, g)  BY <1>7, <1>8 DEF Reads, b
<1>12. QED  BY <1>5, <1>10, <1>11

-----------------------------------------------------------------------------
(* What the passes make.                                                   *)

\* The bytes up to each field.
Bytes(layout, v, g) ==
    /\ g \in [0..Len(layout) -> Seq(Int)]
    /\ g[0] = <<>>
    /\ \A k \in 1..Len(layout) : g[k] = g[k - 1] \o FieldBytes(layout[k], v)

LEMMA BytesExist ==
    ASSUME NEW layout, GoodLayout(layout), NEW v, GoodValues(layout, v)
    PROVE  \E g : Bytes(layout, v, g)
                  /\ FlattenSeq([i \in DOMAIN layout |-> FieldBytes(layout[i], v)])
                     = g[Len(layout)]
<1> DEFINE n == Len(layout)
           seqs == [i \in DOMAIN layout |-> FieldBytes(layout[i], v)]
<1>1. n \in Nat \ {0} /\ DOMAIN layout = 1..n  BY DEF GoodLayout
<1>2. seqs \in [1..n -> Seq(Int)] /\ \A k \in 1..n : seqs[k] = FieldBytes(layout[k], v)
  BY <1>1, FieldBytesLen
<1> HIDE DEF n, seqs
<1>3. PICK g \in [0..n -> Seq(Int)] : Joined(n, seqs, g)
  BY <1>1, <1>2, Flattening, Zenon
<1>4. Bytes(layout, v, g)  BY <1>2, <1>3 DEF Bytes, Joined, n
<1>5. QED  BY <1>3, <1>4 DEF Joined, n, seqs

LEMMA LengthsExist ==
    ASSUME NEW layout, GoodLayout(layout), NEW v,
           \A i \in 1..Len(layout) : FieldLen(layout[i], v) \in Nat
    PROVE  \E n : Lengths(layout, v, n) /\ cmd_len(layout, v) = n[Len(layout)]
<1>1. Len(layout) \in Nat /\ DOMAIN layout = 1..Len(layout)  BY DEF GoodLayout
<1>2. QED  BY <1>1, CmdLen, Zenon

LEMMA LengthsType ==
    ASSUME NEW layout, GoodLayout(layout), NEW v, NEW n, Lengths(layout, v, n),
           \A i \in 1..Len(layout) : FieldLen(layout[i], v) \in Nat
    PROVE  \A k \in 0..Len(layout) : n[k] \in Nat
<1> DEFINE L == Len(layout)
           P == {k \in Nat : k <= L => n[k] \in Nat}
<1>1. L \in Nat  BY DEF GoodLayout
<1>2. n[0] = 0 /\ \A k \in 1..L : n[k] = n[k - 1] + FieldLen(layout[k], v)  BY DEF Lengths
<1>3. \A k \in 1..L : FieldLen(layout[k], v) \in Nat  OBVIOUS
<1> HIDE DEF L
<1>4. 0 \in P  BY <1>2
<1>5. ASSUME NEW k \in Nat, k \in P PROVE k + 1 \in P
  <2> SUFFICES ASSUME k + 1 <= L PROVE n[k + 1] \in Nat  OBVIOUS
  <2>1. n[k] \in Nat /\ k + 1 \in 1..L /\ (k + 1) - 1 = k  BY <1>1, <1>5
  <2>2. n[k + 1] = n[k] + FieldLen(layout[k + 1], v)  BY <1>2, <2>1
  <2>3. FieldLen(layout[k + 1], v) \in Nat  BY <1>3, <2>1
  <2>4. QED  BY <2>1, <2>2, <2>3
<1>6. Nat \subseteq P
  <2> HIDE DEF P
  <2>1. QED  BY <1>4, <1>5, Induction
<1>7. QED  BY <1>1, <1>6 DEF L

\* They are as many as were counted.
LEMMA BytesLen ==
    ASSUME NEW layout, GoodLayout(layout), NEW v, GoodValues(layout, v),
           NEW g, Bytes(layout, v, g), NEW n, Lengths(layout, v, n)
    PROVE  \A k \in 0..Len(layout) : n[k] \in Nat /\ Len(g[k]) = n[k]
<1> DEFINE L == Len(layout)
           P == {k \in Nat : k <= L => Len(g[k]) = n[k]}
<1>1. L \in Nat  BY DEF GoodLayout
<1>2. \A k \in 1..L : /\ FieldBytes(layout[k], v) \in Seq(Int)
                        /\ Len(FieldBytes(layout[k], v)) = FieldLen(layout[k], v)
                        /\ FieldLen(layout[k], v) \in Nat
  BY FieldBytesLen
<1>3. \A k \in 0..L : n[k] \in Nat  BY <1>2, LengthsType
<1>4. n[0] = 0 /\ \A k \in 1..L : n[k] = n[k - 1] + FieldLen(layout[k], v)  BY DEF Lengths
<1>5. /\ g \in [0..L -> Seq(Int)] /\ g[0] = <<>>
      /\ \A k \in 1..L : g[k] = g[k - 1] \o FieldBytes(layout[k], v)
  BY DEF Bytes
<1> HIDE DEF L
<1>6. 0 \in P  BY <1>4, <1>5
<1>7. ASSUME NEW k \in Nat, k \in P PROVE k + 1 \in P
  <2> SUFFICES ASSUME k + 1 <= L PROVE Len(g[k + 1]) = n[k + 1]  OBVIOUS
  <2> DEFINE e == FieldBytes(layout[k + 1], v)
  <2>1. Len(g[k]) = n[k] /\ k + 1 \in 1..L /\ k \in 0..L /\ (k + 1) - 1 = k  BY <1>1, <1>7
  <2>2. n[k + 1] = n[k] + FieldLen(layout[k + 1], v) /\ g[k + 1] = g[k] \o e
    BY <1>4, <1>5, <2>1
  <2>3. e \in Seq(Int) /\ Len(e) = FieldLen(layout[k + 1], v) /\ g[k] \in Seq(Int)
    BY <1>2, <1>5, <2>1
  <2> HIDE DEF e
  <2>4. Len(g[k] \o e) = Len(g[k]) + Len(e)  BY <2>3, ConcatProperties
  <2>5. QED  BY <2>1, <2>2, <2>3, <2>4
<1>8. Nat \subseteq P
  <2> HIDE DEF P
  <2>1. QED  BY <1>6, <1>7, Induction
<1>9. QED  BY <1>1, <1>3, <1>8 DEF L

\* The bytes of a field are found behind those of the fields before it.
Found(e, p, w) == \A i \in 1..Len(e) : p + i \in 1..Len(w) /\ w[p + i] = e[i]

LEMMA BytesOfField ==
    ASSUME NEW layout, GoodLayout(layout), NEW v, GoodValues(layout, v),
           NEW g, Bytes(layout, v, g), NEW k \in 1..Len(layout)
    PROVE  /\ Len(g[k - 1]) \in Nat
           /\ Found(FieldBytes(layout[k], v), Len(g[k - 1]), g[Len(layout)])
<1> DEFINE L == Len(layout)
           e == FieldBytes(layout[k], v)
           p == Len(g[k - 1])
           In(s) == \A i \in 1..Len(e) : p + i \in 1..Len(s) /\ s[p + i] = e[i]
           P == {j \in Nat : k + j <= L => In(g[k + j])}
<1>1. L \in Nat /\ k \in 1..L  BY DEF GoodLayout
<1>2. \A j \in 1..L : FieldBytes(layout[j], v) \in Seq(Int)  BY FieldBytesLen
<1>3. /\ g \in [0..L -> Seq(Int)]
      /\ \A j \in 1..L : g[j] = g[j - 1] \o FieldBytes(layout[j], v)
  BY DEF Bytes
<1> HIDE DEF L
<1>4. e \in Seq(Int) /\ Len(e) \in Nat /\ g[k - 1] \in Seq(Int) /\ p \in Nat
      /\ g[k] = g[k - 1] \o e
  <2>1. k - 1 \in 0..L  BY <1>1
  <2>2. e \in Seq(Int) /\ g[k] = g[k - 1] \o e  BY <1>1, <1>2, <1>3
  <2>3. g[k - 1] \in Seq(Int)  BY <1>3, <2>1
  <2> HIDE DEF e
  <2>4. QED  BY <2>2, <2>3
<1> HIDE DEF e
<1>5. 0 \in P
  <2>1. k + 0 = k  BY <1>1
  <2>2. Len(g[k]) = p + Len(e)  BY <1>4, ConcatProperties
  <2>3. ASSUME NEW i \in 1..Len(e) PROVE p + i \in 1..Len(g[k]) /\ g[k][p + i] = e[i]
    <3>1. p + i \in 1 .. p + Len(e) /\ ~(p + i <= p) /\ (p + i) - p = i  BY <1>4
    <3>2. (g[k - 1] \o e)[p + i] = e[(p + i) - p]  BY <1>4, <3>1, ConcatProperties
    <3>3. QED  BY <1>4, <2>2, <3>1, <3>2
  <2>4. QED  BY <2>1, <2>3
<1>6. ASSUME NEW j \in Nat, j \in P PROVE j + 1 \in P
  <2> SUFFICES ASSUME k + (j + 1) <= L PROVE In(g[k + (j + 1)])  OBVIOUS
  <2> DEFINE x == FieldBytes(layout[k + (j + 1)], v)
             s == g[k + j]
  <2>1. k + (j + 1) \in 1..L /\ (k + (j + 1)) - 1 = k + j /\ k + j \in 0..L /\ k + j <= L
    BY <1>1
  <2>2. g[k + (j + 1)] = s \o x /\ s \in Seq(Int) /\ x \in Seq(Int)  BY <1>2, <1>3, <2>1
  <2>3. In(s)  BY <1>6, <2>1
  <2> HIDE DEF x, s
  <2>4. Len(s \o x) = Len(s) + Len(x) /\ Len(s) \in Nat /\ Len(x) \in Nat
    BY <2>2, ConcatProperties
  <2>5. ASSUME NEW i \in 1..Len(e)
        PROVE  p + i \in 1..Len(s \o x) /\ (s \o x)[p + i] = e[i]
    <3>1. p + i \in 1..Len(s) /\ s[p + i] = e[i]  BY <2>3
    <3>2. p + i \in 1 .. Len(s) + Len(x) /\ p + i <= Len(s)  BY <2>4, <3>1
    <3>3. (s \o x)[p + i] = s[p + i]  BY <2>2, <3>2, ConcatProperties
    <3>4. QED  BY <2>4, <3>1, <3>2, <3>3
  <2>6. QED  BY <2>2, <2>5
<1>7. Nat \subseteq P
  <2> HIDE DEF P
  <2>1. QED  BY <1>5, <1>6, Induction
<1>8. L - k \in Nat /\ k + (L - k) = L  BY <1>1
<1>9. In(g[L])  BY <1>7, <1>8
<1>10. QED  BY <1>4, <1>9 DEF L, e, Found

LastField(layout) == layout[Len(layout)]

\* A reference takes a second buffer.
LEMMA BufferCount ==
    ASSUME NEW layout, GoodLayout(layout)
    PROVE  bufs_alloc(layout) = IF LastField(layout).type = "ref" THEN 2 ELSE 1
<1> DEFINE L == Len(layout)
           one == [n |-> 1, is_new |-> FALSE]
<1>1. L \in Nat /\ L >= 2 /\ DOMAIN layout = 1..L
      /\ \A k \in 1 .. L - 1 : layout[k].type # "ref"
  BY DEF GoodLayout
<1>2. PICK g : Counts(layout, g) /\ bufs_alloc(layout) = g[L].n
  BY <1>1, BufsAlloc, Zenon
<1>3. g[0] = [n |-> 0, is_new |-> TRUE] /\ \A k \in 1..L : g[k] = CountStep(g[k - 1], layout[k])
  BY <1>2 DEF Counts
<1> HIDE DEF L
<1> DEFINE P == {k \in Nat : k + 1 <= L - 1 => g[k + 1] = one}
<1>4. 0 \in P
  <2>1. 1 \in 1..L /\ 1 - 1 = 0 /\ layout[1].type # "ref"  BY <1>1
  <2>2. g[1] = CountStep(g[0], layout[1])  BY <1>3, <2>1
  <2>3. g[1] = one  BY <1>3, <2>1, <2>2 DEF CountStep
  <2>4. QED  BY <2>3
<1>5. ASSUME NEW k \in Nat, k \in P PROVE k + 1 \in P
  <2> SUFFICES ASSUME (k + 1) + 1 <= L - 1 PROVE g[(k + 1) + 1] = one  OBVIOUS
  <2>1. g[k + 1] = one /\ (k + 1) + 1 \in 1..L /\ ((k + 1) + 1) - 1 = k + 1
        /\ layout[(k + 1) + 1].type # "ref"
    BY <1>1, <1>5
  <2>2. g[(k + 1) + 1] = CountStep(g[k + 1], layout[(k + 1) + 1])  BY <1>3, <2>1
  <2>3. QED  BY <2>1, <2>2 DEF CountStep
<1>6. Nat \subseteq P
  <2> HIDE DEF P
  <2>1. QED  BY <1>4, <1>5, Induction
<1>7. g[L - 1] = one
  <2>1. L - 2 \in Nat /\ (L - 2) + 1 = L - 1  BY <1>1
  <2>2. L - 2 \in P  BY <1>6, <2>1
  <2>3. QED  BY <2>1, <2>2
<1>8. g[L] = CountStep(one, layout[L])  BY <1>1, <1>3, <1>7
<1>9. QED  BY <1>2, <1>8 DEF CountStep, LastField, L

\* The first buffer has the fields before the reference, which has the second.
LEMMA Allocation ==
    ASSUME NEW layout, GoodLayout(layout), NEW v, NEW n, Lengths(layout, v, n),
           \A i \in 1..Len(layout) : FieldLen(layout[i], v) \in Nat
    PROVE  bufs_inner_alloc(layout, v) =
            IF LastField(layout).type = "ref"
            THEN [bufs   |-> <<[base |-> "malloc", len |-> n[Len(layout) - 1]],
                               [base |-> "ref", len |-> FieldLen(LastField(layout), v)]>>,
                  bitmap |-> {1}]
            ELSE [bufs   |-> <<[base |-> "malloc", len |-> n[Len(layout)]]>>, bitmap |-> {}]
<1> DEFINE L == Len(layout)
           at(k) == [bufs |-> <<>>, size |-> n[k], is_new |-> FALSE, index |-> 0, bitmap |-> {}]
<1>1. L \in Nat /\ L = Len(layout) /\ L >= 2 /\ DOMAIN layout = 1..L
      /\ \A k \in 1 .. L - 1 : layout[k].type # "ref"
  BY DEF GoodLayout
<1>2. PICK g : Allocs(layout, v, g) /\ bufs_inner_alloc(layout, v) = Allocated(g[L])
  <2> HIDE DEF L
  <2>1. \A i \in 1..L : FieldLen(layout[i], v) \in Nat  BY <1>1
  <2>2. QED  BY <1>1, <2>1, BufsInnerAlloc, Zenon
<1>3. g[0] = NoBuffer /\ \A k \in 1..L : g[k] = AllocStep(g[k - 1], layout[k], v)
  BY <1>2 DEF Allocs
<1>4. n[0] = 0 /\ \A k \in 1..L : n[k] = n[k - 1] + FieldLen(layout[k], v)  BY DEF Lengths
<1>5. \A k \in 0..L : n[k] \in Nat  BY LengthsType
<1>6. \A i \in 1..L : FieldLen(layout[i], v) \in Nat  OBVIOUS
<1> HIDE DEF L
<1> DEFINE P == {k \in Nat : k + 1 <= L - 1 => g[k + 1] = at(k + 1)}
<1>7. 0 \in P
  <2>1. 1 \in 1..L /\ 1 - 1 = 0 /\ layout[1].type # "ref"  BY <1>1
  <2>2. g[1] = AllocStep(NoBuffer, layout[1], v)  BY <1>3, <2>1
  <2>3. n[1] = 0 + FieldLen(layout[1], v)  BY <1>4, <2>1
  <2>4. g[1] = at(1)  BY <2>1, <2>2, <2>3 DEF AllocStep, NoBuffer
  <2>5. QED  BY <2>4
<1>8. ASSUME NEW k \in Nat, k \in P PROVE k + 1 \in P
  <2> SUFFICES ASSUME (k + 1) + 1 <= L - 1 PROVE g[(k + 1) + 1] = at((k + 1) + 1)  OBVIOUS
  <2>1. g[k + 1] = at(k + 1) /\ (k + 1) + 1 \in 1..L /\ ((k + 1) + 1) - 1 = k + 1
        /\ layout[(k + 1) + 1].type # "ref"
    BY <1>1, <1>8
  <2>2. g[(k + 1) + 1] = AllocStep(at(k + 1), layout[(k + 1) + 1], v)  BY <1>3, <2>1
  <2>3. n[(k + 1) + 1] = n[k + 1] + FieldLen(layout[(k + 1) + 1], v)  BY <1>4, <2>1
  <2>4. QED  BY <2>1, <2>2, <2>3 DEF AllocStep
<1>9. Nat \subseteq P
  <2> HIDE DEF P
  <2>1. QED  BY <1>7, <1>8, Induction
<1>10. g[L - 1] = at(L - 1)
  <2>1. L - 2 \in Nat /\ (L - 2) + 1 = L - 1  BY <1>1
  <2>2. L - 2 \in P  BY <1>9, <2>1
  <2>3. (L - 2) + 1 <= L - 1  BY <1>1
  <2>4. g[(L - 2) + 1] = at((L - 2) + 1)  BY <2>2, <2>3
  <2>5. QED  BY <2>1, <2>4
<1>11. g[L] = AllocStep(at(L - 1), layout[L], v)  BY <1>1, <1>3, <1>10
<1>12. n[L] = n[L - 1] + FieldLen(layout[L], v)  BY <1>1, <1>4
<1>13. CASE layout[L].type = "ref"
  <2>1. g[L] = [bufs |-> <<>> \o <<[base |-> "malloc", len |-> n[L - 1]],
                                  [base |-> "ref", len |-> FieldLen(layout[L], v)]>>,
                size |-> 0, is_new |-> TRUE, index |-> 1, bitmap |-> {1}]
    BY <1>11, <1>13 DEF AllocStep, ref_bit
  <2>2. QED  BY <1>2, <1>13, <2>1 DEF Allocated, LastField, L
<1>14. CASE layout[L].type # "ref"
  <2>1. g[L] = at(L)  BY <1>11, <1>12, <1>14 DEF AllocStep
  <2>2. QED  BY <1>2, <1>14, <2>1 DEF Allocated, LastField, L
<1>15. QED  BY <1>13, <1>14

\* The first buffer is written one field after the other, the second at once.
LEMMA Written ==
    ASSUME NEW layout, GoodLayout(layout), NEW v, GoodValues(layout, v),
           NEW g, Bytes(layout, v, g)
    PROVE  encode(layout, v, bufs_alloc(layout)) =
            IF LastField(layout).type = "ref"
            THEN <<g[Len(layout) - 1], FieldBytes(LastField(layout), v)>>
            ELSE <<g[Len(layout)]>>
<1> DEFINE L == Len(layout)
           m == bufs_alloc(layout)
           at(x) == [at |-> 1, out |-> [i \in 1..m |-> IF i = 1 THEN x ELSE <<>>]]
<1>1. L \in Nat /\ L = Len(layout) /\ L >= 2 /\ DOMAIN layout = 1..L
      /\ \A k \in 1 .. L - 1 : layout[k].type # "ref"
  BY DEF GoodLayout
<1>2. m = IF layout[L].type = "ref" THEN 2 ELSE 1  BY BufferCount DEF LastField
<1>3. \A i \in 1..L : FieldBytes(layout[i], v) \in Seq(Int)  BY FieldBytesLen
<1> HIDE DEF L, m
<1>4. m \in Nat  BY <1>2
<1>5. PICK e : Writes(layout, v, m, e) /\ encode(layout, v, m) = e[L].out
  <2>1. WrittenAsBytes(layout, v)  BY <1>1, <1>3 DEF WrittenAsBytes
  <2>2. L \in Nat /\ L = Len(layout) /\ DOMAIN layout = 1..L  BY <1>1
  <2> HIDE DEF at
  <2>3. QED  BY <1>4, <2>1, <2>2, Encode
<1>6. e[0] = Empty(m) /\ \A k \in 1..L : e[k] = EncodeStep(e[k - 1], layout[k], v)
  BY <1>5 DEF Writes, L
<1>7. /\ g \in [0..L -> Seq(Int)] /\ g[0] = <<>>
      /\ \A k \in 1..L : g[k] = g[k - 1] \o FieldBytes(layout[k], v)
  BY DEF Bytes, L
<1>8. ASSUME NEW k \in 1..L, layout[k].type # "ref", e[k - 1] = at(g[k - 1])
      PROVE  e[k] = at(g[k])
  <2> DEFINE x == FieldBytes(layout[k], v)
             y == g[k - 1]
  <2>1. e[k] = EncodeStep(at(y), layout[k], v) /\ g[k] = y \o x  BY <1>6, <1>7, <1>8
  <2>2. EncodeStep(at(y), layout[k], v) = [at(y) EXCEPT !.out[1] = y \o x]
    BY <1>2, <1>8 DEF EncodeStep
  <2> HIDE DEF x, y
  <2>3. [at(y) EXCEPT !.out[1] = y \o x] = at(y \o x)
    <3> DEFINE z == y \o x
    <3> HIDE DEF z
    <3>1. 1 \in 1..m  BY <1>2
    <3> DEFINE s == [i \in 1..m |-> IF i = 1 THEN y ELSE <<>>]
               t == [i \in 1..m |-> IF i = 1 THEN z ELSE <<>>]
    <3>2. \A i \in 1..m : [s EXCEPT ![1] = z][i] = t[i]  BY <3>1
    <3>3. [s EXCEPT ![1] = z] = t  BY <3>2
    <3>4. at(y) = [at |-> 1, out |-> s] /\ at(z) = [at |-> 1, out |-> t]  OBVIOUS
    <3> HIDE DEF at, s, t
    <3>5. [at(y) EXCEPT !.out[1] = z] = [at |-> 1, out |-> [s EXCEPT ![1] = z]]  BY <3>4
    <3>6. QED  BY <3>3, <3>4, <3>5 DEF z
  <2>4. QED  BY <2>1, <2>2, <2>3
<1> DEFINE P == {k \in Nat : k <= L - 1 => e[k] = at(g[k])}
<1>9. 0 \in P
  <2>1. Empty(m) = at(<<>>)  BY DEF Empty
  <2>2. QED  BY <1>6, <1>7, <2>1
<1>10. ASSUME NEW k \in Nat, k \in P PROVE k + 1 \in P
  <2> SUFFICES ASSUME k + 1 <= L - 1 PROVE e[k + 1] = at(g[k + 1])  OBVIOUS
  <2>1. e[k] = at(g[k]) /\ k + 1 \in 1..L /\ (k + 1) - 1 = k /\ layout[k + 1].type # "ref"
    BY <1>1, <1>10
  <2> HIDE DEF at
  <2>2. QED  BY <1>8, <2>1
<1>11. Nat \subseteq P
  <2> HIDE DEF P
  <2>1. QED  BY <1>9, <1>10, Induction
<1>12. e[L - 1] = at(g[L - 1])  BY <1>1, <1>11
<1>13. CASE layout[L].type = "ref"
  <2> DEFINE x == FieldBytes(layout[L], v)
             y == g[L - 1]
  <2>1. e[L] = EncodeStep(at(y), layout[L], v)  BY <1>1, <1>6, <1>12
  <2>2. EncodeStep(at(y), layout[L], v) = [at |-> 3, out |-> [at(y).out EXCEPT ![2] = x]]
    BY <1>13 DEF EncodeStep, ref_buffer
  <2> HIDE DEF x, y
  <2>3. [at(y).out EXCEPT ![2] = x] = <<y, x>>
    <3>1. m = 2 /\ 1..2 = {1, 2}  BY <1>2, <1>13
    <3>2. at(y).out = [i \in {1, 2} |-> IF i = 1 THEN y ELSE <<>>]  BY <3>1
    <3> DEFINE s == [i \in {1, 2} |-> IF i = 1 THEN y ELSE <<>>]
    <3>3. DOMAIN [s EXCEPT ![2] = x] = {1, 2} /\ [s EXCEPT ![2] = x][1] = y
          /\ [s EXCEPT ![2] = x][2] = x
      OBVIOUS
    <3>4. \A t : t = [i \in {1, 2} |-> t[i]] /\ t[1] = y /\ t[2] = x => t = <<y, x>>
      BY <3>1
    <3>5. [s EXCEPT ![2] = x] = <<y, x>>
      <4>1. [s EXCEPT ![2] = x] = [i \in {1, 2} |-> [s EXCEPT ![2] = x][i]]  OBVIOUS
      <4> DEFINE t == [s EXCEPT ![2] = x]
      <4> HIDE DEF t, s
      <4>2. t = [i \in {1, 2} |-> t[i]] /\ t[1] = y /\ t[2] = x  BY <3>3, <4>1 DEF t
      <4>3. t = <<y, x>>  BY <3>4, <4>2
      <4>4. QED  BY <4>3 DEF t
    <3> HIDE DEF at
    <3>6. QED  BY <3>2, <3>5
  <2>4. e[L].out = <<y, x>>
    <3> HIDE DEF at
    <3>1. QED  BY <2>1, <2>2, <2>3
  <2>5. QED  BY <1>5, <1>13, <2>4 DEF x, y, m, LastField, L
<1>14. CASE layout[L].type # "ref"
  <2>1. L \in 1..L  BY <1>1
  <2>2. e[L] = at(g[L])
    <3> HIDE DEF at
    <3>1. QED  BY <1>8, <1>12, <1>14, <2>1
  <2> DEFINE y == g[L]
  <2> HIDE DEF y
  <2>3. at(y).out = <<y>>  BY <1>2, <1>14
  <2>4. encode(layout, v, m) = <<y>>  BY <1>5, <2>2, <2>3 DEF y
  <2>5. QED  BY <1>14, <2>4 DEF y, m, LastField, L
<1>15. QED  BY <1>13, <1>14

\* The buffers, one after the other, are the bytes.
LEMMA Joining ==
    ASSUME NEW x \in Seq(Int), NEW y \in Seq(Int)
    PROVE  FlattenSeq(<<x>>) = x /\ FlattenSeq(<<x, y>>) = x \o y
<1>0. <<>> \o x = x  BY ConcatEmptySeq
<1>1. FlattenSeq(<<x>>) = x
  <2> DEFINE s == <<x>>
  <2>1. s \in [1..1 -> Seq(Int)] /\ s[1] = x /\ 1 \in Nat \ {0} /\ 1 - 1 = 0  OBVIOUS
  <2> HIDE DEF s
  <2>2. PICK g \in [0..1 -> Seq(Int)] : Joined(1, s, g)  BY <2>1, Flattening, Zenon
  <2>3. 1 \in 1..1  OBVIOUS
  <2>5. g[1] = <<>> \o s[1]  BY <2>1, <2>2, <2>3 DEF Joined
  <2>6. FlattenSeq(s) = x  BY <1>0, <2>1, <2>2, <2>5 DEF Joined
  <2>7. QED  BY <2>6 DEF s
<1>2. FlattenSeq(<<x, y>>) = x \o y
  <2> DEFINE s == <<x, y>>
  <2>1. s \in [1..2 -> Seq(Int)] /\ s[1] = x /\ s[2] = y /\ 2 \in Nat \ {0}  OBVIOUS
  <2>0. 1 - 1 = 0 /\ 2 - 1 = 1 /\ 1 \in 1..2 /\ 2 \in 1..2  OBVIOUS
  <2> HIDE DEF s
  <2>2. PICK g \in [0..2 -> Seq(Int)] : Joined(2, s, g)  BY <2>1, Flattening, Zenon
  <2>3. g[1] = x  BY <1>0, <2>0, <2>1, <2>2 DEF Joined
  <2>4. g[2] = x \o y  BY <2>0, <2>1, <2>2, <2>3 DEF Joined
  <2>5. FlattenSeq(s) = x \o y  BY <2>2, <2>4 DEF Joined
  <2>6. QED  BY <2>5 DEF s
<1>3. QED  BY <1>1, <1>2

\* The values that the fields are declared for are read from the bytes written.
LEMMA Decoding ==
    ASSUME NEW layout, GoodLayout(layout), NEW v, GoodValues(layout, v),
           v = [x \in {layout[i].name : i \in DOMAIN layout} |-> v[x]],
           NEW g, Bytes(layout, v, g),
           v["packet_len"] = Len(g[Len(layout)]),
           LastField(layout).type = "ref" => LastField(layout).len = Len(g[Len(layout) - 1])
    PROVE  decode(layout, g[Len(layout)]) = v
<1> DEFINE L == Len(layout)
           wire == g[L]
           N == {layout[i].name : i \in DOMAIN layout}
           e(k) == FieldBytes(layout[k], v)
           Right(d, k) == /\ d.pos = Len(g[k])
                          /\ d.v = [x \in N |-> d.v[x]]
                          /\ \A i \in 1..k : d.v[layout[i].name] = v[layout[i].name]
<1>1. /\ L \in Nat /\ L = Len(layout) /\ L >= 2 /\ DOMAIN layout = 1..L
      /\ layout[1] = Int32("packet_len")
      /\ \A k \in 1..L : layout[k].type \in {"int", "str", "ref"} /\ layout[k].len \in Nat
      /\ \A k \in 1..L : layout[k].type = "int" => layout[k].len \in 1..8
      /\ \A k \in 1 .. L - 1 : layout[k].type # "ref"
      /\ \A i, j \in 1..L : layout[i].name = layout[j].name => i = j
  BY DEF GoodLayout
<1>2. /\ g \in [0..L -> Seq(Int)] /\ g[0] = <<>>
      /\ \A k \in 1..L : g[k] = g[k - 1] \o e(k)
  BY DEF Bytes
<1>3. \A k \in 1..L : e(k) \in Seq(Int) /\ Len(e(k)) = FieldLen(layout[k], v)
  BY FieldBytesLen
<1>4. ASSUME NEW k \in 1..L
      PROVE  Len(g[k - 1]) \in Nat /\ Len(e(k)) \in Nat /\ Len(g[k]) = Len(g[k - 1]) + Len(e(k))
  <2>1. k - 1 \in 0..L  BY <1>1
  <2>2. g[k - 1] \in Seq(Int) /\ e(k) \in Seq(Int)  BY <1>2, <1>3, <2>1
  <2> HIDE DEF e
  <2>3. Len(g[k - 1] \o e(k)) = Len(g[k - 1]) + Len(e(k))  BY <2>2, ConcatProperties
  <2>4. Len(g[k - 1]) \in Nat /\ Len(e(k)) \in Nat  BY <2>2
  <2>5. QED  BY <1>2, <2>3, <2>4
<1>5. wire \in Seq(Int)  BY <1>1, <1>2
<1>6. ASSUME NEW k \in 1..L PROVE BytesAt(wire, Len(g[k - 1]), Len(e(k))) = e(k)
  <2> DEFINE p == Len(g[k - 1])
             s == e(k)
  <2>0. p \in Nat /\ Found(s, p, wire)  BY BytesOfField
  <2>1. p \in Nat /\ \A i \in 1..Len(s) : p + i \in 1..Len(wire) /\ wire[p + i] = s[i]
    BY <2>0 DEF Found
  <2>2. s \in Seq(Int) /\ DOMAIN wire = 1..Len(wire)  BY <1>3, <1>5
  <2> HIDE DEF p, s, wire
  <2>3. BytesAt(wire, p, Len(s)) = [i \in 1..Len(s) |-> s[i]]  BY <2>1, <2>2 DEF BytesAt
  <2>4. s = [i \in 1..Len(s) |-> s[i]]  BY <2>2
  <2>5. QED  BY <2>3, <2>4 DEF p, s
<1> HIDE DEF e
<1>7. ASSUME NEW d, NEW k \in 1..L, Right(d, k - 1)
      PROVE  Right(DecodeStep(d, layout[k], wire), k)
  <2> DEFINE f == layout[k]
             l == IF f.type = "ref" THEN d.v["packet_len"] - f.len ELSE f.len
             x == IF f.type = "int" THEN decode_int(DecodeBytes(d, f, wire))
                  ELSE DecodeBytes(d, f, wire)
  <2>1. l = Len(e(k))
    <3>1. CASE f.type = "ref"
      <4>1. k = L /\ k - 1 \in 1..L /\ L - 1 \in 1..L  BY <1>1, <3>1
      <4>2. 1 \in 1 .. k - 1 /\ layout[1].name = "packet_len"  BY <1>1, <4>1 DEF Int32
      <4>3. d.v["packet_len"] = Len(g[L])  BY <1>7, <4>2
      <4>4. f.len = Len(g[L - 1])  BY <3>1, <4>1 DEF LastField
      <4>5. Len(g[L]) = Len(g[L - 1]) + Len(e(L)) /\ Len(g[L - 1]) \in Nat /\ Len(e(L)) \in Nat
        BY <1>4, <4>1
      <4>6. l = Len(g[L]) - Len(g[L - 1])  BY <3>1, <4>3, <4>4
      <4>7. QED  BY <4>1, <4>5, <4>6
    <3>2. CASE f.type # "ref"  BY <1>3, <3>2 DEF FieldLen
    <3>3. QED  BY <3>1, <3>2
  <2>2. d.pos = Len(g[k - 1])  BY <1>7
  <2>3. DecodeBytes(d, f, wire) = e(k)  BY <1>6, <2>1, <2>2 DEF DecodeBytes
  <2>4. x = v[f.name]
    <3>1. GoodValue(f, v[f.name])  BY DEF GoodValues
    <3>2. CASE f.type = "int"
      <4>1. e(k) = encode_int(v[f.name], f.len)  BY <3>2 DEF e, FieldBytes
      <4>2. v[f.name] \in IntRange(f.len) /\ f.len \in 1..8  BY <1>1, <3>1, <3>2 DEF GoodValue
      <4>3. decode_int(e(k)) = v[f.name]  BY <4>1, <4>2, IntegerRoundTrip
      <4>4. QED  BY <2>3, <3>2, <4>3
    <3>3. CASE f.type # "int"
      <4>1. e(k) = v[f.name]  BY <3>3 DEF e, FieldBytes
      <4>2. QED  BY <2>3, <3>3, <4>1
    <3>4. QED  BY <3>2, <3>3
  <2> DEFINE r == DecodeStep(d, f, wire)
  <2>5. r = [pos |-> d.pos + l, v |-> [d.v EXCEPT ![f.name] = x]]  BY DEF DecodeStep
  <2> HIDE DEF x, l, r
  <2>6. r.pos = Len(g[k])  BY <1>4, <2>1, <2>2, <2>5
  <2>7. f.name \in N /\ d.v = [y \in N |-> d.v[y]]  BY <1>1, <1>7
  <2>8. r.v = [y \in N |-> IF y = f.name THEN v[f.name] ELSE d.v[y]]
    <3> HIDE DEF f, N
    <3>1. QED  BY <2>4, <2>5, <2>7
  <2>9. ASSUME NEW i \in 1..k PROVE r.v[layout[i].name] = v[layout[i].name]
    <3>1. i \in 1..L /\ layout[i].name \in N  BY <1>1
    <3>2. CASE i = k  BY <2>8, <3>1, <3>2
    <3>3. CASE i # k
      <4>1. layout[i].name # f.name /\ i \in 1 .. k - 1  BY <1>1, <3>1, <3>3
      <4>2. d.v[layout[i].name] = v[layout[i].name]  BY <1>7, <4>1
      <4>3. QED  BY <2>8, <3>1, <4>1, <4>2
    <3>4. QED  BY <3>2, <3>3
  <2>10. r.v = [y \in N |-> r.v[y]]  BY <2>8
  <2> HIDE DEF N, f
  <2>11. QED  BY <2>6, <2>9, <2>10 DEF r, f
<1>8. PICK h : Reads(layout, wire, h) /\ decode(layout, wire) = h[L].v
  <2> HIDE DEF L, wire
  <2>1. QED  BY <1>1, <1>5, Decode
<1>9. h[0] = Unread(layout) /\ \A k \in 1..L : h[k] = DecodeStep(h[k - 1], layout[k], wire)
  BY <1>8 DEF Reads
<1> DEFINE P == {k \in Nat : k <= L => Right(h[k], k)}
<1>10. 0 \in P
  <2>1. h[0].pos = 0 /\ h[0].v = [x \in N |-> 0]  BY <1>9 DEF Unread
  <2>2. h[0].pos = Len(g[0])  BY <1>2, <2>1
  <2>3. h[0].v = [x \in N |-> h[0].v[x]]
    <3> HIDE DEF N
    <3>1. QED  BY <2>1
  <2>4. 1..0 = {}  OBVIOUS
  <2> HIDE DEF N
  <2>5. Right(h[0], 0)  BY <2>2, <2>3, <2>4
  <2> HIDE DEF Right
  <2>6. QED  BY <2>5
<1>11. ASSUME NEW k \in Nat, k \in P PROVE k + 1 \in P
  <2> HIDE DEF Right
  <2> SUFFICES ASSUME k + 1 <= L PROVE Right(h[k + 1], k + 1)  OBVIOUS
  <2> HIDE DEF wire, L
  <2>1. Right(h[k], k) /\ k + 1 \in 1..L /\ (k + 1) - 1 = k  BY <1>1, <1>11
  <2>2. h[k + 1] = DecodeStep(h[k], layout[k + 1], wire)  BY <1>9, <2>1
  <2>3. QED  BY <1>7, <2>1, <2>2
<1>12. Nat \subseteq P
  <2> HIDE DEF P
  <2>1. QED  BY <1>10, <1>11, Induction
<1>13. Right(h[L], L)
  <2> HIDE DEF Right
  <2>1. QED  BY <1>1, <1>12
<1>14. \A x \in N : h[L].v[x] = v[x]
  <2> SUFFICES ASSUME NEW x \in N PROVE h[L].v[x] = v[x]  OBVIOUS
  <2>1. PICK i \in 1..L : x = layout[i].name  BY <1>1
  <2>2. QED  BY <1>13, <2>1
<1>15. h[L].v = v
  <2>1. h[L].v = [x \in N |-> h[L].v[x]]  BY <1>13
  <2>2. v = [x \in N |-> v[x]]  OBVIOUS
  <2> HIDE DEF N
  <2>3. QED  BY <1>14, <2>1, <2>2
<1>16. QED  BY <1>8, <1>15

-----------------------------------------------------------------------------
(* The values of a command.                                                *)

\* What the caller sets: every field but the first two, a frame of a length
\* there is.
GoodFields(c, v) ==
    /\ DOMAIN v = {f.name : f \in FieldsOf(c)}
    /\ \A i \in 3..Len(Layout(c)) : GoodValue(Layout(c)[i], v[Layout(c)[i].name])
    /\ LastField(Layout(c)).type = "ref" => Len(v[LastField(Layout(c)).name]) \in FrameLens

\* A command is shorter than its packet_len can tell.
LEMMA CommandLen ==
    ASSUME NEW c \in DOMAIN PROTOCOL_MAP, NEW v, GoodFields(c, v)
    PROVE  cmd_len(Layout(c), v) \in 0 .. Power[4] \div 2 - 1
<1> DEFINE l == Layout(c)
           h == Power[4] \div 2
<1>1. GoodLayout(l)  BY Layouts
<1>2. \A i \in 1..Len(l) : FieldLen(l[i], v) \in Nat
  <2> SUFFICES ASSUME NEW i \in 1..Len(l) PROVE FieldLen(l[i], v) \in Nat  OBVIOUS
  <2>1. /\ l[i].len \in Nat /\ Len(l) \in Nat
        /\ \A k \in 1 .. Len(l) - 1 : l[k].type # "ref"
    BY <1>1 DEF GoodLayout
  <2>2. CASE l[i].type = "ref"
    <3>1. i = Len(l)
      <4> HIDE DEF l
      <4>1. i \notin 1 .. Len(l) - 1  BY <2>1, <2>2
      <4>2. QED  BY <2>1, <4>1
    <3>2. Len(v[l[i].name]) \in FrameLens  BY <2>2, <3>1 DEF GoodFields, LastField
    <3>3. QED  BY <2>2, <3>2, CodecAssumption DEF FieldLen
  <2>3. QED  BY <2>1, <2>2 DEF FieldLen
<1>3. PICK n : Lengths(l, v, n) /\ cmd_len(l, v) = n[Len(l)]  BY <1>1, <1>2, LengthsExist
<1>4. n[0] = 0 /\ \A k \in 1..Len(l) : n[k] = n[k - 1] + FieldLen(l[k], v)
  BY <1>3 DEF Lengths
<1>5. h \in Nat /\ 16 + 24 < h /\ (TokenLen + 10) + 24 < h /\ \A x \in FrameLens : x + 24 < h
  <2>1. h \in Nat  BY HalfPower, 4 \in 1..8
  <2>2. \A x \in {16, TokenLen + 10} \cup FrameLens : x + 24 < h  BY LengthAssumption
  <2> HIDE DEF h
  <2>3. QED  BY <2>1, <2>2
<1>6. l[Len(l)].type = "ref" => Len(v[l[Len(l)].name]) \in FrameLens
  BY DEF GoodFields, LastField
<1> HIDE DEF h
<1>7. CASE c = "preview_cmd"
  <2>1. l = Fields_preview_cmd  BY <1>7, LayoutFields
  <2>2. Len(l) = 9  BY <2>1 DEF Fields_preview_cmd
  <2>3. /\ FieldLen(l[1], v) = 4
        /\ FieldLen(l[2], v) = 4
        /\ FieldLen(l[3], v) = 4
        /\ FieldLen(l[4], v) = 4
        /\ FieldLen(l[5], v) = 4
        /\ FieldLen(l[6], v) = TokenLen
        /\ FieldLen(l[7], v) = 8
        /\ FieldLen(l[8], v) = 2
        /\ FieldLen(l[9], v) = 4
    BY <2>1 DEF Fields_preview_cmd, FieldLen, Int16, Int32, Int64, FixedString, BinaryBufRef
  <2>4. /\ n[1] = n[0] + FieldLen(l[1], v)
        /\ n[2] = n[1] + FieldLen(l[2], v)
        /\ n[3] = n[2] + FieldLen(l[3], v)
        /\ n[4] = n[3] + FieldLen(l[4], v)
        /\ n[5] = n[4] + FieldLen(l[5], v)
        /\ n[6] = n[5] + FieldLen(l[6], v)
        /\ n[7] = n[6] + FieldLen(l[7], v)
        /\ n[8] = n[7] + FieldLen(l[8], v)
        /\ n[9] = n[8] + FieldLen(l[9], v)
    BY <1>4, <2>2
  <2>5. n[9] = TokenLen + 34  BY <1>4, <2>3, <2>4, CodecAssumption
  <2>6. QED  BY <1>3, <1>5, <2>2, <2>5, CodecAssumption DEF h
<1>8. CASE c = "preview_cmd_res"
  <2>1. l = Fields_preview_cmd_res  BY <1>8, LayoutFields
  <2>2. Len(l) = 10  BY <2>1 DEF Fields_preview_cmd_res
  <2>3. /\ FieldLen(l[1], v) = 4
        /\ FieldLen(l[2], v) = 4
        /\ FieldLen(l[3], v) = 4
        /\ FieldLen(l[4], v) = 4
        /\ FieldLen(l[5], v) = 4
        /\ FieldLen(l[6], v) = 4
        /\ FieldLen(l[7], v) = 4
        /\ FieldLen(l[8], v) = 4
        /\ FieldLen(l[9], v) = 4
        /\ FieldLen(l[10], v) = 4
    BY <2>1 DEF Fields_preview_cmd_res, FieldLen, Int16, Int32, Int64, FixedString, BinaryBufRef
  <2>4. /\ n[1] = n[0] + FieldLen(l[1], v)
        /\ n[2] = n[1] + FieldLen(l[2], v)
        /\ n[3] = n[2] + FieldLen(l[3], v)
        /\ n[4] = n[3] + FieldLen(l[4], v)
        /\ n[5] = n[4] + FieldLen(l[5], v)
        /\ n[6] = n[5] + FieldLen(l[6], v)
        /\ n[7] = n[6] + FieldLen(l[7], v)
        /\ n[8] = n[7] + FieldLen(l[8], v)
        /\ n[9] = n[8] + FieldLen(l[9], v)
        /\ n[10] = n[9] + FieldLen(l[10], v)
    BY <1>4, <2>2
  <2>5. n[10] = 40  BY <1>4, <2>3, <2>4
  <2>6. QED  BY <1>3, <1>5, <2>2, <2>5 DEF h
<1>9. CASE c = "smts_frame_res"
  <2>1. l = Fields_smts_frame_res  BY <1>9, LayoutFields
  <2>2. Len(l) = 7  BY <2>1 DEF Fields_smts_frame_res
  <2>3. /\ FieldLen(l[1], v) = 4
        /\ FieldLen(l[2], v) = 4
        /\ FieldLen(l[3], v) = 4
        /\ FieldLen(l[4], v) = 4
        /\ FieldLen(l[5], v) = 4
        /\ FieldLen(l[6], v) = 4
        /\ FieldLen(l[7], v) = Len(v[l[7].name])
    BY <2>1 DEF Fields_smts_frame_res, FieldLen, Int16, Int32, Int64, FixedString, BinaryBufRef
  <2>4. /\ n[1] = n[0] + FieldLen(l[1], v)
        /\ n[2] = n[1] + FieldLen(l[2], v)
        /\ n[3] = n[2] + FieldLen(l[3], v)
        /\ n[4] = n[3] + FieldLen(l[4], v)
        /\ n[5] = n[4] + FieldLen(l[5], v)
        /\ n[6] = n[5] + FieldLen(l[6], v)
        /\ n[7] = n[6] + FieldLen(l[7], v)
    BY <1>4, <2>2
  <2>5. Len(v[l[7].name]) \in FrameLens
    BY <1>6, <2>1, <2>2 DEF Fields_smts_frame_res, BinaryBufRef
  <2>6. n[7] = 24 + Len(v[l[7].name])  BY <1>4, <2>3, <2>4, <2>5, CodecAssumption
  <2>7. QED  BY <1>3, <1>5, <2>2, <2>5, <2>6, CodecAssumption DEF h
<1>10. CASE c = "mock_dvr_preview"
  <2>1. l = Fields_mock_dvr_preview  BY <1>10, LayoutFields
  <2>2. Len(l) = 4  BY <2>1 DEF Fields_mock_dvr_preview
  <2>3. /\ FieldLen(l[1], v) = 4
        /\ FieldLen(l[2], v) = 4
        /\ FieldLen(l[3], v) = 4
        /\ FieldLen(l[4], v) = 4
    BY <2>1 DEF Fields_mock_dvr_preview, FieldLen, Int16, Int32, Int64, FixedString, BinaryBufRef
  <2>4. /\ n[1] = n[0] + FieldLen(l[1], v)
        /\ n[2] = n[1] + FieldLen(l[2], v)
        /\ n[3] = n[2] + FieldLen(l[3], v)
        /\ n[4] = n[3] + FieldLen(l[4], v)
    BY <1>4, <2>2
  <2>5. n[4] = 16  BY <1>4, <2>3, <2>4
  <2>6. QED  BY <1>3, <1>5, <2>2, <2>5 DEF h
<1>11. CASE c = "mock_dvr_frame"
  <2>1. l = Fields_mock_dvr_frame  BY <1>11, LayoutFields
  <2>2. Len(l) = 6  BY <2>1 DEF Fields_mock_dvr_frame
  <2>3. /\ FieldLen(l[1], v) = 4
        /\ FieldLen(l[2], v) = 4
        /\ FieldLen(l[3], v) = 4
        /\ FieldLen(l[4], v) = 4
        /\ FieldLen(l[5], v) = 8
        /\ FieldLen(l[6], v) = Len(v[l[6].name])
    BY <2>1 DEF Fields_mock_dvr_frame, FieldLen, Int16, Int32, Int64, FixedString, BinaryBufRef
  <2>4. /\ n[1] = n[0] + FieldLen(l[1], v)
        /\ n[2] = n[1] + FieldLen(l[2], v)
        /\ n[3] = n[2] + FieldLen(l[3], v)
        /\ n[4] = n[3] + FieldLen(l[4], v)
        /\ n[5] = n[4] + FieldLen(l[5], v)
        /\ n[6] = n[5] + FieldLen(l[6], v)
    BY <1>4, <2>2
  <2>5. Len(v[l[6].name]) \in FrameLens
    BY <1>6, <2>1, <2>2 DEF Fields_mock_dvr_frame, BinaryBufRef
  <2>6. n[6] = 24 + Len(v[l[6].name])  BY <1>4, <2>3, <2>4, <2>5, CodecAssumption
  <2>7. QED  BY <1>3, <1>5, <2>2, <2>5, <2>6, CodecAssumption DEF h
<1>12. CASE c = "test_PTZ_cmd"
  <2>1. l = Fields_test_PTZ_cmd  BY <1>12, LayoutFields
  <2>2. Len(l) = 6  BY <2>1 DEF Fields_test_PTZ_cmd
  <2>3. /\ FieldLen(l[1], v) = 4
        /\ FieldLen(l[2], v) = 4
        /\ FieldLen(l[3], v) = 4
        /\ FieldLen(l[4], v) = 4
        /\ FieldLen(l[5], v) = 4
        /\ FieldLen(l[6], v) = 4
    BY <2>1 DEF Fields_test_PTZ_cmd, FieldLen, Int16, Int32, Int64, FixedString, BinaryBufRef
  <2>4. /\ n[1] = n[0] + FieldLen(l[1], v)
        /\ n[2] = n[1] + FieldLen(l[2], v)
        /\ n[3] = n[2] + FieldLen(l[3], v)
        /\ n[4] = n[3] + FieldLen(l[4], v)
        /\ n[5] = n[4] + FieldLen(l[5], v)
        /\ n[6] = n[5] + FieldLen(l[6], v)
    BY <1>4, <2>2
  <2>5. n[6] = 24  BY <1>4, <2>3, <2>4
  <2>6. QED  BY <1>3, <1>5, <2>2, <2>5 DEF h
<1>13. CASE c = "common_res"
  <2>1. l = Fields_common_res  BY <1>13, LayoutFields
  <2>2. Len(l) = 6  BY <2>1 DEF Fields_common_res
  <2>3. /\ FieldLen(l[1], v) = 4
        /\ FieldLen(l[2], v) = 4
        /\ FieldLen(l[3], v) = 4
        /\ FieldLen(l[4], v) = 4
        /\ FieldLen(l[5], v) = 4
        /\ FieldLen(l[6], v) = 4
    BY <2>1 DEF Fields_common_res, FieldLen, Int16, Int32, Int64, FixedString, BinaryBufRef
  <2>4. /\ n[1] = n[0] + FieldLen(l[1], v)
        /\ n[2] = n[1] + FieldLen(l[2], v)
        /\ n[3] = n[2] + FieldLen(l[3], v)
        /\ n[4] = n[3] + FieldLen(l[4], v)
        /\ n[5] = n[4] + FieldLen(l[5], v)
        /\ n[6] = n[5] + FieldLen(l[6], v)
    BY <1>4, <2>2
  <2>5. n[6] = 24  BY <1>4, <2>3, <2>4
  <2>6. QED  BY <1>3, <1>5, <2>2, <2>5 DEF h
<1>14. QED  BY <1>7, <1>8, <1>9, <1>10, <1>11, <1>12, <1>13 DEF PROTOCOL_MAP

\* With the fields that the encoder sets, a command has a good value everywhere.
LEMMA CompleteFields ==
    ASSUME NEW c \in DOMAIN PROTOCOL_MAP, NEW v, GoodFields(c, v)
    PROVE  LET l == Layout(c)
               w == Complete(c, v)
           IN  /\ GoodValues(l, w)
               /\ w = [x \in {l[i].name : i \in DOMAIN l} |-> w[x]]
               /\ w["packet_len"] = cmd_len(l, v)
               /\ \A i \in 1..Len(l) : FieldLen(l[i], v) = FieldLen(l[i], w)
<1> DEFINE l == Layout(c)
           w == Complete(c, v)
           L == Len(l)
<1>1. /\ L \in Nat /\ L = Len(l) /\ L >= 2 /\ DOMAIN l = 1..L
      /\ l[1] = Int32("packet_len") /\ l[2] = Int32("cmd")
      /\ \A i, j \in 1..L : l[i].name = l[j].name => i = j
  BY Layouts DEF GoodLayout
<1>2. /\ DOMAIN v = {f.name : f \in FieldsOf(c)}
      /\ \A i \in 3..L : GoodValue(l[i], v[l[i].name])
  BY DEF GoodFields
<1>3. FieldsOf(c) = {l[i] : i \in 3..L}  BY DEF FieldsOf
<1>4. l[1].name = "packet_len" /\ l[1].type = "int" /\ l[1].len = 4
      /\ l[2].name = "cmd" /\ l[2].type = "int" /\ l[2].len = 4
  BY <1>1 DEF Int32
<1>5. PROTOCOL_MAP[c].cmd \in -3..4  BY DEF PROTOCOL_MAP
<1>6. cmd_len(l, v) \in 0 .. Power[4] \div 2 - 1  BY CommandLen
<1>7. PROTOCOL_MAP[c].cmd \in IntRange(4) /\ cmd_len(l, v) \in IntRange(4)
  <2> DEFINE h == Power[4] \div 2
  <2>1. h \in Nat  BY HalfPower, 4 \in 1..8
  <2>2. 16 + 24 < h  BY LengthAssumption
  <2>3. cmd_len(l, v) \in 0 .. h - 1  BY <1>6
  <2> HIDE DEF h, l
  <2>4. -3..4 \subseteq -h .. h - 1 /\ 0 .. h - 1 \subseteq -h .. h - 1  BY <2>1, <2>2
  <2>5. QED  BY <1>5, <2>3, <2>4 DEF IntRange, h
<1> HIDE DEF l, L
<1>8. {f.name : f \in FieldsOf(c)} = {l[i].name : i \in 3..L}
  BY <1>3
<1>9. {"packet_len", "cmd"} \cup DOMAIN v = {l[i].name : i \in DOMAIN l}
  <2>1. 1 \in 1..L /\ 2 \in 1..L /\ 1..L = {1, 2} \cup 3..L  BY <1>1
  <2>2. {l[i].name : i \in 1..L} = {l[1].name, l[2].name} \cup {l[i].name : i \in 3..L}
    BY <2>1
  <2>3. QED  BY <1>1, <1>2, <1>4, <1>8, <2>2
<1>10. w["packet_len"] = cmd_len(l, v) /\ w["cmd"] = PROTOCOL_MAP[c].cmd
  BY DEF Complete, l
<1>11. ASSUME NEW i \in 3..L PROVE w[l[i].name] = v[l[i].name]
  <2>1. i \in 1..L /\ 1 \in 1..L /\ 2 \in 1..L /\ i # 1 /\ i # 2  BY <1>1
  <2>2. l[i].name # "packet_len" /\ l[i].name # "cmd"  BY <1>1, <1>4, <2>1
  <2>3. l[i].name \in DOMAIN v  BY <1>2, <1>8
  <2>4. QED  BY <2>2, <2>3 DEF Complete
<1>12. w = [x \in {l[i].name : i \in DOMAIN l} |-> w[x]]  BY <1>9 DEF Complete
<1> HIDE DEF w
<1>13. ASSUME NEW i \in 1..L
       PROVE  GoodValue(l[i], w[l[i].name]) /\ FieldLen(l[i], v) = FieldLen(l[i], w)
  <2>1. i = 1 \/ i = 2 \/ i \in 3..L  BY <1>1
  <2>2. CASE i = 1  BY <1>4, <1>7, <1>10, <2>2 DEF GoodValue, FieldLen
  <2>3. CASE i = 2  BY <1>4, <1>7, <1>10, <2>3 DEF GoodValue, FieldLen
  <2>4. CASE i \in 3..L  BY <1>2, <1>11, <2>4 DEF FieldLen
  <2>5. QED  BY <2>1, <2>2, <2>3, <2>4
<1>14. GoodValues(l, w)  BY <1>13 DEF GoodValues, L
<1>15. QED  BY <1>10, <1>12, <1>13, <1>14 DEF l, w, L

\* A reference field that takes off the length of the fields before it takes off
\* what has been written before it.
LEMMA ExactLength ==
    ASSUME NEW c \in DOMAIN PROTOCOL_MAP, IsExact(c), NEW v, NEW n,
           Lengths(Layout(c), v, n), LastField(Layout(c)).type = "ref",
           \A i \in 1..Len(Layout(c)) : FieldLen(Layout(c)[i], v) \in Nat
    PROVE  LastField(Layout(c)).len = n[Len(Layout(c)) - 1]
<1> DEFINE l == Layout(c)
           L == Len(l)
           s == SubSeq(l, 1, L - 1)
<1>1. /\ L \in Nat /\ L = Len(l) /\ L >= 2 /\ DOMAIN l = 1..L
      /\ \A k \in 1..L : l[k].len \in Nat
      /\ \A k \in 1 .. L - 1 : l[k].type # "ref"
  BY Layouts DEF GoodLayout
<1>2. n[0] = 0 /\ \A k \in 1..L : n[k] = n[k - 1] + FieldLen(l[k], v)  BY DEF Lengths
<1>3. l[L].len = FixedLen(s)
  <2>1. l[L].type = "ref" /\ L \in DOMAIN l  BY <1>1 DEF LastField
  <2>2. l[L].len = Before(c, L)  BY <2>1 DEF IsExact
  <2>3. QED  BY <2>2 DEF Before
<1> HIDE DEF l, L
<1>4. Len(s) = L - 1 /\ DOMAIN s = 1 .. L - 1 /\ \A k \in 1 .. L - 1 : s[k] = l[k]
  BY <1>1
<1> HIDE DEF s
<1>5. L - 1 \in Nat /\ \A k \in 1 .. L - 1 : s[k].len \in Nat  BY <1>1, <1>4
<1>6. PICK g : FixedLengths(s, g) /\ FixedLen(s) = g[L - 1]  BY <1>4, <1>5, FixedLength
<1>7. g[0] = 0 /\ \A k \in 1 .. L - 1 : g[k] = FixedStep(g[k - 1], s[k])
  BY <1>4, <1>6 DEF FixedLengths
<1> DEFINE P == {k \in Nat : k <= L - 1 => g[k] = n[k]}
<1>8. 0 \in P  BY <1>2, <1>7
<1>9. ASSUME NEW k \in Nat, k \in P PROVE k + 1 \in P
  <2> SUFFICES ASSUME k + 1 <= L - 1 PROVE g[k + 1] = n[k + 1]  OBVIOUS
  <2>1. g[k] = n[k] /\ k + 1 \in 1 .. L - 1 /\ k + 1 \in 1..L /\ (k + 1) - 1 = k
    BY <1>1, <1>9
  <2>2. g[k + 1] = g[k] + l[k + 1].len  BY <1>4, <1>7, <2>1 DEF FixedStep
  <2>3. n[k + 1] = n[k] + l[k + 1].len  BY <1>1, <1>2, <2>1 DEF FieldLen
  <2>4. QED  BY <2>1, <2>2, <2>3
<1>10. Nat \subseteq P
  <2> HIDE DEF P
  <2>1. QED  BY <1>8, <1>9, Induction
<1>11. g[L - 1] = n[L - 1]  BY <1>5, <1>10
<1>12. QED  BY <1>3, <1>6, <1>11 DEF LastField, l, L

-----------------------------------------------------------------------------
(* What every command becomes.                                             *)

BufsOf(c, v) == bufs_inner_alloc(Layout(c), v)
OutOf(c, v) == encode(Layout(c), Complete(c, v), bufs_alloc(Layout(c)))

\* The passes agree on the buffers.
LEMMA BuffersAgree ==
    ASSUME NEW c \in DOMAIN PROTOCOL_MAP, NEW v, GoodFields(c, v)
    PROVE  LET a == BufsOf(c, v)
               o == OutOf(c, v)
           IN  /\ o # <<>> /\ a.bufs # <<>>
               /\ Len(a.bufs) = Len(o)
               /\ \A i \in DOMAIN o : Len(o[i]) = a.bufs[i].len
               /\ a.bufs \in Seq([base : {"malloc", "ref"}, len : Nat])
               /\ a.bitmap \in SUBSET Nat
               /\ \A j \in DOMAIN a.bufs : a.bufs[j].base = "ref" <=> j - 1 \in a.bitmap
<1> DEFINE l == Layout(c)
           w == Complete(c, v)
           L == Len(l)
           a == BufsOf(c, v)
           o == OutOf(c, v)
<1>1. GoodLayout(l)  BY Layouts
<1>2. L \in Nat /\ L >= 2 /\ L - 1 \in 0..L /\ L \in 0..L /\ L \in 1..L
  BY <1>1 DEF GoodLayout
<1>3. GoodValues(l, w) /\ \A i \in 1..L : FieldLen(l[i], v) = FieldLen(l[i], w)
  BY CompleteFields
<1>4. \A i \in 1..L : /\ FieldLen(l[i], w) \in Nat
                        /\ Len(FieldBytes(l[i], w)) = FieldLen(l[i], w)
  BY <1>1, <1>3, FieldBytesLen
<1>5. \A i \in 1..L : FieldLen(l[i], v) \in Nat  BY <1>3, <1>4
<1>6. PICK g : Bytes(l, w, g)  BY <1>1, <1>3, BytesExist
<1>7. PICK n : Lengths(l, v, n)  BY <1>1, <1>5, LengthsExist
<1>8. Lengths(l, w, n)  BY <1>3, <1>7 DEF Lengths
<1>9. \A k \in 0..L : n[k] \in Nat /\ Len(g[k]) = n[k]  BY <1>1, <1>3, <1>6, <1>8, BytesLen
<1>10. a = IF LastField(l).type = "ref"
           THEN [bufs   |-> <<[base |-> "malloc", len |-> n[L - 1]],
                              [base |-> "ref", len |-> FieldLen(LastField(l), v)]>>,
                 bitmap |-> {1}]
           ELSE [bufs   |-> <<[base |-> "malloc", len |-> n[L]]>>, bitmap |-> {}]
  BY <1>1, <1>5, <1>7, Allocation DEF BufsOf
<1>11. o = IF LastField(l).type = "ref" THEN <<g[L - 1], FieldBytes(LastField(l), w)>>
           ELSE <<g[L]>>
  BY <1>1, <1>3, <1>6, Written DEF OutOf
<1>12. n[L - 1] \in Nat /\ n[L] \in Nat /\ Len(g[L - 1]) = n[L - 1] /\ Len(g[L]) = n[L]
       /\ FieldLen(LastField(l), v) \in Nat
       /\ Len(FieldBytes(LastField(l), w)) = FieldLen(LastField(l), v)
  BY <1>2, <1>3, <1>4, <1>9 DEF LastField
<1> HIDE DEF l, w, L, a, o
<1>13. CASE LastField(l).type = "ref"
  <2> DEFINE x == FieldLen(LastField(l), v)
             y == FieldBytes(LastField(l), w)
             s == <<[base |-> "malloc", len |-> n[L - 1]], [base |-> "ref", len |-> x]>>
             t == <<g[L - 1], y>>
  <2>1. a = [bufs |-> s, bitmap |-> {1}] /\ o = t  BY <1>10, <1>11, <1>13
  <2>2. x \in Nat /\ Len(y) = x  BY <1>12
  <2> HIDE DEF x, y
  <2>3. s \in Seq([base : {"malloc", "ref"}, len : Nat])  BY <1>12, <2>2
  <2>4. Len(s) = 2 /\ DOMAIN s = {1, 2} /\ s[1].base = "malloc" /\ s[2].base = "ref"
        /\ s[1].len = n[L - 1] /\ s[2].len = x
    OBVIOUS
  <2>5. t # <<>> /\ Len(t) = 2 /\ DOMAIN t = {1, 2} /\ t[1] = g[L - 1] /\ t[2] = y  OBVIOUS
  <2>6. s # <<>>  OBVIOUS
  <2> HIDE DEF s, t
  <2>7. a.bufs = s /\ a.bitmap = {1}  BY <2>1
  <2>8. QED  BY <1>12, <2>1, <2>2, <2>3, <2>4, <2>5, <2>6, <2>7 DEF a, o
<1>14. CASE LastField(l).type # "ref"
  <2> DEFINE s == <<[base |-> "malloc", len |-> n[L]]>>
             t == <<g[L]>>
  <2>1. a = [bufs |-> s, bitmap |-> {}] /\ o = t  BY <1>10, <1>11, <1>14
  <2>3. s \in Seq([base : {"malloc", "ref"}, len : Nat])  BY <1>12
  <2>4. Len(s) = 1 /\ DOMAIN s = {1} /\ s[1].base = "malloc" /\ s[1].len = n[L]  OBVIOUS
  <2>5. t # <<>> /\ Len(t) = 1 /\ DOMAIN t = {1} /\ t[1] = g[L]  OBVIOUS
  <2>6. s # <<>>  OBVIOUS
  <2> HIDE DEF s, t
  <2>7. a.bufs = s /\ a.bitmap = {}  BY <2>1
  <2>8. QED  BY <1>12, <2>1, <2>3, <2>4, <2>5, <2>6, <2>7 DEF a, o
<1>15. QED  BY <1>13, <1>14

\* The buffers together are the packet, which is read back.
LEMMA PacketAgrees ==
    ASSUME NEW c \in DOMAIN PROTOCOL_MAP, NEW v, GoodFields(c, v)
    PROVE  LET l == Layout(c)
               w == Complete(c, v)
               wire == FlattenSeq(OutOf(c, v))
           IN  /\ wire = FlattenSeq([i \in DOMAIN l |-> FieldBytes(l[i], w)])
               /\ Len(wire) \in Nat
               /\ decode_int(SubSeq(wire, 1, 4)) = Len(wire)
               /\ IsExact(c) => decode(l, wire) = w
<1> DEFINE l == Layout(c)
           w == Complete(c, v)
           L == Len(l)
           o == OutOf(c, v)
           e1 == FieldBytes(l[1], w)
<1>1. GoodLayout(l)  BY Layouts
<1>2. /\ L \in Nat /\ L >= 2 /\ L - 1 \in 0..L /\ L \in 0..L /\ 0 \in 0..L
      /\ L \in 1..L /\ 1 \in 1..L
      /\ l[1] = Int32("packet_len")
  BY <1>1 DEF GoodLayout
<1>3. /\ GoodValues(l, w) /\ w["packet_len"] = cmd_len(l, v)
      /\ w = [x \in {l[i].name : i \in DOMAIN l} |-> w[x]]
      /\ \A i \in 1..L : FieldLen(l[i], v) = FieldLen(l[i], w)
  BY CompleteFields
<1>4. \A i \in 1..L : /\ FieldLen(l[i], w) \in Nat
                        /\ FieldBytes(l[i], w) \in Seq(Int)
  BY <1>1, <1>3, FieldBytesLen
<1>5. \A i \in 1..L : FieldLen(l[i], v) \in Nat  BY <1>3, <1>4
<1>6. PICK g : /\ Bytes(l, w, g)
               /\ FlattenSeq([i \in DOMAIN l |-> FieldBytes(l[i], w)]) = g[L]
  BY <1>1, <1>3, BytesExist
<1>7. PICK n : Lengths(l, v, n) /\ cmd_len(l, v) = n[L]  BY <1>1, <1>5, LengthsExist
<1>8. Lengths(l, w, n)  BY <1>3, <1>7 DEF Lengths
<1>9. \A k \in 0..L : n[k] \in Nat /\ Len(g[k]) = n[k]  BY <1>1, <1>3, <1>6, <1>8, BytesLen
<1>10. /\ g \in [0..L -> Seq(Int)] /\ g[0] = <<>>
       /\ \A k \in 1..L : g[k] = g[k - 1] \o FieldBytes(l[k], w)
  BY <1>6 DEF Bytes
<1>11. o = IF LastField(l).type = "ref" THEN <<g[L - 1], FieldBytes(LastField(l), w)>>
           ELSE <<g[L]>>
  BY <1>1, <1>3, <1>6, Written DEF OutOf
<1>12. cmd_len(l, v) \in IntRange(4)
  <2> DEFINE h == Power[4] \div 2
  <2>1. h \in Nat  BY HalfPower, 4 \in 1..8
  <2>2. cmd_len(l, v) \in 0 .. h - 1  BY CommandLen
  <2> HIDE DEF h, l
  <2>3. 0 .. h - 1 \subseteq -h .. h - 1  BY <2>1
  <2>4. QED  BY <2>2, <2>3 DEF IntRange, h
<1>13. Found(e1, Len(g[0]), g[L])
  <2>1. Found(FieldBytes(l[1], w), Len(g[1 - 1]), g[L])  BY <1>1, <1>2, <1>3, <1>6, BytesOfField
  <2>2. 1 - 1 = 0  OBVIOUS
  <2>3. QED  BY <2>1, <2>2
<1>14. e1 = encode_int(cmd_len(l, v), 4)  BY <1>2, <1>3 DEF FieldBytes, Int32
<1> HIDE DEF l, w, L, o, e1
<1>15. FlattenSeq(o) = g[L]
  <2>1. g[L - 1] \in Seq(Int) /\ g[L] \in Seq(Int) /\ FieldBytes(LastField(l), w) \in Seq(Int)
        /\ g[L] = g[L - 1] \o FieldBytes(LastField(l), w)
    BY <1>2, <1>4, <1>10 DEF LastField, L
  <2>2. QED  BY <1>11, <2>1, Joining
<1>16. Len(g[L]) = cmd_len(l, v) /\ Len(g[L]) \in Nat  BY <1>2, <1>7, <1>9
<1>17. SubSeq(g[L], 1, 4) = e1
  <2>1. e1 \in [1..4 -> Int] /\ Len(e1) = 4
    <3>1. DOMAIN e1 = 1..4  BY <1>14 DEF encode_int
    <3>2. e1 \in Seq(Int)  BY <1>2, <1>4 DEF e1
    <3>0. \A s \in Seq(Int) : Len(s) \in Nat /\ DOMAIN s = 1..Len(s) /\ s \in [1..Len(s) -> Int]
      OBVIOUS
    <3>3. Len(e1) \in Nat /\ 1..Len(e1) = 1..4 /\ e1 \in [1..Len(e1) -> Int]
      BY <3>0, <3>1, <3>2, Zenon
    <3>4. \A k \in Nat : 1..k = 1..4 => k = 4  OBVIOUS
    <3>5. Len(e1) = 4  BY <3>3, <3>4
    <3>6. QED  BY <3>3, <3>5
  <2>2. \A i \in 1..4 : g[L][i] = e1[i]  BY <1>10, <1>13, <2>1 DEF Found
  <2>3. SubSeq(g[L], 1, 4) = [i \in 1..4 |-> g[L][i]]  OBVIOUS
  <2>4. QED  BY <2>1, <2>2, <2>3
<1>18. decode_int(SubSeq(g[L], 1, 4)) = Len(g[L])
  BY <1>12, <1>14, <1>16, <1>17, IntegerRoundTrip, 4 \in 1..8
<1>19. ASSUME IsExact(c) PROVE decode(l, g[L]) = w
  <2>1. ASSUME LastField(l).type = "ref" PROVE LastField(l).len = Len(g[L - 1])
    <3>1. LastField(l).len = n[L - 1]  BY <1>5, <1>7, <1>19, <2>1, ExactLength DEF l, L
    <3>2. QED  BY <1>2, <1>9, <3>1
  <2>2. QED  BY <1>1, <1>3, <1>6, <1>16, <2>1, Decoding DEF L
<1>20. QED  BY <1>6, <1>15, <1>16, <1>18, <1>19 DEF l, w, o, L

-----------------------------------------------------------------------------
(* The inductive invariant.                                                *)

Made == name # "none" => name \in Commands /\ GoodFields(name, fields)

\* The sender's buffers are those of the command, once there are any.
Sent ==
    IF bufs["sender"] = <<>> THEN out = Nothing /\ bitmap["sender"] = {}
    ELSE /\ name # "none"
         /\ bufs["sender"] = BufsOf(name, fields).bufs
         /\ bitmap["sender"] = BufsOf(name, fields).bitmap
         /\ out = OutOf(name, fields)

\* The receiver has the packet, and what it read in it.
Received ==
    IF bufs["receiver"] = <<>>
    THEN decoded = Nothing /\ bitmap["receiver"] = {} /\ holders["receiver"] = 0
    ELSE /\ bufs["sender"] # <<>>
         /\ decoded = decode(Layout(name), Wire)
         /\ bufs["receiver"] = <<[base |-> "malloc", len |-> Len(Wire)]>>
         /\ bitmap["receiver"] = {}

\* Of the holders of a command one is not counted, and only a command that has
\* buffers has more.
Held ==
    /\ holders \in [Sides -> Nat] /\ ref \in [Sides -> 0..MaxRefs]
    /\ DOMAIN bufs = Sides /\ bitmap \in [Sides -> SUBSET Nat]
    /\ name = "none" => holders["sender"] = 0
    /\ \A s \in Sides : /\ holders[s] = IF holders[s] = 0 THEN ref[s] ELSE ref[s] + 1
                        /\ bufs[s] = <<>> => ref[s] = 0

\* The blocks of a command that is held are there, and no others.
Blocks(s) ==
    {CmdBlock(s)} \cup (IF bufs[s] = <<>> THEN {} ELSE {Array(s)}) \cup
    {Buffer(s, i) : i \in {j \in DOMAIN bufs[s] : bufs[s][j].base = "malloc"}}

Allocations == heap = {Frame} \cup UNION {Blocks(s) : s \in {t \in Sides : holders[t] > 0}}

CodecInv == Made /\ Sent /\ Received /\ Held /\ Allocations

LEMMA NewFields ==
    ASSUME NEW c \in DOMAIN PROTOCOL_MAP, NEW low, NEW n \in FrameLens
    PROVE  GoodFields(c, [x \in {f.name : f \in FieldsOf(c)} |->
                             SomeValue(FieldNamed(c, x), x \in low, n)])
<1> DEFINE l == Layout(c)
           L == Len(l)
           v == [x \in {f.name : f \in FieldsOf(c)} |->
                    SomeValue(FieldNamed(c, x), x \in low, n)]
<1>1. /\ L \in Nat /\ L = Len(l) /\ L >= 2 /\ DOMAIN l = 1..L
      /\ \A i \in 1..L : /\ l[i].type \in {"int", "str", "ref"} /\ l[i].len \in Nat
                         /\ l[i].type = "int" => l[i].len \in 1..8
      /\ \A i, j \in 1..L : l[i].name = l[j].name => i = j
      /\ l[1].type # "ref" /\ l[2].type # "ref"
  BY Layouts DEF GoodLayout, Int32
<1>2. FieldsOf(c) = {l[i] : i \in 3..L}  BY DEF FieldsOf
<1> HIDE DEF l, L
<1>3. ASSUME NEW i \in 3..L
      PROVE  \E b \in BOOLEAN : v[l[i].name] = SomeValue(l[i], b, n)
  <2>1. l[i] \in FieldsOf(c)  BY <1>2
  <2>2. \A f \in FieldsOf(c) : f.name = l[i].name => f = l[i]
    <3> SUFFICES ASSUME NEW f \in FieldsOf(c), f.name = l[i].name PROVE f = l[i]  OBVIOUS
    <3>1. PICK j \in 3..L : f = l[j]  BY <1>2
    <3>2. i \in 1..L /\ j \in 1..L  BY <1>1
    <3>3. QED  BY <1>1, <3>1, <3>2
  <2>3. FieldNamed(c, l[i].name) = l[i]  BY <2>1, <2>2 DEF FieldNamed
  <2>4. v[l[i].name] = SomeValue(l[i], l[i].name \in low, n)  BY <2>1, <2>3
  <2>5. (l[i].name \in low) \in BOOLEAN  OBVIOUS
  <2>6. QED  BY <2>4, <2>5
<1>4. ASSUME NEW i \in 3..L
      PROVE  /\ GoodValue(l[i], v[l[i].name])
             /\ l[i].type = "ref" => Len(v[l[i].name]) = n
  <2>1. PICK b \in BOOLEAN : v[l[i].name] = SomeValue(l[i], b, n)  BY <1>3
  <2> DEFINE f == l[i]
             w == v[l[i].name]
  <2>2. /\ f.type \in {"int", "str", "ref"} /\ f.len \in Nat
        /\ f.type = "int" => f.len \in 1..8
    BY <1>1
  <2>3. w = SomeValue(f, b, n)  BY <2>1
  <2> HIDE DEF f, w
  <2>4. \A j \in Nat : j % Byte \in Int  BY CodecAssumption
  <2>5. CASE f.type = "int"
    <3> DEFINE h == Power[f.len] \div 2
    <3>1. h \in Nat \ {0}  BY <2>2, <2>5, HalfPower
    <3>2. w = IF b THEN -h ELSE h - 2  BY <2>3, <2>5 DEF SomeValue
    <3> HIDE DEF h
    <3>3. w \in -h .. h - 1  BY <3>1, <3>2
    <3>4. GoodValue(f, w)  BY <2>5, <3>3 DEF GoodValue, IntRange, h
    <3>5. QED  BY <2>5, <3>4 DEF f, w
  <2>6. CASE f.type = "str"
    <3>1. w = [j \in 1..f.len |-> j % Byte]  BY <2>3, <2>6 DEF SomeValue
    <3>2. w \in [1..f.len -> Int]  BY <2>2, <2>4, <3>1
    <3>3. GoodValue(f, w)  BY <2>6, <3>2 DEF GoodValue
    <3>4. QED  BY <2>6, <3>3 DEF f, w
  <2>7. CASE f.type = "ref"
    <3>1. w = [j \in 1..n |-> j % Byte]  BY <2>3, <2>7 DEF SomeValue
    <3>2. n \in Nat  BY CodecAssumption
    <3>3. w \in [1..n -> Int]  BY <2>4, <3>1, <3>2
    <3>4. w \in Seq(Int) /\ Len(w) = n  BY <3>2, <3>3
    <3>5. GoodValue(f, w)  BY <2>7, <3>4 DEF GoodValue
    <3>6. QED  BY <3>4, <3>5 DEF f, w
  <2>8. QED  BY <2>2, <2>5, <2>6, <2>7
<1>5. DOMAIN v = {f.name : f \in FieldsOf(c)}  OBVIOUS
<1> HIDE DEF v
<1>6. LastField(l).type = "ref" => Len(v[LastField(l).name]) \in FrameLens
  <2> SUFFICES ASSUME l[L].type = "ref" PROVE Len(v[l[L].name]) \in FrameLens
    BY <1>1 DEF LastField
  <2>1. L \in 3..L  BY <1>1
  <2>2. QED  BY <1>4, <2>1
<1>7. GoodFields(c, v)  BY <1>4, <1>5, <1>6 DEF GoodFields, l, L
<1>8. QED  BY <1>7 DEF v

LEMMA CommandsKnown == Commands \subseteq DOMAIN PROTOCOL_MAP
BY CommandsAssumption

LEMMA CodecInit == Init => CodecInv
<1> SUFFICES ASSUME Init PROVE CodecInv  OBVIOUS
<1> USE DEF Init
<1>1. Made /\ Sent /\ Received
  BY DEF Made, Sent, Received, Sides, Nothing
<1>2. Held  BY CodecAssumption DEF Held, Sides
<1>3. Allocations
  <2>1. {t \in Sides : holders[t] > 0} = {}  OBVIOUS
  <2>2. UNION {Blocks(s) : s \in {}} = {}  OBVIOUS
  <2>3. QED  BY <2>1, <2>2 DEF Allocations
<1>4. QED  BY <1>1, <1>2, <1>3 DEF CodecInv

\* What a block of one side is not: one of the other's, or the frame.
LEMMA BlocksApart ==
    ASSUME NEW s \in Sides, NEW b \in Blocks(s)
    PROVE  b[1] = s /\ b # Frame
BY DEF Blocks, CmdBlock, Array, Buffer, Frame, Sides

\* The memory is that of the two sides.
AllocationsOf ==
    heap = {Frame} \cup (IF holders["sender"] > 0 THEN Blocks("sender") ELSE {})
                   \cup (IF holders["receiver"] > 0 THEN Blocks("receiver") ELSE {})

LEMMA TwoSides == (Allocations <=> AllocationsOf) /\ (Allocations' <=> AllocationsOf')
<1>1. Sides = {"sender", "receiver"}  BY DEF Sides
<1>2. UNION {Blocks(q) : q \in {t \in Sides : holders[t] > 0}}
        = (IF holders["sender"] > 0 THEN Blocks("sender") ELSE {})
          \cup (IF holders["receiver"] > 0 THEN Blocks("receiver") ELSE {})
  BY <1>1
<1>3. UNION {Blocks(q)' : q \in {t \in Sides : holders'[t] > 0}}
        = (IF holders'["sender"] > 0 THEN Blocks("sender")' ELSE {})
          \cup (IF holders'["receiver"] > 0 THEN Blocks("receiver")' ELSE {})
  BY <1>1
<1>4. QED  BY <1>2, <1>3 DEF Allocations, AllocationsOf

LEMMA NewKeeps ==
    ASSUME CodecInv, NEW c \in Commands, NewCommand(c)
    PROVE  CodecInv'
<1> USE DEF CodecInv, NewCommand
<1>1. name = "none" /\ name' = c /\ c # "none" /\ c \in DOMAIN PROTOCOL_MAP
  BY CommandsKnown DEF PROTOCOL_MAP
<1>2. Made'
  <2>1. PICK low \in SUBSET {f.name : f \in FieldsOf(c)}, n \in FrameLens :
          fields' = [x \in {f.name : f \in FieldsOf(c)} |->
                        SomeValue(FieldNamed(c, x), x \in low, n)]
    OBVIOUS
  <2>2. GoodFields(c, fields')  BY <1>1, <2>1, NewFields
  <2>3. QED  BY <1>1, <2>2 DEF Made
<1>3. bufs["sender"] = <<>> /\ bufs["receiver"] = <<>>
      /\ holders["sender"] = 0 /\ holders["receiver"] = 0
  BY <1>1 DEF Sent, Received, Held
<1>4. Sent' /\ Received'
  <2>1. holders'["receiver"] = 0  BY <1>3 DEF Held, Sides
  <2>2. QED  BY <1>3, <2>1 DEF Sent, Received
<1>5. Held'
  BY <1>1, <1>3 DEF Held, Sides
<1>6. Allocations'
  <2>1. heap = {Frame}  BY <1>3, TwoSides DEF AllocationsOf
  <2>2. Blocks("sender")' = {CmdBlock("sender")}  BY <1>3 DEF Blocks
  <2>3. holders'["sender"] = 1 /\ holders'["receiver"] = 0  BY <1>3 DEF Held, Sides
  <2>4. Allocations' <=> AllocationsOf'  BY TwoSides
  <2>5. QED  BY <2>1, <2>2, <2>3, <2>4 DEF AllocationsOf, CmdBlock, Frame
<1>7. QED  BY <1>2, <1>4, <1>5, <1>6

LEMMA EncodeKeeps ==
    ASSUME CodecInv, proto_cmd_t_encode
    PROVE  CodecInv'
<1> USE DEF CodecInv, proto_cmd_t_encode
<1> DEFINE a == BufsOf(name, fields)
<1>1. name \in Commands /\ name \in DOMAIN PROTOCOL_MAP /\ GoodFields(name, fields)
  BY CommandsKnown DEF Made
<1>2. /\ OutOf(name, fields) # <<>> /\ a.bufs # <<>> /\ a.bitmap \in SUBSET Nat
  BY <1>1, BuffersAgree
<1>3. bufs["sender"] = <<>> /\ bufs["receiver"] = <<>> /\ holders["receiver"] = 0
      /\ decoded = Nothing /\ bitmap["receiver"] = {}
  BY <1>2 DEF Sent, Received, Nothing
<1>4. /\ bufs' = [bufs EXCEPT !["sender"] = a.bufs]
      /\ bitmap' = [bitmap EXCEPT !["sender"] = a.bitmap]
      /\ out' = OutOf(name, fields)
      /\ heap' = heap \cup {Array("sender")} \cup
            {Buffer("sender", i) : i \in {j \in DOMAIN a.bufs : a.bufs[j].base = "malloc"}}
  BY DEF BufsOf, OutOf
<1>5. bufs'["sender"] = a.bufs /\ bufs'["receiver"] = <<>>
      /\ bitmap'["sender"] = a.bitmap /\ bitmap'["receiver"] = {}
  BY <1>3, <1>4 DEF Held, Sides
<1> HIDE DEF a
<1>6. Made'  BY DEF Made
<1>7. Sent'  BY <1>2, <1>4, <1>5 DEF Sent, a
<1>8. Received'  BY <1>3, <1>5 DEF Received
<1>9. Held'  BY <1>2, <1>3, <1>4, <1>5 DEF Held, Sides
<1>10. Allocations'
  <2>1. heap = {Frame} \cup Blocks("sender")
    BY <1>3, TwoSides DEF AllocationsOf
  <2>2. Blocks("sender") = {CmdBlock("sender")}  BY <1>3 DEF Blocks
  <2>3. Blocks("sender")' = {CmdBlock("sender"), Array("sender")} \cup
            {Buffer("sender", i) : i \in {j \in DOMAIN a.bufs : a.bufs[j].base = "malloc"}}
    BY <1>2, <1>5 DEF Blocks
  <2>4. Allocations' <=> AllocationsOf'  BY TwoSides
  <2>5. holders' = holders /\ holders["sender"] = 1  OBVIOUS
  <2>6. heap' = {Frame} \cup Blocks("sender")'  BY <1>4, <2>1, <2>2, <2>3
  <2>7. QED  BY <1>3, <2>4, <2>5, <2>6 DEF AllocationsOf, Frame
<1>11. QED  BY <1>6, <1>7, <1>8, <1>9, <1>10

LEMMA DecodeKeeps ==
    ASSUME CodecInv, proto_cmd_t_decode
    PROVE  CodecInv'
<1> USE DEF CodecInv, proto_cmd_t_decode
<1> DEFINE p == <<[base |-> "malloc", len |-> Len(Wire)]>>
<1>1. bufs["sender"] # <<>>  BY DEF Sent
<1>2. /\ bufs'["sender"] = bufs["sender"] /\ bufs'["receiver"] = p
      /\ bitmap'["sender"] = bitmap["sender"] /\ bitmap'["receiver"] = {}
      /\ holders'["sender"] = holders["sender"] /\ holders'["receiver"] = 1
  BY DEF Held, Sides
<1>3. p # <<>> /\ DOMAIN p = {1} /\ p[1].base = "malloc"  OBVIOUS
<1>4. Made'  BY DEF Made
<1>5. Sent'  BY <1>1, <1>2 DEF Sent
<1>6. Wire' = Wire  BY DEF Wire
<1>7. Received'
  <2>1. decoded' = decode(Layout(name'), Wire')  BY <1>6
  <2>2. bufs'["receiver"] = <<[base |-> "malloc", len |-> Len(Wire')]>>  BY <1>2, <1>6
  <2> HIDE DEF p
  <2>3. QED  BY <1>1, <1>2, <1>3, <2>1, <2>2 DEF Received
<1> HIDE DEF p
<1>8. Held'  BY <1>1, <1>2, <1>3, CodecAssumption DEF Held, Sides
<1>9. Allocations'
  <2>1. heap = {Frame} \cup Blocks("sender")
                \cup (IF holders["receiver"] > 0 THEN Blocks("receiver") ELSE {})
    BY TwoSides DEF AllocationsOf
  <2>2. Blocks("sender")' = Blocks("sender")  BY <1>2 DEF Blocks, CmdBlock, Array, Buffer
  <2>3. Blocks("receiver")' = {CmdBlock("receiver"), Array("receiver"), Buffer("receiver", 1)}
    BY <1>2, <1>3 DEF Blocks
  <2>4. Blocks("receiver") \subseteq Blocks("receiver")'
    <3>1. bufs["receiver"] = <<>> \/ bufs["receiver"] = p  BY DEF Received, p
    <3>2. Blocks("receiver") \subseteq {CmdBlock("receiver"), Array("receiver"), Buffer("receiver", 1)}
      BY <1>3, <3>1 DEF Blocks
    <3>3. QED  BY <2>3, <3>2
  <2>5. Allocations' <=> AllocationsOf'  BY TwoSides
  <2>6. heap' = heap \cup Blocks("receiver")'  BY <2>3
  <2>7. holders'["sender"] > 0 /\ holders'["receiver"] > 0  BY <1>2
  <2>8. heap' = {Frame} \cup Blocks("sender")' \cup Blocks("receiver")'
    BY <2>1, <2>2, <2>4, <2>6
  <2>9. QED  BY <2>5, <2>7, <2>8 DEF AllocationsOf, Frame
<1>10. QED  BY <1>4, <1>5, <1>7, <1>8, <1>9

LEMMA IncreaseKeeps ==
    ASSUME CodecInv, NEW s \in Sides, proto_cmd_t_increase_ref(s)
    PROVE  CodecInv'
<1> USE DEF CodecInv, proto_cmd_t_increase_ref
<1>1. Made'  BY DEF Made
<1>2. Sent'  BY DEF Sent
<1>3. Received'
  <2>1. Wire' = Wire  BY DEF Wire
  <2>2. bufs["receiver"] = <<>> => holders'["receiver"] = holders["receiver"]
    BY DEF Held
  <2>3. QED  BY <2>1, <2>2 DEF Received
<1>4. Held'
  <2>1. name # "none"  BY DEF Sent, Received, Sides
  <2>2. QED  BY <2>1, CodecAssumption DEF Held
<1>5. Allocations'
  <2>1. {t \in Sides : holders'[t] > 0} = {t \in Sides : holders[t] > 0}  BY DEF Held
  <2>2. \A t \in Sides : Blocks(t)' = Blocks(t)  BY DEF Blocks, CmdBlock, Array, Buffer
  <2>3. heap' = heap /\ Frame' = Frame  BY DEF Frame
  <2>4. QED  BY <2>1, <2>2, <2>3 DEF Allocations
<1>6. QED  BY <1>1, <1>2, <1>3, <1>4, <1>5

\* A buffer is the command's own where its bit is not set.
LEMMA OwnBuffers ==
    ASSUME CodecInv, NEW s \in Sides, NEW j \in DOMAIN bufs[s]
    PROVE  /\ bufs[s][j].base = "ref" <=> j - 1 \in bitmap[s]
           /\ bufs[s][j].base \in {"malloc", "ref"}
<1> USE DEF CodecInv
<1>1. CASE s = "receiver"
  <2>1. bufs[s] # <<>>  OBVIOUS
  <2>2. bitmap[s] = {} /\ bufs[s] = <<[base |-> "malloc", len |-> Len(Wire)]>>
    BY <1>1, <2>1 DEF Received
  <2>3. QED  BY <2>2
<1>2. CASE s = "sender"
  <2>1. bufs[s] # <<>>  OBVIOUS
  <2>2. /\ name \in DOMAIN PROTOCOL_MAP /\ GoodFields(name, fields)
        /\ bufs[s] = BufsOf(name, fields).bufs /\ bitmap[s] = BufsOf(name, fields).bitmap
    BY <1>2, <2>1, CommandsKnown DEF Made, Sent
  <2>3. /\ BufsOf(name, fields).bufs \in Seq([base : {"malloc", "ref"}, len : Nat])
        /\ \A i \in DOMAIN BufsOf(name, fields).bufs :
              BufsOf(name, fields).bufs[i].base = "ref" <=> i - 1 \in BufsOf(name, fields).bitmap
    BY <2>2, BuffersAgree
  <2>4. bufs[s][j].base \in {"malloc", "ref"}
    <3> DEFINE B == [base : {"malloc", "ref"}, len : Nat]
    <3>1. \A x \in B : x.base \in {"malloc", "ref"}  OBVIOUS
    <3>2. bufs[s] \in Seq(B)  BY <2>2, <2>3
    <3> HIDE DEF B
    <3>3. bufs[s][j] \in B  BY <3>2
    <3>4. QED  BY <3>1, <3>3
  <2>5. QED  BY <2>2, <2>3, <2>4
<1>3. QED  BY <1>1, <1>2 DEF Sides

\* What the last holder frees is what the command has.
LEMMA FreedBlocks ==
    ASSUME CodecInv, NEW s \in Sides
    PROVE  Freed(s) = Blocks(s) \cup {Array(s)}
<1>1. \A j \in DOMAIN bufs[s] : j - 1 \notin bitmap[s] <=> bufs[s][j].base = "malloc"
  BY OwnBuffers
<1>2. \A j \in DOMAIN bufs[s] : bufs[s][j].base = "malloc" => Base(s, j) = Buffer(s, j)
  BY DEF Base
<1>3. {j \in DOMAIN bufs[s] : j - 1 \notin bitmap[s]}
        = {j \in DOMAIN bufs[s] : bufs[s][j].base = "malloc"}
  BY <1>1
<1>4. {Base(s, i) : i \in {j \in DOMAIN bufs[s] : j - 1 \notin bitmap[s]}}
        = {Buffer(s, i) : i \in {j \in DOMAIN bufs[s] : bufs[s][j].base = "malloc"}}
  BY <1>2, <1>3
<1>5. QED  BY <1>4 DEF Freed, Blocks

LEMMA DestroyKeeps ==
    ASSUME CodecInv, NEW s \in Sides, proto_cmd_t_destroy(s)
    PROVE  CodecInv'
<1> USE DEF CodecInv, proto_cmd_t_destroy
<1>1. Made'  BY DEF Made
<1>2. Sent'  BY DEF Sent
<1>3. Received'
  <2>1. Wire' = Wire  BY DEF Wire
  <2>2. bufs["receiver"] = <<>> => holders'["receiver"] = holders["receiver"]
    BY DEF Received, Held
  <2>3. QED  BY <2>1, <2>2 DEF Received
<1>4. Held'
  <2>1. holders \in [Sides -> Nat] /\ ref \in [Sides -> 0..MaxRefs] /\ MaxRefs \in Nat
        /\ name # "none"
    BY CodecAssumption DEF Held, Received, Sent, Sides
  <2>2. holders[s] = ref[s] + 1  BY DEF Held
  <2>3. CASE ref[s] > 0
    <3>1. holders' = [holders EXCEPT ![s] = @ - 1] /\ ref' = [ref EXCEPT ![s] = @ - 1]
      BY <2>3
    <3>2. holders' \in [Sides -> Nat] /\ ref' \in [Sides -> 0..MaxRefs]
      BY <2>1, <2>2, <2>3, <3>1
    <3>3. \A t \in Sides : holders'[t] = IF holders'[t] = 0 THEN ref'[t] ELSE ref'[t] + 1
      BY <2>1, <2>2, <2>3, <3>1 DEF Held
    <3>4. \A t \in Sides : bufs'[t] = <<>> => ref'[t] = 0  BY <2>1, <2>3, <3>1 DEF Held
    <3>5. QED  BY <2>1, <3>2, <3>3, <3>4 DEF Held
  <2>4. CASE ~(ref[s] > 0)
    <3>0. ref[s] = 0 /\ holders[s] - 1 = 0  BY <2>1, <2>2, <2>4
    <3>1. holders' = [holders EXCEPT ![s] = 0] /\ ref' = ref  BY <2>4, <3>0
    <3>2. QED  BY <2>1, <3>0, <3>1 DEF Held
  <2>5. QED  BY <2>3, <2>4
<1>5. Allocations'
  <2>0. \A t \in Sides : Blocks(t)' = Blocks(t)  BY DEF Blocks, CmdBlock, Array, Buffer
  <2>1. holders \in [Sides -> Nat] /\ holders[s] = ref[s] + 1 /\ ref[s] \in Nat
    BY CodecAssumption DEF Held
  <2>2. CASE ref[s] > 0
    <3>1. {t \in Sides : holders'[t] > 0} = {t \in Sides : holders[t] > 0}  BY <2>1, <2>2
    <3>2. heap' = heap /\ Frame' = Frame  BY <2>2 DEF Frame
    <3>3. QED  BY <2>0, <3>1, <3>2 DEF Allocations
  <2>3. CASE ~(ref[s] > 0)
    <3>1. heap' = heap \ (Blocks(s) \cup {Array(s)})  BY <2>3, FreedBlocks
    <3>0. holders[s] = 1 /\ holders[s] - 1 = 0  BY <2>1, <2>3
    <3>2. holders[s] = 1 /\ holders' = [holders EXCEPT ![s] = 0]  BY <3>0
    <3>3. Allocations' <=> AllocationsOf'  BY TwoSides
    <3>4. AllocationsOf  BY TwoSides
    <3>5. \A t \in Sides : \A b \in Blocks(t) : b[1] = t /\ b # Frame  BY BlocksApart
    <3>6. Array(s)[1] = s /\ Array(s) # Frame  BY DEF Array, Frame, Sides
    <3>7. PICK r \in Sides : r # s /\ Sides = {s, r}  BY DEF Sides
    <3>8. heap = {Frame} \cup Blocks(s) \cup (IF holders[r] > 0 THEN Blocks(r) ELSE {})
      BY <3>2, <3>4, <3>7 DEF AllocationsOf, Sides
    <3>9. heap' = {Frame} \cup (IF holders[r] > 0 THEN Blocks(r) ELSE {})
      BY <3>1, <3>5, <3>6, <3>7, <3>8
    <3>10. holders'[s] = 0 /\ holders'[r] = holders[r]  BY <2>1, <3>2, <3>7
    <3>11. \/ s = "sender" /\ r = "receiver"
           \/ s = "receiver" /\ r = "sender"
      BY <3>7 DEF Sides
    <3>12. Blocks(r)' = Blocks(r) /\ Frame' = Frame  BY <2>0 DEF Frame
    <3>13. AllocationsOf'  BY <3>9, <3>10, <3>11, <3>12 DEF AllocationsOf, Frame
    <3>14. QED  BY <3>3, <3>13
  <2>4. QED  BY <2>2, <2>3
<1>6. QED  BY <1>1, <1>2, <1>3, <1>4, <1>5

LEMMA CodecStutter == CodecInv /\ UNCHANGED vars => CodecInv'
<1> SUFFICES ASSUME CodecInv, UNCHANGED vars PROVE CodecInv'  OBVIOUS
<1> USE DEF CodecInv, vars
<1>1. Made'  BY DEF Made
<1>2. Sent'  BY DEF Sent
<1>3. Wire' = Wire  BY DEF Wire
<1>4. Received'  BY <1>3 DEF Received
<1>5. Held'  BY DEF Held
<1>6. \A t \in Sides : Blocks(t)' = Blocks(t)  BY DEF Blocks, CmdBlock, Array, Buffer
<1>7. Allocations'  BY <1>6 DEF Allocations, Frame
<1>8. QED  BY <1>1, <1>2, <1>4, <1>5, <1>7

\* What the sender and the receiver have is what the passes of the generated codec
\* (GEN_STRUCT_LEN, _BUFS_ALLOC, _ENCODE, _DECODE) make of the command's fields, and
\* the memory is that of the commands that somebody holds (GEN_STRUCT_DESTROY).
THEOREM CodecKept == Spec => []CodecInv
<1>1. Init => CodecInv  BY CodecInit
<1>2. CodecInv /\ [Next]_vars => CodecInv'
  <2> SUFFICES ASSUME CodecInv, [Next]_vars PROVE CodecInv'  OBVIOUS
  <2>1. CASE \E c \in Commands : NewCommand(c)  BY <2>1, NewKeeps
  <2>2. CASE proto_cmd_t_encode  BY <2>2, EncodeKeeps
  <2>3. CASE proto_cmd_t_decode  BY <2>3, DecodeKeeps
  <2>4. CASE \E s \in Sides : proto_cmd_t_increase_ref(s) \/ proto_cmd_t_destroy(s)
    BY <2>4, IncreaseKeeps, DestroyKeeps
  <2>5. CASE UNCHANGED vars  BY <2>5, CodecStutter
  <2>6. QED  BY <2>1, <2>2, <2>3, <2>4, <2>5 DEF Next
<1>3. QED  BY <1>1, <1>2, PTL DEF Spec

-----------------------------------------------------------------------------
(* The theorems.                                                           *)

\* What is sent has the fields of a command that is known.
LEMMA SentCommand ==
    ASSUME CodecInv, bufs["sender"] # <<>>
    PROVE  /\ name \in DOMAIN PROTOCOL_MAP /\ GoodFields(name, fields)
           /\ bufs["sender"] = BufsOf(name, fields).bufs
           /\ bitmap["sender"] = BufsOf(name, fields).bitmap
           /\ out = OutOf(name, fields)
BY CommandsKnown DEF CodecInv, Made, Sent

LEMMA TypesHold == CodecInv => TypeOK
<1> SUFFICES ASSUME CodecInv PROVE TypeOK  OBVIOUS
<1> DEFINE B == [base : {"malloc", "ref"}, len : Nat]
<1>1. bufs["sender"] \in Seq(B)
  <2>1. CASE bufs["sender"] = <<>>
    <3>1. <<>> \in Seq(B)  OBVIOUS
    <3>2. QED  BY <2>1, <3>1
  <2>2. CASE bufs["sender"] # <<>>  BY <2>2, SentCommand, BuffersAgree
  <2>3. QED  BY <2>1, <2>2
<1>2. bufs["receiver"] \in Seq(B)
  <2>1. CASE bufs["receiver"] = <<>>
    <3>1. <<>> \in Seq(B)  OBVIOUS
    <3>2. QED  BY <2>1, <3>1
  <2>2. CASE bufs["receiver"] # <<>>
    <3>1. bufs["sender"] # <<>> /\ bufs["receiver"] = <<[base |-> "malloc", len |-> Len(Wire)]>>
      BY <2>2 DEF CodecInv, Received
    <3>2. Len(Wire) \in Nat  BY <3>1, SentCommand, PacketAgrees DEF Wire
    <3>3. [base |-> "malloc", len |-> Len(Wire)] \in B  BY <3>2
    <3> HIDE DEF B
    <3>4. QED  BY <3>1, <3>3
  <2>3. QED  BY <2>1, <2>2
<1>3. \A s \in Sides : bufs[s] \in Seq(B)
  <2> HIDE DEF B
  <2>1. QED  BY <1>1, <1>2 DEF Sides
<1>4. \A s \in Sides : holders[s] \in 0 .. MaxRefs + 1
  <2> SUFFICES ASSUME NEW s \in Sides PROVE holders[s] \in 0 .. MaxRefs + 1  OBVIOUS
  <2>1. holders[s] \in Nat /\ ref[s] \in 0..MaxRefs
        /\ holders[s] = IF holders[s] = 0 THEN ref[s] ELSE ref[s] + 1
    BY DEF CodecInv, Held
  <2>2. QED  BY <2>1, CodecAssumption
<1>5. name \in Commands \cup {"none"}  BY DEF CodecInv, Made
<1>6. bitmap \in [Sides -> SUBSET Nat] /\ ref \in [Sides -> 0..MaxRefs]
      /\ holders \in [Sides -> 0 .. MaxRefs + 1]
  BY <1>4 DEF CodecInv, Held
<1>7. QED  BY <1>3, <1>5, <1>6 DEF TypeOK

\* The variables have their types: no counter is below zero, and of the references
\* of a command there are never more than were added (proto_cmd_t_increase_ref,
\* proto_cmd_t_destroy).
THEOREM CodecTypes == Spec => []TypeOK
BY CodecKept, TypesHold, PTL

LEMMA MemoryHolds == CodecInv => OwnMemory
<1> SUFFICES ASSUME CodecInv PROVE OwnMemory  OBVIOUS
<1>1. Frame \in heap  BY DEF CodecInv, Allocations
<1>2. ASSUME NEW s \in Sides, holders[s] = 0 PROVE \A b \in heap : b[1] # s
  <2> SUFFICES ASSUME NEW b \in heap PROVE b[1] # s  OBVIOUS
  <2>1. b = Frame \/ \E t \in Sides : holders[t] > 0 /\ b \in Blocks(t)
    BY DEF CodecInv, Allocations
  <2>2. CASE b = Frame  BY <2>2 DEF Frame, Sides
  <2>3. CASE \E t \in Sides : holders[t] > 0 /\ b \in Blocks(t)
    <3>1. PICK t \in Sides : holders[t] > 0 /\ b \in Blocks(t)  BY <2>3
    <3>2. b[1] = t /\ t # s  BY <1>2, <3>1, BlocksApart
    <3>3. QED  BY <3>2
  <2>4. QED  BY <2>1, <2>2, <2>3
<1>3. ASSUME NEW s \in Sides, holders[s] # 0
      PROVE  /\ CmdBlock(s) \in heap
             /\ bufs[s] # <<>> => Array(s) \in heap
             /\ \A i \in DOMAIN bufs[s] : Base(s, i) \in heap
  <2>1. holders[s] > 0  BY <1>3 DEF CodecInv, Held
  <2>2. Blocks(s) \subseteq heap  BY <2>1 DEF CodecInv, Allocations
  <2>3. \A i \in DOMAIN bufs[s] : Base(s, i) \in {Frame} \cup Blocks(s)
    BY OwnBuffers DEF Base, Blocks
  <2>4. QED  BY <1>1, <2>2, <2>3 DEF Blocks
<1>4. QED  BY <1>1, <1>2, <1>3 DEF OwnMemory

\* A command's blocks live as long as somebody holds it, are all freed by the last
\* one, and a frame that it refers to is not freed with it, for any number of
\* references and whatever the order of the calls (GEN_STRUCT_DESTROY goes by the
\* bit map that BinaryBufRef_inner_alloc sets).
THEOREM MemoryKept == Spec => []OwnMemory
BY CodecKept, MemoryHolds, PTL

LEMMA WireHolds == CodecInv => WireFormat
<1> SUFFICES ASSUME CodecInv, out # Nothing PROVE WireFormat  BY DEF WireFormat
<1>1. bufs["sender"] # <<>>  BY DEF CodecInv, Sent
<1>2. /\ name \in DOMAIN PROTOCOL_MAP /\ GoodFields(name, fields)
      /\ bufs["sender"] = BufsOf(name, fields).bufs
      /\ out = OutOf(name, fields)
  BY <1>1, SentCommand
<1>3. /\ Len(bufs["sender"]) = Len(out)
      /\ \A i \in DOMAIN out : Len(out[i]) = bufs["sender"][i].len
  BY <1>2, BuffersAgree
<1>4. /\ Wire = FlattenSeq([i \in DOMAIN Layout(name) |->
                                FieldBytes(Layout(name)[i], Complete(name, fields))])
      /\ decode_int(SubSeq(Wire, 1, 4)) = Len(Wire)
  BY <1>2, PacketAgrees DEF Wire
<1>5. QED  BY <1>3, <1>4 DEF WireFormat

\* The three passes of the encoder (GEN_STRUCT_LEN, _BUFS_ALLOC, _ENCODE) agree, for
\* every command, every length of the token and of a frame, and all the values that
\* the fields can have.
THEOREM WireKept == Spec => []WireFormat
BY CodecKept, WireHolds, PTL

LEMMA RoundTripHolds == CodecInv => ExactRoundTrip
<1> SUFFICES ASSUME CodecInv, name # "none", IsExact(name), decoded # Nothing
    PROVE  decoded = Complete(name, fields)
  BY DEF ExactRoundTrip, RoundTrip
<1>1. /\ bufs["sender"] # <<>> /\ decoded = decode(Layout(name), Wire)
  BY DEF CodecInv, Received
<1>2. /\ name \in DOMAIN PROTOCOL_MAP /\ GoodFields(name, fields)
      /\ out = OutOf(name, fields)
  BY <1>1, SentCommand
<1>3. QED  BY <1>1, <1>2, PacketAgrees DEF Wire

\* The receiver (GEN_STRUCT_DECODE) reads the values that the sender wrote, of every
\* command whose reference field takes off the length of the fields before it.
THEOREM RoundTripKept == Spec => []ExactRoundTrip
BY CodecKept, RoundTripHolds, PTL
=============================================================================
