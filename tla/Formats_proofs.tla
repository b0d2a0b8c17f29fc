--------------------------- MODULE Formats_proofs ---------------------------
(***************************************************************************)
(* Proofs about the persistent formats: numbers and their bytes, tables of  *)
(* fields, CRC-32C, and the pages of PageImage. Every width, page size,     *)
(* polynomial and content that the assumptions allow is covered.            *)
(***************************************************************************)
EXTENDS PageImage, WellFoundedInduction, TLAPS

(* A set of natural numbers with an element has a least one. *)
LEMMA LeastElement ==
    ASSUME NEW T \in SUBSET Nat, T # {}
    PROVE  \E m \in T : \A k \in T : m =< k
<1>1. PICK R : IsWellFoundedOn(R, Nat) /\ \A x, y \in Nat : <<y, x>> \in R <=> y < x
  <2> DEFINE R == OpToRel(<, Nat)
  <2>1. IsWellFoundedOn(R, Nat)
    BY NatLessThanWellFounded
  <2>2. \A x, y \in Nat : <<y, x>> \in R <=> y < x
    BY DEF OpToRel
  <2> QED
    BY <2>1, <2>2, Zenon
<1>2. PICK m \in T : \A k \in T : ~(<<k, m>> \in R)
  BY <1>1, WFMin, Zenon
<1>3. ASSUME NEW k \in T PROVE m =< k
  <2>1. k \in Nat /\ m \in Nat
    OBVIOUS
  <2>2. ~(k < m)
    BY <1>1, <1>2, <2>1
  <2> QED
    BY <2>1, <2>2
<1> QED
  BY <1>3

(* Induction up to n: a set that has 0, and i if it has i - 1, has all up to n. *)
LEMMA InductionTo ==
    ASSUME NEW n \in Nat, NEW T, 0 \in T, \A i \in 1..n : i - 1 \in T => i \in T
    PROVE  0..n \subseteq T
<1> SUFFICES ASSUME NEW j \in 0..n, j \notin T PROVE FALSE
  OBVIOUS
<1>1. PICK m \in (0..n) \ T : \A k \in (0..n) \ T : m =< k
  <2>1. (0..n) \ T \in SUBSET Nat /\ (0..n) \ T # {}
    OBVIOUS
  <2> QED
    BY <2>1, LeastElement
<1>2. m \in 1..n /\ m - 1 \in 0..n
  OBVIOUS
<1>3. m - 1 \in T
  BY <1>1, <1>2
<1> QED
  BY <1>2, <1>3

(* f[0] is base, and f[i] what step i makes of the value before. *)
Iterates(f, n, X, base, step) ==
    f \in [0..n -> X] /\ f[0] = base /\ \A i \in 1..n : f[i] = step[i][f[i - 1]]

(* A function defined by recursion on 0..n exists if its values stay in a set. *)
LEMMA RecursiveFunction ==
    ASSUME NEW n \in Nat, NEW X, NEW base \in X, NEW step \in [1..n -> [X -> X]]
    PROVE  \E f : Iterates(f, n, X, base, step)
<1> DEFINE T == {m \in 0..n : \E f \in [0..m -> X] :
                    f[0] = base /\ \A i \in 1..m : f[i] = step[i][f[i - 1]]}
<1>1. 0 \in T
  <2> DEFINE f == [i \in 0..0 |-> base]
  <2>1. f \in [0..0 -> X] /\ f[0] = base /\ \A i \in 1..0 : f[i] = step[i][f[i - 1]]
    OBVIOUS
  <2>2. 0 \in 0..n
    OBVIOUS
  <2> HIDE DEF f
  <2> QED
    BY <2>1, <2>2
<1>2. ASSUME NEW m \in 1..n, m - 1 \in T PROVE m \in T
  <2>1. PICK f \in [0..(m - 1) -> X] :
           f[0] = base /\ \A i \in 1..(m - 1) : f[i] = step[i][f[i - 1]]
    BY <1>2
  <2> DEFINE g == [i \in 0..m |-> IF i = m THEN step[m][f[m - 1]] ELSE f[i]]
  <2>2. m - 1 \in 0..(m - 1) /\ f[m - 1] \in X /\ step[m] \in [X -> X]
    BY <2>1
  <2>3. g \in [0..m -> X] /\ g[0] = base
    BY <2>1, <2>2
  <2>4. ASSUME NEW i \in 1..m PROVE g[i] = step[i][g[i - 1]]
    BY <2>1
  <2>5. m \in 0..n
    OBVIOUS
  <2> HIDE DEF g
  <2> QED
    BY <2>3, <2>4, <2>5
<1> HIDE DEF T
<1>3. n \in T
  <2>1. 0..n \subseteq T
    BY <1>1, <1>2, InductionTo
  <2> QED
    BY <2>1
<1> QED
  BY <1>3 DEF T, Iterates


-----------------------------------------------------------------------------
(* Powers. *)

LEMMA PowersSteps ==
    ASSUME NEW base \in Nat, NEW n \in Nat
    PROVE  /\ Powers(base, n) \in [0..n -> Nat]
           /\ Powers(base, n)[0] = 1
           /\ \A k \in 1..n : Powers(base, n)[k] = base * Powers(base, n)[k - 1]
<1> DEFINE step == [i \in 1..n |-> [x \in Nat |-> base * x]]
<1>1. step \in [1..n -> [Nat -> Nat]]
  OBVIOUS
<1> HIDE DEF step
<1>2. PICK f : Iterates(f, n, Nat, 1, step)
  BY <1>1, RecursiveFunction
<1>3. f \in [0..n -> Nat] /\ f[0] = 1 /\ \A k \in 1..n : f[k] = base * f[k - 1]
  <2>1. f \in [0..n -> Nat] /\ f[0] = 1 /\ \A i \in 1..n : f[i] = step[i][f[i - 1]]
    BY <1>2 DEF Iterates
  <2>2. ASSUME NEW k \in 1..n PROVE f[k] = base * f[k - 1]
    <3>1. f[k - 1] \in Nat
      BY <2>1
    <3> QED
      BY <2>1, <3>1 DEF step
  <2> QED
    BY <2>1, <2>2
<1>4. f = [k \in 0..n |-> IF k = 0 THEN 1 ELSE base * f[k - 1]]
  BY <1>3
<1>5. \E p : p = [k \in 0..n |-> IF k = 0 THEN 1 ELSE base * p[k - 1]]
  BY <1>4
<1> DEFINE p == Powers(base, n)
<1>6. p = [k \in 0..n |-> IF k = 0 THEN 1 ELSE base * p[k - 1]]
  BY <1>5 DEF Powers
<1> HIDE DEF p
<1>7. p[0] = 1 /\ \A k \in 1..n : p[k] = base * p[k - 1]
  BY <1>6
<1> DEFINE T == {k \in 0..n : p[k] \in Nat}
<1>8. 0 \in T
  BY <1>7
<1>9. ASSUME NEW k \in 1..n, k - 1 \in T PROVE k \in T
  BY <1>7, <1>9
<1> HIDE DEF T
<1>10. 0..n \subseteq T
  BY <1>8, <1>9, InductionTo
<1>11. p \in [0..n -> Nat]
  BY <1>6, <1>10 DEF T
<1> QED
  BY <1>7, <1>11 DEF p

(* The table for a count is part of that for a larger one. *)
LEMMA PowersAgree ==
    ASSUME NEW base \in Nat, NEW n \in Nat, NEW k \in 0..n
    PROVE  Powers(base, n)[k] = Power(base, k)
<1> DEFINE p == Powers(base, n)
           q == Powers(base, k)
           T == {i \in 0..k : p[i] = q[i]}
<1>1. p[0] = 1 /\ \A i \in 1..n : p[i] = base * p[i - 1]
  BY PowersSteps
<1>2. q[0] = 1 /\ \A i \in 1..k : q[i] = base * q[i - 1]
  BY PowersSteps
<1> HIDE DEF p, q
<1>3. 0 \in T
  BY <1>1, <1>2
<1>4. ASSUME NEW i \in 1..k, i - 1 \in T PROVE i \in T
  BY <1>1, <1>2, <1>4
<1> HIDE DEF T
<1>5. 0..k \subseteq T
  BY <1>3, <1>4, InductionTo
<1>6. p[k] = q[k]
  BY <1>5 DEF T
<1> QED
  BY <1>6 DEF Power, p, q

LEMMA PowerSteps ==
    ASSUME NEW base \in Nat, NEW n \in Nat
    PROVE  /\ Power(base, 0) = 1
           /\ Power(base, n) \in Nat
           /\ Power(base, n + 1) = base * Power(base, n)
<1>1. Power(base, 0) = 1
  BY PowersSteps DEF Power
<1>2. Power(base, n) \in Nat
  BY PowersSteps DEF Power
<1>3. Powers(base, n + 1)[n + 1] = base * Powers(base, n + 1)[n]
  <2>1. n + 1 \in Nat /\ n + 1 \in 1..(n + 1) /\ (n + 1) - 1 = n
    OBVIOUS
  <2> QED
    BY <2>1, PowersSteps
<1>4. Powers(base, n + 1)[n] = Power(base, n)
  <2>1. n + 1 \in Nat /\ n \in 0..(n + 1)
    OBVIOUS
  <2> QED
    BY <2>1, PowersAgree
<1> QED
  BY <1>1, <1>2, <1>3, <1>4 DEF Power

(* Powers of a positive number are positive. *)
LEMMA PowerPositive ==
    ASSUME NEW base \in Nat \ {0}, NEW n \in Nat
    PROVE  Power(base, n) \in Nat \ {0}
<1> DEFINE T == {i \in 0..n : Power(base, i) \in Nat \ {0}}
<1>1. 0 \in T
  BY PowerSteps
<1>2. ASSUME NEW i \in 1..n, i - 1 \in T PROVE i \in T
  <2>1. i - 1 \in Nat /\ (i - 1) + 1 = i
    OBVIOUS
  <2>2. Power(base, i) = base * Power(base, i - 1)
    BY <2>1, PowerSteps
  <2>3. \A x, y \in Nat \ {0} : x * y \in Nat \ {0}
    OBVIOUS
  <2> QED
    BY <1>2, <2>2, <2>3
<1> HIDE DEF T
<1>3. 0..n \subseteq T
  BY <1>1, <1>2, InductionTo
<1> QED
  BY <1>3 DEF T

LEMMA PowerSum ==
    ASSUME NEW base \in Nat, NEW m \in Nat, NEW n \in Nat
    PROVE  Power(base, m + n) = Power(base, m) * Power(base, n)
<1> DEFINE T == {i \in 0..n : Power(base, m + i) = Power(base, m) * Power(base, i)}
<1>1. 0 \in T
  <2>1. Power(base, 0) = 1 /\ Power(base, m) \in Nat /\ m + 0 = m
    BY PowerSteps
  <2> QED
    BY <2>1
<1>2. ASSUME NEW i \in 1..n, i - 1 \in T PROVE i \in T
  <2>1. i - 1 \in Nat /\ (i - 1) + 1 = i /\ m + (i - 1) \in Nat /\ (m + (i - 1)) + 1 = m + i
    OBVIOUS
  <2>2. Power(base, i) = base * Power(base, i - 1) /\ Power(base, i - 1) \in Nat
    BY <2>1, PowerSteps
  <2>3. Power(base, m + i) = base * Power(base, m + (i - 1))
    BY <2>1, PowerSteps
  <2>4. Power(base, m + (i - 1)) = Power(base, m) * Power(base, i - 1)
    BY <1>2
  <2>5. Power(base, m) \in Nat
    BY PowerSteps
  <2>6. \A a, b, c \in Nat : a * (b * c) = b * (a * c)
    OBVIOUS
  <2>7. Power(base, m + i) = Power(base, m) * Power(base, i)
    BY <2>2, <2>3, <2>4, <2>5, <2>6
  <2> QED
    BY <2>7
<1> HIDE DEF T
<1>3. 0..n \subseteq T
  BY <1>1, <1>2, InductionTo
<1> QED
  BY <1>3 DEF T

LEMMA PowerProduct ==
    ASSUME NEW base \in Nat, NEW m \in Nat, NEW n \in Nat
    PROVE  Power(Power(base, m), n) = Power(base, n * m)
<1> DEFINE T == {i \in 0..n : Power(Power(base, m), i) = Power(base, i * m)}
<1>1. Power(base, m) \in Nat
  BY PowerSteps
<1>2. 0 \in T
  <2>1. Power(base, 0) = 1 /\ 0 * m = 0
    BY PowerSteps
  <2>2. Power(Power(base, m), 0) = 1
    BY <1>1, PowerSteps
  <2> QED
    BY <2>1, <2>2
<1>3. ASSUME NEW i \in 1..n, i - 1 \in T PROVE i \in T
  <2>1. i - 1 \in Nat /\ (i - 1) + 1 = i
    OBVIOUS
  <2>2. Power(Power(base, m), i) = Power(base, m) * Power(Power(base, m), i - 1)
    BY <1>1, <2>1, PowerSteps
  <2>3. Power(Power(base, m), i - 1) = Power(base, (i - 1) * m)
    BY <1>3
  <2>4. (i - 1) * m \in Nat
    BY <2>1
  <2>5. m + (i - 1) * m = i * m
    <3>1. \A j \in Nat : m + j * m = (j + 1) * m
      OBVIOUS
    <3> QED
      BY <2>1, <3>1
  <2>6. Power(base, m + (i - 1) * m) = Power(base, m) * Power(base, (i - 1) * m)
    BY <2>4, PowerSum
  <2> QED
    BY <2>2, <2>3, <2>5, <2>6
<1> HIDE DEF T
<1>4. 0..n \subseteq T
  BY <1>2, <1>3, InductionTo
<1> QED
  BY <1>4 DEF T

(* More digits, more values. *)
LEMMA PowerMonotone ==
    ASSUME NEW base \in Nat \ {0}, NEW n \in Nat, NEW m \in 0..n
    PROVE  Power(base, m) =< Power(base, n)
<1>1. m \in Nat /\ n - m \in Nat /\ m + (n - m) = n
  OBVIOUS
<1>2. Power(base, n) = Power(base, m) * Power(base, n - m)
  BY <1>1, PowerSum
<1>3. Power(base, m) \in Nat \ {0} /\ Power(base, n - m) \in Nat \ {0}
  BY <1>1, PowerPositive
<1>4. \A a, b \in Nat \ {0} : a =< a * b
  OBVIOUS
<1> QED
  BY <1>2, <1>3, <1>4

-----------------------------------------------------------------------------
(* Digits. *)

(* Division with remainder by a positive number. *)
LEMMA DivMod ==
    ASSUME NEW a \in Nat, NEW c \in Nat \ {0}
    PROVE  /\ a \div c \in Nat
           /\ a % c \in 0..(c - 1)
           /\ a = (a \div c) * c + (a % c)
  OBVIOUS

(* It is unique. *)
LEMMA DivModUnique ==
    ASSUME NEW c \in Nat \ {0}, NEW k \in Nat, NEW i \in 0..(c - 1)
    PROVE  (k * c + i) \div c = k /\ (k * c + i) % c = i
  BY Z3

(* A quotient is below a bound if the number is below c times the bound. *)
LEMMA DivBelow ==
    ASSUME NEW a \in Nat, NEW c \in Nat \ {0}, NEW b \in Nat, a < c * b
    PROVE  a \div c < b
<1>1. a \div c \in Nat /\ (a \div c) * c =< a
  BY DivMod
<1>2. SUFFICES ASSUME b =< a \div c PROVE FALSE
  BY <1>1
<1>3. \A x, y \in Nat : x =< y => c * x =< y * c
  OBVIOUS
<1>4. c * b =< (a \div c) * c
  BY <1>1, <1>2, <1>3
<1>5. c * b \in Nat /\ (a \div c) * c \in Nat
  BY <1>1
<1> QED
  BY <1>1, <1>4, <1>5

LEMMA QuotientSteps ==
    ASSUME NEW base \in Nat \ {0}, NEW n \in Nat, NEW v \in Nat
    PROVE  /\ Quotients(v, base, n) \in [0..n -> Nat]
           /\ Quotients(v, base, n)[0] = v
           /\ \A k \in 1..n : Quotients(v, base, n)[k] = Quotients(v, base, n)[k - 1] \div base
<1> DEFINE step == [i \in 1..n |-> [x \in Nat |-> x \div base]]
<1>1. step \in [1..n -> [Nat -> Nat]]
  BY DivMod
<1> HIDE DEF step
<1>2. PICK f : Iterates(f, n, Nat, v, step)
  BY <1>1, RecursiveFunction
<1>3. f \in [0..n -> Nat] /\ f[0] = v /\ \A k \in 1..n : f[k] = f[k - 1] \div base
  <2>1. f \in [0..n -> Nat] /\ f[0] = v /\ \A i \in 1..n : f[i] = step[i][f[i - 1]]
    BY <1>2 DEF Iterates
  <2>2. ASSUME NEW k \in 1..n PROVE f[k] = f[k - 1] \div base
    <3>1. f[k - 1] \in Nat
      BY <2>1
    <3> QED
      BY <2>1, <3>1 DEF step
  <2> QED
    BY <2>1, <2>2
<1>4. f = [k \in 0..n |-> IF k = 0 THEN v ELSE f[k - 1] \div base]
  BY <1>3
<1>5. \E p : p = [k \in 0..n |-> IF k = 0 THEN v ELSE p[k - 1] \div base]
  BY <1>4
<1> DEFINE p == Quotients(v, base, n)
<1>6. p = [k \in 0..n |-> IF k = 0 THEN v ELSE p[k - 1] \div base]
  BY <1>5 DEF Quotients
<1> HIDE DEF p
<1>7. p[0] = v /\ \A k \in 1..n : p[k] = p[k - 1] \div base
  BY <1>6
<1> DEFINE T == {k \in 0..n : p[k] \in Nat}
<1>8. 0 \in T
  BY <1>7
<1>9. ASSUME NEW k \in 1..n, k - 1 \in T PROVE k \in T
  <2>1. p[k - 1] \in Nat /\ p[k] = p[k - 1] \div base
    BY <1>7, <1>9
  <2>2. p[k] \in Nat
    BY <2>1, DivMod
  <2> QED
    BY <2>2
<1> HIDE DEF T
<1>10. 0..n \subseteq T
  BY <1>8, <1>9, InductionTo
<1>11. p \in [0..n -> Nat]
  BY <1>6, <1>10 DEF T
<1> QED
  BY <1>7, <1>11 DEF p

LEMMA PartialSteps ==
    ASSUME NEW base \in Nat \ {0}, NEW n \in Nat, NEW d \in [1..n -> Nat]
    PROVE  /\ Partials(d, base) \in [0..n -> Nat]
           /\ Partials(d, base)[0] = 0
           /\ \A k \in 1..n : Partials(d, base)[k] = Partials(d, base)[k - 1] * base + d[n + 1 - k]
           /\ Number(d, base) = Partials(d, base)[n]
<1> DEFINE step == [i \in 1..n |-> [x \in Nat |-> x * base + d[n + 1 - i]]]
<1>0. Len(d) = n
  OBVIOUS
<1>1. step \in [1..n -> [Nat -> Nat]]
  <2>1. \A i \in 1..n : n + 1 - i \in 1..n
    OBVIOUS
  <2>2. \A i \in 1..n : d[n + 1 - i] \in Nat
    BY <2>1
  <2>3. \A x, y \in Nat : x * base + y \in Nat
    OBVIOUS
  <2>4. \A i \in 1..n, x \in Nat : x * base + d[n + 1 - i] \in Nat
    BY <2>2, <2>3
  <2> QED
    BY <2>4
<1> HIDE DEF step
<1>2. PICK f : Iterates(f, n, Nat, 0, step)
  BY <1>1, RecursiveFunction
<1>3. f \in [0..n -> Nat] /\ f[0] = 0 /\ \A k \in 1..n : f[k] = f[k - 1] * base + d[n + 1 - k]
  <2>1. f \in [0..n -> Nat] /\ f[0] = 0 /\ \A i \in 1..n : f[i] = step[i][f[i - 1]]
    BY <1>2 DEF Iterates
  <2>2. ASSUME NEW k \in 1..n PROVE f[k] = f[k - 1] * base + d[n + 1 - k]
    <3>1. f[k - 1] \in Nat
      BY <2>1
    <3> QED
      BY <2>1, <3>1 DEF step
  <2> QED
    BY <2>1, <2>2
<1>4. f = [k \in 0..n |-> IF k = 0 THEN 0 ELSE f[k - 1] * base + d[n + 1 - k]]
  BY <1>3
<1>5. \E p : p = [k \in 0..Len(d) |-> IF k = 0 THEN 0 ELSE p[k - 1] * base + d[Len(d) + 1 - k]]
  <2>1. f = [k \in 0..Len(d) |-> IF k = 0 THEN 0 ELSE f[k - 1] * base + d[Len(d) + 1 - k]]
    BY <1>0, <1>3
  <2> QED
    BY <2>1
<1> DEFINE p == Partials(d, base)
<1>50. p = [k \in 0..Len(d) |-> IF k = 0 THEN 0 ELSE p[k - 1] * base + d[Len(d) + 1 - k]]
  BY <1>5 DEF Partials
<1> HIDE DEF p
<1>6. p = [k \in 0..n |-> IF k = 0 THEN 0 ELSE p[k - 1] * base + d[n + 1 - k]]
  BY <1>0, <1>50
<1>7. p[0] = 0 /\ \A k \in 1..n : p[k] = p[k - 1] * base + d[n + 1 - k]
  BY <1>6
<1> DEFINE T == {k \in 0..n : p[k] = f[k]}
<1>8. 0 \in T
  BY <1>3, <1>7
<1>9. ASSUME NEW k \in 1..n, k - 1 \in T PROVE k \in T
  <2>1. p[k - 1] = f[k - 1]
    BY <1>9
  <2>2. f[k] = f[k - 1] * base + d[n + 1 - k]
    BY <1>3
  <2>3. p[k] = p[k - 1] * base + d[n + 1 - k]
    BY <1>7
  <2>4. p[k] = f[k]
    BY <2>1, <2>2, <2>3, Zenon
  <2> QED
    BY <2>4
<1> HIDE DEF T
<1>10. 0..n \subseteq T
  BY <1>8, <1>9, InductionTo
<1>11. \A k \in 0..n : p[k] = f[k]
  BY <1>10 DEF T
<1>12. p = f
  BY <1>4, <1>6, <1>11
<1> QED
  BY <1>0, <1>3, <1>12 DEF p, Number

(* The first k digits of n form a number below the k-th power: a number put together from     *)
(* digits has these digits.                                                                  *)
LEMMA DigitsOfNumber ==
    ASSUME NEW base \in Nat \ {0}, NEW n \in Nat, NEW d \in [1..n -> 0..(base - 1)]
    PROVE  /\ Number(d, base) \in 0..(Power(base, n) - 1)
           /\ Digits(Number(d, base), base, n) = d
<1> DEFINE p == Partials(d, base)
           v == Number(d, base)
           q == Quotients(v, base, n)
<1>1. d \in [1..n -> Nat]
  OBVIOUS
<1>2. /\ p \in [0..n -> Nat] /\ p[0] = 0
      /\ \A k \in 1..n : p[k] = p[k - 1] * base + d[n + 1 - k]
      /\ v = p[n]
  BY <1>1, PartialSteps
<1>3. v \in Nat
  BY <1>2
<1>4. q \in [0..n -> Nat] /\ q[0] = v /\ \A k \in 1..n : q[k] = q[k - 1] \div base
  BY ZenonT(40), <1>3, QuotientSteps
<1>5. Digits(v, base, n) = [k \in 1..n |-> q[k - 1] % base]
  BY DEF Digits
<1> HIDE DEF p, v, q
<1> DEFINE T == {k \in 0..n : p[k] < Power(base, k)}
<1>6. 0 \in T
  BY <1>2, PowerSteps
<1>7. ASSUME NEW k \in 1..n, k - 1 \in T PROVE k \in T
  <2>1. k - 1 \in Nat /\ (k - 1) + 1 = k /\ n + 1 - k \in 1..n /\ k - 1 \in 0..n
    OBVIOUS
  <2>2. Power(base, k) = base * Power(base, k - 1) /\ Power(base, k - 1) \in Nat
    BY <2>1, PowerSteps
  <2>3. p[k - 1] \in Nat /\ d[n + 1 - k] \in 0..(base - 1) /\ p[k - 1] < Power(base, k - 1)
    BY <1>2, <1>7, <2>1
  <2>4. p[k] = p[k - 1] * base + d[n + 1 - k]
    BY <1>2
  <2>5. ASSUME NEW x \in Nat, NEW y \in Nat, x < y, NEW z \in 0..(base - 1)
        PROVE x * base + z < base * y
    <3>1. (x + 1) * base =< base * y
      <4>1. x + 1 =< y /\ x + 1 \in Nat
        BY <2>5
      <4>2. \A a, b \in Nat : a =< b => a * base =< base * b
        OBVIOUS
      <4> QED
        BY <4>1, <4>2
    <3>2. (x + 1) * base = x * base + base /\ x * base \in Nat /\ base * y \in Nat
      OBVIOUS
    <3> QED
      BY <3>1, <3>2
  <2>6. p[k - 1] * base + d[n + 1 - k] < base * Power(base, k - 1)
    BY <2>2, <2>3, <2>5
  <2> QED
    BY <2>2, <2>4, <2>6
<1> HIDE DEF T
<1>8. 0..n \subseteq T
  BY <1>6, <1>7, InductionTo
<1>9. v \in 0..(Power(base, n) - 1)
  <2>1. v < Power(base, n) /\ Power(base, n) \in Nat
    BY <1>2, <1>8, PowerSteps DEF T
  <2> QED
    BY <1>3, <2>1
<1> DEFINE U == {k \in 0..n : q[k] = p[n - k]}
<1>10. 0 \in U
  BY <1>2, <1>4
<1>11. ASSUME NEW k \in 1..n, k - 1 \in U PROVE k \in U
  <2>1. n - (k - 1) \in 1..n /\ n - (k - 1) - 1 = n - k /\ n + 1 - (n - (k - 1)) = k
        /\ n - k \in 0..n
    OBVIOUS
  <2>2. p[n - (k - 1)] = p[n - k] * base + d[k]
    BY <1>2, <2>1
  <2>3. q[k] = q[k - 1] \div base /\ q[k - 1] = p[n - (k - 1)]
    BY <1>4, <1>11
  <2>4. p[n - k] \in Nat /\ d[k] \in 0..(base - 1)
    BY <1>2, <2>1
  <2>5. (p[n - k] * base + d[k]) \div base = p[n - k]
    BY <2>4, DivModUnique
  <2> QED
    BY <2>2, <2>3, <2>5
<1> HIDE DEF U
<1>12. 0..n \subseteq U
  BY <1>10, <1>11, InductionTo
<1>13. ASSUME NEW k \in 1..n PROVE q[k - 1] % base = d[k]
  <2>1. n - (k - 1) \in 1..n /\ n - (k - 1) - 1 = n - k /\ n + 1 - (n - (k - 1)) = k
        /\ n - k \in 0..n /\ k - 1 \in 0..n
    OBVIOUS
  <2>2. p[n - (k - 1)] = p[n - k] * base + d[k]
    BY <1>2, <2>1
  <2>3. q[k - 1] = p[n - (k - 1)]
    BY <1>12, <2>1 DEF U
  <2>4. p[n - k] \in Nat /\ d[k] \in 0..(base - 1)
    BY <1>2, <2>1
  <2>5. (p[n - k] * base + d[k]) % base = d[k]
    BY <2>4, DivModUnique
  <2> QED
    BY <2>2, <2>3, <2>5
<1>14. Digits(v, base, n) = d
  BY <1>5, <1>13
<1> QED
  BY <1>9, <1>14 DEF v

(* A number below the n-th power is put together again from its first n digits.              *)
LEMMA NumberOfDigits ==
    ASSUME NEW base \in Nat \ {0}, NEW n \in Nat, NEW v \in 0..(Power(base, n) - 1)
    PROVE  /\ Digits(v, base, n) \in [1..n -> 0..(base - 1)]
           /\ Number(Digits(v, base, n), base) = v
<1> DEFINE d == Digits(v, base, n)
           p == Partials(d, base)
           q == Quotients(v, base, n)
<1>1. v \in Nat /\ v < Power(base, n)
  BY PowerSteps
<1>2. q \in [0..n -> Nat] /\ q[0] = v /\ \A k \in 1..n : q[k] = q[k - 1] \div base
  BY ZenonT(40), <1>1, QuotientSteps
<1>3. d = [k \in 1..n |-> q[k - 1] % base]
  BY DEF Digits
<1> HIDE DEF d, q
<1>4. d \in [1..n -> 0..(base - 1)]
  <2>1. \A k \in 1..n : q[k - 1] \in Nat
    BY <1>2
  <2>2. \A k \in 1..n : q[k - 1] % base \in 0..(base - 1)
    BY <2>1, DivMod
  <2> QED
    BY <1>3, <2>2
<1>5. d \in [1..n -> Nat]
  BY <1>4
<1>6. /\ p \in [0..n -> Nat] /\ p[0] = 0
      /\ \A k \in 1..n : p[k] = p[k - 1] * base + d[n + 1 - k]
      /\ Number(d, base) = p[n]
  BY <1>5, PartialSteps
<1> HIDE DEF p
<1> DEFINE T == {k \in 0..n : q[k] < Power(base, n - k)}
<1>7. 0 \in T
  BY <1>1, <1>2
<1>8. ASSUME NEW k \in 1..n, k - 1 \in T PROVE k \in T
  <2>1. n - k \in Nat /\ (n - k) + 1 = n - (k - 1) /\ k - 1 \in 0..n
    OBVIOUS
  <2>2. Power(base, n - (k - 1)) = base * Power(base, n - k) /\ Power(base, n - k) \in Nat
    BY <2>1, PowerSteps
  <2>3. q[k - 1] \in Nat /\ q[k - 1] < base * Power(base, n - k)
    BY <1>2, <1>8, <2>1, <2>2
  <2>4. q[k - 1] \div base < Power(base, n - k)
    BY <2>2, <2>3, DivBelow
  <2> QED
    BY <1>2, <2>4
<1> HIDE DEF T
<1>9. 0..n \subseteq T
  BY <1>7, <1>8, InductionTo
<1> DEFINE U == {k \in 0..n : p[k] = q[n - k]}
<1>10. 0 \in U
  <2>1. q[n] < 1 /\ q[n] \in Nat
    <3>1. n \in T /\ n - n = 0 /\ n \in 0..n
      BY <1>9
    <3> QED
      BY <1>2, <3>1, PowerSteps DEF T
  <2> QED
    BY <1>6, <2>1
<1>11. ASSUME NEW k \in 1..n, k - 1 \in U PROVE k \in U
  <2>1. n - (k - 1) \in 1..n /\ n - (k - 1) - 1 = n - k /\ n + 1 - k \in 1..n
        /\ n + 1 - k - 1 = n - k /\ n - k \in 0..n
    OBVIOUS
  <2>2. p[k] = p[k - 1] * base + d[n + 1 - k] /\ p[k - 1] = q[n - (k - 1)]
    BY <1>6, <1>11
  <2>3. q[n - (k - 1)] = q[n - k] \div base
    BY <1>2, <2>1
  <2>4. d[n + 1 - k] = q[n - k] % base
    BY <1>3, <2>1
  <2>5. q[n - k] \in Nat
    BY <1>2, <2>1
  <2>6. q[n - k] = (q[n - k] \div base) * base + (q[n - k] % base)
    BY <2>5, DivMod
  <2>7. p[k] = q[n - k]
    BY <2>2, <2>3, <2>4, <2>6
  <2> QED
    BY <2>7
<1> HIDE DEF U
<1>12. 0..n \subseteq U
  BY <1>10, <1>11, InductionTo
<1>13. p[n] = v
  <2>1. n \in U /\ n - n = 0
    BY <1>12
  <2> QED
    BY <1>2, <2>1 DEF U
<1> QED
  BY <1>4, <1>6, <1>13 DEF d

(* Numbers with the same digits are equal. *)
LEMMA SameDigits ==
    ASSUME NEW base \in Nat \ {0}, NEW n \in Nat,
           NEW v \in 0..(Power(base, n) - 1), NEW w \in 0..(Power(base, n) - 1),
           \A k \in 1..n : Digits(v, base, n)[k] = Digits(w, base, n)[k]
    PROVE  v = w
<1>1. /\ Digits(v, base, n) \in [1..n -> 0..(base - 1)]
      /\ Number(Digits(v, base, n), base) = v
  BY NumberOfDigits
<1>2. /\ Digits(w, base, n) \in [1..n -> 0..(base - 1)]
      /\ Number(Digits(w, base, n), base) = w
  BY NumberOfDigits
<1>3. Digits(v, base, n) = Digits(w, base, n)
  BY <1>1, <1>2
<1> QED
  BY <1>1, <1>2, <1>3

(* The digits of a quotient are those of the number, one place on. *)
LEMMA DigitsOfQuotient ==
    ASSUME NEW base \in Nat \ {0}, NEW n \in Nat, NEW v \in Nat, NEW k \in 1..(n - 1)
    PROVE  Digits(v \div base, base, n)[k] = Digits(v, base, n)[k + 1]
<1> DEFINE q == Quotients(v, base, n)
           r == Quotients(v \div base, base, n)
           T == {i \in 0..(n - 1) : r[i] = q[i + 1]}
<1>1. q \in [0..n -> Nat] /\ q[0] = v /\ \A i \in 1..n : q[i] = q[i - 1] \div base
  BY ZenonT(40), QuotientSteps
<1>2. r \in [0..n -> Nat] /\ r[0] = v \div base /\ \A i \in 1..n : r[i] = r[i - 1] \div base
  <2>1. v \div base \in Nat
    BY DivMod
  <2> QED
    BY <2>1, QuotientSteps
<1> HIDE DEF q, r
<1>3. 0 \in T
  <2>1. 1 \in 1..n /\ 1 - 1 = 0 /\ 0 \in 0..(n - 1) /\ 0 + 1 = 1
    OBVIOUS
  <2>2. q[1] = q[0] \div base
    BY <1>1, <2>1
  <2> QED
    BY <1>1, <1>2, <2>1, <2>2
<1>4. ASSUME NEW i \in 1..(n - 1), i - 1 \in T PROVE i \in T
  <2>1. i \in 1..n /\ i + 1 \in 1..n /\ (i + 1) - 1 = i /\ (i - 1) + 1 = i
    OBVIOUS
  <2>2. r[i] = r[i - 1] \div base /\ q[i + 1] = q[i] \div base
    BY <1>1, <1>2, <2>1
  <2>3. r[i - 1] = q[i]
    BY <1>4, <2>1
  <2> QED
    BY <2>2, <2>3
<1> HIDE DEF T
<1>5. 0..(n - 1) \subseteq T
  <2>1. n - 1 \in Nat
    OBVIOUS
  <2> QED
    BY <2>1, <1>3, <1>4, InductionTo
<1>6. r[k - 1] = q[(k - 1) + 1] /\ k \in 1..n /\ k + 1 \in 1..n /\ (k - 1) + 1 = (k + 1) - 1
  BY <1>5 DEF T
<1> QED
  BY <1>6 DEF Digits, q, r

(* The digits beyond the size of a number are zero. *)
LEMMA DigitsBeyond ==
    ASSUME NEW base \in Nat \ {0}, NEW n \in Nat, NEW m \in 0..n,
           NEW v \in Nat, v < Power(base, m), NEW k \in (m + 1)..n
    PROVE  Digits(v, base, n)[k] = 0
<1> DEFINE q == Quotients(v, base, n)
<1>1. q \in [0..n -> Nat] /\ q[0] = v /\ \A i \in 1..n : q[i] = q[i - 1] \div base
  BY ZenonT(40), QuotientSteps
<1> HIDE DEF q
<1> DEFINE T == {i \in 0..m : q[i] < Power(base, m - i)}
<1>2. 0 \in T
  <2>1. m - 0 = m /\ 0 \in 0..m
    OBVIOUS
  <2>2. q[0] < Power(base, m - 0)
    BY <1>1, <2>1
  <2> QED
    BY <2>1, <2>2
<1>3. ASSUME NEW i \in 1..m, i - 1 \in T PROVE i \in T
  <2>1. m - i \in Nat /\ (m - i) + 1 = m - (i - 1) /\ i - 1 \in 0..n /\ i \in 1..n
    OBVIOUS
  <2>2. Power(base, m - (i - 1)) = base * Power(base, m - i) /\ Power(base, m - i) \in Nat
    BY <2>1, PowerSteps
  <2>3. q[i - 1] \in Nat /\ q[i - 1] < base * Power(base, m - i)
    BY <1>1, <1>3, <2>1, <2>2
  <2>4. q[i - 1] \div base < Power(base, m - i)
    BY <2>2, <2>3, DivBelow
  <2> QED
    BY <1>1, <2>1, <2>4
<1> HIDE DEF T
<1>4. 0..m \subseteq T
  BY <1>2, <1>3, InductionTo
<1>5. q[m] = 0
  <2>1. m \in T /\ m - m = 0 /\ m \in 0..n
    BY <1>4
  <2>2. q[m] < 1 /\ q[m] \in Nat
    BY <1>1, <2>1, PowerSteps DEF T
  <2> QED
    BY <2>2
<1>6. 0 \div base = 0 /\ 0 % base = 0
  OBVIOUS
<1> DEFINE U == {i \in 0..(n - m) : q[m + i] = 0}
<1>7. 0 \in U
  BY <1>5
<1>8. ASSUME NEW i \in 1..(n - m), i - 1 \in U PROVE i \in U
  <2>1. m + i \in 1..n /\ (m + i) - 1 = m + (i - 1)
    OBVIOUS
  <2>2. q[m + i] = q[m + (i - 1)] \div base
    BY <1>1, <2>1
  <2>3. q[m + (i - 1)] = 0
    BY <1>8
  <2> QED
    BY <1>6, <2>2, <2>3
<1> HIDE DEF U
<1>9. 0..(n - m) \subseteq U
  <2>1. n - m \in Nat
    OBVIOUS
  <2> QED
    BY <2>1, <1>7, <1>8, InductionTo
<1>10. q[k - 1] = 0 /\ k \in 1..n
  <2>1. (k - 1) - m \in 0..(n - m) /\ m + ((k - 1) - m) = k - 1 /\ k \in 1..n
    OBVIOUS
  <2> QED
    BY <1>9, <2>1 DEF U
<1> QED
  BY <1>6, <1>10 DEF Digits, q

-----------------------------------------------------------------------------
(* Bytes. *)

LEMMA BaseIsPositive == Base \in Nat \ {0, 1} /\ Byte = 0..(Base - 1) /\ 0 \in Byte
<1>1. ByteBits \in Nat \ {0}
  BY EncodingAssumption
<1>2. ByteBits - 1 \in Nat /\ (ByteBits - 1) + 1 = ByteBits
  BY <1>1
<1>3. Base = 2 * Power(2, ByteBits - 1)
  BY <1>2, PowerSteps DEF Base
<1>4. Power(2, ByteBits - 1) \in Nat \ {0}
  BY <1>2, PowerPositive
<1>5. Base \in Nat \ {0, 1}
  BY <1>3, <1>4
<1> QED
  BY <1>5 DEF Byte

(* numeric_limits is a natural number. *)
LEMMA MaxOfNat ==
    ASSUME NEW width \in Nat
    PROVE  MaxOf(width) \in Nat /\ Power(Base, width) \in Nat \ {0}
<1>1. Base \in Nat \ {0}
  BY BaseIsPositive
<1>2. Power(Base, width) \in Nat \ {0}
  BY <1>1, PowerPositive
<1> QED
  BY <1>2 DEF MaxOf

(* A value that fits its width is read back. *)
LEMMA ValueReadBack ==
    ASSUME NEW width \in Nat, NEW v \in 0..MaxOf(width)
    PROVE  /\ EncodeLittleEndian(v, width) \in [1..width -> Byte]
           /\ DecodeLittleEndian(EncodeLittleEndian(v, width)) = v
<1>1. Base \in Nat \ {0} /\ Byte = 0..(Base - 1) /\ Power(Base, width) \in Nat \ {0}
  BY BaseIsPositive, MaxOfNat
<1>2. v \in 0..(Power(Base, width) - 1)
  BY DEF MaxOf
<1>3. v % Power(Base, width) = v
  BY <1>1, <1>2
<1>4. EncodeLittleEndian(v, width) = Digits(v, Base, width)
  BY <1>3 DEF EncodeLittleEndian
<1>5. /\ Digits(v, Base, width) \in [1..width -> 0..(Base - 1)]
      /\ Number(Digits(v, Base, width), Base) = v
  BY <1>1, <1>2, NumberOfDigits
<1> QED
  BY <1>1, <1>4, <1>5 DEF DecodeLittleEndian

(* Bytes are what the encoding of their value gives. *)
LEMMA BytesReadBack ==
    ASSUME NEW width \in Nat, NEW bytes \in [1..width -> Byte]
    PROVE  /\ DecodeLittleEndian(bytes) \in 0..MaxOf(width)
           /\ EncodeLittleEndian(DecodeLittleEndian(bytes), width) = bytes
<1>1. Base \in Nat \ {0} /\ Byte = 0..(Base - 1) /\ Power(Base, width) \in Nat \ {0}
  BY BaseIsPositive, MaxOfNat
<1> DEFINE v == Number(bytes, Base)
<1>2. bytes \in [1..width -> 0..(Base - 1)]
  BY <1>1
<1>3. v \in 0..(Power(Base, width) - 1) /\ Digits(v, Base, width) = bytes
  BY <1>1, <1>2, DigitsOfNumber
<1> HIDE DEF v
<1>4. v % Power(Base, width) = v
  BY <1>1, <1>3
<1>5. DecodeLittleEndian(bytes) = v
  BY DEF DecodeLittleEndian, v
<1> QED
  BY <1>3, <1>4, <1>5 DEF EncodeLittleEndian, MaxOf

(* What is encoded are bytes, whatever the value. *)
LEMMA EncodingType ==
    ASSUME NEW width \in Nat, NEW v \in Int
    PROVE  EncodeLittleEndian(v, width) \in [1..width -> Byte]
<1>1. Base \in Nat \ {0} /\ Byte = 0..(Base - 1) /\ Power(Base, width) \in Nat \ {0}
  BY BaseIsPositive, MaxOfNat
<1>2. v % Power(Base, width) \in 0..(Power(Base, width) - 1)
  BY <1>1
<1> QED
  BY <1>1, <1>2, NumberOfDigits DEF EncodeLittleEndian

(* Part of a byte array. *)
LEMMA SubspanAt ==
    ASSUME NEW n \in Nat, NEW bytes \in [1..n -> Byte],
           NEW offset \in Nat, NEW count \in Nat, offset + count =< n
    PROVE  /\ Subspan(bytes, offset, count) \in [1..count -> Byte]
           /\ \A k \in 1..count : Subspan(bytes, offset, count)[k] = bytes[offset + k]
<1>1. bytes \in Seq(Byte) /\ Len(bytes) = n
  OBVIOUS
<1>2. SubSeq(bytes, offset + 1, offset + count) = [k \in 1..count |-> bytes[offset + k]]
  BY <1>1
<1>3. \A k \in 1..count : bytes[offset + k] \in Byte
  OBVIOUS
<1> QED
  BY <1>2, <1>3 DEF Subspan

LEMMA SameBytes ==
    ASSUME NEW n \in Nat, NEW a \in [1..n -> Byte], NEW b \in [1..n -> Byte],
           \A k \in 1..n : a[k] = b[k]
    PROVE  a = b
OBVIOUS

-----------------------------------------------------------------------------
(* Tables of fields. *)

(* The fields lie within the bytes and apart. *)
IsTable(fields, size) ==
    /\ \A f \in DOMAIN fields :
          /\ fields[f][1] \in Nat /\ fields[f][2] \in Nat
          /\ fields[f][1] + fields[f][2] =< size
    /\ \A f, g \in DOMAIN fields :
          f # g => \/ fields[f][1] + fields[f][2] =< fields[g][1]
                   \/ fields[g][1] + fields[g][2] =< fields[f][1]

Covered(fields, k) == \E f \in DOMAIN fields : Covers(fields[f], k)

(* The byte of a field comes from the encoding of its value, any other stays as it was. *)
LEMMA EncodedField ==
    ASSUME NEW fields, NEW size, IsTable(fields, size), NEW record,
           NEW n \in Nat, NEW bytes \in [1..n -> Byte],
           NEW f \in DOMAIN fields, NEW k \in 1..n, Covers(fields[f], k)
    PROVE  EncodeFields(fields, record, bytes)[k]
              = EncodeLittleEndian(record[f], fields[f][2])[k - fields[f][1]]
<1>1. ASSUME NEW g \in DOMAIN fields, Covers(fields[g], k) PROVE g = f
  BY <1>1 DEF IsTable, Covers
<1>2. (CHOOSE g \in DOMAIN fields : Covers(fields[g], k)) = f
  BY <1>1
<1> QED
  BY <1>2 DEF EncodeFields

LEMMA EncodedElsewhere ==
    ASSUME NEW fields, NEW record, NEW n \in Nat, NEW bytes \in [1..n -> Byte],
           NEW k \in 1..n, ~Covered(fields, k)
    PROVE  EncodeFields(fields, record, bytes)[k] = bytes[k]
BY DEF EncodeFields, Covered

LEMMA EncodedType ==
    ASSUME NEW fields, NEW size, IsTable(fields, size),
           NEW record, \A f \in DOMAIN fields : record[f] \in Int,
           NEW n \in Nat, NEW bytes \in [1..n -> Byte]
    PROVE  EncodeFields(fields, record, bytes) \in [1..n -> Byte]
<1>1. ASSUME NEW k \in 1..n PROVE EncodeFields(fields, record, bytes)[k] \in Byte
  <2>1. CASE Covered(fields, k)
    <3>1. PICK f \in DOMAIN fields : Covers(fields[f], k)
      BY <2>1 DEF Covered
    <3>2. EncodeFields(fields, record, bytes)[k]
             = EncodeLittleEndian(record[f], fields[f][2])[k - fields[f][1]]
      BY <3>1, EncodedField
    <3>3. fields[f][1] \in Nat /\ fields[f][2] \in Nat /\ record[f] \in Int
      BY DEF IsTable
    <3>4. k - fields[f][1] \in 1..fields[f][2]
      BY <3>1, <3>3 DEF Covers
    <3> QED
      BY <3>2, <3>3, <3>4, EncodingType
  <2>2. CASE ~Covered(fields, k)
    BY <2>2, EncodedElsewhere
  <2> QED
    BY <2>1, <2>2
<1>2. EncodeFields(fields, record, bytes)
         = [k \in 1..n |-> EncodeFields(fields, record, bytes)[k]]
  BY DEF EncodeFields
<1> QED
  BY <1>1, <1>2

LEMMA FieldSpan ==
    ASSUME NEW fields, NEW n \in Nat, IsTable(fields, n),
           NEW m \in Nat, n =< m, NEW page \in [1..m -> Byte], NEW f \in DOMAIN fields
    PROVE  /\ Subspan(page, fields[f][1], fields[f][2]) \in [1..fields[f][2] -> Byte]
           /\ \A k \in 1..fields[f][2] :
                 Subspan(page, fields[f][1], fields[f][2])[k] = page[fields[f][1] + k]
<1> DEFINE offset == fields[f][1]
           width == fields[f][2]
<1>1. offset \in Nat /\ width \in Nat /\ offset + width =< m
  BY DEF IsTable
<1> HIDE DEF offset, width
<1>2. /\ Subspan(page, offset, width) \in [1..width -> Byte]
      /\ \A k \in 1..width : Subspan(page, offset, width)[k] = page[offset + k]
  BY <1>1, SubspanAt
<1> QED
  BY <1>2 DEF offset, width

(* A field is read back from bytes that agree with its encoding. *)
LEMMA FieldReadBack ==
    ASSUME NEW fields, NEW n \in Nat, IsTable(fields, n),
           NEW record, NEW f \in DOMAIN fields, record[f] \in 0..MaxOf(fields[f][2]),
           NEW l \in Nat, n =< l, NEW bytes \in [1..l -> Byte],
           NEW m \in Nat, n =< m, NEW page \in [1..m -> Byte],
           \A k \in 1..n :
              Covers(fields[f], k) => page[k] = EncodeFields(fields, record, bytes)[k]
    PROVE  DecodeFields(fields, page)[f] = record[f]
<1> DEFINE offset == fields[f][1]
           width == fields[f][2]
           encoded == EncodeLittleEndian(record[f], width)
<1>1. offset \in Nat /\ width \in Nat /\ offset + width =< n
  BY DEF IsTable
<1>2. /\ Subspan(page, offset, width) \in [1..width -> Byte]
      /\ \A k \in 1..width : Subspan(page, offset, width)[k] = page[offset + k]
  BY FieldSpan
<1>3. encoded \in [1..width -> Byte] /\ DecodeLittleEndian(encoded) = record[f]
  BY <1>1, ValueReadBack
<1>4. ASSUME NEW k \in 1..width PROVE page[offset + k] = encoded[k]
  <2> HIDE DEF offset, width
  <2>0. /\ offset \in Nat /\ width \in Nat /\ offset + width =< n /\ n =< l /\ k \in 1..width
        /\ n \in Nat /\ l \in Nat
    BY <1>1
  <2>4. k \in Nat /\ 1 =< k /\ k =< width
    BY <2>0
  <2>5. offset + k \in Nat /\ 1 =< offset + k /\ offset + k =< n /\ (offset + k) - offset = k
    BY <2>0, <2>4
  <2>6. Covers(fields[f], offset + k)
    BY <2>0, <2>4, <2>5 DEF Covers, offset, width
  <2>1. /\ offset + k \in 1..n /\ offset + k \in 1..l /\ (offset + k) - offset = k
        /\ Covers(fields[f], offset + k)
    BY <2>0, <2>5, <2>6
  <2> USE DEF offset, width
  <2>2. EncodeFields(fields, record, bytes)[offset + k] = encoded[(offset + k) - offset]
    BY <2>1, EncodedField
  <2>3. page[offset + k] = EncodeFields(fields, record, bytes)[offset + k]
    BY <2>1
  <2> QED
    BY <2>1, <2>2, <2>3
<1> HIDE DEF offset, width, encoded
<1>5. ASSUME NEW k \in 1..width PROVE Subspan(page, offset, width)[k] = encoded[k]
  BY <1>2, <1>4
<1>6. Subspan(page, offset, width) = encoded
  BY <1>1, <1>2, <1>3, <1>5, SameBytes
<1> QED
  BY <1>3, <1>6 DEF offset, width, DecodeFields

(* What is decoded from a page encodes to the bytes of the page. *)
LEMMA FieldBytes ==
    ASSUME NEW fields, NEW n \in Nat, IsTable(fields, n),
           NEW m \in Nat, n =< m, NEW page \in [1..m -> Byte],
           NEW f \in DOMAIN fields, NEW j \in 1..fields[f][2]
    PROVE  EncodeLittleEndian(DecodeFields(fields, page)[f], fields[f][2])[j]
              = page[fields[f][1] + j]
<1> DEFINE offset == fields[f][1]
           width == fields[f][2]
<1>1. offset \in Nat /\ width \in Nat /\ offset + width =< n
  BY DEF IsTable
<1>2. DecodeFields(fields, page)[f] = DecodeLittleEndian(Subspan(page, offset, width))
  BY DEF DecodeFields
<1>3. j \in 1..width
  OBVIOUS
<1> HIDE DEF offset, width
<1>4. /\ Subspan(page, offset, width) \in [1..width -> Byte]
      /\ \A k \in 1..width : Subspan(page, offset, width)[k] = page[offset + k]
  <2>1. offset + width =< m
    BY <1>1
  <2> QED
    BY ZenonT(40), <1>1, <2>1, SubspanAt
<1>5. EncodeLittleEndian(DecodeLittleEndian(Subspan(page, offset, width)), width)
         = Subspan(page, offset, width)
  BY <1>1, <1>4, BytesReadBack
<1>6. EncodeLittleEndian(DecodeFields(fields, page)[f], width)[j] = page[offset + j]
  BY <1>2, <1>3, <1>4, <1>5, Zenon
<1> QED
  BY <1>6 DEF offset, width

LEMMA FieldsRestored ==
    ASSUME NEW fields, NEW n \in Nat, IsTable(fields, n),
           NEW m \in Nat, n =< m, NEW page \in [1..m -> Byte],
           NEW record, \A f \in DOMAIN fields : record[f] = DecodeFields(fields, page)[f],
           NEW l \in Nat, NEW bytes \in [1..l -> Byte], NEW k \in 1..l, Covered(fields, k)
    PROVE  EncodeFields(fields, record, bytes)[k] = page[k]
<1>1. PICK f \in DOMAIN fields : Covers(fields[f], k)
  BY DEF Covered
<1>2. fields[f][1] \in Nat /\ fields[f][2] \in Nat
  BY DEF IsTable
<1>3. k - fields[f][1] \in 1..fields[f][2] /\ fields[f][1] + (k - fields[f][1]) = k
  BY <1>1, <1>2 DEF Covers
<1>4. EncodeFields(fields, record, bytes)[k]
         = EncodeLittleEndian(record[f], fields[f][2])[k - fields[f][1]]
  BY <1>1, EncodedField
<1>5. record[f] = DecodeFields(fields, page)[f]
  OBVIOUS
<1>6. EncodeLittleEndian(DecodeFields(fields, page)[f], fields[f][2])[k - fields[f][1]]
         = page[fields[f][1] + (k - fields[f][1])]
  BY SMTT(30), <1>3, FieldBytes
<1> QED
  BY <1>3, <1>4, <1>5, <1>6, Zenon

(* Decoded fields fit their widths. *)
LEMMA DecodedType ==
    ASSUME NEW fields, NEW n \in Nat, IsTable(fields, n),
           NEW m \in Nat, n =< m, NEW page \in [1..m -> Byte], NEW f \in DOMAIN fields
    PROVE  DecodeFields(fields, page)[f] \in 0..MaxOf(fields[f][2])
<1>1. /\ fields[f][1] \in Nat /\ fields[f][2] \in Nat
      /\ fields[f][1] + fields[f][2] =< m
  BY DEF IsTable
<1>2. Subspan(page, fields[f][1], fields[f][2]) \in [1..fields[f][2] -> Byte]
  BY <1>1, SubspanAt
<1> QED
  BY <1>1, <1>2, BytesReadBack DEF DecodeFields

(* Fields depend on their own bytes only. *)
LEMMA SameFields ==
    ASSUME NEW fields, NEW n \in Nat, IsTable(fields, n),
           NEW l \in Nat, n =< l, NEW page \in [1..l -> Byte],
           NEW m \in Nat, n =< m, NEW other \in [1..m -> Byte],
           \A k \in 1..n : Covered(fields, k) => page[k] = other[k]
    PROVE  DecodeFields(fields, page) = DecodeFields(fields, other)
<1> SUFFICES ASSUME NEW f \in DOMAIN fields
             PROVE  Subspan(page, fields[f][1], fields[f][2])
                       = Subspan(other, fields[f][1], fields[f][2])
  BY DEF DecodeFields
<1> DEFINE offset == fields[f][1]
           width == fields[f][2]
<1>1. offset \in Nat /\ width \in Nat /\ offset + width =< n
  BY DEF IsTable
<1>2. ASSUME NEW k \in 1..width PROVE page[offset + k] = other[offset + k]
  <2>1. offset + k \in 1..n /\ Covers(fields[f], offset + k)
    BY <1>1 DEF Covers
  <2> QED
    BY <2>1 DEF Covered
<1> HIDE DEF offset, width
<1>3. /\ Subspan(page, offset, width) \in [1..width -> Byte]
      /\ \A k \in 1..width : Subspan(page, offset, width)[k] = page[offset + k]
  <2>1. offset + width =< l
    BY <1>1
  <2> QED
    BY ZenonT(40), <1>1, <2>1, SubspanAt
<1>4. /\ Subspan(other, offset, width) \in [1..width -> Byte]
      /\ \A k \in 1..width : Subspan(other, offset, width)[k] = other[offset + k]
  <2>1. offset + width =< m
    BY <1>1
  <2> QED
    BY ZenonT(40), <1>1, <2>1, SubspanAt
<1>5. ASSUME NEW k \in 1..width PROVE Subspan(page, offset, width)[k] = Subspan(other, offset, width)[k]
  BY <1>2, <1>3, <1>4
<1>6. Subspan(page, offset, width) = Subspan(other, offset, width)
  BY <1>1, <1>3, <1>4, <1>5, SameBytes
<1> QED
  BY <1>6 DEF offset, width

-----------------------------------------------------------------------------
(* Words and their bits. *)

LEMMA WordFacts ==
    /\ WordBits \in Nat \ {0} /\ ByteBits \in 1..WordBits
    /\ Power(2, WordBits) \in Nat \ {0} /\ Word = 0..(Power(2, WordBits) - 1)
    /\ Byte \subseteq Word /\ 0 \in Word /\ MaxOf(WordSize) \in Word
<1>1. ByteBits \in Nat \ {0} /\ WordSize \in Nat \ {0}
  BY EncodingAssumption
<1>2. WordBits \in Nat \ {0} /\ ByteBits \in 1..WordBits
  <2>1. (WordSize - 1) * ByteBits \in Nat
    BY <1>1
  <2>2. WordSize * ByteBits = (WordSize - 1) * ByteBits + ByteBits
    BY <1>1
  <2> QED
    BY <1>1, <2>1, <2>2 DEF WordBits
<1>3. Power(2, WordBits) = Power(Base, WordSize)
  BY <1>1, PowerProduct DEF WordBits, Base
<1>4. Power(2, WordBits) \in Nat \ {0}
  BY <1>2, PowerPositive
<1>5. Word = 0..(Power(2, WordBits) - 1) /\ MaxOf(WordSize) = Power(2, WordBits) - 1
  BY <1>3 DEF Word, MaxOf
<1>6. Base =< Power(2, WordBits)
  BY <1>2, PowerMonotone DEF Base
<1>7. Base \in Nat \ {0, 1} /\ Byte = 0..(Base - 1)
  BY BaseIsPositive
<1> QED
  BY <1>2, <1>4, <1>5, <1>6, <1>7

LEMMA BitType ==
    ASSUME NEW v \in Word
    PROVE  Bit(v) \in [1..WordBits -> 0..1]
<1>1. Digits(v, 2, WordBits) \in [1..WordBits -> 0..(2 - 1)]
  BY SMTT(30), WordFacts, NumberOfDigits
<1> QED
  BY <1>1 DEF Bit

LEMMA SameBits ==
    ASSUME NEW v \in Word, NEW w \in Word, \A k \in 1..WordBits : Bit(v)[k] = Bit(w)[k]
    PROVE  v = w
BY WordFacts, SameDigits DEF Bit

LEMMA XorBits ==
    ASSUME NEW a \in Word, NEW b \in Word
    PROVE  /\ Xor(a, b) \in Word
           /\ \A k \in 1..WordBits :
                 Bit(Xor(a, b))[k] = IF Bit(a)[k] = Bit(b)[k] THEN 0 ELSE 1
<1> DEFINE bits == [k \in 1..WordBits |-> IF Bit(a)[k] = Bit(b)[k] THEN 0 ELSE 1]
<1>1. bits \in [1..WordBits -> 0..(2 - 1)]
  OBVIOUS
<1>2. \A k \in 1..WordBits : bits[k] = IF Bit(a)[k] = Bit(b)[k] THEN 0 ELSE 1
  OBVIOUS
<1>3. Xor(a, b) = Number(bits, 2)
  BY DEF Xor
<1> HIDE DEF bits
<1>4. Number(bits, 2) \in 0..(Power(2, WordBits) - 1) /\ Digits(Number(bits, 2), 2, WordBits) = bits
  BY SMTT(30), <1>1, WordFacts, DigitsOfNumber
<1>5. Xor(a, b) \in Word
  BY <1>3, <1>4, WordFacts
<1>6. Bit(Xor(a, b)) = bits
  BY <1>3, <1>4 DEF Bit
<1> QED
  BY <1>2, <1>5, <1>6

(* The lowest bit tells odd from even. *)
LEMMA LowBit ==
    ASSUME NEW v \in Word
    PROVE  Bit(v)[1] = v % 2
<1>1. v \in Nat /\ WordBits \in Nat \ {0}
  BY WordFacts
<1> DEFINE q == Quotients(v, 2, WordBits)
<1>2. q[0] = v
  BY <1>1, QuotientSteps
<1>3. Bit(v) = [k \in 1..WordBits |-> q[k - 1] % 2]
  BY DEF Bit, Digits
<1> HIDE DEF q
<1>4. 1 \in 1..WordBits /\ 1 - 1 = 0
  BY <1>1
<1> QED
  BY <1>2, <1>3, <1>4

LEMMA HalfBits ==
    ASSUME NEW v \in Word
    PROVE  /\ v \div 2 \in Word
           /\ Bit(v \div 2)[WordBits] = 0
           /\ \A k \in 1..(WordBits - 1) : Bit(v \div 2)[k] = Bit(v)[k + 1]
<1>1. v \in Nat /\ WordBits \in Nat \ {0} /\ v < Power(2, WordBits)
  BY WordFacts
<1>2. WordBits - 1 \in Nat /\ (WordBits - 1) + 1 = WordBits
  BY <1>1
<1>3. /\ Power(2, WordBits) = 2 * Power(2, WordBits - 1)
      /\ Power(2, WordBits - 1) \in Nat \ {0}
  BY <1>2, PowerSteps, PowerPositive
<1>4. v \div 2 \in Nat /\ v \div 2 < Power(2, WordBits - 1)
  BY <1>1, <1>3, DivMod, DivBelow
<1>5. v \div 2 \in Word
  BY <1>3, <1>4, WordFacts
<1>6. Digits(v \div 2, 2, WordBits)[WordBits] = 0
  <2>1. WordBits - 1 \in 0..WordBits /\ WordBits \in ((WordBits - 1) + 1)..WordBits
    BY <1>1
  <2> QED
    BY <1>1, <1>4, <2>1, DigitsBeyond
<1>7. \A k \in 1..(WordBits - 1) : Digits(v \div 2, 2, WordBits)[k] = Digits(v, 2, WordBits)[k + 1]
  <2> SUFFICES ASSUME NEW k \in 1..(WordBits - 1)
               PROVE  Digits(v \div 2, 2, WordBits)[k] = Digits(v, 2, WordBits)[k + 1]
    OBVIOUS
  <2>1. WordBits \in Nat /\ v \in Nat /\ 2 \in Nat \ {0}
    BY <1>1
  <2> QED
    BY <2>1, DigitsOfQuotient
<1> QED
  BY <1>5, <1>6, <1>7 DEF Bit

(* The bits of a byte are low bits. *)
LEMMA ByteHigh ==
    ASSUME NEW byte \in Byte, NEW k \in (ByteBits + 1)..WordBits
    PROVE  Bit(byte)[k] = 0
<1>1. byte \in Nat /\ byte < Power(2, ByteBits)
  BY BaseIsPositive DEF Byte, Base
<1> QED
  BY <1>1, WordFacts, DigitsBeyond DEF Bit

-----------------------------------------------------------------------------
(* A shift of the remainder can be undone. *)

LEMMA ShiftType ==
    ASSUME NEW x \in Word
    PROVE  CrcShift(x) \in Word
BY HalfBits, XorBits, ChecksumAssumption DEF CrcShift

(* The top bit says what the lowest was. *)
LEMMA ShiftTop ==
    ASSUME NEW x \in Word
    PROVE  Bit(CrcShift(x))[WordBits] = Bit(x)[1]
<1>1. WordBits \in 1..WordBits
  BY WordFacts
<1>2. x \div 2 \in Word /\ Bit(x \div 2)[WordBits] = 0
  BY HalfBits
<1>3. Polynomial \in Word /\ Bit(Polynomial)[WordBits] = 1
  BY ChecksumAssumption
<1>4. Bit(x)[1] = x % 2
  BY LowBit
<1>5. CASE x % 2 = 1
  <2>1. Bit(Xor(x \div 2, Polynomial))[WordBits] = 1
    BY <1>1, <1>2, <1>3, XorBits
  <2> QED
    BY <2>1, <1>4, <1>5 DEF CrcShift
<1>6. CASE x % 2 # 1
  <2>1. x % 2 = 0
    BY <1>6 DEF Word
  <2> QED
    BY <2>1, <1>2, <1>4 DEF CrcShift
<1> QED
  BY <1>5, <1>6

LEMMA ShiftBack ==
    ASSUME NEW x \in Word, NEW y \in Word, Bit(x)[1] = Bit(y)[1],
           NEW k \in 1..(WordBits - 1), Bit(CrcShift(x))[k] = Bit(CrcShift(y))[k]
    PROVE  Bit(x)[k + 1] = Bit(y)[k + 1]
<1>1. /\ x \div 2 \in Word /\ Bit(x \div 2)[k] = Bit(x)[k + 1]
      /\ y \div 2 \in Word /\ Bit(y \div 2)[k] = Bit(y)[k + 1]
  BY HalfBits
<1>2. x % 2 = y % 2
  BY LowBit
<1>3. k \in 1..WordBits /\ Polynomial \in Word
  BY WordFacts, ChecksumAssumption
<1>4. Bit(x \div 2)[k] \in 0..1 /\ Bit(y \div 2)[k] \in 0..1 /\ Bit(Polynomial)[k] \in 0..1
  BY <1>1, <1>3, BitType
<1>5. CASE x % 2 = 1
  <2>1. Bit(Xor(x \div 2, Polynomial))[k] = Bit(Xor(y \div 2, Polynomial))[k]
    BY <1>2, <1>5 DEF CrcShift
  <2>2. Bit(Xor(x \div 2, Polynomial))[k]
           = IF Bit(x \div 2)[k] = Bit(Polynomial)[k] THEN 0 ELSE 1
    BY <1>1, <1>3, XorBits
  <2>3. Bit(Xor(y \div 2, Polynomial))[k]
           = IF Bit(y \div 2)[k] = Bit(Polynomial)[k] THEN 0 ELSE 1
    BY <1>1, <1>3, XorBits
  <2> QED
    BY <1>1, <1>4, <2>1, <2>2, <2>3
<1>6. CASE x % 2 # 1
  BY <1>1, <1>2, <1>6 DEF CrcShift
<1> QED
  BY <1>5, <1>6

LEMMA ShiftsSteps ==
    ASSUME NEW byte \in Byte, NEW r \in Word
    PROVE  /\ Shifts(byte, r) \in [0..ByteBits -> Word]
           /\ Shifts(byte, r)[0] = Xor(r, byte)
           /\ \A k \in 1..ByteBits : Shifts(byte, r)[k] = CrcShift(Shifts(byte, r)[k - 1])
<1> DEFINE step == [i \in 1..ByteBits |-> [x \in Word |-> CrcShift(x)]]
           first == Xor(r, byte)
<1>1. ByteBits \in Nat /\ byte \in Word
  BY WordFacts
<1>2. first \in Word
  BY <1>1, XorBits
<1>3. step \in [1..ByteBits -> [Word -> Word]]
  BY ShiftType
<1> HIDE DEF step, first
<1>4. PICK f : Iterates(f, ByteBits, Word, first, step)
  BY <1>1, <1>2, <1>3, RecursiveFunction
<1>5. f \in [0..ByteBits -> Word] /\ f[0] = first /\ \A k \in 1..ByteBits : f[k] = CrcShift(f[k - 1])
  <2>1. f \in [0..ByteBits -> Word] /\ f[0] = first /\ \A i \in 1..ByteBits : f[i] = step[i][f[i - 1]]
    BY <1>4 DEF Iterates
  <2>2. ASSUME NEW k \in 1..ByteBits PROVE f[k] = CrcShift(f[k - 1])
    <3>1. f[k - 1] \in Word
      BY <1>1, <2>1
    <3> QED
      BY <2>1, <3>1 DEF step
  <2> QED
    BY <2>1, <2>2
<1>6. f = [k \in 0..ByteBits |-> IF k = 0 THEN first ELSE CrcShift(f[k - 1])]
  BY <1>1, <1>5
<1>7. \E p : p = [k \in 0..ByteBits |-> IF k = 0 THEN first ELSE CrcShift(p[k - 1])]
  BY <1>6
<1> DEFINE p == Shifts(byte, r)
<1>8. p = [k \in 0..ByteBits |-> IF k = 0 THEN first ELSE CrcShift(p[k - 1])]
  BY <1>7 DEF Shifts, first
<1> HIDE DEF p
<1>9. p[0] = first /\ \A k \in 1..ByteBits : p[k] = CrcShift(p[k - 1])
  BY <1>1, <1>8
<1> DEFINE T == {k \in 0..ByteBits : p[k] \in Word}
<1>10. 0 \in T
  BY <1>1, <1>2, <1>9
<1>11. ASSUME NEW k \in 1..ByteBits, k - 1 \in T PROVE k \in T
  BY <1>9, <1>11, ShiftType
<1> HIDE DEF T
<1>12. 0..ByteBits \subseteq T
  BY <1>1, <1>10, <1>11, InductionTo
<1>13. p \in [0..ByteBits -> Word]
  BY <1>8, <1>12 DEF T
<1> QED
  BY <1>9, <1>13 DEF p, first

LEMMA UpdateType ==
    ASSUME NEW byte \in Byte, NEW r \in Word
    PROVE  /\ CrcUpdate[byte][r] = Shifts(byte, r)[ByteBits]
           /\ CrcUpdate[byte][r] \in Word
<1>1. CrcUpdate[byte][r] = Shifts(byte, r)[ByteBits]
  BY DEF CrcUpdate
<1>2. Shifts(byte, r)[ByteBits] \in Word
  <2>1. Shifts(byte, r) \in [0..ByteBits -> Word]
    BY ShiftsSteps
  <2>2. ByteBits \in 0..ByteBits
    BY WordFacts
  <2> QED
    BY <2>1, <2>2
<1> QED
  BY <1>1, <1>2

(* Shifting back from remainders that agree above bit j: their starts agree above the bits    *)
(* that left meanwhile, and in as many low bits.                                              *)
LEMMA ShiftsBack ==
    ASSUME NEW p \in [0..ByteBits -> Word], NEW q \in [0..ByteBits -> Word],
           \A k \in 1..ByteBits : p[k] = CrcShift(p[k - 1]),
           \A k \in 1..ByteBits : q[k] = CrcShift(q[k - 1]),
           NEW j \in 0..(WordBits - ByteBits),
           \A i \in (j + 1)..WordBits : Bit(p[ByteBits])[i] = Bit(q[ByteBits])[i]
    PROVE  /\ \A i \in 1..ByteBits : Bit(p[0])[i] = Bit(q[0])[i]
           /\ \A i \in (j + ByteBits + 1)..WordBits : Bit(p[0])[i] = Bit(q[0])[i]
<1>1. ByteBits \in 1..WordBits /\ WordBits \in Nat /\ ByteBits \in Nat
  BY WordFacts
<1> DEFINE Agree(t) == \A i \in 1..WordBits :
              i =< t \/ i > j + t => Bit(p[ByteBits - t])[i] = Bit(q[ByteBits - t])[i]
           T == {t \in 0..ByteBits : Agree(t)}
<1>2. 0 \in T
  BY <1>1
<1>3. ASSUME NEW t \in 1..ByteBits, t - 1 \in T PROVE t \in T
  <2> DEFINE x == p[ByteBits - t]
             y == q[ByteBits - t]
  <2>1. /\ x \in Word /\ CrcShift(x) = p[ByteBits - (t - 1)]
        /\ y \in Word /\ CrcShift(y) = q[ByteBits - (t - 1)]
    <3>1. ByteBits - t \in 0..ByteBits /\ ByteBits - (t - 1) \in 1..ByteBits
          /\ (ByteBits - (t - 1)) - 1 = ByteBits - t
      BY <1>1
    <3> QED
      BY <3>1
  <2>2. \A i \in 1..WordBits : i =< t - 1 \/ i > j + (t - 1) =>
           Bit(p[ByteBits - (t - 1)])[i] = Bit(q[ByteBits - (t - 1)])[i]
    BY <1>3
  <2> HIDE DEF x, y
  <2>3. \A i \in 1..WordBits : i =< t - 1 \/ i > j + (t - 1) =>
           Bit(CrcShift(x))[i] = Bit(CrcShift(y))[i]
    BY <2>1, <2>2
  <2>4. Bit(x)[1] = Bit(y)[1]
    <3>1. WordBits \in 1..WordBits /\ WordBits > j + (t - 1)
      BY <1>1
    <3>2. Bit(CrcShift(x))[WordBits] = Bit(CrcShift(y))[WordBits]
      BY <2>3, <3>1
    <3> QED
      BY <2>1, <3>2, ShiftTop
  <2>5. ASSUME NEW i \in 1..WordBits, i =< t \/ i > j + t PROVE Bit(x)[i] = Bit(y)[i]
    <3>1. CASE i = 1
      BY <2>4, <3>1
    <3>2. CASE i # 1
      <4>1. i - 1 \in 1..(WordBits - 1) /\ (i - 1) + 1 = i
        BY <1>1, <3>2
      <4>2. i - 1 \in 1..WordBits /\ (i - 1 =< t - 1 \/ i - 1 > j + (t - 1))
        BY <1>1, <2>5, <4>1
      <4>3. Bit(CrcShift(x))[i - 1] = Bit(CrcShift(y))[i - 1]
        BY <2>3, <4>2
      <4>4. Bit(x)[(i - 1) + 1] = Bit(y)[(i - 1) + 1]
        BY <2>1, <2>4, <4>1, <4>3, ShiftBack
      <4> QED
        BY <4>1, <4>4
    <3> QED
      BY <3>1, <3>2
  <2>6. Agree(t)
    BY <2>5 DEF x, y
  <2> QED
    BY <2>6
<1>4. 0..ByteBits \subseteq T
  <2> HIDE DEF T
  <2> QED
    BY <1>1, <1>2, <1>3, InductionTo
<1>5. Agree(ByteBits)
  BY <1>1, <1>4
<1>6. \A i \in 1..WordBits : i =< ByteBits \/ i > j + ByteBits => Bit(p[0])[i] = Bit(q[0])[i]
  BY <1>1, <1>5
<1> QED
  BY <1>1, <1>6

(* The same for a byte of the input. *)
LEMMA UpdateBack ==
    ASSUME NEW a \in Byte, NEW b \in Byte, NEW r \in Word, NEW s \in Word,
           NEW j \in 0..(WordBits - ByteBits),
           \A i \in (j + 1)..WordBits : Bit(CrcUpdate[a][r])[i] = Bit(CrcUpdate[b][s])[i]
    PROVE  /\ \A i \in 1..ByteBits : Bit(Xor(r, a))[i] = Bit(Xor(s, b))[i]
           /\ \A i \in (j + ByteBits + 1)..WordBits : Bit(Xor(r, a))[i] = Bit(Xor(s, b))[i]
<1> DEFINE p == Shifts(a, r)
           q == Shifts(b, s)
<1>1. p \in [0..ByteBits -> Word] /\ \A k \in 1..ByteBits : p[k] = CrcShift(p[k - 1])
  BY ShiftsSteps
<1>2. q \in [0..ByteBits -> Word] /\ \A k \in 1..ByteBits : q[k] = CrcShift(q[k - 1])
  BY ShiftsSteps
<1>3. p[0] = Xor(r, a) /\ q[0] = Xor(s, b)
  BY ShiftsSteps
<1>4. CrcUpdate[a][r] = p[ByteBits] /\ CrcUpdate[b][s] = q[ByteBits]
  BY UpdateType
<1> HIDE DEF p, q
<1>5. \A i \in (j + 1)..WordBits : Bit(p[ByteBits])[i] = Bit(q[ByteBits])[i]
  BY <1>4
<1>6. /\ \A i \in 1..ByteBits : Bit(p[0])[i] = Bit(q[0])[i]
      /\ \A i \in (j + ByteBits + 1)..WordBits : Bit(p[0])[i] = Bit(q[0])[i]
  BY <1>1, <1>2, <1>5, ShiftsBack
<1> QED
  BY <1>3, <1>6

(* The bits of operands from those of the results. *)
LEMMA XorBack ==
    ASSUME NEW a \in Word, NEW b \in Word, NEW r \in Word, NEW s \in Word,
           NEW i \in 1..WordBits, Bit(Xor(r, a))[i] = Bit(Xor(s, b))[i]
    PROVE  Bit(a)[i] = Bit(b)[i] <=> Bit(r)[i] = Bit(s)[i]
<1>1. /\ Bit(a)[i] \in {0, 1} /\ Bit(b)[i] \in {0, 1}
      /\ Bit(r)[i] \in {0, 1} /\ Bit(s)[i] \in {0, 1}
  <2>1. ASSUME NEW v \in Word PROVE Bit(v)[i] \in {0, 1}
    <3>1. Bit(v)[i] \in 0..1
      BY BitType
    <3> QED
      BY <3>1
  <2> QED
    BY <2>1
<1>2. Bit(Xor(r, a))[i] = IF Bit(r)[i] = Bit(a)[i] THEN 0 ELSE 1
  BY XorBits
<1>3. Bit(Xor(s, b))[i] = IF Bit(s)[i] = Bit(b)[i] THEN 0 ELSE 1
  BY XorBits
<1>4. (IF Bit(r)[i] = Bit(a)[i] THEN 0 ELSE 1) = (IF Bit(s)[i] = Bit(b)[i] THEN 0 ELSE 1)
  BY <1>2, <1>3, Zenon
<1>5. Bit(r)[i] = Bit(a)[i] <=> Bit(s)[i] = Bit(b)[i]
  BY <1>4
<1> QED
  BY <1>1, <1>5

LEMMA UpdateHigh ==
    ASSUME NEW a \in Byte, NEW b \in Byte, NEW r \in Word, NEW s \in Word,
           NEW j \in 0..(WordBits - ByteBits),
           \A i \in (j + 1)..WordBits : Bit(CrcUpdate[a][r])[i] = Bit(CrcUpdate[b][s])[i]
    PROVE  \A i \in (j + ByteBits + 1)..WordBits : Bit(r)[i] = Bit(s)[i]
<1> SUFFICES ASSUME NEW i \in (j + ByteBits + 1)..WordBits PROVE Bit(r)[i] = Bit(s)[i]
  OBVIOUS
<1>1. ByteBits \in Nat /\ WordBits \in Nat /\ a \in Word /\ b \in Word
  BY WordFacts
<1>2. i \in 1..WordBits /\ i \in (ByteBits + 1)..WordBits
  BY <1>1
<1>3. Bit(Xor(r, a))[i] = Bit(Xor(s, b))[i]
  BY UpdateBack
<1>4. Bit(a)[i] = 0 /\ Bit(b)[i] = 0
  BY <1>2, ByteHigh
<1> QED
  BY <1>1, <1>2, <1>3, <1>4, XorBack

LEMMA UpdateByte ==
    ASSUME NEW a \in Byte, NEW b \in Byte, NEW r \in Word,
           NEW j \in 0..(WordBits - ByteBits),
           \A i \in (j + 1)..WordBits : Bit(CrcUpdate[a][r])[i] = Bit(CrcUpdate[b][r])[i]
    PROVE  a = b
<1>1. ByteBits \in Nat /\ WordBits \in Nat /\ a \in Word /\ b \in Word /\ ByteBits \in 1..WordBits
  BY WordFacts
<1>2. ASSUME NEW i \in 1..WordBits PROVE Bit(a)[i] = Bit(b)[i]
  <2>1. CASE i \in 1..ByteBits
    <3>1. Bit(Xor(r, a))[i] = Bit(Xor(r, b))[i]
      BY <2>1, UpdateBack
    <3> QED
      BY <1>1, <3>1, XorBack
  <2>2. CASE i \notin 1..ByteBits
    <3>1. i \in (ByteBits + 1)..WordBits
      BY <1>1, <2>2
    <3> QED
      BY <3>1, ByteHigh
  <2> QED
    BY <2>1, <2>2
<1> QED
  BY <1>1, <1>2, SameBits

LEMMA UpdateRemainder ==
    ASSUME NEW a \in Byte, NEW r \in Word, NEW s \in Word, CrcUpdate[a][r] = CrcUpdate[a][s]
    PROVE  r = s
<1>1. ByteBits \in Nat /\ WordBits \in Nat /\ a \in Word /\ ByteBits \in 1..WordBits
  BY WordFacts
<1>2. 0 \in 0..(WordBits - ByteBits)
  BY <1>1
<1>3. /\ \A i \in 1..ByteBits : Bit(Xor(r, a))[i] = Bit(Xor(s, a))[i]
      /\ \A i \in (0 + ByteBits + 1)..WordBits : Bit(Xor(r, a))[i] = Bit(Xor(s, a))[i]
  <2>1. \A i \in (0 + 1)..WordBits : Bit(CrcUpdate[a][r])[i] = Bit(CrcUpdate[a][s])[i]
    OBVIOUS
  <2> QED
    BY <1>2, <2>1, UpdateBack
<1>4. ASSUME NEW i \in 1..WordBits PROVE Bit(r)[i] = Bit(s)[i]
  <2>1. Bit(Xor(r, a))[i] = Bit(Xor(s, a))[i]
    BY <1>1, <1>3
  <2> QED
    BY <1>1, <2>1, XorBack
<1> QED
  BY <1>4, SameBits

LEMMA RemaindersSteps ==
    ASSUME NEW n \in Nat, NEW bytes \in [1..n -> Byte]
    PROVE  /\ Remainders(bytes) \in [0..n -> Word]
           /\ Remainders(bytes)[0] = MaxOf(WordSize)
           /\ \A k \in 1..n : Remainders(bytes)[k] = CrcUpdate[bytes[k]][Remainders(bytes)[k - 1]]
           /\ Crc32c(bytes) = Xor(Remainders(bytes)[n], MaxOf(WordSize))
<1> DEFINE step == [i \in 1..n |-> [x \in Word |-> CrcUpdate[bytes[i]][x]]]
           first == MaxOf(WordSize)
<1>1. Len(bytes) = n
  OBVIOUS
<1>2. first \in Word
  BY WordFacts
<1>3. step \in [1..n -> [Word -> Word]]
  BY UpdateType
<1> HIDE DEF step, first
<1>4. PICK f : Iterates(f, n, Word, first, step)
  BY <1>2, <1>3, RecursiveFunction
<1>5. f \in [0..n -> Word] /\ f[0] = first /\ \A k \in 1..n : f[k] = CrcUpdate[bytes[k]][f[k - 1]]
  <2>1. f \in [0..n -> Word] /\ f[0] = first /\ \A i \in 1..n : f[i] = step[i][f[i - 1]]
    BY <1>4 DEF Iterates
  <2>2. ASSUME NEW k \in 1..n PROVE f[k] = CrcUpdate[bytes[k]][f[k - 1]]
    <3>1. f[k - 1] \in Word
      BY <2>1
    <3> QED
      BY <2>1, <3>1 DEF step
  <2> QED
    BY <2>1, <2>2
<1>6. f = [k \in 0..n |-> IF k = 0 THEN first ELSE CrcUpdate[bytes[k]][f[k - 1]]]
  BY <1>5
<1>7. \E p : p = [k \in 0..n |-> IF k = 0 THEN first ELSE CrcUpdate[bytes[k]][p[k - 1]]]
  BY <1>6
<1> DEFINE p == Remainders(bytes)
<1>8. p = [k \in 0..n |-> IF k = 0 THEN first ELSE CrcUpdate[bytes[k]][p[k - 1]]]
  BY <1>1, <1>7 DEF Remainders, first
<1> HIDE DEF p
<1>9. p[0] = first /\ \A k \in 1..n : p[k] = CrcUpdate[bytes[k]][p[k - 1]]
  BY <1>8
<1> DEFINE T == {k \in 0..n : p[k] \in Word}
<1>10. 0 \in T
  BY <1>2, <1>9
<1>11. ASSUME NEW k \in 1..n, k - 1 \in T PROVE k \in T
  <2>1. p[k - 1] \in Word /\ bytes[k] \in Byte /\ p[k] = CrcUpdate[bytes[k]][p[k - 1]]
    BY <1>9, <1>11
  <2>2. p[k] \in Word
    BY <2>1, UpdateType
  <2> QED
    BY <2>2
<1> HIDE DEF T
<1>12. 0..n \subseteq T
  BY <1>10, <1>11, InductionTo
<1>13. p \in [0..n -> Word]
  BY <1>8, <1>12 DEF T
<1>14. Crc32c(bytes) = Xor(p[n], first)
  BY <1>1 DEF Crc32c, p, first
<1> QED
  BY <1>9, <1>13, <1>14 DEF p, first

LEMMA CrcType ==
    ASSUME NEW n \in Nat, NEW bytes \in [1..n -> Byte]
    PROVE  Crc32c(bytes) \in Word
<1>1. Remainders(bytes) \in [0..n -> Word] /\ n \in 0..n
  BY RemaindersSteps
<1>2. Remainders(bytes)[n] \in Word
  BY <1>1
<1>3. Crc32c(bytes) = Xor(Remainders(bytes)[n], MaxOf(WordSize))
  BY RemaindersSteps
<1>4. MaxOf(WordSize) \in Word
  BY WordFacts
<1> QED
  BY <1>2, <1>3, <1>4, XorBits

(* Equal results after equal bytes come from equal remainders. *)
LEMMA SameEnd ==
    ASSUME NEW n \in Nat, NEW a \in [1..n -> Byte], NEW b \in [1..n -> Byte],
           NEW e \in 0..n, \A k \in (e + 1)..n : a[k] = b[k], Crc32c(a) = Crc32c(b)
    PROVE  Remainders(a)[e] = Remainders(b)[e]
<1> DEFINE p == Remainders(a)
           q == Remainders(b)
           last == MaxOf(WordSize)
<1>1. /\ p \in [0..n -> Word] /\ \A k \in 1..n : p[k] = CrcUpdate[a[k]][p[k - 1]]
      /\ Crc32c(a) = Xor(p[n], last)
  BY RemaindersSteps
<1>2. /\ q \in [0..n -> Word] /\ \A k \in 1..n : q[k] = CrcUpdate[b[k]][q[k - 1]]
      /\ Crc32c(b) = Xor(q[n], last)
  BY RemaindersSteps
<1>3. last \in Word
  BY WordFacts
<1> HIDE DEF p, q, last
<1>4. p[n] = q[n]
  <2>1. p[n] \in Word /\ q[n] \in Word /\ Xor(p[n], last) = Xor(q[n], last)
    <3>1. n \in 0..n
      OBVIOUS
    <3> QED
      BY <1>1, <1>2, <3>1
  <2>2. ASSUME NEW i \in 1..WordBits PROVE Bit(p[n])[i] = Bit(q[n])[i]
    BY <1>3, <2>1, XorBack
  <2> QED
    BY <2>1, <2>2, SameBits
<1> DEFINE T == {i \in 0..(n - e) : p[n - i] = q[n - i]}
<1>5. 0 \in T
  BY <1>4
<1>6. ASSUME NEW i \in 1..(n - e), i - 1 \in T PROVE i \in T
  <2> DEFINE k == n - (i - 1)
  <2>1. k \in 1..n /\ k \in (e + 1)..n /\ k - 1 = n - i /\ p[k] = q[k]
    BY <1>6
  <2> HIDE DEF k
  <2>2. /\ p[k - 1] \in Word /\ q[k - 1] \in Word /\ a[k] \in Byte
        /\ CrcUpdate[a[k]][p[k - 1]] = CrcUpdate[a[k]][q[k - 1]]
    BY <1>1, <1>2, <2>1
  <2>3. p[k - 1] = q[k - 1]
    BY <2>2, UpdateRemainder
  <2> QED
    BY <2>1, <2>3
<1> HIDE DEF T
<1>7. 0..(n - e) \subseteq T
  <2>1. n - e \in Nat
    OBVIOUS
  <2> QED
    BY <1>5, <1>6, <2>1, InductionTo
<1>8. n - e \in T /\ n - (n - e) = e
  BY <1>7
<1> QED
  BY <1>8 DEF T, p, q

LEMMA SameStart ==
    ASSUME NEW n \in Nat, NEW a \in [1..n -> Byte], NEW b \in [1..n -> Byte],
           NEW w \in 0..n, \A k \in 1..w : a[k] = b[k]
    PROVE  Remainders(a)[w] = Remainders(b)[w]
<1> DEFINE p == Remainders(a)
           q == Remainders(b)
           last == MaxOf(WordSize)
<1>1. p[0] = last /\ \A k \in 1..n : p[k] = CrcUpdate[a[k]][p[k - 1]]
  BY RemaindersSteps
<1>2. q[0] = last /\ \A k \in 1..n : q[k] = CrcUpdate[b[k]][q[k - 1]]
  BY RemaindersSteps
<1> HIDE DEF p, q, last
<1> DEFINE T == {k \in 0..w : p[k] = q[k]}
<1>3. 0 \in T
  BY <1>1, <1>2
<1>4. ASSUME NEW k \in 1..w, k - 1 \in T PROVE k \in T
  <2>1. k \in 1..n /\ p[k - 1] = q[k - 1] /\ a[k] = b[k]
    BY <1>4
  <2>2. p[k] = q[k]
    BY <1>1, <1>2, <2>1, Zenon
  <2> QED
    BY <2>2
<1> HIDE DEF T
<1>5. 0..w \subseteq T
  BY SMTT(30), <1>3, <1>4, InductionTo
<1> QED
  BY <1>5 DEF T, p, q

(* A change within one word shows in the checksum. *)
LEMMA BurstShows ==
    ASSUME NEW n \in Nat, NEW a \in [1..n -> Byte], NEW b \in [1..n -> Byte],
           NEW w \in 0..n, w + WordSize =< n,
           \A k \in 1..n : k \notin (w + 1)..(w + WordSize) => a[k] = b[k],
           Crc32c(a) = Crc32c(b)
    PROVE  a = b
<1>1. /\ WordSize \in Nat \ {0} /\ ByteBits \in Nat \ {0} /\ WordBits \in Nat
      /\ WordBits = WordSize * ByteBits
  BY EncodingAssumption, WordFacts DEF WordBits
<1> DEFINE p == Remainders(a)
           q == Remainders(b)
           e == w + WordSize
<1>2. p \in [0..n -> Word] /\ \A k \in 1..n : p[k] = CrcUpdate[a[k]][p[k - 1]]
  BY RemaindersSteps
<1>3. q \in [0..n -> Word] /\ \A k \in 1..n : q[k] = CrcUpdate[b[k]][q[k - 1]]
  BY RemaindersSteps
<1>4. e \in 0..n /\ e - WordSize = w
  BY <1>1
<1>5. p[e] = q[e]
  <2>1. \A k \in (e + 1)..n : a[k] = b[k]
    BY <1>1
  <2> HIDE DEF e
  <2> QED
    BY <1>4, <2>1, SameEnd
<1>6. p[w] = q[w]
  <2>1. \A k \in 1..w : a[k] = b[k]
    OBVIOUS
  <2> QED
    BY <2>1, SameStart
<1> HIDE DEF p, q, e
<1>7. \A i \in 1..WordSize : /\ (i - 1) * ByteBits \in 0..(WordBits - ByteBits)
                             /\ (i - 1) * ByteBits + ByteBits = i * ByteBits
  <2> SUFFICES ASSUME NEW i \in 1..WordSize
               PROVE  /\ (i - 1) * ByteBits \in 0..(WordBits - ByteBits)
                      /\ (i - 1) * ByteBits + ByteBits = i * ByteBits
    OBVIOUS
  <2>1. (i - 1) * ByteBits \in Nat /\ (WordSize - i) * ByteBits \in Nat
    BY <1>1
  <2>2. WordSize * ByteBits = (i - 1) * ByteBits + (WordSize - i) * ByteBits + ByteBits
    BY <1>1
  <2>3. (i - 1) * ByteBits + ByteBits = i * ByteBits
    BY <1>1
  <2> QED
    BY <1>1, <2>1, <2>2, <2>3
<1> DEFINE Agree(i) == \A m \in (i * ByteBits + 1)..WordBits : Bit(p[e - i])[m] = Bit(q[e - i])[m]
           T == {i \in 0..WordSize : Agree(i)}
<1>8. 0 \in T
  BY <1>1, <1>4, <1>5
<1>9. ASSUME NEW i \in 1..WordSize
      PROVE  /\ e - i \in 0..n /\ e - (i - 1) \in 1..n
             /\ p[e - i] \in Word /\ p[e - (i - 1)] = CrcUpdate[a[e - (i - 1)]][p[e - i]]
             /\ q[e - i] \in Word /\ q[e - (i - 1)] = CrcUpdate[b[e - (i - 1)]][q[e - i]]
             /\ a[e - (i - 1)] \in Byte /\ b[e - (i - 1)] \in Byte
  <2>1. e - i \in 0..n /\ e - (i - 1) \in 1..n /\ (e - (i - 1)) - 1 = e - i
    BY <1>1, <1>4
  <2> QED
    BY <1>2, <1>3, <2>1
<1>10. ASSUME NEW i \in 1..WordSize, i - 1 \in T PROVE i \in T
  <2> DEFINE j == (i - 1) * ByteBits
             k == e - (i - 1)
  <2>1. j \in 0..(WordBits - ByteBits) /\ j + ByteBits = i * ByteBits
    BY <1>7
  <2>2. \A m \in (j + 1)..WordBits : Bit(p[k])[m] = Bit(q[k])[m]
    BY <1>10
  <2>3. /\ p[e - i] \in Word /\ p[k] = CrcUpdate[a[k]][p[e - i]] /\ a[k] \in Byte
        /\ q[e - i] \in Word /\ q[k] = CrcUpdate[b[k]][q[e - i]] /\ b[k] \in Byte
    BY <1>9
  <2> HIDE DEF j, k
  <2>4. \A m \in (j + 1)..WordBits :
           Bit(CrcUpdate[a[k]][p[e - i]])[m] = Bit(CrcUpdate[b[k]][q[e - i]])[m]
    BY <2>2, <2>3
  <2>5. \A m \in (j + ByteBits + 1)..WordBits : Bit(p[e - i])[m] = Bit(q[e - i])[m]
    BY ZenonT(40), <2>1, <2>3, <2>4, UpdateHigh
  <2>6. Agree(i)
    BY <2>1, <2>5
  <2> QED
    BY <2>6
<1>11. 0..WordSize \subseteq T
  <2> HIDE DEF T
  <2> QED
    BY <1>1, <1>8, <1>10, InductionTo
<1>12. ASSUME NEW i \in 1..WordSize, p[e - i] = q[e - i]
       PROVE  a[e - (i - 1)] = b[e - (i - 1)] /\ p[e - (i - 1)] = q[e - (i - 1)]
  <2> DEFINE j == (i - 1) * ByteBits
             k == e - (i - 1)
  <2>1. j \in 0..(WordBits - ByteBits)
    BY <1>7
  <2>2. i - 1 \in T
    <3>1. i - 1 \in 0..WordSize
      BY <1>1
    <3> QED
      BY <1>11, <3>1
  <2>3. \A m \in (j + 1)..WordBits : Bit(p[k])[m] = Bit(q[k])[m]
    BY <2>2
  <2> DEFINE r == p[e - i]
             x == a[k]
             y == b[k]
  <2>4. r \in Word /\ x \in Byte /\ y \in Byte /\ p[k] = CrcUpdate[x][r] /\ q[k] = CrcUpdate[y][r]
    BY <1>9, <1>12
  <2> HIDE DEF j, k, r, x, y
  <2>5. \A m \in (j + 1)..WordBits : Bit(CrcUpdate[x][r])[m] = Bit(CrcUpdate[y][r])[m]
    BY <2>3, <2>4
  <2>6. x = y
    BY <2>1, <2>4, <2>5, UpdateByte
  <2>7. p[k] = q[k]
    BY <2>4, <2>6, Zenon
  <2> QED
    BY <2>6, <2>7 DEF k, x, y
<1> DEFINE S == {i \in 0..WordSize : p[w + i] = q[w + i]}
<1>13. 0 \in S
  BY <1>1, <1>4, <1>6
<1>14. ASSUME NEW i \in 1..WordSize, p[w + (i - 1)] = q[w + (i - 1)]
       PROVE  p[w + i] = q[w + i] /\ a[w + i] = b[w + i]
  <2> DEFINE c == WordSize - i + 1
  <2>1. c \in 1..WordSize /\ e - c = w + (i - 1) /\ e - (c - 1) = w + i
    BY <1>1, <1>4
  <2> HIDE DEF c
  <2> QED
    BY <1>12, <1>14, <2>1
<1>15. ASSUME NEW i \in 1..WordSize, i - 1 \in S PROVE i \in S
  BY <1>14, <1>15
<1>16. 0..WordSize \subseteq S
  <2> HIDE DEF S
  <2> QED
    BY <1>1, <1>13, <1>15, InductionTo
<1>17. ASSUME NEW k \in 1..n PROVE a[k] = b[k]
  <2>1. CASE k \in (w + 1)..(w + WordSize)
    <3>1. k - w \in 1..WordSize /\ (k - w) - 1 \in 0..WordSize /\ w + (k - w) = k
      BY <1>1, <2>1
    <3>2. p[w + ((k - w) - 1)] = q[w + ((k - w) - 1)]
      BY <1>16, <3>1
    <3>3. a[w + (k - w)] = b[w + (k - w)]
      BY <1>14, <3>1, <3>2
    <3> QED
      BY <3>1, <3>3
  <2>2. CASE k \notin (w + 1)..(w + WordSize)
    BY <2>2
  <2> QED
    BY <2>1, <2>2
<1> QED
  BY <1>17, SameBytes

-----------------------------------------------------------------------------
(* The tables of the formats. *)

LEMMA Sizes ==
    /\ HalfSize \in Nat \ {0} /\ WordSize \in Nat \ {0} /\ HalfSize =< WordSize
    /\ CommonSize \in Nat \ {0} /\ SuperblockSize \in Nat /\ HeapHeaderSize \in Nat
    /\ FsmHeaderSize \in Nat /\ CommonSize < SuperblockSize
    /\ CommonSize < HeapHeaderSize /\ CommonSize < FsmHeaderSize
    /\ MagicOffset = CommonSize
    /\ ChecksumOffset \in Nat /\ ChecksumOffset + WordSize < CommonSize
<1>1. HalfSize \in Nat \ {0} /\ WordSize \in Nat \ {0} /\ HalfSize =< WordSize
  BY EncodingAssumption
<1>2. ChecksumOffset = 2 * HalfSize + 3 * WordSize
  BY DEF ChecksumOffset, CommonFields
<1> QED
  BY <1>1, <1>2 DEF CommonSize, SuperblockSize, HeapHeaderSize, FsmHeaderSize, MagicOffset

(* The fields fill the bytes between low and high, without overlapping. *)
Tiles(fields, low, high) ==
    /\ IsTable(fields, high)
    /\ \A k \in 1..high : Covered(fields, k) <=> k > low

LEMMA CommonTable == Tiles(CommonFields, 0, CommonSize)
<1>1. DOMAIN CommonFields = {"page_type", "format_version", "flags", "page_lsn",
                             "checksum_crc32c", "header_size", "reserved16", "page_no"}
  BY DEF CommonFields
<1>2. /\ CommonFields["page_type"] = <<0, HalfSize>>
      /\ CommonFields["format_version"] = <<HalfSize, HalfSize>>
      /\ CommonFields["flags"] = <<2 * HalfSize, WordSize>>
      /\ CommonFields["page_lsn"] = <<2 * HalfSize + WordSize, 2 * WordSize>>
      /\ CommonFields["checksum_crc32c"] = <<2 * HalfSize + 3 * WordSize, WordSize>>
      /\ CommonFields["header_size"] = <<2 * HalfSize + 4 * WordSize, HalfSize>>
      /\ CommonFields["reserved16"] = <<3 * HalfSize + 4 * WordSize, HalfSize>>
      /\ CommonFields["page_no"] = <<4 * HalfSize + 4 * WordSize, 2 * WordSize>>
  BY DEF CommonFields
<1> HIDE DEF CommonFields
<1>3. HalfSize \in Nat \ {0} /\ WordSize \in Nat \ {0}
  BY Sizes
<1>4. \A f \in DOMAIN CommonFields :
          /\ CommonFields[f][1] \in Nat /\ CommonFields[f][2] \in Nat
          /\ CommonFields[f][1] + CommonFields[f][2] =< CommonSize
  BY <1>1, <1>2, <1>3 DEF CommonSize
<1>5. \A f, g \in DOMAIN CommonFields :
          f # g => \/ CommonFields[f][1] + CommonFields[f][2] =< CommonFields[g][1]
                   \/ CommonFields[g][1] + CommonFields[g][2] =< CommonFields[f][1]
  BY <1>1, <1>2, <1>3
<1>6. ASSUME NEW k \in 1..CommonSize PROVE Covered(CommonFields, k)
  BY <1>1, <1>2, <1>3 DEF Covered, Covers, CommonSize
<1> QED
  BY <1>4, <1>5, <1>6 DEF IsTable, Tiles

LEMMA SuperblockTable == Tiles(SuperblockFields, MagicOffset + 2 * WordSize, SuperblockSize)
<1> DEFINE kind == MagicOffset + 2 * WordSize
<1>1. DOMAIN SuperblockFields = {"file_kind", "reserved16", "page_size", "file_id", "reserved32",
                                 "object_id", "creation_epoch"}
  BY DEF SuperblockFields
<1>2. /\ SuperblockFields["file_kind"] = <<kind, HalfSize>>
      /\ SuperblockFields["reserved16"] = <<kind + HalfSize, HalfSize>>
      /\ SuperblockFields["page_size"] = <<kind + 2 * HalfSize, WordSize>>
      /\ SuperblockFields["file_id"] = <<kind + 2 * HalfSize + WordSize, WordSize>>
      /\ SuperblockFields["reserved32"] = <<kind + 2 * HalfSize + 2 * WordSize, WordSize>>
      /\ SuperblockFields["object_id"] = <<kind + 2 * HalfSize + 3 * WordSize, 2 * WordSize>>
      /\ SuperblockFields["creation_epoch"] = <<kind + 2 * HalfSize + 5 * WordSize, 2 * WordSize>>
  BY DEF SuperblockFields
<1>3. /\ HalfSize \in Nat \ {0} /\ WordSize \in Nat \ {0} /\ kind \in Nat
      /\ SuperblockSize = kind + 2 * HalfSize + 7 * WordSize
  BY Sizes DEF SuperblockSize
<1> HIDE DEF kind
<1>4. \A f \in DOMAIN SuperblockFields :
          /\ SuperblockFields[f][1] \in Nat /\ SuperblockFields[f][2] \in Nat
          /\ kind =< SuperblockFields[f][1]
          /\ SuperblockFields[f][1] + SuperblockFields[f][2] =< SuperblockSize
  BY <1>1, <1>2, <1>3
<1>5. \A f, g \in DOMAIN SuperblockFields :
          f # g => \/ SuperblockFields[f][1] + SuperblockFields[f][2] =< SuperblockFields[g][1]
                   \/ SuperblockFields[g][1] + SuperblockFields[g][2] =< SuperblockFields[f][1]
  BY <1>1, <1>2, <1>3
<1>6. ASSUME NEW k \in 1..SuperblockSize PROVE Covered(SuperblockFields, k) <=> k > kind
  <2>1. ASSUME k > kind PROVE Covered(SuperblockFields, k)
    BY <1>1, <1>2, <1>3, <2>1 DEF Covered, Covers
  <2>2. ASSUME Covered(SuperblockFields, k) PROVE k > kind
    BY <1>3, <1>4, <2>2 DEF Covered, Covers
  <2> QED
    BY <2>1, <2>2
<1> QED
  BY <1>4, <1>5, <1>6 DEF IsTable, Tiles, kind

LEMMA HeapTable == Tiles(HeapFields, CommonSize, HeapHeaderSize)
<1>1. DOMAIN HeapFields = {"slot_count", "free_slot_head", "lower", "upper", "prune_hint", "reserved"}
  BY DEF HeapFields
<1>2. /\ HeapFields["slot_count"] = <<CommonSize, HalfSize>>
      /\ HeapFields["free_slot_head"] = <<CommonSize + HalfSize, HalfSize>>
      /\ HeapFields["lower"] = <<CommonSize + 2 * HalfSize, HalfSize>>
      /\ HeapFields["upper"] = <<CommonSize + 3 * HalfSize, HalfSize>>
      /\ HeapFields["prune_hint"] = <<CommonSize + 4 * HalfSize, WordSize>>
      /\ HeapFields["reserved"] = <<CommonSize + 4 * HalfSize + WordSize, WordSize>>
  BY DEF HeapFields
<1>3. /\ HalfSize \in Nat \ {0} /\ WordSize \in Nat \ {0} /\ CommonSize \in Nat
      /\ HeapHeaderSize = CommonSize + 4 * HalfSize + 2 * WordSize
  BY Sizes DEF HeapHeaderSize
<1>4. \A f \in DOMAIN HeapFields :
          /\ HeapFields[f][1] \in Nat /\ HeapFields[f][2] \in Nat /\ CommonSize =< HeapFields[f][1]
          /\ HeapFields[f][1] + HeapFields[f][2] =< HeapHeaderSize
  BY <1>1, <1>2, <1>3
<1>5. \A f, g \in DOMAIN HeapFields :
          f # g => \/ HeapFields[f][1] + HeapFields[f][2] =< HeapFields[g][1]
                   \/ HeapFields[g][1] + HeapFields[g][2] =< HeapFields[f][1]
  BY <1>1, <1>2, <1>3
<1>6. ASSUME NEW k \in 1..HeapHeaderSize PROVE Covered(HeapFields, k) <=> k > CommonSize
  <2>1. ASSUME k > CommonSize PROVE Covered(HeapFields, k)
    BY <1>1, <1>2, <1>3, <2>1 DEF Covered, Covers
  <2>2. ASSUME Covered(HeapFields, k) PROVE k > CommonSize
    BY <1>3, <1>4, <2>2 DEF Covered, Covers
  <2> QED
    BY <2>1, <2>2
<1> QED
  BY <1>4, <1>5, <1>6 DEF IsTable, Tiles

LEMMA FsmTable == Tiles(FsmFields, CommonSize, FsmHeaderSize)
<1>1. DOMAIN FsmFields = {"first_heap_page_no", "entry_count", "reserved16", "reserved32"}
  BY DEF FsmFields
<1>2. /\ FsmFields["first_heap_page_no"] = <<CommonSize, 2 * WordSize>>
      /\ FsmFields["entry_count"] = <<CommonSize + 2 * WordSize, HalfSize>>
      /\ FsmFields["reserved16"] = <<CommonSize + 2 * WordSize + HalfSize, HalfSize>>
      /\ FsmFields["reserved32"] = <<CommonSize + 2 * WordSize + 2 * HalfSize, WordSize>>
  BY DEF FsmFields
<1>3. /\ HalfSize \in Nat \ {0} /\ WordSize \in Nat \ {0} /\ CommonSize \in Nat
      /\ FsmHeaderSize = CommonSize + 3 * WordSize + 2 * HalfSize
  BY Sizes DEF FsmHeaderSize
<1>4. \A f \in DOMAIN FsmFields :
          /\ FsmFields[f][1] \in Nat /\ FsmFields[f][2] \in Nat /\ CommonSize =< FsmFields[f][1]
          /\ FsmFields[f][1] + FsmFields[f][2] =< FsmHeaderSize
  BY <1>1, <1>2, <1>3
<1>5. \A f, g \in DOMAIN FsmFields :
          f # g => \/ FsmFields[f][1] + FsmFields[f][2] =< FsmFields[g][1]
                   \/ FsmFields[g][1] + FsmFields[g][2] =< FsmFields[f][1]
  BY <1>1, <1>2, <1>3
<1>6. ASSUME NEW k \in 1..FsmHeaderSize PROVE Covered(FsmFields, k) <=> k > CommonSize
  <2>1. ASSUME k > CommonSize PROVE Covered(FsmFields, k)
    BY <1>1, <1>2, <1>3, <2>1 DEF Covered, Covers
  <2>2. ASSUME Covered(FsmFields, k) PROVE k > CommonSize
    BY <1>3, <1>4, <2>2 DEF Covered, Covers
  <2> QED
    BY <2>1, <2>2
<1> QED
  BY <1>4, <1>5, <1>6 DEF IsTable, Tiles

(* The slot directory: the fields of a slot, and slots one after the other. *)
LEMMA SlotFieldsAt ==
    ASSUME NEW s \in Nat
    PROVE  /\ DOMAIN SlotFields(s) = {"tuple_offset", "tuple_length", "state", "aux"}
           /\ s * SlotSize \in Nat
           /\ SlotFields(s)["tuple_offset"] = <<HeapHeaderSize + s * SlotSize, HalfSize>>
           /\ SlotFields(s)["tuple_length"] = <<HeapHeaderSize + s * SlotSize + HalfSize, HalfSize>>
           /\ SlotFields(s)["state"] = <<HeapHeaderSize + s * SlotSize + 2 * HalfSize, HalfSize>>
           /\ SlotFields(s)["aux"] = <<HeapHeaderSize + s * SlotSize + 3 * HalfSize, HalfSize>>
<1>1. SlotSize \in Nat
  BY Sizes DEF SlotSize
<1>2. s * SlotSize \in Nat
  BY <1>1
<1> QED
  BY <1>2 DEF SlotFields

LEMMA SlotsApart ==
    ASSUME NEW s \in Nat, NEW t \in Nat, s < t
    PROVE  s * SlotSize + SlotSize =< t * SlotSize
<1>1. SlotSize \in Nat
  BY Sizes DEF SlotSize
<1>2. (t - s - 1) * SlotSize \in Nat
  BY <1>1
<1> QED
  BY <1>1, <1>2

LEMMA DirectoryTable ==
    ASSUME NEW n \in Nat
    PROVE  Tiles(DirectoryFields(0..(n - 1)), HeapHeaderSize, HeapHeaderSize + n * SlotSize)
<1> DEFINE names == {"tuple_offset", "tuple_length", "state", "aux"}
           entries == DirectoryFields(0..(n - 1))
           high == HeapHeaderSize + n * SlotSize
<1>1. DOMAIN entries = (0..(n - 1)) \X names
  BY SlotFieldsAt DEF DirectoryFields
<1>2. \A e \in DOMAIN entries : entries[e] = SlotFields(e[1])[e[2]]
  BY DEF DirectoryFields
<1>3. /\ HalfSize \in Nat \ {0} /\ HeapHeaderSize \in Nat /\ SlotSize = 4 * HalfSize
  BY Sizes DEF SlotSize
<1>4. n * SlotSize \in Nat /\ high \in Nat
  BY <1>3
<1> HIDE DEF entries
<1>5. ASSUME NEW e \in DOMAIN entries
      PROVE  /\ e[1] \in 0..(n - 1) /\ e[1] * SlotSize \in Nat
             /\ entries[e][1] \in Nat /\ entries[e][2] = HalfSize
             /\ HeapHeaderSize + e[1] * SlotSize =< entries[e][1]
             /\ entries[e][1] + HalfSize =< HeapHeaderSize + e[1] * SlotSize + SlotSize
             /\ e[1] * SlotSize + SlotSize =< n * SlotSize
  <2>1. e[1] \in 0..(n - 1) /\ e[2] \in names
    BY <1>1
  <2>2. e[1] \in Nat /\ e[1] < n
    BY <2>1
  <2>3. e[1] * SlotSize + SlotSize =< n * SlotSize
    BY <2>2, SlotsApart
  <2>4. entries[e] \in {<<HeapHeaderSize + e[1] * SlotSize, HalfSize>>,
                        <<HeapHeaderSize + e[1] * SlotSize + HalfSize, HalfSize>>,
                        <<HeapHeaderSize + e[1] * SlotSize + 2 * HalfSize, HalfSize>>,
                        <<HeapHeaderSize + e[1] * SlotSize + 3 * HalfSize, HalfSize>>}
    <3> DEFINE s == e[1]
               a == e[2]
    <3>1. s \in Nat /\ a \in names /\ entries[e] = SlotFields(s)[a]
      BY <1>2, <2>1, <2>2
    <3> HIDE DEF s, a
    <3>2. entries[e] \in {<<HeapHeaderSize + s * SlotSize, HalfSize>>,
                          <<HeapHeaderSize + s * SlotSize + HalfSize, HalfSize>>,
                          <<HeapHeaderSize + s * SlotSize + 2 * HalfSize, HalfSize>>,
                          <<HeapHeaderSize + s * SlotSize + 3 * HalfSize, HalfSize>>}
      BY <3>1, SlotFieldsAt
    <3> QED
      BY <3>2 DEF s
  <2>5. e[1] * SlotSize \in Nat
    BY <2>2, SlotFieldsAt
  <2> QED
    BY <1>3, <2>1, <2>3, <2>4, <2>5
<1>6. ASSUME NEW e \in DOMAIN entries, NEW g \in DOMAIN entries, e # g
      PROVE  \/ entries[e][1] + entries[e][2] =< entries[g][1]
             \/ entries[g][1] + entries[g][2] =< entries[e][1]
  <2>1. /\ e[1] \in Nat /\ e[2] \in names /\ g[1] \in Nat /\ g[2] \in names
        /\ e = <<e[1], e[2]>> /\ g = <<g[1], g[2]>>
    BY <1>1
  <2>2. CASE e[1] < g[1]
    <3>1. e[1] * SlotSize + SlotSize =< g[1] * SlotSize
      BY <2>1, <2>2, SlotsApart
    <3> QED
      BY <1>3, <1>5, <3>1
  <2>3. CASE g[1] < e[1]
    <3>1. g[1] * SlotSize + SlotSize =< e[1] * SlotSize
      BY <2>1, <2>3, SlotsApart
    <3> QED
      BY <1>3, <1>5, <3>1
  <2>4. CASE e[1] = g[1]
    <3>1. e[2] # g[2]
      BY <1>6, <2>1, <2>4
    <3> DEFINE start == HeapHeaderSize + e[1] * SlotSize
               fields == SlotFields(e[1])
    <3>2. /\ fields["tuple_offset"] = <<start, HalfSize>>
          /\ fields["tuple_length"] = <<start + HalfSize, HalfSize>>
          /\ fields["state"] = <<start + 2 * HalfSize, HalfSize>>
          /\ fields["aux"] = <<start + 3 * HalfSize, HalfSize>>
      BY <2>1, SlotFieldsAt
    <3>3. entries[e] = fields[e[2]] /\ entries[g] = fields[g[2]]
      BY <1>2, <2>4
    <3>4. start \in Nat
      BY <1>3, <1>5
    <3> HIDE DEF start, fields
    <3> QED
      BY <1>3, <2>1, <3>1, <3>2, <3>3, <3>4
  <2> QED
    BY <2>1, <2>2, <2>3, <2>4
<1>7. ASSUME NEW k \in 1..high PROVE Covered(entries, k) <=> k > HeapHeaderSize
  <2>1. ASSUME k > HeapHeaderSize PROVE Covered(entries, k)
    <3> DEFINE o == k - HeapHeaderSize - 1
               s == o \div SlotSize
               r == o % SlotSize
    <3>1. o \in Nat /\ o < n * SlotSize /\ SlotSize \in Nat \ {0}
      BY <1>3, <1>4, <2>1
    <3>2. s \in Nat /\ r \in 0..(SlotSize - 1) /\ o = s * SlotSize + r
      <4> HIDE DEF o
      <4> QED
        BY <3>1, DivMod
    <3>3. s < n
      <4>1. SlotSize * n = n * SlotSize
        BY <3>1
      <4> HIDE DEF o
      <4> QED
        BY <3>1, <4>1, DivBelow
    <3>4. k = HeapHeaderSize + s * SlotSize + r + 1 /\ s * SlotSize \in Nat
      <4>1. k = HeapHeaderSize + o + 1
        BY <1>3
      <4>2. s * SlotSize \in Nat
        BY <3>2, SlotFieldsAt
      <4> HIDE DEF s, r, o
      <4> QED
        BY <1>3, <3>1, <3>2, <4>1, <4>2
    <3> HIDE DEF s, r, o
    <3> DEFINE name == IF r < HalfSize THEN "tuple_offset"
                       ELSE IF r < 2 * HalfSize THEN "tuple_length"
                       ELSE IF r < 3 * HalfSize THEN "state" ELSE "aux"
               e == <<s, name>>
    <3>5. e \in DOMAIN entries /\ e[1] = s /\ e[2] = name
      BY <1>1, <3>2, <3>3
    <3>6. entries[e] = SlotFields(s)[name]
      BY <1>2, <3>5
    <3>7. Covers(SlotFields(s)[name], k)
      <4> DEFINE start == HeapHeaderSize + s * SlotSize
      <4>1. start \in Nat /\ k = start + r + 1 /\ r \in Nat /\ r < 4 * HalfSize
        BY <1>3, <3>2, <3>4
      <4>2. /\ SlotFields(s)["tuple_offset"] = <<start, HalfSize>>
            /\ SlotFields(s)["tuple_length"] = <<start + HalfSize, HalfSize>>
            /\ SlotFields(s)["state"] = <<start + 2 * HalfSize, HalfSize>>
            /\ SlotFields(s)["aux"] = <<start + 3 * HalfSize, HalfSize>>
        BY <3>2, SlotFieldsAt
      <4> HIDE DEF start
      <4> QED
        BY <1>3, <4>1, <4>2 DEF Covers
    <3> QED
      BY <3>5, <3>6, <3>7 DEF Covered
  <2>2. ASSUME Covered(entries, k) PROVE k > HeapHeaderSize
    BY <1>3, <1>5, <2>2 DEF Covered, Covers
  <2> QED
    BY <2>1, <2>2
<1>8. IsTable(entries, high)
  <2>1. \A f \in DOMAIN entries : /\ entries[f][1] \in Nat /\ entries[f][2] \in Nat
                                  /\ entries[f][1] + entries[f][2] =< high
    BY <1>3, <1>4, <1>5
  <2> QED
    BY <1>6, <2>1 DEF IsTable
<1> QED
  BY <1>7, <1>8 DEF Tiles, entries

-----------------------------------------------------------------------------
(* Page images. *)

Page == [1..PageSize -> Byte]

(* The bytes of the checksum field. *)
InChecksum(k) == Covers(CommonFields.checksum_crc32c, k)

LEMMA ChecksumAt ==
    /\ CommonFields.checksum_crc32c = <<ChecksumOffset, WordSize>>
    /\ \A k \in Nat : InChecksum(k) <=> k \in (ChecksumOffset + 1)..(ChecksumOffset + WordSize)
<1>1. CommonFields.checksum_crc32c = <<ChecksumOffset, WordSize>>
  BY DEF CommonFields, ChecksumOffset
<1> QED
  BY <1>1 DEF InChecksum, Covers

LEMMA PageRoom ==
    /\ PageSize \in Nat \ {0} /\ CommonSize \in 1..PageSize
    /\ ChecksumOffset \in Nat /\ ChecksumOffset + WordSize =< CommonSize
    /\ SuperblockSize =< PageSize /\ HeapHeaderSize =< PageSize /\ FsmHeaderSize < PageSize
    /\ PageSize \in 0..MaxOf(HalfSize)
<1>1. PageSize \in Nat /\ PageSize =< MaxOf(HalfSize)
  BY PageImageAssumption
<1> QED
  BY <1>1, Sizes, GeometryAssumption

LEMMA EmptyIsNoPage == << >> \notin Page
<1>1. PageSize \in Nat \ {0}
  BY PageRoom
<1> QED
  BY <1>1 DEF Page

LEMMA ZeroesType ==
    ASSUME NEW n \in Nat
    PROVE  Zeroes(n) \in [1..n -> Byte] /\ \A k \in 1..n : Zeroes(n)[k] = 0
BY BaseIsPositive DEF Zeroes

LEMMA ZeroPage == Zeroes(PageSize) \in Page /\ \A k \in 1..PageSize : Zeroes(PageSize)[k] = 0
BY ZeroesType, PageRoom DEF Page

LEMMA ZeroDecodes ==
    ASSUME NEW width \in Nat
    PROVE  DecodeLittleEndian(Zeroes(width)) = 0
<1>1. Base \in Nat \ {0} /\ Power(Base, width) \in Nat \ {0}
  BY BaseIsPositive, MaxOfNat
<1>2. 0 \in 0..MaxOf(width)
  BY <1>1 DEF MaxOf
<1>3. /\ EncodeLittleEndian(0, width) \in [1..width -> Byte]
      /\ DecodeLittleEndian(EncodeLittleEndian(0, width)) = 0
  BY <1>2, ValueReadBack
<1>4. 0 % Power(Base, width) = 0
  BY <1>1
<1>5. EncodeLittleEndian(0, width) = Digits(0, Base, width)
  BY <1>4 DEF EncodeLittleEndian
<1>6. Power(Base, 0) = 1
  BY <1>1, PowerSteps
<1>7. ASSUME NEW k \in 1..width PROVE Digits(0, Base, width)[k] = 0
  <2>1. 0 \in 0..width /\ 0 < Power(Base, 0) /\ k \in (0 + 1)..width
    BY <1>6
  <2> QED
    BY <1>1, <2>1, DigitsBeyond
<1>8. \A k \in 1..width : EncodeLittleEndian(0, width)[k] = Zeroes(width)[k]
  BY <1>5, <1>7, ZeroesType
<1>9. EncodeLittleEndian(0, width) = Zeroes(width)
  BY <1>3, <1>8, ZeroesType, SameBytes
<1> QED
  BY <1>3, <1>9

LEMMA OverwriteAt ==
    ASSUME NEW n \in Nat, NEW bytes \in [1..n -> Byte], NEW offset \in Nat,
           NEW m \in Nat, NEW new \in [1..m -> Byte]
    PROVE  /\ Overwrite(bytes, offset, new) \in [1..n -> Byte]
           /\ \A k \in 1..n : k \in (offset + 1)..(offset + m)
                 => Overwrite(bytes, offset, new)[k] = new[k - offset]
           /\ \A k \in 1..n : k \notin (offset + 1)..(offset + m)
                 => Overwrite(bytes, offset, new)[k] = bytes[k]
<1>1. Len(new) = m
  OBVIOUS
<1>2. Overwrite(bytes, offset, new)
         = [k \in 1..n |-> IF k \in (offset + 1)..(offset + m) THEN new[k - offset] ELSE bytes[k]]
  BY <1>1 DEF Overwrite
<1>3. ASSUME NEW k \in 1..n, k \in (offset + 1)..(offset + m) PROVE new[k - offset] \in Byte
  BY <1>3
<1> QED
  BY <1>2, <1>3

LEMMA WithoutAt ==
    ASSUME NEW page \in Page
    PROVE  /\ WithoutChecksum(page) \in Page
           /\ \A k \in 1..PageSize : WithoutChecksum(page)[k] = IF InChecksum(k) THEN 0 ELSE page[k]
<1>1. WordSize \in Nat /\ ChecksumOffset \in Nat /\ PageSize \in Nat
  BY Sizes, PageRoom
<1>2. Zeroes(WordSize) \in [1..WordSize -> Byte] /\ \A k \in 1..WordSize : Zeroes(WordSize)[k] = 0
  BY <1>1, ZeroesType
<1>3. page \in [1..PageSize -> Byte]
  BY DEF Page
<1> DEFINE zeroes == Zeroes(WordSize)
<1> HIDE DEF zeroes
<1>4. /\ Overwrite(page, ChecksumOffset, zeroes) \in [1..PageSize -> Byte]
      /\ \A k \in 1..PageSize : k \in (ChecksumOffset + 1)..(ChecksumOffset + WordSize)
            => Overwrite(page, ChecksumOffset, zeroes)[k] = zeroes[k - ChecksumOffset]
      /\ \A k \in 1..PageSize : k \notin (ChecksumOffset + 1)..(ChecksumOffset + WordSize)
            => Overwrite(page, ChecksumOffset, zeroes)[k] = page[k]
  <2>1. zeroes \in [1..WordSize -> Byte]
    BY <1>2 DEF zeroes
  <2> QED
    BY <1>1, <1>3, <2>1, OverwriteAt
<1>5. WithoutChecksum(page) = Overwrite(page, ChecksumOffset, zeroes)
  BY DEF WithoutChecksum, zeroes
<1>6. \A k \in 1..WordSize : zeroes[k] = 0
  BY <1>2 DEF zeroes
<1>7. ASSUME NEW k \in 1..PageSize
      PROVE  WithoutChecksum(page)[k] = IF InChecksum(k) THEN 0 ELSE page[k]
  <2>1. k \in Nat
    BY <1>1
  <2>2. CASE InChecksum(k)
    <3>1. k \in (ChecksumOffset + 1)..(ChecksumOffset + WordSize)
      BY <2>1, <2>2, ChecksumAt
    <3>2. k - ChecksumOffset \in 1..WordSize
      BY <1>1, <3>1
    <3> QED
      BY <1>4, <1>5, <1>6, <2>2, <3>1, <3>2
  <2>3. CASE ~InChecksum(k)
    <3>1. k \notin (ChecksumOffset + 1)..(ChecksumOffset + WordSize)
      BY <2>1, <2>3, ChecksumAt
    <3> QED
      BY <1>4, <1>5, <2>3, <3>1
  <2> QED
    BY <2>2, <2>3
<1> QED
  BY <1>4, <1>5, <1>7 DEF Page

LEMMA SamePages ==
    ASSUME NEW a \in Page, NEW b \in Page, \A k \in 1..PageSize : a[k] = b[k]
    PROVE  a = b
BY SameBytes, PageRoom DEF Page

(* The checksum as stored. *)
StoredChecksum(page) == Subspan(page, ChecksumOffset, WordSize)

LEMMA StoredAt ==
    ASSUME NEW page \in Page
    PROVE  /\ StoredChecksum(page) \in [1..WordSize -> Byte]
           /\ \A k \in 1..WordSize : StoredChecksum(page)[k] = page[ChecksumOffset + k]
           /\ DecodeLittleEndian(StoredChecksum(page)) \in Word
           /\ VerifyPageChecksum(page)
                 <=> DecodeLittleEndian(StoredChecksum(page)) = ComputePageChecksum(page)
           /\ DecodeCommonPageHeader(page).checksum_crc32c = DecodeLittleEndian(StoredChecksum(page))
<1>1. /\ WordSize \in Nat /\ ChecksumOffset \in Nat /\ PageSize \in Nat
      /\ ChecksumOffset + WordSize =< PageSize
  BY Sizes, PageRoom
<1>2. page \in [1..PageSize -> Byte]
  BY DEF Page
<1>3. /\ StoredChecksum(page) \in [1..WordSize -> Byte]
      /\ \A k \in 1..WordSize : StoredChecksum(page)[k] = page[ChecksumOffset + k]
  BY <1>1, <1>2, SubspanAt DEF StoredChecksum
<1>4. DecodeLittleEndian(StoredChecksum(page)) \in Word
  BY <1>1, <1>3, BytesReadBack DEF Word
<1>5. DecodeCommonPageHeader(page).checksum_crc32c = DecodeLittleEndian(StoredChecksum(page))
  <2>1. "checksum_crc32c" \in DOMAIN CommonFields
    BY DEF CommonFields
  <2>2. CommonFields["checksum_crc32c"][1] = ChecksumOffset
        /\ CommonFields["checksum_crc32c"][2] = WordSize
    BY ChecksumAt
  <2> QED
    BY <2>1, <2>2 DEF DecodeCommonPageHeader, DecodeFields, StoredChecksum
<1> QED
  BY <1>3, <1>4, <1>5 DEF VerifyPageChecksum, StoredChecksum

LEMMA ChecksumType ==
    ASSUME NEW page \in Page
    PROVE  ComputePageChecksum(page) \in Word
BY WithoutAt, CrcType, PageRoom DEF ComputePageChecksum, Page

(* Pages that agree outside of the checksum have the same. *)
LEMMA SameChecksum ==
    ASSUME NEW a \in Page, NEW b \in Page, \A k \in 1..PageSize : InChecksum(k) \/ a[k] = b[k]
    PROVE  WithoutChecksum(a) = WithoutChecksum(b) /\ ComputePageChecksum(a) = ComputePageChecksum(b)
<1>1. WithoutChecksum(a) = WithoutChecksum(b)
  BY WithoutAt, SamePages
<1> QED
  BY <1>1 DEF ComputePageChecksum

(* What FinalizePageChecksum does. *)
LEMMA Finalized ==
    ASSUME NEW page \in Page
    PROVE  /\ FinalizePageChecksum(page) \in Page
           /\ \A k \in 1..PageSize : InChecksum(k) \/ FinalizePageChecksum(page)[k] = page[k]
           /\ VerifyPageChecksum(FinalizePageChecksum(page))
<1> DEFINE crc == ComputePageChecksum(page)
           new == EncodeLittleEndian(crc, WordSize)
           final == FinalizePageChecksum(page)
<1>1. /\ WordSize \in Nat /\ ChecksumOffset \in Nat /\ PageSize \in Nat
      /\ ChecksumOffset + WordSize =< PageSize
  BY Sizes, PageRoom
<1>2. crc \in 0..MaxOf(WordSize)
  BY ChecksumType DEF Word
<1> HIDE DEF crc
<1>3. new \in [1..WordSize -> Byte] /\ DecodeLittleEndian(new) = crc
  BY <1>1, <1>2, ValueReadBack
<1>4. final = Overwrite(page, ChecksumOffset, new)
  BY DEF FinalizePageChecksum, crc
<1> HIDE DEF new, final
<1>5. /\ final \in [1..PageSize -> Byte]
      /\ \A k \in 1..PageSize : k \in (ChecksumOffset + 1)..(ChecksumOffset + WordSize)
            => final[k] = new[k - ChecksumOffset]
      /\ \A k \in 1..PageSize : k \notin (ChecksumOffset + 1)..(ChecksumOffset + WordSize)
            => final[k] = page[k]
  <2>1. page \in [1..PageSize -> Byte]
    BY DEF Page
  <2> QED
    BY <1>1, <1>3, <1>4, <2>1, OverwriteAt
<1>6. final \in Page
  BY <1>5 DEF Page
<1>7. \A k \in 1..PageSize : InChecksum(k) \/ final[k] = page[k]
  BY <1>1, <1>5, ChecksumAt
<1>8. StoredChecksum(final) = new
  <2>1. ASSUME NEW k \in 1..WordSize PROVE StoredChecksum(final)[k] = new[k]
    <3>1. ChecksumOffset + k \in 1..PageSize /\ (ChecksumOffset + k) - ChecksumOffset = k
          /\ ChecksumOffset + k \in (ChecksumOffset + 1)..(ChecksumOffset + WordSize)
      BY <1>1
    <3>2. final[ChecksumOffset + k] = new[k]
      BY <1>5, <3>1
    <3> QED
      BY <1>6, <3>2, StoredAt
  <2>2. StoredChecksum(final) \in [1..WordSize -> Byte]
    BY <1>6, StoredAt
  <2> QED
    BY <1>1, <1>3, <2>1, <2>2, SameBytes
<1>9. ComputePageChecksum(final) = crc
  BY <1>6, <1>7, SameChecksum DEF crc
<1>10. VerifyPageChecksum(final)
  BY <1>3, <1>6, <1>8, <1>9, StoredAt
<1> QED
  BY <1>6, <1>7, <1>10 DEF final

-----------------------------------------------------------------------------
(* The common header. *)

LEMMA Maxima ==
    /\ MaxOf(HalfSize) \in Nat /\ MaxOf(WordSize) \in Nat /\ MaxOf(2 * WordSize) \in Nat
    /\ MaxOf(HalfSize) =< MaxOf(WordSize) /\ MaxOf(WordSize) =< MaxOf(2 * WordSize)
<1>1. HalfSize \in Nat \ {0} /\ WordSize \in Nat \ {0} /\ HalfSize =< WordSize
  BY Sizes
<1>2. MaxOf(HalfSize) \in Nat /\ MaxOf(WordSize) \in Nat /\ MaxOf(2 * WordSize) \in Nat
  BY <1>1, MaxOfNat
<1>3. ASSUME NEW n \in Nat, NEW m \in 0..n PROVE Power(Base, m) =< Power(Base, n)
  BY BaseIsPositive, PowerMonotone
<1>4. Power(Base, HalfSize) =< Power(Base, WordSize)
  BY <1>1, <1>3
<1>5. Power(Base, WordSize) =< Power(Base, 2 * WordSize)
  BY <1>1, <1>3
<1>6. MaxOf(HalfSize) =< MaxOf(WordSize) /\ MaxOf(WordSize) =< MaxOf(2 * WordSize)
  <2>1. /\ Power(Base, HalfSize) \in Nat /\ Power(Base, WordSize) \in Nat
        /\ Power(Base, 2 * WordSize) \in Nat
    BY <1>1, MaxOfNat
  <2> QED
    BY <1>4, <1>5, <2>1 DEF MaxOf
<1> QED
  BY <1>2, <1>6

LEMMA Widths ==
    /\ MaxOf(HalfSize) \in Nat /\ MaxOf(WordSize) \in Nat /\ MaxOf(2 * WordSize) \in Nat
    /\ PageSize =< MaxOf(HalfSize) /\ MaxOf(HalfSize) =< MaxOf(WordSize)
    /\ MaxOf(WordSize) =< MaxOf(2 * WordSize) /\ 4 =< MaxOf(HalfSize)
    /\ INVALID_PAGE_NO = MaxOf(2 * WordSize)
<1>1. HalfSize \in Nat \ {0} /\ WordSize \in Nat \ {0} /\ HalfSize =< WordSize
  BY Sizes
<1>2. PageSize =< MaxOf(HalfSize) /\ 4 =< PageSize
  BY <1>1, PageRoom, PageImageAssumption DEF CommonSize
<1> QED
  BY <1>2, Maxima, PageRoom DEF INVALID_PAGE_NO

CommonHeaders ==
    [page_type : 0..MaxOf(HalfSize), format_version : 0..MaxOf(HalfSize), flags : 0..MaxOf(WordSize),
     page_lsn : 0..MaxOf(2 * WordSize), checksum_crc32c : 0..MaxOf(WordSize),
     header_size : 0..MaxOf(HalfSize), reserved16 : 0..MaxOf(HalfSize),
     page_no : 0..MaxOf(2 * WordSize)]

LEMMA CommonHeaderType ==
    ASSUME NEW type \in 0..2, NEW lsn \in 0..MaxOf(2 * WordSize), NEW size \in 0..PageSize,
           NEW no \in 0..MaxOf(2 * WordSize)
    PROVE  CommonPageHeader(type, lsn, size, no) \in CommonHeaders
<1>1. /\ type \in 0..MaxOf(HalfSize) /\ size \in 0..MaxOf(HalfSize) /\ 0 \in 0..MaxOf(HalfSize)
      /\ 1 \in 0..MaxOf(HalfSize) /\ 0 \in 0..MaxOf(WordSize)
  BY Widths, PageRoom
<1> QED
  BY <1>1 DEF CommonPageHeader, CommonHeaders

CommonNames ==
    {"page_type", "format_version", "flags", "page_lsn", "checksum_crc32c", "header_size",
     "reserved16", "page_no"}

LEMMA CommonDomain ==
    /\ DOMAIN CommonFields = CommonNames
    /\ \A header \in CommonHeaders : /\ DOMAIN header = CommonNames
                                     /\ \A f \in CommonNames : header[f] \in 0..MaxOf(CommonFields[f][2])
<1>1. DOMAIN CommonFields = CommonNames
  BY DEF CommonFields, CommonNames
<1>2. /\ CommonFields["page_type"][2] = HalfSize /\ CommonFields["format_version"][2] = HalfSize
      /\ CommonFields["flags"][2] = WordSize /\ CommonFields["page_lsn"][2] = 2 * WordSize
      /\ CommonFields["checksum_crc32c"][2] = WordSize /\ CommonFields["header_size"][2] = HalfSize
      /\ CommonFields["reserved16"][2] = HalfSize /\ CommonFields["page_no"][2] = 2 * WordSize
  BY DEF CommonFields
<1> HIDE DEF CommonFields
<1>3. ASSUME NEW header \in CommonHeaders
      PROVE  DOMAIN header = CommonNames
             /\ \A f \in CommonNames : header[f] \in 0..MaxOf(CommonFields[f][2])
  BY <1>2 DEF CommonHeaders, CommonNames
<1> QED
  BY <1>1, <1>3

(* Fields other than the checksum lie outside of it. *)
LEMMA CommonApart ==
    ASSUME NEW f \in CommonNames, f # "checksum_crc32c", NEW k \in 1..CommonSize,
           Covers(CommonFields[f], k)
    PROVE  ~InChecksum(k)
<1>1. IsTable(CommonFields, CommonSize) /\ f \in DOMAIN CommonFields
      /\ "checksum_crc32c" \in DOMAIN CommonFields
  BY CommonTable, CommonDomain DEF Tiles, CommonNames
<1> QED
  BY <1>1 DEF IsTable, InChecksum, Covers

(* The header that was encoded is read back, but for the checksum. *)
LEMMA CommonRead ==
    ASSUME NEW header \in CommonHeaders, NEW page \in Page,
           \A k \in 1..CommonSize :
              InChecksum(k) \/ page[k] = EncodeFields(CommonFields, header, Zeroes(PageSize))[k]
    PROVE  DecodeCommonPageHeader(page)
              = [header EXCEPT !.checksum_crc32c = DecodeCommonPageHeader(page).checksum_crc32c]
<1> DEFINE decoded == DecodeCommonPageHeader(page)
<1>1. ASSUME NEW f \in CommonNames, f # "checksum_crc32c" PROVE decoded[f] = header[f]
  <2>1. f \in DOMAIN CommonFields /\ IsTable(CommonFields, CommonSize)
    BY CommonTable, CommonDomain DEF Tiles
  <2>2. header[f] \in 0..MaxOf(CommonFields[f][2])
    BY CommonDomain
  <2>3. \A k \in 1..CommonSize : Covers(CommonFields[f], k)
           => page[k] = EncodeFields(CommonFields, header, Zeroes(PageSize))[k]
    BY <1>1, CommonApart
  <2>4. /\ CommonSize \in Nat /\ PageSize \in Nat /\ CommonSize =< PageSize
        /\ Zeroes(PageSize) \in [1..PageSize -> Byte] /\ page \in [1..PageSize -> Byte]
    BY Sizes, PageRoom, ZeroPage DEF Page
  <2>5. DecodeFields(CommonFields, page)[f] = header[f]
    BY <2>1, <2>2, <2>3, <2>4, FieldReadBack
  <2> QED
    BY <2>5 DEF DecodeCommonPageHeader
<1>2. DOMAIN decoded = CommonNames /\ DOMAIN header = CommonNames
  BY CommonDomain DEF DecodeCommonPageHeader, DecodeFields
<1>3. decoded = [f \in CommonNames |-> decoded[f]]
  <2>1. decoded = [f \in DOMAIN CommonFields |->
                      DecodeLittleEndian(Subspan(page, CommonFields[f][1], CommonFields[f][2]))]
    BY DEF DecodeCommonPageHeader, DecodeFields
  <2> QED
    BY <2>1, CommonDomain
<1>4. header = [f \in CommonNames |-> header[f]]
  BY <1>2 DEF CommonHeaders
<1> HIDE DEF decoded
<1>5. "checksum_crc32c" \in CommonNames
  BY DEF CommonNames
<1>6. decoded = [header EXCEPT !["checksum_crc32c"] = decoded["checksum_crc32c"]]
  BY <1>1, <1>3, <1>4, <1>5
<1> QED
  BY <1>6 DEF decoded

(* What is decoded encodes to the bytes it comes from. *)
LEMMA CommonRestored ==
    ASSUME NEW page \in Page, NEW header, NEW k \in 1..CommonSize, ~InChecksum(k),
           \A f \in CommonNames :
              f = "checksum_crc32c" \/ header[f] = DecodeCommonPageHeader(page)[f]
    PROVE  EncodeFields(CommonFields, header, Zeroes(PageSize))[k] = page[k]
<1>1. IsTable(CommonFields, CommonSize) /\ Covered(CommonFields, k)
  BY CommonTable, Sizes DEF Tiles
<1>2. PICK f \in DOMAIN CommonFields : Covers(CommonFields[f], k)
  BY <1>1 DEF Covered
<1>3. f \in CommonNames /\ f # "checksum_crc32c"
  BY <1>2, CommonDomain DEF InChecksum
<1>4. header[f] = DecodeFields(CommonFields, page)[f]
  BY <1>3 DEF DecodeCommonPageHeader
<1>5. /\ CommonSize \in Nat /\ PageSize \in Nat /\ CommonSize =< PageSize
      /\ Zeroes(PageSize) \in [1..PageSize -> Byte] /\ page \in [1..PageSize -> Byte]
      /\ k \in 1..PageSize
  BY Sizes, PageRoom, ZeroPage DEF Page
<1> DEFINE offset == CommonFields[f][1]
           width == CommonFields[f][2]
<1>6. EncodeFields(CommonFields, header, Zeroes(PageSize))[k]
         = EncodeLittleEndian(header[f], width)[k - offset]
  BY <1>1, <1>2, <1>5, EncodedField
<1>7. offset \in Nat /\ width \in Nat /\ k - offset \in 1..width /\ offset + (k - offset) = k
  BY <1>1, <1>2 DEF IsTable, Covers
<1>8. EncodeLittleEndian(DecodeFields(CommonFields, page)[f], width)[k - offset]
         = page[offset + (k - offset)]
  <2>1. f \in DOMAIN CommonFields
    BY <1>2
  <2> HIDE DEF offset, width
  <2>2. ASSUME NEW j \in 1..CommonFields[f][2]
        PROVE  EncodeLittleEndian(DecodeFields(CommonFields, page)[f], CommonFields[f][2])[j]
                  = page[CommonFields[f][1] + j]
    BY SMTT(30), <1>1, <1>5, <2>1, <2>2, FieldBytes
  <2> QED
    BY <1>7, <2>2 DEF offset, width
<1> QED
  BY <1>4, <1>6, <1>7, <1>8

(* A page as Initialize leaves it. *)
LEMMA InitializedAt ==
    ASSUME NEW header \in CommonHeaders
    PROVE  /\ InitializePage(header) \in Page
           /\ \A k \in 1..CommonSize :
                 InitializePage(header)[k] = EncodeFields(CommonFields, header, Zeroes(PageSize))[k]
           /\ \A k \in (CommonSize + 1)..PageSize : InitializePage(header)[k] = 0
<1>1. /\ CommonSize \in Nat /\ PageSize \in Nat /\ CommonSize =< PageSize
      /\ Zeroes(PageSize) \in [1..PageSize -> Byte]
      /\ \A k \in 1..PageSize : Zeroes(PageSize)[k] = 0
  BY Sizes, PageRoom, ZeroPage DEF Page
<1>2. IsTable(CommonFields, CommonSize)
  BY CommonTable DEF Tiles
<1>3. \A f \in DOMAIN CommonFields : header[f] \in Int
  <2> SUFFICES ASSUME NEW f \in DOMAIN CommonFields PROVE header[f] \in Int
    OBVIOUS
  <2>1. header[f] \in 0..MaxOf(CommonFields[f][2])
    BY CommonDomain
  <2> QED
    BY <2>1
<1>4. InitializePage(header) \in [1..PageSize -> Byte]
  BY <1>1, <1>2, <1>3, EncodedType DEF InitializePage
<1>5. ASSUME NEW k \in (CommonSize + 1)..PageSize PROVE InitializePage(header)[k] = 0
  <2>1. k \in 1..PageSize
    BY <1>1
  <2>2. ~Covered(CommonFields, k)
    BY <1>1, <1>2 DEF Covered, Covers, IsTable
  <2>3. EncodeFields(CommonFields, header, Zeroes(PageSize))[k] = Zeroes(PageSize)[k]
    <3>1. k \in DOMAIN Zeroes(PageSize)
      BY <1>1, <2>1
    <3> QED
      BY <2>2, <3>1 DEF EncodeFields, Covered
  <2> QED
    BY <1>1, <2>1, <2>3 DEF InitializePage
<1> QED
  BY <1>4, <1>5 DEF InitializePage, Page

-----------------------------------------------------------------------------
(* A structure in a page. *)

LEMMA LayerOutside ==
    ASSUME NEW fields, NEW low \in Nat, NEW high \in 0..PageSize, Tiles(fields, low, high),
           NEW record, NEW bytes \in Page, NEW k \in 1..PageSize, k =< low \/ k > high
    PROVE  EncodeFields(fields, record, bytes)[k] = bytes[k]
<1>1. IsTable(fields, high) /\ \A j \in 1..high : Covered(fields, j) <=> j > low
  BY DEF Tiles
<1>2. PageSize \in Nat /\ bytes \in [1..PageSize -> Byte]
  BY PageRoom DEF Page
<1>3. ~Covered(fields, k)
  <2>1. ASSUME NEW f \in DOMAIN fields, Covers(fields[f], k) PROVE k \in 1..high
    BY <1>1, <2>1 DEF IsTable, Covers
  <2> QED
    BY <1>1, <2>1 DEF Covered
<1>4. k \in DOMAIN bytes
  BY <1>2
<1> QED
  BY <1>3, <1>4 DEF EncodeFields, Covered

LEMMA LayerBeyond ==
    ASSUME NEW fields, NEW low \in Nat, NEW high \in 0..PageSize, Tiles(fields, low, high),
           NEW record, NEW bytes \in Page
    PROVE  \A k \in 1..PageSize : k =< low \/ k > high => EncodeFields(fields, record, bytes)[k] = bytes[k]
<1>1. ASSUME NEW k \in 1..PageSize, k =< low \/ k > high
      PROVE  EncodeFields(fields, record, bytes)[k] = bytes[k]
  BY <1>1, LayerOutside
<1> QED
  BY <1>1

LEMMA LayerAt ==
    ASSUME NEW fields, NEW low \in Nat, NEW high \in 0..PageSize, Tiles(fields, low, high),
           NEW record, \A f \in DOMAIN fields : record[f] \in Int, NEW bytes \in Page
    PROVE  /\ EncodeFields(fields, record, bytes) \in Page
           /\ \A k \in (low + 1)..high : EncodeFields(fields, record, bytes)[k]
                                            = EncodeFields(fields, record, Zeroes(PageSize))[k]
           /\ \A k \in 1..PageSize : k =< low \/ k > high
                 => EncodeFields(fields, record, bytes)[k] = bytes[k]
<1>1. IsTable(fields, high) /\ \A k \in 1..high : Covered(fields, k) <=> k > low
  BY DEF Tiles
<1>2. /\ PageSize \in Nat /\ bytes \in [1..PageSize -> Byte]
      /\ Zeroes(PageSize) \in [1..PageSize -> Byte]
  BY PageRoom, ZeroPage DEF Page
<1>3. EncodeFields(fields, record, bytes) \in Page
  BY <1>1, <1>2, EncodedType DEF Page
<1>4. ASSUME NEW k \in (low + 1)..high
      PROVE  EncodeFields(fields, record, bytes)[k]
                = EncodeFields(fields, record, Zeroes(PageSize))[k]
  <2>1. k \in 1..high /\ k \in 1..PageSize
    BY <1>2
  <2>2. PICK f \in DOMAIN fields : Covers(fields[f], k)
    BY <1>1, <2>1 DEF Covered
  <2>3. EncodeFields(fields, record, bytes)[k]
           = EncodeLittleEndian(record[f], fields[f][2])[k - fields[f][1]]
    BY <1>1, <1>2, <2>1, <2>2, EncodedField
  <2>4. EncodeFields(fields, record, Zeroes(PageSize))[k]
           = EncodeLittleEndian(record[f], fields[f][2])[k - fields[f][1]]
    BY <1>1, <1>2, <2>1, <2>2, EncodedField
  <2> QED
    BY <2>3, <2>4, Zenon
<1>5. ASSUME NEW k \in 1..PageSize, k =< low \/ k > high
      PROVE  EncodeFields(fields, record, bytes)[k] = bytes[k]
  BY <1>5, LayerOutside
<1> QED
  BY <1>3, <1>4, <1>5

(* The records of a page hold integers. *)
HoldsIntegers(fields, record) == \A f \in DOMAIN fields : record[f] \in Int

LEMMA LayerInside ==
    ASSUME NEW fields, NEW low \in Nat, NEW high \in 0..PageSize, Tiles(fields, low, high),
           NEW record, HoldsIntegers(fields, record), NEW bytes \in Page,
           NEW k \in (low + 1)..high
    PROVE  EncodeFields(fields, record, bytes)[k] = EncodeFields(fields, record, Zeroes(PageSize))[k]
BY LayerAt DEF HoldsIntegers

LEMMA LayerRead ==
    ASSUME NEW fields, NEW low \in Nat, NEW high \in 0..PageSize, Tiles(fields, low, high),
           NEW record, NEW f \in DOMAIN fields, record[f] \in 0..MaxOf(fields[f][2]),
           NEW page \in Page,
           \A k \in (low + 1)..high : page[k] = EncodeFields(fields, record, Zeroes(PageSize))[k]
    PROVE  DecodeFields(fields, page)[f] = record[f]
<1>1. IsTable(fields, high) /\ \A k \in 1..high : Covered(fields, k) <=> k > low
  BY DEF Tiles
<1>2. /\ PageSize \in Nat /\ page \in [1..PageSize -> Byte] /\ high \in Nat /\ high =< PageSize
      /\ Zeroes(PageSize) \in [1..PageSize -> Byte]
  BY PageRoom, ZeroPage DEF Page
<1>3. \A k \in 1..high : Covers(fields[f], k)
         => page[k] = EncodeFields(fields, record, Zeroes(PageSize))[k]
  BY <1>1 DEF Covered
<1> QED
  BY <1>1, <1>2, <1>3, FieldReadBack

LEMMA LayerRestored ==
    ASSUME NEW fields, NEW low \in Nat, NEW high \in 0..PageSize, Tiles(fields, low, high),
           NEW page \in Page,
           NEW record, \A f \in DOMAIN fields : record[f] = DecodeFields(fields, page)[f],
           NEW k \in (low + 1)..high
    PROVE  EncodeFields(fields, record, Zeroes(PageSize))[k] = page[k]
<1>1. IsTable(fields, high) /\ k \in 1..high /\ k \in 1..PageSize /\ Covered(fields, k)
  <2>1. PageSize \in Nat
    BY PageRoom
  <2> QED
    BY <2>1 DEF Tiles
<1>2. /\ PageSize \in Nat /\ page \in [1..PageSize -> Byte] /\ high \in Nat /\ high =< PageSize
      /\ Zeroes(PageSize) \in [1..PageSize -> Byte]
  BY PageRoom, ZeroPage DEF Page
<1>3. PICK f \in DOMAIN fields : Covers(fields[f], k)
  BY <1>1 DEF Covered
<1>4. fields[f][1] \in Nat /\ fields[f][2] \in Nat /\ k - fields[f][1] \in 1..fields[f][2]
      /\ fields[f][1] + (k - fields[f][1]) = k
  BY <1>1, <1>3 DEF IsTable, Covers
<1>5. EncodeFields(fields, record, Zeroes(PageSize))[k]
         = EncodeLittleEndian(record[f], fields[f][2])[k - fields[f][1]]
  BY <1>1, <1>2, <1>3, EncodedField
<1> DEFINE j == k - fields[f][1]
<1>6. EncodeLittleEndian(DecodeFields(fields, page)[f], fields[f][2])[j] = page[fields[f][1] + j]
  <2>1. j \in 1..fields[f][2] /\ f \in DOMAIN fields /\ IsTable(fields, high)
    BY <1>1, <1>3, <1>4
  <2> HIDE DEF j
  <2> QED
    BY SMTT(30), <1>2, <2>1, FieldBytes
<1>7. record[f] = DecodeFields(fields, page)[f]
  OBVIOUS
<1> QED
  BY <1>4, <1>5, <1>6, <1>7, Zenon

-----------------------------------------------------------------------------
(* The pages of the three owners, byte by byte. *)

FileCommon(c) == CommonPageHeader(SUPERBLOCK, c.page_lsn, SuperblockSize, 0)

FileFields(c) ==
    [file_kind |-> c.file_kind, reserved16 |-> 0, page_size |-> PageSize, file_id |-> c.file_id,
     reserved32 |-> 0, object_id |-> c.object_id, creation_epoch |-> c.creation_epoch]

LEMMA FileTypes ==
    ASSUME NEW c, IsFileContent(c)
    PROVE  /\ FileCommon(c) \in CommonHeaders
           /\ \A f \in DOMAIN SuperblockFields :
                 FileFields(c)[f] \in 0..MaxOf(SuperblockFields[f][2])
<1>1. FileCommon(c) \in CommonHeaders
  <2>1. SuperblockSize \in 0..PageSize /\ 0 \in 0..MaxOf(2 * WordSize) /\ SUPERBLOCK \in 0..2
    BY Sizes, PageRoom, Widths DEF SUPERBLOCK
  <2>2. c.page_lsn \in 0..MaxOf(2 * WordSize)
    BY DEF IsFileContent
  <2> QED
    BY <2>1, <2>2, CommonHeaderType DEF FileCommon
<1>2. ASSUME NEW f \in DOMAIN SuperblockFields
      PROVE  FileFields(c)[f] \in 0..MaxOf(SuperblockFields[f][2])
  <2>1. /\ f \in {"file_kind", "reserved16", "page_size", "file_id", "reserved32", "object_id",
                  "creation_epoch"}
        /\ SuperblockFields["file_kind"][2] = HalfSize /\ SuperblockFields["reserved16"][2] = HalfSize
        /\ SuperblockFields["page_size"][2] = WordSize /\ SuperblockFields["file_id"][2] = WordSize
        /\ SuperblockFields["reserved32"][2] = WordSize
        /\ SuperblockFields["object_id"][2] = 2 * WordSize
        /\ SuperblockFields["creation_epoch"][2] = 2 * WordSize
    BY DEF SuperblockFields
  <2>2. /\ FileFields(c)["file_kind"] \in 0..MaxOf(HalfSize) /\ FileFields(c)["reserved16"] = 0
        /\ FileFields(c)["page_size"] = PageSize /\ FileFields(c)["file_id"] \in 0..MaxOf(WordSize)
        /\ FileFields(c)["reserved32"] = 0 /\ FileFields(c)["object_id"] \in 0..MaxOf(2 * WordSize)
        /\ FileFields(c)["creation_epoch"] \in 0..MaxOf(2 * WordSize)
    BY DEF FileFields, IsFileContent
  <2>3. PageSize \in 0..MaxOf(WordSize) /\ 0 \in 0..MaxOf(HalfSize) /\ 0 \in 0..MaxOf(WordSize)
    BY Widths, PageRoom
  <2> QED
    BY <2>1, <2>2, <2>3
<1> QED
  BY <1>1, <1>2

(* What the superblock encoder has written before the checksum. *)
FileBytes(c) ==
    EncodeFields(SuperblockFields, FileFields(c),
                 Overwrite(InitializePage(FileCommon(c)), MagicOffset, Magic))

LEMMA FileLayers ==
    ASSUME NEW c, IsFileContent(c)
    PROVE  /\ EncodeFileSuperblock(c) = FinalizePageChecksum(FileBytes(c))
           /\ FileBytes(c) \in Page
           /\ \A k \in 1..CommonSize :
                 FileBytes(c)[k] = EncodeFields(CommonFields, FileCommon(c), Zeroes(PageSize))[k]
           /\ \A k \in (MagicOffset + 1)..(MagicOffset + 2 * WordSize) :
                 FileBytes(c)[k] = Magic[k - MagicOffset]
           /\ \A k \in (MagicOffset + 2 * WordSize + 1)..SuperblockSize :
                 FileBytes(c)[k] = EncodeFields(SuperblockFields, FileFields(c), Zeroes(PageSize))[k]
           /\ \A k \in (SuperblockSize + 1)..PageSize : FileBytes(c)[k] = 0
<1> DEFINE start == InitializePage(FileCommon(c))
           marked == Overwrite(start, MagicOffset, Magic)
           low == MagicOffset + 2 * WordSize
<1>1. /\ CommonSize \in Nat /\ PageSize \in Nat /\ MagicOffset = CommonSize /\ MagicOffset \in Nat
      /\ WordSize \in Nat /\ low \in Nat /\ low =< SuperblockSize /\ SuperblockSize \in 0..PageSize
  BY Sizes, PageRoom DEF SuperblockSize
<1>2. FileCommon(c) \in CommonHeaders /\ \A f \in DOMAIN SuperblockFields : FileFields(c)[f] \in Int
  <2>1. ASSUME NEW f \in DOMAIN SuperblockFields PROVE FileFields(c)[f] \in Int
    <3>1. FileFields(c)[f] \in 0..MaxOf(SuperblockFields[f][2])
      BY FileTypes
    <3> QED
      BY <3>1
  <2> QED
    BY <2>1, FileTypes
<1>3. /\ start \in Page
      /\ \A k \in 1..CommonSize :
            start[k] = EncodeFields(CommonFields, FileCommon(c), Zeroes(PageSize))[k]
      /\ \A k \in (CommonSize + 1)..PageSize : start[k] = 0
  BY <1>2, InitializedAt
<1>4. Magic \in [1..(2 * WordSize) -> Byte]
  BY <1>1, PageImageAssumption
<1> HIDE DEF start
<1>5. /\ marked \in Page
      /\ \A k \in 1..PageSize : k \in (MagicOffset + 1)..low => marked[k] = Magic[k - MagicOffset]
      /\ \A k \in 1..PageSize : k \notin (MagicOffset + 1)..low => marked[k] = start[k]
  <2>1. start \in [1..PageSize -> Byte] /\ 2 * WordSize \in Nat
    BY <1>1, <1>3 DEF Page
  <2> QED
    BY <1>1, <1>4, <2>1, OverwriteAt DEF Page
<1>6. FileBytes(c) = EncodeFields(SuperblockFields, FileFields(c), marked)
  BY DEF FileBytes, start
<1>7. Tiles(SuperblockFields, low, SuperblockSize)
  BY SuperblockTable
<1> HIDE DEF marked, low
<1>8. /\ FileBytes(c) \in Page
      /\ \A k \in (low + 1)..SuperblockSize :
            FileBytes(c)[k] = EncodeFields(SuperblockFields, FileFields(c), Zeroes(PageSize))[k]
      /\ \A k \in 1..PageSize : k =< low \/ k > SuperblockSize => FileBytes(c)[k] = marked[k]
  <2> DEFINE record == FileFields(c)
  <2>1. /\ low \in Nat /\ SuperblockSize \in 0..PageSize /\ marked \in Page
        /\ \A f \in DOMAIN SuperblockFields : record[f] \in Int
    BY <1>1, <1>2, <1>5
  <2> HIDE DEF record
  <2>2. EncodeFields(SuperblockFields, record, marked) \in Page
    BY <1>7, <2>1, LayerAt
  <2>3. \A k \in (low + 1)..SuperblockSize : EncodeFields(SuperblockFields, record, marked)[k]
              = EncodeFields(SuperblockFields, record, Zeroes(PageSize))[k]
    BY <1>7, <2>1, LayerAt
  <2>4. \A k \in 1..PageSize : k =< low \/ k > SuperblockSize
              => EncodeFields(SuperblockFields, record, marked)[k] = marked[k]
    BY SMTT(30), <1>7, <2>1, LayerAt
  <2> QED
    BY <1>6, <2>2, <2>3, <2>4 DEF record
<1>9. ASSUME NEW k \in 1..CommonSize
      PROVE  FileBytes(c)[k] = EncodeFields(CommonFields, FileCommon(c), Zeroes(PageSize))[k]
  <2>1. k \in 1..PageSize /\ (k =< low \/ k > SuperblockSize) /\ k \notin (MagicOffset + 1)..low
    BY <1>1 DEF low
  <2> QED
    BY <1>3, <1>5, <1>8, <2>1
<1>10. ASSUME NEW k \in (MagicOffset + 1)..low PROVE FileBytes(c)[k] = Magic[k - MagicOffset]
  <2>1. k \in 1..PageSize /\ k =< low
    BY <1>1 DEF low
  <2> QED
    BY <1>5, <1>8, <2>1
<1>11. ASSUME NEW k \in (SuperblockSize + 1)..PageSize PROVE FileBytes(c)[k] = 0
  <2>1. /\ k \in 1..PageSize /\ (k =< low \/ k > SuperblockSize) /\ k \notin (MagicOffset + 1)..low
        /\ k \in (CommonSize + 1)..PageSize
    BY <1>1, Sizes
  <2> QED
    BY <1>3, <1>5, <1>8, <2>1
<1>12. EncodeFileSuperblock(c) = FinalizePageChecksum(FileBytes(c))
  BY DEF EncodeFileSuperblock, FileBytes, FileFields, FileCommon
<1> QED
  BY <1>8, <1>9, <1>10, <1>11, <1>12 DEF low

HeapCommon(no, c) == CommonPageHeader(HEAP_DATA, c.page_lsn, HeapHeaderSize, no)

SlotNames == {"tuple_offset", "tuple_length", "state", "aux"}

(* The directory of a heap page, and the record that is encoded with it. *)
HeapEntries(c) == DirectoryFields(0..(c.header.slot_count - 1))

HeapSlots(c) == [e \in DOMAIN HeapEntries(c) |-> c.slots[e[1]][e[2]]]

LEMMA DirectoryDomain ==
    ASSUME NEW n \in Nat
    PROVE  /\ DOMAIN DirectoryFields(0..(n - 1)) = (0..(n - 1)) \X SlotNames
           /\ \A e \in (0..(n - 1)) \X SlotNames :
                 /\ DirectoryFields(0..(n - 1))[e] = SlotFields(e[1])[e[2]]
                 /\ DirectoryFields(0..(n - 1))[e][2] = HalfSize
<1> DEFINE slots == 0..(n - 1)
<1>1. DOMAIN DirectoryFields(slots) = slots \X SlotNames
  BY SlotFieldsAt DEF DirectoryFields, SlotNames
<1>2. \A e \in DOMAIN DirectoryFields(slots) : DirectoryFields(slots)[e] = SlotFields(e[1])[e[2]]
  BY DEF DirectoryFields
<1>3. ASSUME NEW s \in slots, NEW a \in SlotNames PROVE SlotFields(s)[a][2] = HalfSize
  <2>1. s \in Nat /\ a \in {"tuple_offset", "tuple_length", "state", "aux"}
    BY DEF SlotNames
  <2>2. /\ SlotFields(s)["tuple_offset"] = <<HeapHeaderSize + s * SlotSize, HalfSize>>
        /\ SlotFields(s)["tuple_length"] = <<HeapHeaderSize + s * SlotSize + HalfSize, HalfSize>>
        /\ SlotFields(s)["state"] = <<HeapHeaderSize + s * SlotSize + 2 * HalfSize, HalfSize>>
        /\ SlotFields(s)["aux"] = <<HeapHeaderSize + s * SlotSize + 3 * HalfSize, HalfSize>>
    BY <2>1, SlotFieldsAt
  <2> QED
    BY <2>1, <2>2
<1> HIDE DEF slots
<1>4. ASSUME NEW e \in slots \X SlotNames
      PROVE  /\ DirectoryFields(slots)[e] = SlotFields(e[1])[e[2]]
             /\ DirectoryFields(slots)[e][2] = HalfSize
  <2>1. e[1] \in slots /\ e[2] \in SlotNames
    OBVIOUS
  <2>2. SlotFields(e[1])[e[2]][2] = HalfSize
    BY <1>3, <2>1
  <2> QED
    BY <1>1, <1>2, <2>2
<1> QED
  BY <1>1, <1>4 DEF slots

LEMMA HeapTypes ==
    ASSUME NEW c, IsHeapContent(c), NEW no \in 0..INVALID_PAGE_NO
    PROVE  /\ HeapCommon(no, c) \in CommonHeaders
           /\ DOMAIN HeapFields = {"slot_count", "free_slot_head", "lower", "upper", "prune_hint",
                                   "reserved"}
           /\ \A f \in DOMAIN HeapFields : c.header[f] \in 0..MaxOf(HeapFields[f][2])
           /\ c.header.slot_count \in Nat
           /\ DOMAIN c.slots = 0..(c.header.slot_count - 1)
           /\ \A e \in DOMAIN HeapEntries(c) : HeapSlots(c)[e] \in 0..MaxOf(HeapEntries(c)[e][2])
           /\ c.header.lower = HeapHeaderSize + c.header.slot_count * SlotSize
           /\ c.header.lower \in HeapHeaderSize..PageSize
<1> DEFINE n == c.header.slot_count
<1>1. /\ c.page_lsn \in 0..MaxOf(2 * WordSize)
      /\ c.header \in [slot_count : 0..MaxOf(HalfSize), free_slot_head : 0..MaxOf(HalfSize),
                       lower : 0..MaxOf(HalfSize), upper : 0..MaxOf(HalfSize),
                       prune_hint : 0..MaxOf(WordSize), reserved : {0}]
      /\ c.slots \in [0..(n - 1) ->
                         [tuple_offset : 0..MaxOf(HalfSize), tuple_length : 0..MaxOf(HalfSize),
                          state : 0..3, aux : 0..MaxOf(HalfSize)]]
      /\ ValidateHeapHeaderGeometry(c.header)
  BY DEF IsHeapContent
<1>2. HeapCommon(no, c) \in CommonHeaders
  <2>1. /\ HEAP_DATA \in 0..2 /\ HeapHeaderSize \in 0..PageSize /\ no \in 0..MaxOf(2 * WordSize)
    BY Sizes, PageRoom, Widths DEF HEAP_DATA
  <2> QED
    BY <1>1, <2>1, CommonHeaderType DEF HeapCommon
<1>3. DOMAIN HeapFields = {"slot_count", "free_slot_head", "lower", "upper", "prune_hint", "reserved"}
  BY DEF HeapFields
<1>4. ASSUME NEW f \in DOMAIN HeapFields PROVE c.header[f] \in 0..MaxOf(HeapFields[f][2])
  <2>1. /\ HeapFields["slot_count"][2] = HalfSize /\ HeapFields["free_slot_head"][2] = HalfSize
        /\ HeapFields["lower"][2] = HalfSize /\ HeapFields["upper"][2] = HalfSize
        /\ HeapFields["prune_hint"][2] = WordSize /\ HeapFields["reserved"][2] = WordSize
    BY DEF HeapFields
  <2>2. /\ c.header["slot_count"] \in 0..MaxOf(HalfSize)
        /\ c.header["free_slot_head"] \in 0..MaxOf(HalfSize)
        /\ c.header["lower"] \in 0..MaxOf(HalfSize) /\ c.header["upper"] \in 0..MaxOf(HalfSize)
        /\ c.header["prune_hint"] \in 0..MaxOf(WordSize) /\ c.header["reserved"] = 0
    BY <1>1
  <2>3. 0 \in 0..MaxOf(WordSize)
    BY Widths
  <2> QED
    BY <1>3, <2>1, <2>2, <2>3
<1>5. n \in Nat
  BY <1>1
<1>6. DOMAIN c.slots = 0..(n - 1)
  BY <1>1
<1>7. ASSUME NEW e \in DOMAIN HeapEntries(c)
      PROVE  HeapSlots(c)[e] \in 0..MaxOf(HeapEntries(c)[e][2])
  <2>1. e \in (0..(n - 1)) \X SlotNames
    BY <1>5, DirectoryDomain DEF HeapEntries
  <2>2. HeapEntries(c)[e][2] = HalfSize
    BY <1>5, <2>1, DirectoryDomain DEF HeapEntries
  <2> DEFINE s == e[1]
             a == e[2]
  <2>3. s \in 0..(n - 1) /\ a \in {"tuple_offset", "tuple_length", "state", "aux"}
    BY <2>1 DEF SlotNames
  <2>4. HeapSlots(c)[e] = c.slots[s][a]
    BY DEF HeapSlots
  <2> HIDE DEF s, a
  <2>5. c.slots[s] \in [tuple_offset : 0..MaxOf(HalfSize), tuple_length : 0..MaxOf(HalfSize),
                        state : 0..3, aux : 0..MaxOf(HalfSize)]
    BY <1>1, <2>3
  <2>6. \A x \in 0..3 : x \in 0..MaxOf(HalfSize)
    BY Widths
  <2>7. c.slots[s][a] \in 0..MaxOf(HalfSize)
    BY <2>3, <2>5, <2>6
  <2> QED
    BY <2>2, <2>4, <2>7
<1>8. /\ c.header.lower = HeapHeaderSize + n * SlotSize
      /\ c.header.lower \in HeapHeaderSize..PageSize
  <2>1. HeapHeaderSize \in Nat /\ n * SlotSize \in Nat
    BY <1>5, Sizes, SlotFieldsAt
  <2>2. /\ c.header.lower = HeapHeaderSize + n * SlotSize
        /\ c.header.lower =< c.header.upper /\ c.header.upper =< PageSize
        /\ c.header.lower \in Nat /\ c.header.upper \in Nat /\ PageSize \in Nat
    BY <1>1, PageRoom DEF ValidateHeapHeaderGeometry
  <2> QED
    BY <2>1, <2>2
<1> QED
  BY <1>2, <1>3, <1>4, <1>5, <1>6, <1>7, <1>8

LEMMA HeapLayers ==
    ASSUME NEW c, IsHeapContent(c), NEW no \in 0..INVALID_PAGE_NO
    PROVE  /\ HeapPageBytes(no, c) \in Page
           /\ \A k \in 1..CommonSize :
                 HeapPageBytes(no, c)[k] = EncodeFields(CommonFields, HeapCommon(no, c), Zeroes(PageSize))[k]
           /\ \A k \in (CommonSize + 1)..HeapHeaderSize :
                 HeapPageBytes(no, c)[k] = EncodeFields(HeapFields, c.header, Zeroes(PageSize))[k]
           /\ \A k \in (HeapHeaderSize + 1)..c.header.lower :
                 HeapPageBytes(no, c)[k] = EncodeFields(HeapEntries(c), HeapSlots(c), Zeroes(PageSize))[k]
<1> DEFINE start == InitializePage(HeapCommon(no, c))
           header == c.header
           middle == EncodeFields(HeapFields, header, start)
           entries == HeapEntries(c)
           slots == HeapSlots(c)
           lower == c.header.lower
           final == EncodeFields(entries, slots, middle)
<1>1. /\ CommonSize \in Nat /\ PageSize \in Nat /\ CommonSize < HeapHeaderSize
      /\ HeapHeaderSize \in 0..PageSize /\ lower \in 0..PageSize /\ HeapHeaderSize =< lower
      /\ HeapHeaderSize \in Nat
  BY Sizes, PageRoom, HeapTypes
<1>2. HeapPageBytes(no, c) = final
  <2>1. DirectoryFields(DOMAIN c.slots) = entries
    BY HeapTypes DEF HeapEntries
  <2> QED
    BY <2>1 DEF HeapPageBytes, HeapSlots, HeapCommon
<1>3. /\ start \in Page
      /\ \A k \in 1..CommonSize :
            start[k] = EncodeFields(CommonFields, HeapCommon(no, c), Zeroes(PageSize))[k]
  BY HeapTypes, InitializedAt
<1>4. Tiles(HeapFields, CommonSize, HeapHeaderSize) /\ Tiles(entries, HeapHeaderSize, lower)
  BY HeapTable, HeapTypes, DirectoryTable DEF HeapEntries
<1>5. \A f \in DOMAIN HeapFields : header[f] \in Int
  <2> SUFFICES ASSUME NEW f \in DOMAIN HeapFields PROVE header[f] \in Int
    OBVIOUS
  <2>1. header[f] \in 0..MaxOf(HeapFields[f][2])
    BY HeapTypes
  <2> HIDE DEF header
  <2> QED
    BY <2>1
<1>6. \A e \in DOMAIN entries : slots[e] \in Int
  <2> SUFFICES ASSUME NEW e \in DOMAIN entries PROVE slots[e] \in Int
    OBVIOUS
  <2>1. slots[e] \in 0..MaxOf(entries[e][2])
    BY HeapTypes
  <2> HIDE DEF slots
  <2> QED
    BY <2>1
<1> HIDE DEF start, header, entries, slots, lower
<1>50. /\ start \in Page /\ CommonSize \in Nat /\ HeapHeaderSize \in Nat /\ PageSize \in Nat
       /\ HeapHeaderSize \in 0..PageSize
  BY <1>1, <1>3
<1>51. HeapHeaderSize \in Nat /\ lower \in 0..PageSize
  BY <1>1
<1>7. middle \in Page
  BY <1>4, <1>5, <1>50, LayerAt
<1>52. HoldsIntegers(HeapFields, header)
  BY <1>5 DEF HoldsIntegers
<1>8. \A k \in (CommonSize + 1)..HeapHeaderSize :
         middle[k] = EncodeFields(HeapFields, header, Zeroes(PageSize))[k]
  <2>1. ASSUME NEW k \in (CommonSize + 1)..HeapHeaderSize
        PROVE  EncodeFields(HeapFields, header, start)[k]
                  = EncodeFields(HeapFields, header, Zeroes(PageSize))[k]
    BY <1>4, <1>52, <1>50, <2>1, LayerInside
  <2> QED
    BY <2>1
<1>9. \A k \in 1..PageSize : k =< CommonSize \/ k > HeapHeaderSize => middle[k] = start[k]
  <2>1. \A k \in 1..PageSize : k =< CommonSize \/ k > HeapHeaderSize
           => EncodeFields(HeapFields, header, start)[k] = start[k]
    BY <1>4, <1>50, LayerBeyond
  <2> QED
    BY <2>1
<1> HIDE DEF middle
<1>10. final \in Page
  BY <1>4, <1>6, <1>7, <1>51, LayerAt
<1>11. \A k \in (HeapHeaderSize + 1)..lower :
          final[k] = EncodeFields(entries, slots, Zeroes(PageSize))[k]
  BY <1>4, <1>6, <1>7, <1>51, LayerAt
<1>12. \A k \in 1..PageSize : k =< HeapHeaderSize \/ k > lower => final[k] = middle[k]
  BY <1>4, <1>6, <1>7, <1>51, LayerAt
<1> HIDE DEF final
<1>13. ASSUME NEW k \in 1..CommonSize
       PROVE  final[k] = EncodeFields(CommonFields, HeapCommon(no, c), Zeroes(PageSize))[k]
  <2>1. k \in 1..PageSize /\ k =< CommonSize /\ k =< HeapHeaderSize
    BY <1>1
  <2> QED
    BY <1>3, <1>9, <1>12, <2>1
<1>14. ASSUME NEW k \in (CommonSize + 1)..HeapHeaderSize
       PROVE  final[k] = EncodeFields(HeapFields, header, Zeroes(PageSize))[k]
  <2>1. k \in 1..PageSize /\ k =< HeapHeaderSize
    BY <1>1
  <2> QED
    BY <1>8, <1>12, <2>1
<1> QED
  BY <1>2, <1>10, <1>11, <1>13, <1>14 DEF header, entries, slots, lower

FsmCommon(no, c) == CommonPageHeader(FSM_DATA, c.page_lsn, FsmHeaderSize, no)

FsmHeader(no, c) ==
    [first_heap_page_no |-> FirstHeapPageForFsmPage(no), entry_count |-> Len(c.entries),
     reserved16 |-> 0, reserved32 |-> 0]

LEMMA FirstHeapPageType ==
    ASSUME NEW no \in 0..INVALID_PAGE_NO
    PROVE  FirstHeapPageForFsmPage(no) \in 0..INVALID_PAGE_NO
<1> DEFINE limit == INVALID_PAGE_NO - 1
<1>1. INVALID_PAGE_NO \in Nat /\ limit \in Nat /\ Capacity \in Nat \ {0}
  BY Widths, PageRoom, Sizes DEF Capacity
<1>2. CASE no \in {0, INVALID_PAGE_NO} \/ no - 1 > limit \div Capacity
  BY <1>1, <1>2 DEF FirstHeapPageForFsmPage
<1>3. CASE ~(no \in {0, INVALID_PAGE_NO} \/ no - 1 > limit \div Capacity)
  <2> DEFINE q == limit \div Capacity
  <2>1. FirstHeapPageForFsmPage(no) = 1 + (no - 1) * Capacity
    BY <1>3 DEF FirstHeapPageForFsmPage
  <2>2. q \in Nat /\ q * Capacity =< limit
    <3>1. q \in Nat /\ limit % Capacity \in 0..(Capacity - 1) /\ limit = q * Capacity + (limit % Capacity)
      BY <1>1, DivMod
    <3>2. q * Capacity \in Nat
      BY <1>1, <3>1
    <3> HIDE DEF q, limit
    <3> QED
      BY <1>1, <3>1, <3>2
  <2>3. no - 1 \in 0..q
    BY <1>1, <1>3, <2>2
  <2> HIDE DEF q, limit
  <2> DEFINE x == no - 1
  <2>4. x * Capacity \in Nat /\ x * Capacity =< q * Capacity
    <3>1. x \in Nat /\ q - x \in Nat
      BY <2>2, <2>3
    <3> HIDE DEF x
    <3>2. x * Capacity \in Nat /\ (q - x) * Capacity \in Nat
      BY <1>1, <3>1
    <3>3. (q - x) * Capacity = q * Capacity - x * Capacity
      BY <1>1, <2>2, <3>1
    <3> QED
      BY <1>1, <2>2, <3>2, <3>3
  <2>5. q * Capacity \in Nat
    BY <1>1, <2>2
  <2>6. FirstHeapPageForFsmPage(no) = 1 + x * Capacity
    BY <2>1
  <2> HIDE DEF x
  <2> QED
    BY <1>1, <2>2, <2>4, <2>5, <2>6 DEF limit
<1> QED
  BY <1>2, <1>3

LEMMA FsmTypes ==
    ASSUME NEW c, IsFsmContent(c), Len(c.entries) =< Capacity, NEW no \in 0..INVALID_PAGE_NO
    PROVE  /\ FsmCommon(no, c) \in CommonHeaders
           /\ \A f \in DOMAIN FsmFields : FsmHeader(no, c)[f] \in 0..MaxOf(FsmFields[f][2])
           /\ Len(c.entries) \in Nat /\ c.entries \in [1..Len(c.entries) -> Byte]
           /\ FsmHeaderSize + Len(c.entries) =< PageSize
<1>1. c.page_lsn \in 0..MaxOf(2 * WordSize) /\ c.entries \in Seq(Byte)
  BY DEF IsFsmContent
<1>2. FsmCommon(no, c) \in CommonHeaders
  <2>1. /\ FSM_DATA \in 0..2 /\ FsmHeaderSize \in 0..PageSize /\ no \in 0..MaxOf(2 * WordSize)
    BY Sizes, PageRoom, Widths DEF FSM_DATA
  <2> QED
    BY <1>1, <2>1, CommonHeaderType DEF FsmCommon
<1>3. /\ Len(c.entries) \in Nat /\ c.entries \in [1..Len(c.entries) -> Byte]
  BY <1>1
<1>4. FsmHeaderSize + Len(c.entries) =< PageSize
  BY <1>3, PageRoom, Sizes DEF Capacity
<1>5. ASSUME NEW f \in DOMAIN FsmFields PROVE FsmHeader(no, c)[f] \in 0..MaxOf(FsmFields[f][2])
  <2>1. /\ f \in {"first_heap_page_no", "entry_count", "reserved16", "reserved32"}
        /\ FsmFields["first_heap_page_no"][2] = 2 * WordSize /\ FsmFields["entry_count"][2] = HalfSize
        /\ FsmFields["reserved16"][2] = HalfSize /\ FsmFields["reserved32"][2] = WordSize
    BY DEF FsmFields
  <2>2. /\ FsmHeader(no, c)["first_heap_page_no"] = FirstHeapPageForFsmPage(no)
        /\ FsmHeader(no, c)["entry_count"] = Len(c.entries)
        /\ FsmHeader(no, c)["reserved16"] = 0 /\ FsmHeader(no, c)["reserved32"] = 0
    BY DEF FsmHeader
  <2>3. /\ FirstHeapPageForFsmPage(no) \in 0..MaxOf(2 * WordSize)
        /\ Len(c.entries) \in 0..MaxOf(HalfSize)
        /\ 0 \in 0..MaxOf(HalfSize) /\ 0 \in 0..MaxOf(WordSize)
    <3>1. FirstHeapPageForFsmPage(no) \in 0..MaxOf(2 * WordSize)
      BY FirstHeapPageType, Widths
    <3>2. Len(c.entries) \in 0..MaxOf(HalfSize)
      BY <1>3, <1>4, PageRoom, Sizes, Widths
    <3> QED
      BY <3>1, <3>2, Widths
  <2> QED
    BY <2>1, <2>2, <2>3
<1> QED
  BY <1>2, <1>3, <1>4, <1>5

LEMMA FsmOver ==
    ASSUME NEW record, NEW bytes \in Page
    PROVE  \A k \in 1..PageSize : k =< CommonSize \/ k > FsmHeaderSize
              => EncodeFields(FsmFields, record, bytes)[k] = bytes[k]
<1>1. CommonSize \in Nat /\ FsmHeaderSize \in 0..PageSize
  BY Sizes, PageRoom
<1>2. Tiles(FsmFields, CommonSize, FsmHeaderSize)
  BY FsmTable
<1> QED
  BY <1>1, <1>2, LayerBeyond

LEMMA FsmLayers ==
    ASSUME NEW c, IsFsmContent(c), Len(c.entries) =< Capacity, NEW no \in 0..INVALID_PAGE_NO
    PROVE  /\ FsmPageBytes(no, c) \in Page
           /\ \A k \in 1..CommonSize :
                 FsmPageBytes(no, c)[k] = EncodeFields(CommonFields, FsmCommon(no, c), Zeroes(PageSize))[k]
           /\ \A k \in (CommonSize + 1)..FsmHeaderSize :
                 FsmPageBytes(no, c)[k] = EncodeFields(FsmFields, FsmHeader(no, c), Zeroes(PageSize))[k]
           /\ \A k \in (FsmHeaderSize + 1)..(FsmHeaderSize + Len(c.entries)) :
                 FsmPageBytes(no, c)[k] = c.entries[k - FsmHeaderSize]
           /\ \A k \in (FsmHeaderSize + Len(c.entries) + 1)..PageSize : FsmPageBytes(no, c)[k] = 0
<1> DEFINE start == InitializePage(FsmCommon(no, c))
           header == FsmHeader(no, c)
           middle == EncodeFields(FsmFields, header, start)
           entries == c.entries
           count == Len(c.entries)
           final == Overwrite(middle, FsmHeaderSize, entries)
<1>1. /\ CommonSize \in Nat /\ PageSize \in Nat /\ CommonSize < FsmHeaderSize
      /\ FsmHeaderSize \in 0..PageSize /\ FsmHeaderSize \in Nat
      /\ count \in Nat /\ FsmHeaderSize + count =< PageSize /\ entries \in [1..count -> Byte]
  BY Sizes, PageRoom, FsmTypes
<1>2. FsmPageBytes(no, c) = final
  BY DEF FsmPageBytes, FsmHeader, FsmCommon
<1>3. /\ start \in Page
      /\ \A k \in 1..CommonSize :
            start[k] = EncodeFields(CommonFields, FsmCommon(no, c), Zeroes(PageSize))[k]
      /\ \A k \in (CommonSize + 1)..PageSize : start[k] = 0
  BY FsmTypes, InitializedAt
<1>4. Tiles(FsmFields, CommonSize, FsmHeaderSize)
  BY FsmTable
<1>5. \A f \in DOMAIN FsmFields : header[f] \in Int
  <2> SUFFICES ASSUME NEW f \in DOMAIN FsmFields PROVE header[f] \in Int
    OBVIOUS
  <2>1. header[f] \in 0..MaxOf(FsmFields[f][2])
    BY FsmTypes
  <2> HIDE DEF header
  <2> QED
    BY <2>1
<1> HIDE DEF start, header, entries, count
<1>6. /\ start \in Page /\ CommonSize \in Nat /\ FsmHeaderSize \in Nat /\ PageSize \in Nat
      /\ FsmHeaderSize \in 0..PageSize
  BY <1>1, <1>3
<1>7. middle \in Page
  BY <1>4, <1>5, <1>6, LayerAt
<1>52. HoldsIntegers(FsmFields, header)
  BY <1>5 DEF HoldsIntegers
<1>8. \A k \in (CommonSize + 1)..FsmHeaderSize :
         middle[k] = EncodeFields(FsmFields, header, Zeroes(PageSize))[k]
  <2>1. ASSUME NEW k \in (CommonSize + 1)..FsmHeaderSize
        PROVE  EncodeFields(FsmFields, header, start)[k]
                  = EncodeFields(FsmFields, header, Zeroes(PageSize))[k]
    BY <1>4, <1>52, <1>6, <2>1, LayerInside
  <2> QED
    BY <2>1
<1>9. \A k \in 1..PageSize : k =< CommonSize \/ k > FsmHeaderSize => middle[k] = start[k]
  <2>1. CommonSize \in Nat /\ FsmHeaderSize \in 0..PageSize /\ start \in Page
    BY <1>6
  <2>2. \A k \in 1..PageSize : k =< CommonSize \/ k > FsmHeaderSize
           => EncodeFields(FsmFields, header, start)[k] = start[k]
    BY <2>1, FsmOver
  <2> QED
    BY <2>2
<1> HIDE DEF middle
<1>10. /\ final \in [1..PageSize -> Byte]
       /\ \A k \in 1..PageSize : k \in (FsmHeaderSize + 1)..(FsmHeaderSize + count)
             => final[k] = entries[k - FsmHeaderSize]
       /\ \A k \in 1..PageSize : k \notin (FsmHeaderSize + 1)..(FsmHeaderSize + count)
             => final[k] = middle[k]
  <2>1. middle \in [1..PageSize -> Byte]
    BY <1>7 DEF Page
  <2> QED
    BY <1>1, <2>1, OverwriteAt
<1> HIDE DEF final
<1>11. ASSUME NEW k \in 1..CommonSize
       PROVE  final[k] = EncodeFields(CommonFields, FsmCommon(no, c), Zeroes(PageSize))[k]
  <2>1. k \in 1..PageSize /\ k =< CommonSize /\ k \notin (FsmHeaderSize + 1)..(FsmHeaderSize + count)
    BY <1>1
  <2> QED
    BY <1>3, <1>9, <1>10, <2>1
<1>12. ASSUME NEW k \in (CommonSize + 1)..FsmHeaderSize
       PROVE  final[k] = EncodeFields(FsmFields, header, Zeroes(PageSize))[k]
  <2>1. k \in 1..PageSize /\ k \notin (FsmHeaderSize + 1)..(FsmHeaderSize + count)
    BY <1>1
  <2> QED
    BY <1>8, <1>10, <2>1
<1>13. ASSUME NEW k \in (FsmHeaderSize + 1)..(FsmHeaderSize + count)
       PROVE  final[k] = entries[k - FsmHeaderSize]
  <2>1. k \in 1..PageSize
    BY <1>1
  <2> QED
    BY <1>10, <2>1
<1>14. ASSUME NEW k \in (FsmHeaderSize + count + 1)..PageSize PROVE final[k] = 0
  <2>1. /\ k \in 1..PageSize /\ k > FsmHeaderSize /\ k \in (CommonSize + 1)..PageSize
        /\ k \notin (FsmHeaderSize + 1)..(FsmHeaderSize + count)
    BY <1>1
  <2> QED
    BY <1>3, <1>9, <1>10, <2>1
<1> QED
  BY <1>2, <1>10, <1>11, <1>12, <1>13, <1>14 DEF Page, header, entries, count

-----------------------------------------------------------------------------
(* What is written for a page. *)

(* The page as encoded, whatever its checksum, and its common header. *)
EncodedPage(no, c) ==
    IF c.owner = "FILE" THEN FileBytes(c)
    ELSE IF c.owner = "HEAP" THEN HeapPageBytes(no, c) ELSE FsmPageBytes(no, c)

EncodedCommon(no, c) ==
    IF c.owner = "FILE" THEN FileCommon(c)
    ELSE IF c.owner = "HEAP" THEN HeapCommon(no, c) ELSE FsmCommon(no, c)

LEMMA OwnedContent ==
    ASSUME NEW c \in Contents, NEW no, Owns(c, no)
    PROVE  \/ /\ c.owner = "FILE" /\ IsFileContent(c)
              /\ no = 0 /\ IsSupportedGenericFileKind(c.file_kind)
           \/ /\ c.owner = "HEAP" /\ IsHeapContent(c)
              /\ no \notin {0, INVALID_PAGE_NO}
           \/ /\ c.owner = "FSM" /\ IsFsmContent(c) /\ Len(c.entries) =< Capacity
              /\ FirstHeapPageForFsmPage(no) # INVALID_PAGE_NO
              /\ InitializedRangeFits(FirstHeapPageForFsmPage(no), Len(c.entries))
<1>1. \/ c.owner = "FILE" /\ IsFileContent(c)
      \/ c.owner = "HEAP" /\ IsHeapContent(c)
      \/ c.owner = "FSM" /\ IsFsmContent(c)
  BY ContentsAssumption
<1> QED
  BY <1>1 DEF Owns

LEMMA EncodedPageAt ==
    ASSUME NEW c \in Contents, NEW no \in 0..(INVALID_PAGE_NO - 1), Owns(c, no)
    PROVE  /\ EncodedPage(no, c) \in Page
           /\ EncodedCommon(no, c) \in CommonHeaders
           /\ EncodedCommon(no, c).page_no = no
           /\ \A k \in 1..CommonSize : EncodedPage(no, c)[k]
                 = EncodeFields(CommonFields, EncodedCommon(no, c), Zeroes(PageSize))[k]
<1>1. no \in 0..INVALID_PAGE_NO
  BY Widths
<1>2. CASE c.owner = "FILE"
  <2>1. IsFileContent(c) /\ no = 0
    BY <1>2, OwnedContent
  <2>2. EncodedPage(no, c) = FileBytes(c) /\ EncodedCommon(no, c) = FileCommon(c)
    BY <1>2 DEF EncodedPage, EncodedCommon
  <2>3. FileCommon(c).page_no = no
    BY <2>1 DEF FileCommon, CommonPageHeader
  <2> QED
    BY <2>1, <2>2, <2>3, FileTypes, FileLayers
<1>3. CASE c.owner = "HEAP"
  <2>1. IsHeapContent(c)
    BY <1>3, OwnedContent
  <2>2. EncodedPage(no, c) = HeapPageBytes(no, c) /\ EncodedCommon(no, c) = HeapCommon(no, c)
    BY <1>3 DEF EncodedPage, EncodedCommon
  <2>3. HeapCommon(no, c).page_no = no
    BY DEF HeapCommon, CommonPageHeader
  <2> QED
    BY <1>1, <2>1, <2>2, <2>3, HeapTypes, HeapLayers
<1>4. CASE c.owner = "FSM"
  <2>1. IsFsmContent(c) /\ Len(c.entries) =< Capacity
    BY <1>4, OwnedContent
  <2>2. EncodedPage(no, c) = FsmPageBytes(no, c) /\ EncodedCommon(no, c) = FsmCommon(no, c)
    BY <1>4 DEF EncodedPage, EncodedCommon
  <2>3. FsmCommon(no, c).page_no = no
    BY DEF FsmCommon, CommonPageHeader
  <2> QED
    BY <1>1, <2>1, <2>2, <2>3, FsmTypes, FsmLayers
<1> QED
  BY <1>2, <1>3, <1>4, OwnedContent

LEMMA WrittenAt ==
    ASSUME NEW c \in Contents, NEW no \in 0..(INVALID_PAGE_NO - 1), Owns(c, no),
           NEW checksum \in [1..WordSize -> Byte]
    PROVE  /\ Written(no, c, checksum) \in Page
           /\ VerifyPageChecksum(Written(no, c, checksum))
           /\ \A k \in 1..PageSize :
                 InChecksum(k) \/ Written(no, c, checksum)[k] = EncodedPage(no, c)[k]
<1>1. CASE c.owner = "FILE"
  <2>1. IsFileContent(c)
    BY <1>1, OwnedContent
  <2>2. /\ Written(no, c, checksum) = FinalizePageChecksum(FileBytes(c))
        /\ FileBytes(c) \in Page /\ EncodedPage(no, c) = FileBytes(c)
    BY <1>1, <2>1, FileLayers DEF Written, EncodedPage
  <2> QED
    BY <2>2, Finalized
<1>2. CASE c.owner # "FILE"
  <2> DEFINE page == EncodedPage(no, c)
             resident == Overwrite(page, ChecksumOffset, checksum)
  <2>1. /\ Written(no, c, checksum) = FinalizePageChecksum(resident)
    BY <1>2 DEF Written, Resident, EncodedPage
  <2>2. /\ page \in Page /\ page \in [1..PageSize -> Byte] /\ PageSize \in Nat
        /\ ChecksumOffset \in Nat /\ WordSize \in Nat
    BY EncodedPageAt, PageRoom, Sizes DEF Page
  <2> HIDE DEF page
  <2>3. /\ resident \in [1..PageSize -> Byte]
        /\ \A k \in 1..PageSize : k \notin (ChecksumOffset + 1)..(ChecksumOffset + WordSize)
              => resident[k] = page[k]
    BY <2>2, OverwriteAt
  <2> HIDE DEF resident
  <2>4. resident \in Page /\ \A k \in 1..PageSize : InChecksum(k) \/ resident[k] = page[k]
    BY <2>2, <2>3, ChecksumAt DEF Page
  <2>5. /\ FinalizePageChecksum(resident) \in Page
        /\ \A k \in 1..PageSize : InChecksum(k) \/ FinalizePageChecksum(resident)[k] = resident[k]
        /\ VerifyPageChecksum(FinalizePageChecksum(resident))
    BY <2>4, Finalized
  <2> QED
    BY <2>1, <2>4, <2>5 DEF page
<1> QED
  BY <1>1, <1>2

LEMMA WrittenHeader ==
    ASSUME NEW c \in Contents, NEW no \in 0..(INVALID_PAGE_NO - 1), Owns(c, no),
           NEW page \in Page,
           \A k \in 1..PageSize : InChecksum(k) \/ page[k] = EncodedPage(no, c)[k]
    PROVE  /\ DecodeCommonPageHeader(page)
                 = [EncodedCommon(no, c) EXCEPT
                       !.checksum_crc32c = DecodeCommonPageHeader(page).checksum_crc32c]
           /\ DecodeCommonPageHeader(page).page_no = no
<1> DEFINE header == EncodedCommon(no, c)
<1>1. header \in CommonHeaders /\ header.page_no = no
  BY EncodedPageAt
<1>2. \A k \in 1..CommonSize :
         InChecksum(k) \/ page[k] = EncodeFields(CommonFields, header, Zeroes(PageSize))[k]
  <2> SUFFICES ASSUME NEW k \in 1..CommonSize, ~InChecksum(k)
               PROVE  page[k] = EncodeFields(CommonFields, header, Zeroes(PageSize))[k]
    OBVIOUS
  <2>1. k \in 1..PageSize
    BY PageRoom
  <2> QED
    BY <2>1, EncodedPageAt
<1> HIDE DEF header
<1>3. DecodeCommonPageHeader(page)
         = [header EXCEPT !.checksum_crc32c = DecodeCommonPageHeader(page).checksum_crc32c]
  BY <1>1, <1>2, CommonRead
<1>4. DecodeCommonPageHeader(page).page_no = no
  <2>1. "page_no" \in DOMAIN header
    BY <1>1, CommonDomain DEF CommonNames
  <2> DEFINE crc == DecodeCommonPageHeader(page).checksum_crc32c
  <2>2. [header EXCEPT !.checksum_crc32c = crc].page_no = header.page_no
    <3> HIDE DEF crc
    <3> QED
      BY <2>1
  <2> QED
    BY <1>1, <1>3, <2>2, Zenon
<1> QED
  BY <1>3, <1>4 DEF header

-----------------------------------------------------------------------------
(* Zeroes are not taken for a page. *)
LEMMA ZeroesRejected == ~VerifyPageChecksum(Zeroes(PageSize))
<1> DEFINE page == Zeroes(PageSize)
<1>1. page \in Page /\ \A k \in 1..PageSize : page[k] = 0
  BY ZeroPage
<1> HIDE DEF page
<1>2. WithoutChecksum(page) = page
  <2>1. WithoutChecksum(page) \in Page
        /\ \A k \in 1..PageSize : WithoutChecksum(page)[k] = page[k]
    BY <1>1, WithoutAt
  <2> QED
    BY <1>1, <2>1, SamePages
<1>3. StoredChecksum(page) = Zeroes(WordSize)
  <2>1. /\ StoredChecksum(page) \in [1..WordSize -> Byte]
        /\ \A k \in 1..WordSize : StoredChecksum(page)[k] = page[ChecksumOffset + k]
    BY <1>1, StoredAt
  <2>2. /\ Zeroes(WordSize) \in [1..WordSize -> Byte] /\ \A k \in 1..WordSize : Zeroes(WordSize)[k] = 0
        /\ WordSize \in Nat
    BY Sizes, ZeroesType
  <2>3. ASSUME NEW k \in 1..WordSize PROVE StoredChecksum(page)[k] = Zeroes(WordSize)[k]
    <3>1. ChecksumOffset + k \in 1..PageSize
      BY Sizes, PageRoom
    <3> QED
      BY <1>1, <2>1, <2>2, <3>1
  <2> QED
    BY <2>1, <2>2, <2>3, SameBytes
<1>4. DecodeLittleEndian(StoredChecksum(page)) = 0
  BY <1>3, Sizes, ZeroDecodes
<1>5. ComputePageChecksum(page) # 0
  BY <1>2, ChecksumAssumption DEF ComputePageChecksum, page
<1> QED
  BY <1>1, <1>4, <1>5, StoredAt DEF page

(* Neither is a page in which bits of one word have changed. *)
LEMMA XorChanges ==
    ASSUME NEW v \in Word, NEW bits \in 1..MaxOf(WordSize)
    PROVE  Xor(v, bits) \in Word /\ Xor(v, bits) # v
<1>1. bits \in Word /\ 0 \in Word
  BY WordFacts DEF Word
<1>2. Xor(v, bits) \in Word
  BY <1>1, XorBits
<1>3. ASSUME Xor(v, bits) = v PROVE FALSE
  <2>1. ASSUME NEW k \in 1..WordBits PROVE Bit(bits)[k] = Bit(0)[k]
    <3>1. Bit(v)[k] = IF Bit(v)[k] = Bit(bits)[k] THEN 0 ELSE 1
      BY <1>1, <1>3, XorBits
    <3>2. Bit(v)[k] \in {0, 1} /\ Bit(bits)[k] \in {0, 1}
      <4>1. ASSUME NEW w \in Word PROVE Bit(w)[k] \in {0, 1}
        <5>1. Bit(w)[k] \in 0..1
          BY BitType
        <5> QED
          BY <5>1
      <4> QED
        BY <1>1, <4>1
    <3>3. Bit(bits)[k] = 0
      BY <3>1, <3>2
    <3>4. Bit(0)[k] = 0
      <4>1. 0 \in 0..WordBits /\ WordBits \in Nat /\ 0 < Power(2, 0) /\ k \in (0 + 1)..WordBits
        BY WordFacts, PowerSteps
      <4> QED
        BY <4>1, DigitsBeyond DEF Bit
    <3> QED
      BY <3>3, <3>4
  <2>2. bits = 0
    BY <1>1, <2>1, SameBits
  <2> QED
    BY <2>2
<1> QED
  BY <1>2, <1>3

(* The page after bits of a word have changed. *)
Decayed(page, offset, bits) ==
    Overwrite(page, offset,
              EncodeLittleEndian(Xor(DecodeLittleEndian(Subspan(page, offset, WordSize)), bits), WordSize))

LEMMA DecayedAt ==
    ASSUME NEW page \in Page, NEW offset \in 0..(PageSize - WordSize), NEW bits \in 1..MaxOf(WordSize)
    PROVE  /\ Decayed(page, offset, bits) \in Page
           /\ \A k \in 1..PageSize : k \notin (offset + 1)..(offset + WordSize)
                 => Decayed(page, offset, bits)[k] = page[k]
           /\ \E k \in (offset + 1)..(offset + WordSize) : Decayed(page, offset, bits)[k] # page[k]
<1> DEFINE old == Subspan(page, offset, WordSize)
           v == DecodeLittleEndian(old)
           x == Xor(v, bits)
           new == EncodeLittleEndian(x, WordSize)
           final == Decayed(page, offset, bits)
<1>1. /\ PageSize \in Nat /\ WordSize \in Nat /\ offset \in Nat /\ offset + WordSize =< PageSize
      /\ page \in [1..PageSize -> Byte]
  BY PageRoom, Sizes DEF Page
<1>2. old \in [1..WordSize -> Byte] /\ \A k \in 1..WordSize : old[k] = page[offset + k]
  BY <1>1, SubspanAt
<1> HIDE DEF old
<1>3. v \in 0..MaxOf(WordSize) /\ EncodeLittleEndian(v, WordSize) = old
  BY <1>1, <1>2, BytesReadBack
<1> HIDE DEF v
<1>4. x \in 0..MaxOf(WordSize) /\ x # v
  BY <1>3, XorChanges DEF Word
<1> HIDE DEF x
<1>5. new \in [1..WordSize -> Byte] /\ DecodeLittleEndian(new) = x
  BY <1>1, <1>4, ValueReadBack
<1>6. DecodeLittleEndian(old) = v
  BY DEF v
<1>7. final = Overwrite(page, offset, new)
  BY DEF Decayed, new, x, v, old
<1> HIDE DEF new, final
<1>8. /\ final \in [1..PageSize -> Byte]
      /\ \A k \in 1..PageSize : k \in (offset + 1)..(offset + WordSize) => final[k] = new[k - offset]
      /\ \A k \in 1..PageSize : k \notin (offset + 1)..(offset + WordSize) => final[k] = page[k]
  BY <1>1, <1>5, <1>7, OverwriteAt
<1>9. \E k \in 1..WordSize : new[k] # old[k]
  <2> SUFFICES ASSUME \A k \in 1..WordSize : new[k] = old[k] PROVE FALSE
    OBVIOUS
  <2>1. new = old
    BY <1>1, <1>2, <1>5, SameBytes
  <2> QED
    BY <1>4, <1>5, <1>6, <2>1
<1>10. PICK k \in 1..WordSize : new[k] # old[k]
  BY <1>9
<1>11. /\ offset + k \in (offset + 1)..(offset + WordSize) /\ offset + k \in 1..PageSize
       /\ (offset + k) - offset = k
  BY <1>1
<1>12. final[offset + k] # page[offset + k]
  BY <1>2, <1>8, <1>10, <1>11
<1> QED
  BY <1>8, <1>11, <1>12 DEF final, Page

LEMMA DecayRejected ==
    ASSUME NEW page \in Page, VerifyPageChecksum(page), NEW offset \in WordOffsets,
           NEW bits \in 1..MaxOf(WordSize)
    PROVE  ~VerifyPageChecksum(Decayed(page, offset, bits))
<1> DEFINE final == Decayed(page, offset, bits)
<1>1. /\ PageSize \in Nat /\ WordSize \in Nat /\ offset \in 0..(PageSize - WordSize)
      /\ offset + WordSize =< PageSize /\ ChecksumOffset \in Nat /\ ChecksumOffset + WordSize =< PageSize
      /\ \/ offset = ChecksumOffset
         \/ offset + WordSize =< ChecksumOffset
         \/ offset >= ChecksumOffset + WordSize
  BY PageRoom, Sizes DEF WordOffsets
<1>2. /\ final \in Page
      /\ \A k \in 1..PageSize : k \notin (offset + 1)..(offset + WordSize) => final[k] = page[k]
      /\ \E k \in (offset + 1)..(offset + WordSize) : final[k] # page[k]
  BY <1>1, DecayedAt
<1> HIDE DEF final
<1> SUFFICES ASSUME VerifyPageChecksum(final) PROVE FALSE
  BY DEF final
<1>3. /\ DecodeLittleEndian(StoredChecksum(page)) = ComputePageChecksum(page)
      /\ DecodeLittleEndian(StoredChecksum(final)) = ComputePageChecksum(final)
  BY <1>2, StoredAt
<1>4. PICK k \in (offset + 1)..(offset + WordSize) : final[k] # page[k]
  BY <1>2
<1>5. CASE offset = ChecksumOffset
  <2>1. \A i \in 1..PageSize : InChecksum(i) \/ final[i] = page[i]
    BY <1>2, <1>5, ChecksumAt
  <2>2. ComputePageChecksum(final) = ComputePageChecksum(page)
    BY <1>2, <2>1, SameChecksum
  <2>3. /\ StoredChecksum(page) \in [1..WordSize -> Byte]
        /\ \A i \in 1..WordSize : StoredChecksum(page)[i] = page[ChecksumOffset + i]
        /\ StoredChecksum(final) \in [1..WordSize -> Byte]
        /\ \A i \in 1..WordSize : StoredChecksum(final)[i] = final[ChecksumOffset + i]
    BY <1>2, StoredAt
  <2>4. /\ EncodeLittleEndian(DecodeLittleEndian(StoredChecksum(page)), WordSize) = StoredChecksum(page)
        /\ EncodeLittleEndian(DecodeLittleEndian(StoredChecksum(final)), WordSize) = StoredChecksum(final)
    BY <1>1, <2>3, BytesReadBack
  <2>5. StoredChecksum(page) = StoredChecksum(final)
    BY <1>3, <2>2, <2>4, Zenon
  <2>6. k - ChecksumOffset \in 1..WordSize /\ ChecksumOffset + (k - ChecksumOffset) = k
    BY <1>1, <1>5
  <2>7. page[k] = final[k]
    BY <2>3, <2>5, <2>6
  <2> QED
    BY <1>4, <2>7
<1>6. CASE offset # ChecksumOffset
  <2>1. \A i \in (offset + 1)..(offset + WordSize) : i \in 1..PageSize /\ ~InChecksum(i)
    BY <1>1, <1>6, ChecksumAt
  <2> DEFINE a == WithoutChecksum(page)
             b == WithoutChecksum(final)
  <2>2. /\ a \in Page /\ b \in Page
        /\ \A i \in 1..PageSize : a[i] = IF InChecksum(i) THEN 0 ELSE page[i]
        /\ \A i \in 1..PageSize : b[i] = IF InChecksum(i) THEN 0 ELSE final[i]
    BY <1>2, WithoutAt
  <2>3. StoredChecksum(page) = StoredChecksum(final)
    <3>1. /\ StoredChecksum(page) \in [1..WordSize -> Byte]
          /\ \A i \in 1..WordSize : StoredChecksum(page)[i] = page[ChecksumOffset + i]
          /\ StoredChecksum(final) \in [1..WordSize -> Byte]
          /\ \A i \in 1..WordSize : StoredChecksum(final)[i] = final[ChecksumOffset + i]
      BY <1>2, StoredAt
    <3>2. ASSUME NEW i \in 1..WordSize PROVE page[ChecksumOffset + i] = final[ChecksumOffset + i]
      <4>1. /\ ChecksumOffset + i \in 1..PageSize
            /\ ChecksumOffset + i \notin (offset + 1)..(offset + WordSize)
        BY <1>1, <1>6
      <4> QED
        BY <1>2, <4>1
    <3>3. \A i \in 1..WordSize : StoredChecksum(page)[i] = StoredChecksum(final)[i]
      BY <3>1, <3>2
    <3> QED
      BY <1>1, <3>1, <3>3, SameBytes
  <2>4. Crc32c(a) = Crc32c(b)
    BY <1>3, <2>3 DEF ComputePageChecksum
  <2> HIDE DEF a, b
  <2>5. \A i \in 1..PageSize : i \notin (offset + 1)..(offset + WordSize) => a[i] = b[i]
    BY <1>2, <2>2
  <2>6. a = b
    <3>1. a \in [1..PageSize -> Byte] /\ b \in [1..PageSize -> Byte] /\ offset \in 0..PageSize
      BY <1>1, <2>2 DEF Page
    <3> QED
      BY <1>1, <2>4, <2>5, <3>1, BurstShows
  <2>7. page[k] = final[k]
    BY <2>1, <2>2, <2>6
  <2> QED
    BY <1>4, <2>7
<1> QED
  BY <1>5, <1>6

-----------------------------------------------------------------------------
(* The place of a page: what its bytes are worth, by what has happened to it. *)

ImageTypes ==
    /\ location \in 0..(INVALID_PAGE_NO - 1)
    /\ image \in Page \union {<< >>}
    /\ sent \in Page \union {<< >>}
    /\ lapse \in {"none", "media", "writer"}
    /\ image = << >> => sent = << >> /\ lapse = "none"

(* Only extended: zeroes. *)
ExtendedIsZero ==
    image # << >> /\ sent = << >> /\ lapse = "none" => image = Zeroes(PageSize)

(* Stored: as the owner of the location wrote it. *)
StoredIsWritten ==
    sent # << >> /\ lapse = "none" =>
       /\ image = sent
       /\ content \in Contents /\ Owns(content, location)
       /\ \E checksum \in [1..WordSize -> Byte] : image = Written(location, content, checksum)

(* Altered by a writer: that is what was sent. By the medium: it does not load. *)
LapsesShow ==
    /\ lapse = "writer" => image = sent
    /\ lapse = "media" => ~ValidateLoadedPage(location, image)

ImageInv == ImageTypes /\ ExtendedIsZero /\ StoredIsWritten /\ LapsesShow

LEMMA ImageInvInit == ImageInit => ImageInv
<1> SUFFICES ASSUME ImageInit PROVE ImageInv
  OBVIOUS
<1>1. INVALID_PAGE_NO \in Nat /\ 0 < INVALID_PAGE_NO
  BY Widths
<1> QED
  BY <1>1 DEF ImageInit, ImageInv, ImageTypes, ExtendedIsZero, StoredIsWritten, LapsesShow

LEMMA ImageInvNext == ImageInv /\ [ImageNext]_imageVars => ImageInv'
<1> SUFFICES ASSUME ImageInv, [ImageNext]_imageVars PROVE ImageInv'
  OBVIOUS
<1> USE DEF ImageInv
<1>0. << >> \notin Page
  BY EmptyIsNoPage
<1>1. ASSUME NEW no \in Locations, Extend(no) PROVE ImageInv'
  <2>1. /\ image = << >> /\ location' = no /\ image' = Zeroes(PageSize)
        /\ sent' = sent /\ content' = content /\ lapse' = lapse
    BY <1>1 DEF Extend
  <2>2. sent = << >> /\ lapse = "none"
    BY <2>1 DEF ImageTypes
  <2>3. no \in 0..(INVALID_PAGE_NO - 1)
    BY PageImageAssumption
  <2>4. image' \in Page
    BY <2>1, ZeroPage
  <2> QED
    BY <1>0, <2>1, <2>2, <2>3, <2>4 DEF ImageTypes, ExtendedIsZero, StoredIsWritten, LapsesShow
<1>2. ASSUME NEW c \in Contents, Store(c) PROVE ImageInv'
  <2> DEFINE checksum == Subspan(image, ChecksumOffset, WordSize)
  <2>1. /\ image # << >> /\ lapse = "none" /\ Owns(c, location)
        /\ image' = Written(location, c, checksum) /\ sent' = image' /\ content' = c
        /\ location' = location /\ lapse' = lapse
    BY <1>2 DEF Store
  <2>2. image \in Page /\ location \in 0..(INVALID_PAGE_NO - 1)
    BY <2>1 DEF ImageTypes
  <2>3. checksum \in [1..WordSize -> Byte]
    BY <2>2, StoredAt DEF StoredChecksum
  <2> HIDE DEF checksum
  <2>4. image' \in Page
    BY <2>1, <2>2, <2>3, WrittenAt
  <2>5. StoredIsWritten'
    BY <2>1, <2>3 DEF StoredIsWritten
  <2> QED
    BY <1>0, <2>1, <2>2, <2>4, <2>5 DEF ImageTypes, ExtendedIsZero, LapsesShow
<1>3. ASSUME NEW k \in 1..PageSize, NEW byte \in StrayBytes, StoreAltered(k, byte) PROVE ImageInv'
  <2> DEFINE altered == [image EXCEPT ![k] = byte]
  <2>1. /\ sent # << >> /\ lapse = "none" /\ image' = FinalizePageChecksum(altered)
        /\ sent' = image' /\ lapse' = "writer" /\ location' = location
    BY <1>3 DEF StoreAltered
  <2>2. image \in Page
    BY <2>1 DEF ImageTypes
  <2>3. altered \in Page
    BY <2>2, PageImageAssumption DEF Page
  <2> HIDE DEF altered
  <2>4. image' \in Page
    BY <2>1, <2>3, Finalized
  <2> QED
    BY <1>0, <2>1, <2>4 DEF ImageTypes, ExtendedIsZero, StoredIsWritten, LapsesShow
<1>4. ASSUME NEW no \in Locations, NEW c \in Contents, Misdirect(no, c) PROVE ImageInv'
  <2>1. /\ image # << >> /\ lapse = "none" /\ no # location /\ Owns(c, no)
        /\ image' = Written(no, c, Zeroes(WordSize))
        /\ lapse' = "media" /\ location' = location /\ sent' = sent
    BY <1>4 DEF Misdirect
  <2>2. no \in 0..(INVALID_PAGE_NO - 1) /\ Zeroes(WordSize) \in [1..WordSize -> Byte]
    BY PageImageAssumption, ZeroesType, Sizes
  <2>3. /\ image' \in Page
        /\ \A k \in 1..PageSize : InChecksum(k) \/ image'[k] = EncodedPage(no, c)[k]
    BY <2>1, <2>2, WrittenAt
  <2>4. DecodeCommonPageHeader(image').page_no = no
    BY <2>1, <2>2, <2>3, WrittenHeader
  <2>5. ~ValidateLoadedPage(location', image')
    BY <2>1, <2>4 DEF ValidateLoadedPage
  <2>6. LapsesShow'
    BY <2>1, <2>5 DEF LapsesShow
  <2> QED
    BY <1>0, <2>1, <2>3, <2>6 DEF ImageTypes, ExtendedIsZero, StoredIsWritten
<1>5. ASSUME NEW offset \in WordOffsets, NEW bits \in 1..MaxOf(WordSize), Decay(offset, bits)
      PROVE  ImageInv'
  <2>1. /\ sent # << >> /\ lapse = "none" /\ image' = Decayed(image, offset, bits)
        /\ lapse' = "media" /\ location' = location /\ sent' = sent
    BY <1>5 DEF Decay, Decayed
  <2>2. image \in Page /\ location \in 0..(INVALID_PAGE_NO - 1)
    BY <2>1 DEF ImageTypes
  <2>3. VerifyPageChecksum(image)
    BY <2>1, <2>2, WrittenAt DEF StoredIsWritten
  <2>4. image' \in Page
    <3>1. offset \in 0..(PageSize - WordSize)
      BY DEF WordOffsets
    <3> QED
      BY <2>1, <2>2, <3>1, DecayedAt
  <2>5. ~VerifyPageChecksum(image')
    BY <2>1, <2>2, <2>3, DecayRejected
  <2>6. ~ValidateLoadedPage(location', image')
    BY <2>5 DEF ValidateLoadedPage
  <2>7. LapsesShow'
    BY <2>1, <2>6 DEF LapsesShow
  <2> QED
    BY <1>0, <2>1, <2>4, <2>7 DEF ImageTypes, ExtendedIsZero, StoredIsWritten
<1>6. CASE UNCHANGED imageVars
  <2>1. /\ location' = location /\ image' = image /\ sent' = sent /\ content' = content
        /\ lapse' = lapse
    BY <1>6 DEF imageVars
  <2> QED
    BY <2>1 DEF ImageTypes, ExtendedIsZero, StoredIsWritten, LapsesShow
<1> QED
  BY <1>1, <1>2, <1>3, <1>4, <1>5, <1>6 DEF ImageNext

LEMMA ImageInvLoads == ImageInv => LoadsOnlyWhatWasStored
<1> SUFFICES ASSUME ImageInv, image # << >>, ValidateLoadedPage(location, image)
             PROVE  image = sent
  BY DEF LoadsOnlyWhatWasStored
<1>1. lapse # "media"
  BY DEF ImageInv, LapsesShow
<1>2. CASE lapse = "writer"
  BY <1>2 DEF ImageInv, LapsesShow
<1>3. CASE lapse = "none"
  <2>1. CASE sent = << >>
    BY <1>3, <2>1, ZeroesRejected DEF ImageInv, ExtendedIsZero, ValidateLoadedPage
  <2>2. CASE sent # << >>
    BY <1>3, <2>2 DEF ImageInv, StoredIsWritten
  <2> QED
    BY <2>1, <2>2
<1> QED
  BY <1>1, <1>2, <1>3 DEF ImageInv, ImageTypes

(* Between two steps the place holds zeroes, the page its owner wrote under a checksum that      *)
(* fits (WriteStableImage), what a writer has left under a checksum that fits, or a page that    *)
(* ValidateLoadedPage refuses.                                                                   *)
THEOREM ImageInvariant == ImageSpec => []ImageInv
<1>1. ImageInit => ImageInv
  BY ImageInvInit
<1>2. ImageInv /\ [ImageNext]_imageVars => ImageInv'
  BY ImageInvNext
<1> QED
  BY <1>1, <1>2, PTL DEF ImageSpec

(* BufferPool::ValidateLoadedPage lets through only what was last written for the page: an       *)
(* extension that was never written, a page of another number and a page in which bits within    *)
(* one word have changed all fail the checksum or the page number.                               *)
THEOREM LoadsAreStores == ImageSpec => []LoadsOnlyWhatWasStored
<1>1. ImageInv => LoadsOnlyWhatWasStored
  BY ImageInvLoads
<1> QED
  BY <1>1, ImageInvariant, PTL

-----------------------------------------------------------------------------
(* What is decoded, from whatever bytes. *)

LEMMA DecodedField ==
    ASSUME NEW fields, NEW low, NEW high \in 0..PageSize, Tiles(fields, low, high),
           NEW page \in Page, NEW f \in DOMAIN fields
    PROVE  DecodeFields(fields, page)[f] \in 0..MaxOf(fields[f][2])
<1>1. /\ IsTable(fields, high) /\ high \in Nat /\ PageSize \in Nat /\ high =< PageSize
      /\ page \in [1..PageSize -> Byte]
  BY PageRoom DEF Tiles, Page
<1> QED
  BY <1>1, DecodedType

LEMMA CommonDecoded ==
    ASSUME NEW page \in Page
    PROVE  DecodeCommonPageHeader(page) \in CommonHeaders
<1> DEFINE d == DecodeCommonPageHeader(page)
<1>1. ASSUME NEW f \in CommonNames PROVE d[f] \in 0..MaxOf(CommonFields[f][2])
  <2>1. f \in DOMAIN CommonFields /\ CommonSize \in 0..PageSize
    BY CommonDomain, PageRoom
  <2> QED
    BY <2>1, CommonTable, DecodedField DEF DecodeCommonPageHeader
<1>2. d = [f \in CommonNames |-> d[f]]
  <2>1. d = [f \in DOMAIN CommonFields |->
                DecodeLittleEndian(Subspan(page, CommonFields[f][1], CommonFields[f][2]))]
    BY DEF DecodeCommonPageHeader, DecodeFields
  <2> QED
    BY <2>1, CommonDomain
<1> HIDE DEF d
<1>3. /\ CommonFields["page_type"][2] = HalfSize /\ CommonFields["format_version"][2] = HalfSize
      /\ CommonFields["flags"][2] = WordSize /\ CommonFields["page_lsn"][2] = 2 * WordSize
      /\ CommonFields["checksum_crc32c"][2] = WordSize /\ CommonFields["header_size"][2] = HalfSize
      /\ CommonFields["reserved16"][2] = HalfSize /\ CommonFields["page_no"][2] = 2 * WordSize
  BY DEF CommonFields
<1>4. /\ d["page_type"] \in 0..MaxOf(HalfSize) /\ d["format_version"] \in 0..MaxOf(HalfSize)
      /\ d["flags"] \in 0..MaxOf(WordSize) /\ d["page_lsn"] \in 0..MaxOf(2 * WordSize)
      /\ d["checksum_crc32c"] \in 0..MaxOf(WordSize) /\ d["header_size"] \in 0..MaxOf(HalfSize)
      /\ d["reserved16"] \in 0..MaxOf(HalfSize) /\ d["page_no"] \in 0..MaxOf(2 * WordSize)
  BY <1>1, <1>3 DEF CommonNames
<1> QED
  BY <1>2, <1>4 DEF CommonHeaders, CommonNames, d

LEMMA FileDecoded ==
    ASSUME NEW page \in Page
    PROVE  /\ DecodeFileSuperblock(page).owner = "FILE"
           /\ IsFileContent(DecodeFileSuperblock(page))
<1> DEFINE d == DecodeFields(SuperblockFields, page)
<1>1. DOMAIN SuperblockFields = {"file_kind", "reserved16", "page_size", "file_id", "reserved32",
                                 "object_id", "creation_epoch"}
      /\ SuperblockFields["file_kind"][2] = HalfSize
      /\ SuperblockFields["file_id"][2] = WordSize
      /\ SuperblockFields["object_id"][2] = 2 * WordSize
      /\ SuperblockFields["creation_epoch"][2] = 2 * WordSize
  BY DEF SuperblockFields
<1>2. ASSUME NEW f \in DOMAIN SuperblockFields PROVE d[f] \in 0..MaxOf(SuperblockFields[f][2])
  <2>1. SuperblockSize \in 0..PageSize
    BY Sizes, PageRoom
  <2> QED
    BY <2>1, SuperblockTable, DecodedField
<1> HIDE DEF d
<1>3. /\ d["file_kind"] \in 0..MaxOf(HalfSize) /\ d["file_id"] \in 0..MaxOf(WordSize)
      /\ d["object_id"] \in 0..MaxOf(2 * WordSize) /\ d["creation_epoch"] \in 0..MaxOf(2 * WordSize)
  BY <1>1, <1>2
<1>4. DecodeCommonPageHeader(page).page_lsn \in 0..MaxOf(2 * WordSize)
  BY CommonDecoded DEF CommonHeaders
<1>5. DecodeFileSuperblock(page)
         = [owner |-> "FILE", page_lsn |-> DecodeCommonPageHeader(page).page_lsn,
            file_kind |-> d.file_kind, file_id |-> d.file_id,
            object_id |-> d.object_id, creation_epoch |-> d.creation_epoch]
  BY DEF DecodeFileSuperblock, d
<1> QED
  BY <1>3, <1>4, <1>5 DEF IsFileContent

LEMMA HeapHeaderDecoded ==
    ASSUME NEW page \in Page
    PROVE  /\ DecodeHeapPageHeader(page)
                \in [slot_count : 0..MaxOf(HalfSize), free_slot_head : 0..MaxOf(HalfSize),
                     lower : 0..MaxOf(HalfSize), upper : 0..MaxOf(HalfSize),
                     prune_hint : 0..MaxOf(WordSize), reserved : 0..MaxOf(WordSize)]
<1> DEFINE d == DecodeHeapPageHeader(page)
           names == {"slot_count", "free_slot_head", "lower", "upper", "prune_hint", "reserved"}
<1>1. /\ DOMAIN HeapFields = names
      /\ HeapFields["slot_count"][2] = HalfSize /\ HeapFields["free_slot_head"][2] = HalfSize
      /\ HeapFields["lower"][2] = HalfSize /\ HeapFields["upper"][2] = HalfSize
      /\ HeapFields["prune_hint"][2] = WordSize /\ HeapFields["reserved"][2] = WordSize
  BY DEF HeapFields
<1>2. ASSUME NEW f \in DOMAIN HeapFields PROVE d[f] \in 0..MaxOf(HeapFields[f][2])
  <2>1. HeapHeaderSize \in 0..PageSize
    BY Sizes, PageRoom
  <2> QED
    BY <2>1, HeapTable, DecodedField DEF DecodeHeapPageHeader
<1>3. d = [f \in names |-> d[f]]
  <2>1. d = [f \in DOMAIN HeapFields |->
                DecodeLittleEndian(Subspan(page, HeapFields[f][1], HeapFields[f][2]))]
    BY DEF DecodeHeapPageHeader, DecodeFields
  <2> QED
    BY <1>1, <2>1
<1> HIDE DEF d
<1>4. /\ d["slot_count"] \in 0..MaxOf(HalfSize) /\ d["free_slot_head"] \in 0..MaxOf(HalfSize)
      /\ d["lower"] \in 0..MaxOf(HalfSize) /\ d["upper"] \in 0..MaxOf(HalfSize)
      /\ d["prune_hint"] \in 0..MaxOf(WordSize) /\ d["reserved"] \in 0..MaxOf(WordSize)
  BY <1>1, <1>2
<1> QED
  BY <1>3, <1>4 DEF d

(* The slots as one table. *)
LEMMA DirectoryDecoded ==
    ASSUME NEW page \in Page, NEW n \in Nat, HeapHeaderSize + n * SlotSize =< PageSize,
           NEW s \in 0..(n - 1)
    PROVE  /\ DOMAIN DecodeFields(SlotFields(s), page) = SlotNames
           /\ \A a \in SlotNames :
                 /\ DecodeFields(SlotFields(s), page)[a]
                       = DecodeFields(DirectoryFields(0..(n - 1)), page)[<<s, a>>]
                 /\ DecodeFields(SlotFields(s), page)[a] \in 0..MaxOf(HalfSize)
<1> DEFINE entries == DirectoryFields(0..(n - 1))
<1>1. DOMAIN SlotFields(s) = SlotNames
  BY SlotFieldsAt DEF SlotNames
<1>2. ASSUME NEW a \in SlotNames
      PROVE  /\ DecodeFields(SlotFields(s), page)[a] = DecodeFields(entries, page)[<<s, a>>]
             /\ DecodeFields(SlotFields(s), page)[a] \in 0..MaxOf(HalfSize)
  <2> DEFINE e == <<s, a>>
  <2>1. e \in (0..(n - 1)) \X SlotNames /\ e[1] = s /\ e[2] = a
    OBVIOUS
  <2>2. e \in DOMAIN entries /\ entries[e] = SlotFields(e[1])[e[2]] /\ entries[e][2] = HalfSize
    BY <2>1, DirectoryDomain
  <2>3. entries[e] = SlotFields(s)[a]
    BY <2>1, <2>2
  <2>4. Tiles(entries, HeapHeaderSize, HeapHeaderSize + n * SlotSize)
    BY DirectoryTable
  <2>5. HeapHeaderSize + n * SlotSize \in 0..PageSize
    <3>1. HeapHeaderSize \in Nat /\ SlotSize \in Nat /\ PageSize \in Nat
      BY Sizes, PageRoom DEF SlotSize
    <3>2. n * SlotSize \in Nat
      BY <3>1
    <3> QED
      BY <3>1, <3>2
  <2> HIDE DEF entries, e
  <2>6. DecodeFields(entries, page)[e] \in 0..MaxOf(entries[e][2])
    BY <2>2, <2>4, <2>5, DecodedField
  <2>7. DecodeFields(SlotFields(s), page)[a] = DecodeFields(entries, page)[e]
    BY <1>1, <2>2, <2>3 DEF DecodeFields
  <2> QED
    BY <2>2, <2>6, <2>7 DEF e
<1>3. DOMAIN DecodeFields(SlotFields(s), page) = SlotNames
  BY <1>1 DEF DecodeFields
<1> QED
  BY <1>2, <1>3

LEMMA HeapDecoded ==
    ASSUME NEW page \in Page, NEW no, HeapHeaderValid(no, page)
    PROVE  /\ DecodeHeap(page).owner = "HEAP"
           /\ IsHeapContent(DecodeHeap(page))
<1> DEFINE header == DecodeHeapPageHeader(page)
           slots == DecodeSlotDirectory(page)
           lsn == DecodeCommonPageHeader(page).page_lsn
           n == header.slot_count
<1>1. /\ header \in [slot_count : 0..MaxOf(HalfSize), free_slot_head : 0..MaxOf(HalfSize),
                     lower : 0..MaxOf(HalfSize), upper : 0..MaxOf(HalfSize),
                     prune_hint : 0..MaxOf(WordSize), reserved : 0..MaxOf(WordSize)]
  BY HeapHeaderDecoded
<1>2. lsn \in 0..MaxOf(2 * WordSize)
  BY CommonDecoded DEF CommonHeaders
<1>3. /\ ValidateHeapHeaderGeometry(header)
      /\ \A s \in DOMAIN slots : slots[s].state \in 0..3
  BY DEF HeapHeaderValid, IsValidHeapSlotState
<1>4. slots = [s \in 0..(n - 1) |-> DecodeFields(SlotFields(s), page)]
  BY DEF DecodeSlotDirectory
<1>5. DecodeHeap(page) = [owner |-> "HEAP", page_lsn |-> lsn, header |-> header, slots |-> slots]
  BY DEF DecodeHeap
<1> HIDE DEF header, slots, lsn
<1>6. n \in Nat /\ HeapHeaderSize + n * SlotSize =< PageSize
  <2>1. n \in Nat
    BY <1>1
  <2>2. HeapHeaderSize \in Nat /\ n * SlotSize \in Nat /\ PageSize \in Nat
    BY <2>1, Sizes, SlotFieldsAt, PageRoom
  <2> QED
    BY <1>1, <1>3, <2>1, <2>2 DEF ValidateHeapHeaderGeometry
<1>7. ASSUME NEW s \in 0..(n - 1)
      PROVE  slots[s] \in [tuple_offset : 0..MaxOf(HalfSize), tuple_length : 0..MaxOf(HalfSize),
                           state : 0..3, aux : 0..MaxOf(HalfSize)]
  <2> DEFINE d == DecodeFields(SlotFields(s), page)
  <2>1. DOMAIN d = SlotNames /\ \A a \in SlotNames : d[a] \in 0..MaxOf(HalfSize)
    <3>1. /\ DOMAIN DecodeFields(SlotFields(s), page) = SlotNames
          /\ \A a \in SlotNames : DecodeFields(SlotFields(s), page)[a] \in 0..MaxOf(HalfSize)
      BY <1>6, DirectoryDecoded
    <3> QED
      BY <3>1
  <2>2. d = [a \in DOMAIN d |-> d[a]]
    BY DEF DecodeFields
  <2>3. slots[s] = d /\ slots[s].state \in 0..3
    BY <1>3, <1>4
  <2> HIDE DEF d
  <2>4. /\ d["tuple_offset"] \in 0..MaxOf(HalfSize) /\ d["tuple_length"] \in 0..MaxOf(HalfSize)
        /\ d["aux"] \in 0..MaxOf(HalfSize) /\ d["state"] \in 0..3
    BY <2>1, <2>3 DEF SlotNames
  <2>5. d \in [tuple_offset : 0..MaxOf(HalfSize), tuple_length : 0..MaxOf(HalfSize),
               state : 0..3, aux : 0..MaxOf(HalfSize)]
    BY <2>1, <2>2, <2>4 DEF SlotNames
  <2> QED
    BY <2>3, <2>5
<1>8. slots \in [0..(n - 1) -> [tuple_offset : 0..MaxOf(HalfSize), tuple_length : 0..MaxOf(HalfSize),
                                state : 0..3, aux : 0..MaxOf(HalfSize)]]
  BY <1>4, <1>7
<1>9. header \in [slot_count : 0..MaxOf(HalfSize), free_slot_head : 0..MaxOf(HalfSize),
                  lower : 0..MaxOf(HalfSize), upper : 0..MaxOf(HalfSize),
                  prune_hint : 0..MaxOf(WordSize), reserved : {0}]
  BY <1>1, <1>3 DEF ValidateHeapHeaderGeometry
<1>10. /\ DecodeHeap(page).header = header /\ DecodeHeap(page).owner = "HEAP"
  BY <1>5
<1>11. DecodeHeap(page)
         \in [owner : {"HEAP"}, page_lsn : 0..MaxOf(2 * WordSize),
              header : [slot_count : 0..MaxOf(HalfSize), free_slot_head : 0..MaxOf(HalfSize),
                        lower : 0..MaxOf(HalfSize), upper : 0..MaxOf(HalfSize),
                        prune_hint : 0..MaxOf(WordSize), reserved : {0}],
              slots : [0..(n - 1) ->
                          [tuple_offset : 0..MaxOf(HalfSize), tuple_length : 0..MaxOf(HalfSize),
                           state : 0..3, aux : 0..MaxOf(HalfSize)]]]
  BY <1>2, <1>5, <1>8, <1>9
<1> QED
  BY <1>3, <1>10, <1>11 DEF IsHeapContent

LEMMA FsmDecoded ==
    ASSUME NEW page \in Page, NEW no, FsmPageValid(no, page)
    PROVE  /\ DecodeFsm(page).owner = "FSM"
           /\ IsFsmContent(DecodeFsm(page))
           /\ Len(DecodeFsm(page).entries) = DecodeFsmPageHeader(page).entry_count
           /\ DecodeFsmPageHeader(page).entry_count \in 0..Capacity
           /\ DecodeFsm(page).entries = Subspan(page, FsmHeaderSize, DecodeFsmPageHeader(page).entry_count)
           /\ \A k \in 1..DecodeFsmPageHeader(page).entry_count :
                 DecodeFsm(page).entries[k] = page[FsmHeaderSize + k]
<1> DEFINE count == DecodeFsmPageHeader(page).entry_count
           lsn == DecodeCommonPageHeader(page).page_lsn
           entries == Subspan(page, FsmHeaderSize, count)
<1>1. lsn \in 0..MaxOf(2 * WordSize)
  BY CommonDecoded DEF CommonHeaders
<1>2. count \in Nat
  <2>1. "entry_count" \in DOMAIN FsmFields /\ FsmFields["entry_count"][2] = HalfSize
    BY DEF FsmFields
  <2>2. FsmHeaderSize \in 0..PageSize
    BY Sizes, PageRoom
  <2>3. DecodeFields(FsmFields, page)["entry_count"] \in 0..MaxOf(FsmFields["entry_count"][2])
    BY <2>1, <2>2, FsmTable, DecodedField
  <2>4. count \in 0..MaxOf(FsmFields["entry_count"][2])
    BY <2>3 DEF DecodeFsmPageHeader
  <2> HIDE DEF count
  <2> QED
    BY <2>4
<1>3. count =< Capacity
  BY DEF FsmPageValid
<1>4. DecodeFsm(page) = [owner |-> "FSM", page_lsn |-> lsn, entries |-> entries]
  BY DEF DecodeFsm
<1> HIDE DEF count, lsn
<1>5. count \in 0..Capacity /\ FsmHeaderSize + count =< PageSize
  BY <1>2, <1>3, Sizes, PageRoom DEF Capacity
<1>6. entries \in [1..count -> Byte] /\ \A k \in 1..count : entries[k] = page[FsmHeaderSize + k]
  <2>1. FsmHeaderSize \in Nat /\ PageSize \in Nat /\ page \in [1..PageSize -> Byte]
    BY Sizes, PageRoom DEF Page
  <2> QED
    BY <1>2, <1>5, <2>1, SubspanAt
<1> HIDE DEF entries
<1>7. entries \in Seq(Byte) /\ Len(entries) = count
  BY <1>2, <1>6
<1>8. DecodeFsm(page).entries = entries /\ DecodeFsm(page).owner = "FSM"
  BY <1>4
<1>9. IsFsmContent(DecodeFsm(page))
  BY <1>1, <1>4, <1>7 DEF IsFsmContent
<1> QED
  BY <1>5, <1>6, <1>7, <1>8, <1>9 DEF count, entries

-----------------------------------------------------------------------------
(* An accepted page is the encoding of what is decoded from it. *)

LEMMA VerifiedAgree ==
    ASSUME NEW a \in Page, NEW b \in Page, VerifyPageChecksum(a), VerifyPageChecksum(b),
           \A k \in 1..PageSize : InChecksum(k) \/ a[k] = b[k]
    PROVE  a = b
<1>1. /\ DecodeLittleEndian(StoredChecksum(a)) = ComputePageChecksum(a)
      /\ DecodeLittleEndian(StoredChecksum(b)) = ComputePageChecksum(b)
      /\ StoredChecksum(a) \in [1..WordSize -> Byte] /\ StoredChecksum(b) \in [1..WordSize -> Byte]
      /\ \A k \in 1..WordSize : StoredChecksum(a)[k] = a[ChecksumOffset + k]
      /\ \A k \in 1..WordSize : StoredChecksum(b)[k] = b[ChecksumOffset + k]
  BY StoredAt
<1>2. ComputePageChecksum(a) = ComputePageChecksum(b)
  BY SameChecksum
<1>3. /\ EncodeLittleEndian(DecodeLittleEndian(StoredChecksum(a)), WordSize) = StoredChecksum(a)
      /\ EncodeLittleEndian(DecodeLittleEndian(StoredChecksum(b)), WordSize) = StoredChecksum(b)
  <2>1. WordSize \in Nat
    BY Sizes
  <2> QED
    BY <1>1, <2>1, BytesReadBack
<1>4. StoredChecksum(a) = StoredChecksum(b)
  BY <1>1, <1>2, <1>3, Zenon
<1>5. ASSUME NEW k \in 1..PageSize PROVE a[k] = b[k]
  <2>1. CASE InChecksum(k)
    <3>1. k - ChecksumOffset \in 1..WordSize /\ ChecksumOffset + (k - ChecksumOffset) = k
      BY <2>1, ChecksumAt, PageRoom, Sizes
    <3> QED
      BY <1>1, <1>4, <3>1
  <2> QED
    BY <2>1
<1> QED
  BY <1>5, SamePages

LEMMA CommonAccepted ==
    ASSUME NEW page \in Page, NEW header \in CommonHeaders,
           DecodeCommonPageHeader(page)
              = [header EXCEPT !.checksum_crc32c = DecodeCommonPageHeader(page).checksum_crc32c],
           NEW k \in 1..CommonSize, ~InChecksum(k)
    PROVE  EncodeFields(CommonFields, header, Zeroes(PageSize))[k] = page[k]
<1>1. ASSUME NEW f \in CommonNames, f # "checksum_crc32c"
      PROVE  header[f] = DecodeCommonPageHeader(page)[f]
  <2>1. f \in DOMAIN header
    BY CommonDomain
  <2> QED
    BY <1>1, <2>1
<1> QED
  BY <1>1, CommonRestored

(* The checksum an encoder leaves to be filled in. *)
LEMMA ChecksumPending ==
    ASSUME NEW header \in CommonHeaders, header.checksum_crc32c = 0,
           NEW k \in 1..PageSize, InChecksum(k)
    PROVE  EncodeFields(CommonFields, header, Zeroes(PageSize))[k] = 0
<1> DEFINE f == "checksum_crc32c"
           j == k - ChecksumOffset
<1>1. f \in DOMAIN CommonFields /\ CommonFields[f] = <<ChecksumOffset, WordSize>>
      /\ CommonFields[f][1] = ChecksumOffset /\ CommonFields[f][2] = WordSize
      /\ Covers(CommonFields[f], k) /\ header[f] = 0
  BY CommonDomain, ChecksumAt DEF CommonNames, InChecksum
<1>2. /\ IsTable(CommonFields, CommonSize) /\ PageSize \in Nat
      /\ Zeroes(PageSize) \in [1..PageSize -> Byte] /\ k \in 1..PageSize
      /\ WordSize \in Nat /\ j \in 1..WordSize
  BY CommonTable, PageRoom, ZeroPage, ChecksumAt, Sizes DEF Tiles, Page
<1> HIDE DEF f, j
<1>3. EncodeFields(CommonFields, header, Zeroes(PageSize))[k]
         = EncodeLittleEndian(header[f], CommonFields[f][2])[k - CommonFields[f][1]]
  BY <1>1, <1>2, EncodedField
<1>4. EncodeFields(CommonFields, header, Zeroes(PageSize))[k] = EncodeLittleEndian(0, WordSize)[j]
  BY <1>1, <1>3 DEF j
<1>5. /\ Zeroes(WordSize) \in [1..WordSize -> Byte] /\ Zeroes(WordSize)[j] = 0
      /\ DecodeLittleEndian(Zeroes(WordSize)) = 0
  BY <1>2, ZeroesType, ZeroDecodes
<1>6. EncodeLittleEndian(0, WordSize) = Zeroes(WordSize)
  <2>1. EncodeLittleEndian(DecodeLittleEndian(Zeroes(WordSize)), WordSize) = Zeroes(WordSize)
    BY <1>2, <1>5, BytesReadBack
  <2> QED
    BY <1>5, <2>1
<1> QED
  BY <1>4, <1>5, <1>6

LEMMA CommonHeaderNames ==
    ASSUME NEW type, NEW lsn, NEW size, NEW no
    PROVE  /\ CommonPageHeader(type, lsn, size, no).checksum_crc32c = 0
           /\ CommonPageHeader(type, lsn, size, no).page_type = type
           /\ CommonPageHeader(type, lsn, size, no).page_lsn = lsn
           /\ CommonPageHeader(type, lsn, size, no).header_size = size
           /\ CommonPageHeader(type, lsn, size, no).page_no = no
BY DEF CommonPageHeader

LEMMA SuperblockCanonical ==
    ASSUME NEW page \in Page, SuperblockDecodes(page)
    PROVE  page = EncodeFileSuperblock(DecodeFileSuperblock(page))
<1> DEFINE c == DecodeFileSuperblock(page)
           common == DecodeCommonPageHeader(page)
           fields == DecodeFields(SuperblockFields, page)
           encoded == EncodeFileSuperblock(c)
           start == MagicOffset + 2 * WordSize
<1>1. IsFileContent(c)
  BY FileDecoded
<1>2. /\ VerifyPageChecksum(page)
      /\ common = [CommonPageHeader(SUPERBLOCK, common.page_lsn, SuperblockSize, 0)
                      EXCEPT !.checksum_crc32c = common.checksum_crc32c]
      /\ Subspan(page, MagicOffset, Len(Magic)) = Magic
      /\ fields.page_size = PageSize /\ fields.reserved16 = 0 /\ fields.reserved32 = 0
      /\ TrailingReservedIsZero(page)
  BY DEF SuperblockDecodes
<1>3. c = [owner |-> "FILE", page_lsn |-> common.page_lsn, file_kind |-> fields.file_kind,
           file_id |-> fields.file_id, object_id |-> fields.object_id,
           creation_epoch |-> fields.creation_epoch]
  BY DEF DecodeFileSuperblock
<1> HIDE DEF c, common, fields, encoded
<1>4. /\ encoded = FinalizePageChecksum(FileBytes(c)) /\ FileBytes(c) \in Page
      /\ \A k \in 1..CommonSize :
            FileBytes(c)[k] = EncodeFields(CommonFields, FileCommon(c), Zeroes(PageSize))[k]
      /\ \A k \in (MagicOffset + 1)..start : FileBytes(c)[k] = Magic[k - MagicOffset]
      /\ \A k \in (start + 1)..SuperblockSize :
            FileBytes(c)[k] = EncodeFields(SuperblockFields, FileFields(c), Zeroes(PageSize))[k]
      /\ \A k \in (SuperblockSize + 1)..PageSize : FileBytes(c)[k] = 0
  BY <1>1, FileLayers DEF encoded
<1>5. /\ encoded \in Page /\ VerifyPageChecksum(encoded)
      /\ \A k \in 1..PageSize : InChecksum(k) \/ encoded[k] = FileBytes(c)[k]
  BY <1>4, Finalized
<1>6. ASSUME NEW k \in 1..CommonSize, ~InChecksum(k) PROVE FileBytes(c)[k] = page[k]
  <2>1. FileCommon(c) = CommonPageHeader(SUPERBLOCK, common.page_lsn, SuperblockSize, 0)
    BY <1>3 DEF FileCommon
  <2>2. FileCommon(c) \in CommonHeaders
    BY <1>1, FileTypes
  <2>3. DecodeCommonPageHeader(page)
           = [FileCommon(c) EXCEPT !.checksum_crc32c = DecodeCommonPageHeader(page).checksum_crc32c]
    BY <1>2, <2>1 DEF common
  <2>4. EncodeFields(CommonFields, FileCommon(c), Zeroes(PageSize))[k] = page[k]
    BY <1>6, <2>2, <2>3, CommonAccepted
  <2> QED
    BY <1>4, <2>4
<1>7. /\ MagicOffset = CommonSize /\ start \in Nat /\ start =< SuperblockSize /\ SuperblockSize \in Nat
      /\ CommonSize \in Nat /\ PageSize \in Nat /\ SuperblockSize =< PageSize
      /\ WordSize \in Nat /\ start = MagicOffset + 2 * WordSize
  BY Sizes, PageRoom DEF SuperblockSize
<1>8. page \in [1..PageSize -> Byte]
  BY DEF Page
<1>9. ASSUME NEW k \in (MagicOffset + 1)..start PROVE FileBytes(c)[k] = page[k]
  <2> DEFINE j == k - MagicOffset
             got == Subspan(page, MagicOffset, Len(Magic))
  <2>1. Len(Magic) = 2 * WordSize /\ got = Magic
    BY <1>2, PageImageAssumption
  <2>2. /\ Len(Magic) \in Nat /\ MagicOffset \in Nat /\ MagicOffset + Len(Magic) =< PageSize
        /\ j \in 1..Len(Magic) /\ MagicOffset + j = k
    BY <1>7, <2>1
  <2>3. got[j] = page[MagicOffset + j]
    BY <1>7, <1>8, <2>2, SubspanAt
  <2> HIDE DEF got
  <2> QED
    BY <1>4, <2>1, <2>2, <2>3
<1>10. ASSUME NEW k \in (start + 1)..SuperblockSize PROVE FileBytes(c)[k] = page[k]
  <2>1. DOMAIN SuperblockFields = {"file_kind", "reserved16", "page_size", "file_id", "reserved32",
                                   "object_id", "creation_epoch"}
    BY DEF SuperblockFields
  <2>2. FileFields(c) = [file_kind |-> fields.file_kind, reserved16 |-> 0, page_size |-> PageSize,
                         file_id |-> fields.file_id, reserved32 |-> 0,
                         object_id |-> fields.object_id, creation_epoch |-> fields.creation_epoch]
    BY <1>3 DEF FileFields
  <2>3. \A f \in DOMAIN SuperblockFields : FileFields(c)[f] = fields[f]
    BY <1>2, <2>1, <2>2
  <2>4. SuperblockSize \in 0..PageSize
    BY <1>7
  <2>5. \A f \in DOMAIN SuperblockFields : FileFields(c)[f] = DecodeFields(SuperblockFields, page)[f]
    BY <2>3 DEF fields
  <2>6. Tiles(SuperblockFields, start, SuperblockSize)
    BY SuperblockTable
  <2> DEFINE record == FileFields(c)
  <2>8. start \in Nat /\ k \in (start + 1)..SuperblockSize
        /\ \A f \in DOMAIN SuperblockFields : record[f] = DecodeFields(SuperblockFields, page)[f]
    BY <1>7, <2>5
  <2> HIDE DEF start, record
  <2>9. EncodeFields(SuperblockFields, record, Zeroes(PageSize))[k] = page[k]
    BY ZenonT(40), <2>4, <2>6, <2>8, LayerRestored
  <2>7. EncodeFields(SuperblockFields, FileFields(c), Zeroes(PageSize))[k] = page[k]
    BY <2>9 DEF record
  <2> QED
    BY <1>4, <2>7
<1>11. ASSUME NEW k \in (SuperblockSize + 1)..PageSize PROVE FileBytes(c)[k] = page[k]
  <2> DEFINE count == PageSize - SuperblockSize
             j == k - SuperblockSize
             got == Subspan(page, SuperblockSize, count)
  <2>1. count \in Nat /\ SuperblockSize + count = PageSize /\ j \in 1..count /\ SuperblockSize + j = k
    BY <1>7
  <2>2. got = Zeroes(count)
    BY <1>2 DEF TrailingReservedIsZero
  <2> HIDE DEF count, j
  <2>3. got[j] = page[SuperblockSize + j]
    BY <1>7, <1>8, <2>1, SubspanAt
  <2>4. Zeroes(count)[j] = 0
    BY <2>1, ZeroesType
  <2> HIDE DEF got
  <2> QED
    BY <1>4, <2>1, <2>2, <2>3, <2>4
<1>12. ASSUME NEW k \in 1..PageSize, ~InChecksum(k) PROVE encoded[k] = page[k]
  <2>1. \/ k \in 1..CommonSize \/ k \in (MagicOffset + 1)..start \/ k \in (start + 1)..SuperblockSize
        \/ k \in (SuperblockSize + 1)..PageSize
    BY <1>7
  <2> QED
    BY <1>5, <1>6, <1>9, <1>10, <1>11, <1>12, <2>1
<1>13. page = encoded
  BY <1>2, <1>5, <1>12, VerifiedAgree
<1> QED
  BY <1>13 DEF encoded, c

LEMMA PagePart ==
    ASSUME NEW page \in Page, NEW offset \in Nat, NEW count \in Nat, offset + count =< PageSize
    PROVE  /\ Subspan(page, offset, count) \in [1..count -> Byte]
           /\ \A k \in 1..count : Subspan(page, offset, count)[k] = page[offset + k]
<1>1. PageSize \in Nat /\ page \in [1..PageSize -> Byte]
  BY PageRoom DEF Page
<1> QED
  BY <1>1, SubspanAt

LEMMA BeyondCommon ==
    ASSUME NEW k \in Nat, k > CommonSize
    PROVE  ~InChecksum(k)
BY Sizes, ChecksumAt

(* The common header of an accepted page, with the checksum taken out. *)
LEMMA CommonCanonical ==
    ASSUME NEW page \in Page, NEW header \in CommonHeaders, header.checksum_crc32c = 0,
           DecodeCommonPageHeader(page)
              = [header EXCEPT !.checksum_crc32c = DecodeCommonPageHeader(page).checksum_crc32c],
           NEW k \in 1..CommonSize
    PROVE  EncodeFields(CommonFields, header, Zeroes(PageSize))[k] = WithoutChecksum(page)[k]
<1>1. k \in 1..PageSize
  BY PageRoom
<1>2. WithoutChecksum(page)[k] = IF InChecksum(k) THEN 0 ELSE page[k]
  BY <1>1, WithoutAt
<1>3. CASE InChecksum(k)
  BY <1>1, <1>2, <1>3, ChecksumPending
<1>4. CASE ~InChecksum(k)
  BY <1>2, <1>4, CommonAccepted
<1> QED
  BY <1>3, <1>4

LEMMA WithoutBeyond ==
    ASSUME NEW page \in Page, NEW k \in 1..PageSize, k > CommonSize
    PROVE  WithoutChecksum(page)[k] = page[k]
BY BeyondCommon, WithoutAt

LEMMA HeapCommonAccepted ==
    ASSUME NEW page \in Page, NEW no \in 0..INVALID_PAGE_NO, HeapHeaderValid(no, page)
    PROVE  /\ HeapCommon(no, DecodeHeap(page)) \in CommonHeaders
           /\ HeapCommon(no, DecodeHeap(page)).checksum_crc32c = 0
           /\ DecodeCommonPageHeader(page)
                 = [HeapCommon(no, DecodeHeap(page)) EXCEPT
                       !.checksum_crc32c = DecodeCommonPageHeader(page).checksum_crc32c]
<1>1. IsHeapContent(DecodeHeap(page))
  BY HeapDecoded
<1>2. DecodeHeap(page).page_lsn = DecodeCommonPageHeader(page).page_lsn
  BY DEF DecodeHeap
<1>3. HeapCommon(no, DecodeHeap(page))
         = CommonPageHeader(HEAP_DATA, DecodeCommonPageHeader(page).page_lsn, HeapHeaderSize, no)
  BY <1>2 DEF HeapCommon
<1>4. DecodeCommonPageHeader(page)
         = [CommonPageHeader(HEAP_DATA, DecodeCommonPageHeader(page).page_lsn, HeapHeaderSize, no)
               EXCEPT !.checksum_crc32c = DecodeCommonPageHeader(page).checksum_crc32c]
  BY DEF HeapHeaderValid, ValidateCommonHeader
<1>5. HeapCommon(no, DecodeHeap(page)) \in CommonHeaders
  BY <1>1, HeapTypes
<1>6. HeapCommon(no, DecodeHeap(page)).checksum_crc32c = 0
  BY <1>3, CommonHeaderNames
<1> QED
  BY <1>3, <1>4, <1>5, <1>6, Zenon

LEMMA HeapDirectoryDecoded ==
    ASSUME NEW page \in Page, NEW no \in 0..INVALID_PAGE_NO, HeapHeaderValid(no, page)
    PROVE  LET c == DecodeHeap(page) IN
           \A e \in DOMAIN HeapEntries(c) : HeapSlots(c)[e] = DecodeFields(HeapEntries(c), page)[e]
<1> DEFINE c == DecodeHeap(page)
           n == c.header.slot_count
<1>1. IsHeapContent(c)
  BY HeapDecoded
<1>2. /\ n \in Nat /\ c.header.lower = HeapHeaderSize + n * SlotSize
      /\ c.header.lower \in HeapHeaderSize..PageSize
  BY <1>1, HeapTypes
<1>3. HeapHeaderSize + n * SlotSize =< PageSize
  BY <1>2, Sizes, PageRoom
<1>4. c.slots = [s \in 0..(n - 1) |-> DecodeFields(SlotFields(s), page)]
  BY DEF DecodeHeap, DecodeSlotDirectory
<1>5. HeapEntries(c) = DirectoryFields(0..(n - 1))
  BY DEF HeapEntries
<1> HIDE DEF n
<1>6. DOMAIN HeapEntries(c) = (0..(n - 1)) \X SlotNames
  BY <1>2, <1>5, DirectoryDomain
<1>7. ASSUME NEW e \in DOMAIN HeapEntries(c)
      PROVE  HeapSlots(c)[e] = DecodeFields(HeapEntries(c), page)[e]
  <2> DEFINE s == e[1]
             a == e[2]
  <2>1. s \in 0..(n - 1) /\ a \in SlotNames /\ e = <<s, a>>
    BY <1>6
  <2>2. HeapSlots(c)[e] = c.slots[s][a]
    BY <1>7 DEF HeapSlots
  <2> HIDE DEF s, a
  <2>3. DecodeFields(SlotFields(s), page)[a] = DecodeFields(DirectoryFields(0..(n - 1)), page)[<<s, a>>]
    BY <1>2, <1>3, <2>1, DirectoryDecoded
  <2>4. c.slots[s] = DecodeFields(SlotFields(s), page)
    BY <1>4, <2>1
  <2> HIDE DEF c
  <2> QED
    BY <1>5, <2>1, <2>2, <2>3, <2>4, Zenon
<1> QED
  BY <1>7

LEMMA HeapCanonical ==
    ASSUME NEW page \in Page, NEW no \in 0..INVALID_PAGE_NO, HeapHeaderValid(no, page)
    PROVE  LET lower == DecodeHeapPageHeader(page).lower IN
           Subspan(WithoutChecksum(page), 0, lower)
              = Subspan(HeapPageBytes(no, DecodeHeap(page)), 0, lower)
<1> DEFINE c == DecodeHeap(page)
           lower == DecodeHeapPageHeader(page).lower
           bytes == HeapPageBytes(no, c)
           without == WithoutChecksum(page)
           n == c.header.slot_count
           slots == HeapSlots(c)
           entries == HeapEntries(c)
<1>1. IsHeapContent(c)
  BY HeapDecoded
<1>2. c.header = DecodeFields(HeapFields, page) /\ c.header.lower = lower
  BY DEF DecodeHeap, DecodeHeapPageHeader
<1>3. /\ n \in Nat /\ lower = HeapHeaderSize + n * SlotSize /\ lower \in HeapHeaderSize..PageSize
  BY <1>1, <1>2, HeapTypes
<1>4. \A e \in DOMAIN entries : slots[e] = DecodeFields(entries, page)[e]
  BY HeapDirectoryDecoded
<1>5. Tiles(entries, HeapHeaderSize, lower)
  BY <1>3, DirectoryTable DEF HeapEntries
<1>6. /\ HeapCommon(no, c) \in CommonHeaders /\ HeapCommon(no, c).checksum_crc32c = 0
      /\ DecodeCommonPageHeader(page)
            = [HeapCommon(no, c) EXCEPT
                  !.checksum_crc32c = DecodeCommonPageHeader(page).checksum_crc32c]
  BY HeapCommonAccepted
<1>7. /\ bytes \in Page
      /\ \A k \in 1..CommonSize :
            bytes[k] = EncodeFields(CommonFields, HeapCommon(no, c), Zeroes(PageSize))[k]
      /\ \A k \in (CommonSize + 1)..HeapHeaderSize :
            bytes[k] = EncodeFields(HeapFields, c.header, Zeroes(PageSize))[k]
      /\ \A k \in (HeapHeaderSize + 1)..lower :
            bytes[k] = EncodeFields(entries, slots, Zeroes(PageSize))[k]
  BY <1>1, <1>2, HeapLayers
<1>8. without \in Page
  BY WithoutAt
<1> HIDE DEF c, bytes, without, n, slots, entries, lower
<1>9. /\ CommonSize \in Nat /\ HeapHeaderSize \in Nat /\ CommonSize < HeapHeaderSize
      /\ lower \in Nat /\ HeapHeaderSize =< lower /\ lower =< PageSize /\ PageSize \in Nat
      /\ lower \in 0..PageSize /\ HeapHeaderSize \in 0..PageSize
  BY <1>3, Sizes, PageRoom
<1>10. ASSUME NEW k \in 1..CommonSize PROVE bytes[k] = without[k]
  BY <1>6, <1>7, CommonCanonical DEF without
<1>11. ASSUME NEW k \in (CommonSize + 1)..HeapHeaderSize PROVE bytes[k] = without[k]
  <2> DEFINE header == c.header
  <2>1. \A f \in DOMAIN HeapFields : header[f] = DecodeFields(HeapFields, page)[f]
    BY <1>2
  <2>2. k \in (CommonSize + 1)..HeapHeaderSize /\ k \in 1..PageSize /\ k > CommonSize
    BY <1>9
  <2> HIDE DEF header
  <2>3. EncodeFields(HeapFields, header, Zeroes(PageSize))[k] = page[k]
    BY <1>9, <2>1, <2>2, HeapTable, LayerRestored
  <2>4. without[k] = page[k]
    BY <2>2, WithoutBeyond DEF without
  <2> QED
    BY <1>7, <2>2, <2>3, <2>4 DEF header
<1>12. ASSUME NEW k \in (HeapHeaderSize + 1)..lower PROVE bytes[k] = without[k]
  <2>1. k \in (HeapHeaderSize + 1)..lower /\ k \in 1..PageSize /\ k > CommonSize
    BY <1>9
  <2>2. EncodeFields(entries, slots, Zeroes(PageSize))[k] = page[k]
    BY <1>4, <1>5, <1>9, <2>1, LayerRestored
  <2>3. without[k] = page[k]
    BY <2>1, WithoutBeyond DEF without
  <2> QED
    BY <1>7, <2>1, <2>2, <2>3
<1>13. ASSUME NEW k \in 1..lower PROVE bytes[k] = without[k]
  BY <1>9, <1>10, <1>11, <1>12
<1>14. /\ Subspan(without, 0, lower) \in [1..lower -> Byte]
       /\ \A k \in 1..lower : Subspan(without, 0, lower)[k] = without[0 + k]
       /\ Subspan(bytes, 0, lower) \in [1..lower -> Byte]
       /\ \A k \in 1..lower : Subspan(bytes, 0, lower)[k] = bytes[0 + k]
  <2>1. 0 \in Nat /\ 0 + lower =< PageSize
    BY <1>9
  <2>2. /\ Subspan(without, 0, lower) \in [1..lower -> Byte]
        /\ \A k \in 1..lower : Subspan(without, 0, lower)[k] = without[0 + k]
    BY <1>8, <1>9, <2>1, PagePart
  <2>3. /\ Subspan(bytes, 0, lower) \in [1..lower -> Byte]
        /\ \A k \in 1..lower : Subspan(bytes, 0, lower)[k] = bytes[0 + k]
    BY <1>7, <1>9, <2>1, PagePart
  <2> QED
    BY <2>2, <2>3
<1>15. \A k \in 1..lower : Subspan(without, 0, lower)[k] = Subspan(bytes, 0, lower)[k]
  BY <1>9, <1>13, <1>14
<1>16. Subspan(without, 0, lower) = Subspan(bytes, 0, lower)
  BY <1>9, <1>14, <1>15, SameBytes
<1> QED
  BY <1>16 DEF c, bytes, without, lower

LEMMA FsmCommonAccepted ==
    ASSUME NEW page \in Page, NEW no \in 0..INVALID_PAGE_NO, FsmPageValid(no, page)
    PROVE  /\ IsFsmContent(DecodeFsm(page)) /\ Len(DecodeFsm(page).entries) =< Capacity
           /\ FsmCommon(no, DecodeFsm(page)) \in CommonHeaders
           /\ FsmCommon(no, DecodeFsm(page)).checksum_crc32c = 0
           /\ DecodeCommonPageHeader(page)
                 = [FsmCommon(no, DecodeFsm(page)) EXCEPT
                       !.checksum_crc32c = DecodeCommonPageHeader(page).checksum_crc32c]
<1>1. IsFsmContent(DecodeFsm(page)) /\ Len(DecodeFsm(page).entries) =< Capacity
  <2>1. /\ IsFsmContent(DecodeFsm(page))
        /\ Len(DecodeFsm(page).entries) = DecodeFsmPageHeader(page).entry_count
        /\ DecodeFsmPageHeader(page).entry_count \in 0..Capacity
    BY FsmDecoded
  <2>2. Capacity \in Nat
    BY Sizes, PageRoom DEF Capacity
  <2> QED
    BY <2>1, <2>2
<1>2. DecodeFsm(page).page_lsn = DecodeCommonPageHeader(page).page_lsn
  BY DEF DecodeFsm
<1>3. FsmCommon(no, DecodeFsm(page))
         = CommonPageHeader(FSM_DATA, DecodeCommonPageHeader(page).page_lsn, FsmHeaderSize, no)
  BY <1>2 DEF FsmCommon
<1>4. DecodeCommonPageHeader(page)
         = [CommonPageHeader(FSM_DATA, DecodeCommonPageHeader(page).page_lsn, FsmHeaderSize, no)
               EXCEPT !.checksum_crc32c = DecodeCommonPageHeader(page).checksum_crc32c]
  BY DEF FsmPageValid
<1>5. FsmCommon(no, DecodeFsm(page)) \in CommonHeaders
  BY <1>1, FsmTypes
<1>6. FsmCommon(no, DecodeFsm(page)).checksum_crc32c = 0
  BY <1>3, CommonHeaderNames
<1> QED
  BY <1>1, <1>3, <1>4, <1>5, <1>6, Zenon

LEMMA FsmCanonical ==
    ASSUME NEW page \in Page, NEW no \in 0..INVALID_PAGE_NO, FsmPageValid(no, page)
    PROVE  WithoutChecksum(page) = FsmPageBytes(no, DecodeFsm(page))
<1> DEFINE c == DecodeFsm(page)
           bytes == FsmPageBytes(no, c)
           without == WithoutChecksum(page)
           header == FsmHeader(no, c)
           decoded == DecodeFields(FsmFields, page)
           count == decoded.entry_count
           unused == Subspan(page, FsmHeaderSize + count, Capacity - count)
<1>1. /\ IsFsmContent(c) /\ Len(c.entries) =< Capacity
      /\ FsmCommon(no, c) \in CommonHeaders /\ FsmCommon(no, c).checksum_crc32c = 0
      /\ DecodeCommonPageHeader(page)
            = [FsmCommon(no, c) EXCEPT
                  !.checksum_crc32c = DecodeCommonPageHeader(page).checksum_crc32c]
  BY FsmCommonAccepted
<1>2. /\ Len(c.entries) = count /\ count \in 0..Capacity
      /\ \A k \in 1..count : c.entries[k] = page[FsmHeaderSize + k]
  BY FsmDecoded DEF DecodeFsmPageHeader
<1>3. /\ decoded.reserved16 = 0 /\ decoded.reserved32 = 0
      /\ decoded.first_heap_page_no = FirstHeapPageForFsmPage(no)
      /\ unused = Zeroes(Len(unused))
  BY DEF FsmPageValid, DecodeFsmPageHeader
<1>4. /\ bytes \in Page
      /\ \A k \in 1..CommonSize :
            bytes[k] = EncodeFields(CommonFields, FsmCommon(no, c), Zeroes(PageSize))[k]
      /\ \A k \in (CommonSize + 1)..FsmHeaderSize :
            bytes[k] = EncodeFields(FsmFields, header, Zeroes(PageSize))[k]
      /\ \A k \in (FsmHeaderSize + 1)..(FsmHeaderSize + count) :
            bytes[k] = c.entries[k - FsmHeaderSize]
      /\ \A k \in (FsmHeaderSize + count + 1)..PageSize : bytes[k] = 0
  BY <1>1, <1>2, FsmLayers
<1>5. without \in Page
  BY WithoutAt
<1>6. header = [first_heap_page_no |-> FirstHeapPageForFsmPage(no), entry_count |-> count,
                reserved16 |-> 0, reserved32 |-> 0]
  BY <1>2 DEF FsmHeader
<1>7. \A f \in DOMAIN FsmFields : header[f] = decoded[f]
  <2>1. DOMAIN FsmFields = {"first_heap_page_no", "entry_count", "reserved16", "reserved32"}
    BY DEF FsmFields
  <2> QED
    BY <1>3, <1>6, <2>1
<1> HIDE DEF c, bytes, without, header, count, unused
<1>8. /\ CommonSize \in Nat /\ FsmHeaderSize \in Nat /\ CommonSize < FsmHeaderSize
      /\ count \in Nat /\ FsmHeaderSize + count =< PageSize /\ PageSize \in Nat
      /\ FsmHeaderSize \in 0..PageSize /\ Capacity = PageSize - FsmHeaderSize
      /\ Capacity - count \in Nat
  BY <1>2, Sizes, PageRoom DEF Capacity
<1>9. ASSUME NEW k \in 1..CommonSize PROVE bytes[k] = without[k]
  BY <1>1, <1>4, CommonCanonical DEF without
<1>10. ASSUME NEW k \in (CommonSize + 1)..FsmHeaderSize PROVE bytes[k] = without[k]
  <2>1. k \in (CommonSize + 1)..FsmHeaderSize /\ k \in 1..PageSize /\ k > CommonSize
    BY <1>8
  <2>2. \A f \in DOMAIN FsmFields : header[f] = DecodeFields(FsmFields, page)[f]
    BY <1>7
  <2>3. EncodeFields(FsmFields, header, Zeroes(PageSize))[k] = page[k]
    BY <1>8, <2>1, <2>2, FsmTable, LayerRestored
  <2>4. without[k] = page[k]
    BY <2>1, WithoutBeyond DEF without
  <2> QED
    BY <1>4, <2>1, <2>3, <2>4
<1>11. ASSUME NEW k \in (FsmHeaderSize + 1)..(FsmHeaderSize + count) PROVE bytes[k] = without[k]
  <2> DEFINE j == k - FsmHeaderSize
  <2>1. /\ k \in 1..PageSize /\ k > CommonSize /\ j \in 1..count /\ FsmHeaderSize + j = k
    BY <1>8
  <2>2. without[k] = page[k]
    BY <2>1, WithoutBeyond DEF without
  <2> QED
    BY <1>2, <1>4, <2>1, <2>2
<1>12. ASSUME NEW k \in (FsmHeaderSize + count + 1)..PageSize PROVE bytes[k] = without[k]
  <2> DEFINE from == FsmHeaderSize + count
             size == Capacity - count
             j == k - from
  <2>1. /\ k \in 1..PageSize /\ k > CommonSize /\ j \in 1..size /\ from + j = k
        /\ from \in Nat /\ size \in Nat /\ from + size =< PageSize
    BY <1>8
  <2>2. without[k] = page[k]
    BY <2>1, WithoutBeyond DEF without
  <2>3. unused = Subspan(page, from, size)
    BY DEF unused
  <2> HIDE DEF from, size, j
  <2>8. /\ Subspan(page, from, size) \in [1..size -> Byte]
        /\ \A i \in 1..size : Subspan(page, from, size)[i] = page[from + i]
    BY <2>1, PagePart
  <2>4. unused \in [1..size -> Byte] /\ unused[j] = page[from + j]
    BY <2>1, <2>3, <2>8
  <2>5. Len(unused) = size
    BY <2>1, <2>4
  <2>6. Zeroes(size)[j] = 0
    BY <2>1, ZeroesType
  <2>7. unused[j] = 0
    BY <1>3, <2>5, <2>6
  <2> QED
    BY <1>4, <2>1, <2>2, <2>4, <2>7
<1>13. ASSUME NEW k \in 1..PageSize PROVE without[k] = bytes[k]
  BY <1>8, <1>9, <1>10, <1>11, <1>12
<1>14. without = bytes
  BY <1>4, <1>5, <1>13, SamePages
<1> QED
  BY <1>14 DEF without, bytes, c

(* What DecodeFileSuperblock, the heap page validator or FsmPage::Validate accepts, whatever the *)
(* bytes, is byte for byte what the encoder makes of the decoded fields: no reserved byte, flag  *)
(* or leftover entry escapes the validators.                                                     *)
THEOREM AnyAcceptedPageIsCanonical ==
    ASSUME NEW page \in [1..PageSize -> Byte], NEW no \in 0..INVALID_PAGE_NO
    PROVE  /\ SuperblockDecodes(page) => page = EncodeFileSuperblock(DecodeFileSuperblock(page))
           /\ HeapHeaderValid(no, page) =>
                 LET lower == DecodeHeapPageHeader(page).lower IN
                 Subspan(WithoutChecksum(page), 0, lower)
                    = Subspan(HeapPageBytes(no, DecodeHeap(page)), 0, lower)
           /\ FsmPageValid(no, page) => WithoutChecksum(page) = FsmPageBytes(no, DecodeFsm(page))
<1>1. page \in Page
  BY DEF Page
<1>2. SuperblockDecodes(page) => page = EncodeFileSuperblock(DecodeFileSuperblock(page))
  BY <1>1, SuperblockCanonical
<1>3. HeapHeaderValid(no, page) =>
         LET lower == DecodeHeapPageHeader(page).lower IN
         Subspan(WithoutChecksum(page), 0, lower)
            = Subspan(HeapPageBytes(no, DecodeHeap(page)), 0, lower)
  BY <1>1, HeapCanonical
<1>4. FsmPageValid(no, page) => WithoutChecksum(page) = FsmPageBytes(no, DecodeFsm(page))
  BY <1>1, FsmCanonical
<1> QED
  BY <1>2, <1>3, <1>4

LEMMA ImageInvCanonical == ImageInv => AcceptedIsCanonical
<1> SUFFICES ASSUME ImageInv, image # << >> PROVE
        /\ SuperblockDecodes(image) => image = EncodeFileSuperblock(DecodeFileSuperblock(image))
        /\ HeapHeaderValid(location, image) =>
              LET lower == DecodeHeapPageHeader(image).lower IN
              Subspan(WithoutChecksum(image), 0, lower)
                = Subspan(HeapPageBytes(location, DecodeHeap(image)), 0, lower)
        /\ FsmPageValid(location, image) =>
              WithoutChecksum(image) = FsmPageBytes(location, DecodeFsm(image))
  BY DEF AcceptedIsCanonical
<1>1. image \in Page /\ location \in 0..INVALID_PAGE_NO
  <2>1. image \in Page /\ location \in 0..(INVALID_PAGE_NO - 1)
    BY DEF ImageInv, ImageTypes
  <2>2. INVALID_PAGE_NO \in Nat
    BY Widths
  <2> QED
    BY <2>1, <2>2
<1> QED
  BY <1>1, SuperblockCanonical, HeapCanonical, FsmCanonical

(* In every state of a page's place: what DecodeFileSuperblock, the heap page validator or       *)
(* FsmPage::Validate accepts of the altered, misdirected or decayed bytes found there is byte    *)
(* for byte what the encoder makes of the decoded fields.                                        *)
THEOREM AcceptedAreCanonical == ImageSpec => []AcceptedIsCanonical
<1>1. ImageInv => AcceptedIsCanonical
  BY ImageInvCanonical
<1> QED
  BY <1>1, ImageInvariant, PTL

-----------------------------------------------------------------------------
(* A stored page is accepted by its owner, with what was stored. *)

(* Beyond the common header a page that agrees outside the checksum agrees everywhere. *)
LEMMA AgreeBeyond ==
    ASSUME NEW page \in Page, NEW bytes \in Page,
           \A k \in 1..PageSize : InChecksum(k) \/ page[k] = bytes[k]
    PROVE  \A k \in 1..PageSize : k > CommonSize => page[k] = bytes[k]
BY BeyondCommon, PageRoom

LEMMA FileFieldsStored ==
    ASSUME NEW c, IsFileContent(c), NEW page \in Page,
           \A k \in (MagicOffset + 2 * WordSize + 1)..SuperblockSize : page[k] = FileBytes(c)[k]
    PROVE  /\ DOMAIN DecodeFields(SuperblockFields, page) = DOMAIN SuperblockFields
           /\ \A f \in DOMAIN SuperblockFields :
                 DecodeFields(SuperblockFields, page)[f] = FileFields(c)[f]
<1> DEFINE low == MagicOffset + 2 * WordSize
           record == FileFields(c)
<1>1. low \in Nat /\ SuperblockSize \in 0..PageSize
  BY Sizes, PageRoom
<1>2. \A f \in DOMAIN SuperblockFields : record[f] \in 0..MaxOf(SuperblockFields[f][2])
  BY FileTypes
<1>3. Tiles(SuperblockFields, low, SuperblockSize)
  BY SuperblockTable
<1>4. \A k \in (low + 1)..SuperblockSize :
         page[k] = EncodeFields(SuperblockFields, record, Zeroes(PageSize))[k]
  BY FileLayers
<1> HIDE DEF low, record
<1>5. DOMAIN DecodeFields(SuperblockFields, page) = DOMAIN SuperblockFields
  BY DEF DecodeFields
<1>6. ASSUME NEW f \in DOMAIN SuperblockFields
      PROVE  DecodeFields(SuperblockFields, page)[f] = record[f]
  <2>1. record[f] \in 0..MaxOf(SuperblockFields[f][2])
    BY <1>2
  <2> QED
    BY <1>1, <1>3, <1>4, <2>1, LayerRead
<1> QED
  BY <1>5, <1>6 DEF record

LEMMA FileStored ==
    ASSUME NEW c, IsFileContent(c), IsSupportedGenericFileKind(c.file_kind),
           NEW page \in Page, VerifyPageChecksum(page),
           \A k \in 1..PageSize : InChecksum(k) \/ page[k] = FileBytes(c)[k],
           DecodeCommonPageHeader(page)
              = [FileCommon(c) EXCEPT !.checksum_crc32c = DecodeCommonPageHeader(page).checksum_crc32c]
    PROVE  SuperblockDecodes(page) /\ DecodeFileSuperblock(page) = c
<1> DEFINE common == DecodeCommonPageHeader(page)
           fields == DecodeFields(SuperblockFields, page)
           start == MagicOffset + 2 * WordSize
<1>1. /\ FileBytes(c) \in Page
      /\ \A k \in (MagicOffset + 1)..start : FileBytes(c)[k] = Magic[k - MagicOffset]
      /\ \A k \in (start + 1)..SuperblockSize :
            FileBytes(c)[k] = EncodeFields(SuperblockFields, FileFields(c), Zeroes(PageSize))[k]
      /\ \A k \in (SuperblockSize + 1)..PageSize : FileBytes(c)[k] = 0
  BY FileLayers
<1>2. /\ MagicOffset = CommonSize /\ start \in Nat /\ start =< SuperblockSize /\ SuperblockSize \in Nat
      /\ CommonSize \in Nat /\ PageSize \in Nat /\ SuperblockSize =< PageSize
      /\ WordSize \in Nat /\ start = MagicOffset + 2 * WordSize /\ SuperblockSize \in 0..PageSize
  BY Sizes, PageRoom DEF SuperblockSize
<1>3. \A k \in 1..PageSize : k > CommonSize => page[k] = FileBytes(c)[k]
  BY <1>1, AgreeBeyond
<1>4. /\ DOMAIN fields = DOMAIN SuperblockFields
      /\ \A f \in DOMAIN SuperblockFields : fields[f] = FileFields(c)[f]
  <2>1. \A k \in (start + 1)..SuperblockSize : page[k] = FileBytes(c)[k]
    BY <1>2, <1>3
  <2> QED
    BY <2>1, FileFieldsStored
<1>5. DOMAIN SuperblockFields = {"file_kind", "reserved16", "page_size", "file_id", "reserved32",
                                 "object_id", "creation_epoch"}
  BY DEF SuperblockFields
<1> HIDE DEF fields
<1>6. /\ fields.file_kind = c.file_kind /\ fields.reserved16 = 0 /\ fields.page_size = PageSize
      /\ fields.file_id = c.file_id /\ fields.reserved32 = 0
      /\ fields.object_id = c.object_id /\ fields.creation_epoch = c.creation_epoch
  BY <1>4, <1>5 DEF FileFields
<1>7. Subspan(page, MagicOffset, Len(Magic)) = Magic
  <2> DEFINE m == Len(Magic)
             got == Subspan(page, MagicOffset, m)
  <2>1. m = 2 * WordSize /\ m \in Nat /\ MagicOffset \in Nat /\ MagicOffset + m =< PageSize
        /\ Magic \in [1..m -> Byte]
    BY <1>2, PageImageAssumption
  <2> HIDE DEF m
  <2>2. got \in [1..m -> Byte] /\ \A k \in 1..m : got[k] = page[MagicOffset + k]
    BY <2>1, PagePart
  <2>3. ASSUME NEW k \in 1..m PROVE got[k] = Magic[k]
    <3>1. /\ MagicOffset + k \in (MagicOffset + 1)..start /\ MagicOffset + k \in 1..PageSize
          /\ MagicOffset + k > CommonSize /\ (MagicOffset + k) - MagicOffset = k
      BY <1>2, <2>1
    <3> HIDE DEF got, start
    <3> QED
      BY <1>1, <1>3, <2>2, <3>1
  <2> HIDE DEF got
  <2>4. got = Magic
    BY <2>1, <2>2, <2>3, SameBytes
  <2> QED
    BY <2>4 DEF got, m
<1>8. TrailingReservedIsZero(page)
  <2> DEFINE m == PageSize - SuperblockSize
             got == Subspan(page, SuperblockSize, m)
  <2>1. m \in Nat /\ SuperblockSize + m = PageSize
    BY <1>2
  <2> HIDE DEF m
  <2>2. got \in [1..m -> Byte] /\ \A k \in 1..m : got[k] = page[SuperblockSize + k]
    BY <1>2, <2>1, PagePart
  <2>3. Zeroes(m) \in [1..m -> Byte] /\ \A k \in 1..m : Zeroes(m)[k] = 0
    BY <2>1, ZeroesType
  <2>4. ASSUME NEW k \in 1..m PROVE got[k] = Zeroes(m)[k]
    <3>1. /\ SuperblockSize + k \in (SuperblockSize + 1)..PageSize /\ SuperblockSize + k \in 1..PageSize
          /\ SuperblockSize + k > CommonSize
      BY <1>2, <2>1
    <3> HIDE DEF got
    <3> QED
      BY <1>1, <1>3, <2>2, <2>3, <3>1
  <2> HIDE DEF got
  <2>5. got = Zeroes(m)
    BY <2>1, <2>2, <2>3, <2>4, SameBytes
  <2> QED
    BY <2>5 DEF TrailingReservedIsZero, got, m
<1>9. FileCommon(c) \in CommonHeaders
  BY FileTypes
<1> HIDE DEF common
<1>10. /\ common = [FileCommon(c) EXCEPT !.checksum_crc32c = common.checksum_crc32c]
  BY DEF common
<1>11. common.page_lsn = c.page_lsn
  BY <1>10 DEF FileCommon, CommonPageHeader
<1>12. common = [CommonPageHeader(SUPERBLOCK, common.page_lsn, SuperblockSize, 0)
                    EXCEPT !.checksum_crc32c = common.checksum_crc32c]
  BY <1>10, <1>11 DEF FileCommon
<1>13. SuperblockDecodes(page)
  <2>1. IsSupportedGenericFileKind(fields.file_kind)
    BY <1>6
  <2> QED
    BY <1>6, <1>7, <1>8, <1>12, <2>1 DEF SuperblockDecodes, common, fields
<1>14. DecodeFileSuperblock(page)
          = [owner |-> "FILE", page_lsn |-> c.page_lsn, file_kind |-> c.file_kind,
             file_id |-> c.file_id, object_id |-> c.object_id, creation_epoch |-> c.creation_epoch]
  <2>1. DecodeFileSuperblock(page)
          = [owner |-> "FILE", page_lsn |-> common.page_lsn,
             file_kind |-> fields.file_kind, file_id |-> fields.file_id,
             object_id |-> fields.object_id, creation_epoch |-> fields.creation_epoch]
    BY DEF DecodeFileSuperblock, common, fields
  <2> QED
    BY <1>6, <1>11, <2>1
<1>15. c = [owner |-> "FILE", page_lsn |-> c.page_lsn, file_kind |-> c.file_kind,
            file_id |-> c.file_id, object_id |-> c.object_id, creation_epoch |-> c.creation_epoch]
  BY DEF IsFileContent
<1> QED
  BY <1>13, <1>14, <1>15

LEMMA HeapHeaderStored ==
    ASSUME NEW c, IsHeapContent(c), NEW no \in 0..INVALID_PAGE_NO, NEW page \in Page,
           \A k \in (CommonSize + 1)..HeapHeaderSize : page[k] = HeapPageBytes(no, c)[k]
    PROVE  DecodeHeapPageHeader(page) = c.header
<1> DEFINE header == c.header
           d == DecodeFields(HeapFields, page)
<1>1. CommonSize \in Nat /\ HeapHeaderSize \in 0..PageSize
  BY Sizes, PageRoom
<1>2. /\ DOMAIN HeapFields = {"slot_count", "free_slot_head", "lower", "upper", "prune_hint",
                              "reserved"}
      /\ \A f \in DOMAIN HeapFields : header[f] \in 0..MaxOf(HeapFields[f][2])
  BY HeapTypes
<1>3. \A k \in (CommonSize + 1)..HeapHeaderSize :
         page[k] = EncodeFields(HeapFields, header, Zeroes(PageSize))[k]
  BY HeapLayers
<1>4. header = [slot_count |-> header.slot_count, free_slot_head |-> header.free_slot_head,
                lower |-> header.lower, upper |-> header.upper, prune_hint |-> header.prune_hint,
                reserved |-> header.reserved]
  BY DEF IsHeapContent
<1> HIDE DEF header, d
<1>5. ASSUME NEW f \in DOMAIN HeapFields PROVE d[f] = header[f]
  <2>1. header[f] \in 0..MaxOf(HeapFields[f][2])
    BY <1>2
  <2> QED
    BY <1>1, <1>3, <2>1, HeapTable, LayerRead DEF d
<1>6. d = [f \in {"slot_count", "free_slot_head", "lower", "upper", "prune_hint", "reserved"} |-> d[f]]
  <2>1. d = [f \in DOMAIN HeapFields |->
                DecodeLittleEndian(Subspan(page, HeapFields[f][1], HeapFields[f][2]))]
    BY DEF d, DecodeFields
  <2> QED
    BY <1>2, <2>1
<1>7. d = header
  BY <1>2, <1>4, <1>5, <1>6
<1> QED
  BY <1>7 DEF d, header, DecodeHeapPageHeader

LEMMA HeapSlotStored ==
    ASSUME NEW c, IsHeapContent(c), NEW no \in 0..INVALID_PAGE_NO, NEW page \in Page,
           \A k \in (HeapHeaderSize + 1)..c.header.lower : page[k] = HeapPageBytes(no, c)[k],
           NEW s \in 0..(c.header.slot_count - 1)
    PROVE  DecodeFields(SlotFields(s), page) = c.slots[s]
<1> DEFINE n == c.header.slot_count
           lower == c.header.lower
           entries == HeapEntries(c)
           record == HeapSlots(c)
           d == DecodeFields(SlotFields(s), page)
           slot == c.slots[s]
<1>1. /\ n \in Nat /\ lower = HeapHeaderSize + n * SlotSize /\ lower \in HeapHeaderSize..PageSize
      /\ \A e \in DOMAIN entries : record[e] \in 0..MaxOf(entries[e][2])
  BY HeapTypes
<1>2. /\ HeapHeaderSize \in Nat /\ lower \in 0..PageSize /\ HeapHeaderSize + n * SlotSize =< PageSize
  BY <1>1, Sizes, PageRoom
<1>3. \A k \in (HeapHeaderSize + 1)..lower :
         page[k] = EncodeFields(entries, record, Zeroes(PageSize))[k]
  BY HeapLayers
<1>4. entries = DirectoryFields(0..(n - 1))
  BY DEF HeapEntries
<1>5. slot = [tuple_offset |-> slot.tuple_offset, tuple_length |-> slot.tuple_length,
              state |-> slot.state, aux |-> slot.aux]
  BY DEF IsHeapContent
<1>6. Tiles(entries, HeapHeaderSize, lower)
  BY <1>1, <1>4, DirectoryTable
<1>7. s \in 0..(n - 1)
  OBVIOUS
<1>8. record = [e \in DOMAIN entries |-> c.slots[e[1]][e[2]]]
  BY DEF HeapSlots
<1> HIDE DEF n, lower, entries, record, d
<1>9. DOMAIN entries = (0..(n - 1)) \X SlotNames
  BY <1>1, <1>4, DirectoryDomain
<1>10. ASSUME NEW a \in SlotNames PROVE d[a] = slot[a]
  <2> DEFINE e == <<s, a>>
  <2>1. e \in DOMAIN entries
    BY <1>7, <1>9
  <2>2. record[e] = slot[a]
    BY <1>8, <2>1
  <2> HIDE DEF e, slot
  <2>3. record[e] \in 0..MaxOf(entries[e][2])
    BY <1>1, <2>1
  <2>4. DecodeFields(entries, page)[e] = record[e]
    BY <1>2, <1>3, <1>6, <2>1, <2>3, LayerRead
  <2>5. DecodeFields(SlotFields(s), page)[a] = DecodeFields(DirectoryFields(0..(n - 1)), page)[<<s, a>>]
    BY <1>1, <1>2, <1>7, DirectoryDecoded
  <2> QED
    BY <1>4, <2>2, <2>4, <2>5 DEF d, e
<1>11. d = [a \in SlotNames |-> d[a]]
  <2>1. DOMAIN SlotFields(s) = SlotNames
    BY <1>1, <1>7, SlotFieldsAt DEF SlotNames
  <2>2. d = [a \in DOMAIN SlotFields(s) |->
                DecodeLittleEndian(Subspan(page, SlotFields(s)[a][1], SlotFields(s)[a][2]))]
    BY DEF d, DecodeFields
  <2> QED
    BY <2>1, <2>2
<1> HIDE DEF slot
<1>12. d = slot
  BY <1>5, <1>10, <1>11 DEF SlotNames
<1> QED
  BY <1>12 DEF d, slot

LEMMA HeapStored ==
    ASSUME NEW c, IsHeapContent(c), NEW no \in 0..INVALID_PAGE_NO, no \notin {0, INVALID_PAGE_NO},
           NEW page \in Page,
           \A k \in 1..PageSize : InChecksum(k) \/ page[k] = HeapPageBytes(no, c)[k],
           DecodeCommonPageHeader(page)
              = [HeapCommon(no, c) EXCEPT !.checksum_crc32c = DecodeCommonPageHeader(page).checksum_crc32c]
    PROVE  HeapHeaderValid(no, page) /\ DecodeHeap(page) = c
<1> DEFINE common == DecodeCommonPageHeader(page)
           lower == c.header.lower
           n == c.header.slot_count
<1>1. /\ HeapPageBytes(no, c) \in Page
      /\ lower \in HeapHeaderSize..PageSize /\ CommonSize \in Nat /\ HeapHeaderSize \in Nat
      /\ CommonSize < HeapHeaderSize /\ PageSize \in Nat
  BY HeapLayers, HeapTypes, Sizes, PageRoom
<1>2. \A k \in 1..PageSize : k > CommonSize => page[k] = HeapPageBytes(no, c)[k]
  BY <1>1, AgreeBeyond
<1>3. DecodeHeapPageHeader(page) = c.header
  <2>1. \A k \in (CommonSize + 1)..HeapHeaderSize : page[k] = HeapPageBytes(no, c)[k]
    BY <1>1, <1>2
  <2> QED
    BY <2>1, HeapHeaderStored
<1>4. \A s \in 0..(n - 1) : DecodeFields(SlotFields(s), page) = c.slots[s]
  <2>1. \A k \in (HeapHeaderSize + 1)..lower : page[k] = HeapPageBytes(no, c)[k]
    BY <1>1, <1>2
  <2> QED
    BY <2>1, HeapSlotStored
<1>5. c.slots = [s \in 0..(n - 1) |-> c.slots[s]]
  BY DEF IsHeapContent
<1>6. DecodeSlotDirectory(page) = c.slots
  <2>1. DecodeSlotDirectory(page) = [s \in 0..(n - 1) |-> DecodeFields(SlotFields(s), page)]
    BY <1>3 DEF DecodeSlotDirectory
  <2> QED
    BY <1>4, <1>5, <2>1
<1> HIDE DEF common
<1>7. common = [HeapCommon(no, c) EXCEPT !.checksum_crc32c = common.checksum_crc32c]
  BY DEF common
<1>8. common.page_lsn = c.page_lsn
  BY <1>7 DEF HeapCommon, CommonPageHeader
<1>9. ValidateCommonHeader(page, no)
  <2>1. common = [CommonPageHeader(HEAP_DATA, common.page_lsn, HeapHeaderSize, no)
                    EXCEPT !.checksum_crc32c = common.checksum_crc32c]
    BY <1>7, <1>8 DEF HeapCommon
  <2> QED
    BY <2>1 DEF ValidateCommonHeader, common
<1>10. \A s \in 0..(n - 1) : c.slots[s].state \in 0..3
  BY DEF IsHeapContent
<1>11. HeapHeaderValid(no, page)
  <2>1. ValidateHeapHeaderGeometry(DecodeHeapPageHeader(page))
    BY <1>3 DEF IsHeapContent
  <2>2. \A s \in DOMAIN DecodeSlotDirectory(page) :
          IsValidHeapSlotState(DecodeSlotDirectory(page)[s].state)
    BY <1>5, <1>6, <1>10 DEF IsValidHeapSlotState
  <2> QED
    BY <1>9, <2>1, <2>2 DEF HeapHeaderValid
<1>12. DecodeHeap(page) = [owner |-> "HEAP", page_lsn |-> c.page_lsn, header |-> c.header,
                           slots |-> c.slots]
  <2>1. DecodeCommonPageHeader(page).page_lsn = c.page_lsn
    BY <1>8 DEF common
  <2> QED
    BY <1>3, <1>6, <2>1 DEF DecodeHeap
<1>13. c = [owner |-> "HEAP", page_lsn |-> c.page_lsn, header |-> c.header, slots |-> c.slots]
  BY DEF IsHeapContent
<1> QED
  BY <1>11, <1>12, <1>13

LEMMA FsmHeaderStored ==
    ASSUME NEW c, IsFsmContent(c), Len(c.entries) =< Capacity, NEW no \in 0..INVALID_PAGE_NO,
           NEW page \in Page,
           \A k \in (CommonSize + 1)..FsmHeaderSize : page[k] = FsmPageBytes(no, c)[k]
    PROVE  \A f \in DOMAIN FsmFields : DecodeFsmPageHeader(page)[f] = FsmHeader(no, c)[f]
<1> DEFINE header == FsmHeader(no, c)
<1>1. CommonSize \in Nat /\ FsmHeaderSize \in 0..PageSize
  BY Sizes, PageRoom
<1>2. \A f \in DOMAIN FsmFields : header[f] \in 0..MaxOf(FsmFields[f][2])
  BY FsmTypes
<1>3. \A k \in (CommonSize + 1)..FsmHeaderSize :
         page[k] = EncodeFields(FsmFields, header, Zeroes(PageSize))[k]
  BY FsmLayers
<1> HIDE DEF header
<1>4. ASSUME NEW f \in DOMAIN FsmFields PROVE DecodeFields(FsmFields, page)[f] = header[f]
  <2>1. header[f] \in 0..MaxOf(FsmFields[f][2])
    BY <1>2
  <2> QED
    BY <1>1, <1>3, <2>1, FsmTable, LayerRead
<1> QED
  BY <1>4 DEF DecodeFsmPageHeader, header

LEMMA FsmStored ==
    ASSUME NEW c, IsFsmContent(c), Len(c.entries) =< Capacity, NEW no \in 0..INVALID_PAGE_NO,
           FirstHeapPageForFsmPage(no) # INVALID_PAGE_NO,
           InitializedRangeFits(FirstHeapPageForFsmPage(no), Len(c.entries)),
           NEW page \in Page,
           \A k \in 1..PageSize : InChecksum(k) \/ page[k] = FsmPageBytes(no, c)[k],
           DecodeCommonPageHeader(page)
              = [FsmCommon(no, c) EXCEPT !.checksum_crc32c = DecodeCommonPageHeader(page).checksum_crc32c]
    PROVE  FsmPageValid(no, page) /\ DecodeFsm(page) = c
<1> DEFINE common == DecodeCommonPageHeader(page)
           header == DecodeFsmPageHeader(page)
           count == Len(c.entries)
           from == FsmHeaderSize + count
           size == Capacity - count
           unused == Subspan(page, from, size)
           got == Subspan(page, FsmHeaderSize, count)
<1>1. /\ FsmPageBytes(no, c) \in Page
      /\ \A k \in (FsmHeaderSize + 1)..from : FsmPageBytes(no, c)[k] = c.entries[k - FsmHeaderSize]
      /\ \A k \in (from + 1)..PageSize : FsmPageBytes(no, c)[k] = 0
  BY FsmLayers
<1>2. count \in Nat /\ c.entries \in [1..count -> Byte]
  BY FsmTypes
<1>3. /\ CommonSize \in Nat /\ FsmHeaderSize \in Nat /\ CommonSize < FsmHeaderSize /\ PageSize \in Nat
      /\ from \in Nat /\ size \in Nat /\ from + size = PageSize /\ from = FsmHeaderSize + count
      /\ FsmHeaderSize < PageSize
  <2>1. count =< Capacity /\ Capacity = PageSize - FsmHeaderSize
    BY DEF Capacity
  <2>2. /\ CommonSize \in Nat /\ FsmHeaderSize \in Nat /\ CommonSize < FsmHeaderSize
        /\ PageSize \in Nat /\ FsmHeaderSize < PageSize
    BY Sizes, PageRoom
  <2> HIDE DEF count
  <2> QED
    BY SMTT(30), <1>2, <2>1, <2>2
<1>4. \A k \in 1..PageSize : k > CommonSize => page[k] = FsmPageBytes(no, c)[k]
  BY <1>1, AgreeBeyond
<1>5. \A f \in DOMAIN FsmFields : header[f] = FsmHeader(no, c)[f]
  <2>1. \A k \in (CommonSize + 1)..FsmHeaderSize : page[k] = FsmPageBytes(no, c)[k]
    BY SMTT(30), <1>3, <1>4
  <2> QED
    BY <2>1, FsmHeaderStored
<1>6. DOMAIN FsmFields = {"first_heap_page_no", "entry_count", "reserved16", "reserved32"}
  BY DEF FsmFields
<1> HIDE DEF count, from, size, unused, got, header
<1>7. /\ header.first_heap_page_no = FirstHeapPageForFsmPage(no) /\ header.entry_count = count
      /\ header.reserved16 = 0 /\ header.reserved32 = 0
  BY <1>5, <1>6 DEF FsmHeader, count
<1>8. unused = Zeroes(Len(unused))
  <2>1. unused \in [1..size -> Byte] /\ \A k \in 1..size : unused[k] = page[from + k]
    BY <1>3, PagePart DEF unused
  <2>2. Zeroes(size) \in [1..size -> Byte] /\ \A k \in 1..size : Zeroes(size)[k] = 0
    BY <1>3, ZeroesType
  <2>3. ASSUME NEW k \in 1..size PROVE unused[k] = Zeroes(size)[k]
    <3>1. from + k \in (from + 1)..PageSize /\ from + k \in 1..PageSize /\ from + k > CommonSize
      BY SMTT(30), <1>2, <1>3
    <3> QED
      BY <1>1, <1>4, <2>1, <2>2, <3>1
  <2>4. unused = Zeroes(size)
    BY <1>3, <2>1, <2>2, <2>3, SameBytes
  <2>5. Len(unused) = size
    BY <1>3, <2>1
  <2> QED
    BY <2>4, <2>5
<1>9. got = c.entries
  <2>1. FsmHeaderSize + count =< PageSize
    BY <1>3
  <2>2. got \in [1..count -> Byte] /\ \A k \in 1..count : got[k] = page[FsmHeaderSize + k]
    BY <1>2, <1>3, <2>1, PagePart DEF got
  <2>3. ASSUME NEW k \in 1..count PROVE got[k] = c.entries[k]
    <3>1. /\ FsmHeaderSize + k \in (FsmHeaderSize + 1)..from /\ FsmHeaderSize + k \in 1..PageSize
          /\ FsmHeaderSize + k > CommonSize /\ (FsmHeaderSize + k) - FsmHeaderSize = k
      BY <1>2, <1>3
    <3> QED
      BY <1>1, <1>4, <2>2, <3>1
  <2> QED
    BY <1>2, <2>2, <2>3, SameBytes
<1> HIDE DEF common
<1>10. common = [FsmCommon(no, c) EXCEPT !.checksum_crc32c = common.checksum_crc32c]
  BY DEF common
<1>11. common.page_lsn = c.page_lsn
  BY <1>10 DEF FsmCommon, CommonPageHeader
<1>12. common = [CommonPageHeader(FSM_DATA, common.page_lsn, FsmHeaderSize, no)
                    EXCEPT !.checksum_crc32c = common.checksum_crc32c]
  BY <1>10, <1>11 DEF FsmCommon
<1>13. FsmPageValid(no, page)
  <2>1. unused = Subspan(page, FsmHeaderSize + header.entry_count, Capacity - header.entry_count)
    BY <1>7 DEF unused, from, size
  <2>2. header.entry_count =< Capacity
    BY <1>7 DEF count
  <2>3. InitializedRangeFits(header.first_heap_page_no, header.entry_count)
    BY <1>7 DEF count
  <2> QED
    BY <1>7, <1>8, <1>12, <2>1, <2>2, <2>3 DEF FsmPageValid, common, header
<1>14. DecodeFsm(page) = [owner |-> "FSM", page_lsn |-> c.page_lsn, entries |-> c.entries]
  <2>1. DecodeCommonPageHeader(page).page_lsn = c.page_lsn
    BY <1>11 DEF common
  <2>2. Subspan(page, FsmHeaderSize, DecodeFsmPageHeader(page).entry_count) = c.entries
    BY <1>7, <1>9 DEF header, got
  <2> QED
    BY <2>1, <2>2 DEF DecodeFsm
<1>15. c = [owner |-> "FSM", page_lsn |-> c.page_lsn, entries |-> c.entries]
  BY DEF IsFsmContent
<1> QED
  BY <1>13, <1>14, <1>15

(* A validator accepts only pages of its own type. *)
LEMMA AcceptedTypes ==
    ASSUME NEW page \in Page, NEW no
    PROVE  /\ SuperblockDecodes(page) => DecodeCommonPageHeader(page).page_type = SUPERBLOCK
           /\ HeapHeaderValid(no, page) => DecodeCommonPageHeader(page).page_type = HEAP_DATA
           /\ FsmPageValid(no, page) => DecodeCommonPageHeader(page).page_type = FSM_DATA
<1> DEFINE common == DecodeCommonPageHeader(page)
<1>1. SuperblockDecodes(page) =>
         common = [CommonPageHeader(SUPERBLOCK, common.page_lsn, SuperblockSize, 0)
                      EXCEPT !.checksum_crc32c = common.checksum_crc32c]
  BY DEF SuperblockDecodes
<1>2. HeapHeaderValid(no, page) =>
         common = [CommonPageHeader(HEAP_DATA, common.page_lsn, HeapHeaderSize, no)
                      EXCEPT !.checksum_crc32c = common.checksum_crc32c]
  BY DEF HeapHeaderValid, ValidateCommonHeader
<1>3. FsmPageValid(no, page) =>
         common = [CommonPageHeader(FSM_DATA, common.page_lsn, FsmHeaderSize, no)
                      EXCEPT !.checksum_crc32c = common.checksum_crc32c]
  BY DEF FsmPageValid
<1> HIDE DEF common
<1>4. SuperblockDecodes(page) => common.page_type = SUPERBLOCK
  BY <1>1 DEF CommonPageHeader
<1>5. HeapHeaderValid(no, page) => common.page_type = HEAP_DATA
  BY <1>2 DEF CommonPageHeader
<1>6. FsmPageValid(no, page) => common.page_type = FSM_DATA
  BY <1>3 DEF CommonPageHeader
<1> QED
  BY <1>4, <1>5, <1>6 DEF common

LEMMA StoredLoads ==
    ASSUME NEW c \in Contents, NEW no \in 0..(INVALID_PAGE_NO - 1), Owns(c, no),
           NEW checksum \in [1..WordSize -> Byte], NEW page, page = Written(no, c, checksum)
    PROVE  /\ page \in Page
           /\ ValidateLoadedPage(no, page)
           /\ \/ c.owner = "FILE" /\ SuperblockDecodes(page) /\ DecodeFileSuperblock(page) = c
              \/ c.owner = "HEAP" /\ HeapHeaderValid(no, page) /\ DecodeHeap(page) = c
              \/ c.owner = "FSM" /\ FsmPageValid(no, page) /\ DecodeFsm(page) = c
<1>1. /\ page \in Page /\ VerifyPageChecksum(page)
      /\ \A k \in 1..PageSize : InChecksum(k) \/ page[k] = EncodedPage(no, c)[k]
  BY WrittenAt
<1>2. /\ DecodeCommonPageHeader(page)
            = [EncodedCommon(no, c) EXCEPT
                  !.checksum_crc32c = DecodeCommonPageHeader(page).checksum_crc32c]
      /\ DecodeCommonPageHeader(page).page_no = no
  BY <1>1, WrittenHeader
<1>3. ValidateLoadedPage(no, page)
  BY <1>1, <1>2 DEF ValidateLoadedPage
<1>4. no \in 0..INVALID_PAGE_NO
  BY Widths
<1>5. CASE c.owner = "FILE"
  <2>1. IsFileContent(c) /\ IsSupportedGenericFileKind(c.file_kind)
    BY <1>5, OwnedContent
  <2>2. EncodedPage(no, c) = FileBytes(c) /\ EncodedCommon(no, c) = FileCommon(c)
    BY <1>5 DEF EncodedPage, EncodedCommon
  <2>3. SuperblockDecodes(page) /\ DecodeFileSuperblock(page) = c
    BY <1>1, <1>2, <2>1, <2>2, FileStored
  <2> QED
    BY <1>1, <1>3, <1>5, <2>3
<1>6. CASE c.owner = "HEAP"
  <2>1. IsHeapContent(c) /\ no \notin {0, INVALID_PAGE_NO}
    BY <1>6, OwnedContent
  <2>2. EncodedPage(no, c) = HeapPageBytes(no, c) /\ EncodedCommon(no, c) = HeapCommon(no, c)
    BY <1>6 DEF EncodedPage, EncodedCommon
  <2>3. HeapHeaderValid(no, page) /\ DecodeHeap(page) = c
    BY <1>1, <1>2, <1>4, <2>1, <2>2, HeapStored
  <2> QED
    BY <1>1, <1>3, <1>6, <2>3
<1>7. CASE c.owner = "FSM"
  <2>1. /\ IsFsmContent(c) /\ Len(c.entries) =< Capacity
        /\ FirstHeapPageForFsmPage(no) # INVALID_PAGE_NO
        /\ InitializedRangeFits(FirstHeapPageForFsmPage(no), Len(c.entries))
    BY <1>7, OwnedContent
  <2>2. EncodedPage(no, c) = FsmPageBytes(no, c) /\ EncodedCommon(no, c) = FsmCommon(no, c)
    BY <1>7 DEF EncodedPage, EncodedCommon
  <2>3. FsmPageValid(no, page) /\ DecodeFsm(page) = c
    BY <1>1, <1>2, <1>4, <2>1, <2>2, FsmStored
  <2> QED
    BY <1>1, <1>3, <1>7, <2>3
<1> QED
  BY <1>5, <1>6, <1>7, OwnedContent

LEMMA ImageInvReads == ImageInv => StoredIsReadBack
<1> SUFFICES ASSUME ImageInv, sent # << >>, lapse = "none"
             PROVE  /\ ValidateLoadedPage(location, image)
                    /\ SuperblockDecodes(image) <=> content.owner = "FILE"
                    /\ HeapHeaderValid(location, image) <=> content.owner = "HEAP"
                    /\ FsmPageValid(location, image) <=> content.owner = "FSM"
                    /\ content = CASE content.owner = "FILE" -> DecodeFileSuperblock(image)
                                   [] content.owner = "HEAP" -> DecodeHeap(image)
                                   [] content.owner = "FSM" -> DecodeFsm(image)
  BY DEF StoredIsReadBack
<1>1. /\ content \in Contents /\ Owns(content, location) /\ location \in 0..(INVALID_PAGE_NO - 1)
      /\ \E checksum \in [1..WordSize -> Byte] : image = Written(location, content, checksum)
  BY DEF ImageInv, ImageTypes, StoredIsWritten
<1>2. PICK checksum \in [1..WordSize -> Byte] : image = Written(location, content, checksum)
  BY <1>1
<1>3. /\ image \in Page /\ ValidateLoadedPage(location, image)
      /\ \/ content.owner = "FILE" /\ SuperblockDecodes(image) /\ DecodeFileSuperblock(image) = content
         \/ content.owner = "HEAP" /\ HeapHeaderValid(location, image) /\ DecodeHeap(image) = content
         \/ content.owner = "FSM" /\ FsmPageValid(location, image) /\ DecodeFsm(image) = content
  BY <1>1, <1>2, StoredLoads
<1> DEFINE type == DecodeCommonPageHeader(image).page_type
<1>4. /\ SuperblockDecodes(image) => type = 0
      /\ HeapHeaderValid(location, image) => type = 1
      /\ FsmPageValid(location, image) => type = 2
  BY <1>3, AcceptedTypes DEF SUPERBLOCK, HEAP_DATA, FSM_DATA
<1> HIDE DEF type
<1>5. /\ SuperblockDecodes(image) <=> content.owner = "FILE"
      /\ HeapHeaderValid(location, image) <=> content.owner = "HEAP"
      /\ FsmPageValid(location, image) <=> content.owner = "FSM"
  BY <1>3, <1>4
<1>6. content = CASE content.owner = "FILE" -> DecodeFileSuperblock(image)
                  [] content.owner = "HEAP" -> DecodeHeap(image)
                  [] content.owner = "FSM" -> DecodeFsm(image)
  BY <1>3
<1> QED
  BY <1>3, <1>5, <1>6

(* A page that was stored and not touched since is accepted by the validator of its owner and by *)
(* no other, and decodes to the fields, slots and entries that were encoded, whatever checksum   *)
(* the frame held when WriteStableImage copied it.                                               *)
THEOREM StoredAreReadBack == ImageSpec => []StoredIsReadBack
<1>1. ImageInv => StoredIsReadBack
  BY ImageInvReads
<1> QED
  BY <1>1, ImageInvariant, PTL

=============================================================================
