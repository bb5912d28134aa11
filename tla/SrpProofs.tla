------------------------------ MODULE SrpProofs ------------------------------
(***************************************************************************)
(* Proofs about SrpSetup, for any group, codes and exponents, and about    *)
(* FuzzLock, for any workspaces and lockfiles.                             *)
(*                                                                         *)
(* SrpSetup.  That modpow is a power is proved by induction, and the laws  *)
(* of powers modulo N bring both premasters to one number.  The protocol's *)
(* invariant ties every key and every proof to a salt and an exponent the  *)
(* accessory has drawn.                                                    *)
(*                                                                         *)
(* FuzzLock.  FuzzInv says what is known at every point of a run: with no  *)
(* failure so far the workspaces behind it are in step with the root, and  *)
(* a lockfile that is being resolved again is remembered as it was.        *)
(***************************************************************************)
EXTENDS SrpSetup, FuzzLock, WellFoundedInduction, TLAPS

-----------------------------------------------------------------------------
(* SrpSetup: powers *)

\* b to the e-th, one factor at a time.
Power(b, e) ==
    LET p[i \in Nat] == IF i = 0 THEN 1 ELSE (p[i - 1] * b) % SrpN IN p[e]

LEMMA ModulusAssumption == SrpN \in Nat \ {0, 1} BY SrpAssumption, Zenon

LEMMA Least ==
    ASSUME NEW T \in SUBSET Nat, T # {}
    PROVE  \E x \in T : \A y \in T : x <= y
<1> DEFINE R == {ss \in Nat \X Nat : ss[1] < ss[2]}
<1>1. IsWellFoundedOn(OpToRel(<, Nat), Nat) BY NatLessThanWellFounded, Zenon
<1>2. OpToRel(<, Nat) = R BY Zenon DEF OpToRel
<1>3. IsWellFoundedOn(R, Nat) BY <1>1, <1>2, Zenon
<1>5. \A x, y \in Nat : x < y => <<x, y>> \in R BY SMT
<1> HIDE DEF R
<1>4. PICK x \in T : \A y \in T : ~ (<<y, x>> \in R) BY <1>3, WFMin, Zenon
<1>6. \A y \in T : ~(y < x) BY <1>4, <1>5, Zenon
<1> QED BY <1>6, <1>4

\* Induction: a set of numbers with 0 and with the successor of each of its own.
LEMMA Induction ==
    ASSUME NEW S \in SUBSET Nat, 0 \in S, \A n \in S : n + 1 \in S
    PROVE  S = Nat
<1> SUFFICES ASSUME Nat \ S # {} PROVE FALSE BY Zenon
<1>1. PICK x \in Nat \ S : \A y \in Nat \ S : x <= y BY Least, Zenon
<1>2. x # 0 /\ x - 1 \in Nat BY <1>1
<1>3. x - 1 \in S BY <1>1, <1>2
<1>4. (x - 1) + 1 \in S BY <1>3, Zenon
<1> QED BY <1>1, <1>4

-----------------------------------------------------------------------------
Residues == 0 .. SrpN - 1

\* Congruence: the remainder of a product is that of the remainders.
LEMMA Remainder ==
    ASSUME NEW x \in Nat
    PROVE  x % SrpN \in Residues /\ \E q \in Nat : x = q * SrpN + (x % SrpN)
<1>1. x = (x \div SrpN) * SrpN + (x % SrpN) /\ x \div SrpN \in Nat BY ModulusAssumption
<1>2. x % SrpN \in Residues BY ModulusAssumption DEF Residues
<1> QED BY <1>1, <1>2, Zenon

LEMMA Unique ==
    ASSUME NEW q \in Nat, NEW r \in Residues
    PROVE  (q * SrpN + r) % SrpN = r
  BY ModulusAssumption DEF Residues

\* Multiples of N do not count.
LEMMA Multiples ==
    ASSUME NEW q \in Nat, NEW y \in Nat
    PROVE  (q * SrpN + y) % SrpN = y % SrpN
<1>1. PICK d \in Nat, s \in Residues : y = d * SrpN + s /\ y % SrpN = s BY Remainder, Zenon
<1>2. q * SrpN + y = (q + d) * SrpN + s BY <1>1, ModulusAssumption DEF Residues
<1> QED BY <1>1, <1>2, Unique

LEMMA TimesRemainder ==
    ASSUME NEW x \in Nat, NEW y \in Nat
    PROVE  ((x % SrpN) * y) % SrpN = (x * y) % SrpN
<1>1. PICK q \in Nat, r \in Residues : x = q * SrpN + r /\ x % SrpN = r BY Remainder, Zenon
<1>2. r \in Nat BY ModulusAssumption DEF Residues
<1>3. x * y = (q * y) * SrpN + r * y BY <1>1, <1>2, ModulusAssumption
<1>4. q * y \in Nat /\ r * y \in Nat BY <1>2
<1> QED BY <1>1, <1>3, <1>4, Multiples

-----------------------------------------------------------------------------
\* The powers of b up to the n-th.
Powers(b, n, g) ==
    /\ g \in [0 .. n -> Residues] /\ g[0] = 1
    /\ \A i \in 1 .. n : g[i] = (g[i - 1] * b) % SrpN

LEMMA PowersExist ==
    ASSUME NEW b \in Nat
    PROVE  \A n \in Nat : \E g : Powers(b, n, g)
<1> DEFINE S == {n \in Nat : \E g : Powers(b, n, g)}
<1>1. 0 \in S
  <2>1. Powers(b, 0, [i \in 0 .. 0 |-> 1]) BY ModulusAssumption DEF Powers, Residues
  <2> QED BY <2>1, Zenon
<1>2. ASSUME NEW n \in S PROVE n + 1 \in S
  <2>1. PICK g : Powers(b, n, g) BY Zenon
  <2>2. n \in Nat BY Zenon
  <2> DEFINE r == (g[n] * b) % SrpN
             h == [i \in 0 .. n + 1 |-> IF i = n + 1 THEN r ELSE g[i]]
  <2>3. g[n] \in Nat BY <2>1, <2>2, ModulusAssumption DEF Powers, Residues
  <2>4. r \in Residues BY <2>3, Remainder
  <2>5. \A i \in 0 .. n : g[i] \in Residues BY <2>1, <2>2, Zenon DEF Powers
  <2> HIDE DEF S
  <2>6. h \in [0 .. n + 1 -> Residues] /\ h[0] = 1 BY <2>1, <2>2, <2>4, <2>5 DEF Powers
  <2>7. ASSUME NEW i \in 1 .. n + 1 PROVE h[i] = (h[i - 1] * b) % SrpN
    BY <2>1, <2>2 DEF Powers
  <2> HIDE DEF h
  <2>8. Powers(b, n + 1, h) BY <2>6, <2>7, Zenon DEF Powers
  <2> QED BY <2>8, <2>2 DEF S
<1> HIDE DEF S
<1>3. S \in SUBSET Nat BY Zenon DEF S
<1>4. S = Nat BY <1>1, <1>2, <1>3, Induction, Zenon
<1> QED BY <1>4, Zenon DEF S

LEMMA PowersUnique ==
    ASSUME NEW b \in Nat, NEW n \in Nat, NEW m \in Nat, NEW g, NEW h, n <= m,
           Powers(b, n, g), Powers(b, m, h)
    PROVE  g[n] = h[n]
<1> DEFINE S == {i \in Nat : i <= n => g[i] = h[i]}
<1>1. 0 \in S BY Zenon DEF Powers
<1>2. ASSUME NEW i \in S PROVE i + 1 \in S
  <2>1. i \in Nat BY Zenon
  <2>2. CASE i + 1 <= n
    <3>1. g[i + 1] = (g[i] * b) % SrpN /\ h[i + 1] = (h[i] * b) % SrpN BY <2>1, <2>2 DEF Powers
    <3>2. g[i] = h[i] BY <2>1, <2>2
    <3> QED BY <2>1, <3>1, <3>2
  <2> QED BY <2>1, <2>2
<1> HIDE DEF S
<1>3. S \in SUBSET Nat BY Zenon DEF S
<1>4. S = Nat BY <1>1, <1>2, <1>3, Induction, Zenon
<1> QED BY <1>4 DEF S

\* Power is defined by its equations.
LEMMA PowerOf ==
    ASSUME NEW b \in Nat
    PROVE  /\ Power(b, 0) = 1
           /\ \A e \in Nat : /\ Power(b, e) \in Residues
                             /\ Power(b, e + 1) = (Power(b, e) * b) % SrpN
<1> DEFINE G(n) == CHOOSE g : Powers(b, n, g)
           f == [n \in Nat |-> G(n)[n]]
           Eq(p) == p = [i \in Nat |-> IF i = 0 THEN 1 ELSE (p[i - 1] * b) % SrpN]
<1>1. \A n \in Nat : Powers(b, n, G(n)) BY PowersExist, Zenon
<1> HIDE DEF G
<1>2. \A n \in Nat : f[n] \in Residues BY <1>1 DEF Powers
<1>3. f[0] = 1 BY <1>1, Zenon DEF Powers
<1>4. ASSUME NEW n \in Nat, n # 0 PROVE f[n] = (f[n - 1] * b) % SrpN
  <2>0. n - 1 \in Nat /\ n - 1 <= n /\ n \in 1 .. n BY <1>4
  <2>1. G(n)[n] = (G(n)[n - 1] * b) % SrpN BY <1>1, <2>0, Zenon DEF Powers
  <2>2. G(n - 1)[n - 1] = G(n)[n - 1] BY <1>1, <2>0, PowersUnique
  <2> QED BY <2>0, <2>1, <2>2, Zenon
<1>5. Eq(f)
  <2>1. \A i \in Nat : f[i] = IF i = 0 THEN 1 ELSE (f[i - 1] * b) % SrpN BY <1>3, <1>4, Zenon
  <2>2. f = [i \in Nat |-> f[i]] BY Zenon
  <2> HIDE DEF f
  <2> QED BY <2>1, <2>2, Zenon
<1> DEFINE p == CHOOSE q : Eq(q)
<1>6. Eq(p) BY <1>5, Zenon
<1>7. \A e : Power(b, e) = p[e] BY Zenon DEF Power
<1> HIDE DEF p, f
<1>8. p[0] = 1 BY <1>6, Zenon
<1>9. \A e \in Nat : p[e + 1] = (p[e] * b) % SrpN BY <1>6
<1> DEFINE S == {e \in Nat : p[e] \in Residues}
<1>10. 0 \in S BY <1>8, ModulusAssumption DEF Residues
<1>11. ASSUME NEW e \in S PROVE e + 1 \in S
  <2>1. e \in Nat /\ p[e] \in Nat BY ModulusAssumption DEF Residues
  <2>2. p[e] * b \in Nat BY <2>1
  <2>3. (p[e] * b) % SrpN \in Residues BY <2>2, Remainder, Zenon
  <2> QED BY <2>1, <2>3, <1>9
<1> HIDE DEF S
<1>12. S = Nat
  <2>1. S \in SUBSET Nat BY Zenon DEF S
  <2> QED BY <2>1, <1>10, <1>11, Induction, Zenon
<1>13. \A e \in Nat : p[e] \in Residues BY <1>12, Zenon DEF S
<1> HIDE DEF Eq
<1> QED BY <1>7, <1>8, <1>9, <1>13, Zenon

LEMMA Small == ASSUME NEW r \in Residues PROVE r \in Nat /\ r % SrpN = r
  BY ModulusAssumption DEF Residues

LEMMA TimesBoth ==
    ASSUME NEW x \in Nat, NEW y \in Nat
    PROVE  ((x % SrpN) * (y % SrpN)) % SrpN = (x * y) % SrpN
<1>1. x % SrpN \in Nat /\ y % SrpN \in Nat BY ModulusAssumption
<1>2. ((x % SrpN) * (y % SrpN)) % SrpN = (x * (y % SrpN)) % SrpN BY <1>1, TimesRemainder, Zenon
<1>3. x * (y % SrpN) = (y % SrpN) * x BY <1>1
<1>4. ((y % SrpN) * x) % SrpN = (y * x) % SrpN BY TimesRemainder, Zenon
<1>5. y * x = x * y OBVIOUS
<1> QED BY <1>2, <1>3, <1>4, <1>5, Zenon

\* Exponents add up.
LEMMA PowerOfSum ==
    ASSUME NEW b \in Nat, NEW m \in Nat, NEW n \in Nat
    PROVE  Power(b, m + n) = (Power(b, m) * Power(b, n)) % SrpN
<1> DEFINE S == {k \in Nat : Power(b, m + k) = (Power(b, m) * Power(b, k)) % SrpN}
<1>0. \A e \in Nat : Power(b, e) \in Nat BY PowerOf, Small, Zenon
<1>1. 0 \in S
  <2>1. Power(b, m) \in Residues BY PowerOf, Zenon
  <2>2. Power(b, m) * 1 = Power(b, m) /\ Power(b, m) % SrpN = Power(b, m) BY <2>1, Small
  <2> QED BY <2>2, PowerOf
<1>2. ASSUME NEW k \in S PROVE k + 1 \in S
  <2> DEFINE x == Power(b, m)  y == Power(b, k)
  <2>0. k \in Nat /\ m + k \in Nat /\ x \in Nat /\ y \in Nat BY <1>0
  <2>1. Power(b, m + k) = (x * y) % SrpN BY Zenon
  <2>2. Power(b, (m + k) + 1) = (Power(b, m + k) * b) % SrpN BY <2>0, PowerOf, Zenon
  <2>3. Power(b, k + 1) = (y * b) % SrpN BY <2>0, PowerOf, Zenon
  <2>4. (m + k) + 1 = m + (k + 1) BY <2>0
  <2> HIDE DEF x, y, S
  <2>5. x * y \in Nat /\ y * b \in Nat BY <2>0
  <2>6. (((x * y) % SrpN) * b) % SrpN = ((x * y) * b) % SrpN BY <2>5, TimesRemainder, Zenon
  <2>7. (((y * b) % SrpN) * x) % SrpN = ((y * b) * x) % SrpN BY <2>0, <2>5, TimesRemainder, Zenon
  <2>8. (x * y) * b = (y * b) * x BY <2>0
  <2>9. (y * b) % SrpN \in Nat BY <2>5, ModulusAssumption
  <2>10. ((y * b) % SrpN) * x = x * ((y * b) % SrpN) BY <2>9, <2>0
  <2>11. Power(b, m + (k + 1)) = (x * Power(b, k + 1)) % SrpN
    BY <2>1, <2>2, <2>3, <2>4, <2>6, <2>7, <2>8, <2>10, Zenon
  <2> QED BY <2>0, <2>11 DEF S, x
<1> HIDE DEF S
<1>3. S = Nat
  <2>1. S \in SUBSET Nat BY Zenon DEF S
  <2> QED BY <2>1, <1>1, <1>2, Induction, Zenon
<1> QED BY <1>3, Zenon DEF S

\* A power of a power.
LEMMA PowerOfPower ==
    ASSUME NEW b \in Nat, NEW m \in Nat, NEW n \in Nat
    PROVE  Power(Power(b, m), n) = Power(b, m * n)
<1> DEFINE c == Power(b, m)
           S == {k \in Nat : Power(c, k) = Power(b, m * k)}
<1>0. c \in Nat BY PowerOf, Small, Zenon
<1> HIDE DEF c
<1>1. 0 \in S
  <2>1. m * 0 = 0 OBVIOUS
  <2> QED BY <1>0, <2>1, PowerOf, Zenon
<1>2. ASSUME NEW k \in S PROVE k + 1 \in S
  <2>0. k \in Nat /\ m * k \in Nat /\ m * (k + 1) = m * k + m OBVIOUS
  <2>1. Power(c, k + 1) = (Power(c, k) * c) % SrpN BY <1>0, <2>0, PowerOf, Zenon
  <2>2. Power(b, m * k + m) = (Power(b, m * k) * Power(b, m)) % SrpN BY <2>0, PowerOfSum
  <2> QED BY <2>0, <2>1, <2>2 DEF c
<1> HIDE DEF S
<1>3. S = Nat
  <2>1. S \in SUBSET Nat BY Zenon DEF S
  <2> QED BY <2>1, <1>1, <1>2, Induction, Zenon
<1> QED BY <1>3, Zenon DEF S, c

\* modpow computes the power by squaring.
LEMMA Squared ==
    ASSUME NEW b \in Nat, NEW i \in Nat \ {0}
    PROVE  Power(b, i) = (((Power(b, i \div 2) * Power(b, i \div 2)) % SrpN) * (IF i % 2 = 1 THEN b ELSE 1)) % SrpN
<1> DEFINE k == i \div 2
           h == Power(b, k)
<1>0. k \in Nat /\ (i = k + k \/ i = (k + k) + 1) /\ (i % 2 = 1 <=> i = (k + k) + 1) OBVIOUS
<1>1. h \in Nat BY <1>0, PowerOf, Small, Zenon
<1>2. Power(b, k + k) = (h * h) % SrpN BY <1>0, PowerOfSum, Zenon
<1>3. Power(b, (k + k) + 1) = (Power(b, k + k) * b) % SrpN BY <1>0, PowerOf
<1> HIDE DEF k, h
<1>4. (h * h) % SrpN \in Residues BY <1>1, Remainder
<1>5. (((h * h) % SrpN) * 1) % SrpN = (h * h) % SrpN BY <1>4, Small
<1>6. CASE i = (k + k) + 1 BY <1>0, <1>2, <1>3, <1>6, Zenon DEF h, k
<1>7. CASE i = k + k
  <2>1. i % 2 # 1 BY <1>0, <1>7
  <2> QED BY <1>2, <1>5, <1>7, <2>1, Zenon DEF h, k
<1> QED BY <1>0, <1>6, <1>7, Zenon

LEMMA ModPow ==
    ASSUME NEW b \in Nat, NEW e \in Nat
    PROVE  modpow(b, e) = Power(b, e)
<1> DEFINE Step(i, h) == (((h * h) % SrpN) * (IF i % 2 = 1 THEN b ELSE 1)) % SrpN
           Eq(p) == p = [i \in Nat |-> IF i = 0 THEN 1 ELSE Step(i, p[i \div 2])]
           f == [i \in Nat |-> Power(b, i)]
<1>0. \A i \in Nat : i \div 2 \in Nat /\ (i # 0 => i \div 2 < i) OBVIOUS
<1>1. Eq(f)
  <2>1. ASSUME NEW i \in Nat PROVE f[i] = IF i = 0 THEN 1 ELSE Step(i, f[i \div 2])
    <3>1. CASE i = 0 BY <3>1, PowerOf, Zenon
    <3>2. CASE i # 0 BY <3>2, <1>0, Squared, Zenon
    <3> QED BY <3>1, <3>2, Zenon
  <2>2. f = [i \in Nat |-> f[i]] BY Zenon
  <2> HIDE DEF f, Step
  <2> QED BY <2>1, <2>2, Zenon
<1> DEFINE p == CHOOSE q : Eq(q)
<1>2. Eq(p) BY <1>1, Zenon
<1>3. modpow(b, e) = p[e] BY Zenon DEF modpow
<1> HIDE DEF p, f, Step
<1>4. \A i \in Nat : p[i] = IF i = 0 THEN 1 ELSE Step(i, p[i \div 2]) BY <1>2, Zenon
<1>5. \A i \in Nat : f[i] = IF i = 0 THEN 1 ELSE Step(i, f[i \div 2]) BY <1>1, Zenon
<1> DEFINE T == {i \in Nat : p[i] # f[i]}
<1>6. T = {}
  <2> SUFFICES ASSUME T # {} PROVE FALSE BY Zenon
  <2>1. PICK i \in T : \A j \in T : i <= j BY Least, Zenon
  <2>2. i \in Nat /\ p[i] # f[i] BY Zenon
  <2>3. i # 0 BY <2>2, <1>4, <1>5, Zenon
  <2>4. i \div 2 \in Nat /\ i \div 2 \notin T BY <2>1, <2>2, <2>3, <1>0
  <2>5. p[i \div 2] = f[i \div 2] BY <2>4, Zenon
  <2> QED BY <2>2, <2>5, <1>4, <1>5, Zenon
<1> QED BY <1>3, <1>6, Zenon DEF f

\* The two ways to the premaster secret: the accessory's base is a power of g.
LEMMA SamePremaster ==
    ASSUME NEW g \in Nat, NEW a \in Nat, NEW b \in Nat, NEW x \in Nat, NEW u \in Nat
    PROVE  Power(Power(g, b), a + u * x)
             = Power((Power(g, a) * Power(Power(g, x), u)) % SrpN, b)
<1>1. Power(Power(g, x), u) = Power(g, x * u) BY PowerOfPower
<1>2. x * u \in Nat /\ a + x * u \in Nat /\ a + u * x \in Nat OBVIOUS
<1>3. (Power(g, a) * Power(g, x * u)) % SrpN = Power(g, a + x * u) BY <1>2, PowerOfSum
<1>4. Power(Power(g, a + x * u), b) = Power(g, (a + x * u) * b) BY <1>2, PowerOfPower
<1>5. Power(Power(g, b), a + u * x) = Power(g, b * (a + u * x)) BY <1>2, PowerOfPower
<1>6. (a + x * u) * b = b * (a + u * x) OBVIOUS
<1> QED BY <1>1, <1>3, <1>4, <1>5, <1>6, Zenon

\* What the accessory adds to its public key the controller takes away.
LEMMA Unblinded ==
    ASSUME NEW c \in Residues, NEW w \in Residues
    PROVE  (((c + w) % SrpN) + SrpN - c) % SrpN = w
<1>1. CASE c + w < SrpN
  <2>1. (c + w) % SrpN = c + w BY <1>1, ModulusAssumption DEF Residues
  <2>2. (c + w) + SrpN - c = 1 * SrpN + w BY ModulusAssumption DEF Residues
  <2> QED BY <2>1, <2>2, Unique
<1>2. CASE c + w >= SrpN
  <2>1. c + w - SrpN \in Residues /\ c + w = 1 * SrpN + (c + w - SrpN) BY <1>2, ModulusAssumption DEF Residues
  <2>2. (c + w) % SrpN = c + w - SrpN BY <2>1, Unique
  <2>3. (c + w - SrpN) + SrpN - c = w BY ModulusAssumption DEF Residues
  <2> QED BY <2>2, <2>3, Small, Zenon
<1> QED BY <1>1, <1>2, ModulusAssumption DEF Residues

\* A power of a unit is no multiple of N.
LEMMA PowerNotZero ==
    ASSUME NEW g \in Nat, NEW h \in Nat, (g * h) % SrpN = 1, NEW e \in Nat
    PROVE  Power(g, e) # 0
<1> DEFINE S == {k \in Nat : (Power(g, k) * Power(h, k)) % SrpN = 1}
<1>1. 0 \in S
  <2>1. Power(g, 0) = 1 /\ Power(h, 0) = 1 BY PowerOf, Zenon
  <2>2. (1 * 1) % SrpN = 1 BY ModulusAssumption
  <2> QED BY <2>1, <2>2, Zenon
<1>2. ASSUME NEW k \in S PROVE k + 1 \in S
  <2> DEFINE x == Power(g, k)  y == Power(h, k)
  <2>0. k \in Nat /\ x \in Nat /\ y \in Nat BY PowerOf, Small, Zenon
  <2>1. (x * y) % SrpN = 1 BY Zenon
  <2>2. Power(g, k + 1) = (x * g) % SrpN /\ Power(h, k + 1) = (y * h) % SrpN BY <2>0, PowerOf, Zenon
  <2> HIDE DEF x, y, S
  <2>3. x * g \in Nat /\ y * h \in Nat /\ x * y \in Nat /\ g * h \in Nat BY <2>0
  <2>4. (((x * g) % SrpN) * ((y * h) % SrpN)) % SrpN = ((x * g) * (y * h)) % SrpN
    BY <2>3, TimesBoth, Zenon
  <2>5. (x * g) * (y * h) = (x * y) * (g * h) BY <2>0
  <2>6. ((x * y) * (g * h)) % SrpN = (((x * y) % SrpN) * ((g * h) % SrpN)) % SrpN
    BY <2>3, TimesBoth, Zenon
  <2>7. (1 * 1) % SrpN = 1 BY ModulusAssumption
  <2> QED BY <2>0, <2>1, <2>2, <2>4, <2>5, <2>6, <2>7 DEF S
<1> HIDE DEF S
<1>3. S = Nat
  <2>1. S \in SUBSET Nat BY Zenon DEF S
  <2> QED BY <2>1, <1>1, <1>2, Induction, Zenon
<1>4. (Power(g, e) * Power(h, e)) % SrpN = 1 BY <1>3, Zenon DEF S
<1>5. Power(h, e) \in Nat BY PowerOf, Small, Zenon
<1>6. (0 * Power(h, e)) % SrpN = 0 BY <1>5, ModulusAssumption
<1> QED BY <1>4, <1>6
-----------------------------------------------------------------------------
(* keys *)

LEMMA PadInverse ==
    ASSUME NEW n \in Residues
    PROVE  FromBe(pad(n)) = n
<1>0. n \in Nat /\ n < SrpN /\ SrpN <= Radix * Radix /\ Radix \in Nat \ {0, 1} /\ SrpN \in Nat
  BY SrpAssumption DEF Residues
<1>1. n = (n \div Radix) * Radix + (n % Radix) BY <1>0
<1> QED BY <1>1 DEF FromBe, pad

Passcode == normalize_setup_code(DeviceCode)

\* The exponents are numbers, what is computed with them is below N.
LEMMA SrpNumbers ==
    ASSUME NEW a \in Privates, NEW b \in Privates, NEW salt \in Salts, NEW p, Exponent[p] \in Nat
    PROVE  /\ a \in Nat /\ b \in Nat /\ SrpG \in Nat /\ compute_x(salt, p) \in Nat
           /\ modpow(SrpG, a) = Power(SrpG, a) /\ modpow(SrpG, b) = Power(SrpG, b)
           /\ compute_v(compute_x(salt, p)) = Power(SrpG, compute_x(salt, p))
           /\ Power(SrpG, a) \in Residues /\ Power(SrpG, b) \in Residues
           /\ Power(SrpG, compute_x(salt, p)) \in Residues
           /\ srp_server(salt, p, b).b_pub \in Residues
<1>1. a \in Nat /\ b \in Nat /\ SrpG \in Nat /\ salt \in Nat BY SrpAssumption
<1>2. compute_x(salt, p) \in Nat BY <1>1 DEF compute_x
<1>3. \A e \in Nat : modpow(SrpG, e) = Power(SrpG, e) /\ Power(SrpG, e) \in Residues
  BY <1>1, ModPow, PowerOf, Zenon
<1>4. compute_v(compute_x(salt, p)) = Power(SrpG, compute_x(salt, p)) BY <1>2, <1>3, Zenon DEF compute_v
<1> DEFINE v == Power(SrpG, compute_x(salt, p))
           w == Power(SrpG, b)
<1>5. v \in Nat /\ w \in Nat /\ SrpK \in Nat BY <1>1, <1>2, <1>3, Small, SrpAssumption, Zenon
<1>6. srp_server(salt, p, b).b_pub = (((SrpK * v) % SrpN) + w) % SrpN
  BY <1>1, <1>3, <1>4, Zenon DEF srp_server, compute_b, compute_k
<1> HIDE DEF v, w
<1>7. SrpK * v \in Nat BY <1>5
<1>8. (SrpK * v) % SrpN \in Nat BY <1>7, Remainder, Small, Zenon
<1>9. ((SrpK * v) % SrpN) + w \in Nat BY <1>5, <1>8
<1>10. srp_server(salt, p, b).b_pub \in Residues BY <1>6, <1>9, Remainder, Zenon
<1> QED BY <1>1, <1>2, <1>3, <1>4, <1>10, Zenon

\* With the same code the client and the accessory come to one key, for every
\* group, generator, salt and pair of private exponents: g^b to the a + u * x is
\* g^a * v^u to the b (SrpClient::premaster, SrpServer::session_key).
THEOREM KeysAgree ==
    ASSUME NEW a \in Privates, NEW b \in Privates, NEW salt \in Salts, NEW p, Exponent[p] \in Nat,
           premaster(a, modpow(SrpG, a), salt, p, srp_server(salt, p, b).b_pub) # <<>>
    PROVE  server_session_key(srp_server(salt, p, b), modpow(SrpG, a))
             = <<srp_hash(premaster(a, modpow(SrpG, a), salt, p, srp_server(salt, p, b).b_pub)[1])>>
<1> DEFINE x   == compute_x(salt, p)
           v   == Power(SrpG, x)
           A   == Power(SrpG, a)
           w   == Power(SrpG, b)
           srv == srp_server(salt, p, b)
           B   == srv.b_pub
           u   == compute_u(A, B)
           c   == (SrpK * v) % SrpN
<1>1. /\ a \in Nat /\ b \in Nat /\ SrpG \in Nat /\ x \in Nat
      /\ modpow(SrpG, a) = A /\ modpow(SrpG, b) = w /\ compute_v(x) = v
      /\ A \in Residues /\ w \in Residues /\ v \in Residues /\ B \in Residues
  BY SrpNumbers, Zenon
<1>2. modpow(SrpG, x) = v BY <1>1, ModPow, Zenon
<1>3. srv.v = v /\ srv.b = b /\ B = (c + w) % SrpN
  BY <1>1, Zenon DEF srp_server, compute_b, compute_k
<1> HIDE DEF x, v, A, w, srv, B, c
<1>4. c \in Residues
  <2>0. v \in Nat /\ SrpK \in Nat BY <1>1, Small, SrpAssumption, Zenon
  <2>1. SrpK * v \in Nat BY <2>0
  <2> QED BY <2>1, Remainder, Zenon DEF c
<1>5. u \in Nat
  <2>1. FromBe(pad(A)) = A /\ FromBe(pad(B)) = B BY <1>1, PadInverse, Zenon
  <2>2. A \in Nat /\ B \in Nat BY <1>1, Small, Zenon
  <2>3. A + 2 * B \in Nat BY <2>2
  <2> QED BY <2>1, <2>3, SrpAssumption DEF compute_u
<1> HIDE DEF u
<1>6. (B + SrpN - c) % SrpN = w BY <1>1, <1>3, <1>4, Unblinded, Zenon
<1>7. premaster(a, A, salt, p, B) # <<>> BY <1>1, Zenon DEF A, B, srv
<1>8. /\ B % SrpN # 0 /\ u # 0
      /\ premaster(a, A, salt, p, B) = <<modpow(w, a + u * x)>>
  BY <1>2, <1>6, <1>7, Zenon DEF premaster, compute_k, x, u, c
<1>9. A % SrpN # 0
  <2>1. PICK h \in 1 .. SrpN - 1 : (SrpG * h) % SrpN = 1 BY SrpAssumption, Zenon
  <2>2. h \in Nat BY <2>1, SrpAssumption
  <2>3. A # 0 BY <1>1, <2>1, <2>2, PowerNotZero, Zenon DEF A
  <2> QED BY <2>3, <1>1, Small, Zenon
<1>10. server_session_key(srv, A) = <<srp_hash(modpow((A * modpow(v, u)) % SrpN, b))>>
  BY <1>3, <1>8, <1>9, Zenon DEF server_session_key, u, B
<1>11. modpow(w, a + u * x) = modpow((A * modpow(v, u)) % SrpN, b)
  <2>1. w \in Nat /\ v \in Nat /\ A \in Nat /\ a + u * x \in Nat BY <1>1, <1>5, Small
  <2>2. modpow(w, a + u * x) = Power(w, a + u * x) /\ modpow(v, u) = Power(v, u)
    BY <2>1, <1>5, ModPow, Zenon
  <2>3. Power(v, u) \in Nat BY <2>1, <1>5, PowerOf, Small, Zenon
  <2>4. A * Power(v, u) \in Nat BY <2>1, <2>3
  <2>5. (A * Power(v, u)) % SrpN \in Nat BY <2>4, Remainder, Small, Zenon
  <2>6. modpow((A * Power(v, u)) % SrpN, b) = Power((A * Power(v, u)) % SrpN, b)
    BY <1>1, <2>5, ModPow, Zenon
  <2>7. Power(w, a + u * x) = Power((A * Power(v, u)) % SrpN, b)
    BY <1>1, <1>5, SamePremaster DEF w, v, A
  <2> QED BY <2>2, <2>6, <2>7, Zenon
<1> QED BY <1>1, <1>8, <1>10, <1>11 DEF srv, B, A

-----------------------------------------------------------------------------
(* SrpSetup *)

Server(salt, b) == srp_server(salt, Passcode, b)
PublicKey == a_pub_of(machine)
PremasterOf(salt, b) ==
    premaster(machine.a, PublicKey, salt, password_of(machine), Server(salt, b).b_pub)
ServerKey(salt, b) == server_session_key(Server(salt, b), PublicKey)

\* The client's key and proof are those of an M2 the accessory has answered.
Keyed(salt, b) ==
    /\ PremasterOf(salt, b) # <<>>
    /\ machine.key = srp_hash(PremasterOf(salt, b)[1])
    /\ machine.m1 = proof_m1(salt, PublicKey, Server(salt, b).b_pub, machine.key)

ClientShape ==
    /\ machine = Client(machine.st, machine.code, machine.a, machine.key, machine.m1)
    /\ machine.code \in Spellings /\ machine.a \in Privates

ClientKeyed ==
    machine.st \in {"AwaitingM4", "AwaitingM6", "Done"} => \E salt \in Salts, b \in Privates : Keyed(salt, b)

\* What the client has sent is its own.
RequestMade(q) ==
    /\ q.state = <<3>> => q.pk = <<pad(PublicKey)>>
    /\ q.state = <<5>> => q.data[1].id = "controller"

\* What a reply has in it is from an exchange of the accessory.
ReplyShape(r) == r = Tlv(r.state, r.error, r.salt, r.pk, r.proof, r.data)
ReplyPublic(r) ==
    r.pk # <<>> => \E salt \in Salts, b \in Privates :
                       r.salt = <<salt>> /\ r.pk = <<pad(Server(salt, b).b_pub)>>
Proved(r, salt, b) ==
    LET k == ServerKey(salt, b)
    IN  k # <<>> /\ r.proof = <<proof_m2(PublicKey, proof_m1(salt, PublicKey, Server(salt, b).b_pub, k[1]), k[1])>>
ReplyProof(r) == r.proof # <<>> => \E salt \in Salts, b \in Privates : Proved(r, salt, b)
ReplySealed(r) ==
    r.data # <<>> => \E c \in served : c = <<"controller", c[2]>> /\ r.data[1].key = EncryptKey(c[2])

SlotMade == in_progress.st = 3 => \E salt \in Salts, b \in Privates : in_progress = Server(salt, b)

ProofSeen ==
    machine.st \in {"AwaitingM6", "Done"} =>
        \E r \in replies : r.proof = <<proof_m2(PublicKey, machine.m1, machine.key)>>

DoneServed == step = "done" => <<"controller", machine.key>> \in served

RepliesMade == \A r \in replies : ReplyShape(r) /\ ReplyPublic(r) /\ ReplyProof(r) /\ ReplySealed(r)

\* Every key and proof of either side comes from one exchange with the accessory.
SrpInv ==
    /\ ClientShape /\ ClientKeyed /\ SlotMade /\ ProofSeen /\ DoneServed /\ RepliesMade
    /\ \A q \in requests : RequestMade(q)

ReplyMade(r) == ReplyShape(r) /\ ReplyPublic(r) /\ ReplyProof(r) /\ ReplySealed(r)

LEMMA ClientNumbers ==
    ASSUME ClientShape
    PROVE  /\ machine.a \in Privates /\ Exponent[password_of(machine)] \in Nat /\ Exponent[Passcode] \in Nat
           /\ PublicKey \in Residues /\ PublicKey = modpow(SrpG, machine.a)
           /\ \A salt \in Salts, b \in Privates : Server(salt, b).b_pub \in Residues
<1>1. machine.a \in Privates /\ machine.code \in Spellings BY Zenon DEF ClientShape
<1>2. Exponent[password_of(machine)] \in Nat /\ Exponent[Passcode] \in Nat
  BY <1>1, SetupCodeAssumption, Zenon DEF password_of, Passcode
<1>3. PublicKey = modpow(SrpG, machine.a) BY Zenon DEF PublicKey, a_pub_of
<1>4. machine.a \in Nat /\ SrpG \in Nat
  <2>1. Privates \subseteq Nat /\ SrpG \in Nat BY SrpAssumption
  <2> QED BY <1>1, <2>1, Zenon
<1>5. PublicKey \in Residues BY <1>3, <1>4, ModPow, PowerOf, Zenon
<1>6. \A salt \in Salts, b \in Privates : Server(salt, b).b_pub \in Residues
  BY <1>2, SrpNumbers, Zenon DEF Server
<1> QED BY <1>1, <1>2, <1>3, <1>5, <1>6, Zenon

\* What is known of the client's numbers outlives a step that keeps its exponent.
LEMMA PublicKept ==
    ASSUME machine'.a = machine.a
    PROVE  PublicKey' = PublicKey /\ \A salt, b : ServerKey(salt, b)' = ServerKey(salt, b)
<1>1. PublicKey' = PublicKey BY Zenon DEF PublicKey, a_pub_of
<1> QED BY <1>1, Zenon DEF ServerKey

LEMMA RequestKept ==
    ASSUME machine'.a = machine.a, NEW q, RequestMade(q)
    PROVE  RequestMade(q)'
BY PublicKept, Zenon DEF RequestMade

LEMMA ReplyKept ==
    ASSUME machine'.a = machine.a, served \subseteq served', NEW r, ReplyMade(r)
    PROVE  ReplyMade(r)'
<1>1. ReplyShape(r)' /\ ReplyPublic(r)' BY Zenon DEF ReplyMade, ReplyShape, ReplyPublic
<1>2. ReplyProof(r)' BY PublicKept, Zenon DEF ReplyMade, ReplyProof, Proved
<1>3. ReplySealed(r)' BY Zenon DEF ReplyMade, ReplySealed
<1> QED BY <1>1, <1>2, <1>3, Zenon DEF ReplyMade

LEMMA KeyedKept ==
    ASSUME machine'.a = machine.a, machine'.code = machine.code, machine'.key = machine.key, machine'.m1 = machine.m1,
           NEW salt, NEW b, Keyed(salt, b)
    PROVE  Keyed(salt, b)'
<1>1. PremasterOf(salt, b)' = PremasterOf(salt, b) BY PublicKept, Zenon DEF PremasterOf, password_of
<1> QED BY <1>1, PublicKept, Zenon DEF Keyed

\* Of the client's own step: the accessory and the replies stay.
LEMMA ClientStep ==
    ASSUME SrpInv, UNCHANGED <<in_progress, replies, served>>,
           machine' = Client(machine'.st, machine'.code, machine'.a, machine'.key, machine'.m1),
           machine'.a = machine.a, machine'.code = machine.code,
           ClientKeyed', ProofSeen', DoneServed',
           \A q \in requests' : q \in requests \/ RequestMade(q)'
    PROVE  SrpInv'
<1>1. ClientShape' BY Zenon DEF SrpInv, ClientShape
<1>2. SlotMade' BY Zenon DEF SrpInv, SlotMade, Server
<1>3. RepliesMade' BY ReplyKept, Zenon DEF SrpInv, RepliesMade, ReplyMade
<1>4. \A q \in requests' : RequestMade(q)' BY RequestKept, Zenon DEF SrpInv
<1> QED BY <1>1, <1>2, <1>3, <1>4, Zenon DEF SrpInv

LEMMA StartStep == SrpInv /\ start => SrpInv'
<1> SUFFICES ASSUME SrpInv, start PROVE SrpInv' BY Zenon
<1>0. UNCHANGED <<in_progress, replies, served>> BY Zenon DEF start
<1>1. machine' = Client("AwaitingM2", machine.code, machine.a, <<>>, <<>>) /\ step' = "send"
  BY Zenon DEF start, Send
<1>2. /\ machine'.st = "AwaitingM2" /\ machine'.code = machine.code /\ machine'.a = machine.a
      /\ machine'.key = <<>> /\ machine'.m1 = <<>>
  BY <1>1, Zenon DEF Client
<1>3. ClientKeyed' /\ ProofSeen' /\ DoneServed'
  BY <1>1, <1>2, Zenon DEF ClientKeyed, ProofSeen, DoneServed
<1>4. \A q \in requests' : q \in requests \/ RequestMade(q)'
  <2>1. requests' = requests \cup {Tlv(<<1>>, <<>>, <<>>, <<>>, <<>>, <<>>)} BY Zenon DEF start, Send
  <2>2. RequestMade(Tlv(<<1>>, <<>>, <<>>, <<>>, <<>>, <<>>))' BY DEF RequestMade, Tlv
  <2> QED BY <2>1, <2>2, Zenon
<1> QED BY <1>0, <1>1, <1>2, <1>3, <1>4, ClientStep, Zenon

LEMMA ErrorStep ==
    ASSUME SrpInv, UNCHANGED <<in_progress, replies, served>>, NEW why, why # "done", Error(why)
    PROVE  SrpInv'
<1>1. UNCHANGED <<machine, requests>> /\ step' = why BY Zenon DEF Error
<1>2. ClientKeyed' BY <1>1, KeyedKept, Zenon DEF SrpInv, ClientKeyed
<1>3. ProofSeen' BY <1>1, Zenon DEF SrpInv, ProofSeen, PublicKey, a_pub_of
<1>4. DoneServed' BY <1>1, Zenon DEF DoneServed
<1>5. machine' = Client(machine'.st, machine'.code, machine'.a, machine'.key, machine'.m1)
  BY <1>1, Zenon DEF SrpInv, ClientShape
<1> QED BY <1>1, <1>2, <1>3, <1>4, <1>5, ClientStep, Zenon

\* A spoiled reply has no field the accessory has not sent.
LEMMA Spoiling ==
    ASSUME NEW r, ReplyMade(r), NEW s \in Spoiled(r)
    PROVE  /\ s.pk = r.pk \/ s.pk = <<>>
           /\ s.proof = r.proof \/ s.proof = <<>>
           /\ s.data = r.data \/ s.data = <<>>
           /\ s.salt = r.salt
<1>1. r = [state |-> r.state, error |-> r.error, salt |-> r.salt, pk |-> r.pk, proof |-> r.proof, data |-> r.data]
  BY Zenon DEF ReplyMade, ReplyShape, Tlv
<1> QED BY <1>1, Zenon DEF Spoiled

LEMMA M2Step ==
    ASSUME SrpInv, UNCHANGED <<in_progress, replies, served>>,
           NEW r \in replies, NEW s \in Spoiled(r), handle_m2(s)
    PROVE  SrpInv'
<1> DEFINE b_pub == FromBe(s.pk[1])
           pm    == premaster(machine.a, a_pub_of(machine), s.salt[1], password_of(machine), b_pub)
           k     == srp_hash(pm[1])
           m1    == proof_m1(s.salt[1], a_pub_of(machine), b_pub, k)
           msg   == Tlv(<<3>>, <<>>, <<>>, <<pad(a_pub_of(machine))>>, <<m1>>, <<>>)
<1>1. CASE Error("encoding") \/ Error("bad parameters") BY <1>1, ErrorStep, Zenon
<1>2. CASE /\ s.salt # <<>> /\ s.pk # <<>> /\ pm # <<>>
           /\ machine' = [machine EXCEPT !.st = "AwaitingM4", !.key = k, !.m1 = m1]
           /\ Send(msg)
  <2>0. ReplyMade(r) /\ ClientShape BY Zenon DEF SrpInv, RepliesMade, ReplyMade
  <2>1. PICK salt \in Salts, b \in Privates : r.salt = <<salt>> /\ r.pk = <<pad(Server(salt, b).b_pub)>>
    BY <1>2, <2>0, Spoiling, Zenon DEF ReplyMade, ReplyPublic
  <2>2. s.salt[1] = salt /\ s.pk[1] = pad(Server(salt, b).b_pub) BY <1>2, <2>0, <2>1, Spoiling
  <2>3. b_pub = Server(salt, b).b_pub BY <2>0, <2>2, ClientNumbers, PadInverse, Zenon
  <2>4. pm = PremasterOf(salt, b) BY <2>2, <2>3, Zenon DEF PremasterOf, PublicKey
  <2>5. m1 = proof_m1(salt, PublicKey, Server(salt, b).b_pub, k) BY <2>2, <2>3, Zenon DEF PublicKey
  <2> HIDE DEF pm, k, m1, b_pub
  <2>6. /\ machine'.st = "AwaitingM4" /\ machine'.a = machine.a /\ machine'.code = machine.code
        /\ machine'.key = k /\ machine'.m1 = m1
        /\ machine' = Client(machine'.st, machine'.code, machine'.a, machine'.key, machine'.m1)
    <3>1. machine = [st |-> machine.st, code |-> machine.code, a |-> machine.a, key |-> machine.key, m1 |-> machine.m1]
      BY <2>0, Zenon DEF ClientShape, Client
    <3>2. machine' = [st |-> "AwaitingM4", code |-> machine.code, a |-> machine.a, key |-> k, m1 |-> m1]
      BY <1>2, <3>1, Zenon
    <3> QED BY <3>2, Zenon DEF Client
  <2>7. PremasterOf(salt, b)' = PremasterOf(salt, b)
    BY <2>6, PublicKept, Zenon DEF PremasterOf, password_of
  <2>8. Keyed(salt, b)' BY <1>2, <2>4, <2>5, <2>6, <2>7, PublicKept, Zenon DEF Keyed, k
  <2>9. ClientKeyed' BY <2>8, Zenon DEF ClientKeyed
  <2>10. ProofSeen' /\ DoneServed' BY <1>2, <2>6, Zenon DEF ProofSeen, DoneServed, Send
  <2>11. \A q \in requests' : q \in requests \/ RequestMade(q)'
    <3>0. PICK q : q = msg BY Zenon
    <3>1. requests' = requests \cup {q} BY <1>2, <3>0, Zenon DEF Send
    <3>2. q.state = <<3>> /\ q.pk = <<pad(PublicKey)>> BY <3>0, Zenon DEF Tlv, PublicKey
    <3>3. <<3>> # <<5>> OBVIOUS
    <3> HIDE DEF msg
    <3>4. RequestMade(q)' BY <3>2, <3>3, <2>6, PublicKept, Zenon DEF RequestMade
    <3> QED BY <3>1, <3>4, Zenon
  <2> QED BY <2>6, <2>9, <2>10, <2>11, ClientStep, Zenon
<1> QED BY <1>1, <1>2, Zenon DEF handle_m2

LEMMA M4Step ==
    ASSUME SrpInv, UNCHANGED <<in_progress, replies, served>>, machine.st = "AwaitingM4",
           NEW r \in replies, NEW s \in Spoiled(r), handle_m4(s)
    PROVE  SrpInv'
<1> DEFINE msg == Tlv(<<5>>, <<>>, <<>>, <<>>, <<>>,
                      <<Sealed(EncryptKey(machine.key), "PS-Msg05", "controller",
                               Signed("controller", machine.key, "controller"))>>)
<1>1. CASE Error("encoding") \/ Error("proof mismatch") BY <1>1, ErrorStep, Zenon
<1>2. CASE /\ s.proof # <<>> /\ s.proof[1] = proof_m2(PublicKey, machine.m1, machine.key)
           /\ machine' = [machine EXCEPT !.st = "AwaitingM6"]
           /\ Send(msg)
  <2>0. ReplyMade(r) /\ ClientShape BY Zenon DEF SrpInv, RepliesMade, ReplyMade
  <2>1. r.proof = s.proof /\ r.proof # <<>> BY <1>2, <2>0, Spoiling, Zenon
  <2>2. r.proof = <<r.proof[1]>> BY <2>0, <2>1, SMTT(30) DEF ReplyMade, ReplyProof, Proved
  <2>3. r.proof = <<proof_m2(PublicKey, machine.m1, machine.key)>> BY <1>2, <2>1, <2>2, Zenon
  <2>4. /\ machine'.st = "AwaitingM6" /\ machine'.a = machine.a /\ machine'.code = machine.code
        /\ machine'.key = machine.key /\ machine'.m1 = machine.m1
        /\ machine' = Client(machine'.st, machine'.code, machine'.a, machine'.key, machine'.m1)
    <3>1. machine = [st |-> machine.st, code |-> machine.code, a |-> machine.a, key |-> machine.key, m1 |-> machine.m1]
      BY <2>0, Zenon DEF ClientShape, Client
    <3>2. machine' = [st |-> "AwaitingM6", code |-> machine.code, a |-> machine.a, key |-> machine.key, m1 |-> machine.m1]
      BY <1>2, <3>1, Zenon
    <3> QED BY <3>2, Zenon DEF Client
  <2>5. ClientKeyed' BY <2>4, KeyedKept, Zenon DEF SrpInv, ClientKeyed
  <2>6. ProofSeen' BY <2>3, <2>4, PublicKept, Zenon DEF ProofSeen
  <2>7. DoneServed' BY <1>2, Zenon DEF DoneServed, Send
  <2>8. \A q \in requests' : q \in requests \/ RequestMade(q)'
    <3>0. PICK q : q = msg BY Zenon
    <3>1. requests' = requests \cup {q} BY <1>2, <3>0, Zenon DEF Send
    <3>2. q.state = <<5>> /\ q.data[1].id = "controller" BY <3>0, Zenon DEF Tlv, Sealed
    <3>3. <<3>> # <<5>> OBVIOUS
    <3> HIDE DEF msg
    <3>4. RequestMade(q)' BY <3>2, <3>3, <2>4, PublicKept, Zenon DEF RequestMade
    <3> QED BY <3>1, <3>4, Zenon
  <2> QED BY <2>4, <2>5, <2>6, <2>7, <2>8, ClientStep, Zenon
<1> QED BY <1>1, <1>2, Zenon DEF handle_m4, verify_m2, PublicKey

LEMMA M6Step ==
    ASSUME SrpInv, UNCHANGED <<in_progress, replies, served>>, machine.st = "AwaitingM6",
           NEW r \in replies, NEW s \in Spoiled(r), handle_m6(s)
    PROVE  SrpInv'
<1>1. CASE Error("encoding") BY <1>1, ErrorStep, Zenon
<1>2. CASE /\ machine' = [machine EXCEPT !.st = "Done"]
           /\ step' = "done" => s.data # <<>> /\ s.data[1].key = EncryptKey(machine.key)
           /\ UNCHANGED requests
  <2>0. ReplyMade(r) /\ ClientShape BY Zenon DEF SrpInv, RepliesMade, ReplyMade
  <2>1. /\ machine'.st = "Done" /\ machine'.a = machine.a /\ machine'.code = machine.code
        /\ machine'.key = machine.key /\ machine'.m1 = machine.m1
        /\ machine' = Client(machine'.st, machine'.code, machine'.a, machine'.key, machine'.m1)
    <3>1. machine = [st |-> machine.st, code |-> machine.code, a |-> machine.a, key |-> machine.key, m1 |-> machine.m1]
      BY <2>0, Zenon DEF ClientShape, Client
    <3>2. machine' = [st |-> "Done", code |-> machine.code, a |-> machine.a, key |-> machine.key, m1 |-> machine.m1]
      BY <1>2, <3>1, Zenon
    <3> QED BY <3>2, Zenon DEF Client
  <2>2. ClientKeyed' BY <2>1, KeyedKept, Zenon DEF SrpInv, ClientKeyed
  <2>3. ProofSeen' BY <2>1, PublicKept, Zenon DEF SrpInv, ProofSeen
  <2>4. DoneServed'
    <3> SUFFICES ASSUME step' = "done" PROVE <<"controller", machine'.key>> \in served'
      BY Zenon DEF DoneServed
    <3>1. s.data = r.data /\ r.data # <<>> /\ r.data[1].key = EncryptKey(machine.key)
      BY <1>2, <2>0, Spoiling, Zenon
    <3>2. PICK c \in served : c = <<"controller", c[2]>> /\ r.data[1].key = EncryptKey(c[2])
      BY <2>0, <3>1, Zenon DEF ReplyMade, ReplySealed
    <3>3. c[2] = machine.key BY <3>1, <3>2 DEF EncryptKey
    <3> QED BY <2>1, <3>2, <3>3, Zenon
  <2> QED BY <1>2, <2>1, <2>2, <2>3, <2>4, ClientStep, Zenon
<1> QED BY <1>1, <1>2, Zenon DEF handle_m6

LEMMA HandleStep ==
    ASSUME SrpInv, NEW r \in replies, NEW s \in Spoiled(r), client_handle(s)
    PROVE  SrpInv'
<1>0. UNCHANGED <<in_progress, replies, served>> BY Zenon DEF client_handle
<1>1. CASE Error("proof mismatch") \/ Error("pairing error") \/ Error("encoding")
  BY <1>0, <1>1, ErrorStep, Zenon
<1>2. CASE machine.st = "AwaitingM2" /\ handle_m2(s) BY <1>0, <1>2, M2Step, Zenon
<1>3. CASE machine.st = "AwaitingM4" /\ handle_m4(s) BY <1>0, <1>3, M4Step, Zenon
<1>4. CASE machine.st = "AwaitingM6" /\ handle_m6(s) BY <1>0, <1>4, M6Step, Zenon
<1>5. check_error(s) \in {"ok", "proof mismatch", "pairing error"} BY Zenon DEF check_error
<1>6. \/ Error(check_error(s)) /\ check_error(s) # "ok"
      \/ machine.st = "AwaitingM2" /\ handle_m2(s)
      \/ machine.st = "AwaitingM4" /\ handle_m4(s)
      \/ machine.st = "AwaitingM6" /\ handle_m6(s)
      \/ Error("encoding")
  BY Zenon DEF client_handle
<1> QED BY <1>1, <1>2, <1>3, <1>4, <1>5, <1>6, Zenon

-----------------------------------------------------------------------------
\* Of the accessory's step: the client and what it has sent stay.
LEMMA SlotStep ==
    ASSUME SrpInv, UNCHANGED <<machine, requests, step>>, served \subseteq served', replies \subseteq replies',
           SlotMade', \A r \in replies' : r \in replies \/ ReplyMade(r)'
    PROVE  SrpInv'
<1>1. ClientShape' BY Zenon DEF SrpInv, ClientShape
<1>2. ClientKeyed' BY KeyedKept, Zenon DEF SrpInv, ClientKeyed
<1>3. ProofSeen' BY PublicKept, Zenon DEF SrpInv, ProofSeen
<1>4. DoneServed' BY Zenon DEF SrpInv, DoneServed
<1>5. \A q \in requests' : RequestMade(q)' BY RequestKept, Zenon DEF SrpInv
<1>6. RepliesMade' BY ReplyKept, Zenon DEF SrpInv, RepliesMade, ReplyMade
<1> QED BY <1>1, <1>2, <1>3, <1>4, <1>5, <1>6, Zenon DEF SrpInv

\* A reply without public key, proof and sealed data says nothing.
LEMMA BareReply ==
    ASSUME NEW state, NEW error
    PROVE  ReplyMade(Tlv(state, error, <<>>, <<>>, <<>>, <<>>))
BY Zenon DEF ReplyMade, ReplyShape, ReplyPublic, ReplyProof, ReplySealed, Tlv

LEMMA EmptySlot ==
    ASSUME in_progress' = NoSlot \/ in_progress'.st = 5
    PROVE  SlotMade'
BY DEF SlotMade, NoSlot

LEMMA SetupM1Step ==
    ASSUME SrpInv, UNCHANGED <<machine, requests, step>>, handle_setup_m1
    PROVE  SrpInv'
<1>1. PICK salt \in Salts, b \in Privates :
         /\ in_progress' = Server(salt, b)
         /\ Respond(Tlv(<<2>>, <<>>, <<salt>>, <<pad(Server(salt, b).b_pub)>>, <<>>, <<>>))
  BY Zenon DEF handle_setup_m1, Server, Passcode
<1>2. SlotMade' BY <1>1, Zenon DEF SlotMade, Server
<1> DEFINE r == Tlv(<<2>>, <<>>, <<salt>>, <<pad(Server(salt, b).b_pub)>>, <<>>, <<>>)
<1>3. served' = served /\ replies' = replies \cup {r} BY <1>1, Zenon DEF Respond, handle_setup_m1
<1>4. ReplyMade(r)'
  BY Zenon DEF ReplyMade, ReplyShape, ReplyPublic, ReplyProof, ReplySealed, Tlv, Server
<1> HIDE DEF r
<1>5. \A x \in replies' : x \in replies \/ ReplyMade(x)' BY <1>3, <1>4, Zenon DEF r, Server
<1> QED BY <1>2, <1>3, <1>5, SlotStep, Zenon

LEMMA SetupM3Step ==
    ASSUME SrpInv, UNCHANGED <<machine, requests, step>>,
           NEW q \in requests, q.state = << 3 >>, handle_setup_m3(q)
    PROVE  SrpInv'
<1>0. ClientShape /\ SlotMade /\ q.pk = <<pad(PublicKey)>> BY Zenon DEF SrpInv, RequestMade
<1>1. FromBe(q.pk[1]) = PublicKey BY <1>0, ClientNumbers, PadInverse
<1>2. PICK salt \in Salts, b \in Privates : in_progress = Server(salt, b)
  BY <1>0, Zenon DEF handle_setup_m3, SlotMade
<1>3. in_progress.salt = salt BY <1>2, Zenon DEF Server, srp_server
<1> DEFINE proof == verify_m1_prove_m2(in_progress, PublicKey, q.proof[1])
           r     == Tlv(<<4>>, <<>>, <<>>, <<>>, proof, <<>>)
           error == Tlv(<<4>>, <<AUTHENTICATION>>, <<>>, <<>>, <<>>, <<>>)
<1>4. served' = served BY Zenon DEF handle_setup_m3
<1>5. CASE proof = <<>> /\ in_progress' = NoSlot /\ Respond(error)
  <2>1. ReplyMade(error)'
    BY BareReply, Zenon
      DEF ReplyMade, ReplyShape, ReplyPublic, ReplyProof, ReplySealed, Tlv, AUTHENTICATION
  <2>2. replies' = replies \cup {error} BY <1>5, Zenon DEF Respond
  <2>3. \A x \in replies' : x \in replies \/ ReplyMade(x)' BY <2>1, <2>2, Zenon DEF Tlv, AUTHENTICATION
  <2> QED BY <1>4, <1>5, <2>2, <2>3, EmptySlot, SlotStep, Zenon
<1>6. CASE proof # <<>> /\ in_progress'.st = 5 /\ Respond(r)
  <2>1. LET k == ServerKey(salt, b)
        IN  k # <<>> /\ proof = <<proof_m2(PublicKey, proof_m1(salt, PublicKey, Server(salt, b).b_pub, k[1]), k[1])>>
    BY <1>2, <1>3, <1>6, Zenon DEF verify_m1_prove_m2, ServerKey
  <2>2. PICK m : m = r BY Zenon
  <2>3. /\ m.state = <<4>> /\ m.error = <<>> /\ m.salt = <<>> /\ m.pk = <<>> /\ m.proof = proof /\ m.data = <<>>
        /\ m = Tlv(m.state, m.error, m.salt, m.pk, m.proof, m.data)
    BY <2>2, Zenon DEF Tlv
  <2> HIDE DEF r, proof
  <2>4. Proved(m, salt, b) BY <2>1, <2>3, Zenon DEF Proved
  <2>5. ReplyMade(m) BY <2>3, <2>4, Zenon DEF ReplyMade, ReplyShape, ReplyPublic, ReplyProof, ReplySealed
  <2>6. ReplyMade(m)' BY <2>5, <1>4, ReplyKept, Zenon
  <2>7. replies' = replies \cup {m} BY <1>6, <2>2, Zenon DEF Respond
  <2>8. \A x \in replies' : x \in replies \/ ReplyMade(x)' BY <2>6, <2>7, Zenon
  <2> QED BY <1>4, <1>6, <2>7, <2>8, EmptySlot, SlotStep, Zenon
<1>7. \/ proof = <<>> /\ in_progress' = NoSlot /\ Respond(error)
      \/ proof # <<>> /\ in_progress'.st = 5 /\ Respond(r)
  BY <1>1, Zenon DEF handle_setup_m3, NoSlot
<1> QED BY <1>5, <1>6, <1>7, Zenon

LEMMA SetupM5Step ==
    ASSUME SrpInv, UNCHANGED <<machine, requests, step>>,
           NEW q \in requests, q.state = << 5 >>, handle_setup_m5(q)
    PROVE  SrpInv'
<1>0. q.data[1].id = "controller" BY Zenon DEF SrpInv, RequestMade
<1>1. SlotMade' BY EmptySlot, Zenon DEF handle_setup_m5
<1>2. PICK k : k = in_progress.key BY Zenon
<1> DEFINE r     == Tlv(<<6>>, <<>>, <<>>, <<>>, <<>>,
                        <<Sealed(EncryptKey(k), "PS-Msg06", "accessory", Signed("accessory", k, "accessory"))>>)
           error == Tlv(<<6>>, <<AUTHENTICATION>>, <<>>, <<>>, <<>>, <<>>)
<1>3. CASE served' = served \cup {<<"controller", k>>} /\ Respond(r)
  <2>1. PICK c : c = <<"controller", k>> BY Zenon
  <2>2. c \in served' /\ c = <<"controller", c[2]>> /\ c[2] = k BY <1>3, <2>1, Zenon
  <2>3. PICK m : m = r BY Zenon
  <2>4. /\ m.pk = <<>> /\ m.proof = <<>> /\ m.data[1].key = EncryptKey(k)
        /\ m = Tlv(m.state, m.error, m.salt, m.pk, m.proof, m.data)
    BY <2>3, Zenon DEF Tlv, Sealed
  <2>5. ReplySealed(m)' BY <2>2, <2>4, Zenon DEF ReplySealed
  <2>6. ReplyMade(m)' BY <2>4, <2>5, Zenon DEF ReplyMade, ReplyShape, ReplyPublic, ReplyProof
  <2>7. replies' = replies \cup {m} BY <1>3, <2>3, Zenon DEF Respond
  <2>8. \A x \in replies' : x \in replies \/ ReplyMade(x)' BY <2>6, <2>7, Zenon
  <2> QED BY <1>1, <1>3, <2>7, <2>8, SlotStep, Zenon
<1>4. CASE served' = served /\ Respond(error)
  <2>1. ReplyMade(error)'
    BY BareReply, Zenon
      DEF ReplyMade, ReplyShape, ReplyPublic, ReplyProof, ReplySealed, Tlv, AUTHENTICATION
  <2>2. replies' = replies \cup {error} BY <1>4, Zenon DEF Respond
  <2>3. \A x \in replies' : x \in replies \/ ReplyMade(x)' BY <2>1, <2>2, Zenon DEF Tlv, AUTHENTICATION
  <2> QED BY <1>1, <1>4, <2>2, <2>3, SlotStep, Zenon
<1> QED BY <1>0, <1>2, <1>3, <1>4, Zenon DEF handle_setup_m5

LEMMA AccessoryTurnStep == SrpInv /\ AccessoryTurn => SrpInv'
<1> SUFFICES ASSUME SrpInv, AccessoryTurn PROVE SrpInv' BY Zenon
<1>0. UNCHANGED <<machine, requests, step>> BY Zenon DEF AccessoryTurn
<1>1. PICK q \in requests : pair_setup(q) BY Zenon DEF AccessoryTurn
<1>2. CASE handle_setup_m1 BY <1>0, <1>2, SetupM1Step, Zenon
<1>3. CASE q.state = <<3>> /\ handle_setup_m3(q) BY <1>0, <1>3, SetupM3Step, Zenon
<1>4. CASE q.state = <<5>> /\ handle_setup_m5(q) BY <1>0, <1>4, SetupM5Step, Zenon
<1>5. CASE in_progress' = NoSlot /\ UNCHANGED <<replies, served>>
  BY <1>0, <1>5, EmptySlot, SlotStep, Zenon
<1> QED BY <1>1, <1>2, <1>3, <1>4, <1>5, Zenon DEF pair_setup

LEMMA SrpInvariant == SrpSpec => []SrpInv
<1>1. SrpInit => SrpInv
  <2> SUFFICES ASSUME SrpInit PROVE SrpInv BY Zenon
  <2>1. PICK code \in Spellings, a \in Privates : machine = Client("Initial", code, a, <<>>, <<>>)
    BY Zenon DEF SrpInit
  <2>2. ClientShape /\ machine.st = "Initial" BY <2>1, Zenon DEF ClientShape, Client
  <2>3. in_progress.st = 0 /\ requests = {} /\ replies = {} /\ step = "none" BY Zenon DEF SrpInit, NoSlot
  <2> QED BY <2>2, <2>3, SMTT(30) DEF SrpInv, ClientKeyed, SlotMade, ProofSeen, DoneServed, RepliesMade
<1>2. SrpInv /\ [SrpNext]_srpVars => SrpInv'
  <2> SUFFICES ASSUME SrpInv, [SrpNext]_srpVars PROVE SrpInv' BY Zenon
  <2>1. CASE start BY <2>1, StartStep, Zenon
  <2>2. CASE AccessoryTurn BY <2>2, AccessoryTurnStep, Zenon
  <2>3. CASE \E r \in replies : \E s \in Spoiled(r) : client_handle(s) BY <2>3, HandleStep, Zenon
  <2>4. CASE UNCHANGED srpVars
    <3>1. UNCHANGED <<machine, requests, step, served, replies, in_progress>> BY <2>4, Zenon DEF srpVars
    <3>2. SlotMade' BY <3>1, Zenon DEF SrpInv, SlotMade, Server
    <3> QED BY <3>1, <3>2, SlotStep, Zenon
  <2> QED BY <2>1, <2>2, <2>3, <2>4, Zenon DEF SrpNext
<1> QED BY <1>1, <1>2, PTL DEF SrpSpec

LEMMA PadInjective ==
    ASSUME NEW m \in Residues, NEW n \in Residues, pad(m) = pad(n)
    PROVE  m = n
BY PadInverse, Zenon

\* A proof the client accepts is of the exchange its own is from, and so of a
\* key the accessory has come to.
LEMMA AcceptedKey ==
    ASSUME ClientShape, NEW salt \in Salts, NEW b \in Privates, Keyed(salt, b),
           NEW r, ReplyMade(r), r.proof = <<proof_m2(PublicKey, machine.m1, machine.key)>>
    PROVE  CodesAgree
<1>1. PICK salt2 \in Salts, b2 \in Privates : Proved(r, salt2, b2) BY DEF ReplyMade, ReplyProof
<1> DEFINE k  == ServerKey(salt2, b2)
           B  == Server(salt, b).b_pub
           B2 == Server(salt2, b2).b_pub
<1>2. /\ k # <<>>
      /\ proof_m2(PublicKey, machine.m1, machine.key)
           = proof_m2(PublicKey, proof_m1(salt2, PublicKey, B2, k[1]), k[1])
  BY <1>1, SMTT(30) DEF Proved
<1>3. machine.key = k[1] /\ machine.m1 = proof_m1(salt2, PublicKey, B2, k[1])
  BY <1>2, Zenon DEF proof_m2
<1>4. machine.m1 = proof_m1(salt, PublicKey, B, machine.key) BY Zenon DEF Keyed
<1>5. salt = salt2 /\ pad(B) = pad(B2) BY <1>3, <1>4 DEF proof_m1
<1>6. B \in Residues /\ B2 \in Residues BY ClientNumbers, Zenon
<1>7. B = B2 BY <1>5, <1>6, PadInjective, Zenon
<1>8. k = <<k[1]>> BY <1>2, Zenon DEF ServerKey, server_session_key
<1>9. /\ PremasterOf(salt2, b2) # <<>> /\ srp_hash(PremasterOf(salt2, b2)[1]) = k[1]
  BY <1>3, <1>5, <1>7, Zenon DEF Keyed, PremasterOf
<1>10. /\ premaster(machine.a, modpow(SrpG, machine.a), salt2, normalize_setup_code(machine.code), Server(salt2, b2).b_pub)
            = PremasterOf(salt2, b2)
       /\ k = server_session_key(Server(salt2, b2), modpow(SrpG, machine.a))
  BY Zenon DEF PremasterOf, PublicKey, a_pub_of, password_of, ServerKey
<1> HIDE DEF k
<1>11. machine.code \in Spellings /\ machine.a \in Privates BY Zenon DEF ClientShape
<1>12. <<srp_hash(PremasterOf(salt2, b2)[1])>> = k BY <1>8, <1>9, Zenon
<1>13. ~(normalize_setup_code(machine.code) # normalize_setup_code(DeviceCode))
  BY <1>9, <1>10, <1>11, <1>12, SetupCodeAssumption, Zenon DEF Server, Passcode
<1> QED BY <1>13, Zenon DEF CodesAgree, password_of

\* With the same code the client's key is the one the exchange in progress comes to.
LEMMA CurrentKey ==
    ASSUME ClientShape, CodesAgree, NEW salt \in Salts, NEW b \in Privates, Keyed(salt, b),
           NEW salt2 \in Salts, NEW b2 \in Privates, salt = salt2,
           pad(Server(salt, b).b_pub) = pad(Server(salt2, b2).b_pub)
    PROVE  <<machine.key>> = server_session_key(Server(salt2, b2), PublicKey)
<1>1. Server(salt, b).b_pub = Server(salt2, b2).b_pub BY ClientNumbers, PadInjective, Zenon
<1>2. PremasterOf(salt, b) = PremasterOf(salt2, b2) BY <1>1, Zenon DEF PremasterOf
<1>3. PremasterOf(salt2, b2) # <<>> /\ machine.key = srp_hash(PremasterOf(salt2, b2)[1])
  BY <1>2, Zenon DEF Keyed
<1>4. /\ machine.a \in Privates /\ Exponent[Passcode] \in Nat /\ PublicKey = modpow(SrpG, machine.a)
      /\ PremasterOf(salt2, b2)
           = premaster(machine.a, modpow(SrpG, machine.a), salt2, Passcode, srp_server(salt2, Passcode, b2).b_pub)
  BY ClientNumbers, Zenon DEF PremasterOf, CodesAgree, Server, Passcode
<1>5. server_session_key(srp_server(salt2, Passcode, b2), modpow(SrpG, machine.a))
        = <<srp_hash(PremasterOf(salt2, b2)[1])>>
  BY <1>3, <1>4, KeysAgree
<1> QED BY <1>3, <1>4, <1>5, Zenon DEF Server

\* Pair Setup ends as it should for every group, code and order of messages: the
\* client passes M4 only with the accessory's code and key, is done only once
\* the accessory has accepted it under that key, and with the same code an M3 in
\* reply to the M2 in progress is never refused (PairSetupClient::handle, srp.rs).
THEOREM SrpSafety == SrpSpec => []SrpAgreement
<1>1. SrpInv => SrpAgreement
  <2> SUFFICES ASSUME SrpInv PROVE SrpAgreement BY Zenon
  <2>0. ClientShape /\ ClientKeyed /\ SlotMade /\ ProofSeen /\ DoneServed /\ RepliesMade
    BY Zenon DEF SrpInv
  <2>1. ASSUME machine.st \in {"AwaitingM6", "Done"}
        PROVE  CodesAgree /\ \E r \in replies : r.proof = <<proof_m2(a_pub_of(machine), machine.m1, machine.key)>>
    <3>1. PICK r \in replies : r.proof = <<proof_m2(PublicKey, machine.m1, machine.key)>>
      BY <2>0, <2>1, Zenon DEF ProofSeen
    <3>2. ReplyMade(r) BY <2>0, Zenon DEF RepliesMade, ReplyMade
    <3>3. PICK salt \in Salts, b \in Privates : Keyed(salt, b) BY <2>0, <2>1, Zenon DEF ClientKeyed
    <3>4. CodesAgree BY <2>0, <3>1, <3>2, <3>3, AcceptedKey, Zenon
    <3> QED BY <3>1, <3>4, Zenon DEF PublicKey
  <2>2. step = "done" => <<"controller", machine.key>> \in served BY <2>0, Zenon DEF DoneServed
  <2>3. ASSUME machine.st = "AwaitingM4", in_progress.st = 3, CodesAgree,
               machine.m1[2] = in_progress.salt, machine.m1[4] = pad(in_progress.b_pub)
        PROVE  <<machine.key>> = server_session_key(in_progress, a_pub_of(machine))
    <3>1. PICK salt \in Salts, b \in Privates : Keyed(salt, b) BY <2>0, <2>3, Zenon DEF ClientKeyed
    <3>2. PICK salt2 \in Salts, b2 \in Privates : in_progress = Server(salt2, b2)
      BY <2>0, <2>3, Zenon DEF SlotMade
    <3>3. in_progress.salt = salt2 BY <3>2, Zenon DEF Server, srp_server
    <3>4. machine.m1[2] = salt /\ machine.m1[4] = pad(Server(salt, b).b_pub) BY <3>1 DEF Keyed, proof_m1
    <3>5. salt = salt2 /\ pad(Server(salt, b).b_pub) = pad(Server(salt2, b2).b_pub)
      BY <2>3, <3>2, <3>3, <3>4, Zenon
    <3> QED BY <2>0, <2>3, <3>1, <3>2, <3>5, CurrentKey, Zenon DEF PublicKey
  <2> QED BY <2>1, <2>2, <2>3, Zenon DEF SrpAgreement
<1> QED BY <1>1, SrpInvariant, PTL

-----------------------------------------------------------------------------
(* FuzzLock *)

Lockfiles == {Missing} \cup SUBSET Crates

\* Workspaces the run has not got to, or not finished with.
Todo == {job.todo[k] : k \in DOMAIN job.todo}

Listed(ws) == \A wf \in Workflows : ws \in listed[wf]
Sound(ws) == Listed(ws) /\ locks[ws] \in Resolutions(ws) /\ InStep(job.root, locks[ws])

JobTypes == [pc : {"idle", "next", "seed", "update", "check"}, sync : BOOLEAN,
             root : SUBSET Crates, todo : Seq(Named), previous : Lockfiles, failures : BOOLEAN]
FuzzTypes ==
    root \in SUBSET Crates /\ locks \in [Named -> Lockfiles] /\ job \in JobTypes

\* The matrix entries of the workspace in hand were looked at.
UnderWay ==
    job.pc \in {"seed", "update", "check"} =>
        job.todo # <<>> /\ (~job.failures => Listed(Head(job.todo)))

\* A run without failures found every workspace sound that it is done with.
Checked ==
    /\ job.pc # "idle" /\ ~job.failures => \A ws \in Named \ Todo : Sound(ws)
    /\ verdict = "ok" => job.pc = "idle" /\ \A ws \in Named : Sound(ws)

\* A lockfile that was not synced is as it was, or remembered.
Kept ==
    \A ws \in Named \ (synced \cup spoilt) :
        IF job.pc = "update" /\ ws = Head(job.todo)
        THEN job.previous = committed[ws] ELSE locks[ws] = committed[ws]

FuzzInv == FuzzTypes /\ UnderWay /\ Checked /\ Kept

\* compat_key has one bucket for all versions Cargo takes for one dependency.
LEMMA SameBucket ==
    ASSUME NEW p \in Crates, NEW r \in Crates, Compatible(r.version, p.version)
    PROVE  compat_key(r.version) = compat_key(p.version)
<1> DEFINE v == r.version  w == p.version
<1>2. PICK k \in 1..3 : /\ \A j \in 1..(k - 1) : v[j] = 0 /\ w[j] = 0
                        /\ v[k] = w[k] /\ (v[k] # 0 \/ k = 3)
  BY Zenon DEF Compatible
<1>3. CASE k = 1 BY <1>2, <1>3 DEF compat_key
<1>4. CASE k = 2
  <2>1. v[1] = 0 /\ w[1] = 0 BY <1>2, <1>4
  <2> QED BY <1>2, <1>4, <2>1, Zenon DEF compat_key
<1>5. CASE k = 3
  <2>1. v[1] = 0 /\ w[1] = 0 /\ v[2] = 0 /\ w[2] = 0 BY <1>2, <1>5
  <2> QED BY <1>2, <1>5, <2>1, Zenon DEF compat_key
<1>6. k = 1 \/ k = 2 \/ k = 3 BY <1>2
<1> QED BY <1>3, <1>4, <1>5, <1>6, Zenon

\* A lockfile in which drift finds nothing is in step with the root's.
LEMMA NoDriftInStep ==
    ASSUME NEW pins \in SUBSET Crates, NEW fuzz \in SUBSET Crates, drift(pins, fuzz) = {}
    PROVE  InStep(pins, fuzz)
<1> SUFFICES ASSUME NEW p \in fuzz, NEW r \in pins, r.name = p.name,
                    Compatible(r.version, p.version)
             PROVE  p \in pins
  BY Zenon DEF InStep
<1> DEFINE pinned == {q \in pins : q.name = p.name
                                   /\ compat_key(q.version) = compat_key(p.version)}
<1>1. r \in pinned BY SameBucket, Zenon
<1>2. p \in pinned BY <1>1, Zenon DEF drift
<1> QED BY <1>2, Zenon

\* What is left when the first workspace is done.
LEMMA HeadAndRest ==
    ASSUME NEW s \in Seq(Named), s # <<>>
    PROVE  /\ Head(s) \in Named /\ Tail(s) \in Seq(Named) /\ Head(s) \in {s[k] : k \in DOMAIN s}
           /\ \A ws \in Named : ws \notin {Tail(s)[k] : k \in DOMAIN Tail(s)}
                                  => ws = Head(s) \/ ws \notin {s[k] : k \in DOMAIN s}
<1>1. Len(s) \in Nat /\ Len(s) # 0 /\ Head(s) = s[1] /\ 1 \in DOMAIN s /\ s[1] \in Named OBVIOUS
<1>2. Tail(s) \in Seq(Named) OBVIOUS
<1>3. ASSUME NEW k \in DOMAIN s, k # 1
      PROVE  k - 1 \in DOMAIN Tail(s) /\ Tail(s)[k - 1] = s[k]
  BY <1>1, <1>3
<1> QED BY <1>1, <1>2, <1>3

\* The lockfiles that satisfy a manifest are lockfiles.
LEMMA ResolutionsAreLocks ==
    ASSUME NEW ws, NEW res \in Resolutions(ws)
    PROVE  res \in SUBSET Crates
  BY DEF Resolutions

\* The fields of the run.
LEMMA JobFields ==
    ASSUME FuzzInv
    PROVE  /\ job.pc \in {"idle", "next", "seed", "update", "check"} /\ job.root \in SUBSET Crates
           /\ job.todo \in Seq(Named) /\ job.previous \in Lockfiles
           /\ locks \in [Named -> Lockfiles]
<1>1. job \in JobTypes /\ locks \in [Named -> Lockfiles] BY Zenon DEF FuzzInv, FuzzTypes
<1> QED BY <1>1, Zenon DEF JobTypes

\* A run that ends without Ok keeps the invariant if the lockfiles it has not
\* synced are what they were.
LEMMA EndRunKeeps ==
    ASSUME FuzzInv, NEW how \in {"failed", "killed"}, EndRun(how),
           locks' \in [Named -> Lockfiles], UNCHANGED <<root, listed, committed, synced>>,
           \A ws \in Named \ (synced \cup spoilt') : locks'[ws] = committed[ws]
    PROVE  FuzzInv'
<1>1. job' = [NoRun EXCEPT !.root = job.root] /\ verdict' = how BY Zenon DEF EndRun
<1>2. job' \in JobTypes /\ job'.pc = "idle"
  <2>1. job.root \in SUBSET Crates /\ <<>> \in Seq(Named) BY JobFields
  <2> QED BY <1>1, <2>1, Zenon DEF JobTypes, NoRun, Lockfiles
<1>3. FuzzTypes' BY <1>2, Zenon DEF FuzzInv, FuzzTypes
<1>4. UnderWay' /\ Checked' /\ Kept' BY <1>1, <1>2, Zenon DEF UnderWay, Checked, Kept
<1> QED BY <1>3, <1>4, Zenon DEF FuzzInv

\* run starts.
LEMMA StartRunKeeps ==
    ASSUME FuzzInv, NEW sync \in BOOLEAN, StartRun(sync)
    PROVE  FuzzInv'
<1>1. /\ job' = [NoRun EXCEPT !.pc = "next", !.sync = sync, !.root = root, !.todo = Workspaces]
      /\ verdict' = "none" /\ committed' = locks /\ UNCHANGED <<root, locks, listed>>
  BY Zenon DEF StartRun
<1>2. job' \in JobTypes /\ job'.pc = "next" /\ job'.todo = Workspaces
  <2>1. root \in SUBSET Crates /\ Workspaces \in Seq(Named)
    BY FuzzAssumption, Zenon DEF FuzzInv, FuzzTypes
  <2> QED BY <1>1, <2>1, Zenon DEF JobTypes, NoRun, Lockfiles
<1>3. FuzzTypes' BY <1>1, <1>2, Zenon DEF FuzzInv, FuzzTypes
<1>4. Todo' = Named BY <1>2, Zenon DEF Todo, Named
<1>5. UnderWay' /\ Checked' /\ Kept' BY <1>1, <1>2, <1>4, Zenon DEF UnderWay, Checked, Kept
<1> QED BY <1>3, <1>5, Zenon DEF FuzzInv

\* The matrix entries of the next workspace.
LEMMA TakeWorkspaceKeeps ==
    ASSUME FuzzInv, TakeWorkspace
    PROVE  FuzzInv'
<1> DEFINE pc == IF job.sync THEN "seed" ELSE "check"
           failures == job.failures \/ ~Listed(Head(job.todo))
<1>1. /\ job.pc = "next" /\ job.todo # <<>>
      /\ job' = [job EXCEPT !.pc = pc, !.failures = failures]
      /\ UNCHANGED <<root, locks, listed, verdict, committed, synced, spoilt>>
  <2>1. failures = (job.failures \/ \E wf \in Workflows : ~lists_crate(wf, Head(job.todo)))
    BY Zenon DEF Listed, lists_crate
  <2> QED BY <2>1, Zenon DEF TakeWorkspace
<1>2. job \in JobTypes BY Zenon DEF FuzzInv, FuzzTypes
<1>3. pc \in {"seed", "check"} /\ failures \in BOOLEAN BY <1>2, Zenon DEF JobTypes
<1>a. failures <=> (job.failures \/ ~Listed(Head(job.todo))) BY <1>2, Zenon DEF JobTypes
<1> HIDE DEF pc, failures
<1>4. /\ job' \in JobTypes /\ job'.pc = pc /\ job'.todo = job.todo /\ job'.root = job.root
      /\ job'.failures = failures
  BY <1>1, <1>2, <1>3, Zenon DEF JobTypes
<1>5. FuzzTypes' BY <1>1, <1>4, Zenon DEF FuzzInv, FuzzTypes
<1>6. UnderWay'
  <2>1. Listed(Head(job.todo))' = Listed(Head(job.todo)) BY <1>1, <1>4, Zenon DEF Listed
  <2> QED BY <1>1, <1>3, <1>4, <1>a, <2>1, Zenon DEF UnderWay
<1>7. Todo' = Todo /\ \A ws \in Named : Sound(ws)' = Sound(ws)
  BY <1>1, <1>4, Zenon DEF Todo, Sound, Listed, InStep, Resolutions
<1>8. Checked'
  <2>1. verdict' # "ok" BY <1>1, Zenon DEF FuzzInv, Checked
  <2>2. ~job'.failures => ~job.failures BY <1>4, <1>a, Zenon
  <2> QED BY <1>1, <1>7, <2>1, <2>2, Zenon DEF FuzzInv, Checked
<1>9. Kept' BY <1>1, <1>3, <1>4, Zenon DEF FuzzInv, Kept
<1> QED BY <1>5, <1>6, <1>8, <1>9, Zenon DEF FuzzInv

\* sync_from_root copies the root's lockfile: the previous one is remembered.
LEMMA SeedLockKeeps ==
    ASSUME FuzzInv, SeedLock
    PROVE  FuzzInv'
<1> DEFINE h == Head(job.todo)
<1>f. JobFields!2 BY JobFields, Zenon
<1>0. job.pc = "seed" /\ job.todo # <<>> /\ h \in Named /\ h \in Todo
  BY <1>f, HeadAndRest, Zenon DEF SeedLock, FuzzInv, UnderWay, Todo
<1>1. CASE EndRun("failed") /\ spoilt' = spoilt \cup {h} /\ UNCHANGED locks
  <2>1. \A ws \in Named \ (synced \cup spoilt') : locks'[ws] = committed[ws]
    BY <1>0, <1>1, Zenon DEF FuzzInv, Kept
  <2> QED BY <1>1, <1>f, <2>1, EndRunKeeps, Zenon DEF SeedLock
<1>2. CASE /\ job' = [job EXCEPT !.pc = "update", !.previous = locks[h]]
           /\ locks' = [locks EXCEPT ![h] = root] /\ UNCHANGED <<verdict, spoilt>>
  <2>1. UNCHANGED <<root, listed, committed, synced>> BY Zenon DEF SeedLock
  <2>2. job \in JobTypes /\ locks[h] \in Lockfiles /\ root \in SUBSET Crates
    BY <1>0, <1>f, Zenon DEF FuzzInv, FuzzTypes
  <2>3. /\ job' \in JobTypes /\ job'.pc = "update" /\ job'.todo = job.todo
        /\ job'.root = job.root /\ job'.failures = job.failures /\ job'.previous = locks[h]
    BY <1>2, <2>2, Zenon DEF JobTypes
  <2>4. locks' \in [Named -> Lockfiles] /\ \A ws \in Named : ws # h => locks'[ws] = locks[ws]
    BY <1>2, <1>f, <2>2, Zenon DEF Lockfiles
  <2>5. FuzzTypes' BY <2>1, <2>2, <2>3, <2>4, Zenon DEF FuzzInv, FuzzTypes
  <2>6. UnderWay'
    <3>1. Listed(h)' = Listed(h) BY <2>1, <2>3, Zenon DEF Listed
    <3> QED BY <1>0, <2>3, <3>1, Zenon DEF FuzzInv, UnderWay
  <2>7. Todo' = Todo /\ \A ws \in Named \ Todo : Sound(ws)' = Sound(ws)
    BY <1>0, <2>1, <2>3, <2>4, Zenon DEF Todo, Sound, Listed, InStep, Resolutions
  <2>8. Checked'
    <3>1. verdict' # "ok" BY <1>0, <1>2, Zenon DEF FuzzInv, Checked
    <3> QED BY <1>0, <2>3, <2>7, <3>1, Zenon DEF FuzzInv, Checked
  <2>9. Kept'
    <3>1. \A ws \in Named \ (synced \cup spoilt) : locks[ws] = committed[ws]
      BY <1>0, Zenon DEF FuzzInv, Kept
    <3> QED BY <1>0, <1>2, <2>1, <2>3, <2>4, <3>1 DEF Kept
  <2> QED BY <2>5, <2>6, <2>8, <2>9, Zenon DEF FuzzInv
<1> QED BY <1>1, <1>2, Zenon DEF SeedLock

\* cargo update --workspace succeeds.
LEMMA CargoUpdatesKeeps ==
    ASSUME FuzzInv, CargoUpdates
    PROVE  FuzzInv'
<1> DEFINE h == Head(job.todo)
<1>f. JobFields!2 BY JobFields, Zenon
<1>0. job.pc = "update" /\ job.todo # <<>> /\ h \in Named /\ h \in Todo
  BY <1>f, HeadAndRest, Zenon DEF CargoUpdates, FuzzInv, UnderWay, Todo
<1>1. PICK res \in Resolutions(h) : locks' = [locks EXCEPT ![h] = res] BY Zenon DEF CargoUpdates
<1>2. /\ job' = [job EXCEPT !.pc = "check", !.previous = Missing]
      /\ synced' = synced \cup {h} /\ UNCHANGED <<root, listed, verdict, committed, spoilt>>
  BY Zenon DEF CargoUpdates
<1>3. /\ job' \in JobTypes /\ job'.pc = "check" /\ job'.todo = job.todo
      /\ job'.root = job.root /\ job'.failures = job.failures
  <2>1. job \in JobTypes BY Zenon DEF FuzzInv, FuzzTypes
  <2> QED BY <1>2, <2>1, Zenon DEF JobTypes, Lockfiles
<1>4. locks' \in [Named -> Lockfiles] /\ \A ws \in Named : ws # h => locks'[ws] = locks[ws]
  <2>1. res \in Lockfiles BY ResolutionsAreLocks, Zenon DEF Lockfiles
  <2> QED BY <1>1, <1>f, <2>1, Zenon
<1>5. FuzzTypes' BY <1>2, <1>3, <1>4, Zenon DEF FuzzInv, FuzzTypes
<1>6. UnderWay'
  <2>1. Listed(h)' = Listed(h) BY <1>2, <1>3, Zenon DEF Listed
  <2> QED BY <1>0, <1>3, <2>1, Zenon DEF FuzzInv, UnderWay
<1>7. Todo' = Todo /\ \A ws \in Named \ Todo : Sound(ws)' = Sound(ws)
  BY <1>0, <1>2, <1>3, <1>4 DEF Todo, Sound, Listed, InStep, Resolutions
<1>8. Checked'
  <2>1. verdict' # "ok" BY <1>0, <1>2, Zenon DEF FuzzInv, Checked
  <2> QED BY <1>0, <1>3, <1>7, <2>1, Zenon DEF FuzzInv, Checked
<1>9. Kept' BY <1>0, <1>2, <1>3, <1>4, Zenon DEF FuzzInv, Kept
<1> QED BY <1>5, <1>6, <1>8, <1>9, Zenon DEF FuzzInv

\* cargo update fails: the previous lockfile is put back.
LEMMA CargoFailsKeeps ==
    ASSUME FuzzInv, CargoFails
    PROVE  FuzzInv'
<1> DEFINE h == Head(job.todo)
<1>f. JobFields!2 BY JobFields, Zenon
<1>0. job.pc = "update" /\ job.todo # <<>> /\ h \in Named
  BY <1>f, HeadAndRest, Zenon DEF CargoFails, FuzzInv, UnderWay
<1>1. /\ \/ locks' = [locks EXCEPT ![h] = job.previous] /\ UNCHANGED spoilt
         \/ spoilt' = spoilt \cup {h} /\ UNCHANGED locks
      /\ EndRun("failed") /\ UNCHANGED <<root, listed, committed, synced>>
  BY Zenon DEF CargoFails
<1>2. locks' \in [Named -> Lockfiles] BY <1>1, <1>f, Zenon
<1>3. \A ws \in Named \ (synced \cup spoilt') : locks'[ws] = committed[ws]
  BY <1>0, <1>1, <1>f, Zenon DEF FuzzInv, Kept
<1> QED BY <1>1, <1>2, <1>3, EndRunKeeps, Zenon

\* The command is interrupted.
LEMMA KillRunKeeps ==
    ASSUME FuzzInv, KillRun
    PROVE  FuzzInv'
<1>1. /\ spoilt' = IF job.pc = "update" THEN spoilt \cup {Head(job.todo)} ELSE spoilt
      /\ EndRun("killed") /\ UNCHANGED <<root, locks, listed, committed, synced>>
  BY Zenon DEF KillRun
<1>2. locks' \in [Named -> Lockfiles] BY <1>1, JobFields, Zenon
<1>3. \A ws \in Named \ (synced \cup spoilt') : locks'[ws] = committed[ws]
  BY <1>1, Zenon DEF FuzzInv, Kept
<1> QED BY <1>1, <1>2, <1>3, EndRunKeeps, Zenon

\* The check of a workspace: one that passes has not drifted.
LEMMA CheckLockKeeps ==
    ASSUME FuzzInv, CheckLock
    PROVE  FuzzInv'
<1> DEFINE h == Head(job.todo)
           sound == locks[h] # Missing /\ drift(job.root, locks[h]) = {} /\ Locked(h)
<1>f. JobFields!2 BY JobFields, Zenon
<1>0. job.pc = "check" /\ job.todo # <<>> /\ h \in Named
  BY <1>f, HeadAndRest, Zenon DEF CheckLock, FuzzInv, UnderWay
<1>1. PICK ok \in {sound, FALSE} :
        job' = [job EXCEPT !.pc = "next", !.todo = Tail(job.todo), !.failures = job.failures \/ ~ok]
  BY Zenon DEF CheckLock
<1>2. UNCHANGED <<root, locks, listed, verdict, committed, synced, spoilt>> BY Zenon DEF CheckLock
<1> DEFINE failures == job.failures \/ ~ok
<1>3. failures \in BOOLEAN /\ (~failures => ~job.failures /\ sound) BY Zenon
<1>4. /\ job' \in JobTypes /\ job'.pc = "next" /\ job'.todo = Tail(job.todo)
      /\ job'.root = job.root /\ job'.failures = failures
  <2>1. job \in JobTypes /\ Tail(job.todo) \in Seq(Named)
    BY <1>0, <1>f, HeadAndRest, Zenon DEF FuzzInv, FuzzTypes
  <2> HIDE DEF failures
  <2> QED BY <1>1, <1>3, <2>1, Zenon DEF JobTypes, failures
<1> HIDE DEF sound, failures
<1>5. FuzzTypes' BY <1>2, <1>4, Zenon DEF FuzzInv, FuzzTypes
<1>6. UnderWay' BY <1>4, Zenon DEF UnderWay
<1>7. \A ws \in Named : Sound(ws)' = Sound(ws)
  BY <1>2, <1>4, Zenon DEF Sound, Listed, InStep, Resolutions
<1>8. ~failures => Sound(h)
  <2> SUFFICES ASSUME ~failures PROVE Sound(h) BY Zenon
  <2>1. ~job.failures /\ sound BY <1>3, Zenon
  <2>2. Listed(h) BY <1>0, <2>1, Zenon DEF FuzzInv, UnderWay
  <2>3. locks[h] \in Resolutions(h) /\ drift(job.root, locks[h]) = {} BY <2>1, Zenon DEF sound, Locked
  <2>4. InStep(job.root, locks[h]) BY <2>3, <1>f, ResolutionsAreLocks, NoDriftInStep, Zenon
  <2> QED BY <2>2, <2>3, <2>4, Zenon DEF Sound
<1>9. Checked'
  <2>1. verdict' # "ok" BY <1>0, <1>2, Zenon DEF FuzzInv, Checked
  <2>2. \A ws \in Named \ Todo' : ws = h \/ ws \notin Todo
    BY <1>0, <1>4, <1>f, HeadAndRest, Zenon DEF Todo
  <2>3. ~failures => \A ws \in Named \ Todo : Sound(ws) BY <1>0, <1>3, Zenon DEF FuzzInv, Checked
  <2>4. ~failures => \A ws \in Named \ Todo' : Sound(ws)' BY <1>7, <1>8, <2>2, <2>3, Zenon
  <2>5. job'.failures = failures BY <1>4, Zenon
  <2> QED BY <2>1, <2>4, <2>5, Zenon DEF Checked
<1>10. Kept' BY <1>0, <1>2, <1>4, Zenon DEF FuzzInv, Kept
<1> QED BY <1>5, <1>6, <1>9, <1>10, Zenon DEF FuzzInv

\* run returns: Ok without failures.
LEMMA FinishRunKeeps ==
    ASSUME FuzzInv, FinishRun
    PROVE  FuzzInv'
<1>f. JobFields!2 BY JobFields, Zenon
<1>1. /\ job.pc = "next" /\ job.todo = <<>> /\ EndRun(IF job.failures THEN "failed" ELSE "ok")
      /\ UNCHANGED <<root, locks, listed, committed, synced, spoilt>>
  BY Zenon DEF FinishRun
<1>2. \A ws \in Named \ (synced \cup spoilt) : locks[ws] = committed[ws]
  BY <1>1, Zenon DEF FuzzInv, Kept
<1>3. CASE job.failures
  <2>1. EndRun("failed") BY <1>1, <1>3, Zenon
  <2> QED BY <1>1, <1>2, <1>f, <2>1, EndRunKeeps, Zenon
<1>4. CASE ~job.failures
  <2>1. job' = [NoRun EXCEPT !.root = job.root] /\ verdict' = "ok" BY <1>1, <1>4, Zenon DEF EndRun
  <2>2. job' \in JobTypes /\ job'.pc = "idle" /\ job'.root = job.root
    <3>1. job.root \in SUBSET Crates /\ <<>> \in Seq(Named) BY <1>f
    <3> QED BY <2>1, <3>1, Zenon DEF JobTypes, NoRun, Lockfiles
  <2>3. FuzzTypes' BY <1>1, <2>2, Zenon DEF FuzzInv, FuzzTypes
  <2>4. UnderWay' /\ Kept' BY <1>1, <1>2, <2>2, Zenon DEF UnderWay, Kept
  <2>5. Checked'
    <3>1. Todo = {} BY <1>1 DEF Todo
    <3>2. \A ws \in Named : Sound(ws) BY <1>1, <1>4, <3>1, Zenon DEF FuzzInv, Checked
    <3>3. \A ws \in Named : Sound(ws)' = Sound(ws)
      BY <1>1, <2>2, Zenon DEF Sound, Listed, InStep, Resolutions
    <3> QED BY <2>2, <3>2, <3>3, Zenon DEF Checked
  <2> QED BY <2>3, <2>4, <2>5, Zenon DEF FuzzInv
<1> QED BY <1>3, <1>4, Zenon

\* Nothing of the run changes: cargo update at the root, or no step.
LEMMA RunUnchanged ==
    ASSUME FuzzInv, root' \in SUBSET Crates,
           UNCHANGED <<locks, listed, job, verdict, committed, synced, spoilt>>
    PROVE  FuzzInv'
<1>1. FuzzTypes' BY Zenon DEF FuzzInv, FuzzTypes
<1>2. UnderWay' BY Zenon DEF FuzzInv, UnderWay, Listed
<1>3. Todo' = Todo /\ \A ws \in Named : Sound(ws)' = Sound(ws)
  BY Zenon DEF Todo, Sound, Listed, InStep, Resolutions
<1>4. Checked' BY <1>3, Zenon DEF FuzzInv, Checked
<1>5. Kept' BY Zenon DEF FuzzInv, Kept
<1> QED BY <1>1, <1>2, <1>4, <1>5, Zenon DEF FuzzInv

\* The invariant of fuzz-lock, for any workspaces, manifests and lockfiles.
THEOREM FuzzInvariant == FuzzSpec => []FuzzInv
<1>1. FuzzInit => FuzzInv
  <2> SUFFICES ASSUME FuzzInit PROVE FuzzInv BY Zenon
  <2>1. job = NoRun /\ verdict = "none" /\ committed = locks BY Zenon DEF FuzzInit
  <2>2. job \in JobTypes /\ job.pc = "idle"
    <3>1. <<>> \in Seq(Named) OBVIOUS
    <3> QED BY <2>1, <3>1, Zenon DEF NoRun, JobTypes, Lockfiles
  <2>3. FuzzTypes
    <3>1. root \in SUBSET Crates BY FuzzAssumption, Zenon DEF FuzzInit
    <3>2. locks \in [Named -> {Missing} \cup UNION {Resolutions(ws) : ws \in Named}]
      BY Zenon DEF FuzzInit
    <3>3. {Missing} \cup UNION {Resolutions(ws) : ws \in Named} \subseteq Lockfiles
      BY ResolutionsAreLocks DEF Lockfiles
    <3> QED BY <2>2, <3>1, <3>2, <3>3, Zenon DEF FuzzTypes
  <2>4. UnderWay /\ Checked /\ Kept BY <2>1, <2>2, Zenon DEF UnderWay, Checked, Kept
  <2> QED BY <2>3, <2>4, Zenon DEF FuzzInv
<1>2. FuzzInv /\ [FuzzNext]_fuzzVars => FuzzInv'
  <2> SUFFICES ASSUME FuzzInv, [FuzzNext]_fuzzVars PROVE FuzzInv' BY Zenon
  <2>1. CASE UNCHANGED fuzzVars BY <2>1, RunUnchanged, Zenon DEF fuzzVars, FuzzInv, FuzzTypes
  <2>2. CASE UpdateRoot BY <2>2, RunUnchanged, FuzzAssumption, Zenon DEF UpdateRoot
  <2>3. CASE \E sync \in BOOLEAN : StartRun(sync) BY <2>3, StartRunKeeps, Zenon
  <2> QED BY <2>1, <2>2, <2>3, TakeWorkspaceKeeps, SeedLockKeeps, CargoUpdatesKeeps,
             CargoFailsKeeps, CheckLockKeeps, FinishRunKeeps, KillRunKeeps, Zenon DEF FuzzNext
<1> QED BY <1>1, <1>2, PTL DEF FuzzSpec

\* fuzz-lock says Ok only of workspaces in step with the root, and a sync loses
\* no lockfile that cargo update did not replace.
THEOREM FuzzLocksInStep == FuzzSpec => []LocksInStep
<1>1. FuzzInv => LocksInStep
  <2> SUFFICES ASSUME FuzzInv PROVE LocksInStep BY Zenon
  <2>1. verdict = "ok" => \A ws \in Named : Sound(ws) BY Zenon DEF FuzzInv, Checked
  <2>2. job.pc = "idle" => \A ws \in Named \ (synced \cup spoilt) : locks[ws] = committed[ws]
    BY Zenon DEF FuzzInv, Kept
  <2> QED BY <2>1, <2>2, Zenon DEF LocksInStep, Sound, Listed
<1> QED BY <1>1, FuzzInvariant, PTL

==============================================================================
