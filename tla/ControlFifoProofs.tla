------------------------- MODULE ControlFifoProofs -------------------------
(***************************************************************************)
(* Proofs about ControlFifo, for any byte and id width, any commands, any  *)
(* number of writers and frames.  First the codec, by induction over the   *)
(* bytes of an id: what a writer encodes is what svlopp decodes.  Then the *)
(* stream, by an inductive invariant: where frames begin in the pipe.      *)
(***************************************************************************)
EXTENDS ControlFifo, WellFoundedInduction, TLAPS

-----------------------------------------------------------------------------
(* Induction and recursion over the naturals.  The induction is stated for *)
(* a set of numbers and the recursion for a step given as a function:      *)
(* theorems with operator parameters are out of the provers' reach.        *)

(* A set of naturals with 0, and with n + 1 for each n in it, is all of Nat. *)
LEMMA NatSetInduction ==
  ASSUME NEW T \in SUBSET Nat, 0 \in T, \A n \in T : n + 1 \in T
  PROVE  T = Nat
<1> DEFINE R == OpToRel(<, Nat)
<1>1. IsWellFoundedOn(R, Nat)
  BY NatLessThanWellFounded
<1>2. \A i, j \in Nat : i < j => <<i, j>> \in R
  BY DEF OpToRel
<1> HIDE DEF R
<1>3. SUFFICES ASSUME Nat \ T # {} PROVE FALSE
  OBVIOUS
<1>4. PICK x \in Nat \ T : \A y \in Nat \ T : ~(<<y, x>> \in R)
  BY <1>1, <1>3, WFMin
<1>5. x # 0 /\ x - 1 \in Nat /\ x - 1 < x
  OBVIOUS
<1>6. x - 1 \in T
  BY <1>2, <1>4, <1>5
<1> QED  BY <1>4, <1>5, <1>6

(* g starts with c and goes on, up to n, as the step h says *)
FollowsTo(g, n, c, h) == g[0] = c /\ \A k \in 1 .. n : g[k] = h[k][g[k - 1]]

(* f does so for ever *)
Follows(f, S, c, h) ==
  f \in [Nat -> S] /\ f[0] = c /\ \A n \in Nat : f[n + 1] = h[n + 1][f[n]]

(* A step can be followed as far as one likes. *)
LEMMA FiniteRecursion ==
  ASSUME NEW S, NEW c \in S, NEW h \in [Nat -> [S -> S]]
  PROVE  \A n \in Nat : \E g \in [0 .. n -> S] : FollowsTo(g, n, c, h)
<1> DEFINE T == {n \in Nat : \E g \in [0 .. n -> S] : FollowsTo(g, n, c, h)}
<1>1. 0 \in T
  <2>1. /\ [k \in 0 .. 0 |-> c] \in [0 .. 0 -> S]
        /\ FollowsTo([k \in 0 .. 0 |-> c], 0, c, h)
    BY DEF FollowsTo
  <2> QED  BY <2>1
<1>2. ASSUME NEW n \in T PROVE n + 1 \in T
  <2>1. PICK g \in [0 .. n -> S] : FollowsTo(g, n, c, h)
    OBVIOUS
  <2>2. PICK v : v = h[n + 1][g[n]]
    OBVIOUS
  <2>3. v \in S /\ n \in Nat
    BY <2>2
  <2> DEFINE longer == [k \in 0 .. n + 1 |-> IF k = n + 1 THEN v ELSE g[k]]
  <2>4. longer \in [0 .. n + 1 -> S]
    BY <2>3
  <2>5. longer[n + 1] = v /\ \A k \in 0 .. n : longer[k] = g[k]
    BY <2>3
  <2> HIDE DEF longer
  <2>6. longer[0] = c
    BY <2>1, <2>3, <2>5 DEF FollowsTo
  <2>7. ASSUME NEW k \in 1 .. n + 1 PROVE longer[k] = h[k][longer[k - 1]]
    <3>1. CASE k = n + 1
      BY <2>2, <2>3, <2>5, <3>1
    <3>2. CASE k # n + 1
      <4>1. k \in 1 .. n /\ k - 1 \in 0 .. n /\ k \in 0 .. n
        BY <2>3, <3>2
      <4> QED  BY <2>1, <2>5, <4>1 DEF FollowsTo
    <3> QED  BY <3>1, <3>2
  <2>8. FollowsTo(longer, n + 1, c, h)
    BY <2>6, <2>7 DEF FollowsTo
  <2> QED  BY <2>3, <2>4, <2>8
<1>3. T \in SUBSET Nat
  OBVIOUS
<1>4. T = Nat
  <2> HIDE DEF T
  <2> QED  BY <1>1, <1>2, <1>3, NatSetInduction
<1> QED  BY <1>4

(* A step can be followed for ever. *)
LEMMA Recursion ==
  ASSUME NEW S, NEW c \in S, NEW h \in [Nat -> [S -> S]]
  PROVE  \E f : Follows(f, S, c, h)
<1>0. ASSUME NEW n \in Nat, NEW m \in n .. n + 1,
             NEW g1 \in [0 .. n -> S], NEW g2 \in [0 .. m -> S],
             FollowsTo(g1, n, c, h), FollowsTo(g2, m, c, h)
      PROVE  g1[n] = g2[n]
  <2> DEFINE U == {k \in Nat : k <= n => g1[k] = g2[k]}
  <2>1. 0 \in U
    BY <1>0 DEF FollowsTo
  <2>2. ASSUME NEW k \in U PROVE k + 1 \in U
    <3>1. SUFFICES ASSUME k + 1 <= n PROVE g1[k + 1] = g2[k + 1]
      OBVIOUS
    <3>2. k \in Nat /\ k + 1 \in 1 .. n /\ k + 1 \in 1 .. m /\ g1[k] = g2[k] /\ (k + 1) - 1 = k
      BY <3>1
    <3>3. g1[k + 1] = h[k + 1][g1[(k + 1) - 1]] /\ g2[k + 1] = h[k + 1][g2[(k + 1) - 1]]
      BY <1>0, <3>2 DEF FollowsTo
    <3> QED  BY <3>2, <3>3
  <2>3. U = Nat
    <3>1. U \in SUBSET Nat
      OBVIOUS
    <3> HIDE DEF U
    <3> QED  BY <2>1, <2>2, <3>1, NatSetInduction
  <2> QED  BY <2>3
<1> DEFINE G(n) == CHOOSE g \in [0 .. n -> S] : FollowsTo(g, n, c, h)
           f == [n \in Nat |-> G(n)[n]]
<1>1. \A n \in Nat : G(n) \in [0 .. n -> S] /\ FollowsTo(G(n), n, c, h)
  <2>1. \A n \in Nat : \E g \in [0 .. n -> S] : FollowsTo(g, n, c, h)
    BY FiniteRecursion, Zenon
  <2> QED  BY <2>1
<1> HIDE DEF G
<1>2. f \in [Nat -> S]
  BY <1>1
<1>3. f[0] = c
  BY <1>1 DEF FollowsTo
<1>4. ASSUME NEW n \in Nat PROVE f[n + 1] = h[n + 1][f[n]]
  <2>1. G(n)[n] = G(n + 1)[n]
    <3>1. /\ n + 1 \in Nat /\ n + 1 \in n .. n + 1
          /\ G(n) \in [0 .. n -> S] /\ FollowsTo(G(n), n, c, h)
          /\ G(n + 1) \in [0 .. n + 1 -> S] /\ FollowsTo(G(n + 1), n + 1, c, h)
      BY <1>1
    <3> QED  BY <3>1, <1>0
  <2>2. G(n + 1)[n + 1] = h[n + 1][G(n + 1)[n]]
    BY <1>1 DEF FollowsTo
  <2> QED  BY <2>1, <2>2
<1>5. Follows(f, S, c, h)
  BY <1>2, <1>3, <1>4 DEF Follows
<1> QED  BY <1>5

-----------------------------------------------------------------------------
(* The codec *)

(* A byte has at least one value. *)
LEMMA BaseIsPositive == Base \in Nat \ {0}
BY ControlFifoAssumption

(* Pow is the power function. *)
LEMMA PowFacts ==
  Pow \in [Nat -> Nat \ {0}] /\ Pow[0] = 1 /\ \A n \in Nat : Pow[n + 1] = Base * Pow[n]
<1> USE BaseIsPositive
<1> DEFINE h == [k \in Nat |-> [m \in Nat |-> Base * m]]
<1>1. h \in [Nat -> [Nat -> Nat]] /\ 1 \in Nat
  OBVIOUS
<1>2. \A k, m \in Nat : h[k][m] = Base * m
  OBVIOUS
<1> HIDE DEF h
<1>3. PICK f : Follows(f, Nat, 1, h)
  BY <1>1, Recursion, Zenon
<1>4. f = [n \in Nat |-> IF n = 0 THEN 1 ELSE Base * f[n - 1]]
  <2>1. f \in [Nat -> Nat] /\ f[0] = 1 /\ \A n \in Nat : f[n + 1] = Base * f[n]
    <3>1. f \in [Nat -> Nat] /\ f[0] = 1 /\ \A n \in Nat : f[n + 1] = h[n + 1][f[n]]
      BY <1>3 DEF Follows
    <3>2. ASSUME NEW n \in Nat PROVE f[n + 1] = Base * f[n]
      <4>1. n + 1 \in Nat /\ f[n] \in Nat /\ f[n + 1] = h[n + 1][f[n]]
        BY <3>1
      <4> QED  BY <1>2, <4>1
    <3> QED  BY <3>1, <3>2
  <2> QED  BY <2>1
<1>5. Pow = [n \in Nat |-> IF n = 0 THEN 1 ELSE Base * Pow[n - 1]]
  BY <1>4 DEF Pow
<1>6. Pow[0] = 1 /\ \A n \in Nat : Pow[n + 1] = Base * Pow[n]
  BY <1>5
<1>7. Pow \in [Nat -> Nat \ {0}]
  <2> DEFINE T == {n \in Nat : Pow[n] \in Nat \ {0}}
  <2>1. 0 \in T
    BY <1>6
  <2>2. ASSUME NEW n \in T PROVE n + 1 \in T
    <3>1. ASSUME NEW b \in Nat \ {0}, NEW p \in Nat \ {0} PROVE b * p \in Nat \ {0}
      OBVIOUS
    <3> QED  BY <1>6, <3>1
  <2>3. T \in SUBSET Nat
    OBVIOUS
  <2> HIDE DEF T
  <2>4. T = Nat
    BY <2>1, <2>2, <2>3, NatSetInduction
  <2>5. \A n \in Nat : Pow[n] \in Nat \ {0}
    BY <2>4 DEF T
  <2> QED  BY <1>5, <2>5
<1> QED  BY <1>6, <1>7

(* Division with remainder. *)
LEMMA DivMod ==
  ASSUME NEW x \in Nat, NEW d \in Nat \ {0}
  PROVE  /\ x \div d \in Nat /\ x % d \in 0 .. d - 1
         /\ x = d * (x \div d) + (x % d)
OBVIOUS

(* Quotients are unique. *)
LEMMA DivUnique ==
  ASSUME NEW d \in Nat \ {0}, NEW q \in Nat, NEW r \in 0 .. d - 1,
         NEW s \in Nat, NEW t \in 0 .. d - 1,
         d * q + r = d * s + t
  PROVE  q = s
<1>1. ASSUME NEW a \in Nat, NEW b \in Nat, a < b PROVE d * a + d <= d * b
  <2>1. PICK c \in Nat : b = a + 1 + c
    BY <1>1
  <2>2. d * b = d * a + d + d * c /\ d * c \in Nat
    BY <2>1
  <2> QED  BY <2>2
<1>2. /\ q < s => d * q + d <= d * s
      /\ s < q => d * s + d <= d * q
  BY <1>1
<1>3. d * q \in Nat /\ d * s \in Nat
  OBVIOUS
<1> QED  BY <1>2, <1>3

(* A number divided by a larger one. *)
LEMMA DivSmall ==
  ASSUME NEW x \in Nat, NEW d \in Nat \ {0}, x < d
  PROVE  x \div d = 0
<1>1. PICK q \in Nat, r \in 0 .. d - 1 : q = x \div d /\ x = d * q + r
  BY DivMod
<1>2. x \in 0 .. d - 1 /\ d * 0 + x = d * q + r
  BY <1>1
<1> QED  BY <1>1, <1>2, DivUnique

(* Dividing by p and then by b is dividing by their product. *)
LEMMA DivDiv ==
  ASSUME NEW x \in Nat, NEW p \in Nat \ {0}, NEW b \in Nat \ {0}
  PROVE  (x \div p) \div b = x \div (b * p)
<1>1. PICK q \in Nat, r \in 0 .. p - 1 : q = x \div p /\ x = p * q + r
  BY DivMod
<1>2. PICK s \in Nat, t \in 0 .. b - 1 : s = q \div b /\ q = b * s + t
  BY DivMod
<1>3. PICK d \in Nat \ {0} : d = b * p
  OBVIOUS
<1>4. PICK u \in Nat, e \in 0 .. d - 1 : u = x \div d /\ x = d * u + e
  BY DivMod
<1>5. p * t + r \in 0 .. d - 1
  <2>1. PICK c \in Nat : b = t + 1 + c
    OBVIOUS
  <2>2. d = p * t + p + p * c /\ p * c \in Nat /\ p * t \in Nat
    BY <1>3, <2>1
  <2> QED  BY <2>2
<1>6. x = d * s + (p * t + r)
  <2>1. p * q = p * (b * s) + p * t
    <3>1. PICK w \in Nat : w = b * s
      OBVIOUS
    <3>2. p * (w + t) = p * w + p * t
      OBVIOUS
    <3> QED  BY <1>2, <3>1, <3>2
  <2>2. p * (b * s) = d * s
    BY <1>3
  <2>3. p * t \in Nat /\ d * s \in Nat
    OBVIOUS
  <2> QED  BY <1>1, <2>1, <2>2, <2>3
<1>7. s = u
  BY <1>4, <1>5, <1>6, DivUnique
<1> QED  BY <1>1, <1>2, <1>3, <1>4, <1>7

(* value is the table that from_le_bytes fills *)
ValueOf(value, bytes) ==
  /\ value \in [0 .. Len(bytes) -> Nat] /\ value[0] = 0
  /\ \A k \in 1 .. Len(bytes) : value[k] = bytes[Len(bytes) + 1 - k] + Base * value[k - 1]

(* from_le_bytes fills such a table and returns its last entry. *)
LEMMA FromLeBytes ==
  ASSUME NEW bytes \in Seq(Bytes)
  PROVE  \E value : ValueOf(value, bytes) /\ from_le_bytes(bytes) = value[Len(bytes)]
<1> USE BaseIsPositive
<1>1. PICK n \in Nat : n = Len(bytes)
  OBVIOUS
<1>2. \A k \in 1 .. n : n + 1 - k \in 1 .. n /\ bytes[n + 1 - k] \in Nat
  BY <1>1 DEF Bytes
<1> DEFINE h == [k \in Nat |-> [m \in Nat |->
                   IF k \in 1 .. n THEN bytes[n + 1 - k] + Base * m ELSE m]]
<1>3. h \in [Nat -> [Nat -> Nat]] /\ 0 \in Nat
  BY <1>2
<1>4. \A k \in 1 .. n : \A m \in Nat : h[k][m] = bytes[n + 1 - k] + Base * m
  OBVIOUS
<1> HIDE DEF h
<1>5. PICK f : Follows(f, Nat, 0, h)
  BY <1>3, Recursion, Zenon
<1>6. f \in [Nat -> Nat] /\ f[0] = 0 /\ \A k \in 1 .. n : f[k] = bytes[n + 1 - k] + Base * f[k - 1]
  <2>1. f \in [Nat -> Nat] /\ f[0] = 0 /\ \A k \in Nat : f[k + 1] = h[k + 1][f[k]]
    BY <1>5 DEF Follows
  <2>2. ASSUME NEW k \in 1 .. n PROVE f[k] = bytes[n + 1 - k] + Base * f[k - 1]
    <3>1. k - 1 \in Nat /\ (k - 1) + 1 = k
      OBVIOUS
    <3>2. f[k - 1] \in Nat /\ f[k] = h[k][f[k - 1]]
      BY <2>1, <3>1
    <3> QED  BY <1>4, <3>2
  <2> QED  BY <2>1, <2>2
<1> DEFINE Step(g) == [k \in 0 .. n |-> IF k = 0 THEN 0 ELSE bytes[n + 1 - k] + Base * g[k - 1]]
           value == CHOOSE g : g = Step(g)
<1>7. PICK g : g = [k \in 0 .. n |-> f[k]]
  OBVIOUS
<1>8. g = Step(g)
  <2>1. ASSUME NEW k \in 0 .. n
        PROVE  f[k] = IF k = 0 THEN 0 ELSE bytes[n + 1 - k] + Base * g[k - 1]
    BY <1>6, <1>7
  <2> QED  BY <1>7, <2>1
<1>9. value = Step(value)
  BY <1>8
<1>10. from_le_bytes(bytes) = value[n]
  BY <1>1 DEF from_le_bytes
<1> HIDE DEF value
<1>11. value[0] = 0 /\ \A k \in 1 .. n : value[k] = bytes[n + 1 - k] + Base * value[k - 1]
  BY <1>9
<1>12. \A k \in 0 .. n : value[k] \in Nat
  <2> DEFINE T == {k \in Nat : k <= n => value[k] \in Nat}
  <2>1. 0 \in T
    BY <1>11
  <2>2. ASSUME NEW k \in T PROVE k + 1 \in T
    <3>1. SUFFICES ASSUME k + 1 <= n PROVE value[k + 1] \in Nat
      OBVIOUS
    <3>2. k + 1 \in 1 .. n /\ value[k] \in Nat /\ (k + 1) - 1 = k
      BY <3>1
    <3>3. value[k + 1] = bytes[n + 1 - (k + 1)] + Base * value[k]
      BY <1>11, <3>2
    <3>4. bytes[n + 1 - (k + 1)] \in Nat
      BY <1>2, <3>2
    <3>5. Base * value[k] \in Nat
      BY <3>2
    <3> QED  BY <3>3, <3>4, <3>5
  <2>3. T \in SUBSET Nat
    OBVIOUS
  <2>4. T = Nat
    <3> HIDE DEF T
    <3> QED  BY <2>1, <2>2, <2>3, NatSetInduction
  <2> QED  BY <2>4
<1>13. ValueOf(value, bytes)
  BY <1>1, <1>9, <1>11, <1>12 DEF ValueOf
<1> QED  BY <1>1, <1>10, <1>13

(* An id that is read is an id of IdBytes bytes, whatever the bytes. *)
LEMMA ValueInRange ==
  ASSUME NEW bytes \in Seq(Bytes)
  PROVE  from_le_bytes(bytes) \in 0 .. Pow[Len(bytes)] - 1
<1> USE BaseIsPositive
<1>1. PICK n \in Nat : n = Len(bytes)
  OBVIOUS
<1>2. PICK value : ValueOf(value, bytes) /\ from_le_bytes(bytes) = value[n]
  BY <1>1, FromLeBytes
<1>3. \A k \in 1 .. n : bytes[n + 1 - k] \in 0 .. Base - 1
  BY <1>1 DEF Bytes
<1> DEFINE T == {k \in Nat : k <= n => value[k] < Pow[k]}
<1>4. 0 \in T
  BY <1>2, PowFacts DEF ValueOf
<1>5. ASSUME NEW k \in T PROVE k + 1 \in T
  <2>1. SUFFICES ASSUME k + 1 <= n PROVE value[k + 1] < Pow[k + 1]
    OBVIOUS
  <2>2. k \in Nat /\ k + 1 \in 1 .. n /\ (k + 1) - 1 = k /\ k \in 0 .. n
    BY <2>1
  <2>3. PICK v \in Nat : v = value[k]
    BY <1>1, <1>2, <2>2 DEF ValueOf
  <2>4. PICK p \in Nat \ {0} : p = Pow[k] /\ Pow[k + 1] = Base * p
    BY <2>2, PowFacts
  <2>5. PICK byte \in 0 .. Base - 1 : value[k + 1] = byte + Base * v
    BY <1>1, <1>2, <1>3, <2>2, <2>3 DEF ValueOf
  <2>6. v < p
    BY <2>1, <2>2, <2>3, <2>4
  <2>7. PICK c \in Nat : p = v + 1 + c
    BY <2>6
  <2>8. Base * p = Base * v + Base + Base * c /\ Base * c \in Nat /\ Base * v \in Nat
    BY <2>7
  <2>9. byte + Base * v < Base * p
    BY <2>8
  <2> QED  BY <2>4, <2>5, <2>9
<1>6. T = Nat
  <2>1. T \in SUBSET Nat
    OBVIOUS
  <2> HIDE DEF T
  <2> QED  BY <1>4, <1>5, <2>1, NatSetInduction
<1>7. value[n] < Pow[n] /\ value[n] \in Nat /\ Pow[n] \in Nat
  <2>1. n \in T /\ n <= n
    BY <1>6
  <2>2. value[n] < Pow[n]
    BY <2>1
  <2>3. value[n] \in Nat
    BY <1>1, <1>2 DEF ValueOf
  <2>4. Pow[n] \in Nat
    BY PowFacts
  <2> QED  BY <2>2, <2>3, <2>4
<1> QED  BY <1>1, <1>2, <1>7

(* Reading back the digits of an id gives the id. *)
LEMMA ValueOfDigits ==
  ASSUME NEW n \in Nat, NEW id \in Nat, id < Pow[n],
         NEW bytes \in Seq(Bytes), Len(bytes) = n,
         \A k \in 1 .. n : bytes[k] = (id \div Pow[k - 1]) % Base
  PROVE  from_le_bytes(bytes) = id
<1> USE BaseIsPositive
<1>1. PICK value : ValueOf(value, bytes) /\ from_le_bytes(bytes) = value[n]
  BY FromLeBytes
<1>2. id \in Nat /\ id < Pow[n] /\ Pow[n] \in Nat \ {0}
  BY PowFacts
<1> DEFINE T == {k \in Nat : k <= n => value[k] = id \div Pow[n - k]}
<1>3. 0 \in T
  <2>1. id \div Pow[n] = 0
    <3>1. PICK p \in Nat \ {0} : p = Pow[n] /\ id < p
      BY <1>2
    <3>2. id \div p = 0
      BY <3>1, DivSmall
    <3> QED  BY <3>1, <3>2
  <2> QED  BY <1>1, <2>1 DEF ValueOf
<1>4. ASSUME NEW k \in T PROVE k + 1 \in T
  <2>1. SUFFICES ASSUME k + 1 <= n PROVE value[k + 1] = id \div Pow[n - (k + 1)]
    OBVIOUS
  <2>2. PICK j \in Nat : j = n - (k + 1) /\ j + 1 = n - k /\ j + 1 = n + 1 - (k + 1)
    BY <2>1
  <2>3. /\ k \in Nat /\ k + 1 \in 1 .. n /\ (k + 1) - 1 = k /\ j + 1 \in 1 .. n /\ (j + 1) - 1 = j
        /\ value[k] = id \div Pow[j + 1]
    BY <2>1, <2>2
  <2>4. PICK p \in Nat \ {0} : p = Pow[j] /\ Pow[j + 1] = Base * p
    BY PowFacts
  <2>5. PICK q \in Nat : q = id \div p
    BY <1>2, DivMod
  <2>6. value[k] = q \div Base
    <3>1. PICK b \in Nat \ {0} : b = Base
      OBVIOUS
    <3>2. (id \div p) \div b = id \div (b * p)
      BY <1>2, DivDiv
    <3> QED  BY <2>3, <2>4, <2>5, <3>1, <3>2
  <2>7. bytes[j + 1] = q % Base
    BY <2>3, <2>4, <2>5
  <2>8. value[k + 1] = bytes[j + 1] + Base * value[k]
    BY <1>1, <2>2, <2>3 DEF ValueOf
  <2>9. q = Base * (q \div Base) + (q % Base) /\ q \div Base \in Nat /\ q % Base \in Nat
    <3>1. PICK b \in Nat \ {0} : b = Base
      OBVIOUS
    <3>2. /\ q \div b \in Nat /\ q % b \in 0 .. b - 1
          /\ q = b * (q \div b) + (q % b)
      BY DivMod
    <3> QED  BY <3>1, <3>2
  <2> QED  BY <2>2, <2>4, <2>5, <2>6, <2>7, <2>8, <2>9
<1>5. T = Nat
  <2>1. T \in SUBSET Nat
    OBVIOUS
  <2> HIDE DEF T
  <2> QED  BY <1>3, <1>4, <2>1, NatSetInduction
<1>6. value[n] = id \div Pow[0]
  <2>1. n - n = 0 /\ n <= n
    OBVIOUS
  <2> QED  BY <1>5, <2>1
<1>7. id \div Pow[0] = id
  BY <1>2, PowFacts
<1> QED  BY <1>1, <1>6, <1>7

(* The sizes are natural numbers. *)
LEMMA Sizes ==
  /\ IdBytes \in Nat /\ IdBytes >= 1 /\ WIRE_COMMAND_SIZE \in Nat /\ WIRE_COMMAND_SIZE = IdBytes + 1
  /\ Base \in Nat \ {0}
BY ControlFifoAssumption DEF WIRE_COMMAND_SIZE

(* A frame is as long as WIRE_COMMAND_SIZE says, and made of bytes. *)
LEMMA EncodeType ==
  ASSUME NEW cmd \in WireCommand
  PROVE  /\ Encode(cmd) \in Seq(Bytes) /\ Len(Encode(cmd)) = WIRE_COMMAND_SIZE
         /\ Encode(cmd)[1] = Opcodes[cmd.op]
         /\ \A k \in 1 .. IdBytes : Encode(cmd)[k + 1] = (cmd.service_id \div Pow[k - 1]) % Base
<1>1. cmd.op \in DOMAIN Opcodes /\ cmd.service_id \in Nat /\ Opcodes[cmd.op] \in Bytes
  BY ControlFifoAssumption DEF WireCommand, ServiceIds
<1>2. PICK id \in Nat : id = cmd.service_id
  BY <1>1
<1>3. ASSUME NEW k \in Nat PROVE (id \div Pow[k]) % Base \in Bytes
  <2>1. PICK p \in Nat \ {0} : p = Pow[k]
    BY PowFacts
  <2>2. PICK q \in Nat : q = id \div p
    BY DivMod
  <2>3. PICK b \in Nat \ {0} : b = Base
    BY Sizes
  <2>4. q % b \in 0 .. b - 1
    BY DivMod
  <2> QED  BY <2>1, <2>2, <2>3, <2>4 DEF Bytes
<1>4. PICK w \in Nat : w = WIRE_COMMAND_SIZE /\ w >= 1 /\ w = IdBytes + 1
  BY Sizes
<1>5. PICK byte : byte = [k \in 1 .. w |->
                            IF k = 1 THEN Opcodes[cmd.op] ELSE (id \div Pow[k - 2]) % Base]
  OBVIOUS
<1>6. Encode(cmd) = byte
  BY <1>2, <1>4, <1>5 DEF Encode
<1>7. \A k \in 1 .. w : byte[k] \in Bytes
  <2>1. ASSUME NEW k \in 1 .. w, k # 1 PROVE byte[k] \in Bytes
    <3>1. k - 2 \in Nat
      BY <2>1
    <3>2. byte[k] = (id \div Pow[k - 2]) % Base
      BY <1>5, <2>1
    <3> QED  BY <1>3, <3>1, <3>2
  <2> QED  BY <1>1, <1>5, <2>1
<1>8. byte \in [1 .. w -> Bytes]
  BY <1>5, <1>7
<1>9. byte \in Seq(Bytes) /\ Len(byte) = w
  BY <1>8
<1>10. byte[1] = Opcodes[cmd.op]
  BY <1>4, <1>5
<1>11. ASSUME NEW k \in 1 .. IdBytes PROVE byte[k + 1] = (id \div Pow[k - 1]) % Base
  <2>1. k + 1 \in 1 .. w /\ k + 1 # 1 /\ (k + 1) - 2 = k - 1
    BY <1>4, Sizes
  <2> QED  BY <1>5, <2>1
<1> QED  BY <1>2, <1>4, <1>6, <1>9, <1>10, <1>11

(* The id bytes of a frame. *)
LEMMA TailBytes ==
  ASSUME NEW buf \in Seq(Bytes), Len(buf) = WIRE_COMMAND_SIZE
  PROVE  /\ buf[1] \in Bytes
         /\ Tail(buf) \in Seq(Bytes) /\ Len(Tail(buf)) = IdBytes
         /\ \A k \in 1 .. IdBytes : Tail(buf)[k] = buf[k + 1]
<1>1. Len(buf) = IdBytes + 1 /\ IdBytes \in Nat /\ buf # <<>>
  BY Sizes
<1> QED  BY <1>1

(* Whatever bytes a frame's worth of them are, they decode to a command of   *)
(* the right types or to an error.                                           *)
LEMMA DecodeType ==
  ASSUME NEW buf \in Seq(Bytes), Len(buf) = WIRE_COMMAND_SIZE
  PROVE  /\ Decode(buf) \in Results
         /\ Decode(buf).kind \in {"Command", "InvalidOp"}
<1>1. from_le_bytes(Tail(buf)) \in ServiceIds
  <2>1. PICK t \in Seq(Bytes) : t = Tail(buf) /\ Len(t) = IdBytes
    BY TailBytes
  <2> QED  BY <2>1, ValueInRange DEF ServiceIds
<1>2. CASE \E op \in ControlOps : Opcodes[op] = buf[1]
  <2>1. PICK op \in ControlOps : op = CHOOSE o \in ControlOps : Opcodes[o] = buf[1]
    BY <1>2
  <2>2. Decode(buf) = Command(op, from_le_bytes(Tail(buf)))
    BY <1>2, <2>1 DEF Decode
  <2> QED  BY <1>1, <2>2 DEF Command, Results
<1>3. CASE ~\E op \in ControlOps : Opcodes[op] = buf[1]
  <2>1. Decode(buf) = InvalidOp(buf[1]) /\ buf[1] \in Bytes
    BY <1>3, TailBytes DEF Decode
  <2> QED  BY <2>1 DEF InvalidOp, Results
<1> QED  BY <1>2, <1>3

(* What a writer encodes, read_control_command decodes: for every operation  *)
(* and every id that fits, whatever the width of a byte and of an id and     *)
(* whichever distinct bytes stand for the operations.  An operation that is  *)
(* none of svlopp's is refused with its own byte.                            *)
THEOREM RoundTrip ==
  \A cmd \in WireCommand : Decode(Encode(cmd)) = Meaning(cmd)
<1> TAKE cmd \in WireCommand
<1>1. PICK buf \in Seq(Bytes) : buf = Encode(cmd) /\ Len(buf) = WIRE_COMMAND_SIZE
  BY EncodeType
<1>2. cmd.op \in DOMAIN Opcodes /\ cmd.service_id \in ServiceIds
  BY DEF WireCommand
<1>3. Opcodes[cmd.op] = buf[1]
  BY <1>1, EncodeType
<1>4. \A op \in ControlOps : Opcodes[op] = buf[1] => op = cmd.op
  BY <1>2, <1>3, ControlFifoAssumption
<1>5. from_le_bytes(Tail(buf)) = cmd.service_id
  <2>1. PICK id \in Nat : id = cmd.service_id /\ id < Pow[IdBytes]
    <3>1. PICK p \in Nat \ {0} : p = Pow[IdBytes]
      BY PowFacts, Sizes
    <3> QED  BY <1>2, <3>1 DEF ServiceIds
  <2>2. PICK t \in Seq(Bytes) : t = Tail(buf)
    BY <1>1, TailBytes
  <2>3. Len(t) = IdBytes /\ \A k \in 1 .. IdBytes : t[k] = (id \div Pow[k - 1]) % Base
    BY <1>1, <2>1, <2>2, TailBytes, EncodeType
  <2> QED  BY <2>1, <2>2, <2>3, ValueOfDigits, Sizes
<1>6. CASE cmd.op \in ControlOps
  <2>1. (CHOOSE op \in ControlOps : Opcodes[op] = buf[1]) = cmd.op
    BY <1>3, <1>4, <1>6
  <2> QED  BY <1>1, <1>3, <1>5, <1>6, <2>1 DEF Decode, Meaning
<1>7. CASE cmd.op \notin ControlOps
  <2>1. ~\E op \in ControlOps : Opcodes[op] = buf[1]
    BY <1>4, <1>7
  <2> QED  BY <1>1, <1>3, <1>7, <2>1 DEF Decode, Meaning
<1> QED  BY <1>6, <1>7

-----------------------------------------------------------------------------
(* The stream *)

W == WIRE_COMMAND_SIZE

(* the byte is the one that the writer of its frame put there *)
Genuine(b) == b.frame \in 1 .. Len(frames) /\ b.byte = Encode(frames[b.frame])[b.at]

(* every byte lies within a whole frame: where b is the position before the  *)
(* frame that the k-th byte belongs to, all bytes of that frame follow b     *)
WholeAround(s, b, f) ==
  /\ b >= 0 /\ b + W <= Len(s)
  /\ \A j \in 1 .. W : s[b + j].at = j /\ s[b + j].frame = f

Aligned(s) == \A k \in 1 .. Len(s) : WholeAround(s, k - s[k].at, s[k].frame)

BytesGenuine ==
  /\ \A k \in 1 .. Len(pipe) : Genuine(pipe[k])
  /\ \A w \in Writers : \A k \in 1 .. Len(rest[w]) : Genuine(rest[w][k])

(* where no piece came in, frames are whole; pieces come from torn frames *)
FramesAligned ==
  /\ clean => Aligned(pipe)
  /\ ~clean \/ ~orderly => torn # {}
  /\ \A w \in Writers : rest[w] # <<>> => torn # {}

(* svlopp itself holds a write end, so that there is never a hangup *)
WriteEndKept == pc # "start" => Svlopp \in holders

(* an answer was read, an orderly one from one whole frame *)
LastRead ==
  /\ result.kind # "None" => consumed # <<>>
  /\ orderly /\ consumed # <<>> =>
       /\ Len(consumed) = W
       /\ consumed[1].frame \in 1 .. Len(frames)
       /\ OrderlyReadsAreFaithful

(* frames of an untorn stream are numbered in the order of the pipe, and go  *)
(* on where the last read stopped                                            *)
Consecutive ==
  torn = {} =>
    /\ \A k \in 1 .. Len(pipe) - 1 : pipe[k].at = W => pipe[k + 1].frame = pipe[k].frame + 1
    /\ pipe # <<>> => pipe[Len(pipe)].frame = Len(frames)
    /\ IF pipe = <<>> THEN LastFrame = Len(frames) ELSE pipe[1].frame = LastFrame + 1

StreamInv ==
  /\ TypeOK /\ BytesGenuine /\ FramesAligned /\ WriteEndKept /\ NoIdleWakeup
  /\ LastRead /\ ResultsExplained /\ Consecutive

(* Sequences of bytes, put together and taken apart. *)
LEMMA Concat ==
  ASSUME NEW s \in Seq(PipeByte), NEW t \in Seq(PipeByte)
  PROVE  /\ s \o t \in Seq(PipeByte) /\ Len(s \o t) = Len(s) + Len(t)
         /\ \A k \in 1 .. Len(s) : (s \o t)[k] = s[k]
         /\ \A k \in 1 .. Len(t) : (s \o t)[Len(s) + k] = t[k]
OBVIOUS

(* What is left after the first n. *)
LEMMA Drop ==
  ASSUME NEW s \in Seq(PipeByte), NEW n \in 0 .. Len(s)
  PROVE  /\ SubSeq(s, n + 1, Len(s)) \in Seq(PipeByte)
         /\ Len(SubSeq(s, n + 1, Len(s))) = Len(s) - n
         /\ \A k \in 1 .. Len(s) - n : SubSeq(s, n + 1, Len(s))[k] = s[n + k]
OBVIOUS

(* The first n. *)
LEMMA Take ==
  ASSUME NEW s \in Seq(PipeByte), NEW n \in 0 .. Len(s)
  PROVE  /\ SubSeq(s, 1, n) \in Seq(PipeByte)
         /\ Len(SubSeq(s, 1, n)) = n
         /\ \A k \in 1 .. n : SubSeq(s, 1, n)[k] = s[k]
OBVIOUS

(* The size of a frame, and the fields of a byte in the pipe. *)
LEMMA FrameSize == W \in Nat /\ W >= 2 /\ W = IdBytes + 1 /\ IdBytes \in Nat
BY Sizes DEF W

(* A byte of the pipe has a place in a frame and a value that fits. *)
LEMMA ByteType ==
  ASSUME NEW s \in Seq(PipeByte), NEW k \in 1 .. Len(s)
  PROVE  s[k].at \in 1 .. W /\ s[k].frame \in Nat \ {0} /\ s[k].byte \in Bytes
<1>1. s[k] \in PipeByte
  OBVIOUS
<1> QED  BY <1>1 DEF PipeByte, W

(* Whole frames followed by whole frames are whole frames. *)
LEMMA AlignedConcat ==
  ASSUME NEW s \in Seq(PipeByte), NEW t \in Seq(PipeByte), Aligned(s), Aligned(t),
         NEW u \in Seq(PipeByte), Len(u) = Len(s) + Len(t),
         \A k \in 1 .. Len(s) : u[k] = s[k],
         \A k \in 1 .. Len(t) : u[Len(s) + k] = t[k]
  PROVE  Aligned(u)
<1> USE FrameSize
<1> SUFFICES ASSUME NEW k \in 1 .. Len(u) PROVE WholeAround(u, k - u[k].at, u[k].frame)
  BY DEF Aligned
<1>0. PICK n \in Nat, m \in Nat : n = Len(s) /\ m = Len(t) /\ Len(u) = n + m
  OBVIOUS
<1>1. CASE k <= n
  <2>1. k \in 1 .. n /\ u[k] = s[k]
    BY <1>0, <1>1
  <2>2. s[k].at \in Nat /\ WholeAround(s, k - s[k].at, s[k].frame)
    BY <1>0, <2>1, ByteType DEF Aligned
  <2>3. PICK b \in Int : b = k - s[k].at
    BY <2>2
  <2>4. b >= 0 /\ b + W <= n /\ \A j \in 1 .. W : s[b + j].at = j /\ s[b + j].frame = s[k].frame
    BY <1>0, <2>2, <2>3 DEF WholeAround
  <2>5. ASSUME NEW j \in 1 .. W PROVE u[b + j] = s[b + j]
    <3>1. b + j \in 1 .. n
      BY <2>4
    <3> QED  BY <1>0, <3>1
  <2>6. b + W <= n + m
    BY <2>4
  <2>7. WholeAround(u, b, s[k].frame)
    BY <1>0, <2>4, <2>5, <2>6 DEF WholeAround
  <2>8. k - u[k].at = b /\ u[k].frame = s[k].frame
    BY <2>1, <2>3
  <2> QED  BY <2>7, <2>8
<1>2. CASE k > n
  <2>1. PICK i \in Nat : k = n + i /\ i \in 1 .. m
    <3>1. k \in 1 .. n + m
      BY <1>0
    <3>2. k - n \in 1 .. m /\ k = n + (k - n)
      BY <1>2, <3>1
    <3> QED  BY <3>2
  <2>2. u[k] = t[i]
    BY <1>0, <2>1
  <2>3. t[i].at \in Nat /\ WholeAround(t, i - t[i].at, t[i].frame)
    BY <1>0, <2>1, ByteType DEF Aligned
  <2>4. PICK b \in Int : b = i - t[i].at /\ k - t[i].at = n + b
    BY <2>1, <2>3
  <2>5. b >= 0 /\ b + W <= m /\ \A j \in 1 .. W : t[b + j].at = j /\ t[b + j].frame = t[i].frame
    BY <1>0, <2>3, <2>4 DEF WholeAround
  <2>6. ASSUME NEW j \in 1 .. W PROVE u[(n + b) + j] = t[b + j]
    <3>1. b + j \in 1 .. m /\ (n + b) + j = n + (b + j)
      BY <2>5
    <3>2. u[n + (b + j)] = t[b + j]
      BY <1>0, <3>1
    <3> QED  BY <3>1, <3>2
  <2>7. n + b >= 0 /\ (n + b) + W <= n + m
    BY <2>5
  <2>8. WholeAround(u, n + b, t[i].frame)
    BY <1>0, <2>5, <2>6, <2>7 DEF WholeAround
  <2>9. k - u[k].at = n + b /\ u[k].frame = t[i].frame
    BY <2>2, <2>4
  <2> QED  BY <2>8, <2>9
<1> QED  BY <1>0, <1>1, <1>2

(* The first bytes of a stream of whole frames are a whole frame, and what   *)
(* follows it are whole frames.                                              *)
LEMMA AlignedRead ==
  ASSUME NEW s \in Seq(PipeByte), s # <<>>, Aligned(s)
  PROVE  /\ W <= Len(s)
         /\ \A j \in 1 .. W : s[j].at = j /\ s[j].frame = s[1].frame
         /\ Aligned(SubSeq(s, W + 1, Len(s)))
<1> USE FrameSize
<1>1. WholeAround(s, 0, s[1].frame)
  <2>1. WholeAround(s, 1 - s[1].at, s[1].frame) /\ s[1].at \in Nat \ {0}
    BY ByteType DEF Aligned
  <2>2. 1 - s[1].at = 0
    BY <2>1 DEF WholeAround
  <2> QED  BY <2>1, <2>2
<1>2. W <= Len(s) /\ \A j \in 1 .. W : s[j].at = j /\ s[j].frame = s[1].frame
  <2>1. \A j \in 1 .. W : 0 + j = j
    OBVIOUS
  <2> QED  BY <1>1, <2>1 DEF WholeAround
<1>3. PICK n \in Nat : n = Len(s) /\ W \in 0 .. n
  BY <1>2
<1>4. /\ SubSeq(s, W + 1, Len(s)) \in Seq(PipeByte)
      /\ Len(SubSeq(s, W + 1, Len(s))) = n - W
      /\ \A k \in 1 .. n - W : SubSeq(s, W + 1, Len(s))[k] = s[W + k]
  BY <1>3, Drop
<1>5. PICK u \in Seq(PipeByte) :
        /\ u = SubSeq(s, W + 1, Len(s))
        /\ Len(u) = n - W
        /\ \A k \in 1 .. n - W : u[k] = s[W + k]
  BY <1>4
<1>6. ASSUME NEW k \in 1 .. Len(u) PROVE WholeAround(u, k - u[k].at, u[k].frame)
  <2>1. PICK i \in 1 .. Len(s) : i = W + k /\ u[k] = s[i]
    <3>1. k \in 1 .. n - W /\ W + k \in 1 .. n
      BY <1>3, <1>5
    <3> QED  BY <1>3, <1>5, <3>1
  <2>2. PICK b \in Int : b = i - s[i].at /\ WholeAround(s, b, s[i].frame)
    BY <2>1, ByteType DEF Aligned
  <2>3. s[i].at \in 1 .. W
    BY <2>1, ByteType
  <2>4. b >= W
    <3>1. SUFFICES ASSUME b < W PROVE FALSE
      OBVIOUS
    <3>2. W - b \in 1 .. W /\ b + (W - b) = W
      BY <2>2, <3>1 DEF WholeAround
    <3>3. s[W].at = W - b
      BY <2>2, <3>2 DEF WholeAround
    <3>4. s[W].at = W
      BY <1>2
    <3> QED  BY <2>1, <2>2, <2>3, <3>3, <3>4
  <2>5. k - u[k].at = b - W
    BY <2>1, <2>2, <2>3
  <2>6. b + W <= n /\ \A j \in 1 .. W : s[b + j].at = j /\ s[b + j].frame = s[i].frame
    BY <1>3, <2>2 DEF WholeAround
  <2>7. ASSUME NEW j \in 1 .. W PROVE u[(b - W) + j] = s[b + j]
    <3>1. (b - W) + j \in 1 .. n - W /\ W + ((b - W) + j) = b + j
      BY <1>3, <2>4, <2>6
    <3> QED  BY <1>5, <3>1
  <2>8. b - W >= 0 /\ (b - W) + W <= n - W
    BY <2>4, <2>6
  <2>9. WholeAround(u, b - W, s[i].frame)
    BY <1>5, <2>6, <2>7, <2>8 DEF WholeAround
  <2> QED  BY <2>1, <2>5, <2>9
<1>7. Aligned(u)
  BY <1>6 DEF Aligned
<1> QED  BY <1>2, <1>5, <1>7

(* A frame that is written: its bytes, and its place in the stream. *)
LEMMA FrameFacts ==
  ASSUME TypeOK, NEW cmd \in Commands
  PROVE  /\ Frame(cmd) \in Seq(PipeByte) /\ Len(Frame(cmd)) = W
         /\ \A k \in 1 .. W : /\ Frame(cmd)[k].byte = Encode(cmd)[k]
                              /\ Frame(cmd)[k].frame = Len(frames) + 1
                              /\ Frame(cmd)[k].at = k
         /\ Aligned(Frame(cmd))
<1>1. cmd \in WireCommand /\ Len(frames) \in Nat
  BY ControlFifoAssumption DEF TypeOK
<1>2. PICK fr : fr = Frame(cmd)
  OBVIOUS
<1>3. fr = [k \in 1 .. W |-> [byte |-> Encode(cmd)[k], frame |-> Len(frames) + 1, at |-> k]]
  BY <1>2 DEF Frame, W
<1>4. \A k \in 1 .. W : Encode(cmd)[k] \in Bytes
  BY <1>1, EncodeType, FrameSize DEF W
<1>5. \A k \in 1 .. W : /\ fr[k] \in PipeByte
                        /\ fr[k].byte = Encode(cmd)[k]
                        /\ fr[k].frame = Len(frames) + 1
                        /\ fr[k].at = k
  BY <1>1, <1>3, <1>4 DEF PipeByte, W
<1>6. fr \in Seq(PipeByte) /\ Len(fr) = W
  <2>1. fr \in [1 .. W -> PipeByte]
    BY <1>3, <1>5
  <2> QED  BY <2>1, FrameSize
<1>7. Aligned(fr)
  <2> SUFFICES ASSUME NEW k \in 1 .. W PROVE WholeAround(fr, k - fr[k].at, fr[k].frame)
    BY <1>6 DEF Aligned
  <2>1. k - fr[k].at = 0 /\ \A j \in 1 .. W : 0 + j = j
    BY <1>5, FrameSize
  <2>2. WholeAround(fr, 0, Len(frames) + 1)
    BY <1>5, <1>6, <2>1, FrameSize DEF WholeAround
  <2> QED  BY <1>5, <2>1, <2>2
<1> QED  BY <1>2, <1>5, <1>6, <1>7

(* frames grows by a command, or stays as it is *)
FramesGrow == frames' = frames \/ \E cmd \in Commands : frames' = Append(frames, cmd)

(* Then no frame that is there changes. *)
LEMMA FramesKept ==
  ASSUME TypeOK, FramesGrow
  PROVE  /\ frames' \in Seq(Commands) /\ Len(frames') \in Nat /\ Len(frames) \in Nat
         /\ Len(frames) <= Len(frames')
         /\ \A f \in 1 .. Len(frames) : frames'[f] = frames[f]
<1>1. frames \in Seq(Commands)
  BY DEF TypeOK
<1> QED  BY <1>1 DEF FramesGrow

(* A byte that is in the pipe, or yet to be written, stays the byte it is. *)
LEMMA GenuineKept ==
  ASSUME TypeOK, FramesGrow
  PROVE  \A b \in PipeByte : Genuine(b) =>
           b.frame \in 1 .. Len(frames') /\ b.byte = Encode(frames'[b.frame])[b.at]
<1> SUFFICES ASSUME NEW b \in PipeByte, Genuine(b)
             PROVE  b.frame \in 1 .. Len(frames') /\ b.byte = Encode(frames'[b.frame])[b.at]
  OBVIOUS
<1>1. b.frame \in 1 .. Len(frames) /\ b.byte = Encode(frames[b.frame])[b.at]
  BY DEF Genuine
<1>2. frames'[b.frame] = frames[b.frame] /\ b.frame \in 1 .. Len(frames')
  BY <1>1, FramesKept
<1> QED  BY <1>1, <1>2

(* The last read is what it was. *)
LEMMA LastReadKept ==
  ASSUME StreamInv, FramesGrow, torn \subseteq torn', UNCHANGED <<consumed, orderly, result>>
  PROVE  LastRead' /\ ResultsExplained'
<1>1. ASSUME orderly, consumed # <<>>
      PROVE  /\ Len(consumed) = W
             /\ consumed[1].frame \in 1 .. Len(frames')
             /\ frames'[consumed[1].frame] = frames[consumed[1].frame]
             /\ OrderlyReadsAreFaithful'
  <2>1. /\ Len(consumed) = W /\ consumed[1].frame \in 1 .. Len(frames)
        /\ OrderlyReadsAreFaithful
    BY <1>1 DEF StreamInv, LastRead
  <2>2. frames'[consumed[1].frame] = frames[consumed[1].frame]
        /\ consumed[1].frame \in 1 .. Len(frames')
    BY <2>1, FramesKept DEF StreamInv
  <2> QED  BY <2>1, <2>2 DEF OrderlyReadsAreFaithful
<1>2. LastRead'
  BY <1>1 DEF StreamInv, LastRead
<1>3. ResultsExplained'
  <2>1. ASSUME result.kind = "InvalidOp", orderly
        PROVE  frames'[consumed[1].frame].op \notin ControlOps
    <3>1. consumed # <<>>
      BY <2>1 DEF StreamInv, LastRead
    <3> QED  BY <1>1, <2>1, <3>1 DEF StreamInv, ResultsExplained
  <2>2. ~orderly => torn' # {}
    BY DEF StreamInv, ResultsExplained
  <2> QED  BY <2>1, <2>2 DEF StreamInv, ResultsExplained
<1> QED  BY <1>2, <1>3

(* Steps that leave the pipe alone. *)
LEMMA PipeKept ==
  ASSUME StreamInv, UNCHANGED <<pipe, frames, torn, result, clean, readHistory>>,
         rest' = rest \/ \E w \in Writers : rest' = [rest EXCEPT ![w] = <<>>]
  PROVE  /\ BytesGenuine' /\ FramesAligned' /\ LastRead' /\ ResultsExplained' /\ Consecutive'
         /\ rest' \in [Writers -> Seq(PipeByte)]
<1>1. rest \in [Writers -> Seq(PipeByte)] /\ <<>> \in Seq(PipeByte)
  BY DEF StreamInv, TypeOK
<1>2. \A w \in Writers : rest'[w] = rest[w] \/ rest'[w] = <<>>
  BY <1>1
<1>3. rest' \in [Writers -> Seq(PipeByte)]
  BY <1>1
<1>4. BytesGenuine'
  <2>1. \A k \in 1 .. Len(pipe') : Genuine(pipe[k])'
    BY DEF StreamInv, BytesGenuine, Genuine
  <2>2. ASSUME NEW w \in Writers, NEW k \in 1 .. Len(rest'[w]) PROVE Genuine(rest[w][k])'
    <3>1. rest'[w] = rest[w]
      BY <1>2
    <3> QED  BY <2>2, <3>1 DEF StreamInv, BytesGenuine, Genuine
  <2> QED  BY <2>1, <2>2 DEF BytesGenuine
<1>5. FramesAligned'
  BY <1>2 DEF StreamInv, FramesAligned, readHistory, Aligned, WholeAround
<1>6. LastRead' /\ ResultsExplained'
  BY LastReadKept DEF FramesGrow, readHistory
<1>7. Consecutive'
  BY DEF StreamInv, Consecutive, LastFrame, readHistory
<1> QED  BY <1>3, <1>4, <1>5, <1>6, <1>7

(* The steps of svlopp and of the writers that move no byte. *)
LEMMA QuietInv ==
  ASSUME StreamInv,
         \/ create_control_fifo \/ EpollWait \/ UNCHANGED vars
         \/ \E w \in Writers : Open(w) \/ Close(w)
  PROVE  StreamInv'
<1> USE DEF create_control_fifo, EpollWait, vars, Open, Close, writerVars
<1>1. /\ UNCHANGED <<pipe, frames, torn, result, clean, readHistory>>
      /\ rest' = rest \/ \E w \in Writers : rest' = [rest EXCEPT ![w] = <<>>]
  BY DEF readHistory
<1>2. /\ BytesGenuine' /\ FramesAligned' /\ LastRead' /\ ResultsExplained' /\ Consecutive'
      /\ rest' \in [Writers -> Seq(PipeByte)]
  BY <1>1, PipeKept
<1>3. holders' \subseteq Writers \cup {Svlopp} /\ pc' \in {"start", "wait", "read"}
  BY DEF StreamInv, TypeOK
<1>4. TypeOK'
  BY <1>1, <1>2, <1>3 DEF StreamInv, TypeOK, readHistory
<1>5. WriteEndKept'
  <2>1. \A w \in Writers : w # Svlopp
    BY ControlFifoAssumption
  <2> QED  BY <2>1 DEF StreamInv, WriteEndKept
<1>6. NoIdleWakeup'
  BY DEF StreamInv, WriteEndKept, NoIdleWakeup
<1> QED  BY <1>2, <1>4, <1>5, <1>6 DEF StreamInv

(* Bytes enter at the end of the pipe. *)
LEMMA PutFacts ==
  ASSUME StreamInv, NEW t \in Seq(PipeByte), Put(t)
  PROVE  /\ pipe' \in Seq(PipeByte) /\ Len(pipe') <= PipeCap /\ Len(pipe') = Len(pipe) + Len(t)
         /\ \A k \in 1 .. Len(pipe) : pipe'[k] = pipe[k]
         /\ \A k \in 1 .. Len(t) : pipe'[Len(pipe) + k] = t[k]
<1>1. pipe \in Seq(PipeByte)
  BY DEF StreamInv, TypeOK
<1>2. Len(pipe) + Len(t) <= PipeCap /\ pipe' = pipe \o t
  BY DEF Put
<1>3. PICK s \in Seq(PipeByte) : s = pipe
  BY <1>1
<1>4. /\ s \o t \in Seq(PipeByte) /\ Len(s \o t) = Len(s) + Len(t)
      /\ \A k \in 1 .. Len(s) : (s \o t)[k] = s[k]
      /\ \A k \in 1 .. Len(t) : (s \o t)[Len(s) + k] = t[k]
  BY Concat
<1> QED  BY <1>2, <1>3, <1>4

(* If the bytes that enter are genuine, all bytes in the pipe are. *)
LEMMA PutGenuine ==
  ASSUME StreamInv, NEW t \in Seq(PipeByte), Put(t), FramesGrow,
         \A k \in 1 .. Len(t) :
           t[k].frame \in 1 .. Len(frames') /\ t[k].byte = Encode(frames'[t[k].frame])[t[k].at]
  PROVE  \A k \in 1 .. Len(pipe') : Genuine(pipe[k])'
<1> SUFFICES ASSUME NEW k \in 1 .. Len(pipe')
             PROVE  /\ pipe'[k].frame \in 1 .. Len(frames')
                    /\ pipe'[k].byte = Encode(frames'[pipe'[k].frame])[pipe'[k].at]
  BY DEF Genuine
<1>1. PICK n \in Nat, m \in Nat : n = Len(pipe) /\ m = Len(t) /\ Len(pipe') = n + m
  BY PutFacts DEF StreamInv, TypeOK
<1>2. CASE k <= n
  <2>1. k \in 1 .. Len(pipe)
    BY <1>1, <1>2
  <2>2. pipe'[k] = pipe[k] /\ pipe[k] \in PipeByte /\ Genuine(pipe[k])
    BY <2>1, PutFacts DEF StreamInv, TypeOK, BytesGenuine
  <2> QED  BY <2>2, GenuineKept DEF StreamInv
<1>3. CASE k > n
  <2>1. k - n \in 1 .. Len(t) /\ k = Len(pipe) + (k - n)
    BY <1>1, <1>3
  <2>2. pipe'[k] = t[k - n]
    BY <2>1, PutFacts
  <2> QED  BY <2>1, <2>2
<1> QED  BY <1>1, <1>2, <1>3

(* A whole frame is written at once. *)
LEMMA WriteFrameInv ==
  ASSUME StreamInv, NEW w \in Writers, NEW cmd \in Commands, WriteFrame(w, cmd)
  PROVE  StreamInv'
<1>1. /\ Put(Frame(cmd)) /\ frames' = Append(frames, cmd)
      /\ UNCHANGED <<holders, rest, torn, pc, result, clean, readHistory>>
  BY DEF WriteFrame
<1>2. FramesGrow
  BY <1>1 DEF FramesGrow
<1>3. PICK t \in Seq(PipeByte) : t = Frame(cmd)
  BY FrameFacts DEF StreamInv
<1>4. /\ Len(t) = W /\ Aligned(t)
      /\ \A k \in 1 .. W : /\ t[k].byte = Encode(cmd)[k]
                           /\ t[k].frame = Len(frames) + 1 /\ t[k].at = k
  BY <1>3, FrameFacts DEF StreamInv
<1>5. PICK n \in Nat : n = Len(pipe)
  BY DEF StreamInv, TypeOK
<1>6. /\ pipe' \in Seq(PipeByte) /\ Len(pipe') <= PipeCap /\ Len(pipe') = n + W
      /\ \A k \in 1 .. n : pipe'[k] = pipe[k]
      /\ \A k \in 1 .. W : pipe'[n + k] = t[k]
  BY <1>1, <1>3, <1>4, <1>5, PutFacts
<1>7. /\ frames' \in Seq(Commands) /\ Len(frames') = Len(frames) + 1 /\ Len(frames) \in Nat
      /\ frames'[Len(frames) + 1] = cmd
  BY <1>1 DEF StreamInv, TypeOK
<1>8. TypeOK'
  BY <1>1, <1>6, <1>7 DEF StreamInv, TypeOK, readHistory
<1>9. BytesGenuine'
  <2>1. \A k \in 1 .. Len(t) :
          t[k].frame \in 1 .. Len(frames') /\ t[k].byte = Encode(frames'[t[k].frame])[t[k].at]
    BY <1>4, <1>7
  <2>2. \A k \in 1 .. Len(pipe') : Genuine(pipe[k])'
    BY <1>1, <1>2, <1>3, <2>1, PutGenuine
  <2>3. ASSUME NEW v \in Writers, NEW k \in 1 .. Len(rest'[v]) PROVE Genuine(rest[v][k])'
    <3>1. rest'[v] = rest[v] /\ rest[v][k] \in PipeByte /\ Genuine(rest[v][k])
      BY <1>1, <2>3 DEF StreamInv, TypeOK, BytesGenuine
    <3> QED  BY <1>2, <3>1, GenuineKept DEF StreamInv, Genuine
  <2> QED  BY <2>2, <2>3 DEF BytesGenuine
<1>10. FramesAligned'
  <2>1. ASSUME clean PROVE Aligned(pipe')
    <3>1. Aligned(pipe) /\ pipe \in Seq(PipeByte)
      BY <2>1 DEF StreamInv, TypeOK, FramesAligned
    <3> QED  BY <1>4, <1>5, <1>6, <3>1, AlignedConcat
  <2> QED  BY <1>1, <2>1 DEF StreamInv, FramesAligned, readHistory
<1>11. WriteEndKept' /\ NoIdleWakeup'
  <2>1. pipe' # <<>>
    BY <1>6, FrameSize
  <2> QED  BY <1>1, <2>1 DEF StreamInv, WriteEndKept, NoIdleWakeup
<1>12. LastRead' /\ ResultsExplained'
  BY <1>1, <1>2, LastReadKept DEF readHistory
<1>13. Consecutive'
  <2> SUFFICES ASSUME torn = {}
      PROVE  /\ \A k \in 1 .. Len(pipe') - 1 :
                  pipe'[k].at = W => pipe'[k + 1].frame = pipe'[k].frame + 1
             /\ pipe'[Len(pipe')].frame = Len(frames')
             /\ pipe' # <<>>
             /\ pipe'[1].frame = LastFrame + 1
    BY <1>1 DEF Consecutive, LastFrame, readHistory
  <2>1. /\ \A k \in 1 .. n - 1 : pipe[k].at = W => pipe[k + 1].frame = pipe[k].frame + 1
        /\ n > 0 => pipe[n].frame = Len(frames)
        /\ IF n = 0 THEN LastFrame = Len(frames) ELSE pipe[1].frame = LastFrame + 1
    BY <1>5 DEF StreamInv, TypeOK, Consecutive
  <2>2. ASSUME NEW k \in 1 .. Len(pipe') - 1, pipe'[k].at = W
        PROVE  pipe'[k + 1].frame = pipe'[k].frame + 1
    <3>0. k \in 1 .. n + W - 1
      BY <1>6, FrameSize
    <3>1. CASE k < n
      <4>1. k \in 1 .. n /\ k + 1 \in 1 .. n /\ k \in 1 .. n - 1
        BY <3>0, <3>1
      <4> QED  BY <1>6, <2>1, <2>2, <4>1
    <3>2. CASE k = n
      <4>1. n \in 1 .. n /\ n > 0 /\ 1 \in 1 .. W
        BY <3>0, <3>2, FrameSize
      <4>2. pipe'[n] = pipe[n] /\ pipe'[n + 1] = t[1]
        BY <1>6, <4>1
      <4> QED  BY <1>4, <2>1, <3>2, <4>1, <4>2
    <3>3. CASE k > n
      <4>1. PICK j \in 1 .. W - 1 : k = n + j
        <5>1. k - n \in 1 .. W - 1 /\ k = n + (k - n)
          BY <3>0, <3>3, FrameSize
        <5> QED  BY <5>1
      <4>2. j \in 1 .. W /\ j # W
        BY FrameSize
      <4>3. pipe'[k].at = j
        BY <1>4, <1>6, <4>1, <4>2
      <4> QED  BY <2>2, <4>2, <4>3
    <3> QED  BY <3>0, <3>1, <3>2, <3>3
  <2>3. pipe'[n + W].frame = Len(frames') /\ pipe' # <<>>
    <3>1. W \in 1 .. W
      BY FrameSize
    <3> QED  BY <1>4, <1>6, <1>7, <3>1, FrameSize
  <2>4. pipe'[1].frame = LastFrame + 1
    <3>1. CASE n = 0
      <4>1. 1 \in 1 .. W /\ n + 1 = 1
        BY <3>1, FrameSize
      <4>2. pipe'[1] = t[1]
        BY <1>6, <4>1
      <4> QED  BY <1>4, <2>1, <3>1, <4>1, <4>2
    <3>2. CASE n # 0
      <4>1. 1 \in 1 .. n
        BY <3>2
      <4> QED  BY <1>6, <2>1, <3>2, <4>1
    <3> QED  BY <3>1, <3>2
  <2> QED  BY <1>6, <2>2, <2>3, <2>4
<1> QED  BY <1>8, <1>9, <1>10, <1>11, <1>12, <1>13 DEF StreamInv

(* The first piece of a frame. *)
LEMMA WritePieceInv ==
  ASSUME StreamInv, NEW w \in Writers, NEW cmd \in Commands, NEW k \in 1 .. IdBytes,
         WritePiece(w, cmd, k)
  PROVE  StreamInv'
<1>1. /\ Put(SubSeq(Frame(cmd), 1, k)) /\ frames' = Append(frames, cmd)
      /\ rest' = [rest EXCEPT ![w] = SubSeq(Frame(cmd), k + 1, WIRE_COMMAND_SIZE)]
      /\ torn' = torn \cup {Len(frames) + 1} /\ clean' = FALSE
      /\ UNCHANGED <<holders, pc, result, readHistory>>
  BY DEF WritePiece
<1>2. FramesGrow
  BY <1>1 DEF FramesGrow
<1>3. PICK fr \in Seq(PipeByte) : fr = Frame(cmd)
  BY FrameFacts DEF StreamInv
<1>4. /\ Len(fr) = W
      /\ \A j \in 1 .. W : /\ fr[j].byte = Encode(cmd)[j]
                           /\ fr[j].frame = Len(frames) + 1 /\ fr[j].at = j
  BY <1>3, FrameFacts DEF StreamInv
<1>5. k \in 0 .. Len(fr) /\ k \in 1 .. W /\ k >= 1
  BY <1>4, FrameSize
<1>6. PICK t \in Seq(PipeByte) :
        /\ t = SubSeq(fr, 1, k) /\ Len(t) = k
        /\ \A j \in 1 .. k : t[j] = fr[j]
  BY <1>5, Take
<1>7. PICK u \in Seq(PipeByte) :
        /\ u = SubSeq(fr, k + 1, W) /\ Len(u) = W - k
        /\ \A j \in 1 .. W - k : u[j] = fr[k + j]
  BY <1>4, <1>5, Drop
<1>8. /\ frames' \in Seq(Commands) /\ Len(frames') = Len(frames) + 1 /\ Len(frames) \in Nat
      /\ frames'[Len(frames) + 1] = cmd
  BY <1>1 DEF StreamInv, TypeOK
<1>9. Put(t) /\ rest' = [rest EXCEPT ![w] = u]
  BY <1>1, <1>3, <1>6, <1>7 DEF W
<1>10. pipe' \in Seq(PipeByte) /\ Len(pipe') <= PipeCap /\ Len(pipe') = Len(pipe) + k
  BY <1>6, <1>9, PutFacts
<1>11. rest \in [Writers -> Seq(PipeByte)] /\ rest' \in [Writers -> Seq(PipeByte)]
  BY <1>9 DEF StreamInv, TypeOK
<1>12. TypeOK'
  <2>1. clean' \in BOOLEAN
    BY <1>1, Zenon
  <2>2. torn' \subseteq 1 .. Len(frames')
    <3>1. torn \subseteq 1 .. Len(frames)
      BY DEF StreamInv, TypeOK
    <3>2. PICK m \in Nat : m = Len(frames) /\ Len(frames') = m + 1 /\ torn' = torn \cup {m + 1}
      BY <1>1, <1>8
    <3>3. torn \subseteq 1 .. m /\ 1 .. m \subseteq 1 .. m + 1 /\ m + 1 \in 1 .. m + 1
      BY <3>1, <3>2
    <3>4. torn' \subseteq 1 .. m + 1
      BY <3>2, <3>3, Zenon
    <3> QED  BY <3>2, <3>4
  <2> QED  BY <1>1, <1>8, <1>10, <1>11, <2>1, <2>2 DEF StreamInv, TypeOK, readHistory
<1>13. BytesGenuine'
  <2>1. \A j \in 1 .. W :
          fr[j].frame \in 1 .. Len(frames') /\ fr[j].byte = Encode(frames'[fr[j].frame])[fr[j].at]
    BY <1>4, <1>8
  <2>2. \A j \in 1 .. Len(t) :
          t[j].frame \in 1 .. Len(frames') /\ t[j].byte = Encode(frames'[t[j].frame])[t[j].at]
    <3> SUFFICES ASSUME NEW j \in 1 .. k
                 PROVE  t[j].frame \in 1 .. Len(frames')
                        /\ t[j].byte = Encode(frames'[t[j].frame])[t[j].at]
      BY <1>6
    <3>1. j \in 1 .. W /\ t[j] = fr[j]
      BY <1>5, <1>6, FrameSize
    <3> QED  BY <2>1, <3>1
  <2>3. \A j \in 1 .. Len(pipe') : Genuine(pipe[j])'
    BY <1>2, <1>9, <2>2, PutGenuine
  <2>4. ASSUME NEW v \in Writers, NEW j \in 1 .. Len(rest'[v]) PROVE Genuine(rest[v][j])'
    <3>1. CASE v = w
      <4>1. rest'[v] = u
        BY <1>9, <1>11, <3>1
      <4>2. j \in 1 .. W - k /\ k + j \in 1 .. W
        BY <1>5, <1>7, <2>4, <4>1, FrameSize
      <4>3. rest'[v][j] = fr[k + j]
        BY <1>7, <4>1, <4>2
      <4> QED  BY <2>1, <4>2, <4>3 DEF Genuine
    <3>2. CASE v # w
      <4>1. rest'[v] = rest[v]
        BY <1>9, <1>11, <3>2
      <4>2. rest[v][j] \in PipeByte /\ Genuine(rest[v][j])
        BY <1>11, <2>4, <4>1 DEF StreamInv, BytesGenuine
      <4> QED  BY <1>2, <4>1, <4>2, GenuineKept DEF StreamInv, Genuine
    <3> QED  BY <3>1, <3>2
  <2> QED  BY <2>3, <2>4 DEF BytesGenuine
<1>14. FramesAligned' /\ Consecutive'
  BY <1>1 DEF FramesAligned, Consecutive
<1>15. WriteEndKept' /\ NoIdleWakeup'
  <2>1. pipe' # <<>>
    BY <1>5, <1>10 DEF StreamInv, TypeOK
  <2> QED  BY <1>1, <2>1 DEF StreamInv, WriteEndKept, NoIdleWakeup
<1>16. LastRead' /\ ResultsExplained'
  BY <1>1, <1>2, LastReadKept DEF readHistory
<1> QED  BY <1>12, <1>13, <1>14, <1>15, <1>16 DEF StreamInv

(* The rest of a frame. *)
LEMMA WriteRestInv ==
  ASSUME StreamInv, NEW w \in Writers, WriteRest(w)
  PROVE  StreamInv'
<1>1. /\ rest[w] # <<>> /\ Put(rest[w]) /\ rest' = [rest EXCEPT ![w] = <<>>]
      /\ clean' = FALSE /\ UNCHANGED <<holders, frames, torn, pc, result, readHistory>>
  BY DEF WriteRest
<1>2. FramesGrow
  BY <1>1 DEF FramesGrow
<1>3. rest \in [Writers -> Seq(PipeByte)] /\ <<>> \in Seq(PipeByte)
  BY DEF StreamInv, TypeOK
<1>4. PICK t \in Seq(PipeByte) : t = rest[w] /\ t # <<>>
  BY <1>1, <1>3
<1>5. pipe' \in Seq(PipeByte) /\ Len(pipe') <= PipeCap /\ Len(pipe') = Len(pipe) + Len(t)
  BY <1>1, <1>4, PutFacts
<1>6. rest' \in [Writers -> Seq(PipeByte)]
  BY <1>1, <1>3
<1>7. TypeOK'
  <2>1. clean' \in BOOLEAN
    BY <1>1, Zenon
  <2> QED  BY <1>1, <1>5, <1>6, <2>1 DEF StreamInv, TypeOK, readHistory
<1>8. torn # {}
  BY <1>1 DEF StreamInv, FramesAligned
<1>9. BytesGenuine'
  <2>1. \A j \in 1 .. Len(t) :
          t[j].frame \in 1 .. Len(frames') /\ t[j].byte = Encode(frames'[t[j].frame])[t[j].at]
    BY <1>1, <1>4 DEF StreamInv, BytesGenuine, Genuine
  <2>2. \A j \in 1 .. Len(pipe') : Genuine(pipe[j])'
    BY <1>1, <1>2, <1>4, <2>1, PutGenuine
  <2>3. ASSUME NEW v \in Writers, NEW j \in 1 .. Len(rest'[v]) PROVE Genuine(rest[v][j])'
    <3>1. rest'[v] = rest[v]
      BY <1>1, <1>3, <2>3
    <3> QED  BY <1>1, <2>3, <3>1 DEF StreamInv, BytesGenuine, Genuine
  <2> QED  BY <2>2, <2>3 DEF BytesGenuine
<1>10. FramesAligned' /\ Consecutive'
  BY <1>1, <1>8 DEF FramesAligned, Consecutive
<1>11. WriteEndKept' /\ NoIdleWakeup'
  <2>1. pipe' # <<>>
    <3>1. Len(t) \in Nat /\ Len(t) # 0 /\ Len(pipe) \in Nat
      BY <1>4 DEF StreamInv, TypeOK
    <3> QED  BY <1>5, <3>1
  <2> QED  BY <1>1, <2>1 DEF StreamInv, WriteEndKept, NoIdleWakeup
<1>12. LastRead' /\ ResultsExplained'
  BY <1>1, <1>2, LastReadKept DEF readHistory
<1> QED  BY <1>7, <1>9, <1>10, <1>11, <1>12 DEF StreamInv

(* What a read takes, and what it leaves. *)
LEMMA ReadFacts ==
  ASSUME StreamInv, read_control_command
  PROVE  /\ pipe # <<>> /\ ReadLen \in 1 .. W /\ ReadLen <= Len(pipe)
         /\ consumed' \in Seq(PipeByte) /\ Len(consumed') = ReadLen
         /\ \A k \in 1 .. ReadLen : consumed'[k] = pipe[k]
         /\ pipe' \in Seq(PipeByte) /\ Len(pipe') = Len(pipe) - ReadLen
         /\ pipe' = SubSeq(pipe, ReadLen + 1, Len(pipe))
         /\ \A k \in 1 .. Len(pipe) - ReadLen : pipe'[k] = pipe[ReadLen + k]
         /\ [k \in 1 .. ReadLen |-> consumed'[k].byte] \in Seq(Bytes)
         /\ result' = ReadResult([k \in 1 .. ReadLen |-> consumed'[k].byte])
<1>1. pipe # <<>> /\ pipe \in Seq(PipeByte)
  BY DEF StreamInv, TypeOK, NoIdleWakeup, read_control_command
<1>2. Len(pipe) \in Nat /\ Len(pipe) # 0
  BY <1>1
<1>3. ReadLen \in 1 .. W /\ ReadLen \in 0 .. Len(pipe) /\ ReadLen <= Len(pipe)
  BY <1>2, FrameSize DEF ReadLen, W
<1>4. PICK s \in Seq(PipeByte) : s = pipe
  BY <1>1
<1>5. PICK n \in 0 .. Len(s) : n = ReadLen
  BY <1>3, <1>4
<1>6. /\ consumed' = SubSeq(s, 1, n) /\ pipe' = SubSeq(s, n + 1, Len(s))
      /\ result' = ReadResult([k \in 1 .. n |-> SubSeq(s, 1, n)[k].byte])
  BY <1>4, <1>5 DEF read_control_command
<1>7. /\ SubSeq(s, 1, n) \in Seq(PipeByte) /\ Len(SubSeq(s, 1, n)) = n
      /\ \A k \in 1 .. n : SubSeq(s, 1, n)[k] = s[k]
  BY Take
<1>8. /\ SubSeq(s, n + 1, Len(s)) \in Seq(PipeByte)
      /\ Len(SubSeq(s, n + 1, Len(s))) = Len(s) - n
      /\ \A k \in 1 .. Len(s) - n : SubSeq(s, n + 1, Len(s))[k] = s[n + k]
  BY Drop
<1>9. [k \in 1 .. n |-> consumed'[k].byte] \in Seq(Bytes)
  <2>1. PICK t \in Seq(PipeByte) : t = consumed' /\ Len(t) = n
    BY <1>6, <1>7
  <2>2. \A k \in 1 .. n : t[k].byte \in Bytes
    BY <2>1, ByteType
  <2>3. [k \in 1 .. n |-> t[k].byte] \in [1 .. n -> Bytes]
    BY <2>2
  <2>4. n \in Nat
    OBVIOUS
  <2>5. [k \in 1 .. n |-> t[k].byte] \in Seq(Bytes)
    BY <2>3, <2>4
  <2> QED  BY <2>1, <2>5
<1> QED  BY <1>1, <1>3, <1>4, <1>5, <1>6, <1>7, <1>8, <1>9

(* What read_control_command makes of the bytes. *)
LEMMA ReadResultType ==
  ASSUME NEW buf \in Seq(Bytes), Len(buf) \in 1 .. W
  PROVE  /\ ReadResult(buf) \in Results
         /\ Len(buf) < W => ReadResult(buf).kind = "PartialFrame"
         /\ Len(buf) = W => ReadResult(buf) = Decode(buf)
         /\ ReadResult(buf).kind = "Command" => Len(buf) = W
<1>1. buf # <<>> /\ Len(buf) \in Nat
  BY FrameSize
<1>2. CASE Len(buf) < W
  <2>1. ReadResult(buf) = PartialFrame(Len(buf))
    BY <1>1, <1>2 DEF ReadResult, W
  <2>2. PartialFrame(Len(buf)) \in Results /\ PartialFrame(Len(buf)).kind = "PartialFrame"
    BY <1>1 DEF PartialFrame, Results
  <2> QED  BY <1>1, <1>2, <2>1, <2>2, FrameSize
<1>3. CASE Len(buf) = W
  <2>1. ReadResult(buf) = Decode(buf)
    BY <1>1, <1>3, FrameSize DEF ReadResult, W
  <2> QED  BY <1>3, <2>1, DecodeType, FrameSize DEF W
<1> QED  BY <1>2, <1>3, FrameSize

(* A read from a pipe of whole frames takes one, and returns its command. *)
LEMMA OrderlyRead ==
  ASSUME StreamInv, read_control_command, clean
  PROVE  /\ ReadLen = W /\ Len(consumed') = W
         /\ \A k \in 1 .. W : consumed'[k].at = k /\ consumed'[k].frame = consumed'[1].frame
         /\ consumed'[1].frame \in 1 .. Len(frames)
         /\ result' = Meaning(frames[consumed'[1].frame])
         /\ Aligned(pipe')
<1>1. Aligned(pipe) /\ pipe \in Seq(PipeByte) /\ pipe # <<>>
  BY ReadFacts DEF StreamInv, TypeOK, FramesAligned
<1>2. /\ W <= Len(pipe)
      /\ \A j \in 1 .. W : pipe[j].at = j /\ pipe[j].frame = pipe[1].frame
      /\ Aligned(SubSeq(pipe, W + 1, Len(pipe)))
  <2>1. PICK s \in Seq(PipeByte) : s = pipe
    BY <1>1
  <2>2. s # <<>> /\ Aligned(s)
    BY <1>1, <2>1
  <2>3. /\ W <= Len(s)
        /\ \A j \in 1 .. W : s[j].at = j /\ s[j].frame = s[1].frame
        /\ Aligned(SubSeq(s, W + 1, Len(s)))
    BY <2>2, AlignedRead
  <2> QED  BY <2>1, <2>3
<1>3. ReadLen = W
  BY <1>1, <1>2, FrameSize DEF ReadLen, W
<1>4. \A k \in 1 .. W : consumed'[k] = pipe[k]
  BY <1>3, ReadFacts
<1>5. 1 \in 1 .. W /\ 1 \in 1 .. Len(pipe)
  BY <1>1, <1>2, FrameSize
<1>6. PICK f \in 1 .. Len(frames) : f = pipe[1].frame
  BY <1>5 DEF StreamInv, BytesGenuine, Genuine
<1>7. PICK cmd \in WireCommand : cmd = frames[f]
  BY ControlFifoAssumption DEF StreamInv, TypeOK
<1>8. ASSUME NEW k \in 1 .. W PROVE consumed'[k].byte = Encode(cmd)[k]
  <2>1. k \in 1 .. Len(pipe)
    BY <1>1, <1>2, FrameSize
  <2>2. pipe[k].byte = Encode(frames[pipe[k].frame])[pipe[k].at]
    BY <2>1 DEF StreamInv, BytesGenuine, Genuine
  <2> QED  BY <1>2, <1>4, <1>6, <1>7, <2>2
<1>9. PICK buf : buf = [k \in 1 .. W |-> consumed'[k].byte]
  OBVIOUS
<1>10. buf = Encode(cmd)
  <2>1. \A k \in 1 .. W : buf[k] = Encode(cmd)[k]
    BY <1>8, <1>9
  <2>2. Encode(cmd) \in Seq(Bytes) /\ Len(Encode(cmd)) = W
    BY EncodeType DEF W
  <2>3. Encode(cmd) = [k \in 1 .. W |-> Encode(cmd)[k]]
    BY <2>2
  <2>4. buf = [k \in 1 .. W |-> Encode(cmd)[k]]
    BY <1>9, <2>1
  <2> QED  BY <2>3, <2>4
<1>11. result' = Decode(buf)
  <2>1. result' = ReadResult(buf)
    BY <1>3, <1>9, ReadFacts
  <2>2. buf \in Seq(Bytes) /\ Len(buf) = W /\ Len(buf) \in 1 .. W
    BY <1>10, EncodeType, FrameSize DEF W
  <2> QED  BY <2>1, <2>2, ReadResultType
<1>12. result' = Meaning(cmd)
  BY <1>10, <1>11, RoundTrip
<1>13. consumed'[1].frame = f /\ \A k \in 1 .. W : consumed'[k].at = k /\ consumed'[k].frame = f
  BY <1>2, <1>4, <1>5, <1>6
<1> QED  BY <1>2, <1>3, <1>6, <1>7, <1>12, <1>13, ReadFacts

(* svlopp reads, once per wakeup. *)
LEMMA ReadInv ==
  ASSUME StreamInv, read_control_command
  PROVE  StreamInv'
<1>1. /\ pc' = "wait" /\ clean' = (clean \/ pipe' = <<>>) /\ orderly' = clean
      /\ UNCHANGED <<holders, rest, frames, torn>> /\ pc = "read"
  BY DEF read_control_command, writerVars
<1>2. PICK n \in 1 .. W :
        /\ n = ReadLen /\ n <= Len(pipe)
        /\ consumed' \in Seq(PipeByte) /\ Len(consumed') = n
        /\ \A k \in 1 .. n : consumed'[k] = pipe[k]
        /\ pipe' \in Seq(PipeByte) /\ Len(pipe') = Len(pipe) - n
        /\ \A k \in 1 .. Len(pipe) - n : pipe'[k] = pipe[n + k]
  BY ReadFacts
<1>3. PICK m \in Nat : m = Len(pipe) /\ pipe \in Seq(PipeByte) /\ m <= PipeCap
  BY DEF StreamInv, TypeOK
<1>4. PICK buf \in Seq(Bytes) : Len(buf) = n /\ result' = ReadResult(buf)
  <2>1. /\ [k \in 1 .. n |-> consumed'[k].byte] \in Seq(Bytes)
        /\ result' = ReadResult([k \in 1 .. n |-> consumed'[k].byte])
    BY <1>2, ReadFacts
  <2>2. n \in Nat
    BY FrameSize
  <2>3. Len([k \in 1 .. n |-> consumed'[k].byte]) = n
    BY <2>2
  <2> QED  BY <2>1, <2>3
<1>5. TypeOK'
  <2>1. result' \in Results
    BY <1>2, <1>4, ReadResultType
  <2>2. Len(pipe') <= PipeCap
    BY <1>2, <1>3, FrameSize, ControlFifoAssumption
  <2>3. clean' \in BOOLEAN /\ orderly' \in BOOLEAN
    BY <1>1, Zenon DEF StreamInv, TypeOK
  <2> QED  BY <1>1, <1>2, <2>1, <2>2, <2>3 DEF StreamInv, TypeOK
<1>6. BytesGenuine'
  <2>1. ASSUME NEW k \in 1 .. Len(pipe') PROVE Genuine(pipe[k])'
    <3>1. k \in 1 .. Len(pipe) - n /\ n + k \in 1 .. Len(pipe)
      BY <1>2, <1>3, <2>1, FrameSize
    <3>2. pipe'[k] = pipe[n + k] /\ Genuine(pipe[n + k])
      BY <1>2, <3>1 DEF StreamInv, BytesGenuine
    <3> QED  BY <1>1, <3>2 DEF Genuine
  <2>2. ASSUME NEW v \in Writers, NEW k \in 1 .. Len(rest'[v]) PROVE Genuine(rest[v][k])'
    BY <1>1, <2>2 DEF StreamInv, BytesGenuine, Genuine
  <2> QED  BY <2>1, <2>2 DEF BytesGenuine
<1>7. FramesAligned'
  <2>1. ASSUME clean' PROVE Aligned(pipe')
    <3>1. CASE clean
      BY <3>1, OrderlyRead
    <3>2. CASE pipe' = <<>>
      <4>1. Len(pipe') = 0
        BY <3>2
      <4> QED  BY <4>1 DEF Aligned
    <3> QED  BY <1>1, <2>1, <3>1, <3>2
  <2>2. ~clean => torn # {}
    BY DEF StreamInv, FramesAligned
  <2>3. ~clean' => ~clean
    BY <1>1
  <2> QED  BY <1>1, <2>1, <2>2, <2>3 DEF StreamInv, FramesAligned
<1>8. WriteEndKept' /\ NoIdleWakeup'
  BY <1>1 DEF StreamInv, WriteEndKept, NoIdleWakeup
<1>9. LastRead'
  <2>0. consumed' # <<>>
    BY <1>2, FrameSize
  <2> SUFFICES ASSUME clean
               PROVE  /\ Len(consumed') = W /\ consumed'[1].frame \in 1 .. Len(frames)
                      /\ OrderlyReadsAreFaithful'
    BY <1>1, <2>0 DEF LastRead
  <2>1. DOMAIN consumed' = 1 .. W
    BY <1>2, OrderlyRead
  <2> QED  BY <1>1, <2>1, OrderlyRead DEF OrderlyReadsAreFaithful
<1>10. ResultsExplained'
  <2>1. result'.kind = "Command" => Len(consumed') = WIRE_COMMAND_SIZE
    BY <1>2, <1>4, ReadResultType DEF W
  <2>2. ASSUME clean
        PROVE  /\ result'.kind # "PartialFrame"
               /\ result'.kind = "InvalidOp" => frames[consumed'[1].frame].op \notin ControlOps
    <3>1. result' = Meaning(frames[consumed'[1].frame])
      BY <2>2, OrderlyRead
    <3> QED  BY <3>1 DEF Meaning, Command, InvalidOp
  <2>3. ~clean => torn # {}
    BY DEF StreamInv, FramesAligned
  <2> QED  BY <1>1, <2>1, <2>2, <2>3 DEF ResultsExplained
<1>11. Consecutive'
  <2> SUFFICES ASSUME torn = {} PROVE Consecutive'
    BY <1>1 DEF Consecutive
  <2>1. clean
    BY DEF StreamInv, FramesAligned
  <2>2. /\ n = W /\ \A k \in 1 .. W : consumed'[k].at = k /\ consumed'[k].frame = consumed'[1].frame
    BY <1>2, <2>1, OrderlyRead
  <2>3. /\ \A k \in 1 .. m - 1 : pipe[k].at = W => pipe[k + 1].frame = pipe[k].frame + 1
        /\ m > 0 => pipe[m].frame = Len(frames)
    BY <1>3 DEF StreamInv, Consecutive
  <2>4. ASSUME NEW k \in 1 .. (m - W) - 1, pipe'[k].at = W
        PROVE  pipe'[k + 1].frame = pipe'[k].frame + 1
    <3>1. /\ k \in 1 .. m - W /\ k + 1 \in 1 .. m - W /\ W + k \in 1 .. m - 1
          /\ W + (k + 1) = (W + k) + 1
      BY <2>4, FrameSize
    <3>2. pipe'[k] = pipe[W + k] /\ pipe'[k + 1] = pipe[(W + k) + 1]
      BY <1>2, <1>3, <2>2, <3>1
    <3> QED  BY <2>3, <2>4, <3>1, <3>2
  <2>5. m >= W /\ W \in 1 .. W /\ m > 0 /\ Len(pipe') = m - W
    BY <1>2, <1>3, <2>2, FrameSize
  <2>6. pipe[W].at = W /\ pipe[W].frame = consumed'[1].frame
    BY <1>2, <2>2, <2>5
  <2>0. LastFrame' = consumed'[1].frame
    <3>1. consumed' # <<>>
      BY <1>2, FrameSize
    <3> QED  BY <3>1 DEF LastFrame
  <2>7. CASE m = W
    <3>1. pipe' = <<>>
      BY <1>2, <2>5, <2>7
    <3>2. consumed'[1].frame = Len(frames)
      BY <2>3, <2>5, <2>6, <2>7
    <3>3. Len(pipe') = 0
      BY <2>5, <2>7
    <3> QED  BY <1>1, <2>0, <3>1, <3>2, <3>3 DEF Consecutive
  <2>8. CASE m > W
    <3>1. 1 \in 1 .. m - W /\ m - W \in 1 .. m - W /\ W \in 1 .. m - 1 /\ W + (m - W) = m
      BY <2>8, FrameSize
    <3>2. pipe'[1] = pipe[W + 1] /\ pipe'[m - W] = pipe[m]
      <4>1. \A k \in 1 .. m - W : pipe'[k] = pipe[W + k]
        BY <1>2, <1>3, <2>2
      <4>2. pipe'[1] = pipe[W + 1] /\ pipe'[m - W] = pipe[W + (m - W)]
        BY <3>1, <4>1
      <4> QED  BY <3>1, <4>2
    <3>3. pipe'[1].frame = consumed'[1].frame + 1
      BY <2>3, <2>6, <3>1, <3>2
    <3>4. pipe'[Len(pipe')].frame = Len(frames)
      BY <2>3, <2>5, <3>2
    <3>5. pipe' # <<>>
      BY <1>2, <2>5, <2>8, FrameSize
    <3> QED  BY <1>1, <2>0, <2>4, <2>5, <3>3, <3>4, <3>5 DEF Consecutive
  <2> QED  BY <2>5, <2>7, <2>8, FrameSize
<1> QED  BY <1>5, <1>6, <1>7, <1>8, <1>9, <1>10, <1>11 DEF StreamInv

(* Init establishes the invariant. *)
LEMMA StreamInit == Init => StreamInv
<1> SUFFICES ASSUME Init PROVE StreamInv
  OBVIOUS
<1> USE DEF Init
<1>1. Len(<<>>) = 0 /\ <<>> \in Seq(PipeByte) /\ <<>> \in Seq(Commands)
  OBVIOUS
<1>2. TypeOK
  <2>1. NoCommand \in Results
    BY DEF Results
  <2>2. clean \in BOOLEAN /\ orderly \in BOOLEAN
    BY Zenon
  <2>3. rest \in [Writers -> Seq(PipeByte)]
    BY <1>1
  <2>4. Len(pipe) <= PipeCap
    BY <1>1, ControlFifoAssumption
  <2> QED  BY <1>1, <2>1, <2>2, <2>3, <2>4 DEF TypeOK
<1>3. BytesGenuine /\ FramesAligned /\ WriteEndKept /\ NoIdleWakeup
  BY <1>1 DEF BytesGenuine, FramesAligned, Aligned, WriteEndKept, NoIdleWakeup
<1>4. LastRead /\ ResultsExplained /\ Consecutive
  BY <1>1 DEF LastRead, ResultsExplained, Consecutive, LastFrame, NoCommand
<1> QED  BY <1>2, <1>3, <1>4 DEF StreamInv

(* Every step preserves the invariant. *)
LEMMA StreamNext == StreamInv /\ [Next]_vars => StreamInv'
<1> SUFFICES ASSUME StreamInv, [Next]_vars PROVE StreamInv'
  OBVIOUS
<1>1. CASE SupervisorStep
  BY <1>1, QuietInv, ReadInv DEF SupervisorStep
<1>2. ASSUME NEW w \in Writers,
             \/ Open(w) \/ Close(w) \/ WriteRest(w)
             \/ \E cmd \in Commands : WriteFrame(w, cmd)
             \/ \E cmd \in Commands, k \in 1 .. IdBytes : WritePiece(w, cmd, k)
      PROVE  StreamInv'
  BY <1>2, QuietInv, WriteRestInv, WriteFrameInv, WritePieceInv
<1>3. CASE UNCHANGED vars
  BY <1>3, QuietInv
<1> QED  BY <1>1, <1>2, <1>3 DEF Next, WriterStep

(* The invariant holds in every reachable state. *)
LEMMA StreamInvariance == Spec => []StreamInv
BY StreamInit, StreamNext, PTL DEF Spec

-----------------------------------------------------------------------------
(* The theorems *)

(* Every variable has its type: in particular, every id that a read returns  *)
(* fits its width, whatever bytes came through the pipe.                     *)
THEOREM FifoTypeCorrect == Spec => []TypeOK
<1>1. StreamInv => TypeOK
  BY DEF StreamInv
<1> QED  BY <1>1, StreamInvariance, PTL

(* As long as no piece of a frame came in since the pipe last ran empty, a   *)
(* read takes exactly one frame, and read_control_command returns the        *)
(* command that its writer meant, or refuses the operation that it sent.     *)
THEOREM ReadsAreFaithful == Spec => []OrderlyReadsAreFaithful
<1>1. StreamInv => OrderlyReadsAreFaithful
  BY DEF StreamInv, LastRead, OrderlyReadsAreFaithful
<1> QED  BY <1>1, StreamInvariance, PTL

(* A command is made of a frame's worth of bytes that were in the pipe; an   *)
(* incomplete frame is reported only if one was torn, an unknown operation   *)
(* only then or if its writer sent it.                                       *)
THEOREM ResultsAreExplained == Spec => []ResultsExplained
<1>1. StreamInv => ResultsExplained
  BY DEF StreamInv
<1> QED  BY <1>1, StreamInvariance, PTL

(* The write end that create_control_fifo keeps rules out a hangup, so the   *)
(* level-triggered loop never spins.                                         *)
THEOREM NeverWokenForNothing == Spec => []NoIdleWakeup
<1>1. StreamInv => NoIdleWakeup
  BY DEF StreamInv
<1> QED  BY <1>1, StreamInvariance, PTL

(* The first read of an untorn stream takes the first frame, and every read  *)
(* the whole of the frame after the last one: none twice and none left out.  *)
THEOREM FramesInOrder == Spec => InOrder
<1>1. ASSUME StreamInv, [Next]_vars, pc = "read", pc' = "wait", torn = {}
      PROVE  /\ Len(consumed') = WIRE_COMMAND_SIZE
             /\ \A k \in 1 .. WIRE_COMMAND_SIZE :
                  consumed'[k].frame = LastFrame + 1 /\ consumed'[k].at = k
  <2>1. read_control_command
    BY <1>1 DEF Next, SupervisorStep, WriterStep, create_control_fifo, EpollWait, Open, Close,
         WriteFrame, WritePiece, WriteRest, vars
  <2>2. clean
    BY <1>1 DEF StreamInv, FramesAligned
  <2>3. /\ Len(consumed') = W
        /\ \A k \in 1 .. W : consumed'[k].at = k /\ consumed'[k].frame = consumed'[1].frame
    BY <1>1, <2>1, <2>2, OrderlyRead
  <2>4. consumed'[1] = pipe[1] /\ pipe # <<>>
    <3>1. 1 \in 1 .. ReadLen
      BY <1>1, <2>1, ReadFacts, FrameSize
    <3> QED  BY <1>1, <2>1, <3>1, ReadFacts
  <2>5. pipe[1].frame = LastFrame + 1
    BY <1>1, <2>4 DEF StreamInv, Consecutive
  <2> QED  BY <2>3, <2>4, <2>5 DEF W
<1>2. StreamInv /\ [Next]_vars =>
        [pc = "read" /\ pc' = "wait" /\ torn = {} =>
           /\ Len(consumed') = WIRE_COMMAND_SIZE
           /\ \A k \in 1 .. WIRE_COMMAND_SIZE :
                consumed'[k].frame = LastFrame + 1 /\ consumed'[k].at = k]_vars
  BY <1>1
<1> QED  BY <1>2, StreamInvariance, PTL DEF Spec, InOrder

=============================================================================
