------------------------------ MODULE ProofLemmas -----------------------------
(***************************************************************************)
(* Facts about numbers and sequences that the proof modules share.  They   *)
(* speak of no code of the repository; they are stated once because the    *)
(* provers do not find them by themselves.                                 *)
(***************************************************************************)
EXTENDS Integers, Sequences, WellFoundedInduction, TLAPS

\* Every non-empty set of natural numbers has a least element.
LEMMA LeastNat ==
  ASSUME NEW T, T \subseteq Nat, T # {}
  PROVE  \E x \in T : \A y \in T : x <= y
<1>1. \E x \in T : \A y \in T : ~(<<y, x>> \in OpToRel(<, Nat))
  BY NatLessThanWellFounded, WFMin, Zenon
<1>2. PICK x \in T : \A y \in T : ~(<<y, x>> \in OpToRel(<, Nat))
  BY <1>1
<1>3. \A y \in T : ~(y < x)
  BY <1>2 DEF OpToRel
<1> QED
  BY <1>3

\* A function on 1 .. n is a sequence of length n.
LEMMA FcnIsSeq ==
  ASSUME NEW S, NEW n \in Nat, NEW f \in [1 .. n -> S]
  PROVE  f \in Seq(S) /\ Len(f) = n
  OBVIOUS

\* The elements of a concatenation.
LEMMA ConcatElements ==
  ASSUME NEW S, NEW s \in Seq(S), NEW t \in Seq(S)
  PROVE  /\ s \o t \in Seq(S)
         /\ Len(s \o t) = Len(s) + Len(t)
         /\ \A i \in 1 .. Len(s) : (s \o t)[i] = s[i]
         /\ \A k \in 1 .. Len(t) : (s \o t)[Len(s) + k] = t[k]
  OBVIOUS

\* A sequence is a function on 1 .. its length.
LEMMA SeqIsFcn ==
  ASSUME NEW S, NEW c \in Seq(S), NEW m \in Nat, Len(c) = m
  PROVE  c = [i \in 1 .. m |-> c[i]]
  OBVIOUS

\* Concatenation, as a function.
LEMMA ConcatIsFcn ==
  ASSUME NEW S, NEW f \in Seq(S), NEW g \in Seq(S)
  PROVE  f \o g = [i \in 1 .. Len(f) + Len(g) |->
                     IF i <= Len(f) THEN f[i] ELSE g[i - Len(f)]]
<1>1. /\ f \o g \in Seq(S) /\ Len(f \o g) = Len(f) + Len(g)
      /\ \A i \in 1 .. Len(f) : (f \o g)[i] = f[i]
      /\ \A k \in 1 .. Len(g) : (f \o g)[Len(f) + k] = g[k]
  BY ConcatElements
<1> DEFINE c == f \o g
<1>2. /\ c \in Seq(S) /\ Len(c) = Len(f) + Len(g)
      /\ \A i \in 1 .. Len(f) : c[i] = f[i]
      /\ \A k \in 1 .. Len(g) : c[Len(f) + k] = g[k]
  BY <1>1
<1> HIDE DEF c
<1>3. Len(f) \in Nat /\ Len(g) \in Nat
  OBVIOUS
<1>4. PICK a \in Nat, b \in Nat : a = Len(f) /\ b = Len(g)
  BY <1>3
<1>5. /\ \A i \in 1 .. a : c[i] = f[i]
      /\ \A k \in 1 .. b : c[a + k] = g[k]
  BY <1>2, <1>4, Zenon
<1>6. ASSUME NEW i \in 1 .. a + b
      PROVE  c[i] = IF i <= a THEN f[i] ELSE g[i - a]
  <2>1. CASE i <= a
    BY <2>1, <1>2, <1>4
  <2>2. CASE ~(i <= a)
    <3>1. i - a \in 1 .. b /\ a + (i - a) = i
      BY <2>2
    <3>2. PICK k \in 1 .. b : k = i - a /\ a + k = i
      BY <3>1
    <3>3. c[a + k] = g[k]
      BY <1>5
    <3> QED
      BY <3>2, <3>3, <2>2
  <2> QED
    BY <2>1, <2>2
<1>7. c = [i \in 1 .. a + b |-> c[i]]
  BY <1>2, <1>4, SeqIsFcn
<1> QED
  BY <1>4, <1>6, <1>7 DEF c

\* Two numbers of one window of m consecutive integers that agree modulo m are equal.
LEMMA SameResidue ==
  ASSUME NEW m \in Nat \ {0}, NEW x \in Int, NEW y \in Int,
         x % m = y % m, x - y < m, y - x < m
  PROVE  x = y
<1>0. x \div m \in Int /\ y \div m \in Int
  OBVIOUS
<1>1. PICK p \in Int, q \in Int : p = x \div m /\ q = y \div m
  BY <1>0, Zenon
<1>2. x = m * p + (x % m) /\ y = m * q + (y % m)
  BY <1>1
<1>3. x - y = m * (p - q)
  BY <1>2
<1>4. p - q < 1 /\ p - q > -1
  BY <1>3
<1> QED
  BY <1>3, <1>4

\* The only number q with b * q <= x < b * q + b is x \div b.
LEMMA DivUnique ==
  ASSUME NEW b \in Nat \ {0}, NEW x \in Nat, NEW q \in Int, NEW r \in 0 .. b - 1,
         x = b * q + r
  PROVE  x \div b = q
<1>1. PICK p \in Int, m \in Int : p = x \div b /\ m = x % b
  OBVIOUS
<1>2. x = b * p + m /\ m \in 0 .. b - 1
  BY <1>1
<1>3. b * (p - q) = r - m
  BY <1>2
<1>4. p - q < 1 /\ p - q > -1
  BY <1>2, <1>3
<1> QED
  BY <1>1, <1>4

\* Quotient and remainder.
LEMMA DivMod ==
  ASSUME NEW b \in Nat \ {0}, NEW x \in Nat
  PROVE  /\ x \div b \in Nat /\ x % b \in 0 .. b - 1
         /\ x = b * (x \div b) + (x % b)
<1>1. PICK q \in Int, r \in Int : q = x \div b /\ r = x % b
  OBVIOUS
<1>2. x = b * q + r /\ r \in 0 .. b - 1
  BY <1>1
<1>3. q \in Nat
  BY <1>2
<1> QED
  BY <1>1, <1>2, <1>3

\* Below a * b every quotient by b is below a.
LEMMA DivBelow ==
  ASSUME NEW a \in Nat, NEW b \in Nat \ {0}, NEW x \in 0 .. a * b - 1
  PROVE  x \div b \in 0 .. a - 1
<1>1. x \in Nat /\ x < a * b
  OBVIOUS
<1>2. PICK q \in Nat, r \in 0 .. b - 1 : q = x \div b /\ x = b * q + r
  BY <1>1, DivMod
<1>3. b * (a - q) > 0
  BY <1>1, <1>2
<1>4. q < a
  BY <1>3
<1> QED
  BY <1>2, <1>4

\* Row-major addressing: row q, column r of rows of length b.
LEMMA RowMajor ==
  ASSUME NEW a \in Nat, NEW b \in Nat \ {0}, NEW q \in 0 .. a - 1, NEW r \in 0 .. b - 1
  PROVE  /\ q * b + r \in 0 .. a * b - 1
         /\ (q * b + r) \div b = q
         /\ (q * b + r) % b = r
<1>1. PICK x \in Nat : x = q * b + r /\ x = b * q + r
  OBVIOUS
<1>2. b * (a - 1 - q) >= 0
  OBVIOUS
<1>3. x < a * b
  BY <1>1, <1>2
<1>4. x \div b = q
  BY <1>1, DivUnique
<1>5. x % b = r
  BY <1>1, <1>4, DivMod
<1> QED
  BY <1>1, <1>3, <1>4, <1>5

\* n chunks of length ceil(len / n) cover 0 .. len - 1.
LEMMA ChunksCover ==
  ASSUME NEW len \in Nat, NEW n \in Nat \ {0}, NEW c, c = (len + n - 1) \div n,
         NEW j \in 0 .. len - 1
  PROVE  \E k \in 0 .. n - 1 : k * c <= j /\ j < k * c + c
<1>1. PICK x \in Nat : x = len + n - 1
  OBVIOUS
<1>2. /\ x \div n \in Nat /\ x % n \in 0 .. n - 1
      /\ x = n * (x \div n) + (x % n)
  BY DivMod
<1>3. PICK r \in 0 .. n - 1 : c \in Nat /\ x = n * c + r
  BY <1>1, <1>2
<1>4. len <= n * c
  BY <1>1, <1>3
<1>5. c # 0
  BY <1>4
<1>6. j \in 0 .. n * c - 1 /\ j \in Nat
  BY <1>3, <1>4
<1>7. j \div c \in 0 .. n - 1
  BY <1>3, <1>5, <1>6, DivBelow
<1>8. /\ j \div c \in Nat /\ j % c \in 0 .. c - 1
      /\ j = c * (j \div c) + (j % c)
  BY <1>3, <1>5, <1>6, DivMod
<1>9. PICK k \in 0 .. n - 1, m \in 0 .. c - 1 : j = c * k + m
  BY <1>7, <1>8
<1>10. k * c = c * k
  BY <1>3
<1> QED
  BY <1>3, <1>9, <1>10

\* A number lies in one chunk only.
LEMMA OneChunk ==
  ASSUME NEW c \in Int, NEW j \in Int, NEW k \in Int, NEW i \in Int,
         k * c <= j, j < k * c + c, i * c <= j, j < i * c + c
  PROVE  k = i
<1>1. c > 0
  BY k * c \in Int
<1>2. (k - i) * c < c /\ (i - k) * c < c
  BY <1>1
<1>3. k - i < 1 /\ i - k < 1
  BY <1>1, <1>2
<1> QED
  BY <1>3

\* Appending to a function on 1 .. n, whatever its values are.
LEMMA AppendIsFcn ==
  ASSUME NEW n \in Nat, NEW f, f = [i \in 1 .. n |-> f[i]], NEW x
  PROVE  /\ Len(f) = n /\ DOMAIN f = 1 .. n
         /\ Append(f, x) = [i \in 1 .. n + 1 |-> IF i <= n THEN f[i] ELSE x]
<1> DEFINE S == {f[i] : i \in 1 .. n} \union {x}
<1>1. f \in [1 .. n -> S] /\ x \in S
  OBVIOUS
<1> HIDE DEF S
<1>2. f \in Seq(S) /\ Len(f) = n
  BY <1>1, FcnIsSeq
<1> DEFINE g == Append(f, x)
<1>3. /\ g \in Seq(S) /\ Len(g) = n + 1
      /\ \A i \in 1 .. n : g[i] = f[i]
      /\ g[n + 1] = x
  BY <1>1, <1>2
<1> HIDE DEF g
<1>4. g = [i \in 1 .. n + 1 |-> g[i]]
  BY <1>3, SeqIsFcn
<1>5. \A i \in 1 .. n + 1 : g[i] = IF i <= n THEN f[i] ELSE x
  BY <1>3
<1>6. g = [i \in 1 .. n + 1 |-> IF i <= n THEN f[i] ELSE x]
  BY <1>4, <1>5
<1>7. DOMAIN f = 1 .. n
  OBVIOUS
<1> QED
  BY <1>2, <1>6, <1>7 DEF g

\* Rounding n up to whole groups of w covers 0 .. n - 1.
LEMMA RoundUp ==
  ASSUME NEW n \in Nat, NEW w \in Nat \ {0}
  PROVE  /\ ((n + w - 1) \div w) * w \in Nat
         /\ n <= ((n + w - 1) \div w) * w
<1>1. PICK x \in Nat : x = n + w - 1
  OBVIOUS
<1>2. /\ x \div w \in Nat /\ x % w \in 0 .. w - 1
      /\ x = w * (x \div w) + (x % w)
  BY DivMod
<1>3. PICK q \in Nat, r \in 0 .. w - 1 : q = x \div w /\ x = w * q + r
  BY <1>2
<1>4. q * w \in Nat /\ q * w = w * q
  OBVIOUS
<1>5. n <= q * w
  BY <1>1, <1>3, <1>4
<1> QED
  BY <1>1, <1>3, <1>4, <1>5
=============================================================================
