--------------------------- MODULE OrgTree_proofs ---------------------------
(***************************************************************************)
(* Proofs about OrgTree for any organizations, any radix and any widths of *)
(* the segments, and about what OrgFilter computes on path keys.           *)
(***************************************************************************)
EXTENDS OrgTree, Induction

-----------------------------------------------------------------------------
(* Segments as numbers. *)

Digits == 0 .. Radix - 1

(* The values of the first digits of a segment of w digits. *)
IsValue(v, seg, w) ==
    /\ v \in [0 .. w -> Nat] /\ v[0] = 0
    /\ \A i \in 1 .. w : v[i] = v[i - 1] * Radix + seg[i]

LEMMA ValueExists ==
    ASSUME NEW w \in Nat, NEW seg \in [1 .. w -> Digits]
    PROVE  \E v : IsValue(v, seg, w)
<1> DEFINE Step == [p \in (1 .. w) \X Nat |-> p[2] * Radix + seg[p[1]]]
<1>1. Step \in [(1 .. w) \X Nat -> Nat]
  BY RadixAssumption DEF Digits
<1>2. PICK f \in [0 .. w -> Nat] :
          f[0] = 0 /\ \A i \in 1 .. w : f[i] = Step[<<i, f[i - 1]>>]
  <2> HIDE DEF Step
  <2>1. 0 \in Nat
    OBVIOUS
  <2>2. QED
    BY <1>1, <2>1, Recursion
<1>3. \A i \in 1 .. w : f[i] = f[i - 1] * Radix + seg[i]
  <2>1. TAKE i \in 1 .. w
  <2>2. f[i - 1] \in Nat
    OBVIOUS
  <2>3. <<i, f[i - 1]>> \in (1 .. w) \X Nat
    BY <2>2
  <2>4. QED
    BY <1>2, <2>3
<1>4. QED
  BY <1>2, <1>3 DEF IsValue

(* ParseInt computes the value of the whole segment. *)
LEMMA ParseIntValue ==
    ASSUME NEW w \in Nat, NEW seg \in [1 .. w -> Digits], NEW v, IsValue(v, seg, w)
    PROVE  ParseInt(seg) = v[w]
<1> DEFINE Solves(f) == f = [i \in 0 .. w |-> IF i = 0 THEN 0 ELSE f[i - 1] * Radix + seg[i]]
           value == CHOOSE f : Solves(f)
           T == {i \in 0 .. w : value[i] # v[i]}
<1>1. Len(seg) = w
  BY LenProperties, IsASeq
<1>2. ParseInt(seg) = value[w]
  BY <1>1 DEF ParseInt
<1>3. Solves(v)
  BY DEF IsValue
<1>4. Solves(value)
  BY <1>3
<1>5. T = {}
  <2>1. SUFFICES ASSUME T # {} PROVE FALSE
    OBVIOUS
  <2>2. PICK k \in T : \A j \in T : k <= j
    <3>1. T \in SUBSET Nat
      OBVIOUS
    <3> HIDE DEF T
    <3>2. QED
      BY <2>1, <3>1, LeastMember
  <2> HIDE DEF value
  <2>3. k # 0
    BY <1>4 DEF IsValue
  <2>4. value[k - 1] = v[k - 1]
    BY <2>2, <2>3
  <2>5. value[k] = v[k]
    BY <1>4, <2>2, <2>3, <2>4 DEF IsValue
  <2>6. QED
    BY <2>2, <2>5
<1>6. QED
  BY <1>2, <1>5

(* The quotients of n by the powers of the radix. *)
IsQuotients(q, n) ==
    /\ q \in [0 .. n + 1 -> Nat] /\ q[0] = n
    /\ \A k \in 1 .. n + 1 : q[k] = q[k - 1] \div Radix

(* The last digits of n: the remainders of its first w quotients. *)
Remainders(q, w) == [i \in 1 .. w |-> q[w - i] % Radix]

(* What division and remainder are. *)
LEMMA DivMod ==
    ASSUME NEW x \in Nat, NEW r \in Nat, r > 1
    PROVE  /\ x \div r \in Nat /\ x % r \in Nat /\ x % r < r
           /\ x = r * (x \div r) + (x % r)
<1>1. x % r = x - r * (x \div r)
  OBVIOUS
<1>2. x \div r \in Nat /\ x % r \in Nat /\ x % r < r
  OBVIOUS
<1>3. r * (x \div r) \in Int
  BY <1>2
<1>4. QED
  BY <1>1, <1>2, <1>3

LEMMA ProductGrows ==
    ASSUME NEW a \in Nat, NEW r \in Nat, r > 1
    PROVE  a * r \in Nat /\ a * r >= a
OBVIOUS

(* Dividing by the radix takes the last digit off. *)
LEMMA LastDigit ==
    ASSUME NEW a \in Nat, NEW d \in Digits
    PROVE  (a * Radix + d) \div Radix = a /\ (a * Radix + d) % Radix = d
<1> DEFINE x == a * Radix + d
<1>1. Radix \in Nat /\ Radix > 1 /\ d \in Nat /\ d < Radix /\ a * Radix \in Nat /\ x \in Nat
  BY RadixAssumption DEF Digits
<1>2. x \div Radix \in Nat /\ x % Radix \in Nat /\ x % Radix < Radix
      /\ x = Radix * (x \div Radix) + (x % Radix)
  <2> HIDE DEF x
  <2>1. QED
    BY <1>1, DivMod
<1>3. ASSUME NEW b \in Nat, NEW e \in Nat, e < Radix, x = Radix * b + e PROVE b = a /\ e = d
  <2>1. CASE b = a
    BY <1>1, <1>3, <2>1
  <2>2. CASE b > a
    <3>1. Radix * b >= Radix * (a + 1)
      BY <1>1, <2>2
    <3>2. Radix * (a + 1) = a * Radix + Radix
      BY <1>1
    <3>3. QED
      BY <1>1, <1>3, <3>1, <3>2
  <2>3. CASE b < a
    <3>1. Radix * a >= Radix * (b + 1)
      BY <1>1, <2>3
    <3>2. Radix * (b + 1) = Radix * b + Radix /\ Radix * a = a * Radix
      BY <1>1
    <3>3. QED
      BY <1>1, <1>3, <3>1, <3>2
  <2>4. QED
    BY <2>1, <2>2, <2>3
<1>4. QED
  <2> HIDE DEF x
  <2>1. x \div Radix = a /\ x % Radix = d
    BY <1>2, <1>3
  <2>2. QED
    BY <2>1 DEF x

LEMMA QuotientsExist ==
    ASSUME NEW n \in Nat
    PROVE  \E q : IsQuotients(q, n)
<1> DEFINE Step == [p \in (1 .. n + 1) \X Nat |-> p[2] \div Radix]
<1>1. Step \in [(1 .. n + 1) \X Nat -> Nat]
  BY RadixAssumption
<1>2. PICK f \in [0 .. n + 1 -> Nat] :
          f[0] = n /\ \A i \in 1 .. n + 1 : f[i] = Step[<<i, f[i - 1]>>]
  <2> HIDE DEF Step
  <2>1. n + 1 \in Nat
    OBVIOUS
  <2>2. QED
    BY <1>1, <2>1, Recursion
<1>3. \A i \in 1 .. n + 1 : f[i] = f[i - 1] \div Radix
  <2>1. TAKE i \in 1 .. n + 1
  <2>2. f[i - 1] \in Nat
    OBVIOUS
  <2>3. <<i, f[i - 1]>> \in (1 .. n + 1) \X Nat
    BY <2>2
  <2>4. QED
    BY <1>2, <2>3
<1>4. QED
  BY <1>2, <1>3 DEF IsQuotients

(* FormatInt writes the remainders up to the first quotient that is 0. *)
LEMMA FormatIntQuotients ==
    ASSUME NEW n \in Nat, NEW q, IsQuotients(q, n)
    PROVE  \E w \in 1 .. n + 1 :
              /\ q[w] = 0 /\ \A j \in 1 .. w - 1 : q[j] # 0
              /\ FormatInt(n) = Remainders(q, w)
<1> DEFINE Solves(f) == f = [k \in 0 .. n + 1 |-> IF k = 0 THEN n ELSE f[k - 1] \div Radix]
           quotient == CHOOSE f : Solves(f)
           First(k) == q[k] = 0 /\ \A j \in 1 .. k - 1 : q[j] # 0
<1>1. Solves(q)
  BY DEF IsQuotients
<1>2. Solves(quotient)
  BY <1>1
<1>3. quotient = q
  <2> HIDE DEF quotient
  <2> DEFINE S == {k \in 0 .. n + 1 : quotient[k] = q[k]}
  <2>1. 0 \in S
    BY <1>2 DEF IsQuotients
  <2>2. ASSUME NEW i \in 0 .. (n + 1) - 1, i \in S PROVE i + 1 \in S
    <3>1. quotient[i + 1] = quotient[i] \div Radix
      BY <1>2
    <3>2. q[i + 1] = q[i] \div Radix
      BY DEF IsQuotients
    <3>3. QED
      BY <2>2, <3>1, <3>2
  <2>3. 0 .. n + 1 \subseteq S
    <3> HIDE DEF S
    <3>1. QED
      BY <2>1, <2>2, UpTo
  <2>4. QED
    BY <1>2, <2>3 DEF IsQuotients
<1>4. \E k \in 1 .. n + 1 : First(k)
  <2> DEFINE Z == {k \in 1 .. n + 1 : q[k] = 0}
             S == {k \in 0 .. n + 1 : q[k] = 0 \/ q[k] <= n - k}
  <2>1. 0 \in S
    BY DEF IsQuotients
  <2>2. ASSUME NEW i \in 0 .. (n + 1) - 1, i \in S PROVE i + 1 \in S
    <3>1. q[i] \in Nat /\ q[i + 1] \in Nat /\ q[i + 1] = q[i] \div Radix
      BY DEF IsQuotients
    <3>2. Radix \in Nat /\ Radix > 1
      BY RadixAssumption
    <3>3. q[i] = Radix * q[i + 1] + (q[i] % Radix) /\ q[i] % Radix \in Nat
      BY <3>1, <3>2, DivMod
    <3>4. Radix * q[i + 1] >= 2 * q[i + 1]
      BY <3>1, <3>2
    <3>5. q[i] >= 2 * q[i + 1]
      BY <3>1, <3>2, <3>3, <3>4
    <3>6. q[i + 1] = 0 \/ q[i + 1] <= n - (i + 1)
      BY <2>2, <3>1, <3>5
    <3>7. QED
      BY <3>6
  <2>3. 0 .. n + 1 \subseteq S
    <3> HIDE DEF S
    <3>1. QED
      BY <2>1, <2>2, UpTo
  <2>4. n + 1 \in Z
    <3>1. n + 1 \in S /\ q[n + 1] \in Nat
      BY <2>3 DEF IsQuotients
    <3>2. QED
      BY <3>1
  <2>5. PICK k \in Z : \A j \in Z : k <= j
    <3>1. Z \in SUBSET Nat
      OBVIOUS
    <3> HIDE DEF Z
    <3>2. QED
      BY <2>4, <3>1, LeastMember
  <2>6. QED
    BY <2>5
<1> DEFINE w == CHOOSE k \in 1 .. n + 1 : First(k)
<1>5. w \in 1 .. n + 1 /\ First(w)
  <2> HIDE DEF First
  <2>1. QED
    BY <1>4
<1>6. FormatInt(n) = Remainders(q, w)
  <2>1. FormatInt(n) = LET u == CHOOSE k \in 1 .. n + 1 :
                              quotient[k] = 0 /\ \A j \in 1 .. k - 1 : quotient[j] # 0
                       IN  [i \in 1 .. u |-> quotient[u - i] % Radix]
    BY DEF FormatInt
  <2> HIDE DEF quotient
  <2>2. QED
    BY <1>3, <2>1 DEF Remainders
<1>7. QED
  <2> HIDE DEF w
  <2>1. QED
    BY <1>5, <1>6

(* Zero-padding the digits of a segment's value gives the segment back. *)
LEMMA PadFormat ==
    ASSUME NEW w \in Nat \ {0}, NEW seg \in [1 .. w -> Digits], NEW v, IsValue(v, seg, w)
    PROVE  PadTo(FormatInt(v[w]), w) = seg
<1> DEFINE n == v[w]
<1>0. n \in Nat /\ Radix \in Nat /\ Radix > 1 /\ \A i \in 1 .. w : seg[i] \in Nat
  <2>1. Radix \in Nat /\ Radix > 1
    BY RadixAssumption
  <2>2. Digits \subseteq Nat
    BY <2>1 DEF Digits
  <2>3. n \in Nat
    BY DEF IsValue
  <2>4. QED
    BY <2>1, <2>2, <2>3
<1> HIDE DEF n
<1>1. PICK q : IsQuotients(q, n)
  BY <1>0, QuotientsExist
<1>2. PICK k \in 1 .. n + 1 :
          /\ q[k] = 0 /\ \A j \in 1 .. k - 1 : q[j] # 0
          /\ FormatInt(n) = Remainders(q, k)
  BY <1>0, <1>1, FormatIntQuotients
<1>3. ASSUME NEW j \in 0 .. w, j <= n + 1 PROVE q[j] = v[w - j]
  <2> DEFINE S == {i \in 0 .. w : i <= n + 1 => q[i] = v[w - i]}
  <2>1. 0 \in S
    BY <1>1 DEF IsQuotients, n
  <2>2. ASSUME NEW i \in 0 .. w - 1, i \in S PROVE i + 1 \in S
    <3>1. SUFFICES ASSUME i + 1 <= n + 1 PROVE q[i + 1] = v[w - (i + 1)]
      OBVIOUS
    <3>2. q[i] = v[w - i] /\ q[i + 1] = q[i] \div Radix
      BY <1>0, <1>1, <2>2, <3>1 DEF IsQuotients
    <3>3. w - i \in 1 .. w /\ (w - i) - 1 = w - (i + 1) /\ w - (i + 1) \in 0 .. w
      OBVIOUS
    <3>4. v[w - i] = v[w - (i + 1)] * Radix + seg[w - i] /\ v[w - (i + 1)] \in Nat
      BY <3>3 DEF IsValue
    <3>5. QED
      BY <3>2, <3>3, <3>4, LastDigit
  <2>3. 0 .. w \subseteq S
    <3> HIDE DEF S
    <3>1. QED
      BY <2>1, <2>2, UpTo
  <2>4. QED
    BY <1>3, <2>3
<1>4. k <= w
  <2>1. SUFFICES ASSUME k > w PROVE FALSE
    OBVIOUS
  <2>2. w \in 1 .. k - 1 /\ w \in 0 .. w /\ w <= n + 1 /\ w - w = 0
    BY <1>0, <2>1
  <2>3. q[w] = v[0]
    BY <1>3, <2>2
  <2>4. QED
    BY <1>2, <2>2, <2>3 DEF IsValue
<1>5. ASSUME NEW i \in 0 .. w - k PROVE v[i] = 0
  <2> DEFINE S == {j \in 0 .. w - k : v[(w - k) - j] = 0}
  <2>1. 0 \in S
    <3>1. q[k] = v[w - k]
      BY <1>0, <1>3, <1>4
    <3>2. QED
      BY <1>2, <1>4, <3>1
  <2>2. ASSUME NEW j \in 0 .. (w - k) - 1, j \in S PROVE j + 1 \in S
    <3> DEFINE m == (w - k) - j
    <3>1. m \in 1 .. w /\ m - 1 = (w - k) - (j + 1) /\ v[m] = 0 /\ m - 1 \in 0 .. w
      BY <1>4, <2>2
    <3>2. v[m] = v[m - 1] * Radix + seg[m] /\ v[m - 1] \in Nat
      BY <3>1 DEF IsValue
    <3>3. v[m - 1] * Radix >= v[m - 1] /\ v[m - 1] * Radix \in Nat
      BY <1>0, <3>2, ProductGrows
    <3>4. v[m - 1] = 0
      BY <1>0, <3>1, <3>2, <3>3
    <3>5. QED
      BY <3>1, <3>4
  <2>3. 0 .. w - k \subseteq S
    <3>1. w - k \in Nat
      BY <1>4
    <3> HIDE DEF S
    <3>2. QED
      BY <2>1, <2>2, <3>1, UpTo
  <2>4. (w - k) - i \in S /\ (w - k) - ((w - k) - i) = i
    BY <2>3, SMTT(30)
  <2>5. QED
    BY <2>4
<1> DEFINE F == [i \in 1 .. k |-> q[k - i] % Radix]
           Z == [i \in 1 .. w - k |-> 0]
<1>6. F \in Seq(Nat) /\ Len(F) = k /\ Z \in Seq(Nat) /\ Len(Z) = w - k
  <2>1. \A i \in 1 .. k : q[k - i] % Radix \in Nat
    BY <1>0, <1>1, DivMod, SMTT(30) DEF IsQuotients
  <2>2. k \in Nat /\ w - k \in Nat
    BY <1>4
  <2>3. F \in [1 .. k -> Nat] /\ Z \in [1 .. w - k -> Nat]
    BY <2>1
  <2> HIDE DEF F, Z
  <2>4. QED
    BY <2>2, <2>3, SeqOfFun
<1>7. PadTo(FormatInt(n), w) = Z \o F
  BY <1>2, <1>6 DEF PadTo, Remainders
<1>8. ASSUME NEW i \in 1 .. w PROVE (Z \o F)[i] = seg[i]
  <2>1. CASE i <= w - k
    <3>1. (Z \o F)[i] = 0
      BY <1>4, <1>6, <2>1
    <3>2. v[i] = 0 /\ v[i - 1] = 0 /\ v[i] = v[i - 1] * Radix + seg[i]
      BY <1>4, <1>5, <2>1 DEF IsValue
    <3>3. 0 * Radix = 0
      BY <1>0
    <3>4. seg[i] = 0
      BY <1>0, <3>2, <3>3
    <3>5. QED
      BY <3>1, <3>4
  <2>2. CASE i > w - k
    <3>1. (Z \o F)[i] = F[i - (w - k)] /\ i - (w - k) \in 1 .. k
      BY <1>4, <1>6, <2>2
    <3>2. F[i - (w - k)] = q[w - i] % Radix
      <4>1. k - (i - (w - k)) = w - i
        BY <1>4
      <4>2. QED
        BY <3>1, <4>1
    <3>3. q[w - i] = v[i]
      <4>1. w - i \in 0 .. w /\ w - i <= n + 1 /\ w - (w - i) = i
        BY <1>0, <1>4, <2>2
      <4>2. QED
        BY <1>3, <4>1
    <3>4. v[i] = v[i - 1] * Radix + seg[i] /\ v[i - 1] \in Nat
      BY DEF IsValue
    <3>5. QED
      BY <3>1, <3>2, <3>3, <3>4, LastDigit
  <2>3. QED
    BY <1>4, <2>1, <2>2
<1>9. Z \o F \in Seq(Nat) /\ Len(Z \o F) = w
  BY <1>4, <1>6
<1>10. seg \in Seq(Nat) /\ Len(seg) = w
  <2>1. seg \in [1 .. w -> Nat]
    BY <1>0
  <2>2. QED
    BY <2>1, IsASeq, LenProperties
<1>11. Z \o F = seg
  <2> HIDE DEF Z, F
  <2>1. QED
    BY <1>8, <1>9, <1>10, SeqEqual
<1>12. QED
  BY <1>7, <1>11 DEF n

-----------------------------------------------------------------------------
(* The next segment and the order of the stores. *)

(* The segment one above: the last digit that is not the highest is raised, *)
(* the ones after it start again at 0.                                      *)
IsSuccessor(t, seg, w) ==
    /\ t \in [1 .. w -> Digits]
    /\ \E j \in 1 .. w :
          /\ seg[j] < Radix - 1 /\ t[j] = seg[j] + 1
          /\ \A i \in 1 .. j - 1 : t[i] = seg[i]
          /\ \A i \in j + 1 .. w : seg[i] = Radix - 1 /\ t[i] = 0

(* A segment that is not the highest of its width has a successor. *)
LEMMA SuccessorExists ==
    ASSUME NEW w \in Nat, NEW seg \in [1 .. w -> Digits],
           NEW h \in 1 .. w, seg[h] # Radix - 1
    PROVE  \E t : IsSuccessor(t, seg, w)
<1> DEFINE T == {i \in 0 .. w - 1 : seg[w - i] # Radix - 1}
<1>0. Radix \in Nat /\ Radix > 1
  BY RadixAssumption
<1>1. w - h \in T
  OBVIOUS
<1>2. PICK m \in T : \A i \in T : m <= i
  <2>1. T \in SUBSET Nat
    OBVIOUS
  <2> HIDE DEF T
  <2>2. QED
    BY <1>1, <2>1, LeastMember
<1> DEFINE j == w - m
           t == [i \in 1 .. w |-> IF i < j THEN seg[i] ELSE IF i = j THEN seg[i] + 1 ELSE 0]
<1>3. j \in 1 .. w /\ seg[j] \in Digits /\ seg[j] # Radix - 1
  BY <1>2
<1>4. seg[j] < Radix - 1 /\ seg[j] + 1 \in Digits /\ 0 \in Digits
  <2> HIDE DEF j
  <2>1. QED
    BY <1>0, <1>3 DEF Digits
<1>5. \A i \in j + 1 .. w : seg[i] = Radix - 1
  <2>1. TAKE i \in j + 1 .. w
  <2>2. w - i \in 0 .. w - 1 /\ w - i < m /\ w - (w - i) = i
    BY <1>3
  <2>3. w - i \notin T
    BY <1>2, <2>2
  <2>4. QED
    BY <2>2, <2>3
<1>6. t \in [1 .. w -> Digits]
  <2> HIDE DEF j
  <2>1. \A i \in 1 .. w : (IF i < j THEN seg[i] ELSE IF i = j THEN seg[i] + 1 ELSE 0) \in Digits
    BY <1>4
  <2>2. QED
    BY <2>1
<1>7. t[j] = seg[j] + 1 /\ (\A i \in 1 .. j - 1 : t[i] = seg[i]) /\ (\A i \in j + 1 .. w : t[i] = 0)
  <2> HIDE DEF j
  <2>1. QED
    BY <1>3
<1>8. IsSuccessor(t, seg, w)
  <2> HIDE DEF j, t
  <2>1. QED
    BY <1>3, <1>4, <1>5, <1>6, <1>7 DEF IsSuccessor
<1>9. QED
  BY <1>8

(* Its value is one more. *)
LEMMA SuccessorValue ==
    ASSUME NEW w \in Nat, NEW seg \in [1 .. w -> Digits], NEW t, IsSuccessor(t, seg, w),
           NEW v, IsValue(v, seg, w), NEW u, IsValue(u, t, w)
    PROVE  u[w] = v[w] + 1
<1>0. Radix \in Nat /\ Radix > 1
  BY RadixAssumption
<1>1. PICK j \in 1 .. w :
          /\ seg[j] < Radix - 1 /\ t[j] = seg[j] + 1
          /\ \A i \in 1 .. j - 1 : t[i] = seg[i]
          /\ \A i \in j + 1 .. w : seg[i] = Radix - 1 /\ t[i] = 0
  BY DEF IsSuccessor
<1> DEFINE S == {i \in 0 .. w : u[i] = IF i < j THEN v[i] ELSE v[i] + 1}
<1>2. 0 \in S
  BY DEF IsValue
<1>3. ASSUME NEW i \in 0 .. w - 1, i \in S PROVE i + 1 \in S
  <2>1. i + 1 \in 1 .. w /\ (i + 1) - 1 = i
    OBVIOUS
  <2>2. v[i + 1] = v[i] * Radix + seg[i + 1] /\ u[i + 1] = u[i] * Radix + t[i + 1]
    BY <2>1 DEF IsValue
  <2>3. v[i] \in Nat /\ u[i] \in Nat /\ v[i] * Radix \in Nat /\ seg[i + 1] \in Int
    BY <1>0, <2>1, SMTT(30) DEF IsValue, Digits
  <2>4. CASE i + 1 < j
    BY <1>1, <1>3, <2>1, <2>2, <2>3, <2>4
  <2>5. CASE i + 1 = j
    <3>1. u[i] = v[i] /\ t[i + 1] = seg[i + 1] + 1
      BY <1>1, <1>3, <2>5
    <3>2. QED
      BY <2>1, <2>2, <2>3, <2>5, <3>1
  <2>6. CASE i + 1 > j
    <3>1. u[i] = v[i] + 1 /\ t[i + 1] = 0 /\ seg[i + 1] = Radix - 1
      BY <1>1, <1>3, <2>1, <2>6
    <3>2. (v[i] + 1) * Radix = v[i] * Radix + Radix
      BY <1>0, <2>3
    <3>3. u[i + 1] = v[i + 1] + 1
      <4>1. u[i + 1] = (v[i] + 1) * Radix + 0
        BY <2>2, <3>1
      <4>2. v[i + 1] = v[i] * Radix + (Radix - 1)
        BY <2>2, <3>1
      <4> DEFINE x == v[i] * Radix
      <4>3. x \in Nat /\ u[i + 1] = (x + Radix) + 0 /\ v[i + 1] = x + (Radix - 1)
        BY <2>3, <3>2, <4>1, <4>2
      <4> HIDE DEF x
      <4>4. QED
        BY <1>0, <4>3
    <3>4. QED
      BY <2>1, <2>6, <3>3
  <2>7. QED
    BY <2>4, <2>5, <2>6
<1>4. 0 .. w \subseteq S
  <2> HIDE DEF S
  <2>1. QED
    BY <1>2, <1>3, UpTo
<1>5. QED
  BY <1>4

(* NextSegment of a segment that is not the highest of its width is its     *)
(* successor, at the same width.                                            *)
LEMMA NextSegmentIsSuccessor ==
    ASSUME NEW w \in Nat \ {0}, NEW seg \in [1 .. w -> Digits],
           NEW h \in 1 .. w, seg[h] # Radix - 1
    PROVE  IsSuccessor(NextSegment(seg), seg, w)
<1>1. PICK t : IsSuccessor(t, seg, w)
  BY SuccessorExists
<1>2. t \in [1 .. w -> Digits]
  BY <1>1 DEF IsSuccessor
<1>3. PICK v : IsValue(v, seg, w)
  BY ValueExists
<1>4. PICK u : IsValue(u, t, w)
  BY <1>2, ValueExists
<1>5. ParseInt(seg) + 1 = u[w]
  BY <1>1, <1>3, <1>4, ParseIntValue, SuccessorValue
<1>6. Len(seg) = w
  BY SeqOfFun
<1>7. PadTo(FormatInt(u[w]), w) = t
  BY <1>2, <1>4, PadFormat
<1>8. QED
  BY <1>1, <1>5, <1>6, <1>7 DEF NextSegment

Segments(w) == [1 .. w -> Digits]

LEMMA DigitsAreNumbers == Digits \subseteq Nat /\ \A d \in Digits : d <= Radix - 1
BY RadixAssumption DEF Digits

(* The first k elements of a sequence. *)
LEMMA StartOf ==
    ASSUME NEW S, NEW s \in Seq(S), NEW k \in Nat, k <= Len(s)
    PROVE  /\ SubSeq(s, 1, k) \in Seq(S) /\ Len(SubSeq(s, 1, k)) = k
           /\ \A j \in 1 .. k : SubSeq(s, 1, k)[j] = s[j]
OBVIOUS

(* Two sequences start with the same k elements. *)
LEMMA SameStart ==
    ASSUME NEW S, NEW s \in Seq(S), NEW t \in Seq(S), NEW k \in Nat, k <= Len(s), k <= Len(t)
    PROVE  SubSeq(s, 1, k) = SubSeq(t, 1, k) <=> \A j \in 1 .. k : s[j] = t[j]
<1>1. /\ SubSeq(s, 1, k) \in Seq(S) /\ Len(SubSeq(s, 1, k)) = k
      /\ \A j \in 1 .. k : SubSeq(s, 1, k)[j] = s[j]
  BY StartOf
<1>2. /\ SubSeq(t, 1, k) \in Seq(S) /\ Len(SubSeq(t, 1, k)) = k
      /\ \A j \in 1 .. k : SubSeq(t, 1, k)[j] = t[j]
  BY StartOf
<1>3. ASSUME \A j \in 1 .. k : s[j] = t[j] PROVE SubSeq(s, 1, k) = SubSeq(t, 1, k)
  BY <1>1, <1>2, <1>3, SeqEqual
<1>4. ASSUME SubSeq(s, 1, k) = SubSeq(t, 1, k), NEW j \in 1 .. k PROVE s[j] = t[j]
  BY <1>1, <1>2, <1>4
<1>5. QED
  BY <1>3, <1>4

(* The order of two segments of one width is that of their first digits     *)
(* that differ.                                                             *)
LEMMA SegmentOrder ==
    ASSUME NEW w \in Nat, NEW s \in Segments(w), NEW t \in Segments(w)
    PROVE  SegmentLess(s, t) <=>
               \E i \in 1 .. w : s[i] < t[i] /\ \A j \in 1 .. i - 1 : s[j] = t[j]
<1>1. /\ s \in Seq(Digits) /\ Len(s) = w
      /\ t \in Seq(Digits) /\ Len(t) = w
  BY SeqOfFun DEF Segments
<1>2. ASSUME NEW i \in 1 .. w
      PROVE  SubSeq(s, 1, i - 1) = SubSeq(t, 1, i - 1) <=> \A j \in 1 .. i - 1 : s[j] = t[j]
  <2>1. i - 1 \in Nat /\ i - 1 <= Len(s) /\ i - 1 <= Len(t)
    BY <1>1
  <2>2. QED
    BY <1>1, <2>1, SameStart
<1>3. QED
  BY <1>1, <1>2 DEF SegmentLess

LEMMA SegmentLessAsymmetric ==
    ASSUME NEW w \in Nat, NEW s \in Segments(w), NEW t \in Segments(w), SegmentLess(s, t)
    PROVE  ~SegmentLess(t, s) /\ s # t
<1>0. \A i \in 1 .. w : s[i] \in Nat /\ t[i] \in Nat
  BY DigitsAreNumbers DEF Segments
<1>1. PICK i \in 1 .. w : s[i] < t[i] /\ \A j \in 1 .. i - 1 : s[j] = t[j]
  BY SegmentOrder
<1>2. s # t
  BY <1>0, <1>1
<1>3. SUFFICES ASSUME SegmentLess(t, s) PROVE FALSE
  BY <1>2
<1>4. PICK k \in 1 .. w : t[k] < s[k] /\ \A j \in 1 .. k - 1 : t[j] = s[j]
  BY <1>3, SegmentOrder
<1>5. QED
  BY <1>0, <1>1, <1>4

(* Between a segment and its successor there is no other of that width. *)
LEMMA NothingBetween ==
    ASSUME NEW w \in Nat, NEW seg \in Segments(w), NEW s \in Segments(w),
           NEW t, IsSuccessor(t, seg, w)
    PROVE  (s = seg \/ SegmentLess(seg, s)) /\ SegmentLess(s, t) <=> s = seg
<1>0. \A i \in 1 .. w : seg[i] \in Nat /\ s[i] \in Nat /\ s[i] <= Radix - 1
  BY DigitsAreNumbers DEF Segments
<1>1. t \in Segments(w)
  BY DEF IsSuccessor, Segments
<1>2. PICK j \in 1 .. w :
          /\ seg[j] < Radix - 1 /\ t[j] = seg[j] + 1
          /\ \A i \in 1 .. j - 1 : t[i] = seg[i]
          /\ \A i \in j + 1 .. w : seg[i] = Radix - 1 /\ t[i] = 0
  BY DEF IsSuccessor
<1>3. SegmentLess(seg, t)
  <2>1. seg[j] < t[j]
    BY <1>0, <1>2
  <2>2. QED
    BY <1>1, <1>2, <2>1, SegmentOrder
<1>4. ASSUME SegmentLess(seg, s), SegmentLess(s, t) PROVE FALSE
  <2>1. PICK k \in 1 .. w : seg[k] < s[k] /\ \A i \in 1 .. k - 1 : seg[i] = s[i]
    BY <1>4, SegmentOrder
  <2>2. PICK i \in 1 .. w : s[i] < t[i] /\ \A l \in 1 .. i - 1 : s[l] = t[l]
    BY <1>1, <1>4, SegmentOrder
  <2>3. CASE k < j
    <3>1. t[k] = seg[k]
      BY <1>2, <2>3
    <3>2. i <= k
      BY <1>0, <2>1, <2>2, <3>1
    <3>3. t[i] = seg[i]
      BY <1>2, <2>3, <3>2
    <3>4. QED
      BY <1>0, <2>1, <2>2, <3>2, <3>3
  <2>4. CASE k = j
    <3>1. i >= j
      BY <1>0, <1>2, <2>1, <2>2, <2>4
    <3>2. s[j] >= t[j]
      BY <1>0, <1>2, <2>1, <2>4
    <3>3. i > j /\ t[i] = 0
      BY <1>0, <1>2, <2>2, <3>1, <3>2
    <3>4. QED
      BY <1>0, <2>2, <3>3
  <2>5. CASE k > j
    <3>1. seg[k] = Radix - 1
      BY <1>2, <2>5
    <3>2. QED
      BY <1>0, <2>1, <3>1, RadixAssumption
  <2>6. QED
    BY <2>3, <2>4, <2>5
<1>5. QED
  BY <1>3, <1>4

-----------------------------------------------------------------------------
(* Path keys: one segment for each level of the tree, of that level's       *)
(* width.                                                                   *)

TypeAt == <<"vendor", "customer", "site", "building", "floor", "zone">>

SegmentWidth(i) == Width[TypeAt[i]]

IsPathKey(pk) ==
    /\ pk \in Seq(Seq(Digits)) /\ Len(pk) \in Nat /\ Len(pk) >= 1 /\ Len(pk) <= 6
    /\ \A i \in 1 .. Len(pk) : pk[i] \in Segments(SegmentWidth(i))

(* Path key p is o or one below it. *)
Below(p, o) == Len(o) <= Len(p) /\ \A i \in 1 .. Len(o) : p[i] = o[i]

LEMMA SegmentWidths == ASSUME NEW i \in 1 .. 6 PROVE SegmentWidth(i) \in Nat \ {0}
BY WidthAssumption DEF SegmentWidth, TypeAt, OrgTypes

LEMMA PathKeyParts ==
    ASSUME NEW pk, IsPathKey(pk)
    PROVE  /\ pk \in Seq(Seq(Digits)) /\ Len(pk) \in Nat /\ Len(pk) >= 1 /\ Len(pk) <= 6
           /\ \A i \in 1 .. Len(pk) : /\ i \in 1 .. 6 /\ SegmentWidth(i) \in Nat \ {0}
                                      /\ pk[i] \in Segments(SegmentWidth(i))
<1>1. pk \in Seq(Seq(Digits)) /\ Len(pk) \in Nat /\ Len(pk) >= 1 /\ Len(pk) <= 6
  BY DEF IsPathKey
<1>2. ASSUME NEW i \in 1 .. Len(pk)
      PROVE  /\ i \in 1 .. 6 /\ SegmentWidth(i) \in Nat \ {0}
             /\ pk[i] \in Segments(SegmentWidth(i))
  <2>1. i \in 1 .. 6
    BY <1>1
  <2>2. pk[i] \in Segments(SegmentWidth(i))
    BY DEF IsPathKey
  <2>3. QED
    BY <2>1, <2>2, SegmentWidths
<1>3. QED
  BY <1>1, <1>2

LEMMA PathKeySame ==
    ASSUME NEW p, IsPathKey(p), NEW q, IsPathKey(q)
    PROVE  Len(p) = Len(q) /\ (\A i \in 1 .. Len(p) : p[i] = q[i]) <=> p = q
BY SeqEqual DEF IsPathKey

LEMMA PathKeyOrder ==
    ASSUME NEW p, IsPathKey(p), NEW q, IsPathKey(q)
    PROVE  PathKeyLess(p, q) <=>
               \E i \in 1 .. Len(q) :
                   /\ i <= Len(p) + 1 /\ \A j \in 1 .. i - 1 : p[j] = q[j]
                   /\ i <= Len(p) => SegmentLess(p[i], q[i])
<1>1. /\ p \in Seq(Seq(Digits)) /\ Len(p) \in Nat
      /\ q \in Seq(Seq(Digits)) /\ Len(q) \in Nat
  BY DEF IsPathKey
<1>2. ASSUME NEW i \in 1 .. Len(q), i <= Len(p) + 1
      PROVE  SubSeq(p, 1, i - 1) = SubSeq(q, 1, i - 1) <=> \A j \in 1 .. i - 1 : p[j] = q[j]
  <2>1. i - 1 \in Nat /\ i - 1 <= Len(p) /\ i - 1 <= Len(q)
    BY <1>1, <1>2
  <2>2. QED
    BY <1>1, <2>1, SameStart, SMTT(30)
<1>3. QED
  BY <1>1, <1>2 DEF PathKeyLess

(* The next sibling of a path key whose last segment is not the highest. *)
LEMMA NextSibling ==
    ASSUME NEW o, IsPathKey(o), ~AtTop(o)
    PROVE  LET next == CalculateNextSiblingPathKey(o)
               n == Len(o)
           IN  /\ IsPathKey(next) /\ Len(next) = n
               /\ \A i \in 1 .. n - 1 : next[i] = o[i]
               /\ IsSuccessor(next[n], o[n], SegmentWidth(n))
<1> DEFINE n == Len(o)
           w == SegmentWidth(n)
           next == CalculateNextSiblingPathKey(o)
           t == NextSegment(o[n])
<1>0. n \in Nat /\ n >= 1 /\ n <= 6 /\ o \in Seq(Seq(Digits)) /\ n \in 1 .. n
  BY PathKeyParts
<1>1. n \in Nat /\ n >= 1 /\ n <= 6 /\ w \in Nat \ {0} /\ o[n] \in Segments(w) /\ o \in Seq(Seq(Digits))
  BY <1>0, PathKeyParts
<1> HIDE DEF w
<1>2. DOMAIN o[n] = 1 .. w
  BY <1>1 DEF Segments
<1>3. PICK h \in 1 .. w : o[n][h] # Radix - 1
  BY <1>2 DEF AtTop, Last
<1>4. IsSuccessor(t, o[n], w)
  BY <1>1, <1>3, NextSegmentIsSuccessor DEF Segments
<1>5. t \in Segments(w) /\ t \in Seq(Digits)
  <2>1. t \in [1 .. w -> Digits]
    BY <1>4 DEF IsSuccessor
  <2> HIDE DEF t
  <2>2. QED
    BY <1>1, <2>1, SeqOfFun DEF Segments
<1>6. next = Append(SubSeq(o, 1, n - 1), t)
  <2>1. o # <<>>
    BY <1>0, EmptySeq
  <2>2. ~ \E i \in DOMAIN Last(o) : Last(o)[i] \notin 0 .. Radix - 1
    BY <1>1, <1>2 DEF Last, Segments, Digits
  <2>3. QED
    BY <2>1, <2>2 DEF CalculateNextSiblingPathKey, Front, Last
<1> HIDE DEF t
<1> DEFINE f == SubSeq(o, 1, n - 1)
<1>7. f \in Seq(Seq(Digits)) /\ Len(f) = n - 1 /\ \A i \in 1 .. n - 1 : f[i] = o[i]
  <2>1. n - 1 \in Nat /\ n - 1 <= Len(o)
    BY <1>0
  <2>2. QED
    BY <1>0, <2>1, StartOf
<1> HIDE DEF f
<1>8. /\ next \in Seq(Seq(Digits)) /\ Len(next) = n /\ next[n] = t
      /\ \A i \in 1 .. n - 1 : next[i] = o[i]
  <2>1. next = Append(f, t)
    BY <1>6 DEF f
  <2> HIDE DEF next
  <2>2. QED
    BY <1>1, <1>5, <1>7, <2>1
<1>9. IsPathKey(next)
  <2>1. ASSUME NEW i \in 1 .. n PROVE next[i] \in Segments(SegmentWidth(i))
    <3>1. CASE i = n
      BY <1>5, <1>8, <3>1 DEF w
    <3>2. CASE i # n
      <4>1. i \in 1 .. n - 1
        BY <1>0, <3>2
      <4>2. QED
        BY <1>8, <4>1, PathKeyParts
    <3>3. QED
      BY <3>1, <3>2
  <2> HIDE DEF next
  <2>2. QED
    BY <1>1, <1>8, <2>1 DEF IsPathKey
<1>10. QED
  BY <1>4, <1>8, <1>9 DEF w, t

(* A range query returns the path key and those below it. *)
LEMMA RangeSelects ==
    ASSUME NEW o, IsPathKey(o), NEW p, IsPathKey(p), ~AtTop(o)
    PROVE  (o = p \/ PathKeyLess(o, p)) /\ PathKeyLess(p, CalculateNextSiblingPathKey(o))
             <=> Below(p, o)
<1> DEFINE n == Len(o)
           next == CalculateNextSiblingPathKey(o)
<1>1. /\ IsPathKey(next) /\ Len(next) = n
      /\ \A i \in 1 .. n - 1 : next[i] = o[i]
      /\ IsSuccessor(next[n], o[n], SegmentWidth(n))
  BY NextSibling
<1> HIDE DEF next
<1>2. /\ n \in Nat /\ n >= 1 /\ n <= 6
      /\ Len(p) \in Nat /\ Len(p) >= 1 /\ Len(p) <= 6
  BY DEF IsPathKey
<1>3. ASSUME NEW i \in 1 .. 6, i <= n, i <= Len(p)
      PROVE  /\ SegmentWidth(i) \in Nat
             /\ o[i] \in Segments(SegmentWidth(i)) /\ p[i] \in Segments(SegmentWidth(i))
  <2>1. i \in 1 .. n /\ i \in 1 .. Len(p)
    BY <1>2, <1>3
  <2>2. QED
    BY <2>1, PathKeyParts
<1>4. ASSUME Below(p, o) PROVE (o = p \/ PathKeyLess(o, p)) /\ PathKeyLess(p, next)
  <2>1. n <= Len(p) /\ \A i \in 1 .. n : p[i] = o[i]
    BY <1>4 DEF Below
  <2>2. SegmentLess(p[n], next[n])
    <3>1. p[n] = o[n] /\ n <= n
      BY <1>2, <2>1
    <3>2. QED
      BY <1>1, <1>2, <1>3, <2>1, <3>1, NothingBetween, SMTT(30)
  <2>3. PathKeyLess(p, next)
    <3>1. \A j \in 1 .. n - 1 : p[j] = next[j]
      BY <1>1, <1>2, <2>1
    <3>2. n \in 1 .. Len(next) /\ n <= Len(p) + 1
      BY <1>1, <1>2, <2>1
    <3>3. QED
      BY <1>1, <2>2, <3>1, <3>2, PathKeyOrder
  <2>4. CASE Len(p) = n
    BY <2>1, <2>3, <2>4, PathKeySame
  <2>5. CASE Len(p) > n
    <3>1. n + 1 \in 1 .. Len(p) /\ ~(n + 1 <= Len(o)) /\ n + 1 <= Len(o) + 1
          /\ \A j \in 1 .. (n + 1) - 1 : o[j] = p[j]
      BY <1>2, <2>1, <2>5
    <3>2. PathKeyLess(o, p)
      BY <3>1, PathKeyOrder
    <3>3. QED
      BY <2>3, <3>2
  <2>6. QED
    BY <1>2, <2>1, <2>4, <2>5
<1>5. ASSUME o = p \/ PathKeyLess(o, p), PathKeyLess(p, next) PROVE Below(p, o)
  <2>1. CASE o = p
    BY <1>2, <2>1 DEF Below
  <2>2. CASE PathKeyLess(o, p)
    <3>1. PICK k \in 1 .. Len(p) :
              /\ k <= n + 1 /\ \A j \in 1 .. k - 1 : o[j] = p[j]
              /\ k <= n => SegmentLess(o[k], p[k])
      BY <2>2, PathKeyOrder
    <3>2. PICK i \in 1 .. n :
              /\ i <= Len(p) + 1 /\ \A j \in 1 .. i - 1 : p[j] = next[j]
              /\ i <= Len(p) => SegmentLess(p[i], next[i])
      BY <1>1, <1>5, PathKeyOrder
    <3>3. CASE k = n + 1
      BY <1>2, <3>1, <3>3 DEF Below
    <3>4. CASE k < n
      <4>0. k \in 1 .. 6 /\ k <= n /\ k <= Len(p) /\ k \in 1 .. n - 1
        BY <1>2, <3>4
      <4>1. next[k] = o[k] /\ o[k] # p[k] /\ ~SegmentLess(p[k], o[k])
        <5>1. SegmentLess(o[k], p[k])
          BY <3>1, <4>0
        <5>2. QED
          BY <1>1, <1>3, <4>0, <5>1, SegmentLessAsymmetric
      <4>2. i <= k
        BY <1>2, <3>2, <4>1
      <4>3. i # k
        BY <3>1, <3>2, <4>1
      <4>4. i < k /\ p[i] = o[i] /\ next[i] = o[i] /\ i <= Len(p) /\ i <= n
        BY <1>1, <1>2, <3>1, <3>4, <4>2, <4>3
      <4>5. SegmentLess(p[i], p[i])
        BY <3>2, <4>4
      <4>6. QED
        <5>1. i \in 1 .. 6
          BY <1>2
        <5>2. QED
          BY <1>3, <4>4, <4>5, <5>1, SegmentLessAsymmetric
    <3>5. CASE k = n
      <4>1. CASE i = n
        <5>1. n \in 1 .. 6 /\ n <= n /\ n <= Len(p)
          <6>1. n <= Len(p)
            BY <3>5
          <6> HIDE DEF n
          <6>2. QED
            BY <1>2, <6>1
        <5>2. SegmentLess(o[n], p[n]) /\ SegmentLess(p[n], next[n])
          BY <3>1, <3>2, <3>5, <4>1, <5>1
        <5>3. o[n] = p[n]
          BY <1>1, <1>3, <5>1, <5>2, NothingBetween
        <5>4. QED
          BY <1>3, <5>1, <5>2, <5>3, SegmentLessAsymmetric
      <4>2. CASE i < n
        <5>1. p[i] = o[i] /\ next[i] = o[i] /\ i <= Len(p) /\ i <= n
          BY <1>1, <1>2, <3>1, <3>5, <4>2
        <5>2. SegmentLess(p[i], p[i])
          BY <3>2, <5>1
        <5>3. i \in 1 .. 6
          BY <1>2
        <5>4. QED
          BY <1>3, <5>1, <5>2, <5>3, SegmentLessAsymmetric
      <4>3. QED
        BY <1>2, <4>1, <4>2
    <3>6. QED
      BY <1>2, <3>1, <3>3, <3>4, <3>5
  <2>3. QED
    BY <1>5, <2>1, <2>2
<1>6. QED
  BY <1>4, <1>5 DEF next

(* IsDescendantOrSelf and GetAncestorPaths say the same of two path keys. *)
LEMMA DescendantIsBelow ==
    ASSUME NEW o, IsPathKey(o), NEW p, IsPathKey(p)
    PROVE  IsDescendantOrSelf(p, o) <=> Below(p, o)
<1> DEFINE n == Len(o)
<1>1. /\ o \in Seq(Seq(Digits)) /\ n \in Nat /\ n >= 1
      /\ p \in Seq(Seq(Digits)) /\ Len(p) \in Nat
  BY PathKeyParts
<1>2. o # <<>>
  BY <1>1, EmptySeq
<1>3. ASSUME n <= Len(p) PROVE HasPrefix(p, o) <=> Below(p, o)
  <2>1. n \in 1 .. n /\ n \in 1 .. Len(p) /\ n - 1 \in Nat /\ n - 1 <= n /\ n - 1 <= Len(p)
    BY <1>1, <1>3
  <2>2. SubSeq(p, 1, n - 1) = SubSeq(o, 1, n - 1) <=> \A j \in 1 .. n - 1 : p[j] = o[j]
    BY <1>1, <2>1, SameStart, SMTT(30)
  <2> DEFINE w == SegmentWidth(n)
  <2>3. w \in Nat /\ o[n] \in [1 .. w -> Digits] /\ p[n] \in [1 .. w -> Digits]
    BY <2>1, PathKeyParts DEF Segments
  <2> HIDE DEF w
  <2>4. /\ o[n] \in Seq(Digits) /\ Len(o[n]) = w
        /\ p[n] \in Seq(Digits) /\ Len(p[n]) = w
    BY <2>3, SeqOfFun
  <2>5. IsPrefix(o[n], p[n]) <=> o[n] = p[n]
    <3>1. IsPrefix(o[n], p[n]) <=> \A j \in 1 .. w : o[n][j] = p[n][j]
      BY <2>3, <2>4, SameStart DEF IsPrefix
    <3>2. QED
      BY <2>3, <3>1
  <2>6. HasPrefix(p, o) <=> (\A j \in 1 .. n - 1 : p[j] = o[j]) /\ o[n] = p[n]
    BY <1>3, <2>2, <2>5 DEF HasPrefix
  <2>7. QED
    BY <1>1, <1>3, <2>6 DEF Below
<1>4. HasPrefix(p, o) => n <= Len(p)
  BY DEF HasPrefix
<1>5. Below(o, o)
  BY <1>1 DEF Below
<1>6. Below(p, o) => n <= Len(p)
  BY DEF Below
<1>7. QED
  BY <1>2, <1>3, <1>4, <1>5, <1>6 DEF IsDescendantOrSelf, IsDescendant

LEMMA StartIsBelow ==
    ASSUME NEW p, IsPathKey(p), NEW o, IsPathKey(o), NEW i \in 1 .. Len(p)
    PROVE  SubSeq(p, 1, i) = o <=> Len(o) = i /\ Below(p, o)
<1>1. /\ o \in Seq(Seq(Digits)) /\ Len(o) \in Nat
      /\ p \in Seq(Seq(Digits)) /\ Len(p) \in Nat /\ i \in Nat /\ i <= Len(p)
  BY PathKeyParts
<1>2. /\ SubSeq(p, 1, i) \in Seq(Seq(Digits)) /\ Len(SubSeq(p, 1, i)) = i
      /\ \A j \in 1 .. i : SubSeq(p, 1, i)[j] = p[j]
  BY <1>1, StartOf
<1>3. ASSUME SubSeq(p, 1, i) = o PROVE Len(o) = i /\ Below(p, o)
  BY <1>1, <1>2, <1>3 DEF Below
<1>4. ASSUME Len(o) = i, Below(p, o) PROVE SubSeq(p, 1, i) = o
  BY <1>1, <1>2, <1>4, SeqEqual DEF Below
<1>5. QED
  BY <1>3, <1>4

LEMMA AncestorIsBelow ==
    ASSUME NEW o, IsPathKey(o), NEW p, IsPathKey(p)
    PROVE  Contains(GetAncestorPaths(p), o) <=> Below(p, o) /\ o # p
<1> DEFINE A == GetAncestorPaths(p)
           m == Len(p) - 1
<1>1. /\ Len(p) \in Nat /\ Len(p) >= 1 /\ m \in Nat
      /\ Len(o) \in Nat /\ Len(o) >= 1
  BY PathKeyParts
<1>2. A = [i \in 1 .. m |-> SubSeq(p, 1, i)]
  BY DEF GetAncestorPaths
<1>3. Len(A) = m /\ \A i \in 1 .. m : A[i] = SubSeq(p, 1, i)
  <2>1. p \in Seq(Seq(Digits))
    BY PathKeyParts
  <2>2. \A i \in 1 .. m : SubSeq(p, 1, i) \in Seq(Seq(Digits))
    BY <1>1, <2>1, StartOf
  <2>3. A \in [1 .. m -> Seq(Seq(Digits))]
    BY <1>2, <2>2
  <2> HIDE DEF A, m
  <2>4. QED
    BY <1>1, <1>2, <2>3, SeqOfFun
<1>4. ASSUME NEW i \in 1 .. m, A[i] = o PROVE Below(p, o) /\ o # p
  <2>1. i \in 1 .. Len(p) /\ SubSeq(p, 1, i) = o
    BY <1>1, <1>3, <1>4
  <2>2. Len(o) = i /\ Below(p, o)
    BY <2>1, StartIsBelow
  <2>3. QED
    BY <1>1, <2>2
<1>5. ASSUME Below(p, o), o # p PROVE \E i \in 1 .. m : A[i] = o
  <2>1. Len(o) <= Len(p)
    BY <1>5 DEF Below
  <2>2. Len(o) # Len(p)
    BY <1>5, PathKeySame DEF Below
  <2>3. Len(o) \in 1 .. m /\ Len(o) \in 1 .. Len(p)
    BY <1>1, <2>1, <2>2
  <2>4. SubSeq(p, 1, Len(o)) = o
    BY <1>5, <2>3, StartIsBelow
  <2>5. QED
    BY <1>3, <2>3, <2>4
<1>6. QED
  BY <1>3, <1>4, <1>5 DEF Contains

-----------------------------------------------------------------------------
(* The tree. *)

PathKeyOf(o) == orgs[o].pathKey

(* Each stored organization is at the level of its type. *)
StoredInv ==
    /\ DOMAIN orgs \subseteq OrgIds
    /\ \A o \in DOMAIN orgs :
          /\ orgs[o].id = o /\ orgs[o].type \in OrgTypes
          /\ IsPathKey(PathKeyOf(o)) /\ orgs[o].type = TypeAt[Len(PathKeyOf(o))]

CoverageInv == coverage \subseteq {orgs[o] : o \in DOMAIN orgs}

(* No path key is given twice, and everything above a stored organization   *)
(* is stored.                                                               *)
UniqueInv == \A o, p \in DOMAIN orgs : PathKeyOf(o) = PathKeyOf(p) => o = p
ClosedInv ==
    \A p \in DOMAIN orgs : \A i \in 1 .. Len(PathKeyOf(p)) :
        \E o \in DOMAIN orgs : Len(PathKeyOf(o)) = i /\ Below(PathKeyOf(p), PathKeyOf(o))

(* The creations and the path keys describe one tree. *)
LineageInv ==
    /\ DOMAIN lineage = DOMAIN orgs
    /\ \A p \in DOMAIN orgs :
          lineage[p] = {o \in DOMAIN orgs : Below(PathKeyOf(p), PathKeyOf(o))}

TreeInv == StoredInv /\ CoverageInv /\ UniqueInv /\ ClosedInv /\ LineageInv

(* The parent the middleware accepts is stored, and the child's type is     *)
(* that of the next level.                                                  *)
LEMMA AcceptedParent ==
    ASSUME StoredInv, CoverageInv, NEW type \in OrgTypes, NEW parentOrgId, NEW locals,
           ValidateOrgHierarchy(type, parentOrgId, locals, coverage) = "next"
    PROVE  IF parentOrgId = NoParent THEN type = TypeAt[1]
           ELSE /\ parentOrgId \in DOMAIN orgs
                /\ Len(PathKeyOf(parentOrgId)) < 6
                /\ type = TypeAt[Len(PathKeyOf(parentOrgId)) + 1]
<1>1. CASE parentOrgId = NoParent
  BY <1>1 DEF ValidateOrgHierarchy, TypeAt
<1>2. CASE parentOrgId # NoParent
  <2> DEFINE parent == FindOrgInCoverage(parentOrgId, coverage)
  <2>1. /\ parent # NoOrgData
        /\ parent.type # "zone" /\ parent.type \in DOMAIN ValidChildTypes
        /\ type = ValidChildTypes[parent.type]
    BY <1>2 DEF ValidateOrgHierarchy
  <2>2. PICK c \in coverage : c.id = parentOrgId /\ parent = c
    BY <2>1 DEF FindOrgInCoverage
  <2>3. PICK o \in DOMAIN orgs : c = orgs[o]
    BY DEF CoverageInv
  <2>4. o = parentOrgId /\ parent = orgs[parentOrgId]
    BY <2>2, <2>3 DEF StoredInv
  <2> DEFINE n == Len(PathKeyOf(parentOrgId))
  <2>5. n \in Nat /\ n >= 1 /\ n <= 6 /\ parent.type = TypeAt[n]
    BY <2>3, <2>4, PathKeyParts DEF StoredInv
  <2> HIDE DEF n, parent
  <2>6. n # 6
    BY <2>1, <2>5 DEF TypeAt
  <2>7. n = 1 \/ n = 2 \/ n = 3 \/ n = 4 \/ n = 5
    BY <2>5, <2>6
  <2>8. ValidChildTypes[TypeAt[n]] = TypeAt[n + 1]
    BY <2>7 DEF ValidChildTypes, TypeAt
  <2>9. n < 6 /\ type = TypeAt[n + 1]
    BY <2>1, <2>5, <2>6, <2>8
  <2>10. QED
    BY <1>2, <2>3, <2>4, <2>9 DEF n
<1>3. QED
  BY <1>1, <1>2

(* The path key of a new organization. *)
LEMMA NewPathKey ==
    ASSUME StoredInv, CoverageInv, NEW type \in OrgTypes, NEW parentOrgId, NEW locals,
           ValidateOrgHierarchy(type, parentOrgId, locals, coverage) = "next",
           NEW pk \in FreePathKeys(type, parentOrgId)
    PROVE  /\ IsPathKey(pk) /\ type = TypeAt[Len(pk)]
           /\ \A o \in DOMAIN orgs : pk # PathKeyOf(o)
           /\ parentOrgId = NoParent => Len(pk) = 1
           /\ parentOrgId # NoParent =>
                 /\ parentOrgId \in DOMAIN orgs
                 /\ Len(pk) = Len(PathKeyOf(parentOrgId)) + 1
                 /\ Below(pk, PathKeyOf(parentOrgId))
<1> DEFINE above == IF parentOrgId = NoParent THEN <<>> ELSE PathKeyOf(parentOrgId)
           n == Len(above)
<1>1. PICK seg \in [1 .. Width[type] -> 0 .. Radix - 1] : pk = Append(above, seg)
  BY DEF FreePathKeys, PathKeyOf
<1>2. \A o \in DOMAIN orgs : pk # PathKeyOf(o)
  BY DEF FreePathKeys, PathKeyOf
<1>3. /\ above \in Seq(Seq(Digits)) /\ n \in Nat /\ n < 6 /\ type = TypeAt[n + 1]
      /\ \A i \in 1 .. n : above[i] \in Segments(SegmentWidth(i))
  <2>1. CASE parentOrgId = NoParent
    <3>1. above = <<>> /\ n = 0
      BY <2>1
    <3>2. QED
      BY <2>1, <3>1, AcceptedParent
  <2>2. CASE parentOrgId # NoParent
    <3>1. above = PathKeyOf(parentOrgId) /\ parentOrgId \in DOMAIN orgs
      BY <2>2, AcceptedParent
    <3>2. IsPathKey(above)
      BY <3>1 DEF StoredInv
    <3>3. n < 6 /\ type = TypeAt[n + 1]
      BY <2>2, <3>1, AcceptedParent
    <3> HIDE DEF above
    <3>4. QED
      BY <3>2, <3>3, PathKeyParts
  <2>3. QED
    BY <2>1, <2>2
<1>4. seg \in Segments(SegmentWidth(n + 1)) /\ seg \in Seq(Digits)
  <2>1. seg \in Segments(SegmentWidth(n + 1))
    BY <1>3 DEF SegmentWidth, Segments, Digits
  <2>2. Width[type] \in Nat
    BY WidthAssumption
  <2>3. QED
    BY <2>1, <2>2, SeqOfFun DEF Digits
<1>5. /\ pk \in Seq(Seq(Digits)) /\ Len(pk) = n + 1 /\ pk[n + 1] = seg
      /\ \A i \in 1 .. n : pk[i] = above[i]
  <2> HIDE DEF above
  <2>1. QED
    BY <1>1, <1>3, <1>4
<1>6. IsPathKey(pk)
  <2>1. ASSUME NEW i \in 1 .. Len(pk) PROVE pk[i] \in Segments(SegmentWidth(i))
    <3>1. i = n + 1 \/ i \in 1 .. n
      BY <1>3, <1>5
    <3>2. QED
      BY <1>3, <1>4, <1>5, <3>1
  <2> HIDE DEF n
  <2>2. QED
    BY <1>3, <1>5, <2>1 DEF IsPathKey
<1>7. ASSUME parentOrgId = NoParent PROVE Len(pk) = 1
  <2>1. n = 0
    BY <1>7
  <2>2. QED
    BY <1>5, <2>1
<1>8. ASSUME parentOrgId # NoParent
      PROVE  /\ parentOrgId \in DOMAIN orgs /\ Len(pk) = Len(PathKeyOf(parentOrgId)) + 1
             /\ Below(pk, PathKeyOf(parentOrgId))
  <2>1. parentOrgId \in DOMAIN orgs
    BY <1>8, AcceptedParent
  <2>2. above = PathKeyOf(parentOrgId)
    BY <1>8
  <2> HIDE DEF above
  <2>3. QED
    BY <1>3, <1>5, <2>1, <2>2 DEF Below
<1>9. QED
  <2>1. type = TypeAt[Len(pk)]
    BY <1>3, <1>5
  <2>2. QED
    BY <1>2, <1>6, <1>7, <1>8, <2>1

LEMMA BelowTransitive ==
    ASSUME NEW p, IsPathKey(p), NEW o, IsPathKey(o), NEW a, IsPathKey(a), Below(p, o), Below(o, a)
    PROVE  Below(p, a)
<1>1. Len(p) \in Nat /\ Len(o) \in Nat /\ Len(a) \in Nat
  BY PathKeyParts
<1>2. QED
  BY <1>1 DEF Below

(* Two path keys of one length above the same one are equal. *)
LEMMA OneAtEachLevel ==
    ASSUME NEW p, IsPathKey(p), NEW o, IsPathKey(o), NEW a, IsPathKey(a),
           Below(p, o), Below(p, a), Len(o) = Len(a)
    PROVE  o = a
<1>1. \A i \in 1 .. Len(o) : o[i] = a[i]
  BY DEF Below
<1>2. QED
  BY <1>1, PathKeySame

(* A creation extends the tree by a leaf. *)
LEMMA CreateTree ==
    ASSUME TreeInv, NEW id \in OrgIds, NEW type \in OrgTypes,
           NEW parentOrgId \in OrgIds \cup {NoParent}, NEW locals \in Locals,
           CreateOrganization(id, type, parentOrgId, locals)
    PROVE  TreeInv'
<1>1. id \notin DOMAIN orgs /\ ValidateOrgHierarchy(type, parentOrgId, locals, coverage) = "next"
  BY DEF CreateOrganization
<1>2. PICK pk \in FreePathKeys(type, parentOrgId) :
          orgs' = [o \in DOMAIN orgs \cup {id} |->
                      IF o = id THEN CoverageOrg(id, type, pk) ELSE orgs[o]]
  BY DEF CreateOrganization
<1>3. /\ IsPathKey(pk) /\ type = TypeAt[Len(pk)]
      /\ \A o \in DOMAIN orgs : pk # PathKeyOf(o)
      /\ parentOrgId = NoParent => Len(pk) = 1
      /\ parentOrgId # NoParent =>
            /\ parentOrgId \in DOMAIN orgs
            /\ Len(pk) = Len(PathKeyOf(parentOrgId)) + 1
            /\ Below(pk, PathKeyOf(parentOrgId))
  BY <1>1, NewPathKey DEF TreeInv
<1> DEFINE D == DOMAIN orgs
           K(o) == IF o = id THEN pk ELSE PathKeyOf(o)
<1>4. /\ DOMAIN orgs' = D \cup {id}
      /\ \A o \in D : o # id /\ orgs'[o] = orgs[o] /\ PathKeyOf(o)' = PathKeyOf(o)
      /\ orgs'[id] = CoverageOrg(id, type, pk) /\ PathKeyOf(id)' = pk
  BY <1>1, <1>2 DEF PathKeyOf, CoverageOrg
<1>5. \A o \in D : IsPathKey(PathKeyOf(o))
  BY DEF TreeInv, StoredInv
<1>6. Len(pk) \in Nat /\ Len(pk) >= 1
      /\ \A o \in D : Len(PathKeyOf(o)) \in Nat /\ Len(PathKeyOf(o)) >= 1
  BY <1>3, <1>5, PathKeyParts
<1>7. ASSUME NEW p \in D PROVE ~Below(PathKeyOf(p), pk)
  <2>1. SUFFICES ASSUME Below(PathKeyOf(p), pk) PROVE FALSE
    OBVIOUS
  <2>2. Len(pk) \in 1 .. Len(PathKeyOf(p))
    BY <1>6, <2>1 DEF Below
  <2>3. PICK o \in D : Len(PathKeyOf(o)) = Len(pk) /\ Below(PathKeyOf(p), PathKeyOf(o))
    BY <2>2 DEF TreeInv, ClosedInv
  <2>4. PathKeyOf(o) = pk
    BY <1>3, <1>5, <2>1, <2>3, OneAtEachLevel
  <2>5. QED
    BY <1>3, <2>4
<1>8. ASSUME NEW o \in D, Below(pk, PathKeyOf(o))
      PROVE  parentOrgId # NoParent /\ Below(PathKeyOf(parentOrgId), PathKeyOf(o))
  <2>1. Len(PathKeyOf(o)) # Len(pk)
    <3>1. Below(pk, pk)
      BY <1>6 DEF Below
    <3>2. QED
      BY <1>3, <1>5, <1>8, <3>1, OneAtEachLevel
  <2>2. Len(PathKeyOf(o)) < Len(pk)
    BY <1>6, <1>8, <2>1 DEF Below
  <2>3. parentOrgId # NoParent
    <3> DEFINE n == Len(pk)
               k == Len(PathKeyOf(o))
    <3>1. n \in Nat /\ k \in Nat /\ k >= 1 /\ k < n
      BY <1>6, <2>2
    <3>2. parentOrgId = NoParent => n = 1
      BY <1>3
    <3> HIDE DEF n, k
    <3>3. QED
      BY <3>1, <3>2
  <2>4. QED
    BY <1>3, <1>6, <1>8, <2>2, <2>3 DEF Below
<1>9. StoredInv'
  <2>1. ASSUME NEW o \in D \cup {id}
        PROVE  /\ orgs'[o].id = o /\ orgs'[o].type \in OrgTypes
               /\ IsPathKey(PathKeyOf(o)') /\ orgs'[o].type = TypeAt[Len(PathKeyOf(o)')]
    <3>1. CASE o = id
      BY <1>3, <1>4, <3>1 DEF CoverageOrg
    <3>2. CASE o \in D
      BY <1>4, <3>2 DEF TreeInv, StoredInv
    <3>3. QED
      BY <3>1, <3>2
  <2>2. DOMAIN orgs' \subseteq OrgIds
    BY <1>4 DEF TreeInv, StoredInv
  <2>3. QED
    BY <1>4, <2>1, <2>2 DEF StoredInv, IsPathKey
<1>10. CoverageInv'
  <2>1. coverage' = coverage
    BY DEF CreateOrganization
  <2>2. ASSUME NEW c \in coverage PROVE \E o \in DOMAIN orgs' : c = orgs'[o]
    <3>1. PICK o \in D : c = orgs[o]
      BY DEF TreeInv, CoverageInv
    <3>2. QED
      BY <1>4, <3>1
  <2>3. QED
    BY <2>1, <2>2 DEF CoverageInv
<1>11. UniqueInv'
  BY <1>3, <1>4 DEF TreeInv, UniqueInv
<1>12. ClosedInv'
  <2>1. SUFFICES ASSUME NEW p \in D \cup {id}, NEW i \in 1 .. Len(PathKeyOf(p)')
                 PROVE  \E o \in D \cup {id} :
                            Len(PathKeyOf(o)') = i /\ Below(PathKeyOf(p)', PathKeyOf(o)')
    BY <1>4 DEF ClosedInv, Below
  <2>2. CASE p \in D
    <3>1. i \in 1 .. Len(PathKeyOf(p))
      BY <1>4, <2>2
    <3>2. PICK o \in D : Len(PathKeyOf(o)) = i /\ Below(PathKeyOf(p), PathKeyOf(o))
      BY <2>2, <3>1 DEF TreeInv, ClosedInv
    <3>3. QED
      BY <1>4, <2>2, <3>2
  <2>3. CASE p = id /\ i = Len(pk)
    <3>1. Below(pk, pk)
      BY <1>6 DEF Below
    <3>2. QED
      BY <1>4, <2>3, <3>1
  <2>4. CASE p = id /\ i # Len(pk)
    <3>1. i \in 1 .. Len(pk) /\ i # Len(pk)
      BY <1>4, <2>4
    <3>2. parentOrgId # NoParent
      <4>1. Len(pk) > 1
        BY <1>6, <3>1
      <4>2. Len(pk) # 1
        BY <1>6, <4>1
      <4>3. QED
        BY <1>3, <4>2
    <3>3. parentOrgId \in D /\ i \in 1 .. Len(PathKeyOf(parentOrgId))
      BY <1>3, <1>6, <3>1, <3>2
    <3>4. PICK o \in D : Len(PathKeyOf(o)) = i /\ Below(PathKeyOf(parentOrgId), PathKeyOf(o))
      BY <3>3 DEF TreeInv, ClosedInv
    <3>5. Below(pk, PathKeyOf(o))
      BY <1>3, <1>5, <3>2, <3>3, <3>4, BelowTransitive
    <3>6. QED
      BY <1>4, <2>4, <3>4, <3>5
  <2>5. QED
    BY <2>2, <2>3, <2>4
<1>13. LineageInv'
  <2>1. lineage' = [o \in D \cup {id} |->
                      IF o # id THEN lineage[o]
                      ELSE {id} \cup (IF parentOrgId = NoParent THEN {} ELSE lineage[parentOrgId])]
    BY DEF CreateOrganization
  <2>2. ASSUME NEW p \in D
        PROVE  lineage'[p] = {o \in D \cup {id} : Below(PathKeyOf(p)', PathKeyOf(o)')}
    <3>1. lineage'[p] = {o \in D : Below(PathKeyOf(p), PathKeyOf(o))}
      BY <1>4, <2>1 DEF TreeInv, LineageInv
    <3>2. ~Below(PathKeyOf(p)', PathKeyOf(id)')
      BY <1>4, <1>7
    <3>3. \A o \in D : Below(PathKeyOf(p)', PathKeyOf(o)') <=> Below(PathKeyOf(p), PathKeyOf(o))
      BY <1>4
    <3>4. QED
      BY <3>1, <3>2, <3>3
  <2>3. lineage'[id] = {o \in D \cup {id} : Below(PathKeyOf(id)', PathKeyOf(o)')}
    <3>1. Below(PathKeyOf(id)', PathKeyOf(id)')
      BY <1>4, <1>6 DEF Below
    <3>2. ASSUME NEW o \in D
          PROVE  Below(PathKeyOf(id)', PathKeyOf(o)') <=>
                     parentOrgId # NoParent /\ o \in lineage[parentOrgId]
      <4>1. Below(PathKeyOf(id)', PathKeyOf(o)') <=> Below(pk, PathKeyOf(o))
        BY <1>4
      <4>2. ASSUME parentOrgId # NoParent
            PROVE  o \in lineage[parentOrgId] <=> Below(PathKeyOf(parentOrgId), PathKeyOf(o))
        BY <1>3, <4>2 DEF TreeInv, LineageInv
      <4>3. ASSUME parentOrgId # NoParent, Below(PathKeyOf(parentOrgId), PathKeyOf(o))
            PROVE  Below(pk, PathKeyOf(o))
        BY <1>3, <1>5, <4>3, BelowTransitive
      <4>4. QED
        BY <1>8, <4>1, <4>2, <4>3
    <3>3. parentOrgId # NoParent => lineage[parentOrgId] \subseteq D
      BY <1>3 DEF TreeInv, LineageInv
    <3>4. lineage'[id] = {id} \cup (IF parentOrgId = NoParent THEN {} ELSE lineage[parentOrgId])
      BY <2>1
    <3>5. QED
      BY <3>1, <3>2, <3>3, <3>4
  <2>4. QED
    <3>1. DOMAIN lineage' = DOMAIN orgs'
      BY <1>4, <2>1
    <3>2. \A p \in D \cup {id} :
              lineage'[p] = {o \in D \cup {id} : Below(PathKeyOf(p)', PathKeyOf(o)')}
      BY <2>2, <2>3
    <3>3. QED
      BY <1>4, <3>1, <3>2 DEF LineageInv, Below
<1>14. QED
  BY <1>9, <1>10, <1>11, <1>12, <1>13 DEF TreeInv

(* Refreshing the coverage leaves the tree as it is. *)
LEMMA RefreshTree ==
    ASSUME TreeInv, NEW o \in DOMAIN orgs, RefreshCoverage(o)
    PROVE  TreeInv'
<1>1. orgs' = orgs /\ lineage' = lineage
  BY DEF RefreshCoverage
<1>2. coverage' \subseteq {orgs[p] : p \in DOMAIN orgs}
  BY DEF RefreshCoverage
<1>3. StoredInv' /\ UniqueInv' /\ ClosedInv' /\ LineageInv'
  BY <1>1 DEF TreeInv, StoredInv, UniqueInv, ClosedInv, LineageInv, PathKeyOf, Below, IsPathKey
<1>4. CoverageInv'
  BY <1>1, <1>2 DEF CoverageInv
<1>5. QED
  BY <1>3, <1>4 DEF TreeInv

LEMMA TreeInductive == TreeSpec => []TreeInv
<1>1. TreeInit => TreeInv
  BY DEF TreeInit, TreeInv, StoredInv, CoverageInv, UniqueInv, ClosedInv, LineageInv
<1>2. TreeInv /\ [TreeNext]_treeVars => TreeInv'
  <2>1. SUFFICES ASSUME TreeInv, [TreeNext]_treeVars PROVE TreeInv'
    OBVIOUS
  <2>2. CASE UNCHANGED treeVars
    <3>1. orgs' = orgs /\ coverage' = coverage /\ lineage' = lineage
      BY <2>2 DEF treeVars
    <3>2. StoredInv' /\ UniqueInv'
      BY <2>1, <3>1 DEF TreeInv, StoredInv, UniqueInv, PathKeyOf, IsPathKey
    <3>3. ClosedInv' /\ LineageInv'
      BY <2>1, <3>1 DEF TreeInv, ClosedInv, LineageInv, PathKeyOf, Below
    <3>4. CoverageInv'
      BY <2>1, <3>1 DEF TreeInv, CoverageInv
    <3>5. QED
      BY <3>2, <3>3, <3>4 DEF TreeInv
  <2>3. CASE TreeNext
    <3>1. ASSUME NEW id \in OrgIds, NEW type \in OrgTypes \cup {NoDTO},
                 NEW parentOrgId \in OrgIds \cup {NoParent}, NEW locals \in Locals,
                 CreateOrganization(id, type, parentOrgId, locals)
          PROVE  TreeInv'
      <4>1. type \in OrgTypes
        BY <3>1 DEF CreateOrganization, ValidateOrgHierarchy
      <4>2. QED
        BY <2>1, <3>1, <4>1, CreateTree
    <3>2. QED
      BY <2>1, <2>3, <3>1, RefreshTree DEF TreeNext
  <2>4. QED
    BY <2>1, <2>2, <2>3
<1>3. QED
  BY <1>1, <1>2, PTL DEF TreeSpec

(* In every reachable tree, whatever the order of the creations and however *)
(* old the coverage they were validated against, the depth of a path key    *)
(* gives the type orgfilter expects (orgfilter.go, orghierarchy).           *)
THEOREM DepthAndTypeAgree == TreeSpec => []DepthMatchesType
<1>1. TreeInv => DepthMatchesType
  <2>1. SUFFICES ASSUME TreeInv, NEW o \in DOMAIN orgs
                 PROVE  LET byDepth == GetOrgTypeFromPathKey(PathKeyOf(o))
                        IN  IF orgs[o].type \in {"vendor", "customer", "site"}
                            THEN byDepth = orgs[o].type ELSE byDepth = "other"
    BY DEF DepthMatchesType, PathKeyOf
  <2> DEFINE n == Len(PathKeyOf(o))
  <2>2. n \in Nat /\ n >= 1 /\ n <= 6 /\ orgs[o].type = TypeAt[n]
    BY <2>1, PathKeyParts DEF TreeInv, StoredInv
  <2>3. GetOrgTypeFromPathKey(PathKeyOf(o)) =
            CASE n = 0 -> "unknown" [] n = 1 -> "vendor" [] n = 2 -> "customer"
              [] n = 3 -> "site" [] OTHER -> "other"
    BY DEF GetOrgTypeFromPathKey
  <2> HIDE DEF n
  <2>4. n = 1 \/ n = 2 \/ n = 3 \/ n = 4 \/ n = 5 \/ n = 6
    BY <2>2
  <2>5. QED
    BY <2>2, <2>3, <2>4 DEF TypeAt
<1>2. QED
  BY <1>1, TreeInductive, PTL

(* What a filter with the children of organization o selects. *)
LEMMA RangeOfOrg ==
    ASSUME TreeInv, NEW o \in DOMAIN orgs, NEW p \in DOMAIN orgs, ~AtTop(PathKeyOf(o))
    PROVE  Selects(RangeFilter(ContextOf(o)), orgs[p]) <=> Below(PathKeyOf(p), PathKeyOf(o))
<1> DEFINE pk == PathKeyOf(o)
           high == CalculateNextSiblingPathKey(pk)
<1>1. IsPathKey(pk) /\ IsPathKey(PathKeyOf(p)) /\ orgs[o].id = o /\ o \in OrgIds
  BY DEF TreeInv, StoredInv
<1>2. ContextOf(o).orgContextData = orgs[o]
  BY DEF ContextOf, RequestContext
<1>3. orgs[o] # NoOrgData
  BY <1>1, IdAssumption DEF NoOrgData, CoverageOrg
<1>4. pk # <<>>
  BY <1>1, PathKeyParts, EmptySeq
<1>5. RangeFilter(ContextOf(o)) = Filter("range", pk, high, {})
  BY <1>2, <1>3, <1>4 DEF RangeFilter, PathKeyOf
<1> HIDE DEF high, pk
<1>6. Selects(Filter("range", pk, high, {}), orgs[p]) <=>
          (pk = PathKeyOf(p) \/ PathKeyLess(pk, PathKeyOf(p))) /\ PathKeyLess(PathKeyOf(p), high)
  BY DEF Selects, Filter, PathKeyOf
<1>7. QED
  BY <1>1, <1>5, <1>6, RangeSelects DEF high, pk

(* In every reachable tree a path key range query, of MongoDB or of         *)
(* ClickHouse, returns the organization and everything created below it and *)
(* nothing else, unless its segment is the highest of its width, and the    *)
(* helpers of pathkey.go agree with it (pathkey.go, orgfilter.go).          *)
THEOREM RangesAreSubtrees == TreeSpec => []RangeIsSubtree
<1>1. TreeInv => RangeIsSubtree
  <2>1. SUFFICES ASSUME TreeInv, NEW o \in DOMAIN orgs, NEW p \in DOMAIN orgs
                 PROVE  LET below == o \in lineage[p]
                        IN  /\ IsDescendantOrSelf(PathKeyOf(p), PathKeyOf(o)) <=> below
                            /\ Contains(GetAncestorPaths(PathKeyOf(p)), PathKeyOf(o)) <=>
                                  below /\ o # p
                            /\ ~AtTop(PathKeyOf(o)) =>
                                  /\ Selects(BuildOrgFilter(ContextOf(o), TRUE), orgs[p]) <=> below
                                  /\ Selects(BuildOrgFilterClickHouse(ContextOf(o), TRUE), orgs[p])
                                        <=> below
    BY DEF RangeIsSubtree, PathKeyOf
  <2>2. o \in lineage[p] <=> Below(PathKeyOf(p), PathKeyOf(o))
    BY <2>1 DEF TreeInv, LineageInv
  <2>3. IsPathKey(PathKeyOf(o)) /\ IsPathKey(PathKeyOf(p)) /\ o # NoOrg
    BY <2>1, IdAssumption DEF TreeInv, StoredInv
  <2>4. PathKeyOf(o) = PathKeyOf(p) <=> o = p
    BY <2>1 DEF TreeInv, UniqueInv
  <2>5. ContextOf(o).orgContext = o
    BY DEF ContextOf, RequestContext
  <2>6. /\ BuildOrgFilter(ContextOf(o), TRUE) = RangeFilter(ContextOf(o))
        /\ BuildOrgFilterClickHouse(ContextOf(o), TRUE) = RangeFilter(ContextOf(o))
    BY <2>3, <2>5 DEF BuildOrgFilter, BuildOrgFilterClickHouse
  <2>7. QED
    BY <2>1, <2>2, <2>3, <2>4, <2>6, DescendantIsBelow, AncestorIsBelow, RangeOfOrg
<1>2. QED
  BY <1>1, TreeInductive, PTL

(* The path keys at or above a stored organization's are those of its       *)
(* lineage.                                                                 *)
LEMMA AncestorsStored ==
    ASSUME TreeInv, NEW o \in DOMAIN orgs
    PROVE  ToSet(GetAncestorPathKeysIncludingSelf(PathKeyOf(o))) = {PathKeyOf(a) : a \in lineage[o]}
<1> DEFINE pk == PathKeyOf(o)
           A == GetAncestorPathKeysIncludingSelf(pk)
<1>1. \A a \in DOMAIN orgs : IsPathKey(PathKeyOf(a)) /\ Len(PathKeyOf(a)) \in Nat
                             /\ Len(PathKeyOf(a)) >= 1
  BY PathKeyParts DEF TreeInv, StoredInv
<1>2. ToSet(A) = {SubSeq(pk, 1, i) : i \in 1 .. Len(pk)}
  BY DEF ToSet, GetAncestorPathKeysIncludingSelf
<1>3. lineage[o] = {a \in DOMAIN orgs : Below(pk, PathKeyOf(a))}
  BY DEF TreeInv, LineageInv
<1>4. ASSUME NEW i \in 1 .. Len(pk) PROVE \E a \in lineage[o] : SubSeq(pk, 1, i) = PathKeyOf(a)
  <2>1. PICK a \in DOMAIN orgs : Len(PathKeyOf(a)) = i /\ Below(pk, PathKeyOf(a))
    BY DEF TreeInv, ClosedInv
  <2>2. SubSeq(pk, 1, i) = PathKeyOf(a)
    BY <1>1, <2>1, StartIsBelow
  <2>3. QED
    BY <1>3, <2>1, <2>2
<1>5. ASSUME NEW a \in lineage[o]
      PROVE  \E i \in 1 .. Len(pk) : SubSeq(pk, 1, i) = PathKeyOf(a)
  <2>1. a \in DOMAIN orgs /\ Below(pk, PathKeyOf(a))
    BY <1>3
  <2>2. Len(PathKeyOf(a)) \in 1 .. Len(pk)
    BY <1>1, <2>1 DEF Below
  <2>3. SubSeq(pk, 1, Len(PathKeyOf(a))) = PathKeyOf(a)
    BY <1>1, <2>1, <2>2, StartIsBelow
  <2>4. QED
    BY <2>2, <2>3
<1>6. QED
  BY <1>2, <1>4, <1>5

(* In every reachable tree an organization sees the templates of exactly    *)
(* the organizations at or above it that may create templates               *)
(* (orgfilter.go, BuildTemplateAncestorFilter).                             *)
THEOREM TemplatesSeen == TreeSpec => []TemplatesVisible
<1>1. TreeInv => TemplatesVisible
  <2>1. SUFFICES ASSUME TreeInv, NEW o \in DOMAIN orgs
                 PROVE  BuildTemplateAncestorFilter(ContextOf(o))
                          = {PathKeyOf(a) : a \in {b \in lineage[o] :
                                                      ValidateTemplateCreation(PathKeyOf(b))}}
    BY DEF TemplatesVisible, PathKeyOf
  <2> DEFINE pk == PathKeyOf(o)
             Up == {PathKeyOf(a) : a \in lineage[o]}
             Type(a) == GetOrgTypeFromPathKey(a)
             May(a) == Type(a) \in {"vendor", "customer"}
  <2>2. lineage[o] = {a \in DOMAIN orgs : Below(pk, PathKeyOf(a))}
    BY <2>1 DEF TreeInv, LineageInv
  <2>3. \A a \in DOMAIN orgs : IsPathKey(PathKeyOf(a)) /\ Len(PathKeyOf(a)) \in Nat
                               /\ Len(PathKeyOf(a)) >= 1
    BY <2>1, PathKeyParts DEF TreeInv, StoredInv
  <2>4. \A a \in lineage[o] : a \in DOMAIN orgs /\ Len(PathKeyOf(a)) <= Len(pk)
    BY <2>2 DEF Below
  <2>5. o \in lineage[o]
    BY <2>2, <2>3 DEF Below
  <2>6. {PathKeyOf(a) : a \in {b \in lineage[o] : ValidateTemplateCreation(PathKeyOf(b))}}
          = {a \in Up : May(a)}
    BY DEF ValidateTemplateCreation, CanCreateTemplate
  <2>7. BuildTemplateAncestorFilter(ContextOf(o)) =
            CASE Type(pk) = "unknown" -> {}
              [] Type(pk) = "vendor" -> {pk}
              [] Type(pk) = "customer" -> Up
              [] OTHER -> {a \in Up : May(a)}
    <3>1. ContextOf(o).orgContextData.pathKey = pk
      BY DEF ContextOf, RequestContext, PathKeyOf
    <3>2. QED
      BY <2>1, <3>1, AncestorsStored DEF BuildTemplateAncestorFilter
  <2>8. CASE Len(pk) = 1
    <3>1. Type(pk) = "vendor"
      BY <2>8 DEF GetOrgTypeFromPathKey
    <3>2. ASSUME NEW a \in lineage[o] PROVE PathKeyOf(a) = pk
      <4>1. Len(PathKeyOf(a)) = Len(pk) /\ Below(pk, PathKeyOf(a)) /\ Below(pk, pk)
        BY <2>2, <2>3, <2>4, <2>5, <2>8
      <4>2. QED
        BY <2>3, <2>4, <4>1, OneAtEachLevel
    <3>3. {a \in Up : May(a)} = {pk}
      BY <2>5, <3>1, <3>2
    <3>4. QED
      BY <2>6, <2>7, <3>1, <3>3
  <2>9. CASE Len(pk) = 2
    <3>1. Type(pk) = "customer"
      BY <2>9 DEF GetOrgTypeFromPathKey
    <3>2. ASSUME NEW a \in lineage[o] PROVE May(PathKeyOf(a))
      <4>1. Len(PathKeyOf(a)) = 1 \/ Len(PathKeyOf(a)) = 2
        <5> DEFINE k == Len(PathKeyOf(a))
        <5>1. k \in Nat /\ k >= 1 /\ k <= 2
          BY <2>3, <2>4, <2>9
        <5> HIDE DEF k
        <5>2. k = 1 \/ k = 2
          BY <5>1
        <5>3. QED
          BY <5>2 DEF k
      <4>2. QED
        BY <4>1, SMTT(30) DEF GetOrgTypeFromPathKey
    <3>3. {a \in Up : May(a)} = Up
      BY <3>2
    <3>4. QED
      BY <2>6, <2>7, <3>1, <3>3
  <2>10. CASE Len(pk) > 2
    <3>1. Type(pk) \in {"site", "other"}
      <4> DEFINE n == Len(pk)
      <4>1. n \in Nat /\ n > 2
        BY <2>3, <2>10
      <4>2. Type(pk) = CASE n = 0 -> "unknown" [] n = 1 -> "vendor" [] n = 2 -> "customer"
                         [] n = 3 -> "site" [] OTHER -> "other"
        BY DEF GetOrgTypeFromPathKey
      <4> HIDE DEF n, Type
      <4>3. n # 0 /\ n # 1 /\ n # 2
        BY <4>1
      <4>4. QED
        BY <4>2, <4>3
    <3>2. QED
      BY <2>6, <2>7, <3>1
  <2>11. QED
    <3> DEFINE n == Len(pk)
    <3>1. n \in Nat /\ n >= 1
      BY <2>3
    <3> HIDE DEF n
    <3>2. n = 1 \/ n = 2 \/ n > 2
      BY <3>1
    <3>3. QED
      BY <2>8, <2>9, <2>10, <3>2 DEF n
<1>2. QED
  BY <1>1, TreeInductive, PTL

(* The stored organizations and the coverage keep their types: the coverage *)
(* names stored organizations only, with the data they are stored with.     *)
THEOREM TreeTypeCorrect == TreeSpec => []TreeTypeOK
<1>1. TreeInv => TreeTypeOK
  BY DEF TreeInv, StoredInv, CoverageInv, LineageInv, TreeTypeOK
<1>2. QED
  BY <1>1, TreeInductive, PTL
=============================================================================
