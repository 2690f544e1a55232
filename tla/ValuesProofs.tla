----------------------------- MODULE ValuesProofs -----------------------------
(***************************************************************************)
(* What becomes of a number that is cut to a width, for every even modulus.*)
(***************************************************************************)
EXTENDS Values, TLAPS

LEMMA HalfModulus ==
  ASSUME NEW m \in Nat, m > 0, m % 2 = 0
  PROVE  m \div 2 \in Nat /\ m \div 2 + m \div 2 = m
  OBVIOUS

(* The remainder is the only number of 0 .. m - 1 that differs from n by a *)
(* multiple of m. *)
LEMMA ModUnique ==
  ASSUME NEW m \in Nat, m > 0, NEW n \in Int, NEW q \in Int, NEW r \in 0 .. m - 1,
         n = m * q + r
  PROVE  n % m = r
  OBVIOUS

LEMMA ModRange ==
  ASSUME NEW m \in Nat, m > 0, NEW n \in Int
  PROVE  n % m \in 0 .. m - 1 /\ n = m * (n \div m) + (n % m) /\ n \div m \in Int
  OBVIOUS

(* A number that has its place in an unsigned integer is kept. *)
LEMMA UnsignedWhole ==
  ASSUME NEW m \in Nat, m > 0, NEW n \in UnsignedRange(m)
  PROVE  Unsigned(m, n) = n
  BY DEF Unsigned, UnsignedRange

LEMMA UnsignedType ==
  ASSUME NEW m \in Nat, m > 0, NEW n \in Int
  PROVE  Unsigned(m, n) \in UnsignedRange(m) /\ Unsigned(m, n) \in Int
  BY ModRange DEF Unsigned, UnsignedRange

(* A number that has its place in a signed integer is kept. *)
LEMMA SignedWhole ==
  ASSUME NEW m \in Nat, m > 0, m % 2 = 0, NEW n \in SignedRange(m)
  PROVE  Signed(m, n) = n
<1>1. m \div 2 \in Nat /\ m \div 2 + m \div 2 = m
  BY HalfModulus
<1>2. n \in Int /\ -(m \div 2) <= n /\ n < m \div 2
  BY <1>1 DEF SignedRange
<1>3. CASE 0 <= n
  <2>1. n % m = n
    BY <1>1, <1>2, <1>3
  <2> QED BY <1>2, <2>1 DEF Signed
<1>4. CASE n < 0
  <2>1. n % m = n + m
    BY <1>1, <1>2, <1>4
  <2>2. ~(n + m < m \div 2)
    BY <1>1, <1>2
  <2> QED BY <1>2, <2>1, <2>2 DEF Signed
<1> QED BY <1>2, <1>3, <1>4

LEMMA SignedType ==
  ASSUME NEW m \in Nat, m > 0, m % 2 = 0, NEW n \in Int
  PROVE  Signed(m, n) \in SignedRange(m) /\ Signed(m, n) \in Int
<1>1. m \div 2 \in Nat /\ m \div 2 + m \div 2 = m
  BY HalfModulus
<1>2. n % m \in 0 .. m - 1
  BY ModRange
<1> QED BY <1>1, <1>2 DEF Signed, SignedRange

(* What is left of n differs from n by a multiple of the modulus. *)
LEMMA UnsignedCongruent ==
  ASSUME NEW m \in Nat, m > 0, NEW n \in Int
  PROVE  (Unsigned(m, n) - n) % m = 0
<1>1. PICK q \in Int : n = m * q + (n % m)
  BY ModRange
<1>2. n % m \in Int
  BY ModRange
<1>3. (n % m) - n = m * (-q) + 0
  BY <1>1, <1>2
<1>4. (n % m) - n \in Int /\ -q \in Int /\ 0 \in 0 .. m - 1
  BY <1>2
<1> QED BY <1>3, <1>4, ModUnique DEF Unsigned

LEMMA SignedCongruent ==
  ASSUME NEW m \in Nat, m > 0, m % 2 = 0, NEW n \in Int
  PROVE  (Signed(m, n) - n) % m = 0
<1>1. PICK q \in Int : n = m * q + (n % m)
  BY ModRange
<1>2. n % m \in Int
  BY ModRange
<1>3. CASE Signed(m, n) = n % m
  <2>1. (n % m) - n = m * (-q) + 0
    BY <1>1, <1>2
  <2>2. (n % m) - n \in Int /\ -q \in Int /\ 0 \in 0 .. m - 1
    BY <1>2
  <2> QED BY <1>3, <2>1, <2>2, ModUnique
<1>4. CASE Signed(m, n) = (n % m) - m
  <2>1. ((n % m) - m) - n = m * (-q - 1) + 0
    BY <1>1, <1>2
  <2>2. ((n % m) - m) - n \in Int /\ -q - 1 \in Int /\ 0 \in 0 .. m - 1
    BY <1>2
  <2> QED BY <1>4, <2>1, <2>2, ModUnique
<1> QED BY <1>3, <1>4 DEF Signed

(* An unsigned number survives the way through a signed one. *)
LEMMA UnsignedOfSigned ==
  ASSUME NEW m \in Nat, m > 0, m % 2 = 0, NEW n \in UnsignedRange(m)
  PROVE  Unsigned(m, Signed(m, n)) = n
<1>1. n \in Int /\ n % m = n /\ n \in 0 .. m - 1
  BY DEF UnsignedRange
<1>2. CASE Signed(m, n) = n
  BY <1>1, <1>2 DEF Unsigned
<1>3. CASE Signed(m, n) = n - m
  <2>1. n - m = m * (-1) + n /\ n - m \in Int /\ -1 \in Int
    BY <1>1
  <2> QED BY <1>1, <1>3, <2>1, ModUnique DEF Unsigned
<1> QED BY <1>1, <1>2, <1>3 DEF Signed
=============================================================================
