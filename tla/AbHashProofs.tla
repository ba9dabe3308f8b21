---------------------------- MODULE AbHashProofs -----------------------------
(***************************************************************************)
(* Proofs about AbHash, for any number of threads, keys and inserts, any   *)
(* size of the table and any hash function.                                *)
(*                                                                         *)
(* The inductive invariant says that there are                             *)
(*   C, the nodes on the chain, and D, those that were unlinked,           *)
(*   r, a number for each of them, in the order in which they were linked, *)
(*   and m, a number that none has yet,                                    *)
(* and for every call                                                      *)
(*   f, the nodes that were on the chain at some moment of it,             *)
(* such that the chain is C in the order of the hash numbers and, where    *)
(* these are equal, of r.  No two nodes of C have another one of C between *)
(* them in that order; an unlinked node may leave out nodes, but only      *)
(* those in front of the hash number behind it.  That a search over        *)
(* unlinked nodes misses no key is what Met and Here say.                  *)
(***************************************************************************)
EXTENDS AbHash, AbInduct, SequenceTheorems, FiniteSetTheorems, TLAPS

-----------------------------------------------------------------------------
(* Hash numbers. *)

LEMMA TwoToIs ==
  /\ TwoTo \in [Nat -> Nat \ {0}]
  /\ TwoTo[0] = 1
  /\ \A n \in Nat : TwoTo[n + 1] = 2 * TwoTo[n]
<1> DEFINE P == Nat \ {0}
           h == [n \in Nat |-> [x \in P |-> 2 * x]]
           Is(f) == f = [n \in Nat |-> IF n = 0 THEN 1 ELSE 2 * f[n - 1]]
<1>1. PICK f : /\ f \in [Nat -> P] /\ f[0] = 1
               /\ \A n \in Nat : f[n + 1] = h[n][f[n]]
  <2>1. 1 \in P /\ Steps(h, P)
    BY DEF Steps
  <2> HIDE DEF h, P
  <2>2. \E f : Recurs(f, 1, h, P)
    BY <2>1, NatRecursion
  <2> QED
    BY <2>2 DEF Recurs
<1>2. Is(f)
  <2>1. ASSUME NEW n \in Nat, n # 0 PROVE f[n] = 2 * f[n - 1]
    <3>1. n - 1 \in Nat /\ (n - 1) + 1 = n
      BY <2>1
    <3>2. f[n] = h[n - 1][f[n - 1]] /\ f[n - 1] \in P
      BY <1>1, <3>1
    <3>3. \A x \in P : h[n - 1][x] = 2 * x
      BY <3>1
    <3> QED
      BY <3>2, <3>3
  <2> HIDE DEF h
  <2> QED
    BY <1>1, <2>1
<1>3. Is(TwoTo)
  BY <1>2 DEF TwoTo
<1> HIDE DEF h
<1>4. TwoTo[0] = 1 /\ \A n \in Nat : TwoTo[n + 1] = 2 * TwoTo[n]
  <2>1. \A n \in Nat : TwoTo[n] = IF n = 0 THEN 1 ELSE 2 * TwoTo[n - 1]
    BY <1>3
  <2>2. \A n \in Nat : n + 1 \in Nat /\ n + 1 # 0 /\ (n + 1) - 1 = n
    OBVIOUS
  <2> QED
    BY <2>1, <2>2
<1>5. \A n \in Nat : TwoTo[n] \in Nat \ {0}
  <2> DEFINE T == {n \in Nat : TwoTo[n] \in Nat \ {0}}
  <2>1. 0 \in T /\ \A n \in Nat : n \in T => n + 1 \in T
    BY <1>4
  <2> HIDE DEF T
  <2>2. Nat \subseteq T
    BY <2>1, NatSetInduction
  <2> QED
    BY <2>2 DEF T
<1> QED
  BY <1>3, <1>4, <1>5

(* The power of a sum is the product of the powers. *)
LEMMA TwoToSum ==
  \A a, b \in Nat : TwoTo[a + b] = TwoTo[a] * TwoTo[b]
<1> SUFFICES ASSUME NEW a \in Nat PROVE \A b \in Nat : TwoTo[a + b] = TwoTo[a] * TwoTo[b]
  OBVIOUS
<1> DEFINE T == {b \in Nat : TwoTo[a + b] = TwoTo[a] * TwoTo[b]}
<1>1. 0 \in T
  BY TwoToIs
<1>2. ASSUME NEW b \in Nat, b \in T PROVE b + 1 \in T
  <2>1. TwoTo[a + (b + 1)] = 2 * TwoTo[a + b] /\ TwoTo[b + 1] = 2 * TwoTo[b]
    <3>1. a + (b + 1) = (a + b) + 1 /\ a + b \in Nat
      OBVIOUS
    <3> QED
      BY <3>1, TwoToIs
  <2>2. \A x, y \in Nat : 2 * (x * y) = x * (2 * y)
    OBVIOUS
  <2>3. TwoTo[a] \in Nat /\ TwoTo[b] \in Nat
    BY TwoToIs
  <2> QED
    BY <1>2, <2>1, <2>2, <2>3
<1> HIDE DEF T
<1>3. Nat \subseteq T
  BY <1>1, <1>2, NatSetInduction
<1> QED
  BY <1>3 DEF T

(* The powers grow. *)
LEMMA TwoToGrows ==
  \A a, b \in Nat : a <= b => TwoTo[a] <= TwoTo[b]
<1> SUFFICES ASSUME NEW a \in Nat, NEW b \in Nat, a <= b PROVE TwoTo[a] <= TwoTo[b]
  OBVIOUS
<1>1. b - a \in Nat /\ a + (b - a) = b
  OBVIOUS
<1>2. TwoTo[b] = TwoTo[a] * TwoTo[b - a]
  BY <1>1, TwoToSum
<1>3. TwoTo[a] \in Nat \ {0} /\ TwoTo[b - a] \in Nat \ {0}
  BY <1>1, TwoToIs
<1>4. \A x, y \in Nat \ {0} : x <= x * y
  <2> SUFFICES ASSUME NEW x \in Nat \ {0}, NEW y \in Nat \ {0} PROVE x <= x * y
    OBVIOUS
  <2>1. x * y = x * (y - 1) + x /\ x * (y - 1) >= 0
    OBVIOUS
  <2> QED
    BY <2>1
<1> QED
  BY <1>2, <1>3, <1>4

(* Division by what a number has as a factor. *)
LEMMA Divides ==
  ASSUME NEW m \in Nat \ {0}, NEW a \in Nat, NEW x \in Nat
  PROVE  (m * a + x) \div m = a + (x \div m)
<1> DEFINE q == x \div m
           s == x % m
<1>1. q \in Nat /\ s \in 0 .. m - 1 /\ x = m * q + s
  OBVIOUS
<1> HIDE DEF q, s
<1> DEFINE y == m * a + x
           p == y \div m
           u == y % m
<1>2. y \in Nat /\ p \in Nat /\ u \in 0 .. m - 1 /\ y = m * p + u
  OBVIOUS
<1>3. y = m * a + x
  OBVIOUS
<1> HIDE DEF y, p, u
<1>4. m * (p - (a + q)) = s - u
  <2>1. m * (p - (a + q)) = m * p - (m * a + m * q)
    BY <1>1, <1>2
  <2> QED
    BY <1>1, <1>2, <1>3, <2>1
<1>5. p = a + q
  <2> DEFINE d == p - (a + q)
  <2>1. d \in Int /\ m * d = s - u
    BY <1>1, <1>2, <1>4
  <2> HIDE DEF d
  <2>2. d >= 1 => m * d >= m
    BY <2>1
  <2>3. d <= -1 => m * d <= - m
    BY <2>1
  <2>4. d = 0
    BY <1>1, <1>2, <2>1, <2>2, <2>3
  <2> QED
    BY <1>1, <1>2, <2>4 DEF d
<1> QED
  BY <1>5 DEF p, q, y

Bit(v, n) == (v \div TwoTo[n]) % 2

(* A bit is 0 or 1. *)
LEMMA BitType ==
  \A v, n \in Nat : Bit(v, n) \in {0, 1}
<1> SUFFICES ASSUME NEW v \in Nat, NEW n \in Nat PROVE Bit(v, n) \in {0, 1}
  OBVIOUS
<1>1. TwoTo[n] \in Nat \ {0}
  BY TwoToIs
<1>2. v \div TwoTo[n] \in Nat
  BY <1>1
<1> QED
  BY <1>2 DEF Bit

(* A number below a power of two has no bit from there on. *)
LEMMA NoBit ==
  \A v, n \in Nat : v < TwoTo[n] => Bit(v, n) = 0
<1> SUFFICES ASSUME NEW v \in Nat, NEW n \in Nat, v < TwoTo[n] PROVE Bit(v, n) = 0
  OBVIOUS
<1> DEFINE m == TwoTo[n]
<1>1. m \in Nat \ {0} /\ v < m
  BY TwoToIs
<1> HIDE DEF m
<1>2. v \div m = 0
  BY <1>1
<1> QED
  BY <1>2 DEF Bit, m

(* The lower bits of a number. *)
LEMMA LowBits ==
  \A v, j, n \in Nat : v % TwoTo[j] \in Nat /\ v % TwoTo[j] < TwoTo[j]
                       /\ Bit(v % TwoTo[j], n) <= Bit(v, n)
<1> SUFFICES ASSUME NEW v \in Nat, NEW j \in Nat, NEW n \in Nat
             PROVE  /\ v % TwoTo[j] \in Nat /\ v % TwoTo[j] < TwoTo[j]
                    /\ Bit(v % TwoTo[j], n) <= Bit(v, n)
  OBVIOUS
<1> DEFINE m == TwoTo[j]
           w == v % m
           q == v \div m
<1>1. m \in Nat \ {0}
  BY TwoToIs
<1>0. m = TwoTo[j]
  OBVIOUS
<1> HIDE DEF m
<1>2. w \in Nat /\ w < m /\ q \in Nat /\ v = m * q + w
  BY <1>1
<1>3. w = v % TwoTo[j] /\ m = TwoTo[j]
  BY <1>0
<1> HIDE DEF w, q
<1>4. CASE j <= n
  <2>1. w < TwoTo[n]
    BY <1>1, <1>2, <1>3, <1>4, TwoToGrows, TwoToIs
  <2>2. Bit(w, n) = 0
    BY <1>2, <2>1, NoBit
  <2> QED
    BY <1>2, <1>3, <2>2, BitType
<1>5. CASE n < j
  <2> DEFINE k == TwoTo[n]
             c == TwoTo[j - n - 1]
  <2>1. j - n - 1 \in Nat /\ n + 1 \in Nat /\ (n + 1) + (j - n - 1) = j
    BY <1>5
  <2>2. m = TwoTo[n + 1] * c /\ TwoTo[n + 1] = 2 * k
    <3>1. TwoTo[(n + 1) + (j - n - 1)] = TwoTo[n + 1] * TwoTo[j - n - 1]
      BY <2>1, TwoToSum
    <3>2. TwoTo[j] = TwoTo[n + 1] * TwoTo[j - n - 1]
      BY <2>1, <3>1
    <3> QED
      BY <1>3, <3>2, TwoToIs
  <2>3. k \in Nat \ {0} /\ c \in Nat \ {0}
    BY <2>1, TwoToIs
  <2> HIDE DEF k, c
  <2>4. v = k * (2 * (c * q)) + w
    <3>1. (2 * k) * c * q = k * (2 * (c * q))
      BY <1>2, <2>3
    <3> QED
      BY <1>2, <2>2, <2>3, <3>1
  <2>5. 2 * (c * q) \in Nat /\ c * q \in Nat
    BY <1>2, <2>3
  <2>6. v \div k = 2 * (c * q) + (w \div k)
    <3> DEFINE a == 2 * (c * q)
    <3>1. a \in Nat /\ v = k * a + w
      BY <2>4, <2>5
    <3> HIDE DEF a
    <3>2. (k * a + w) \div k = a + (w \div k)
      BY <1>2, <2>3, <3>1, Divides
    <3> QED
      BY <3>1, <3>2 DEF a
  <2>7. (v \div k) % 2 = (w \div k) % 2
    <3>1. w \div k \in Nat
      BY <1>2, <2>3
    <3>2. \A x, y \in Nat : (2 * x + y) % 2 = y % 2
      OBVIOUS
    <3> QED
      BY <2>5, <2>6, <3>1, <3>2
  <2>8. Bit(v, n) = Bit(w, n)
    BY <2>7 DEF Bit, k
  <2> QED
    BY <1>2, <1>3, <2>8, BitType
<1> QED
  BY <1>4, <1>5

(* The bits of v, the lowest one first, up to the n-th. *)
Turns(f, v) ==
  /\ f[0] = 0
  /\ \A n \in 0 .. Bits - 1 : f[n + 1] = 2 * f[n] + Bit(v, n)
  /\ \A n \in 0 .. Bits : f[n] \in 0 .. TwoTo[n] - 1

(* Reverse is computed bit by bit, whatever the number. *)
LEMMA ReverseIs ==
  ASSUME NEW v \in Nat
  PROVE  \E f : Turns(f, v) /\ Reverse(v) = f[Bits]
<1> DEFINE h == [n \in Nat |-> [x \in Nat |-> 2 * x + Bit(v, n)]]
           Is(f) == f = [n \in 0 .. Bits |->
                           IF n = 0 THEN 0 ELSE 2 * f[n - 1] + ((v \div TwoTo[n - 1]) % 2)]
           rev == CHOOSE f : Is(f)
<1>0. Bits \in Nat
  BY BoundAssumption
<1>1. PICK g : /\ g \in [Nat -> Nat] /\ g[0] = 0
               /\ \A n \in Nat : g[n + 1] = h[n][g[n]]
  <2>1. 0 \in Nat /\ Steps(h, Nat)
    BY BitType DEF Steps
  <2> HIDE DEF h
  <2>2. \E f : Recurs(f, 0, h, Nat)
    BY <2>1, NatRecursion
  <2> QED
    BY <2>2 DEF Recurs
<1>2. \A n \in Nat : g[n + 1] = 2 * g[n] + Bit(v, n)
  <2>1. ASSUME NEW n \in Nat PROVE g[n + 1] = 2 * g[n] + Bit(v, n)
    <3>1. g[n + 1] = h[n][g[n]] /\ g[n] \in Nat
      BY <1>1
    <3>2. \A x \in Nat : h[n][x] = 2 * x + Bit(v, n)
      OBVIOUS
    <3> QED
      BY <3>1, <3>2
  <2> QED
    BY <2>1
<1> HIDE DEF h
<1>3. Is([n \in 0 .. Bits |-> g[n]])
  <2>1. \A n \in 0 .. Bits : n # 0 => n - 1 \in 0 .. Bits /\ n - 1 \in Nat /\ (n - 1) + 1 = n
    BY <1>0
  <2>2. \A n \in 0 .. Bits : n # 0 => g[n] = 2 * g[n - 1] + Bit(v, n - 1)
    BY <1>2, <2>1
  <2> QED
    BY <1>1, <2>1, <2>2 DEF Bit
<1>4. Is(rev)
  BY <1>3
<1>5. Reverse(v) = rev[Bits]
  BY DEF Reverse
<1> HIDE DEF rev
<1>6. rev[0] = 0 /\ \A n \in 0 .. Bits - 1 : rev[n + 1] = 2 * rev[n] + Bit(v, n)
  <2>1. \A n \in 0 .. Bits - 1 : n + 1 \in 0 .. Bits /\ n + 1 # 0 /\ (n + 1) - 1 = n
    BY <1>0
  <2>2. \A n \in 0 .. Bits :
          rev[n] = IF n = 0 THEN 0 ELSE 2 * rev[n - 1] + ((v \div TwoTo[n - 1]) % 2)
    BY <1>4
  <2>3. 0 \in 0 .. Bits
    BY <1>0
  <2> HIDE DEF Is
  <2> QED
    BY <2>1, <2>2, <2>3 DEF Bit
<1>7. \A n \in 0 .. Bits : rev[n] \in 0 .. TwoTo[n] - 1
  <2> DEFINE T == {n \in Nat : n \in 0 .. Bits => rev[n] \in 0 .. TwoTo[n] - 1}
  <2>1. 0 \in T
    BY <1>6, TwoToIs
  <2>2. ASSUME NEW n \in Nat, n \in T PROVE n + 1 \in T
    <3> SUFFICES ASSUME n + 1 \in 0 .. Bits PROVE rev[n + 1] \in 0 .. TwoTo[n + 1] - 1
      OBVIOUS
    <3>1. n \in 0 .. Bits - 1 /\ n \in 0 .. Bits
      BY <1>0
    <3>2. rev[n + 1] = 2 * rev[n] + Bit(v, n) /\ rev[n] \in 0 .. TwoTo[n] - 1
      BY <1>6, <2>2, <3>1
    <3>3. TwoTo[n + 1] = 2 * TwoTo[n] /\ TwoTo[n] \in Nat /\ Bit(v, n) \in {0, 1}
      BY TwoToIs, BitType
    <3> QED
      BY <3>2, <3>3
  <2> HIDE DEF T
  <2>3. Nat \subseteq T
    BY <2>1, <2>2, NatSetInduction
  <2> QED
    BY <2>3 DEF T
<1> QED
  BY <1>5, <1>6, <1>7 DEF Turns

(* What is reversed is no larger than a hash, and even if the highest bit  *)
(* was not set.                                                            *)
LEMMA ReverseType ==
  \A v \in Nat : Reverse(v) \in 0 .. TwoTo[Bits] - 1
<1> SUFFICES ASSUME NEW v \in Nat PROVE Reverse(v) \in 0 .. TwoTo[Bits] - 1
  OBVIOUS
<1>1. PICK f : Turns(f, v) /\ Reverse(v) = f[Bits]
  BY ReverseIs
<1>2. Bits \in 0 .. Bits
  BY BoundAssumption
<1> QED
  BY <1>1, <1>2 DEF Turns

(* Fewer bits make a smaller hash number. *)
LEMMA ReverseLess ==
  ASSUME NEW v \in Nat, NEW w \in Nat, \A n \in Nat : Bit(v, n) <= Bit(w, n)
  PROVE  Reverse(v) <= Reverse(w)
<1>1. PICK f : Turns(f, v) /\ Reverse(v) = f[Bits]
  BY ReverseIs
<1>2. PICK g : Turns(g, w) /\ Reverse(w) = g[Bits]
  BY ReverseIs
<1>0. Bits \in Nat
  BY BoundAssumption
<1> DEFINE T == {n \in Nat : n \in 0 .. Bits => f[n] <= g[n]}
<1>3. 0 \in T
  BY <1>1, <1>2 DEF Turns
<1>4. ASSUME NEW n \in Nat, n \in T PROVE n + 1 \in T
  <2> SUFFICES ASSUME n + 1 \in 0 .. Bits PROVE f[n + 1] <= g[n + 1]
    OBVIOUS
  <2>1. n \in 0 .. Bits - 1 /\ n \in 0 .. Bits
    BY <1>0
  <2>2. f[n + 1] = 2 * f[n] + Bit(v, n) /\ g[n + 1] = 2 * g[n] + Bit(w, n)
    BY <1>1, <1>2, <2>1 DEF Turns
  <2>3. f[n] \in Int /\ g[n] \in Int /\ f[n] <= g[n]
    BY <1>1, <1>2, <1>4, <2>1, TwoToIs DEF Turns
  <2>4. Bit(v, n) \in {0, 1} /\ Bit(w, n) \in {0, 1} /\ Bit(v, n) <= Bit(w, n)
    BY BitType
  <2> QED
    BY <2>2, <2>3, <2>4
<1> HIDE DEF T
<1>5. Nat \subseteq T
  BY <1>3, <1>4, NatSetInduction
<1> QED
  BY <1>0, <1>1, <1>2, <1>5 DEF T

(* The highest bit of v is the lowest of its hash number. *)
LEMMA ReverseParity ==
  ASSUME NEW v \in Nat
  PROVE  Reverse(v) % 2 = Bit(v, Bits - 1)
<1>1. PICK f : Turns(f, v) /\ Reverse(v) = f[Bits]
  BY ReverseIs
<1>2. /\ Bits - 1 \in 0 .. Bits - 1 /\ Bits - 1 \in 0 .. Bits
      /\ (Bits - 1) + 1 = Bits /\ Bits - 1 \in Nat
  BY BoundAssumption
<1>3. f[Bits] = 2 * f[Bits - 1] + Bit(v, Bits - 1)
  BY <1>1, <1>2 DEF Turns
<1>4. f[Bits - 1] \in Nat
  BY <1>1, <1>2, TwoToIs DEF Turns
<1>5. Bit(v, Bits - 1) \in {0, 1}
  BY <1>2, BitType
<1>6. \A x \in Nat : \A y \in {0, 1} : (2 * x + y) % 2 = y
  OBVIOUS
<1> QED
  BY <1>1, <1>3, <1>4, <1>5, <1>6

-----------------------------------------------------------------------------
(* What the model needs of hash numbers. *)

LEMMA BucketMax == BUCKET_MAX \in Nat \ {0} /\ Buckets \subseteq Nat /\ 0 \in Buckets
<1>1. ENTRYS_PER_BLOCK \in Nat \ {0}
  BY BoundAssumption
<1>2. \A x \in Nat \ {0} : x * x \in Nat \ {0}
  <2> SUFFICES ASSUME NEW x \in Nat \ {0} PROVE x * x \in Nat \ {0}
    OBVIOUS
  <2>1. x * x = x * (x - 1) + x /\ x * (x - 1) >= 0
    OBVIOUS
  <2> QED
    BY <2>1
<1>3. BUCKET_MAX \in Nat \ {0}
  BY <1>1, <1>2 DEF BUCKET_MAX
<1> QED
  BY <1>3 DEF Buckets

(* The number of a bucket does not have the highest bit of a hash. *)
LEMMA BucketBits == \A b \in Buckets : b \in Nat /\ b < TwoTo[Bits - 1] /\ b < TwoTo[Bits]
<1>1. Bits - 1 \in Nat /\ (Bits - 1) + 1 = Bits
  BY BoundAssumption
<1>2. TwoTo[Bits] = 2 * TwoTo[Bits - 1] /\ TwoTo[Bits - 1] \in Nat
  BY <1>1, TwoToIs
<1>3. 4 * BUCKET_MAX <= TwoTo[Bits]
  BY BoundAssumption
<1> QED
  BY <1>2, <1>3, BucketMax DEF Buckets

(* The hash number of a dummy (ab_hash.c:364) is even. *)
LEMMA DummyNr ==
  \A b \in Buckets : Reverse(b) \in 0 .. TwoTo[Bits] - 1 /\ Reverse(b) % 2 = 0
<1> SUFFICES ASSUME NEW b \in Buckets
             PROVE  Reverse(b) \in 0 .. TwoTo[Bits] - 1 /\ Reverse(b) % 2 = 0
  OBVIOUS
<1>1. b \in Nat /\ Bits - 1 \in Nat /\ b < TwoTo[Bits - 1]
  BY BucketBits, BoundAssumption
<1> QED
  BY <1>1, ReverseType, ReverseParity, NoBit

(* The hash number of the head of the chain is that of bucket 0. *)
LEMMA HeadNr == Reverse(0) = 0
<1>1. PICK f : Turns(f, 0) /\ Reverse(0) = f[Bits]
  BY ReverseIs
<1>0. Bits \in Nat
  BY BoundAssumption
<1> DEFINE T == {n \in Nat : n \in 0 .. Bits => f[n] = 0}
<1>2. 0 \in T
  BY <1>1 DEF Turns
<1>3. ASSUME NEW n \in Nat, n \in T PROVE n + 1 \in T
  <2> SUFFICES ASSUME n + 1 \in 0 .. Bits PROVE f[n + 1] = 0
    OBVIOUS
  <2>1. n \in 0 .. Bits - 1 /\ n \in 0 .. Bits
    BY <1>0
  <2>2. f[n + 1] = 2 * f[n] + Bit(0, n) /\ f[n] = 0
    BY <1>1, <1>3, <2>1 DEF Turns
  <2>3. Bit(0, n) = 0
    BY NoBit, TwoToIs
  <2> QED
    BY <2>2, <2>3
<1> HIDE DEF T
<1>4. Nat \subseteq T
  BY <1>2, <1>3, NatSetInduction
<1> QED
  BY <1>0, <1>1, <1>4 DEF T

(* The hash number of a key is odd and not below its hash reversed. *)
LEMMA KeyNr ==
  \A k \in Keys : /\ Hash[k] \in Nat /\ HashNr(k) \in 0 .. TwoTo[Bits] - 1
                  /\ HashNr(k) % 2 = 1 /\ Reverse(Hash[k]) <= HashNr(k)
<1> SUFFICES ASSUME NEW k \in Keys
             PROVE  /\ Hash[k] \in Nat /\ HashNr(k) \in 0 .. TwoTo[Bits] - 1
                    /\ HashNr(k) % 2 = 1 /\ Reverse(Hash[k]) <= HashNr(k)
  OBVIOUS
<1>1. Hash[k] \in Nat
  BY HashAssumption, TwoToIs
<1> DEFINE r == Reverse(Hash[k])
           M == TwoTo[Bits]
           H == TwoTo[Bits - 1]
<1>2. r \in 0 .. M - 1
  BY <1>1, ReverseType
<1>3. M = 2 * H /\ H \in Nat
  <2>1. Bits - 1 \in Nat /\ (Bits - 1) + 1 = Bits
    BY BoundAssumption
  <2> QED
    BY <2>1, TwoToIs
<1>4. HashNr(k) = IF r % 2 = 0 THEN r + 1 ELSE r
  BY DEF HashNr
<1> HIDE DEF r, M, H
<1>5. HashNr(k) \in 0 .. M - 1 /\ HashNr(k) % 2 = 1 /\ r <= HashNr(k)
  BY <1>2, <1>3, <1>4
<1> QED
  BY <1>1, <1>5 DEF r, M

(* Every entry that ab_hash_insert, ab_hash_get and ab_hash_delete start   *)
(* from lies before the key.                                               *)
LEMMA BucketNr ==
  ASSUME NEW k \in Keys, NEW j \in Nat, TwoTo[j] <= 2 * BUCKET_MAX
  PROVE  Hash[k] % TwoTo[j] \in Buckets /\ Reverse(Hash[k] % TwoTo[j]) < HashNr(k)
<1> DEFINE b == Hash[k] % TwoTo[j]
<1>1. b \in Nat /\ b < TwoTo[j] /\ \A n \in Nat : Bit(b, n) <= Bit(Hash[k], n)
  BY KeyNr, LowBits
<1>2. b \in Buckets
  BY <1>1, BucketMax, TwoToIs DEF Buckets
<1>3. Reverse(b) <= Reverse(Hash[k])
  BY <1>1, KeyNr, ReverseLess
<1>4. Reverse(b) \in Nat /\ Reverse(b) % 2 = 0
  BY <1>2, DummyNr, TwoToIs
<1>5. /\ HashNr(k) \in Nat /\ HashNr(k) % 2 = 1
      /\ Reverse(Hash[k]) <= HashNr(k) /\ Reverse(Hash[k]) \in Nat
  <2>1. Hash[k] \in Nat
    BY KeyNr
  <2>2. TwoTo[Bits] \in Nat
    BY TwoToIs, BoundAssumption
  <2>3. Reverse(Hash[k]) \in Nat
    BY <2>1, <2>2, ReverseType
  <2> QED
    BY <2>2, <2>3, KeyNr
<1> HIDE DEF b
<1>6. Reverse(b) # HashNr(k)
  BY <1>4, <1>5
<1>7. Reverse(b) < HashNr(k)
  BY <1>3, <1>4, <1>5, <1>6
<1> QED
  BY <1>2, <1>7 DEF b

(* And so does the entry of the parent. *)
LEMMA ParentNr ==
  ASSUME NEW b \in Buckets, b # 0
  PROVE  Parent(b) \in Buckets /\ Reverse(Parent(b)) <= Reverse(b)
<1>1. b \in Nat /\ b # 0 /\ b < TwoTo[Bits] /\ Bits \in Nat
  BY BucketBits, BoundAssumption
<1> DEFINE S == {n \in Nat : b < TwoTo[n]}
<1>2. PICK n \in S : \A k \in S : n <= k
  <2>1. Bits \in S /\ S \subseteq Nat
    BY <1>1
  <2> HIDE DEF S
  <2> QED
    BY <2>1, LeastNumber
<1>3. n # 0 /\ n - 1 \in Nat /\ n <= Bits
  <2>1. n # 0
    BY <1>1, TwoToIs
  <2> QED
    BY <1>1, <1>2, <2>1
<1>4. TwoTo[n - 1] <= b /\ b < 2 * TwoTo[n - 1] /\ TwoTo[n - 1] \in Nat \ {0}
  <2>1. n - 1 \notin S
    BY <1>2, <1>3
  <2>2. TwoTo[(n - 1) + 1] = 2 * TwoTo[n - 1]
    BY <1>3, TwoToIs
  <2>3. (n - 1) + 1 = n
    OBVIOUS
  <2> QED
    BY <1>1, <1>2, <1>3, <2>1, <2>2, <2>3, TwoToIs
<1>5. PICK p \in {TwoTo[i] : i \in 0 .. Bits} : p <= b /\ b < 2 * p /\ Parent(b) = b - p
  <2>1. n - 1 \in 0 .. Bits
    BY <1>1, <1>3
  <2> QED
    BY <1>4, <2>1 DEF Parent
<1>6. PICK i \in 0 .. Bits : p = TwoTo[i]
  OBVIOUS
<1>7. p \in Nat \ {0} /\ i \in Nat
  BY <1>6, TwoToIs
<1>8. b - p = b % p
  <2>1. b - p \in 0 .. p - 1 /\ b = p * 1 + (b - p)
    BY <1>1, <1>5, <1>7
  <2>2. b \div p = 1
    <3>1. (p * 1 + (b - p)) \div p = 1 + ((b - p) \div p)
      BY <1>7, <2>1, Divides
    <3>2. (b - p) \div p = 0
      BY <1>7, <2>1
    <3> QED
      BY <2>1, <3>1, <3>2
  <2>3. b = p * (b \div p) + (b % p)
    BY <1>1, <1>7
  <2> QED
    BY <1>1, <1>7, <2>2, <2>3
<1>9. Parent(b) \in Nat /\ \A k \in Nat : Bit(Parent(b), k) <= Bit(b, k)
  BY <1>1, <1>5, <1>6, <1>7, <1>8, LowBits
<1>10. Parent(b) \in Buckets
  BY <1>1, <1>5, <1>7, <1>9, BucketMax DEF Buckets
<1> QED
  BY <1>1, <1>9, <1>10, ReverseLess

-----------------------------------------------------------------------------
(* Type correctness, with the parts of the invariant about one thread's    *)
(* control and about resizes that it needs.                                *)

InsertPCs == {"ent_insert", "ins_find", "ins_cas"}
DropPCs == {"mark", "unlink", "node_find"}
SearchPCs == {"ins_find", "ins_cas", "ent_set", "key_find"} \cup DropPCs
DonePCs == InsertedPCs \cup {"num_sub", "return"}

(* The thread holds a node it has not linked, besides the dummies. *)
Building(t) ==
  \/ pc[t] \in InsertPCs \cup {"ent_set"}
  \/ pc[t] \in DropPCs /\ stack[t] # <<>>

Shape(t) ==
  /\ pc[t] = "idle" => op[t] = "none" /\ arg[t] = NoKey /\ seen[t] = {}
  /\ pc[t] # "idle" => arg[t] \in Keys
  /\ pc[t] \in InsertPCs => op[t] = "insert"
  /\ pc[t] = "ent_set" => op[t] = "insert" /\ stack[t] # <<>>
  /\ pc[t] \in {"ent_get", "key_find"} => op[t] \in {"get", "delete"} /\ stack[t] = <<>>
  /\ pc[t] \in DropPCs => IF stack[t] = <<>> THEN op[t] = "delete"
                          ELSE op[t] = "insert" /\ entrys[Head(stack[t])[1]] # Null
  /\ pc[t] \in DonePCs \cup {"idle"} => stack[t] = <<>>
  /\ Building(t) \/ pc[t] \in DropPCs => node[t] # Null
  /\ pc[t] \in SearchPCs => entry[t] # Null /\ prev[t] # Null

(* What a resize has read of size may be old, but is never too large. *)
SizePCs == {"rs_load", "rs_num", "rs_grow", "rs_size2", "rs_load2", "rs_fit"}
Resizing ==
  /\ \E j \in Nat : size = TwoTo[j]
  /\ 2 * maxload <= size
  /\ \A t \in Threads : pc[t] \in SizePCs => sz[t] \in 2 .. size
  /\ \A t \in Threads : pc[t] = "rs_grow" => sz[t] < BUCKET_MAX

TypeInv == TypeOK /\ Resizing /\ \A t \in Threads : Shape(t)

(* A step of thread t leaves the other threads' locals alone. *)
Others(t) ==
  \A u \in Threads \ {t} :
    /\ pc'[u] = pc[u] /\ op'[u] = op[u] /\ arg'[u] = arg[u]
    /\ bucket'[u] = bucket[u] /\ stack'[u] = stack[u]
    /\ entry'[u] = entry[u] /\ prev'[u] = prev[u] /\ cur'[u] = cur[u]
    /\ node'[u] = node[u] /\ sz'[u] = sz[u] /\ ml'[u] = ml[u]
    /\ seen[u] \subseteq seen'[u] /\ (pc[u] = "idle" => seen'[u] = seen[u])

(* Every step is one of a thread that leaves the locals of the others      *)
(* alone.                                                                  *)
LEMMA OnlyOwn ==
  ASSUME NEW t \in Threads, TypeOK, Work(t) \/ Call(t)
  PROVE  Others(t)
<1> USE DEF TypeOK, Others, Goto, callVars, locals, history
<1>1. CASE EntFound(t)
  BY <1>1 DEF EntFound, StartAt
<1>2. CASE EntHead(t)
  BY <1>2 DEF EntHead, StartAt
<1>3. CASE EntParent(t)
  BY <1>3 DEF EntParent, Alloc
<1>4. CASE EntSet(t)
  BY <1>4 DEF EntSet, EntReturn, StartAt
<1>5. CASE EntLost(t)
  BY <1>5 DEF EntLost
<1>6. CASE EntGet(t)
  BY <1>6 DEF EntGet, StartAt
<1>7. CASE EntGetParent(t)
  BY <1>7 DEF EntGetParent
<1>8. CASE EntGetNone(t)
  BY <1>8 DEF EntGetNone, Fail, EndSearch, StartAt
<1>9. CASE InsWalk(t)
  BY <1>9 DEF InsWalk
<1>10. CASE InsFound(t)
  BY <1>10 DEF InsFound
<1>11. CASE InsDuplicate(t)
  BY <1>11 DEF InsDuplicate, Fail, EndSearch, StartAt
<1>12. CASE InsLink(t)
  BY <1>12 DEF InsLink, Link, Becomes, EndSearch, StartAt
<1>13. CASE InsRetry(t)
  BY <1>13 DEF InsRetry
<1>14. CASE KeyWalk(t)
  BY <1>14 DEF KeyWalk
<1>15. CASE KeyNone(t)
  BY <1>15 DEF KeyNone, Fail, EndSearch, StartAt
<1>16. CASE KeyFound(t)
  BY <1>16 DEF KeyFound
<1>17. CASE Mark(t)
  BY <1>17, SMTT(30) DEF Mark, Becomes
<1>18. CASE MarkLost(t)
  BY <1>18 DEF MarkLost, Fail, EndSearch, StartAt
<1>19. CASE Unlink(t)
  BY <1>19 DEF Unlink, Bypass, NodeGone, DummyGone, EntReturn, Becomes, EndSearch, StartAt
<1>20. CASE UnlinkRetry(t)
  BY <1>20 DEF UnlinkRetry
<1>21. CASE NodeWalk(t)
  BY <1>21 DEF NodeWalk
<1>22. CASE NodeFound(t)
  BY <1>22 DEF NodeFound
<1>23. CASE NodeNone(t)
  BY <1>23 DEF NodeNone, DummyGone, EntReturn, Fail, EndSearch, StartAt
<1>24. CASE NumAdd(t)
  BY <1>24 DEF NumAdd
<1>25. CASE NumSub(t)
  BY <1>25 DEF NumSub
<1>26. CASE RsSize(t)
  BY <1>26 DEF RsSize
<1>27. CASE RsLoad(t)
  BY <1>27 DEF RsLoad
<1>28. CASE RsNum(t)
  BY <1>28 DEF RsNum
<1>29. CASE RsGrow(t)
  BY <1>29 DEF RsGrow
<1>30. CASE RsSize2(t)
  BY <1>30 DEF RsSize2
<1>31. CASE RsLoad2(t)
  BY <1>31 DEF RsLoad2
<1>32. CASE RsFit(t)
  BY <1>32 DEF RsFit
<1>33. CASE Return(t)
  BY <1>33 DEF Return, EndSearch, StartAt
<1>34. CASE \E k \in Keys : Insert(t, k)
  BY <1>34 DEF Insert, Begin, Alloc
<1>35. CASE \E k \in Keys : Delete(t, k)
  BY <1>35 DEF Delete, Begin
<1>36. CASE \E k \in Keys : Get(t, k)
  BY <1>36 DEF Get, Begin
<1> QED
  BY <1>1, <1>2, <1>3, <1>4, <1>5, <1>6, <1>7, <1>8, <1>9, <1>10, <1>11, <1>12,
     <1>13, <1>14, <1>15, <1>16, <1>17, <1>18, <1>19, <1>20, <1>21, <1>22,
     <1>23, <1>24, <1>25, <1>26, <1>27, <1>28, <1>29, <1>30, <1>31, <1>32,
     <1>33, <1>34, <1>35, <1>36 DEF Work, Call

(* The dummy and the bucket on top of the stack. *)
LEMMA Stacked ==
  ASSUME NEW t \in Threads, TypeOK, stack[t] # <<>>
  PROVE  /\ Head(stack[t]) \in Buckets \X Nodes
         /\ Head(stack[t]) = stack[t][1] /\ Len(stack[t]) \in Nat \ {0}
         /\ stack[t][1][1] \in Buckets /\ stack[t][1][2] \in Nodes
         /\ Tail(stack[t]) \in Seq(Buckets \X Nodes)
<1>1. stack[t] \in Seq(Buckets \X Nodes)
  BY DEF TypeOK
<1>2. Head(stack[t]) \in Buckets \X Nodes /\ Head(stack[t]) = stack[t][1]
  BY <1>1
<1>3. Tail(stack[t]) \in Seq(Buckets \X Nodes) /\ Len(stack[t]) \in Nat \ {0}
  BY <1>1
<1> QED
  BY <1>2, <1>3

(* The nodes a thread is about to look at. *)
LEMMA Typed ==
  ASSUME NEW t \in Threads, TypeInv
  PROVE  /\ Building(t) \/ pc[t] \in DropPCs => Subject(t) \in Nodes /\ node[t] \in Nodes
         /\ pc[t] \in SearchPCs => /\ prev[t] \in Nodes /\ entry[t] \in Nodes
                                   /\ After(t) \in MaybeNode
<1>0. Null \notin Nodes
  BY KeyAssumption
<1>1. ASSUME Building(t) \/ pc[t] \in DropPCs PROVE Subject(t) \in Nodes /\ node[t] \in Nodes
  <2>1. node[t] \in Nodes
    BY <1>1 DEF TypeInv, TypeOK, Shape, MaybeNode
  <2> QED
    BY <2>1, Stacked DEF Subject, TypeInv
<1>2. ASSUME pc[t] \in SearchPCs
      PROVE  prev[t] \in Nodes /\ entry[t] \in Nodes /\ After(t) \in MaybeNode
  <2>1. prev[t] \in Nodes /\ entry[t] \in Nodes
    BY <1>2 DEF TypeInv, TypeOK, Shape, MaybeNode
  <2> QED
    BY <2>1 DEF After, TypeInv, TypeOK
<1> QED
  BY <1>1, <1>2

(* The types of what the steps assign. *)
LEMMA SmallTypes ==
  ASSUME TypeOK
  PROVE  /\ 0 \in Buckets /\ Null \in MaybeNode /\ list_head \in MaybeNode
         /\ Nodes \subseteq MaybeNode
         /\ \A b \in Buckets : entrys[b] \in MaybeNode
         /\ NumMod \in Nat \ {0} /\ (num + 1) % NumMod \in 0 .. NumMod - 1
         /\ (num - 1) % NumMod \in 0 .. NumMod - 1
<1>1. list_head \in Nodes
  BY BoundAssumption DEF list_head, Nodes
<1>2. NumMod \in Nat \ {0} /\ num \in Int
  BY BoundAssumption DEF TypeOK
<1> QED
  BY <1>1, <1>2, BucketMax DEF TypeOK, MaybeNode

(* The start of a search keeps the types. *)
LEMMA Starts ==
  ASSUME NEW t \in Threads, TypeOK, NEW e \in MaybeNode, StartAt(t, e)
  PROVE  /\ bucket' \in [Threads -> Buckets] /\ entry' \in [Threads -> MaybeNode]
         /\ prev' \in [Threads -> MaybeNode]
BY SmallTypes DEF StartAt, TypeOK

(* The end of a search keeps the types. *)
LEMMA Ends ==
  ASSUME NEW t \in Threads, TypeOK, EndSearch(t)
  PROVE  /\ bucket' \in [Threads -> Buckets] /\ entry' \in [Threads -> MaybeNode]
         /\ prev' \in [Threads -> MaybeNode]
BY SmallTypes, Starts DEF EndSearch

States == [val : MaybeNode, leaving : BOOLEAN]
(* A change of the dictionary keeps the types. *)
LEMMA BecomesType ==
  ASSUME TypeOK, NEW k, NEW v \in States, Becomes(k, v)
  PROVE  /\ dict' \in [Keys -> States] /\ seen' \in [Threads -> SUBSET States]
BY DEF Becomes, TypeOK, States

(* ab_mem_alloc keeps the types. *)
LEMMA AllocType ==
  ASSUME TypeOK, NEW x \in free, NEW h \in 0 .. TwoTo[Bits] - 1, NEW k \in Keys \cup {NoKey},
         Alloc(x, h, k)
  PROVE  /\ free' \subseteq Nodes /\ hashnr' \in [Nodes -> 0 .. TwoTo[Bits] - 1]
         /\ key' \in [Nodes -> Keys \cup {NoKey}] /\ x \in Nodes
BY DEF Alloc, TypeOK

(* What the code does once it was called keeps the types. *)
LEMMA TypeStep ==
  ASSUME NEW t \in Threads, TypeInv, Work(t)
  PROVE  TypeOK'
<1> USE DEF TypeInv, TypeOK, PCs, Goto, tableVars, nodeVars, callVars, locals, history,
            InsertPCs, DropPCs, SearchPCs, Building
<1>1. CASE EntFound(t)
  BY <1>1, Typed, Stacked, SmallTypes, Starts DEF EntFound
<1>2. CASE EntHead(t)
  BY <1>2, Typed, Stacked, SmallTypes, Starts DEF EntHead
<1>3. CASE EntParent(t)
  <2>1. PICK d \in free : /\ Alloc(d, Reverse(bucket[t]), NoKey)
                          /\ stack' = [stack EXCEPT ![t] = <<<<bucket[t], d>>>> \o @]
    BY <1>3 DEF EntParent
  <2>2. bucket[t] \in Buckets /\ Reverse(bucket[t]) \in 0 .. TwoTo[Bits] - 1
    BY DummyNr
  <2>3. /\ free' \subseteq Nodes /\ hashnr' \in [Nodes -> 0 .. TwoTo[Bits] - 1]
        /\ key' \in [Nodes -> Keys \cup {NoKey}] /\ d \in Nodes
    BY <2>1, <2>2, AllocType
  <2>4. <<<<bucket[t], d>>>> \o stack[t] \in Seq(Buckets \X Nodes)
    BY <2>2, <2>3
  <2>5. stack' \in [Threads -> Seq(Buckets \X Nodes)]
    BY <2>1, <2>4
  <2>6. bucket' \in [Threads -> Buckets]
    BY <1>3, <2>2, ParentNr DEF EntParent
  <2> QED
    BY <1>3, <2>3, <2>5, <2>6 DEF EntParent
<1>4. CASE EntSet(t)
  <2>1. Subject(t) \in MaybeNode /\ stack[t] # <<>>
    BY <1>4, Typed, SmallTypes DEF EntSet, Shape
  <2> QED
    BY <1>4, <2>1, Stacked, SmallTypes, Starts DEF EntSet, EntReturn
<1>5. CASE EntLost(t)
  BY <1>5, Typed, Stacked DEF EntLost
<1>6. CASE EntGet(t)
  BY <1>6, Typed, Stacked, SmallTypes, Starts DEF EntGet
<1>7. CASE EntGetParent(t)
  BY <1>7, ParentNr DEF EntGetParent
<1>8. CASE EntGetNone(t)
  BY <1>8, Typed, Stacked, SmallTypes, Starts, Ends DEF EntGetNone, Fail
<1>9. CASE InsWalk(t)
  BY <1>9, Typed, Stacked DEF InsWalk
<1>10. CASE InsFound(t)
  BY <1>10, Typed, Stacked DEF InsFound
<1>11. CASE InsDuplicate(t)
  BY <1>11, Typed, Stacked, SmallTypes, Starts, Ends DEF InsDuplicate, Fail
<1>12. CASE InsLink(t)
  BY <1>12, Typed, Stacked, SmallTypes, Starts, Ends, BecomesType
     DEF InsLink, Link, States
<1>13. CASE InsRetry(t)
  BY <1>13, Typed, SmallTypes DEF InsRetry
<1>14. CASE KeyWalk(t)
  BY <1>14, Typed, Stacked DEF KeyWalk
<1>15. CASE KeyNone(t)
  BY <1>15, Typed, Stacked, SmallTypes, Starts, Ends DEF KeyNone, Fail
<1>16. CASE KeyFound(t)
  BY <1>16, Typed, Stacked DEF KeyFound
<1>17. CASE Mark(t)
  BY <1>17, Typed, Stacked, BecomesType, ZenonT(60) DEF Mark, States
<1>18. CASE MarkLost(t)
  BY <1>18, Typed, Stacked, SmallTypes, Starts, Ends DEF MarkLost, Fail
<1>19. CASE Unlink(t)
  <2>1. next' \in [Nodes -> [to : MaybeNode, del : BOOLEAN]]
    BY <1>19, Typed DEF Unlink, Bypass
  <2>2. CASE NodeGone(t)
    <3>1. Absent \in States
      BY SmallTypes DEF Absent, States
    <3> QED
      BY <1>19, <2>1, <2>2, <3>1, Ends, BecomesType DEF Unlink, NodeGone, States
  <2>3. CASE DummyGone(t, "unlink")
    BY <1>19, <2>1, <2>3, Stacked, SmallTypes, Starts DEF Unlink, DummyGone, EntReturn
  <2> QED
    BY <1>19, <2>2, <2>3 DEF Unlink
<1>20. CASE UnlinkRetry(t)
  BY <1>20, Typed, Stacked DEF UnlinkRetry
<1>21. CASE NodeWalk(t)
  BY <1>21, Typed, Stacked DEF NodeWalk
<1>22. CASE NodeFound(t)
  BY <1>22, Typed, Stacked DEF NodeFound
<1>23. CASE NodeNone(t)
  <2>1. CASE DummyGone(t, "node_find")
    BY <1>23, <2>1, Stacked, SmallTypes, Starts DEF NodeNone, DummyGone, EntReturn
  <2>2. CASE stack[t] = <<>> /\ Fail(t, "node_find") /\ UNCHANGED <<stack, dict, seen>>
    BY <1>23, <2>2, SmallTypes, Ends DEF NodeNone, Fail
  <2> QED
    BY <1>23, <2>1, <2>2 DEF NodeNone
<1>24. CASE NumAdd(t)
  BY <1>24, SmallTypes DEF NumAdd
<1>25. CASE NumSub(t)
  BY <1>25, SmallTypes DEF NumSub
<1>26. CASE RsSize(t)
  BY <1>26, Typed, Stacked DEF RsSize
<1>27. CASE RsLoad(t)
  BY <1>27, Typed, Stacked DEF RsLoad
<1>28. CASE RsNum(t)
  BY <1>28, Typed, Stacked DEF RsNum
<1>29. CASE RsGrow(t)
  <2>1. sz[t] \in 2 .. size /\ sz[t] < BUCKET_MAX
    BY <1>29 DEF RsGrow, Resizing, SizePCs
  <2>2. size' \in 2 .. 2 * BUCKET_MAX
    BY <1>29, <2>1, BucketMax DEF RsGrow
  <2> QED
    BY <1>29, <2>2 DEF RsGrow
<1>30. CASE RsSize2(t)
  BY <1>30, Typed, Stacked DEF RsSize2
<1>31. CASE RsLoad2(t)
  BY <1>31, Typed, Stacked DEF RsLoad2
<1>32. CASE RsFit(t)
  <2>1. sz[t] \in 2 .. size /\ size <= 2 * BUCKET_MAX
    BY <1>32 DEF RsFit, Resizing, SizePCs
  <2>2. sz[t] \div 2 \in 1 .. BUCKET_MAX
    BY <2>1, BucketMax
  <2>3. maxload' \in 1 .. BUCKET_MAX
    BY <1>32, <2>2 DEF RsFit
  <2> QED
    BY <1>32, <2>3 DEF RsFit
<1>33. CASE Return(t)
  BY <1>33, Typed, Stacked, SmallTypes, Starts, Ends DEF Return
<1> QED
  BY <1>1, <1>2, <1>3, <1>4, <1>5, <1>6, <1>7, <1>8, <1>9, <1>10, <1>11, <1>12,
     <1>13, <1>14, <1>15, <1>16, <1>17, <1>18, <1>19, <1>20, <1>21, <1>22,
     <1>23, <1>24, <1>25, <1>26, <1>27, <1>28, <1>29, <1>30, <1>31, <1>32, <1>33
     DEF Work

(* A call starts in the bucket of its key. *)
LEMMA BeginType ==
  ASSUME NEW t \in Threads, NEW k \in Keys, NEW o, NEW to, TypeInv, Begin(t, o, k, to)
  PROVE  /\ Hash[k] % size \in Buckets /\ Reverse(Hash[k] % size) < HashNr(k)
         /\ bucket' \in [Threads -> Buckets] /\ o \in Ops
         /\ op' \in [Threads -> Ops \cup {"none"}] /\ arg' \in [Threads -> Keys \cup {NoKey}]
         /\ seen' \in [Threads -> SUBSET States]
<1>1. PICK j \in Nat : size = TwoTo[j]
  BY DEF TypeInv, Resizing
<1>2. TwoTo[j] <= 2 * BUCKET_MAX
  BY <1>1 DEF TypeInv, TypeOK
<1>3. Hash[k] % size \in Buckets /\ Reverse(Hash[k] % size) < HashNr(k)
  BY <1>1, <1>2, BucketNr
<1>4. bucket' \in [Threads -> Buckets]
  BY <1>3 DEF Begin, TypeInv, TypeOK
<1>5. /\ o \in Ops /\ op' \in [Threads -> Ops \cup {"none"}]
      /\ arg' \in [Threads -> Keys \cup {NoKey}]
  BY DEF Begin, TypeInv, TypeOK
<1>6. seen' \in [Threads -> SUBSET States]
  BY DEF Begin, TypeInv, TypeOK, States
<1> QED
  BY <1>3, <1>4, <1>5, <1>6

(* A call keeps the types. *)
LEMMA TypeCall ==
  ASSUME NEW t \in Threads, TypeInv, Call(t)
  PROVE  TypeOK'
<1> USE DEF TypeInv, TypeOK, PCs, Goto, tableVars, nodeVars, callVars, locals, history, States
<1>1. ASSUME NEW k \in Keys, Insert(t, k) PROVE TypeOK'
  <2>1. HashNr(k) \in 0 .. TwoTo[Bits] - 1
    BY KeyNr
  <2>2. PICK x \in free : Alloc(x, HashNr(k), k) /\ node' = [node EXCEPT ![t] = x]
    BY <1>1 DEF Insert
  <2>3. /\ free' \subseteq Nodes /\ hashnr' \in [Nodes -> 0 .. TwoTo[Bits] - 1]
        /\ key' \in [Nodes -> Keys \cup {NoKey}] /\ x \in Nodes
    BY <2>1, <2>2, AllocType
  <2>4. node' \in [Threads -> MaybeNode]
    BY <2>2, <2>3, SmallTypes
  <2>5. Begin(t, "insert", k, "ent_insert")
    BY <1>1 DEF Insert
  <2>6. inserts' \in 0 .. MaxInserts
    BY <1>1, BoundAssumption DEF Insert
  <2>7. pc' \in [Threads -> PCs]
    BY <2>5 DEF Begin
  <2> QED
    BY <2>3, <2>4, <2>5, <2>6, <2>7, BeginType DEF Begin
<1>2. ASSUME NEW k \in Keys, Delete(t, k) \/ Get(t, k) PROVE TypeOK'
  <2>1. PICK o \in {"delete", "get"} : Begin(t, o, k, "ent_get")
    BY <1>2 DEF Delete, Get
  <2>2. UNCHANGED <<hashnr, key, free, node, inserts>>
    BY <1>2 DEF Delete, Get
  <2>3. pc' \in [Threads -> PCs]
    BY <2>1 DEF Begin
  <2> QED
    BY <2>1, <2>2, <2>3, BeginType DEF Begin
<1> QED
  BY <1>1, <1>2 DEF Call


(* No entry of the table is taken out again. *)
LEMMA EntriesStay ==
  ASSUME NEW t \in Threads, TypeOK, Work(t) \/ Call(t)
  PROVE  \A b \in Buckets : entrys[b] # Null => entrys'[b] = entrys[b]
<1>1. CASE EntHead(t)
  BY <1>1 DEF EntHead, TypeOK
<1>2. CASE EntSet(t)
  BY <1>2 DEF EntSet, TypeOK
<1>3. CASE Call(t)
  BY <1>3 DEF Call, Insert, Delete, Get, Begin, tableVars
<1>4. CASE Work(t) /\ ~EntHead(t) /\ ~EntSet(t)
  BY <1>4
     DEF Work, tableVars, EntFound, EntParent, EntLost, EntGet, EntGetParent,
         EntGetNone, InsWalk, InsFound, InsDuplicate, InsLink, InsRetry,
         KeyWalk, KeyNone, KeyFound, Mark, MarkLost, Unlink, UnlinkRetry,
         NodeWalk, NodeFound, NodeNone, NumAdd, NumSub, RsSize, RsLoad, RsNum,
         RsGrow, RsSize2, RsLoad2, RsFit, Return
<1> QED
  BY <1>1, <1>2, <1>3, <1>4

(* After a step of a thread its locals fit the place it is at. *)
LEMMA ShapeOwn ==
  ASSUME NEW t \in Threads, TypeInv, TypeOK', Work(t) \/ Call(t),
         InsDuplicate(t) \/ MarkLost(t) => stack[t] = <<>>
  PROVE  Shape(t)'
<1>1. Shape(t) /\ TypeOK
  BY DEF TypeInv
<1>0. /\ list_head # Null /\ Null \notin Nodes /\ Nodes \subseteq MaybeNode
      /\ t \in Threads /\ arg[t] \in Keys => arg[t] # NoKey
  BY BoundAssumption, KeyAssumption DEF list_head, Nodes, MaybeNode
<1> USE DEF TypeOK, Shape, Goto, callVars, locals, history,
            InsertPCs, DropPCs, SearchPCs, DonePCs, InsertedPCs, Building
<1>2. CASE EntFound(t)
  BY <1>0, <1>1, <1>2, Typed DEF EntFound, StartAt
<1>3. CASE EntHead(t)
  BY <1>0, <1>1, <1>3 DEF EntHead, StartAt
<1>4. CASE EntParent(t)
  BY <1>0, <1>1, <1>4, Typed DEF EntParent, Alloc
<1>5. CASE EntSet(t)
  <2>1. Subject(t) # Null /\ stack[t] # <<>>
    BY <1>0, <1>1, <1>5, Typed DEF EntSet
  <2> QED
    BY <1>0, <1>1, <1>5, <2>1 DEF EntSet, EntReturn, StartAt
<1>6. CASE EntLost(t)
  BY <1>0, <1>1, <1>6, Typed DEF EntLost, tableVars
<1>7. CASE EntGet(t)
  BY <1>0, <1>1, <1>7, Typed DEF EntGet, StartAt
<1>8. CASE EntGetParent(t)
  BY <1>0, <1>1, <1>8, Typed DEF EntGetParent
<1>9. CASE EntGetNone(t)
  BY <1>0, <1>1, <1>9, Typed DEF EntGetNone, Fail, EndSearch, StartAt
<1>10. CASE InsWalk(t)
  BY <1>0, <1>1, <1>10 DEF InsWalk, Passed, tableVars
<1>11. CASE InsFound(t)
  BY <1>0, <1>1, <1>11, Typed DEF InsFound
<1>12. CASE InsDuplicate(t)
  BY <1>0, <1>1, <1>12 DEF InsDuplicate, Fail, EndSearch, StartAt
<1>13. CASE InsLink(t)
  BY <1>0, <1>1, <1>13, Typed DEF InsLink, Link, Becomes, EndSearch, StartAt
<1>14. CASE InsRetry(t)
  BY <1>0, <1>1, <1>14, Typed DEF InsRetry
<1>15. CASE KeyWalk(t)
  BY <1>0, <1>1, <1>15 DEF KeyWalk, Passed, tableVars
<1>16. CASE KeyNone(t)
  BY <1>0, <1>1, <1>16, Typed DEF KeyNone, Fail, EndSearch, StartAt
<1>17. CASE KeyFound(t)
  BY <1>0, <1>1, <1>17 DEF KeyFound, Passed, tableVars
<1>18. CASE Mark(t)
  BY <1>0, <1>1, <1>18 DEF Mark, tableVars
<1>19. CASE MarkLost(t)
  BY <1>0, <1>1, <1>19 DEF MarkLost, Fail, EndSearch, StartAt
<1>20. CASE Unlink(t)
  <2>1. CASE NodeGone(t)
    BY <1>0, <1>1, <1>20, <2>1 DEF Unlink, NodeGone, EndSearch, StartAt
  <2>2. CASE DummyGone(t, "unlink")
    BY <1>0, <1>1, <1>20, <2>2 DEF Unlink, DummyGone, EntReturn, StartAt
  <2> QED
    BY <1>20, <2>1, <2>2 DEF Unlink
<1>21. CASE UnlinkRetry(t)
  BY <1>0, <1>1, <1>21 DEF UnlinkRetry, tableVars
<1>22. CASE NodeWalk(t)
  BY <1>0, <1>1, <1>22 DEF NodeWalk, Passed, tableVars
<1>23. CASE NodeFound(t)
  BY <1>0, <1>1, <1>23 DEF NodeFound, tableVars
<1>24. CASE NodeNone(t)
  <2>1. CASE DummyGone(t, "node_find")
    BY <1>0, <1>1, <1>24, <2>1 DEF NodeNone, DummyGone, EntReturn, StartAt
  <2>2. CASE stack[t] = <<>> /\ Fail(t, "node_find") /\ UNCHANGED <<stack, dict, seen>>
    BY <1>0, <1>1, <1>24, <2>2 DEF NodeNone, Fail, EndSearch, StartAt
  <2> QED
    BY <1>24, <2>1, <2>2 DEF NodeNone
<1>25. CASE NumAdd(t)
  BY <1>0, <1>1, <1>25, Typed DEF NumAdd
<1>26. CASE NumSub(t)
  BY <1>0, <1>1, <1>26, Typed DEF NumSub
<1>27. CASE RsSize(t)
  BY <1>0, <1>1, <1>27, Typed DEF RsSize
<1>28. CASE RsLoad(t)
  BY <1>0, <1>1, <1>28, Typed DEF RsLoad
<1>29. CASE RsNum(t)
  BY <1>0, <1>1, <1>29, Typed DEF RsNum
<1>30. CASE RsGrow(t)
  BY <1>0, <1>1, <1>30, Typed DEF RsGrow
<1>31. CASE RsSize2(t)
  BY <1>0, <1>1, <1>31, Typed DEF RsSize2
<1>32. CASE RsLoad2(t)
  BY <1>0, <1>1, <1>32, Typed DEF RsLoad2
<1>33. CASE RsFit(t)
  BY <1>0, <1>1, <1>33, Typed DEF RsFit
<1>34. CASE Return(t)
  BY <1>0, <1>1, <1>34, Typed DEF Return, EndSearch, StartAt
<1>35. CASE Call(t)
  <2>1. ASSUME NEW k \in Keys, Insert(t, k) PROVE Shape(t)'
    <3>1. PICK x \in free : node' = [node EXCEPT ![t] = x]
      BY <2>1 DEF Insert
    <3> QED
      BY <1>0, <1>1, <2>1, <3>1 DEF Insert, Begin
  <2>2. ASSUME NEW k \in Keys, Delete(t, k) \/ Get(t, k) PROVE Shape(t)'
    BY <1>0, <1>1, <2>2 DEF Delete, Get, Begin
  <2> QED
    BY <1>35, <2>1, <2>2 DEF Call
<1> QED
  BY <1>2, <1>3, <1>4, <1>5, <1>6, <1>7, <1>8, <1>9, <1>10, <1>11, <1>12, <1>13,
     <1>14, <1>15, <1>16, <1>17, <1>18, <1>19, <1>20, <1>21, <1>22, <1>23,
     <1>24, <1>25, <1>26, <1>27, <1>28, <1>29, <1>30, <1>31, <1>32, <1>33,
     <1>34, <1>35 DEF Work

(* So do those of the other threads. *)
LEMMA ShapeStep ==
  ASSUME NEW t \in Threads, TypeInv, TypeOK', Work(t) \/ Call(t),
         InsDuplicate(t) \/ MarkLost(t) => stack[t] = <<>>
  PROVE  \A u \in Threads : Shape(u)'
<1>1. Shape(t)'
  BY ShapeOwn
<1>2. ASSUME NEW u \in Threads, u # t PROVE Shape(u)'
  <2>1. Shape(u) /\ TypeOK
    BY DEF TypeInv
  <2>2. Others(t)
    BY <2>1, OnlyOwn
  <2>3. stack[u] # <<>> => Head(stack[u])[1] \in Buckets
    BY <2>1, Stacked
  <2>4. \A b \in Buckets : entrys[b] # Null => entrys'[b] # Null
    BY <2>1, EntriesStay
  <2> QED
    BY <1>2, <2>1, <2>2, <2>3, <2>4 DEF Shape, Others, Building
<1> QED
  BY <1>1, <1>2

(* Every step keeps what is known of resizes. *)
LEMMA ResizingStep ==
  ASSUME NEW t \in Threads, TypeInv, TypeOK', Work(t) \/ Call(t)
  PROVE  /\ Resizing'
         /\ \/ size' >= size /\ 2 * maxload' <= size'
            \/ UNCHANGED <<size, maxload>>
<1>1. TypeOK /\ Resizing
  BY DEF TypeInv
<1>2. /\ size \in Nat /\ maxload \in Nat /\ BUCKET_MAX \in Nat
      /\ \A u \in Threads : sz[u] \in Nat
  BY <1>1, BucketMax DEF TypeOK
<1> USE DEF Resizing, Goto, SizePCs
<1>3. CASE RsSize(t)
  BY <1>1, <1>2, <1>3, SMTT(30) DEF RsSize, TypeOK, tableVars, locals
<1>4. CASE RsLoad(t)
  BY <1>1, <1>2, <1>4 DEF RsLoad, TypeOK, tableVars, locals
<1>5. CASE RsNum(t)
  BY <1>1, <1>2, <1>5 DEF RsNum, TypeOK, tableVars, locals
<1>6. CASE RsGrow(t)
  <2>1. size' >= size /\ maxload' = maxload /\ sz' = sz
    BY <1>1, <1>2, <1>6 DEF RsGrow, locals
  <2>2. \E j \in Nat : size' = TwoTo[j]
    <3>1. PICK j \in Nat : size = TwoTo[j]
      BY <1>1
    <3>2. size' = size \/ size' = 2 * size
      BY <1>1, <1>2, <1>6 DEF RsGrow
    <3>3. TwoTo[j + 1] = 2 * TwoTo[j] /\ j + 1 \in Nat
      BY TwoToIs
    <3> QED
      BY <3>1, <3>2, <3>3
  <2>3. \A u \in Threads : pc'[u] \in SizePCs => pc[u] \in SizePCs
    BY <1>1, <1>6 DEF RsGrow, TypeOK
  <2>4. \A u \in Threads : pc'[u] = "rs_grow" => pc[u] = "rs_grow"
    BY <1>1, <1>6 DEF RsGrow, TypeOK
  <2>5. 2 * maxload' <= size'
    BY <1>1, <1>2, <2>1, <1>6 DEF RsGrow
  <2>6. size' \in Nat
    BY DEF TypeOK
  <2> HIDE DEF SizePCs, Goto
  <2> QED
    BY <1>1, <1>2, <2>1, <2>2, <2>3, <2>4, <2>5, <2>6
<1>7. CASE RsSize2(t)
  BY <1>1, <1>2, <1>7, SMTT(30) DEF RsSize2, TypeOK, tableVars, locals
<1>8. CASE RsLoad2(t)
  BY <1>1, <1>2, <1>8 DEF RsLoad2, TypeOK, tableVars, locals
<1>9. CASE RsFit(t)
  <2>1. size' = size /\ sz' = sz /\ sz[t] \in 2 .. size
    BY <1>1, <1>9 DEF RsFit, locals
  <2>2. maxload' = maxload \/ maxload' = sz[t] \div 2
    BY <1>9 DEF RsFit
  <2>3. 2 * maxload' <= size'
    BY <1>1, <1>2, <2>1, <2>2
  <2>4. \A u \in Threads : /\ pc'[u] \in SizePCs => pc[u] \in SizePCs
                           /\ pc'[u] = "rs_grow" => pc[u] = "rs_grow"
    BY <1>1, <1>9 DEF RsFit, TypeOK
  <2> HIDE DEF SizePCs, Goto
  <2> QED
    BY <1>1, <1>2, <2>1, <2>3, <2>4
<1>10. CASE Return(t)
  BY <1>1, <1>2, <1>10 DEF Return, TypeOK, EndSearch, StartAt, tableVars, locals
<1>11. ASSUME UNCHANGED <<size, maxload, sz>>, pc'[t] \notin SizePCs
      PROVE  Resizing'
  BY <1>1, <1>2, <1>11, OnlyOwn DEF Others
<1>12. CASE EntFound(t)
  BY <1>1, <1>12, <1>11 DEF EntFound, tableVars, locals, TypeOK
<1>13. CASE EntHead(t)
  BY <1>1, <1>13, <1>11 DEF EntHead, tableVars, locals, TypeOK
<1>14. CASE EntParent(t)
  BY <1>1, <1>14, <1>11 DEF EntParent, tableVars, locals, TypeOK
<1>15. CASE EntSet(t)
  BY <1>1, <1>15, <1>11 DEF EntSet, EntReturn, tableVars, locals, TypeOK
<1>16. CASE EntLost(t)
  BY <1>1, <1>16, <1>11 DEF EntLost, tableVars, locals, TypeOK
<1>17. CASE EntGet(t)
  BY <1>1, <1>17, <1>11 DEF EntGet, tableVars, locals, TypeOK
<1>18. CASE EntGetParent(t)
  BY <1>1, <1>18, <1>11 DEF EntGetParent, tableVars, locals, TypeOK
<1>19. CASE EntGetNone(t)
  BY <1>1, <1>19, <1>11 DEF EntGetNone, Fail, tableVars, locals, TypeOK
<1>20. CASE InsWalk(t)
  BY <1>1, <1>20, <1>11 DEF InsWalk, tableVars, locals, TypeOK
<1>21. CASE InsFound(t)
  BY <1>1, <1>21, <1>11 DEF InsFound, tableVars, locals, TypeOK
<1>22. CASE InsDuplicate(t)
  BY <1>1, <1>22, <1>11 DEF InsDuplicate, Fail, tableVars, locals, TypeOK
<1>23. CASE InsLink(t)
  BY <1>1, <1>23, <1>11 DEF InsLink, tableVars, locals, TypeOK
<1>24. CASE InsRetry(t)
  BY <1>1, <1>24, <1>11 DEF InsRetry, tableVars, locals, TypeOK
<1>25. CASE KeyWalk(t)
  BY <1>1, <1>25, <1>11 DEF KeyWalk, tableVars, locals, TypeOK
<1>26. CASE KeyNone(t)
  BY <1>1, <1>26, <1>11 DEF KeyNone, Fail, tableVars, locals, TypeOK
<1>27. CASE KeyFound(t)
  BY <1>1, <1>27, <1>11 DEF KeyFound, tableVars, locals, TypeOK
<1>28. CASE Mark(t)
  BY <1>1, <1>28, <1>11 DEF Mark, tableVars, locals, TypeOK
<1>29. CASE MarkLost(t)
  BY <1>1, <1>29, <1>11 DEF MarkLost, Fail, tableVars, locals, TypeOK
<1>30. CASE Unlink(t)
  BY <1>1, <1>30, <1>11
     DEF Unlink, NodeGone, DummyGone, EntReturn, tableVars, locals, TypeOK
<1>31. CASE UnlinkRetry(t)
  BY <1>1, <1>31, <1>11 DEF UnlinkRetry, tableVars, locals, TypeOK
<1>32. CASE NodeWalk(t)
  BY <1>1, <1>32, <1>11 DEF NodeWalk, tableVars, locals, TypeOK
<1>33. CASE NodeFound(t)
  BY <1>1, <1>33, <1>11 DEF NodeFound, tableVars, locals, TypeOK
<1>34. CASE NodeNone(t)
  BY <1>1, <1>34, <1>11
     DEF NodeNone, DummyGone, EntReturn, Fail, tableVars, locals, TypeOK
<1>35. CASE NumAdd(t)
  BY <1>1, <1>35, <1>11 DEF NumAdd, tableVars, locals, TypeOK
<1>36. CASE NumSub(t)
  BY <1>1, <1>36, <1>11 DEF NumSub, tableVars, locals, TypeOK
<1>37. CASE Call(t)
  BY <1>1, <1>37, <1>11, ZenonT(60)
     DEF Call, Insert, Delete, Get, Begin, tableVars, TypeOK
<1> QED
  BY <1>3, <1>4, <1>5, <1>6, <1>7, <1>8, <1>9, <1>10, <1>12, <1>13, <1>14,
     <1>15, <1>16, <1>17, <1>18, <1>19, <1>20, <1>21, <1>22, <1>23, <1>24,
     <1>25, <1>26, <1>27, <1>28, <1>29, <1>30, <1>31, <1>32, <1>33, <1>34,
     <1>35, <1>36, <1>37 DEF Work

-----------------------------------------------------------------------------
(* The inductive invariant.  C are the nodes on the chain and D those that *)
(* were unlinked; r is the order in which all of them were linked, and m   *)
(* what the next one gets.  h and nx stand for hashnr and next.            *)

(* The order of the chain: by hash number, and where these are equal by    *)
(* the time of linking.                                                    *)
Ahead(h, r, a, b) == h[a] < h[b] \/ (h[a] = h[b] /\ r[a] < r[b])

(* x comes between n and the node behind n. *)
Skips(h, r, nx, n, x) ==
  Ahead(h, r, n, x) /\ (nx[n].to = Null \/ Ahead(h, r, x, nx[n].to))

Ranked(C, D, r, m) ==
  /\ C \subseteq Nodes /\ D \subseteq Nodes /\ C \cap D = {}
  /\ r \in [Nodes -> Nat] /\ m \in Nat
  /\ \A a \in C \cup D : r[a] < m
  /\ \A a, b \in C \cup D : r[a] = r[b] => a = b

(* The chain is in order and leaves out none of its nodes; what an         *)
(* unlinked node leaves out came before the hash number behind it.         *)
Chained(C, D, h, r, nx) ==
  /\ \A n \in C : nx[n].to \in C \cup {Null}
  /\ \A n \in D : nx[n].del /\ nx[n].to \in C \cup D \cup {Null}
  /\ \A n \in C \cup D : nx[n].to # Null => Ahead(h, r, n, nx[n].to)
  /\ \A n, x \in C : ~Skips(h, r, nx, n, x)
  /\ \A n \in D, x \in C :
       Skips(h, r, nx, n, x) /\ nx[n].to # Null => h[x] < h[nx[n].to]
  /\ \A x \in C \ {list_head} : \E n \in C : nx[n].to = x

Headed(C, D) ==
  /\ list_head \in C /\ key[list_head] = NoKey
  /\ ~next[list_head].del /\ hashnr[list_head] = Reverse(0)
  /\ (C \cup D) \cap free = {}

Tabled(C, D) ==
  /\ \A b \in Buckets : entrys[b] # Null =>
       /\ entrys[b] \in C /\ key[entrys[b]] = NoKey /\ ~next[entrys[b]].del
       /\ hashnr[entrys[b]] = Reverse(b)
       /\ entrys[0] # Null
  /\ entrys[0] = Null => C \cup D = {list_head}

Filed(C, D) ==
  /\ \A n \in C \cup D :
       IF key[n] = NoKey THEN \E b \in Buckets : hashnr[n] = Reverse(b)
       ELSE hashnr[n] = HashNr(key[n])
  /\ \A n \in C : key[n] # NoKey => dict[key[n]].val = n
  /\ \A k \in Keys :
       IF dict[k].val = Null THEN ~dict[k].leaving
       ELSE /\ dict[k].val \in C /\ key[dict[k].val] = k
            /\ dict[k].leaving = next[dict[k].val].del

(* What the calls of ab_hash_entry_insert work on, the innermost first:    *)
(* every bucket's dummy can be found from the one before it, and the last  *)
(* one's before the key k.                                                 *)
Nested(s, k) ==
  \A i \in 1 .. Len(s) :
    IF i = Len(s) THEN Reverse(s[i][1]) < HashNr(k)
    ELSE Reverse(s[i][1]) <= Reverse(s[i + 1][1])
Distinct(s) == \A i, j \in 1 .. Len(s) : s[i][2] = s[j][2] => i = j

(* A dummy that is not entered in the table. *)
Spare(b, d, D) ==
  /\ b # 0 /\ d \notin D /\ d \notin free /\ d # list_head
  /\ key[d] = NoKey /\ hashnr[d] = Reverse(b)
  /\ \A e \in Buckets : entrys[e] # d

Dummies(t) == {stack[t][i][2] : i \in 1 .. Len(stack[t])}
Mine(t) == Dummies(t) \cup (IF Building(t) THEN {node[t]} ELSE {})

(* The thread takes the node of a key out. *)
Taking(t) == pc[t] \in {"unlink", "node_find"} /\ stack[t] = <<>>

OutPCs == {"ent_set"} \cup DropPCs
Owns(t, C, D) ==
  /\ \A i \in 1 .. Len(stack[t]) :
       /\ Spare(stack[t][i][1], stack[t][i][2], D)
       /\ stack[t][i][2] \in C <=> i = 1 /\ pc[t] \in OutPCs
  /\ Distinct(stack[t]) /\ Nested(stack[t], arg[t])
  /\ Building(t) => /\ node[t] \notin C \cup D \cup free
                    /\ key[node[t]] = arg[t] /\ hashnr[node[t]] = HashNr(arg[t])
  /\ stack[t] # <<>> =>
       /\ pc[t] \in {"ent_set", "mark"} => ~next[Subject(t)].del
       /\ pc[t] = "unlink" => next[Subject(t)].del
  /\ Taking(t) => node[t] \in C /\ next[node[t]].del
  /\ pc[t] = "mark" /\ stack[t] = <<>> => node[t] \in C \cup D
  /\ pc[t] \in DropPCs /\ stack[t] = <<>> => key[node[t]] = arg[t]

Apart(t, u) ==
  /\ Mine(t) \cap Mine(u) = {}
  /\ Taking(t) /\ Taking(u) => node[t] # node[u]

(* The hash number a thread looks for, and whether it can start at x. *)
Sought(t) ==
  IF stack[t] = <<>> THEN HashNr(arg[t]) ELSE Reverse(Head(stack[t])[1])
Fits(t, x) == IF stack[t] = <<>> THEN x < Sought(t) ELSE x <= Sought(t)

Seeks(t, C, D, r) ==
  /\ pc[t] \in {"ent_insert", "ent_get"} => Fits(t, Reverse(bucket[t]))
  /\ pc[t] \in SearchPCs =>
       /\ \E b \in Buckets : entry[t] = entrys[b]
       /\ Fits(t, hashnr[entry[t]])
       /\ prev[t] \in C \cup D
  /\ pc[t] \in {"ins_find", "ins_cas"} =>
       /\ hashnr[prev[t]] <= Sought(t)
       /\ stack[t] = <<>> =>
            \A x \in C : key[x] = arg[t] => Ahead(hashnr, r, prev[t], x)
  /\ pc[t] = "ins_cas" /\ cur[t] # Null =>
       cur[t] \in C \cup D /\ hashnr[cur[t]] > Sought(t)

(* What the thread's call has met: f are the nodes that were on the chain  *)
(* at some moment of it, since it set a flag if it did.                    *)
Missed(t) == Absent \in seen[t]
Met(t, C, D, r, f) ==
  /\ C \subseteq f /\ f \subseteq C \cup D
  /\ \A q \in f : next[q].to \in f \cup {Null}
  /\ dict[arg[t]] \in seen[t]
  /\ \A q \in f : key[q] = arg[t] => /\ \E s \in seen[t] : s.val = q
                                     /\ q \in D => Missed(t)
  /\ Missed(t) \/ \A q \in f : ~Skips(hashnr, r, next, q, dict[arg[t]].val)

Here(t, C, D, r, f) ==
  /\ pc[t] \in SearchPCs \ {"unlink"} => prev[t] \in f
  /\ pc[t] = "key_find" => Missed(t) \/ Ahead(hashnr, r, prev[t], dict[arg[t]].val)
  /\ pc[t] = "mark" /\ stack[t] = <<>> => node[t] \in f
  /\ Taking(t) => \A q \in f : /\ key[q] = arg[t] => q = node[t]
                               /\ ~Skips(hashnr, r, next, q, node[t])
  /\ Taking(t) /\ pc[t] = "node_find" => Ahead(hashnr, r, prev[t], node[t])

Saw(t, C, D, r, f) == pc[t] # "idle" => Met(t, C, D, r, f) /\ Here(t, C, D, r, f)

Whole(C, D, r, m) ==
  /\ Ranked(C, D, r, m) /\ Chained(C, D, hashnr, r, next)
  /\ Headed(C, D) /\ Tabled(C, D) /\ Filed(C, D)
  /\ \A t \in Threads : Owns(t, C, D) /\ Seeks(t, C, D, r)
  /\ \A t, u \in Threads : t # u => Apart(t, u)
  /\ \A t \in Threads : \E f : Saw(t, C, D, r, f)

-----------------------------------------------------------------------------
(* The chain as a structure. *)

Ordered(S, h, r) ==
  /\ \A a \in S : ~Ahead(h, r, a, a)
  /\ \A a, b \in S : a = b \/ Ahead(h, r, a, b) \/ Ahead(h, r, b, a)
  /\ \A a, b, c \in S : Ahead(h, r, a, b) /\ Ahead(h, r, b, c) => Ahead(h, r, a, c)
  /\ \A a, b \in S : Ahead(h, r, a, b) => h[a] <= h[b]
  /\ \A a, b \in S : h[a] < h[b] => Ahead(h, r, a, b)
  /\ \A a \in S : h[a] \in Nat

(* Ahead is a total order of the nodes that were linked. *)
LEMMA AheadOrder ==
  ASSUME NEW C, NEW D, NEW r, NEW m, NEW h \in [Nodes -> Nat], Ranked(C, D, r, m)
  PROVE  Ordered(C \cup D, h, r)
<1>1. \A a \in C \cup D : h[a] \in Nat /\ r[a] \in Nat
  BY DEF Ranked
<1>2. \A a, b \in C \cup D : r[a] = r[b] => a = b
  BY DEF Ranked
<1> QED
  BY <1>1, <1>2 DEF Ordered, Ahead

(* Linking x: its rank is the highest one. *)
Next2(r, x, m) == [r EXCEPT ![x] = m]
(* A node that is linked is the last one with its hash number. *)
LEMMA LinkRanks ==
  ASSUME NEW C, NEW D, NEW r, NEW m, NEW h \in [Nodes -> Nat], Ranked(C, D, r, m),
         NEW x \in Nodes, x \notin C \cup D
  PROVE  /\ Ranked(C \cup {x}, D, Next2(r, x, m), m + 1)
         /\ \A a, b \in C \cup D : Ahead(h, Next2(r, x, m), a, b) <=> Ahead(h, r, a, b)
         /\ \A a \in C \cup D : /\ Ahead(h, Next2(r, x, m), a, x) <=> h[a] <= h[x]
                                /\ Ahead(h, Next2(r, x, m), x, a) <=> h[x] < h[a]
<1> DEFINE q == Next2(r, x, m)
<1>1. /\ \A a \in C \cup D : q[a] = r[a] /\ r[a] \in Nat /\ r[a] < m /\ h[a] \in Nat
      /\ q[x] = m /\ m \in Nat /\ h[x] \in Nat /\ q \in [Nodes -> Nat]
  BY DEF Ranked, Next2
<1> HIDE DEF q
<1>2. Ranked(C \cup {x}, D, q, m + 1)
  BY <1>1 DEF Ranked
<1>3. /\ \A a, b \in C \cup D : Ahead(h, q, a, b) <=> Ahead(h, r, a, b)
      /\ \A a \in C \cup D : /\ Ahead(h, q, a, x) <=> h[a] <= h[x]
                             /\ Ahead(h, q, x, a) <=> h[x] < h[a]
  BY <1>1 DEF Ahead
<1> QED
  BY <1>2, <1>3 DEF q

(* What a step does to a node's place on the chain. *)
Links(p, x, c, nx, nx2) ==
  /\ nx2[x].to = c /\ nx2[p].to = x /\ ~nx2[p].del
  /\ \A n \in Nodes \ {p, x} : nx2[n] = nx[n]

(* The CAS of ab_hash_list_insert (ab_hash.c:299) keeps the order of the   *)
(* chain: the node behind p was read with the CAS, so that nothing is      *)
(* between.                                                                *)
LEMMA LinkChained ==
  ASSUME NEW C, NEW D, NEW r, NEW m, NEW h \in [Nodes -> Nat], NEW nx, NEW nx2,
         Ranked(C, D, r, m), Chained(C, D, h, r, nx),
         NEW x \in Nodes, x \notin C \cup D, NEW p \in C, NEW c,
         nx[p].to = c, Links(p, x, c, nx, nx2),
         h[p] <= h[x], c # Null => h[x] < h[c]
  PROVE  Chained(C \cup {x}, D, h, Next2(r, x, m), nx2)
<1> DEFINE q == Next2(r, x, m)
           A(a, b) == Ahead(h, r, a, b)
           B(a, b) == Ahead(h, q, a, b)
<1>1. /\ \A a, b \in C \cup D : B(a, b) <=> A(a, b)
      /\ \A a \in C \cup D : (B(a, x) <=> h[a] <= h[x]) /\ (B(x, a) <=> h[x] < h[a])
  BY LinkRanks, ZenonT(60)
<1>2. Ordered((C \cup {x}) \cup D, h, q)
  BY LinkRanks, AheadOrder
<1>3. x \notin C /\ x \notin D /\ p \in C /\ p # x /\ p \notin D /\ c \in C \cup {Null} /\ c # x
      /\ Null \notin C \cup D \cup {x} /\ C \subseteq Nodes /\ D \subseteq Nodes
  BY KeyAssumption DEF Ranked, Chained
<1>4. \A n \in (C \cup D) \ {p} : nx2[n] = nx[n]
  BY <1>3 DEF Links
<1>5. nx2[x].to = c /\ nx2[p].to = x
  BY DEF Links
<1> HIDE DEF q
<1>6. B(p, x) /\ (c # Null => B(x, c) /\ B(p, c))
  <2>1. B(p, x)
    BY <1>1, <1>3
  <2>2. c # Null => B(x, c)
    BY <1>1, <1>3
  <2> QED
    BY <1>2, <1>3, <2>1, <2>2 DEF Ordered
<1>7. \A n \in C \cup {x} : nx2[n].to \in (C \cup {x}) \cup {Null}
  BY <1>3, <1>4, <1>5 DEF Chained
<1>8. \A n \in D : nx2[n].del /\ nx2[n].to \in (C \cup {x}) \cup D \cup {Null}
  BY <1>3, <1>4 DEF Chained
<1>9. \A n \in (C \cup {x}) \cup D : nx2[n].to # Null => B(n, nx2[n].to)
  <2>1. \A n \in (C \cup D) \ {p} : nx[n].to # Null => A(n, nx[n].to) /\ nx[n].to \in C \cup D
    BY DEF Chained
  <2> QED
    BY <1>1, <1>4, <1>5, <1>6, <2>1
<1>10. ASSUME NEW n \in C \cup {x}, NEW y \in C \cup {x}, Skips(h, q, nx2, n, y)
       PROVE  FALSE
  <2>0. B(n, y) /\ (nx2[n].to = Null \/ B(y, nx2[n].to))
    BY <1>10 DEF Skips
  <2>1. \A a, b \in C : ~(A(a, b) /\ (nx[a].to = Null \/ A(b, nx[a].to)))
    BY DEF Chained, Skips
  <2>2. \A a \in C : nx[a].to \in C \cup {Null}
    BY DEF Chained
  <2>3. CASE n = p
    <3>1. B(y, x)
      BY <1>3, <1>5, <2>0, <2>3
    <3>2. y # x /\ y \in C /\ (c # Null => B(y, c))
      BY <1>2, <1>3, <1>6, <3>1 DEF Ordered
    <3> QED
      BY <1>1, <1>3, <2>0, <2>1, <2>3, <3>2
  <2>4. CASE n = x
    <3>1. y # x /\ y \in C /\ B(p, y)
      BY <1>2, <1>3, <1>6, <2>0, <2>4 DEF Ordered
    <3>2. c = Null \/ B(y, c)
      BY <1>5, <2>0, <2>4
    <3> QED
      BY <1>1, <1>3, <2>1, <3>1, <3>2
  <2>5. CASE n # p /\ n # x /\ y = x
    <3>1. n \in C /\ nx2[n] = nx[n] /\ B(n, x) /\ (nx[n].to = Null \/ B(x, nx[n].to))
      BY <1>4, <2>0, <2>5
    <3>2. CASE B(n, p)
      <4>1. nx[n].to # Null /\ ~A(p, nx[n].to)
        BY <1>1, <1>3, <2>1, <3>1, <3>2
      <4>2. nx[n].to \in C /\ (nx[n].to = p \/ B(nx[n].to, p))
        BY <1>1, <1>2, <1>3, <2>2, <3>1, <4>1 DEF Ordered
      <4>3. B(nx[n].to, x)
        BY <1>2, <1>3, <1>6, <4>2 DEF Ordered
      <4> QED
        BY <1>2, <3>1, <4>1, <4>2, <4>3 DEF Ordered
    <3>3. CASE B(p, n)
      <4>1. c # Null /\ ~A(n, c)
        BY <1>1, <1>3, <2>1, <3>1, <3>3
      <4>2. c \in C /\ (c = n \/ B(c, n))
        BY <1>1, <1>2, <1>3, <3>1, <4>1 DEF Ordered
      <4>3. B(x, n)
        BY <1>2, <1>3, <1>6, <3>1, <4>1, <4>2 DEF Ordered
      <4> QED
        BY <1>2, <3>1, <4>3 DEF Ordered
    <3> QED
      BY <1>2, <1>3, <2>5, <3>1, <3>2, <3>3 DEF Ordered
  <2>6. CASE n # p /\ n # x /\ y # x
    BY <1>1, <1>3, <1>4, <2>0, <2>1, <2>2, <2>6
  <2> QED
    BY <2>3, <2>4, <2>5, <2>6
<1>11. ASSUME NEW n \in D, NEW y \in C \cup {x}, Skips(h, q, nx2, n, y), nx2[n].to # Null
       PROVE  h[y] < h[nx2[n].to]
  <2>1. nx2[n] = nx[n] /\ nx[n].to \in C \cup D /\ nx[n].to # Null
    BY <1>3, <1>4, <1>11 DEF Chained
  <2>2. B(n, y) /\ B(y, nx[n].to)
    BY <1>11, <2>1 DEF Skips
  <2>3. CASE y = x
    BY <1>1, <2>1, <2>2, <2>3
  <2>4. CASE y # x
    <3>1. A(n, y) /\ A(y, nx[n].to) /\ y \in C
      BY <1>1, <2>1, <2>2, <2>4
    <3> QED
      BY <2>1, <3>1 DEF Chained, Skips
  <2> QED
    BY <2>3, <2>4
<1>12. \A y \in (C \cup {x}) \ {list_head} : \E n \in C \cup {x} : nx2[n].to = y
  <2> SUFFICES ASSUME NEW y \in (C \cup {x}) \ {list_head}
               PROVE  \E n \in C \cup {x} : nx2[n].to = y
    OBVIOUS
  <2>1. CASE y = x
    BY <1>3, <1>5, <2>1
  <2>2. CASE y # x
    <3>1. PICK n \in C : nx[n].to = y
      BY <2>2 DEF Chained
    <3>2. n = p => nx2[x].to = y
      BY <1>5, <3>1
    <3> QED
      BY <1>4, <3>1, <3>2
  <2> QED
    BY <2>1, <2>2
<1> QED
  BY <1>7, <1>8, <1>9, <1>10, <1>11, <1>12 DEF Chained, q

(* The CAS of ab_hash_list_delete (ab_hash.c:328) keeps it: the node that  *)
(* is bypassed has its flag set, so that nothing is linked behind it any   *)
(* more.                                                                   *)
LEMMA UnlinkChained ==
  ASSUME NEW C, NEW D, NEW r, NEW m, NEW h \in [Nodes -> Nat], NEW nx, NEW nx2,
         Ranked(C, D, r, m), Chained(C, D, h, r, nx),
         NEW x \in C, NEW p \in C, nx[p].to = x, nx[x].del, x # list_head,
         nx2[p].to = nx[x].to, \A n \in Nodes \ {p} : nx2[n] = nx[n]
  PROVE  /\ Ranked(C \ {x}, D \cup {x}, r, m)
         /\ Chained(C \ {x}, D \cup {x}, h, r, nx2)
<1> DEFINE A(a, b) == Ahead(h, r, a, b)
           c == nx[x].to
<1>1. Ordered(C \cup D, h, r)
  BY AheadOrder
<1>2. /\ C \subseteq Nodes /\ D \subseteq Nodes /\ C \cap D = {} /\ Null \notin C \cup D
      /\ Ranked(C \ {x}, D \cup {x}, r, m)
  BY KeyAssumption DEF Ranked
<1>3. \A a, b \in C : ~(A(a, b) /\ (nx[a].to = Null \/ A(b, nx[a].to)))
  BY DEF Chained, Skips
<1>4. A(p, x) /\ c \in C \cup {Null} /\ (c # Null => A(x, c) /\ A(p, c) /\ c # x) /\ p # x
  <2>1. A(p, x) /\ c \in C \cup {Null} /\ (c # Null => A(x, c))
    BY <1>2 DEF Chained
  <2> QED
    BY <1>1, <2>1 DEF Ordered
<1>5. \A n \in (C \cup D) \ {p} : nx2[n] = nx[n]
  BY <1>2
<1>6. \A n \in C \ {p} : nx[n].to # x
  <2> SUFFICES ASSUME NEW n \in C \ {p}, nx[n].to = x PROVE FALSE
    OBVIOUS
  <2>1. A(n, x)
    BY <1>2 DEF Chained
  <2>2. A(n, p) \/ A(p, n)
    BY <1>1 DEF Ordered
  <2> QED
    BY <1>3, <1>4, <2>1, <2>2
<1>7. \A n \in C \ {x} : nx2[n].to \in (C \ {x}) \cup {Null}
  <2>1. \A n \in C : nx[n].to \in C \cup {Null}
    BY DEF Chained
  <2> QED
    BY <1>4, <1>5, <1>6, <2>1
<1>8. \A n \in D \cup {x} : nx2[n].del /\ nx2[n].to \in (C \ {x}) \cup (D \cup {x}) \cup {Null}
  <2>1. \A n \in D : nx[n].del /\ nx[n].to \in C \cup D \cup {Null}
    BY DEF Chained
  <2> QED
    BY <1>2, <1>4, <1>5, <2>1
<1>9. \A n \in (C \ {x}) \cup (D \cup {x}) : nx2[n].to # Null => A(n, nx2[n].to)
  <2>1. \A n \in C \cup D : nx[n].to # Null => A(n, nx[n].to)
    BY DEF Chained
  <2> QED
    BY <1>4, <1>5, <2>1
<1>10. ASSUME NEW n \in C \ {x}, NEW y \in C \ {x}, Skips(h, r, nx2, n, y)
       PROVE  FALSE
  <2>0. A(n, y) /\ (nx2[n].to = Null \/ A(y, nx2[n].to))
    BY <1>10 DEF Skips
  <2>1. CASE n = p
    <3>1. A(y, x) \/ A(x, y)
      BY <1>1 DEF Ordered
    <3> QED
      BY <1>3, <2>0, <2>1, <3>1
  <2>2. CASE n # p
    BY <1>3, <1>5, <2>0, <2>2
  <2> QED
    BY <2>1, <2>2
<1>11. ASSUME NEW n \in D \cup {x}, NEW y \in C \ {x}, Skips(h, r, nx2, n, y), nx2[n].to # Null
       PROVE  h[y] < h[nx2[n].to]
  <2>1. nx2[n] = nx[n]
    BY <1>2, <1>4, <1>5
  <2>2. Skips(h, r, nx, n, y) /\ nx[n].to # Null
    BY <1>11, <2>1 DEF Skips
  <2> QED
    BY <2>1, <2>2 DEF Chained
<1>12. \A y \in (C \ {x}) \ {list_head} : \E n \in C \ {x} : nx2[n].to = y
  <2> SUFFICES ASSUME NEW y \in (C \ {x}) \ {list_head}
               PROVE  \E n \in C \ {x} : nx2[n].to = y
    OBVIOUS
  <2>1. PICK n \in C : nx[n].to = y
    BY DEF Chained
  <2>2. n # p
    BY <2>1
  <2> QED
    BY <1>4, <1>5, <2>1, <2>2
<1> QED
  BY <1>2, <1>7, <1>8, <1>9, <1>10, <1>11, <1>12 DEF Chained

-----------------------------------------------------------------------------
(* Steps that leave the chain, the table and the dictionary alone.         *)

chain == <<next, hashnr, key, free, entrys, dict>>

(* The locals that the invariant is about. *)
Same(u) ==
  /\ pc'[u] = pc[u] /\ arg'[u] = arg[u] /\ bucket'[u] = bucket[u]
  /\ stack'[u] = stack[u] /\ entry'[u] = entry[u] /\ prev'[u] = prev[u]
  /\ cur'[u] = cur[u] /\ node'[u] = node[u]

(* What a thread owns and looks for depends on its locals only. *)
LEMMA SameMine ==
  ASSUME NEW u, Same(u)
  PROVE  /\ Mine(u)' = Mine(u) /\ Taking(u)' = Taking(u) /\ Building(u)' = Building(u)
         /\ Subject(u)' = Subject(u) /\ Sought(u)' = Sought(u)
         /\ \A x : Fits(u, x)' = Fits(u, x)
<1>1. Dummies(u)' = Dummies(u) /\ Building(u)' = Building(u)
  BY DEF Dummies, Same, Building
<1>2. Taking(u)' = Taking(u) /\ Subject(u)' = Subject(u) /\ Sought(u)' = Sought(u)
  BY DEF Taking, Same, Subject, Sought, HashNr
<1> QED
  BY <1>1, <1>2 DEF Mine, Fits, Same

(* A thread that did nothing knows what it knew, if the chain did not      *)
(* change.                                                                 *)
LEMMA SameThread ==
  ASSUME NEW u, Same(u), UNCHANGED chain, NEW C, NEW D, NEW r
  PROVE  /\ Owns(u, C, D) => Owns(u, C, D)'
         /\ Seeks(u, C, D, r) => Seeks(u, C, D, r)'
         /\ \A f : seen'[u] = seen[u] /\ Saw(u, C, D, r, f) => Saw(u, C, D, r, f)'
<1>1. Owns(u, C, D) => Owns(u, C, D)'
  BY SameMine DEF Owns, Same, chain, Spare, OutPCs
<1>2. Seeks(u, C, D, r) => Seeks(u, C, D, r)'
  BY SameMine DEF Seeks, Same, chain
<1>3. ASSUME NEW f, seen'[u] = seen[u], Saw(u, C, D, r, f) PROVE Saw(u, C, D, r, f)'
  BY <1>3, SameMine DEF Saw, Met, Here, Missed, Same, chain
<1> QED
  BY <1>1, <1>2, <1>3

(* A step that changes nothing on the chain and gives nothing to its       *)
(* thread keeps the invariant if the thread still has its part of it.      *)
LEMMA Quiet ==
  ASSUME NEW t \in Threads, NEW C, NEW D, NEW r, NEW m,
         Whole(C, D, r, m), UNCHANGED chain,
         \A u \in Threads \ {t} : Same(u) /\ seen'[u] = seen[u],
         Mine(t)' \subseteq Mine(t),
         Taking(t)' => Taking(t) /\ node'[t] = node[t],
         Owns(t, C, D)', Seeks(t, C, D, r)', \E f : Saw(t, C, D, r, f)'
  PROVE  Whole(C, D, r, m)'
<1>1. Headed(C, D)' /\ Tabled(C, D)' /\ Filed(C, D)'
  BY DEF Whole, Headed, Tabled, Filed, chain
<1>2. \A u \in Threads : Owns(u, C, D)' /\ Seeks(u, C, D, r)'
  BY SameThread DEF Whole
<1>3. \A u \in Threads : \E f : Saw(u, C, D, r, f)'
  BY SameThread DEF Whole
<1>4. \A u, v \in Threads : u # v => Apart(u, v)'
  <2> SUFFICES ASSUME NEW u \in Threads, NEW v \in Threads, u # v PROVE Apart(u, v)'
    OBVIOUS
  <2>1. Apart(u, v)
    BY DEF Whole
  <2>2. Mine(u)' \subseteq Mine(u) /\ Mine(v)' \subseteq Mine(v)
    BY SameMine
  <2>3. /\ Taking(u)' => Taking(u) /\ node'[u] = node[u]
        /\ Taking(v)' => Taking(v) /\ node'[v] = node[v]
    BY SameMine DEF Same
  <2> QED
    BY <2>1, <2>2, <2>3 DEF Apart
<1> QED
  BY <1>1, <1>2, <1>3, <1>4 DEF Whole, chain

-----------------------------------------------------------------------------
(* A key is none of a dummy, and its hash number is a number. *)
LEMMA KeyFacts ==
  ASSUME NEW k \in Keys
  PROVE  k # NoKey /\ HashNr(k) \in Nat
<1>1. TwoTo[Bits] \in Nat
  BY TwoToIs, BoundAssumption
<1> QED
  BY <1>1, KeyNr, KeyAssumption

(* The node of the dictionary, and the other nodes of its key. *)
LEMMA DictIs ==
  ASSUME NEW C, NEW D, NEW r, NEW m, TypeInv, Whole(C, D, r, m), NEW k \in Keys
  PROVE  /\ dict[k].val # Null => /\ dict[k].val \in C /\ key[dict[k].val] = k
                                  /\ dict[k].leaving = next[dict[k].val].del
         /\ dict[k].val = Null <=> dict[k] = Absent
         /\ \A x \in C \cup D : key[x] = k => /\ hashnr[x] = HashNr(k)
                                              /\ x \in C => dict[k].val = x
<1>1. dict[k] \in [val : MaybeNode, leaving : BOOLEAN] /\ Filed(C, D)
  BY DEF TypeInv, TypeOK, Whole
<1>2. k # NoKey
  BY KeyFacts
<1>3. dict[k].val = Null <=> dict[k] = Absent
  <2>1. dict[k].val = Null => ~dict[k].leaving
    BY <1>1 DEF Filed
  <2>2. /\ dict[k] = [val |-> dict[k].val, leaving |-> dict[k].leaving]
        /\ dict[k].leaving \in BOOLEAN
    BY <1>1
  <2>3. ASSUME dict[k].val = Null PROVE dict[k] = Absent
    <3>1. dict[k].leaving = FALSE
      BY <2>1, <2>2, <2>3
    <3> QED
      BY <2>2, <2>3, <3>1 DEF Absent
  <2>4. ASSUME dict[k] = Absent PROVE dict[k].val = Null
    BY <2>4 DEF Absent
  <2> QED
    BY <2>3, <2>4
<1> QED
  BY <1>1, <1>2, <1>3 DEF Filed

(* The order of the chain, for use with the invariant. *)
LEMMA WholeOrder ==
  ASSUME NEW C, NEW D, NEW r, NEW m, TypeInv, Whole(C, D, r, m)
  PROVE  /\ Ordered(C \cup D, hashnr, r) /\ hashnr \in [Nodes -> Nat]
         /\ C \subseteq Nodes /\ D \subseteq Nodes /\ Null \notin C \cup D /\ C \cap D = {}
<1>1. TwoTo[Bits] \in Nat
  BY TwoToIs, BoundAssumption
<1>2. hashnr \in [Nodes -> 0 .. TwoTo[Bits] - 1] /\ Ranked(C, D, r, m)
  BY DEF TypeInv, TypeOK, Whole
<1>3. hashnr \in [Nodes -> Nat]
  BY <1>1, <1>2
<1> QED
  BY <1>2, <1>3, AheadOrder, KeyAssumption DEF Ranked

(* An entry of a key's bucket comes before the node of the key. *)
LEMMA Before ==
  ASSUME NEW C, NEW D, NEW r, NEW m, TypeInv, Whole(C, D, r, m),
         NEW k \in Keys, NEW e \in C \cup D, hashnr[e] < HashNr(k),
         NEW x \in C \cup D, key[x] = k
  PROVE  Ahead(hashnr, r, e, x)
<1>1. hashnr[x] = HashNr(k)
  BY DictIs
<1> QED
  BY <1>1, WholeOrder DEF Ordered

(* An entry of the table, as the start of a search. *)
LEMMA EntryIs ==
  ASSUME NEW C, NEW D, NEW r, NEW m, TypeInv, Whole(C, D, r, m),
         NEW b \in Buckets, entrys[b] # Null
  PROVE  entrys[b] \in C /\ hashnr[entrys[b]] = Reverse(b) /\ hashnr[entrys[b]] \in Nat
<1>1. entrys[b] \in C /\ hashnr[entrys[b]] = Reverse(b)
  BY DEF Whole, Tabled
<1> QED
  BY <1>1, WholeOrder

(* What is inserted, or taken out. *)
LEMMA SubjectIs ==
  ASSUME NEW C, NEW D, NEW r, NEW m, TypeInv, Whole(C, D, r, m),
         NEW t \in Threads, Building(t) \/ pc[t] \in DropPCs
  PROVE  /\ arg[t] \in Keys /\ Subject(t) \in Nodes
         /\ hashnr[Subject(t)] = Sought(t) /\ Sought(t) \in Nat
         /\ stack[t] = <<>> => Subject(t) = node[t] /\ key[node[t]] = arg[t]
         /\ stack[t] # <<>> => /\ Subject(t) = stack[t][1][2] /\ Subject(t) \in Dummies(t)
                               /\ key[Subject(t)] = NoKey
                               /\ Spare(stack[t][1][1], Subject(t), D)
<1>1. pc[t] # "idle" /\ Shape(t) /\ TypeOK /\ Owns(t, C, D)
  BY DEF TypeInv, Whole, Building, DropPCs, InsertPCs
<1>2. arg[t] \in Keys /\ Subject(t) \in Nodes
  BY <1>1, Typed DEF Shape
<1>3. ASSUME stack[t] = <<>>
      PROVE  Subject(t) = node[t] /\ key[node[t]] = arg[t] /\ hashnr[Subject(t)] = Sought(t)
  <2>1. key[node[t]] = arg[t]
    BY <1>1, <1>3 DEF Owns
  <2>2. node[t] \in C \cup D \/ Building(t)
    BY <1>1, <1>3 DEF Owns, DropPCs, Taking
  <2>3. hashnr[node[t]] = HashNr(arg[t])
    BY <1>1, <1>2, <2>1, <2>2, DictIs DEF Owns
  <2> QED
    BY <1>3, <2>1, <2>3 DEF Subject, Sought
<1>4. ASSUME stack[t] # <<>>
      PROVE  /\ Subject(t) = stack[t][1][2] /\ Subject(t) \in Dummies(t)
             /\ key[Subject(t)] = NoKey /\ hashnr[Subject(t)] = Sought(t)
             /\ Spare(stack[t][1][1], Subject(t), D)
  <2>1. Subject(t) = stack[t][1][2] /\ 1 \in 1 .. Len(stack[t])
    BY <1>1, <1>4, Stacked DEF Subject
  <2>2. Spare(stack[t][1][1], stack[t][1][2], D)
    BY <1>1, <2>1 DEF Owns
  <2>3. Sought(t) = Reverse(stack[t][1][1])
    BY <1>1, <1>4, Stacked DEF Sought
  <2> QED
    BY <2>1, <2>2, <2>3 DEF Spare, Dummies
<1>5. Sought(t) \in Nat
  <2>1. hashnr[Subject(t)] \in Nat
    BY <1>2, WholeOrder
  <2> QED
    BY <1>3, <1>4, <2>1
<1> QED
  BY <1>2, <1>3, <1>4, <1>5

(* Parts of the invariant of a thread that many steps keep. *)
LEMMA KeepOwns ==
  ASSUME NEW t \in Threads, NEW C, NEW D, Owns(t, C, D), UNCHANGED chain,
         stack'[t] = stack[t], arg'[t] = arg[t], node'[t] = node[t],
         pc[t] \in OutPCs <=> pc'[t] \in OutPCs,
         pc'[t] \in DropPCs /\ stack[t] = <<>> => pc[t] \in DropPCs,
         Building(t)' => Building(t), Taking(t)' => Taking(t),
         stack[t] # <<>> => /\ pc'[t] \in {"ent_set", "mark"} => ~next[Subject(t)].del
                            /\ pc'[t] = "unlink" => next[Subject(t)].del,
         pc'[t] = "mark" /\ stack[t] = <<>> => pc[t] = "mark"
  PROVE  Owns(t, C, D)'
<1>1. Subject(t)' = Subject(t)
  BY DEF Subject
<1> QED
  BY <1>1 DEF Owns, chain, Spare

(* What a call has met stays if the step is not about its key. *)
LEMMA KeepMet ==
  ASSUME NEW t \in Threads, NEW C, NEW D, NEW r, NEW f, Met(t, C, D, r, f), UNCHANGED chain,
         arg'[t] = arg[t], seen'[t] = seen[t]
  PROVE  Met(t, C, D, r, f)'
BY DEF Met, chain, Missed

(* The search of a call is over. *)
LEMMA DoneStep ==
  ASSUME NEW t \in Threads, NEW C, NEW D, NEW r, NEW m, TypeInv, Whole(C, D, r, m),
         UNCHANGED chain, Others(t), \A u \in Threads \ {t} : seen'[u] = seen[u],
         pc[t] # "idle", pc'[t] \in DonePCs, stack[t] = <<>>, stack'[t] = stack[t],
         arg'[t] = arg[t], seen'[t] = seen[t]
  PROVE  Whole(C, D, r, m)'
<1>1. pc'[t] \notin SearchPCs \cup InsertPCs \cup OutPCs \cup {"ent_get", "ins_cas"}
  BY DEF DonePCs, InsertedPCs, SearchPCs, InsertPCs, OutPCs, DropPCs
<1>2. ~Building(t)' /\ ~Taking(t)' /\ Dummies(t)' = {} /\ Mine(t)' = {}
  BY <1>1 DEF Building, Taking, Dummies, Mine, SearchPCs, InsertPCs, DropPCs
<1>3. Owns(t, C, D)'
  BY <1>1, <1>2 DEF Owns, Distinct, Nested, OutPCs, DropPCs, SearchPCs
<1>4. Seeks(t, C, D, r)'
  BY <1>1 DEF Seeks, SearchPCs, InsertPCs
<1>5. PICK f : Saw(t, C, D, r, f)
  BY DEF Whole
<1>6. Met(t, C, D, r, f)'
  BY <1>5, KeepMet DEF Saw
<1>7. Here(t, C, D, r, f)'
  BY <1>1, <1>2 DEF Here, SearchPCs, DropPCs
<1>8. Saw(t, C, D, r, f)'
  BY <1>6, <1>7 DEF Saw
<1>9. \A u \in Threads \ {t} : Same(u) /\ seen'[u] = seen[u]
  BY DEF Others, Same
<1> QED
  BY <1>2, <1>3, <1>4, <1>8, <1>9, Quiet

-----------------------------------------------------------------------------
(* What the search of an insert ends with is the node of the call.         *)
LEMMA EndsAlone ==
  ASSUME NEW t \in Threads, NEW C, NEW D, NEW r, NEW m, TypeInv, Whole(C, D, r, m),
         InsDuplicate(t) \/ MarkLost(t)
  PROVE  stack[t] = <<>>
<1> SUFFICES ASSUME stack[t] # <<>> PROVE FALSE
  OBVIOUS
<1>1. pc[t] \in {"ins_find", "mark"}
  BY DEF InsDuplicate, MarkLost, Fail, Goto
<1>2. Building(t)
  BY <1>1 DEF Building, InsertPCs, DropPCs
<1>3. key[Subject(t)] = NoKey
  BY <1>2, SubjectIs
<1>4. MarkLost(t)
  BY <1>3 DEF InsDuplicate, IsDummy
<1>5. pc[t] = "mark" /\ next[Subject(t)].del
  BY <1>4 DEF MarkLost, Fail, Goto
<1> QED
  BY <1>5 DEF Whole, Owns

(* Steps that end the search of a call, and those behind the end. *)
LEMMA DoneSteps ==
  ASSUME NEW t \in Threads, NEW C, NEW D, NEW r, NEW m, TypeInv, Whole(C, D, r, m),
         \/ EntGetNone(t) \/ KeyNone(t) \/ MarkLost(t)
         \/ (KeyFound(t) /\ op[t] = "get") \/ (NodeNone(t) /\ stack[t] = <<>>)
         \/ NumAdd(t) \/ NumSub(t) \/ RsSize(t) \/ RsLoad(t) \/ RsNum(t) \/ RsGrow(t)
         \/ RsSize2(t) \/ RsLoad2(t) \/ RsFit(t)
  PROVE  Whole(C, D, r, m)'
<1>1. Others(t) /\ TypeOK /\ Shape(t)
  BY OnlyOwn DEF TypeInv, Work
<1> USE DEF TypeOK, Goto, Fail, EndSearch, StartAt, nodeVars, tableVars,
            callVars, locals, history, DropPCs
<1>2. /\ UNCHANGED chain /\ seen' = seen /\ arg' = arg /\ stack' = stack
      /\ pc'[t] \in DonePCs /\ stack[t] = <<>> /\ pc[t] # "idle"
  <2>1. CASE EntGetNone(t)
    BY <1>1, <2>1 DEF EntGetNone, chain, Shape, DonePCs
  <2>2. CASE KeyNone(t)
    BY <1>1, <2>2 DEF KeyNone, chain, Shape, DonePCs
  <2>3. CASE MarkLost(t)
    BY <1>1, <2>3, EndsAlone DEF MarkLost, chain, DonePCs
  <2>4. CASE KeyFound(t) /\ op[t] = "get"
    BY <1>1, <2>4 DEF KeyFound, chain, Shape, DonePCs
  <2>5. CASE NodeNone(t) /\ stack[t] = <<>>
    BY <1>1, <2>5 DEF NodeNone, DummyGone, chain, DonePCs
  <2>6. CASE NumAdd(t)
    BY <1>1, <2>6 DEF NumAdd, chain, Shape, DonePCs, InsertedPCs
  <2>7. CASE NumSub(t)
    BY <1>1, <2>7 DEF NumSub, chain, Shape, DonePCs, InsertedPCs
  <2>8. CASE RsSize(t)
    BY <1>1, <2>8 DEF RsSize, chain, Shape, DonePCs, InsertedPCs
  <2>9. CASE RsLoad(t)
    BY <1>1, <2>9 DEF RsLoad, chain, Shape, DonePCs, InsertedPCs
  <2>10. CASE RsNum(t)
    BY <1>1, <2>10 DEF RsNum, chain, Shape, DonePCs, InsertedPCs
  <2>11. CASE RsGrow(t)
    BY <1>1, <2>11 DEF RsGrow, chain, Shape, DonePCs, InsertedPCs
  <2>12. CASE RsSize2(t)
    BY <1>1, <2>12 DEF RsSize2, chain, Shape, DonePCs, InsertedPCs
  <2>13. CASE RsLoad2(t)
    BY <1>1, <2>13 DEF RsLoad2, chain, Shape, DonePCs, InsertedPCs
  <2>14. CASE RsFit(t)
    BY <1>1, <2>14 DEF RsFit, chain, Shape, DonePCs, InsertedPCs
  <2> QED
    BY <2>1, <2>2, <2>3, <2>4, <2>5, <2>6, <2>7, <2>8, <2>9, <2>10, <2>11,
       <2>12, <2>13, <2>14
<1> QED
  BY <1>1, <1>2, DoneStep

(* A call returns, or begins to look for its key. *)
LEMMA ReturnStep ==
  ASSUME NEW t \in Threads, NEW C, NEW D, NEW r, NEW m, TypeInv, Whole(C, D, r, m), Return(t)
  PROVE  Whole(C, D, r, m)'
<1>1. Others(t) /\ TypeOK /\ Shape(t)
  BY OnlyOwn DEF TypeInv, Work
<1>2. /\ UNCHANGED chain /\ pc'[t] = "idle" /\ stack'[t] = <<>>
      /\ \A u \in Threads \ {t} : seen'[u] = seen[u]
  BY <1>1 DEF Return, Goto, TypeOK, chain, nodeVars, tableVars, Shape, DonePCs
<1>3. ~Building(t)' /\ ~Taking(t)' /\ Dummies(t)' = {} /\ Mine(t)' = {}
  BY <1>2 DEF Building, Taking, Dummies, Mine, InsertPCs, DropPCs
<1>4. Owns(t, C, D)' /\ Seeks(t, C, D, r)'
  BY <1>2, <1>3 DEF Owns, Seeks, Distinct, Nested, OutPCs, DropPCs, SearchPCs
<1>5. Saw(t, C, D, r, {})'
  BY <1>2 DEF Saw
<1>6. \A u \in Threads \ {t} : Same(u) /\ seen'[u] = seen[u]
  BY <1>1, <1>2 DEF Others, Same
<1> QED
  BY <1>2, <1>3, <1>4, <1>5, <1>6, Quiet

(* What a call knows when it begins. *)
LEMMA BeginMet ==
  ASSUME NEW t \in Threads, NEW C, NEW D, NEW r, NEW m, TypeInv, Whole(C, D, r, m),
         NEW k \in Keys
  PROVE  /\ \A q \in C : next[q].to \in C \cup {Null}
         /\ \A q \in C : key[q] = k => dict[k].val = q
         /\ Absent = dict[k] \/ \A q \in C : ~Skips(hashnr, r, next, q, dict[k].val)
<1>1. Chained(C, D, hashnr, r, next)
  BY DEF Whole
<1>2. dict[k] # Absent => dict[k].val \in C
  BY DictIs
<1> QED
  BY <1>1, <1>2, DictIs DEF Chained

(* ab_hash_delete and ab_hash_get begin. *)
LEMMA FindStep ==
  ASSUME NEW t \in Threads, NEW C, NEW D, NEW r, NEW m, TypeInv, Whole(C, D, r, m),
         NEW k \in Keys, Delete(t, k) \/ Get(t, k)
  PROVE  Whole(C, D, r, m)'
<1>1. Others(t) /\ TypeOK /\ Shape(t)
  BY OnlyOwn DEF TypeInv, Call
<1>2. PICK o \in Ops : Begin(t, o, k, "ent_get")
  BY DEF Delete, Get, Begin
<1>3. /\ UNCHANGED chain /\ pc[t] = "idle" /\ pc'[t] = "ent_get" /\ stack'[t] = <<>>
      /\ arg'[t] = k /\ seen'[t] = {dict[k]} /\ bucket'[t] = Hash[k] % size
      /\ \A u \in Threads \ {t} : seen'[u] = seen[u]
  BY <1>1, <1>2 DEF Delete, Get, Begin, Goto, TypeOK, chain, tableVars, Shape
<1>4. ~Building(t)' /\ ~Taking(t)' /\ Dummies(t)' = {} /\ Mine(t)' = {}
  BY <1>3 DEF Building, Taking, Dummies, Mine, InsertPCs, DropPCs
<1>5. Owns(t, C, D)'
  BY <1>3, <1>4 DEF Owns, Distinct, Nested, OutPCs, DropPCs
<1>6. Reverse(Hash[k] % size) < HashNr(k)
  BY <1>2, BeginType
<1>7. Seeks(t, C, D, r)'
  BY <1>3, <1>6 DEF Seeks, Fits, Sought, SearchPCs, DropPCs, HashNr
<1>8. Met(t, C, D, r, C)'
  <2>1. next' = next /\ key' = key /\ dict' = dict /\ hashnr' = hashnr
    BY <1>3 DEF chain
  <2>2. C \cap D = {}
    BY WholeOrder
  <2>3. Missed(t)' <=> Absent = dict[k]
    BY <1>3 DEF Missed
  <2>4. /\ \A q \in C : next[q].to \in C \cup {Null}
        /\ \A q \in C : key[q] = k => dict[k].val = q
        /\ Absent = dict[k] \/ \A q \in C : ~Skips(hashnr, r, next, q, dict[k].val)
    BY BeginMet
  <2> QED
    BY <1>3, <2>1, <2>2, <2>3, <2>4 DEF Met
<1>9. Saw(t, C, D, r, C)'
  BY <1>3, <1>4, <1>8 DEF Saw, Here, SearchPCs, DropPCs
<1>10. \A u \in Threads \ {t} : Same(u) /\ seen'[u] = seen[u]
  BY <1>1, <1>3 DEF Others, Same
<1> QED
  BY <1>3, <1>4, <1>5, <1>7, <1>9, <1>10, Quiet

-----------------------------------------------------------------------------
(* A step of a search: what the thread works on stays the same. *)
LEMMA SearchStep ==
  ASSUME NEW t \in Threads, NEW C, NEW D, NEW r, NEW m, TypeInv, Whole(C, D, r, m),
         UNCHANGED chain, Others(t), seen' = seen,
         stack'[t] = stack[t], arg'[t] = arg[t], node'[t] = node[t],
         pc[t] # "idle",
         pc[t] \in OutPCs <=> pc'[t] \in OutPCs,
         pc'[t] \in DropPCs /\ stack[t] = <<>> => pc[t] \in DropPCs,
         Building(t)' => Building(t), Taking(t)' => Taking(t),
         stack[t] # <<>> => /\ pc'[t] \in {"ent_set", "mark"} => ~next[Subject(t)].del
                            /\ pc'[t] = "unlink" => next[Subject(t)].del,
         pc'[t] = "mark" /\ stack[t] = <<>> => pc[t] = "mark",
         Seeks(t, C, D, r)',
         \A f : Saw(t, C, D, r, f) => Here(t, C, D, r, f)'
  PROVE  Whole(C, D, r, m)'
<1>1. Owns(t, C, D)'
  BY KeepOwns DEF Whole
<1>2. PICK f : Saw(t, C, D, r, f)
  BY DEF Whole
<1>3. Saw(t, C, D, r, f)'
  BY <1>2, KeepMet DEF Saw
<1>4. Mine(t)' \subseteq Mine(t)
  <2>1. Dummies(t)' = Dummies(t)
    BY DEF Dummies
  <2> QED
    BY <2>1 DEF Mine
<1>5. \A u \in Threads \ {t} : Same(u) /\ seen'[u] = seen[u]
  BY DEF Others, Same
<1> QED
  BY <1>1, <1>3, <1>4, <1>5, Quiet

(* The node that a search looks at next. *)
LEMMA AfterIs ==
  ASSUME NEW t \in Threads, NEW C, NEW D, NEW r, NEW m, TypeInv, Whole(C, D, r, m),
         pc[t] \in SearchPCs
  PROVE  /\ prev[t] \in C \cup D /\ After(t) = next[prev[t]].to
         /\ After(t) # Null => After(t) \in C \cup D /\ Ahead(hashnr, r, prev[t], After(t))
         /\ \A f : Saw(t, C, D, r, f) /\ pc[t] # "unlink" =>
              /\ prev[t] \in f /\ (After(t) # Null => After(t) \in f)
              /\ Met(t, C, D, r, f) /\ Here(t, C, D, r, f)
<1>1. prev[t] \in C \cup D
  BY DEF Whole, Seeks
<1>2. After(t) = next[prev[t]].to /\ Chained(C, D, hashnr, r, next)
  BY DEF Whole, After
<1>3. After(t) # Null => After(t) \in C \cup D /\ Ahead(hashnr, r, prev[t], After(t))
  BY <1>1, <1>2 DEF Chained
<1>4. ASSUME NEW f, Saw(t, C, D, r, f), pc[t] # "unlink"
      PROVE  /\ prev[t] \in f /\ (After(t) # Null => After(t) \in f)
             /\ Met(t, C, D, r, f) /\ Here(t, C, D, r, f)
  <2>1. Met(t, C, D, r, f) /\ Here(t, C, D, r, f)
    BY <1>4 DEF Saw, SearchPCs, DropPCs
  <2>2. prev[t] \in f
    BY <1>4, <2>1 DEF Here
  <2>3. next[prev[t]].to \in f \cup {Null}
    BY <2>1, <2>2 DEF Met
  <2> QED
    BY <1>2, <2>1, <2>2, <2>3
<1> QED
  BY <1>1, <1>2, <1>3, <1>4

(* A search starts at an entry, for the same subject as before. *)
LEMMA StartIs ==
  ASSUME NEW t \in Threads, NEW C, NEW D, NEW r, NEW m, TypeInv, Whole(C, D, r, m),
         arg[t] \in Keys, NEW b \in Buckets, entrys[b] # Null, Fits(t, Reverse(b)),
         Sought(t) \in Nat
  PROVE  /\ entrys[b] \in C /\ Fits(t, hashnr[entrys[b]]) /\ hashnr[entrys[b]] <= Sought(t)
         /\ stack[t] = <<>> =>
              \A x \in C \cup D : key[x] = arg[t] => Ahead(hashnr, r, entrys[b], x)
<1>1. entrys[b] \in C /\ hashnr[entrys[b]] = Reverse(b) /\ hashnr[entrys[b]] \in Nat
  BY EntryIs
<1>2. hashnr[entrys[b]] <= Sought(t)
  BY <1>1 DEF Fits
<1>3. ASSUME stack[t] = <<>>, NEW x \in C \cup D, key[x] = arg[t]
      PROVE  Ahead(hashnr, r, entrys[b], x)
  <2>1. hashnr[entrys[b]] < HashNr(arg[t])
    BY <1>1, <1>3 DEF Fits, Sought
  <2> QED
    BY <1>1, <1>3, <2>1, Before
<1> QED
  BY <1>1, <1>2, <1>3

(* The entry of a bucket is there: a search for the node of an insert, or  *)
(* for the key of a get or a delete, starts from it.                       *)
LEMMA EntFoundStep ==
  ASSUME NEW t \in Threads, NEW C, NEW D, NEW r, NEW m, TypeInv, Whole(C, D, r, m),
         EntFound(t) \/ EntGet(t)
  PROVE  Whole(C, D, r, m)'
<1> DEFINE e == entrys[bucket[t]]
<1>1. Others(t) /\ TypeOK /\ Shape(t) /\ Owns(t, C, D) /\ Seeks(t, C, D, r)
  BY OnlyOwn DEF TypeInv, Work, Whole
<1>2. /\ UNCHANGED chain /\ seen' = seen /\ arg' = arg /\ stack' = stack /\ node' = node
      /\ entry'[t] = e /\ prev'[t] = e /\ e # Null /\ bucket[t] \in Buckets /\ cur' = cur
      /\ \/ pc[t] = "ent_insert" /\ pc'[t] = "ins_find"
         \/ pc[t] = "ent_get" /\ pc'[t] = "key_find"
  BY <1>1
     DEF EntFound, EntGet, StartAt, Goto, TypeOK, chain, nodeVars, tableVars,
         callVars, history
<1>3. arg[t] \in Keys /\ Fits(t, Reverse(bucket[t])) /\ Sought(t) \in Nat
  <2>1. arg[t] \in Keys /\ Fits(t, Reverse(bucket[t]))
    BY <1>1, <1>2 DEF Shape, Seeks
  <2>2. pc[t] = "ent_insert" => Sought(t) \in Nat
    BY SubjectIs DEF Building, InsertPCs
  <2>3. pc[t] = "ent_get" => Sought(t) \in Nat
    BY <1>1, <2>1, KeyFacts DEF Sought, Shape
  <2> QED
    BY <1>2, <2>1, <2>2, <2>3
<1>4. /\ e \in C /\ Fits(t, hashnr[e]) /\ hashnr[e] <= Sought(t)
      /\ stack[t] = <<>> => \A x \in C \cup D : key[x] = arg[t] => Ahead(hashnr, r, e, x)
  BY <1>2, <1>3, StartIs
<1> HIDE DEF e
<1>5. Sought(t)' = Sought(t) /\ (\A x : Fits(t, x)' = Fits(t, x))
  BY <1>2 DEF Sought, Fits, HashNr
<1>6. Seeks(t, C, D, r)'
  BY <1>2, <1>4, <1>5 DEF Seeks, chain, e
<1>7. ASSUME NEW f, Saw(t, C, D, r, f) PROVE Here(t, C, D, r, f)'
  <2>1. Met(t, C, D, r, f)
    BY <1>2, <1>7 DEF Saw
  <2>2. e \in f
    BY <1>4, <2>1 DEF Met
  <2>3. pc'[t] = "key_find" => Missed(t) \/ Ahead(hashnr, r, e, dict[arg[t]].val)
    <3>1. pc'[t] = "key_find" => stack[t] = <<>>
      BY <1>1, <1>2 DEF Shape
    <3>2. Missed(t) \/ (dict[arg[t]].val \in C /\ key[dict[arg[t]].val] = arg[t])
      BY <1>3, <2>1, DictIs DEF Met, Missed
    <3> QED
      BY <1>4, <3>1, <3>2
  <2> QED
    BY <1>2, <2>2, <2>3 DEF Here, Taking, Missed, chain
<1> QED
  BY <1>1, <1>2, <1>6, <1>7, SearchStep DEF Building, Taking, OutPCs, DropPCs, InsertPCs

-----------------------------------------------------------------------------
(* A get or delete takes the parent's bucket. *)
LEMMA EntGetParentStep ==
  ASSUME NEW t \in Threads, NEW C, NEW D, NEW r, NEW m, TypeInv, Whole(C, D, r, m),
         EntGetParent(t)
  PROVE  Whole(C, D, r, m)'
<1>1. Others(t) /\ TypeOK /\ Shape(t) /\ Seeks(t, C, D, r)
  BY OnlyOwn DEF TypeInv, Work, Whole
<1>2. /\ UNCHANGED chain /\ seen' = seen /\ arg' = arg /\ stack' = stack /\ node' = node
      /\ entry' = entry /\ prev' = prev /\ cur' = cur
      /\ pc[t] = "ent_get" /\ pc' = pc /\ bucket'[t] = Parent(bucket[t])
      /\ bucket[t] \in Buckets /\ bucket[t] # 0
  BY <1>1 DEF EntGetParent, TypeOK, chain, nodeVars, tableVars, callVars, history
<1>3. Reverse(bucket[t]) \in Nat /\ Reverse(Parent(bucket[t])) \in Nat
      /\ Reverse(Parent(bucket[t])) <= Reverse(bucket[t])
  <2>1. TwoTo[Bits] \in Nat
    BY TwoToIs, BoundAssumption
  <2> QED
    BY <1>2, <2>1, ParentNr, DummyNr
<1>4. stack[t] = <<>> /\ Sought(t) \in Nat
  BY <1>1, <1>2, KeyFacts DEF Shape, Sought
<1>5. Fits(t, Reverse(Parent(bucket[t])))
  BY <1>1, <1>2, <1>3, <1>4 DEF Seeks, Fits
<1>6. Sought(t)' = Sought(t) /\ (\A x : Fits(t, x)' = Fits(t, x))
  BY <1>2 DEF Sought, Fits, HashNr
<1>7. Seeks(t, C, D, r)'
  <2>1. Fits(t, Reverse(bucket[t]))'
    BY <1>2, <1>5, <1>6 DEF Reverse
  <2> QED
    BY <1>2, <2>1 DEF Seeks, SearchPCs, DropPCs
<1>8. ASSUME NEW f, Saw(t, C, D, r, f) PROVE Here(t, C, D, r, f)'
  BY <1>2 DEF Here, Taking, SearchPCs, DropPCs
<1> QED
  BY <1>1, <1>2, <1>7, <1>8, SearchStep DEF Building, Taking, OutPCs, DropPCs, InsertPCs

(* The search of an insert goes on: no node of its key is left behind. *)
LEMMA InsWalkStep ==
  ASSUME NEW t \in Threads, NEW C, NEW D, NEW r, NEW m, TypeInv, Whole(C, D, r, m),
         InsWalk(t)
  PROVE  Whole(C, D, r, m)'
<1> DEFINE a == After(t)
           p == prev[t]
<1>1. Others(t) /\ TypeOK /\ Shape(t) /\ Seeks(t, C, D, r)
  BY OnlyOwn DEF TypeInv, Work, Whole
<1>2. /\ UNCHANGED chain /\ seen' = seen /\ arg' = arg /\ stack' = stack /\ node' = node
      /\ entry' = entry /\ prev'[t] = a /\ cur' = cur /\ bucket' = bucket
      /\ pc[t] = "ins_find" /\ pc' = pc
      /\ a # Null /\ ~(hashnr[a] > hashnr[Subject(t)])
      /\ key[Subject(t)] = NoKey \/ key[a] # key[Subject(t)]
  BY <1>1
     DEF InsWalk, TypeOK, chain, nodeVars, tableVars, callVars, history, Passed,
         IsDummy
<1>3. /\ p \in C \cup D /\ a \in C \cup D /\ Ahead(hashnr, r, p, a) /\ a = next[p].to
      /\ \A f : Saw(t, C, D, r, f) => a \in f
  BY <1>2, AfterIs DEF SearchPCs
<1> HIDE DEF a, p
<1>4. /\ arg[t] \in Keys /\ hashnr[Subject(t)] = Sought(t) /\ Sought(t) \in Nat
      /\ stack[t] = <<>> => key[Subject(t)] = arg[t]
  BY <1>2, SubjectIs DEF Building, InsertPCs
<1>5. hashnr[a] <= Sought(t)
  <2>1. hashnr[a] \in Nat
    BY <1>3, WholeOrder
  <2> QED
    BY <1>2, <1>4, <2>1
<1>6. ASSUME stack[t] = <<>>, NEW x \in C, key[x] = arg[t] PROVE Ahead(hashnr, r, a, x)
  <2>1. Ahead(hashnr, r, p, x)
    BY <1>1, <1>2, <1>6 DEF Seeks, p
  <2>2. hashnr[x] = Sought(t)
    BY <1>4, <1>6, DictIs DEF Sought
  <2>3. a # x
    BY <1>2, <1>4, <1>6, KeyFacts
  <2>4. ASSUME Ahead(hashnr, r, x, a) PROVE FALSE
    <3>1. Skips(hashnr, r, next, p, x) /\ next[p].to # Null
      BY <1>2, <1>3, <2>1, <2>4 DEF Skips
    <3>2. p \in C => FALSE
      BY <1>6, <3>1 DEF Whole, Chained
    <3>3. p \in D => hashnr[x] < hashnr[a]
      BY <1>3, <1>6, <3>1 DEF Whole, Chained
    <3>4. hashnr[a] \in Nat /\ hashnr[x] \in Nat
      BY <1>3, <1>6, WholeOrder
    <3> QED
      BY <1>3, <1>5, <2>2, <3>2, <3>3, <3>4
  <2> QED
    BY <1>3, <1>6, <2>3, <2>4, WholeOrder DEF Ordered
<1>7. Sought(t)' = Sought(t) /\ (\A x : Fits(t, x)' = Fits(t, x))
  BY <1>2 DEF Sought, Fits, HashNr
<1>8. Seeks(t, C, D, r)'
  BY <1>1, <1>2, <1>3, <1>5, <1>6, <1>7 DEF Seeks, chain
<1>9. ASSUME NEW f, Saw(t, C, D, r, f) PROVE Here(t, C, D, r, f)'
  BY <1>2, <1>3, <1>9 DEF Here, Taking
<1> QED
  BY <1>1, <1>2, <1>8, <1>9, SearchStep DEF Building, Taking, OutPCs, DropPCs, InsertPCs

(* An insert has found the place of its node. *)
LEMMA InsFoundStep ==
  ASSUME NEW t \in Threads, NEW C, NEW D, NEW r, NEW m, TypeInv, Whole(C, D, r, m),
         InsFound(t)
  PROVE  Whole(C, D, r, m)'
<1>1. Others(t) /\ TypeOK /\ Shape(t) /\ Seeks(t, C, D, r)
  BY OnlyOwn DEF TypeInv, Work, Whole
<1>2. /\ UNCHANGED chain /\ seen' = seen /\ arg' = arg /\ stack' = stack /\ node' = node
      /\ entry' = entry /\ prev' = prev /\ cur'[t] = After(t) /\ bucket' = bucket
      /\ pc[t] = "ins_find" /\ pc'[t] = "ins_cas"
      /\ After(t) # Null => hashnr[After(t)] > hashnr[Subject(t)]
  BY <1>1
     DEF InsFound, Goto, TypeOK, chain, nodeVars, tableVars, callVars, history,
         Passed
<1>3. /\ hashnr[Subject(t)] = Sought(t)
      /\ After(t) # Null => After(t) \in C \cup D
  BY <1>2, SubjectIs, AfterIs DEF Building, InsertPCs, SearchPCs
<1>4. Sought(t)' = Sought(t) /\ (\A x : Fits(t, x)' = Fits(t, x))
  BY <1>2 DEF Sought, Fits, HashNr
<1>5. Seeks(t, C, D, r)'
  BY <1>1, <1>2, <1>3, <1>4 DEF Seeks, chain, SearchPCs
<1>6. ASSUME NEW f, Saw(t, C, D, r, f) PROVE Here(t, C, D, r, f)'
  BY <1>2, <1>6 DEF Saw, Here, Taking, SearchPCs
<1> QED
  BY <1>1, <1>2, <1>5, <1>6, SearchStep DEF Building, Taking, OutPCs, DropPCs, InsertPCs

(* A search starts again from its entry. *)
LEMMA AgainIs ==
  ASSUME NEW t \in Threads, NEW C, NEW D, NEW r, NEW m, TypeInv, Whole(C, D, r, m),
         pc[t] \in SearchPCs \ {"key_find"}
  PROVE  /\ entry[t] \in C /\ hashnr[entry[t]] <= Sought(t) /\ arg[t] \in Keys
         /\ stack[t] = <<>> =>
              \A x \in C \cup D : key[x] = arg[t] => Ahead(hashnr, r, entry[t], x)
<1>1. Shape(t) /\ Seeks(t, C, D, r)
  BY DEF TypeInv, Whole
<1>2. PICK b \in Buckets : entry[t] = entrys[b]
  BY <1>1 DEF Seeks
<1>3. entry[t] # Null /\ Fits(t, hashnr[entry[t]])
  BY <1>1 DEF Shape, Seeks
<1>4. hashnr[entry[t]] = Reverse(b)
  BY <1>2, <1>3, EntryIs
<1>5. arg[t] \in Keys /\ Sought(t) \in Nat
  BY SubjectIs DEF Building, InsertPCs, SearchPCs
<1> QED
  BY <1>2, <1>3, <1>4, <1>5, StartIs

(* An insert whose CAS failed searches again from the entry. *)
LEMMA InsRetryStep ==
  ASSUME NEW t \in Threads, NEW C, NEW D, NEW r, NEW m, TypeInv, Whole(C, D, r, m),
         InsRetry(t)
  PROVE  Whole(C, D, r, m)'
<1>1. Others(t) /\ TypeOK /\ Shape(t) /\ Seeks(t, C, D, r)
  BY OnlyOwn DEF TypeInv, Work, Whole
<1>2. /\ UNCHANGED chain /\ seen' = seen /\ arg' = arg /\ stack' = stack /\ node' = node
      /\ entry' = entry /\ prev'[t] = entry[t] /\ cur'[t] = Null /\ bucket' = bucket
      /\ pc[t] = "ins_cas" /\ pc'[t] = "ins_find"
  BY <1>1 DEF InsRetry, Goto, TypeOK, chain, nodeVars, tableVars, callVars, history
<1>3. /\ entry[t] \in C /\ hashnr[entry[t]] <= Sought(t)
      /\ stack[t] = <<>> => \A x \in C \cup D : key[x] = arg[t] => Ahead(hashnr, r, entry[t], x)
  BY <1>2, AgainIs DEF SearchPCs
<1>4. Sought(t)' = Sought(t) /\ (\A x : Fits(t, x)' = Fits(t, x))
  BY <1>2 DEF Sought, Fits, HashNr
<1>5. Seeks(t, C, D, r)'
  BY <1>1, <1>2, <1>3, <1>4 DEF Seeks, chain, SearchPCs
<1>6. ASSUME NEW f, Saw(t, C, D, r, f) PROVE Here(t, C, D, r, f)'
  BY <1>2, <1>3, <1>6 DEF Saw, Met, Here, Taking, SearchPCs
<1> QED
  BY <1>1, <1>2, <1>5, <1>6, SearchStep DEF Building, Taking, OutPCs, DropPCs, InsertPCs

(* The dummy that lost the race, or the node whose neighbour changed, is   *)
(* looked for from the entry again.                                        *)
LEMMA FindAgainStep ==
  ASSUME NEW t \in Threads, NEW C, NEW D, NEW r, NEW m, TypeInv, Whole(C, D, r, m),
         EntLost(t) \/ UnlinkRetry(t)
  PROVE  Whole(C, D, r, m)'
<1>1. Others(t) /\ TypeOK /\ Shape(t) /\ Seeks(t, C, D, r) /\ Owns(t, C, D)
  BY OnlyOwn DEF TypeInv, Work, Whole
<1>2. /\ UNCHANGED chain /\ seen' = seen /\ arg' = arg /\ stack' = stack /\ node' = node
      /\ entry' = entry /\ prev'[t] = entry[t] /\ cur' = cur /\ bucket' = bucket
      /\ pc[t] \in {"ent_set", "unlink"} /\ pc'[t] = "node_find"
      /\ pc[t] = "ent_set" => stack[t] # <<>>
  BY <1>1
     DEF EntLost, UnlinkRetry, Goto, TypeOK, chain, nodeVars, tableVars,
         callVars, history, Shape
<1>3. /\ entry[t] \in C /\ hashnr[entry[t]] <= Sought(t)
      /\ stack[t] = <<>> => \A x \in C \cup D : key[x] = arg[t] => Ahead(hashnr, r, entry[t], x)
  BY <1>2, AgainIs DEF SearchPCs, DropPCs
<1>4. Sought(t)' = Sought(t) /\ (\A x : Fits(t, x)' = Fits(t, x))
  BY <1>2 DEF Sought, Fits, HashNr
<1>5. Seeks(t, C, D, r)'
  BY <1>1, <1>2, <1>3, <1>4 DEF Seeks, chain, SearchPCs, DropPCs
<1>6. ASSUME NEW f, Saw(t, C, D, r, f) PROVE Here(t, C, D, r, f)'
  <2>1. Met(t, C, D, r, f) /\ Here(t, C, D, r, f) /\ entry[t] \in f
    BY <1>2, <1>3, <1>6 DEF Saw, Met
  <2>2. ASSUME Taking(t)' PROVE Taking(t) /\ Ahead(hashnr, r, entry[t], node[t])
    <3>1. stack[t] = <<>> /\ pc[t] = "unlink"
      BY <1>2, <2>2 DEF Taking
    <3>2. node[t] \in C /\ key[node[t]] = arg[t]
      BY <1>1, <3>1 DEF Owns, Taking, DropPCs
    <3> QED
      BY <1>3, <3>1, <3>2 DEF Taking
  <2> QED
    BY <1>2, <2>1, <2>2 DEF Here, chain
<1> QED
  BY <1>1, <1>2, <1>5, <1>6, SearchStep DEF Building, Taking, OutPCs, DropPCs, InsertPCs

-----------------------------------------------------------------------------
(* A get or delete goes on to the next node: it does not pass the node of  *)
(* its key, if that was there all the time.                                *)
LEMMA KeyWalkStep ==
  ASSUME NEW t \in Threads, NEW C, NEW D, NEW r, NEW m, TypeInv, Whole(C, D, r, m),
         KeyWalk(t)
  PROVE  Whole(C, D, r, m)'
<1> DEFINE a == After(t)
           p == prev[t]
           v == dict[arg[t]].val
<1>1. Others(t) /\ TypeOK /\ Shape(t) /\ Seeks(t, C, D, r)
  BY OnlyOwn DEF TypeInv, Work, Whole
<1>2. /\ UNCHANGED chain /\ seen' = seen /\ arg' = arg /\ stack' = stack /\ node' = node
      /\ entry' = entry /\ prev'[t] = a /\ cur' = cur /\ bucket' = bucket
      /\ pc[t] = "key_find" /\ pc' = pc
      /\ a # Null /\ ~(hashnr[a] > HashNr(arg[t])) /\ key[a] # arg[t]
  BY <1>1 DEF KeyWalk, TypeOK, chain, nodeVars, tableVars, callVars, history, Passed
<1>3. p \in C \cup D /\ a \in C \cup D /\ a = next[p].to
  BY <1>2, AfterIs DEF SearchPCs
<1>4. stack[t] = <<>> /\ arg[t] \in Keys
  BY <1>1, <1>2 DEF Shape
<1>5. ASSUME NEW f, Saw(t, C, D, r, f)
      PROVE  a \in f /\ (Missed(t) \/ Ahead(hashnr, r, a, v))
  <2>1. a \in f /\ p \in f /\ Met(t, C, D, r, f) /\ Here(t, C, D, r, f)
    BY <1>2, <1>5, AfterIs DEF SearchPCs
  <2>2. SUFFICES ASSUME ~Missed(t) PROVE Ahead(hashnr, r, a, v)
    BY <2>1
  <2>3. v \in C /\ key[v] = arg[t]
    BY <1>4, <2>1, <2>2, DictIs DEF Met, Missed
  <2>4. Ahead(hashnr, r, p, v) /\ ~Skips(hashnr, r, next, p, v)
    BY <1>2, <2>1, <2>2 DEF Met, Here
  <2>5. a # v /\ ~Ahead(hashnr, r, v, a)
    BY <1>2, <1>3, <2>3, <2>4 DEF Skips
  <2> HIDE DEF a, p, v
  <2> QED
    BY <1>3, <2>3, <2>5, WholeOrder DEF Ordered
<1> HIDE DEF a, p
<1>6. Sought(t)' = Sought(t) /\ (\A x : Fits(t, x)' = Fits(t, x))
  BY <1>2 DEF Sought, Fits, HashNr
<1>7. Seeks(t, C, D, r)'
  BY <1>1, <1>2, <1>3, <1>6 DEF Seeks, chain
<1>8. ASSUME NEW f, Saw(t, C, D, r, f) PROVE Here(t, C, D, r, f)'
  <2>1. a \in f /\ (Missed(t) \/ Ahead(hashnr, r, a, v))
    BY <1>5, <1>8
  <2> QED
    BY <1>2, <2>1 DEF Here, Taking, Missed, chain
<1> QED
  BY <1>1, <1>2, <1>7, <1>8, SearchStep DEF Building, Taking, OutPCs, DropPCs, InsertPCs

(* A delete has found a node of its key. *)
LEMMA KeyFoundStep ==
  ASSUME NEW t \in Threads, NEW C, NEW D, NEW r, NEW m, TypeInv, Whole(C, D, r, m),
         KeyFound(t), op[t] # "get"
  PROVE  Whole(C, D, r, m)'
<1> DEFINE a == After(t)
<1>1. Others(t) /\ TypeOK /\ Shape(t) /\ Seeks(t, C, D, r) /\ Owns(t, C, D)
  BY OnlyOwn DEF TypeInv, Work, Whole
<1>2. /\ UNCHANGED chain /\ seen' = seen /\ arg' = arg /\ stack' = stack /\ node'[t] = a
      /\ entry' = entry /\ prev' = prev /\ cur' = cur /\ bucket' = bucket
      /\ pc[t] = "key_find" /\ pc'[t] = "mark"
      /\ a # Null /\ key[a] = arg[t]
  BY <1>1
     DEF KeyFound, Goto, TypeOK, chain, nodeVars, tableVars, callVars, history,
         Passed
<1>3. a \in C \cup D
  BY <1>2, AfterIs DEF SearchPCs
<1>4. stack[t] = <<>> /\ arg[t] \in Keys
  BY <1>1, <1>2 DEF Shape
<1>5. \A f : Saw(t, C, D, r, f) => a \in f /\ Met(t, C, D, r, f) /\ Here(t, C, D, r, f)
  BY <1>2, AfterIs DEF SearchPCs
<1> HIDE DEF a
<1>6. Sought(t)' = Sought(t) /\ (\A x : Fits(t, x)' = Fits(t, x))
  BY <1>2 DEF Sought, Fits, HashNr
<1>7. Seeks(t, C, D, r)'
  BY <1>1, <1>2, <1>3, <1>6 DEF Seeks, chain, SearchPCs, DropPCs
<1>8. ~Building(t)' /\ ~Taking(t)' /\ Dummies(t)' = {} /\ Mine(t)' = {}
  BY <1>2, <1>4 DEF Building, Taking, Dummies, Mine, InsertPCs, DropPCs
<1>9. Owns(t, C, D)'
  BY <1>2, <1>3, <1>4, <1>8 DEF Owns, Distinct, Nested, chain
<1>10. PICK f : Saw(t, C, D, r, f)
  BY DEF Whole
<1>11. Met(t, C, D, r, f)'
  BY <1>2, <1>5, <1>10, KeepMet
<1>12. Here(t, C, D, r, f)'
  BY <1>2, <1>5, <1>8, <1>10 DEF Here, SearchPCs
<1>13. Saw(t, C, D, r, f)'
  BY <1>11, <1>12 DEF Saw
<1>14. \A u \in Threads \ {t} : Same(u) /\ seen'[u] = seen[u]
  BY <1>1, <1>2 DEF Others, Same
<1> QED
  BY <1>2, <1>7, <1>8, <1>9, <1>13, <1>14, Quiet

(* The search for the node before the one to be unlinked. *)
LEMMA NodeWalkStep ==
  ASSUME NEW t \in Threads, NEW C, NEW D, NEW r, NEW m, TypeInv, Whole(C, D, r, m),
         NodeWalk(t)
  PROVE  Whole(C, D, r, m)'
<1> DEFINE a == After(t)
<1>1. Others(t) /\ TypeOK /\ Shape(t) /\ Seeks(t, C, D, r) /\ Owns(t, C, D)
  BY OnlyOwn DEF TypeInv, Work, Whole
<1>2. /\ UNCHANGED chain /\ seen' = seen /\ arg' = arg /\ stack' = stack /\ node' = node
      /\ entry' = entry /\ prev'[t] = a /\ cur' = cur /\ bucket' = bucket
      /\ pc[t] = "node_find" /\ pc' = pc
      /\ a # Null /\ ~(hashnr[a] > hashnr[Subject(t)] - 1)
  BY <1>1 DEF NodeWalk, TypeOK, chain, nodeVars, tableVars, callVars, history, Passed
<1>3. a \in C \cup D /\ hashnr[a] \in Nat
  <2>1. a \in C \cup D
    BY <1>2, AfterIs DEF SearchPCs, DropPCs
  <2> QED
    BY <2>1, WholeOrder
<1>4. hashnr[Subject(t)] \in Nat
  BY <1>2, SubjectIs DEF DropPCs
<1>5. hashnr[a] < hashnr[Subject(t)]
  BY <1>2, <1>3, <1>4
<1>6. ASSUME Taking(t) PROVE Ahead(hashnr, r, a, node[t])
  <2>1. node[t] \in C /\ Subject(t) = node[t]
    BY <1>1, <1>2, <1>6 DEF Owns, Taking, Subject
  <2> HIDE DEF a
  <2> QED
    BY <1>3, <1>5, <2>1, WholeOrder DEF Ordered
<1>7. \A f : Saw(t, C, D, r, f) => a \in f /\ Here(t, C, D, r, f)
  BY <1>2, AfterIs DEF SearchPCs, DropPCs
<1> HIDE DEF a
<1>8. Sought(t)' = Sought(t) /\ (\A x : Fits(t, x)' = Fits(t, x))
  BY <1>2 DEF Sought, Fits, HashNr
<1>9. Seeks(t, C, D, r)'
  BY <1>1, <1>2, <1>3, <1>8 DEF Seeks, chain
<1>10. ASSUME NEW f, Saw(t, C, D, r, f) PROVE Here(t, C, D, r, f)'
  <2>1. a \in f /\ Here(t, C, D, r, f)
    BY <1>7, <1>10
  <2> QED
    BY <1>2, <1>6, <2>1 DEF Here, Taking, chain
<1> QED
  BY <1>1, <1>2, <1>9, <1>10, SearchStep DEF Building, Taking, OutPCs, DropPCs, InsertPCs

(* A delete has found the node before its own. *)
LEMMA NodeFoundStep ==
  ASSUME NEW t \in Threads, NEW C, NEW D, NEW r, NEW m, TypeInv, Whole(C, D, r, m),
         NodeFound(t)
  PROVE  Whole(C, D, r, m)'
<1>1. Others(t) /\ TypeOK /\ Shape(t) /\ Seeks(t, C, D, r) /\ Owns(t, C, D)
  BY OnlyOwn DEF TypeInv, Work, Whole
<1>2. /\ UNCHANGED chain /\ seen' = seen /\ arg' = arg /\ stack' = stack /\ node' = node
      /\ entry' = entry /\ prev' = prev /\ cur' = cur /\ bucket' = bucket
      /\ pc[t] = "node_find" /\ pc'[t] = IF next[Subject(t)].del THEN "unlink" ELSE "mark"
  BY <1>1
     DEF NodeFound, Goto, TypeOK, chain, nodeVars, tableVars, callVars, history,
         locals
<1>3. stack[t] = <<>> => Taking(t) /\ next[Subject(t)].del
  BY <1>1, <1>2 DEF Owns, Taking, Subject
<1>4. Sought(t)' = Sought(t) /\ (\A x : Fits(t, x)' = Fits(t, x))
  BY <1>2 DEF Sought, Fits, HashNr
<1>5. Seeks(t, C, D, r)'
  BY <1>1, <1>2, <1>4 DEF Seeks, chain, SearchPCs, DropPCs
<1>6. ASSUME NEW f, Saw(t, C, D, r, f) PROVE Here(t, C, D, r, f)'
  BY <1>2, <1>3, <1>6 DEF Saw, Here, Taking, SearchPCs, DropPCs, chain
<1> QED
  BY <1>1, <1>2, <1>3, <1>5, <1>6, SearchStep
     DEF Building, Taking, OutPCs, DropPCs, InsertPCs

-----------------------------------------------------------------------------
(* The end of a call of ab_hash_entry_insert: the caller goes on with its  *)
(* own dummy or with the node.                                             *)

LEMMA TailIs ==
  ASSUME NEW s \in Seq(Buckets \X Nodes), s # <<>>
  PROVE  /\ Tail(s) \in Seq(Buckets \X Nodes) /\ Len(s) \in Nat /\ Len(Tail(s)) = Len(s) - 1
         /\ \A i \in 1 .. Len(Tail(s)) : Tail(s)[i] = s[i + 1] /\ i + 1 \in 1 .. Len(s)
         /\ Tail(s) # <<>> => Head(Tail(s)) = s[2] /\ Len(s) > 1
         /\ Tail(s) = <<>> => Len(s) = 1
<1>1. Len(s) \in Nat \ {0} /\ Tail(s) \in Seq(Buckets \X Nodes) /\ Len(Tail(s)) = Len(s) - 1
  OBVIOUS
<1>2. \A i \in 1 .. Len(Tail(s)) : Tail(s)[i] = s[i + 1] /\ i + 1 \in 1 .. Len(s)
  BY <1>1
<1>3. Tail(s) # <<>> => Head(Tail(s)) = s[2] /\ Len(s) > 1
  BY <1>1, <1>2
<1>4. ASSUME Tail(s) = <<>> PROVE Len(s) = 1
  <2>1. Len(Tail(s)) = 0
    BY <1>1, <1>4, EmptySeq
  <2>2. Len(s) - 1 = 0 /\ Len(s) \in Nat
    BY <1>1, <2>1
  <2> QED
    BY <2>2
<1> QED
  BY <1>1, <1>2, <1>3, <1>4

(* The calls of ab_hash_entry_insert that are left still nest. *)
LEMMA TailNested ==
  ASSUME NEW s \in Seq(Buckets \X Nodes), s # <<>>, NEW k, Nested(s, k), Distinct(s)
  PROVE  /\ Nested(Tail(s), k) /\ Distinct(Tail(s))
         /\ IF Tail(s) = <<>> THEN Reverse(s[1][1]) < HashNr(k)
            ELSE Reverse(s[1][1]) <= Reverse(Head(Tail(s))[1])
<1> DEFINE u == Tail(s)
           n == Len(s)
           l == Len(u)
<1>1. n \in Nat \ {0} /\ l = n - 1
  BY TailIs
<1>2. \A i \in 1 .. l : u[i] = s[i + 1] /\ i + 1 \in 1 .. n
  BY TailIs
<1>3. u # <<>> => Head(u) = s[2] /\ n > 1
  BY TailIs
<1>4. u = <<>> => n = 1
  BY TailIs
<1>5. \A i \in 1 .. n : IF i = n THEN Reverse(s[i][1]) < HashNr(k)
                        ELSE Reverse(s[i][1]) <= Reverse(s[i + 1][1])
  BY DEF Nested
<1>6. \A i, j \in 1 .. n : s[i][2] = s[j][2] => i = j
  BY DEF Distinct
<1> HIDE DEF n, l, u
<1>7. \A i, j \in 1 .. l : u[i][2] = u[j][2] => i = j
  <2> SUFFICES ASSUME NEW i \in 1 .. l, NEW j \in 1 .. l, u[i][2] = u[j][2] PROVE i = j
    OBVIOUS
  <2>1. i + 1 = j + 1
    BY <1>2, <1>6
  <2> QED
    BY <1>1, <2>1
<1>8. ASSUME NEW i \in 1 .. l
      PROVE  IF i = l THEN Reverse(u[i][1]) < HashNr(k)
             ELSE Reverse(u[i][1]) <= Reverse(u[i + 1][1])
  <2>1. IF i + 1 = n THEN Reverse(s[i + 1][1]) < HashNr(k)
        ELSE Reverse(s[i + 1][1]) <= Reverse(s[(i + 1) + 1][1])
    BY <1>2, <1>5
  <2>2. CASE i = l
    BY <1>1, <1>2, <2>1, <2>2
  <2>3. CASE i # l
    <3>1. i + 1 \in 1 .. l /\ i + 1 # n
      BY <1>1, <2>3
    <3> QED
      BY <1>2, <2>1, <2>3, <3>1
  <2> QED
    BY <2>2, <2>3
<1>9. IF u = <<>> THEN Reverse(s[1][1]) < HashNr(k)
      ELSE Reverse(s[1][1]) <= Reverse(Head(u)[1])
  <2>1. 1 \in 1 .. n /\ 1 + 1 = 2
    BY <1>1
  <2>2. IF 1 = n THEN Reverse(s[1][1]) < HashNr(k)
        ELSE Reverse(s[1][1]) <= Reverse(s[1 + 1][1])
    BY <1>5, <2>1
  <2> QED
    BY <1>1, <1>3, <1>4, <2>1, <2>2
<1> QED
  BY <1>7, <1>8, <1>9 DEF Nested, Distinct, u, l

(* A thread whose innermost call of ab_hash_entry_insert returns gives its *)
(* dummy away, and owns the others.                                        *)
LEMMA PopOwns ==
  ASSUME NEW t \in Threads, NEW C, NEW D, NEW C2, NEW D2, TypeOK, Owns(t, C, D),
         stack[t] # <<>>, Building(t), stack'[t] = Tail(stack[t]), pc'[t] = "ins_find",
         arg'[t] = arg[t], node'[t] = node[t], UNCHANGED <<hashnr, key, free>>,
         C2 \subseteq C, D2 \subseteq D \cup {stack[t][1][2]},
         \A e \in Buckets : entrys'[e] \in {entrys[e], stack[t][1][2]},
         node[t] # stack[t][1][2]
  PROVE  Owns(t, C2, D2)' /\ Mine(t)' \subseteq Mine(t) \ {stack[t][1][2]} /\ ~Taking(t)'
<1> DEFINE s == stack[t]
<1>1. s \in Seq(Buckets \X Nodes)
  BY DEF TypeOK
<1>2. Nested(Tail(s), arg[t]) /\ Distinct(Tail(s))
  BY <1>1, TailNested DEF Owns
<1>3. /\ \A i \in 1 .. Len(Tail(s)) : Tail(s)[i] = s[i + 1] /\ i + 1 \in 1 .. Len(s) /\ i + 1 # 1
      /\ 1 \in 1 .. Len(s)
  BY <1>1, TailIs
<1>4. \A i \in 1 .. Len(Tail(s)) : Tail(s)[i][2] # s[1][2]
  BY <1>3 DEF Owns, Distinct
<1>5. ASSUME NEW i \in 1 .. Len(stack'[t])
      PROVE  Spare(stack[t][i][1], stack[t][i][2], D2)' /\ stack'[t][i][2] \notin C2
  <2>1. stack'[t][i] = stack[t][i + 1] /\ i + 1 \in 1 .. Len(stack[t]) /\ i + 1 # 1
    BY <1>3
  <2>2. stack'[t][i][2] # stack[t][1][2]
    BY <1>4
  <2>3. Spare(stack[t][i + 1][1], stack[t][i + 1][2], D) /\ stack[t][i + 1][2] \notin C
    BY <2>1 DEF Owns
  <2> HIDE DEF s
  <2> QED
    BY <2>1, <2>2, <2>3 DEF Spare
<1>6. Building(t)' /\ ~Taking(t)'
  BY DEF Building, Taking, InsertPCs
<1> HIDE DEF s
<1>7. Nested(stack[t], arg[t])' /\ Distinct(stack[t])'
  BY <1>2 DEF s
<1>8. Owns(t, C2, D2)'
  BY <1>5, <1>6, <1>7 DEF Owns, OutPCs, DropPCs, s, HashNr
<1>9. Mine(t)' \subseteq Mine(t) \ {s[1][2]}
  <2>1. Dummies(t)' \subseteq Dummies(t) \ {s[1][2]}
    <3>1. \A i \in 1 .. Len(Tail(s)) : Tail(s)[i][2] \in Dummies(t) \ {s[1][2]}
      BY <1>3, <1>4 DEF Dummies, s
    <3> QED
      BY <3>1 DEF Dummies, s
  <2> QED
    BY <1>6, <2>1 DEF Mine, s
<1> QED
  BY <1>6, <1>8, <1>9 DEF s

(* The caller's search can start at the entry that is returned. *)
LEMMA PopSeeks ==
  ASSUME NEW t \in Threads, NEW C, NEW D, NEW r, NEW m, TypeInv, Whole(C, D, r, m),
         NEW C2, NEW D2,
         stack[t] # <<>>, Building(t), stack'[t] = Tail(stack[t]), pc'[t] = "ins_find",
         arg'[t] = arg[t], UNCHANGED <<hashnr, key>>, C2 \subseteq C,
         NEW e, entry'[t] = e, prev'[t] = e, e \in C2, hashnr[e] = Reverse(stack[t][1][1]),
         entrys'[stack[t][1][1]] = e
  PROVE  Seeks(t, C2, D2, r)'
<1> DEFINE s == stack[t]
           b == stack[t][1][1]
<1>1. s \in Seq(Buckets \X Nodes) /\ b \in Buckets /\ Owns(t, C, D)
  BY Stacked DEF TypeInv, TypeOK, Whole
<1>2. IF Tail(s) = <<>> THEN Reverse(b) < HashNr(arg[t])
      ELSE Reverse(b) <= Reverse(Head(Tail(s))[1])
  BY <1>1, TailNested DEF Owns
<1>3. arg[t] \in Keys /\ hashnr[e] \in Nat /\ HashNr(arg[t]) \in Nat
  BY SubjectIs, KeyFacts, WholeOrder
<1> HIDE DEF s, b
<1>4. Sought(t)' = IF Tail(s) = <<>> THEN HashNr(arg[t]) ELSE Reverse(Head(Tail(s))[1])
  BY DEF Sought, s, HashNr, Reverse
<1>5. Fits(t, hashnr[e])' /\ hashnr[e] <= Sought(t)'
  <2>1. CASE Tail(s) = <<>>
    <3>1. stack'[t] = <<>> /\ Sought(t)' = HashNr(arg[t]) /\ hashnr[e] < HashNr(arg[t])
      BY <1>2, <1>4, <2>1 DEF s, b
    <3> QED
      BY <1>3, <3>1 DEF Fits
  <2>2. CASE Tail(s) # <<>>
    <3>1. stack'[t] # <<>> /\ hashnr[e] <= Sought(t)'
      BY <1>2, <1>4, <2>2 DEF s, b
    <3> QED
      BY <3>1 DEF Fits
  <2> QED
    BY <2>1, <2>2
<1>6. ASSUME stack'[t] = <<>>, NEW x \in C2, key[x] = arg[t] PROVE Ahead(hashnr, r, e, x)
  BY <1>2, <1>3, <1>6, Before DEF s, b
<1> QED
  BY <1>1, <1>5, <1>6 DEF Seeks, b

-----------------------------------------------------------------------------
(* The dummy was taken out again, or it stays without an entry: the search *)
(* goes on from the entry that another thread has set.                     *)
LEMMA NodeNoneStep ==
  ASSUME NEW t \in Threads, NEW C, NEW D, NEW r, NEW m, TypeInv, Whole(C, D, r, m),
         NodeNone(t), stack[t] # <<>>
  PROVE  Whole(C, D, r, m)'
<1> DEFINE b == stack[t][1][1]
           e == entrys[b]
<1>1. Others(t) /\ TypeOK /\ Shape(t) /\ Owns(t, C, D)
  BY OnlyOwn DEF TypeInv, Work, Whole
<1>2. /\ b \in Buckets /\ Head(stack[t])[1] = b /\ 1 \in 1 .. Len(stack[t])
  BY <1>1, Stacked
<1>3. /\ UNCHANGED chain /\ seen' = seen /\ arg' = arg /\ stack'[t] = Tail(stack[t])
      /\ node' = node /\ entry'[t] = e /\ prev'[t] = e
      /\ pc[t] = "node_find" /\ pc'[t] = "ins_find"
  BY <1>1, <1>2, SMTT(30)
     DEF NodeNone, DummyGone, EntReturn, StartAt, Goto, TypeOK, chain,
                    nodeVars, tableVars, callVars
<1>4. e # Null /\ Building(t)
  BY <1>1, <1>2, <1>3 DEF Shape, Building, DropPCs
<1>5. e \in C /\ hashnr[e] = Reverse(b)
  BY <1>2, <1>4, EntryIs
<1>6. node[t] # stack[t][1][2]
  BY <1>1, <1>2, <1>3, <1>4 DEF Owns, OutPCs, DropPCs
<1>7. Owns(t, C, D)' /\ Mine(t)' \subseteq Mine(t) /\ ~Taking(t)'
  BY <1>1, <1>3, <1>4, <1>6, PopOwns DEF chain
<1>8. entrys' = entrys /\ hashnr' = hashnr /\ key' = key
  BY <1>3 DEF chain
<1>9. Seeks(t, C, D, r)'
  BY <1>3, <1>4, <1>5, <1>8, PopSeeks
<1>10. PICK f : Saw(t, C, D, r, f)
  BY DEF Whole
<1>11. Met(t, C, D, r, f) /\ Met(t, C, D, r, f)'
  BY <1>3, <1>10, KeepMet DEF Saw
<1>12. e \in f
  BY <1>5, <1>11 DEF Met
<1>13. Saw(t, C, D, r, f)'
  BY <1>3, <1>7, <1>11, <1>12 DEF Saw, Here
<1>14. \A u \in Threads \ {t} : Same(u) /\ seen'[u] = seen[u]
  BY <1>1, <1>3 DEF Others, Same
<1> QED
  BY <1>3, <1>7, <1>9, <1>13, <1>14, Quiet

(* An entry is set, and nobody else works on its dummy. *)
LEMMA TableStep ==
  ASSUME NEW t \in Threads, NEW C, NEW D, NEW r, NEW m, TypeInv, Whole(C, D, r, m),
         UNCHANGED <<next, hashnr, key, free, dict>>, seen' = seen, Others(t),
         NEW b \in Buckets, NEW x \in C, entrys[b] = Null,
         entrys' = [entrys EXCEPT ![b] = x],
         key[x] = NoKey, ~next[x].del, hashnr[x] = Reverse(b), b = 0 \/ entrys[0] # Null,
         \A u \in Threads \ {t} : x \notin Dummies(u),
         Mine(t)' \subseteq Mine(t), ~Taking(t)',
         Owns(t, C, D)', Seeks(t, C, D, r)', \E f : Saw(t, C, D, r, f)'
  PROVE  Whole(C, D, r, m)'
<1>1. /\ entrys \in [Buckets -> MaybeNode]
      /\ \A e \in Buckets : entrys'[e] = IF e = b THEN x ELSE entrys[e]
  BY DEF TypeInv, TypeOK
<1>2. Headed(C, D)' /\ Filed(C, D)'
  BY DEF Whole, Headed, Filed
<1>3. Tabled(C, D)'
  <2>1. x # Null
    BY WholeOrder
  <2>2. Tabled(C, D)
    BY DEF Whole
  <2>3. 0 \in Buckets
    BY BucketMax
  <2>4. entrys'[0] # Null
    BY <1>1, <2>1, <2>3
  <2> QED
    BY <1>1, <2>2, <2>4 DEF Tabled
<1>4. ASSUME NEW u \in Threads, u # t
      PROVE  /\ Owns(u, C, D)' /\ Seeks(u, C, D, r)' /\ \E f : Saw(u, C, D, r, f)'
             /\ Mine(u)' = Mine(u) /\ Taking(u)' = Taking(u) /\ node'[u] = node[u]
  <2>1. Same(u) /\ Owns(u, C, D) /\ Seeks(u, C, D, r) /\ Shape(u)
    BY <1>4 DEF Others, Same, Whole, TypeInv
  <2>2. \A i \in 1 .. Len(stack[u]) : stack[u][i][2] # x
    BY <1>4 DEF Dummies
  <2>3. Owns(u, C, D)'
    BY <1>1, <2>1, <2>2, SameMine DEF Owns, Same, Spare, OutPCs
  <2>4. pc[u] \in SearchPCs => \E e \in Buckets : entry[u] = entrys'[e]
    BY <1>1, <2>1 DEF Seeks, Shape
  <2>5. Seeks(u, C, D, r)'
    BY <2>1, <2>4, SameMine DEF Seeks, Same
  <2>6. PICK f : Saw(u, C, D, r, f)
    BY DEF Whole
  <2>7. Saw(u, C, D, r, f)'
    BY <2>1, <2>6, SameMine DEF Saw, Met, Here, Missed, Same
  <2> QED
    BY <2>1, <2>3, <2>5, <2>7, SameMine DEF Same
<1>5. \A u, v \in Threads : u # v => Apart(u, v)'
  <2> SUFFICES ASSUME NEW u \in Threads, NEW v \in Threads, u # v PROVE Apart(u, v)'
    OBVIOUS
  <2>1. Apart(u, v)
    BY DEF Whole
  <2> QED
    BY <1>4, <2>1 DEF Apart
<1> QED
  BY <1>2, <1>3, <1>4, <1>5 DEF Whole

(* Bucket 0 gets its entry. *)
LEMMA EntHeadStep ==
  ASSUME NEW t \in Threads, NEW C, NEW D, NEW r, NEW m, TypeInv, Whole(C, D, r, m),
         EntHead(t)
  PROVE  Whole(C, D, r, m)'
<1>1. Others(t) /\ TypeOK /\ Shape(t) /\ Owns(t, C, D) /\ Seeks(t, C, D, r)
  BY OnlyOwn DEF TypeInv, Work, Whole
<1>2. /\ UNCHANGED <<next, hashnr, key, free, dict>>
      /\ seen' = seen /\ arg' = arg /\ stack' = stack /\ node' = node
      /\ entry'[t] = list_head /\ prev'[t] = list_head /\ cur' = cur
      /\ pc[t] = "ent_insert" /\ pc'[t] = "ins_find" /\ bucket[t] = 0 /\ entrys[0] = Null
      /\ entrys' = [entrys EXCEPT ![0] = list_head]
  BY <1>1 DEF EntHead, StartAt, Goto, TypeOK, nodeVars, tableVars, callVars, history
<1>3. /\ list_head \in C /\ key[list_head] = NoKey /\ ~next[list_head].del
      /\ hashnr[list_head] = Reverse(0) /\ 0 \in Buckets
  BY BucketMax DEF Whole, Headed
<1>4. /\ arg[t] \in Keys /\ Fits(t, Reverse(0)) /\ Sought(t) \in Nat /\ hashnr[list_head] \in Nat
  BY <1>1, <1>2, <1>3, SubjectIs, WholeOrder DEF Seeks, Building, InsertPCs
<1>5. hashnr[list_head] <= Sought(t)
  BY <1>3, <1>4 DEF Fits
<1>6. ASSUME stack[t] = <<>>, NEW x \in C, key[x] = arg[t]
      PROVE  Ahead(hashnr, r, list_head, x)
  <2>1. hashnr[list_head] < HashNr(arg[t])
    BY <1>3, <1>4, <1>6 DEF Fits, Sought
  <2> QED
    BY <1>3, <1>4, <1>6, <2>1, Before
<1>7. /\ Sought(t)' = Sought(t) /\ Subject(t)' = Subject(t)
      /\ Building(t) /\ Building(t)' /\ ~Taking(t)'
      /\ \A x : Fits(t, x)' = Fits(t, x)
  BY <1>2 DEF Sought, Subject, Building, Taking, Fits, InsertPCs
<1>8. entrys' \in [Buckets -> MaybeNode] /\ entrys'[0] = list_head
  BY <1>1, <1>2, <1>3, SmallTypes DEF TypeOK
<1>9. Seeks(t, C, D, r)'
  BY <1>2, <1>3, <1>4, <1>5, <1>6, <1>7, <1>8 DEF Seeks
<1>10. Owns(t, C, D)'
  <2>1. ASSUME NEW i \in 1 .. Len(stack[t]) PROVE Spare(stack[t][i][1], stack[t][i][2], D)'
    <3>1. Spare(stack[t][i][1], stack[t][i][2], D)
      BY <1>1 DEF Owns
    <3> QED
      BY <1>1, <1>2, <3>1 DEF Spare, TypeOK
  <2> QED
    BY <1>1, <1>2, <1>7, <2>1 DEF Owns, OutPCs, DropPCs
<1>11. PICK f : Saw(t, C, D, r, f)
  BY DEF Whole
<1>12. Met(t, C, D, r, f) /\ list_head \in f
  BY <1>2, <1>3, <1>11 DEF Saw, Met
<1>13. Saw(t, C, D, r, f)'
  BY <1>2, <1>7, <1>12 DEF Saw, Met, Here, Missed
<1>14. Mine(t)' \subseteq Mine(t)
  BY <1>2, <1>7 DEF Mine, Dummies
<1>15. \A u \in Threads \ {t} : list_head \notin Dummies(u)
  BY DEF Whole, Owns, Spare, Dummies
<1> QED
  BY <1>1, <1>2, <1>3, <1>7, <1>9, <1>10, <1>13, <1>14, <1>15, TableStep

(* A dummy that is on the chain is entered in the table. *)
LEMMA EntSetStep ==
  ASSUME NEW t \in Threads, NEW C, NEW D, NEW r, NEW m, TypeInv, Whole(C, D, r, m),
         EntSet(t)
  PROVE  Whole(C, D, r, m)'
<1> DEFINE b == stack[t][1][1]
           x == stack[t][1][2]
<1>1. Others(t) /\ TypeOK /\ Shape(t) /\ Owns(t, C, D) /\ Seeks(t, C, D, r)
  BY OnlyOwn DEF TypeInv, Work, Whole
<1>2. stack[t] # <<>> /\ pc[t] = "ent_set"
  BY <1>1 DEF EntSet, Shape
<1>3. /\ b \in Buckets /\ Head(stack[t])[1] = b /\ Subject(t) = x /\ 1 \in 1 .. Len(stack[t])
  BY <1>1, <1>2, Stacked DEF Subject
<1>4. /\ UNCHANGED <<next, hashnr, key, free, dict>>
      /\ seen' = seen /\ arg' = arg /\ stack'[t] = Tail(stack[t]) /\ node' = node
      /\ entry'[t] = x /\ prev'[t] = x /\ entrys[b] = Null
      /\ pc'[t] = "ins_find" /\ entrys' = [entrys EXCEPT ![b] = x]
  BY <1>1, <1>2, <1>3
     DEF EntSet, EntReturn, StartAt, Goto, TypeOK, nodeVars, tableVars,
         callVars, history
<1>5. Building(t)
  BY <1>2 DEF Building
<1>6. x \in C /\ Spare(b, x, D) /\ ~next[x].del
  BY <1>1, <1>2, <1>3 DEF Owns, OutPCs
<1>7. entrys[0] # Null
  <2>1. PICK e \in Buckets : entry[t] = entrys[e]
    BY <1>1, <1>2 DEF Seeks, SearchPCs
  <2>2. entrys[e] # Null
    BY <1>1, <1>2, <2>1 DEF Shape, SearchPCs
  <2> QED
    BY <2>2 DEF Whole, Tabled
<1>8. node[t] # x
  BY <1>1, <1>5, <1>6 DEF Owns
<1>9. \A e \in Buckets : entrys'[e] \in {entrys[e], x}
  BY <1>1, <1>4 DEF TypeOK
<1>10. Owns(t, C, D)' /\ Mine(t)' \subseteq Mine(t) /\ ~Taking(t)'
  BY <1>1, <1>2, <1>4, <1>5, <1>8, <1>9, PopOwns
<1>11. entrys'[b] = x
  BY <1>1, <1>3, <1>4 DEF TypeOK
<1>12. Seeks(t, C, D, r)'
  BY <1>2, <1>4, <1>5, <1>6, <1>11, PopSeeks DEF Spare
<1>13. PICK f : Saw(t, C, D, r, f)
  BY DEF Whole
<1>14. Met(t, C, D, r, f) /\ x \in f
  BY <1>2, <1>6, <1>13 DEF Saw, Met
<1> HIDE DEF x, b
<1>15. Saw(t, C, D, r, f)'
  BY <1>4, <1>10, <1>14 DEF Saw, Met, Here, Missed
<1>16. \A u \in Threads \ {t} : x \notin Dummies(u)
  <2>1. x \in Mine(t)
    BY <1>3 DEF Mine, Dummies, x
  <2> QED
    BY <2>1 DEF Whole, Apart, Mine
<1> QED
  BY <1>1, <1>3, <1>4, <1>6, <1>7, <1>10, <1>12, <1>15, <1>16, TableStep DEF Spare

-----------------------------------------------------------------------------
(* A node is taken from the pool: it is none that anybody knows. *)

LEMMA SameChained ==
  ASSUME NEW C, NEW D, NEW r, NEW h, NEW h2, NEW nx,
         Chained(C, D, h, r, nx), \A n \in C \cup D : h2[n] = h[n]
  PROVE  Chained(C, D, h2, r, nx)
<1>1. \A a, b \in C \cup D : Ahead(h2, r, a, b) <=> Ahead(h, r, a, b)
  BY DEF Ahead
<1>2. \A n \in C \cup D : nx[n].to \in C \cup D \cup {Null}
  BY DEF Chained
<1>3. \A n \in C \cup D, x \in C : Skips(h2, r, nx, n, x) <=> Skips(h, r, nx, n, x)
  BY <1>1, <1>2 DEF Skips
<1>4. \A n \in C \cup D : nx[n].to # Null => Ahead(h2, r, n, nx[n].to)
  BY <1>1, <1>2 DEF Chained
<1>5. \A n \in D, x \in C :
        Skips(h2, r, nx, n, x) /\ nx[n].to # Null => h2[x] < h2[nx[n].to]
  BY <1>2, <1>3 DEF Chained
<1> QED
  BY <1>3, <1>4, <1>5 DEF Chained

(* Only a node that is free is written. *)
Writes(x) ==
  /\ x \in free /\ free' = free \ {x} /\ UNCHANGED <<next, entrys, dict>>
  /\ \A n \in Nodes \ {x} : hashnr'[n] = hashnr[n] /\ key'[n] = key[n]

(* A node that is not on the chain can be written: the chain stays. *)
LEMMA FreshParts ==
  ASSUME NEW C, NEW D, NEW r, NEW m, TypeInv, Whole(C, D, r, m), NEW x, Writes(x)
  PROVE  /\ x \in Nodes /\ x \notin C \cup D /\ x # list_head
         /\ \A n \in C \cup D : n \in Nodes /\ n # x /\ hashnr'[n] = hashnr[n] /\ key'[n] = key[n]
         /\ Chained(C, D, hashnr, r, next)' /\ Headed(C, D)' /\ Tabled(C, D)' /\ Filed(C, D)'
<1>1. x \in Nodes /\ x \notin C \cup D /\ x # list_head /\ list_head \in C
  BY DEF Writes, Whole, Headed, TypeInv, TypeOK
<1>2. \A n \in C \cup D : n \in Nodes /\ n # x /\ hashnr'[n] = hashnr[n] /\ key'[n] = key[n]
  BY <1>1, WholeOrder DEF Writes
<1>3. Chained(C, D, hashnr', r, next)
  BY <1>2, SameChained DEF Whole
<1>4. Chained(C, D, hashnr, r, next)'
  BY <1>3 DEF Writes
<1>5. Headed(C, D)'
  BY <1>1, <1>2 DEF Whole, Headed, Writes, Reverse
<1>6. Tabled(C, D)'
  BY <1>2 DEF Whole, Tabled, Writes
<1>7. Filed(C, D)'
  <2>1. Filed(C, D)
    BY DEF Whole
  <2>2. \A n \in C \cup D :
          IF key'[n] = NoKey THEN \E b \in Buckets : hashnr'[n] = Reverse(b)
          ELSE hashnr'[n] = HashNr(key'[n])
    BY <1>2, <2>1 DEF Filed
  <2>3. /\ \A n \in C : key'[n] # NoKey => dict'[key'[n]].val = n
        /\ \A k \in Keys :
             IF dict'[k].val = Null THEN ~dict'[k].leaving
             ELSE /\ dict'[k].val \in C /\ key'[dict'[k].val] = k
                  /\ dict'[k].leaving = next'[dict'[k].val].del
    BY <1>2, <2>1 DEF Filed, Writes
  <2> QED
    BY <2>2, <2>3 DEF Filed, HashNr, Reverse
<1> QED
  BY <1>1, <1>2, <1>4, <1>5, <1>6, <1>7

(* So does its order. *)
LEMMA FreshSkips ==
  ASSUME NEW C, NEW D, NEW r, NEW m, TypeInv, Whole(C, D, r, m), NEW x, Writes(x)
  PROVE  /\ \A a, b \in C \cup D : Ahead(hashnr', r, a, b) <=> Ahead(hashnr, r, a, b)
         /\ \A a, b \in C \cup D : Skips(hashnr', r, next, a, b) <=> Skips(hashnr, r, next, a, b)
<1>1. \A n \in C \cup D : hashnr'[n] = hashnr[n]
  BY FreshParts
<1>2. \A a, b \in C \cup D : Ahead(hashnr', r, a, b) <=> Ahead(hashnr, r, a, b)
  BY <1>1 DEF Ahead
<1>3. \A a \in C \cup D : next[a].to \in C \cup D \cup {Null} /\ next' = next
  BY DEF Whole, Chained, Writes
<1>4. \A a, b \in C \cup D : Skips(hashnr', r, next, a, b) <=> Skips(hashnr, r, next, a, b)
  BY <1>2, <1>3 DEF Skips
<1> QED
  BY <1>2, <1>4

(* So does what a call has met. *)
LEMMA FreshMet ==
  ASSUME NEW C, NEW D, NEW r, NEW m, TypeInv, Whole(C, D, r, m), NEW x, Writes(x),
         NEW u, arg[u] \in Keys, arg'[u] = arg[u], seen'[u] = seen[u],
         NEW f, Met(u, C, D, r, f)
  PROVE  Met(u, C, D, r, f)'
<1>1. f \subseteq C \cup D /\ C \subseteq f
  BY DEF Met
<1>2. ~Missed(u) => dict[arg[u]].val \in C
  BY DictIs DEF Met, Missed
<1>3. Missed(u)' = Missed(u) /\ dict' = dict /\ next' = next
  BY DEF Missed, Writes
<1>4. \A q \in f : key'[q] = key[q]
  BY <1>1, FreshParts
<1>5. \A a, b \in C \cup D : Skips(hashnr', r, next, a, b) <=> Skips(hashnr, r, next, a, b)
  BY FreshSkips
<1>6. Missed(u)' \/ \A q \in f : ~Skips(hashnr', r, next, q, dict[arg[u]].val)
  BY <1>1, <1>2, <1>3, <1>5 DEF Met
<1> QED
  BY <1>3, <1>4, <1>6 DEF Met

(* So does what the other threads own and look for. *)
LEMMA FreshOther ==
  ASSUME NEW C, NEW D, NEW r, NEW m, TypeInv, Whole(C, D, r, m), NEW x, Writes(x),
         NEW u \in Threads, Same(u), seen'[u] = seen[u]
  PROVE  /\ Owns(u, C, D)' /\ Seeks(u, C, D, r)' /\ \E f : Saw(u, C, D, r, f)'
         /\ Mine(u)' = Mine(u) /\ Taking(u)' = Taking(u) /\ node'[u] = node[u]
         /\ x \notin Mine(u)
<1>1. Owns(u, C, D) /\ Seeks(u, C, D, r) /\ Shape(u) /\ TypeOK
  BY DEF Whole, TypeInv
<1>2. /\ x \in Nodes /\ x \notin C \cup D
      /\ \A n \in C \cup D : n \in Nodes /\ n # x /\ hashnr'[n] = hashnr[n] /\ key'[n] = key[n]
  BY FreshParts
<1>3. x \notin Mine(u)
  BY <1>1 DEF Mine, Dummies, Owns, Spare, Writes
<1>4. Owns(u, C, D)'
  <2>1. ASSUME NEW i \in 1 .. Len(stack[u]) PROVE Spare(stack[u][i][1], stack[u][i][2], D)'
    <3>1. Spare(stack[u][i][1], stack[u][i][2], D) /\ stack[u][i][2] \in Mine(u)
      BY <1>1 DEF Owns, Mine, Dummies
    <3>2. stack[u][i][2] \in Nodes
      BY <1>1 DEF TypeOK
    <3> QED
      BY <1>3, <3>1, <3>2 DEF Spare, Writes, Same
  <2>2. Building(u) => /\ node[u] \notin C \cup D \cup free'
                       /\ key'[node[u]] = arg[u] /\ hashnr'[node[u]] = HashNr(arg[u])
    <3>1. ASSUME Building(u) PROVE node[u] \in Nodes /\ node[u] # x
      BY <1>1, <1>3, <3>1, Typed DEF Mine
    <3> QED
      BY <1>1, <3>1 DEF Owns, Writes
  <2>3. pc[u] \in DropPCs /\ stack[u] = <<>> => key'[node[u]] = arg[u]
    <3>1. ASSUME pc[u] \in DropPCs, stack[u] = <<>> PROVE node[u] \in C \cup D
      BY <1>1, <3>1 DEF Owns, Taking, DropPCs
    <3> QED
      BY <1>1, <1>2, <3>1 DEF Owns
  <2> QED
    BY <1>1, <2>1, <2>2, <2>3, SameMine DEF Owns, Same, Writes, OutPCs, HashNr
<1>5. Seeks(u, C, D, r)'
  <2>1. pc[u] \in SearchPCs => entry[u] \in C
    BY <1>1, EntryIs DEF Shape, Seeks
  <2>2. pc[u] \in {"ins_find", "ins_cas"} => pc[u] \in SearchPCs
    BY DEF SearchPCs
  <2>3. pc[u] \in SearchPCs =>
       /\ \E b \in Buckets : entry[u] = entrys[b]
       /\ Fits(u, hashnr'[entry[u]])
       /\ prev[u] \in C \cup D
    BY <1>1, <1>2, <2>1 DEF Seeks
  <2>4. pc[u] \in {"ins_find", "ins_cas"} =>
       /\ hashnr'[prev[u]] <= Sought(u)
       /\ stack[u] = <<>> =>
            \A y \in C : key'[y] = arg[u] => Ahead(hashnr', r, prev[u], y)
    BY <1>1, <1>2, <2>2, FreshSkips DEF Seeks, Same
  <2>5. pc[u] = "ins_cas" /\ cur[u] # Null => cur[u] \in C \cup D /\ hashnr'[cur[u]] > Sought(u)
    BY <1>1, <1>2 DEF Seeks
  <2> QED
    BY <1>1, <2>3, <2>4, <2>5, SameMine DEF Seeks, Same, Writes
<1>6. PICK f : Saw(u, C, D, r, f)
  BY DEF Whole
<1>7. Saw(u, C, D, r, f)'
  <2> SUFFICES ASSUME pc[u] # "idle" PROVE Met(u, C, D, r, f)' /\ Here(u, C, D, r, f)'
    BY DEF Saw, Same
  <2>1. Met(u, C, D, r, f) /\ Here(u, C, D, r, f) /\ arg[u] \in Keys
    BY <1>1, <1>6 DEF Saw, Shape
  <2>2. f \subseteq C \cup D /\ C \subseteq f
    BY <2>1 DEF Met
  <2>3. ~Missed(u) => dict[arg[u]].val \in C
    BY <2>1, DictIs DEF Met, Missed
  <2>4. /\ seen'[u] = seen[u] /\ arg'[u] = arg[u] /\ Missed(u)' = Missed(u)
        /\ dict' = dict /\ next' = next
    BY DEF Missed, Same, Writes
  <2>5. \A q \in f : key'[q] = key[q]
    BY <1>2, <2>2
  <2>6. /\ \A a, b \in C \cup D : Ahead(hashnr', r, a, b) <=> Ahead(hashnr, r, a, b)
        /\ \A a, b \in C \cup D : Skips(hashnr', r, next, a, b) <=> Skips(hashnr, r, next, a, b)
    BY FreshSkips
  <2>7. Met(u, C, D, r, f)'
    BY <2>1, FreshMet DEF Same
  <2>8. pc[u] \in SearchPCs \ {"unlink"} => prev[u] \in f
    BY <2>1 DEF Here
  <2>9. pc[u] = "key_find" => Missed(u)' \/ Ahead(hashnr', r, prev[u], dict[arg[u]].val)
    <3>1. pc[u] = "key_find" => Missed(u) \/ Ahead(hashnr, r, prev[u], dict[arg[u]].val)
      BY <2>1 DEF Here
    <3>2. pc[u] = "key_find" => prev[u] \in C \cup D
      BY <2>2, <2>8 DEF SearchPCs
    <3> QED
      BY <2>3, <2>4, <2>6, <3>1, <3>2
  <2>10. Taking(u) => \A q \in f : /\ key'[q] = arg[u] => q = node[u]
                                   /\ ~Skips(hashnr', r, next, q, node[u])
    <3>1. Taking(u) => node[u] \in C
      BY <1>1 DEF Owns
    <3>2. Taking(u) => \A q \in f : /\ key[q] = arg[u] => q = node[u]
                                    /\ ~Skips(hashnr, r, next, q, node[u])
      BY <2>1 DEF Here
    <3> QED
      BY <2>2, <2>5, <2>6, <3>1, <3>2
  <2>11. Taking(u) /\ pc[u] = "node_find" => Ahead(hashnr', r, prev[u], node[u])
    <3>1. Taking(u) => node[u] \in C
      BY <1>1 DEF Owns
    <3>2. pc[u] = "node_find" => prev[u] \in C \cup D
      BY <2>2, <2>8 DEF SearchPCs, DropPCs
    <3> QED
      BY <2>1, <2>6, <3>1, <3>2 DEF Here
  <2>12. pc[u] = "mark" /\ stack[u] = <<>> => node[u] \in f
    BY <2>1 DEF Here
  <2>13. Here(u, C, D, r, f)'
    <3>1. /\ pc'[u] = pc[u] /\ prev'[u] = prev[u] /\ node'[u] = node[u] /\ stack'[u] = stack[u]
          /\ Taking(u)' <=> Taking(u)
      BY DEF Same, Taking
    <3>2. pc'[u] \in SearchPCs \ {"unlink"} => prev'[u] \in f
      BY <2>8, <3>1
    <3>3. pc'[u] = "key_find" => Missed(u)' \/ Ahead(hashnr', r, prev'[u], dict'[arg'[u]].val)
      BY <2>4, <2>9, <3>1
    <3>4. Taking(u)' => \A q \in f : /\ key'[q] = arg'[u] => q = node'[u]
                                     /\ ~Skips(hashnr', r, next', q, node'[u])
      BY <2>4, <2>10, <3>1
    <3>5. Taking(u)' /\ pc'[u] = "node_find" => Ahead(hashnr', r, prev'[u], node'[u])
      BY <2>11, <3>1
    <3>6. pc'[u] = "mark" /\ stack'[u] = <<>> => node'[u] \in f
      BY <2>12, <3>1
    <3> QED
      BY <3>2, <3>3, <3>4, <3>5, <3>6 DEF Here
  <2> QED
    BY <2>7, <2>13
<1> QED
  BY <1>3, <1>4, <1>5, <1>7, SameMine DEF Same

(* A step that writes a node of its own keeps the invariant if its thread  *)
(* still has its part of it.                                               *)
LEMMA FreshStep ==
  ASSUME NEW t \in Threads, NEW C, NEW D, NEW r, NEW m, TypeInv, Whole(C, D, r, m),
         NEW x, Writes(x), Others(t), \A u \in Threads \ {t} : seen'[u] = seen[u],
         Mine(t)' \subseteq Mine(t) \cup {x}, ~Taking(t)',
         Owns(t, C, D)', Seeks(t, C, D, r)', \E f : Saw(t, C, D, r, f)'
  PROVE  Whole(C, D, r, m)'
<1>1. Ranked(C, D, r, m)
  BY DEF Whole
<1>2. Chained(C, D, hashnr, r, next)' /\ Headed(C, D)' /\ Tabled(C, D)' /\ Filed(C, D)'
  BY FreshParts
<1>3. ASSUME NEW u \in Threads, u # t
      PROVE  /\ Owns(u, C, D)' /\ Seeks(u, C, D, r)' /\ \E f : Saw(u, C, D, r, f)'
             /\ Mine(u)' = Mine(u) /\ Taking(u)' = Taking(u) /\ node'[u] = node[u]
             /\ x \notin Mine(u)
  BY <1>3, FreshOther DEF Others, Same
<1>4. \A u, v \in Threads : u # v => Apart(u, v)'
  <2> SUFFICES ASSUME NEW u \in Threads, NEW v \in Threads, u # v PROVE Apart(u, v)'
    OBVIOUS
  <2>1. Apart(u, v)
    BY DEF Whole
  <2> QED
    BY <1>3, <2>1 DEF Apart
<1> QED
  BY <1>1, <1>2, <1>3, <1>4 DEF Whole

-----------------------------------------------------------------------------
(* An insert begins: it has its node, whatever becomes of the call. *)
LEMMA InsertStep ==
  ASSUME NEW t \in Threads, NEW C, NEW D, NEW r, NEW m, TypeInv, Whole(C, D, r, m),
         NEW k \in Keys, Insert(t, k)
  PROVE  Whole(C, D, r, m)'
<1>1. Others(t) /\ TypeOK /\ Shape(t)
  BY OnlyOwn DEF TypeInv, Call
<1>2. PICK x \in free : Alloc(x, HashNr(k), k) /\ node' = [node EXCEPT ![t] = x]
  BY DEF Insert
<1>3. Begin(t, "insert", k, "ent_insert")
  BY DEF Insert
<1>4. /\ pc[t] = "idle" /\ pc'[t] = "ent_insert" /\ stack'[t] = <<>> /\ node'[t] = x
      /\ arg'[t] = k /\ seen'[t] = {dict[k]} /\ bucket'[t] = Hash[k] % size
      /\ \A u \in Threads \ {t} : seen'[u] = seen[u]
  BY <1>1, <1>2, <1>3 DEF Begin, Goto, TypeOK, Shape
<1>5. Writes(x) /\ key'[x] = k /\ hashnr'[x] = HashNr(k) /\ x \notin free'
  BY <1>1, <1>2, <1>3 DEF Alloc, Begin, Writes, TypeOK, tableVars
<1>6. x \notin C \cup D
  BY <1>5, FreshParts
<1>7. Building(t)' /\ ~Taking(t)' /\ Dummies(t)' = {} /\ Mine(t)' = {x}
  BY <1>4 DEF Building, Taking, Dummies, Mine, InsertPCs, DropPCs
<1>8. Owns(t, C, D)'
  BY <1>4, <1>5, <1>6, <1>7 DEF Owns, Distinct, Nested, OutPCs, DropPCs, HashNr
<1>9. Reverse(Hash[k] % size) < HashNr(k)
  BY <1>3, BeginType
<1>10. Seeks(t, C, D, r)'
  BY <1>4, <1>9 DEF Seeks, Fits, Sought, SearchPCs, DropPCs, HashNr
<1>11. Met(t, C, D, r, C)'
  <2>1. next' = next /\ dict' = dict /\ \A q \in C : key'[q] = key[q]
    BY <1>5, FreshParts DEF Writes
  <2>2. C \cap D = {}
    BY WholeOrder
  <2>3. Missed(t)' <=> Absent = dict[k]
    BY <1>4 DEF Missed
  <2>4. /\ \A q \in C : next[q].to \in C \cup {Null}
        /\ \A q \in C : key[q] = k => dict[k].val = q
        /\ Absent = dict[k] \/ \A q \in C : ~Skips(hashnr, r, next, q, dict[k].val)
    BY BeginMet
  <2>5. Absent = dict[k] \/ \A q \in C : ~Skips(hashnr', r, next, q, dict[k].val)
    <3>1. Absent = dict[k] \/ dict[k].val \in C
      BY DictIs
    <3> QED
      BY <1>5, <2>4, <3>1, FreshSkips
  <2> QED
    BY <1>4, <2>1, <2>2, <2>3, <2>4, <2>5 DEF Met
<1>12. Saw(t, C, D, r, C)'
  BY <1>4, <1>7, <1>11 DEF Saw, Here, SearchPCs, DropPCs
<1> QED
  BY <1>1, <1>4, <1>5, <1>7, <1>8, <1>10, <1>12, FreshStep

(* The new node goes back to the pool. *)
LEMMA InsDuplicateStep ==
  ASSUME NEW t \in Threads, NEW C, NEW D, NEW r, NEW m, TypeInv, Whole(C, D, r, m),
         InsDuplicate(t)
  PROVE  Whole(C, D, r, m)'
<1> DEFINE x == node[t]
<1>1. Others(t) /\ TypeOK /\ Owns(t, C, D) /\ stack[t] = <<>>
  BY OnlyOwn, EndsAlone DEF TypeInv, Work, Whole
<1>2. /\ UNCHANGED <<next, hashnr, key, entrys, dict>> /\ free' = free \cup {x}
      /\ seen' = seen /\ arg' = arg /\ stack' = stack
      /\ pc[t] = "ins_find" /\ pc'[t] = "return"
  BY <1>1
     DEF InsDuplicate, Fail, EndSearch, StartAt, Goto, TypeOK, tableVars,
         callVars, history
<1>3. x \in Mine(t) /\ x \notin C \cup D
  BY <1>1, <1>2 DEF Building, InsertPCs, Mine, Owns
<1>4. ~Building(t)' /\ ~Taking(t)' /\ Dummies(t)' = {} /\ Mine(t)' = {}
  BY <1>1, <1>2 DEF Building, Taking, Dummies, Mine, InsertPCs, DropPCs
<1> HIDE DEF x
<1>5. Headed(C, D)' /\ Tabled(C, D)' /\ Filed(C, D)'
  BY <1>2, <1>3 DEF Whole, Headed, Tabled, Filed
<1>6. ASSUME NEW u \in Threads, u # t
      PROVE  /\ Owns(u, C, D)' /\ Seeks(u, C, D, r)' /\ \E f : Saw(u, C, D, r, f)'
             /\ Mine(u)' = Mine(u) /\ Taking(u)' = Taking(u) /\ node'[u] = node[u]
  <2>1. Same(u) /\ Owns(u, C, D) /\ Seeks(u, C, D, r)
    BY <1>1, <1>6 DEF Others, Same, Whole
  <2>2. x \notin Mine(u)
    BY <1>3, <1>6 DEF Whole, Apart
  <2>3. Owns(u, C, D)'
    BY <1>2, <2>1, <2>2, SameMine DEF Owns, Same, Spare, OutPCs, Mine, Dummies
  <2>4. Seeks(u, C, D, r)'
    BY <1>2, <2>1, SameMine DEF Seeks, Same
  <2>5. PICK f : Saw(u, C, D, r, f)
    BY DEF Whole
  <2>6. Saw(u, C, D, r, f)'
    BY <1>2, <2>1, <2>5, SameMine DEF Saw, Met, Here, Missed, Same
  <2> QED
    BY <2>1, <2>3, <2>4, <2>6, SameMine DEF Same
<1>7. Owns(t, C, D)' /\ Seeks(t, C, D, r)'
  BY <1>1, <1>2, <1>4 DEF Owns, Seeks, Distinct, Nested, OutPCs, DropPCs, SearchPCs
<1>8. PICK f : Saw(t, C, D, r, f)
  BY DEF Whole
<1>9. Saw(t, C, D, r, f)'
  BY <1>2, <1>4, <1>8 DEF Saw, Met, Here, Missed, SearchPCs, DropPCs
<1>10. \A u, v \in Threads : u # v => Apart(u, v)'
  <2> SUFFICES ASSUME NEW u \in Threads, NEW v \in Threads, u # v PROVE Apart(u, v)'
    OBVIOUS
  <2>1. Apart(u, v)
    BY DEF Whole
  <2> QED
    BY <1>4, <1>6, <2>1 DEF Apart
<1>11. Ranked(C, D, r, m) /\ Chained(C, D, hashnr, r, next)'
  BY <1>2 DEF Whole
<1> QED
  BY <1>5, <1>6, <1>7, <1>9, <1>10, <1>11 DEF Whole

(* A dummy is made, and the call for the parent begins. *)
LEMMA PushIs ==
  ASSUME NEW s \in Seq(Buckets \X Nodes), NEW e \in Buckets \X Nodes
  PROVE  /\ <<e>> \o s \in Seq(Buckets \X Nodes) /\ Len(s) \in Nat
         /\ Len(<<e>> \o s) = Len(s) + 1 /\ (<<e>> \o s)[1] = e
         /\ \A i \in 1 .. Len(s) : (<<e>> \o s)[i + 1] = s[i]
         /\ <<e>> \o s # <<>> /\ Head(<<e>> \o s) = e
OBVIOUS

(* A dummy is made and the parent's entry is needed first. *)
LEMMA EntParentStep ==
  ASSUME NEW t \in Threads, NEW C, NEW D, NEW r, NEW m, TypeInv, Whole(C, D, r, m),
         EntParent(t)
  PROVE  Whole(C, D, r, m)'
<1>1. Others(t) /\ TypeOK /\ Shape(t) /\ Owns(t, C, D) /\ Seeks(t, C, D, r)
  BY OnlyOwn DEF TypeInv, Work, Whole
<1>0. PICK b, s, n : b = bucket[t] /\ s = stack[t] /\ n = Len(stack[t])
  OBVIOUS
<1>2. PICK x \in free : /\ Alloc(x, Reverse(b), NoKey)
                        /\ stack' = [stack EXCEPT ![t] = <<<<b, x>>>> \o s]
  BY <1>0 DEF EntParent
<1>3. /\ pc[t] = "ent_insert" /\ pc' = pc /\ arg' = arg /\ seen' = seen /\ node' = node
      /\ b # 0 /\ bucket'[t] = Parent(b) /\ stack'[t] = <<<<b, x>>>> \o s
      /\ b \in Buckets /\ s \in Seq(Buckets \X Nodes) /\ arg[t] \in Keys
  BY <1>0, <1>1, <1>2 DEF EntParent, TypeOK, Shape, callVars, history
<1>4. Writes(x) /\ key'[x] = NoKey /\ hashnr'[x] = Reverse(b) /\ x \notin free' /\ x \in Nodes
  <2>1. UNCHANGED <<next, entrys, dict>>
    BY DEF EntParent, tableVars, history
  <2>2. /\ free' = free \ {x} /\ hashnr' = [hashnr EXCEPT ![x] = Reverse(b)]
        /\ key' = [key EXCEPT ![x] = NoKey] /\ x \in Nodes
    BY <1>1, <1>2 DEF Alloc, TypeOK
  <2> QED
    BY <1>1, <2>1, <2>2 DEF Writes, TypeOK
<1>5. /\ x \notin C \cup D /\ x # list_head
  BY <1>4, FreshParts
<1>6. /\ stack'[t] \in Seq(Buckets \X Nodes) /\ n \in Nat /\ Len(stack'[t]) = n + 1
      /\ stack'[t][1] = <<b, x>> /\ \A i \in 1 .. n : stack'[t][i + 1] = s[i]
      /\ stack'[t] # <<>> /\ Head(stack'[t]) = <<b, x>>
  <2>1. <<b, x>> \in Buckets \X Nodes
    BY <1>3, <1>4
  <2> QED
    BY <1>0, <1>3, <2>1, PushIs
<1>7. \A i \in 1 .. n + 1 : \/ i = 1 /\ stack'[t][i] = <<b, x>>
                            \/ \E j \in 1 .. n : i = j + 1 /\ stack'[t][i] = s[j]
  <2> SUFFICES ASSUME NEW i \in 1 .. n + 1, i # 1
               PROVE  \E j \in 1 .. n : i = j + 1 /\ stack'[t][i] = s[j]
    BY <1>6
  <2>1. i - 1 \in 1 .. n /\ i = (i - 1) + 1
    BY <1>6
  <2> QED
    BY <1>6, <2>1
<1>8. \A j \in 1 .. n : /\ Spare(s[j][1], s[j][2], D) /\ s[j][2] \notin C /\ s[j][2] # x
                        /\ s[j][2] \in Nodes
  <2>1. \A j \in 1 .. n : Spare(s[j][1], s[j][2], D) /\ s[j][2] \notin C
    BY <1>0, <1>1, <1>3 DEF Owns, OutPCs, DropPCs
  <2>2. \A j \in 1 .. n : s[j] \in Buckets \X Nodes
    BY <1>0, <1>3
  <2> QED
    BY <2>1, <2>2 DEF Spare
<1>9. Spare(b, x, D)' /\ \A j \in 1 .. n : Spare(s[j][1], s[j][2], D)'
  <2>1. \A e \in Buckets : entrys'[e] # x
    BY <1>4, <1>5, EntryIs, KeyAssumption DEF Writes
  <2>2. Spare(b, x, D)'
    BY <1>3, <1>4, <1>5, <2>1 DEF Spare
  <2>3. \A j \in 1 .. n : Spare(s[j][1], s[j][2], D)'
    BY <1>4, <1>8 DEF Spare, Writes
  <2> QED
    BY <2>2, <2>3
<1>10. /\ Building(t) /\ Building(t)' /\ ~Taking(t)'
  BY <1>3 DEF Building, Taking, InsertPCs
<1>11. /\ node[t] \notin C \cup D \cup free /\ node[t] \in Nodes /\ node[t] # x
       /\ key[node[t]] = arg[t] /\ hashnr[node[t]] = HashNr(arg[t])
  BY <1>1, <1>10, Typed DEF Owns
<1>12. Distinct(stack[t])'
  <2>1. \A i, j \in 1 .. n : s[i][2] = s[j][2] => i = j
    BY <1>0, <1>1 DEF Owns, Distinct
  <2>2. \A i, j \in 1 .. n + 1 : stack'[t][i][2] = stack'[t][j][2] => i = j
    BY <1>7, <1>8, <2>1
  <2> QED
    BY <1>6, <2>2 DEF Distinct
<1>13. Nested(stack[t], arg[t])'
  <2>1. \A i \in 1 .. n : IF i = n THEN Reverse(s[i][1]) < HashNr(arg[t])
                          ELSE Reverse(s[i][1]) <= Reverse(s[i + 1][1])
    BY <1>0, <1>1 DEF Owns, Nested
  <2>2. Fits(t, Reverse(b))
    BY <1>0, <1>1, <1>3 DEF Seeks
  <2>3. IF n = 0 THEN Reverse(b) < HashNr(arg[t]) ELSE Reverse(b) <= Reverse(s[1][1])
    <3>1. n = 0 <=> s = <<>>
      BY <1>0, <1>3, EmptySeq
    <3>2. s # <<>> => Head(s) = s[1]
      BY <1>3
    <3> QED
      BY <1>0, <2>2, <3>1, <3>2 DEF Fits, Sought
  <2>4. ASSUME NEW i \in 1 .. n + 1
        PROVE  IF i = n + 1 THEN Reverse(stack'[t][i][1]) < HashNr(arg[t])
               ELSE Reverse(stack'[t][i][1]) <= Reverse(stack'[t][i + 1][1])
    <3>1. CASE i = 1
      BY <1>6, <2>3, <3>1
    <3>2. CASE i # 1
      <4>1. PICK j \in 1 .. n : i = j + 1 /\ stack'[t][i] = s[j]
        BY <1>7, <3>2
      <4>2. CASE j = n
        BY <1>6, <2>1, <4>1, <4>2
      <4>3. CASE j # n
        <5>1. i \in 1 .. n /\ stack'[t][i + 1] = s[i]
          BY <1>6, <4>1, <4>3, SMTT(30)
        <5> QED
          BY <1>6, <2>1, <4>1, <4>3, <5>1
      <4> QED
        BY <4>2, <4>3
    <3> QED
      BY <3>1, <3>2
  <2> QED
    BY <1>3, <1>6, <2>4 DEF Nested
<1>14. Owns(t, C, D)'
  <2>1. \A i \in 1 .. Len(stack'[t]) :
          /\ Spare(stack[t][i][1], stack[t][i][2], D)'
          /\ stack'[t][i][2] \notin C
    <3> SUFFICES ASSUME NEW i \in 1 .. n + 1
                 PROVE  Spare(stack[t][i][1], stack[t][i][2], D)' /\ stack'[t][i][2] \notin C
      BY <1>6
    <3>1. CASE i = 1
      BY <1>5, <1>6, <1>9, <3>1 DEF Spare
    <3>2. CASE i # 1
      <4>1. PICK j \in 1 .. n : stack'[t][i] = s[j]
        BY <1>7, <3>2
      <4> QED
        BY <1>8, <1>9, <4>1 DEF Spare
    <3> QED
      BY <3>1, <3>2
  <2>2. /\ node'[t] \notin C \cup D \cup free' /\ key'[node'[t]] = arg'[t]
        /\ hashnr'[node'[t]] = HashNr(arg'[t])
    BY <1>3, <1>4, <1>11 DEF Writes
  <2>3. pc'[t] = "ent_insert"
    BY <1>3
  <2> QED
    BY <1>10, <1>12, <1>13, <2>1, <2>2, <2>3 DEF Owns, OutPCs, DropPCs, HashNr
<1>15. Seeks(t, C, D, r)'
  <2>1. Sought(t)' = Reverse(b) /\ (\A y : Fits(t, y)' <=> y <= Reverse(b))
    BY <1>6 DEF Sought, Fits
  <2>2. Reverse(Parent(b)) <= Reverse(b)
    BY <1>3, ParentNr
  <2>3. Fits(t, Reverse(bucket[t]))'
    BY <1>3, <2>1, <2>2
  <2> QED
    BY <1>3, <2>3 DEF Seeks, SearchPCs, DropPCs
<1>16. Mine(t)' \subseteq Mine(t) \cup {x}
  <2>1. \A i \in 1 .. Len(stack'[t]) : stack'[t][i][2] \in Dummies(t) \cup {x}
    BY <1>0, <1>6, <1>7 DEF Dummies
  <2>2. Dummies(t)' \subseteq Dummies(t) \cup {x}
    BY <2>1 DEF Dummies
  <2> QED
    BY <1>3, <1>10, <2>2 DEF Mine
<1>17. PICK f : Saw(t, C, D, r, f)
  BY DEF Whole
<1>18. Met(t, C, D, r, f)'
  BY <1>3, <1>4, <1>17, FreshMet DEF Saw
<1>19. Saw(t, C, D, r, f)'
  BY <1>3, <1>10, <1>18 DEF Saw, Here, SearchPCs, DropPCs
<1> QED
  BY <1>1, <1>3, <1>4, <1>10, <1>14, <1>15, <1>16, <1>19, FreshStep

-----------------------------------------------------------------------------
(* A node is linked.                                                       *)

(* What the step means for those that are on the chain already, or were.   *)
Joins(x, C, D, r, q) ==
  /\ x \notin C \cup D /\ UNCHANGED <<hashnr, key, free, entrys>>
  /\ next'[x].to \in C \cup {Null}
  /\ \A n \in C \cup D : /\ next'[n].del = next[n].del
                         /\ next'[n].to \in {next[n].to, x}
  /\ \A a, b \in C \cup D : Ahead(hashnr, q, a, b) <=> Ahead(hashnr, r, a, b)
  /\ \A a \in C \cup D : hashnr[a] <= hashnr[x] => Ahead(hashnr, q, a, x)
  /\ \A n \in C \cup D \cup {x}, v \in C :
       Skips(hashnr, q, next', n, v) => n \in D /\ Skips(hashnr, r, next, n, v)

(* What InsLink does to the chain; no other node has the key. *)
LEMMA LinkJoins ==
  ASSUME NEW t \in Threads, NEW C, NEW D, NEW r, NEW m, TypeInv, Whole(C, D, r, m),
         InsLink(t), NEW x, x = Subject(t)
  PROVE  /\ x \in Nodes /\ Joins(x, C, D, r, Next2(r, x, m)) /\ next'[x].del = FALSE
         /\ Ranked(C \cup {x}, D, Next2(r, x, m), m + 1)
         /\ Chained(C \cup {x}, D, hashnr, Next2(r, x, m), next)'
         /\ stack[t] = <<>> => \A y \in C : key[y] # arg[t]
<1> DEFINE p == prev[t]
           c == cur[t]
           q == Next2(r, x, m)
<1>1. Others(t) /\ TypeOK /\ Shape(t) /\ Owns(t, C, D) /\ Seeks(t, C, D, r)
  BY OnlyOwn DEF TypeInv, Work, Whole
<1>2. /\ pc[t] = "ins_cas" /\ next[p] = [to |-> c, del |-> FALSE]
      /\ next' = [next EXCEPT ![x] = [to |-> c, del |-> FALSE], ![p] = [to |-> x, del |-> FALSE]]
      /\ UNCHANGED <<hashnr, key, free, entrys>>
  BY DEF InsLink, Link, Goto, tableVars
<1>3. Building(t) /\ pc[t] \in SearchPCs
  BY <1>2 DEF Building, InsertPCs, SearchPCs
<1>4. /\ hashnr[x] = Sought(t) /\ x \in Nodes
      /\ stack[t] = <<>> => x = node[t]
      /\ stack[t] # <<>> => x = stack[t][1][2]
  BY <1>3, SubjectIs
<1>5. x \notin C \cup D
  <2>1. CASE stack[t] = <<>>
    BY <1>1, <1>3, <1>4, <2>1 DEF Owns
  <2>2. CASE stack[t] # <<>>
    <3>1. 1 \in 1 .. Len(stack[t])
      BY <1>1, <2>2, Stacked
    <3> QED
      BY <1>1, <1>2, <1>4, <2>2, <3>1 DEF Owns, Spare, OutPCs, DropPCs
  <2> QED
    BY <2>1, <2>2
<1>6. p \in C /\ p \in Nodes /\ p # x
  <2>1. p \in C \cup D
    BY <1>1, <1>3 DEF Seeks
  <2>2. ~next[p].del
    BY <1>2
  <2>3. \A n \in D : next[n].del
    BY DEF Whole, Chained
  <2>4. p \in C
    BY <2>1, <2>2, <2>3
  <2> QED
    BY <1>5, <2>4, WholeOrder
<1>7. hashnr[p] <= hashnr[x] /\ (c # Null => hashnr[x] < hashnr[c] /\ hashnr[c] > Sought(t))
  <2>1. hashnr[p] <= Sought(t) /\ (c # Null => c \in C \cup D /\ hashnr[c] > Sought(t))
    BY <1>1, <1>2 DEF Seeks
  <2>2. hashnr[x] \in Nat /\ (c # Null => hashnr[c] \in Nat)
    BY <1>4, <2>1, WholeOrder
  <2> QED
    BY <1>4, <2>1, <2>2
<1>8. /\ next'[x] = [to |-> c, del |-> FALSE] /\ next'[p] = [to |-> x, del |-> FALSE]
      /\ \A n \in Nodes \ {p, x} : next'[n] = next[n]
  BY <1>1, <1>2, <1>4, <1>6 DEF TypeOK
<1>9. Ranked(C, D, r, m) /\ Chained(C, D, hashnr, r, next)
  BY DEF Whole
<1>10. /\ C \subseteq Nodes /\ D \subseteq Nodes /\ hashnr \in [Nodes -> Nat]
       /\ Null \notin C \cup D /\ C \cap D = {}
  BY WholeOrder
<1>11. next[p].to = c /\ next[p].del = FALSE
  BY <1>2
<1> HIDE DEF p, c, q
<1>12. /\ Ranked(C \cup {x}, D, q, m + 1)
       /\ \A a, b \in C \cup D : Ahead(hashnr, q, a, b) <=> Ahead(hashnr, r, a, b)
       /\ \A a \in C \cup D : Ahead(hashnr, q, a, x) <=> hashnr[a] <= hashnr[x]
  <2>1. x \in Nodes
    BY <1>4
  <2> QED
    BY <1>5, <1>9, <1>10, <2>1, LinkRanks DEF q
<1>13. Chained(C \cup {x}, D, hashnr, q, next')
  <2>1. Links(p, x, c, next, next')
    BY <1>8 DEF Links
  <2> QED
    BY <1>4, <1>5, <1>6, <1>7, <1>9, <1>10, <1>11, <2>1, LinkChained DEF q
<1>14. Chained(C \cup {x}, D, hashnr, q, next)'
  BY <1>2, <1>13 DEF q
<1>15. c \in C \cup {Null}
  BY <1>6, <1>9, <1>11 DEF Chained
<1>16. \A n \in C \cup D \cup {x}, v \in C :
         Skips(hashnr, q, next', n, v) => n \in D /\ Skips(hashnr, r, next, n, v)
  <2> SUFFICES ASSUME NEW n \in C \cup D \cup {x}, NEW v \in C, Skips(hashnr, q, next', n, v)
               PROVE  n \in D /\ Skips(hashnr, r, next, n, v)
    OBVIOUS
  <2>1. n \in D
    BY <1>13 DEF Chained
  <2>2. next'[n] = next[n] /\ next[n].to \in C \cup D \cup {Null}
    BY <1>5, <1>6, <1>8, <1>9, <1>10, <2>1 DEF Chained
  <2> QED
    BY <1>12, <2>1, <2>2 DEF Skips
<1>17. \A n \in C \cup D : next'[n].del = next[n].del /\ next'[n].to \in {next[n].to, x}
  <2> SUFFICES ASSUME NEW n \in C \cup D
               PROVE  next'[n].del = next[n].del /\ next'[n].to \in {next[n].to, x}
    OBVIOUS
  <2>1. CASE n = p
    <3>1. next'[p].del = FALSE /\ next'[p].to = x
      BY <1>8
    <3> QED
      BY <1>11, <2>1, <3>1
  <2>2. CASE n # p
    <3>1. n \in Nodes \ {p, x}
      BY <1>5, <1>10, <2>2
    <3> QED
      BY <1>8, <3>1
  <2> QED
    BY <2>1, <2>2
<1>18. Joins(x, C, D, r, q)
  <2>1. next'[x].to = c
    BY <1>8
  <2> QED
    BY <1>2, <1>5, <1>12, <1>15, <1>16, <1>17, <2>1 DEF Joins
<1>19. ASSUME stack[t] = <<>>, NEW y \in C, key[y] = arg[t] PROVE FALSE
  <2>1. Ahead(hashnr, r, p, y)
    BY <1>1, <1>2, <1>19 DEF Seeks, p
  <2>2. hashnr[y] = Sought(t)
    BY <1>1, <1>2, <1>19, DictIs DEF Sought, Shape
  <2>3. c # Null => Ahead(hashnr, r, y, c)
    BY <1>4, <1>7, <1>15, <2>2, WholeOrder DEF Ordered
  <2> QED
    BY <1>6, <1>9, <1>11, <1>19, <2>1, <2>3 DEF Chained, Skips
<1>20. next'[x].del = FALSE
  BY <1>8
<1> QED
  BY <1>4, <1>12, <1>14, <1>18, <1>19, <1>20 DEF q

(* What a call has met: the dictionary says the same about its key, or     *)
(* that x was put in.                                                      *)
LEMMA JoinMet ==
  ASSUME NEW C, NEW D, NEW r, NEW m, TypeInv, Whole(C, D, r, m),
         NEW x, NEW q, Joins(x, C, D, r, q), NEW u, arg[u] \in Keys, arg'[u] = arg[u],
         NEW f, Met(u, C, D, r, f),
         \/ dict'[arg[u]] = dict[arg[u]] /\ seen'[u] = seen[u] /\ key[x] # arg[u]
         \/ /\ dict[arg[u]] = Absent /\ dict'[arg[u]].val = x
            /\ seen'[u] = seen[u] \cup {dict'[arg[u]]}
  PROVE  Met(u, C \cup {x}, D, q, f \cup {x})' /\ (Missed(u) => Missed(u)')
<1>1. C \subseteq f /\ f \subseteq C \cup D /\ key' = key /\ hashnr' = hashnr /\ x \notin f
  BY DEF Met, Joins
<1>2. seen[u] \subseteq seen'[u] /\ dict'[arg[u]] \in seen'[u]
  BY DEF Met
<1>3. Missed(u) => Missed(u)'
  BY <1>2 DEF Missed
<1>4. \A n \in f \cup {x} : next'[n].to \in (f \cup {x}) \cup {Null}
  <2>1. \A n \in f : next[n].to \in f \cup {Null}
    BY DEF Met
  <2> QED
    BY <1>1, <2>1 DEF Joins
<1>5. ASSUME NEW n \in f \cup {x}, key[n] = arg[u]
      PROVE  (\E s \in seen'[u] : s.val = n) /\ (n \in D => Missed(u)')
  <2>1. CASE n \in f
    BY <1>2, <1>3, <1>5, <2>1 DEF Met
  <2>2. CASE n = x
    BY <1>2, <1>5, <2>2 DEF Joins
  <2> QED
    BY <1>5, <2>1, <2>2
<1>6. ASSUME ~Missed(u)', NEW n \in f \cup {x}
      PROVE  ~Skips(hashnr, q, next', n, dict'[arg[u]].val)
  <2>1. ~Missed(u) /\ dict'[arg[u]] = dict[arg[u]]
    BY <1>3, <1>6 DEF Missed, Met
  <2>2. dict[arg[u]].val \in C
    BY <2>1, DictIs DEF Met, Missed
  <2>3. n \in f => ~Skips(hashnr, r, next, n, dict[arg[u]].val)
    BY <2>1 DEF Met
  <2> QED
    BY <1>1, <2>1, <2>2, <2>3 DEF Joins
<1>7. Met(u, C \cup {x}, D, q, f \cup {x})'
  BY <1>1, <1>2, <1>4, <1>5, <1>6 DEF Met
<1> QED
  BY <1>3, <1>7

(* The other threads, when a node is linked. *)
LEMMA JoinOther ==
  ASSUME NEW C, NEW D, NEW r, NEW m, TypeInv, Whole(C, D, r, m),
         NEW x, NEW q, Joins(x, C, D, r, q), NEW u \in Threads, Same(u),
         x \notin Mine(u),
         key[x] # NoKey => hashnr[x] = HashNr(key[x]) /\ \A y \in C : key[y] # key[x],
         pc[u] # "idle" =>
           \/ dict'[arg[u]] = dict[arg[u]] /\ seen'[u] = seen[u] /\ key[x] # arg[u]
           \/ /\ dict[arg[u]] = Absent /\ dict'[arg[u]].val = x
              /\ seen'[u] = seen[u] \cup {dict'[arg[u]]}
  PROVE  /\ Owns(u, C \cup {x}, D)' /\ Seeks(u, C \cup {x}, D, q)'
         /\ \E f : Saw(u, C \cup {x}, D, q, f)'
<1>1. Owns(u, C, D) /\ Seeks(u, C, D, r) /\ Shape(u) /\ TypeOK
  BY DEF Whole, TypeInv
<1>2. /\ x \notin C \cup D /\ hashnr' = hashnr /\ key' = key /\ free' = free /\ entrys' = entrys
      /\ \A n \in C : next'[n].del = next[n].del
  BY DEF Joins
<1>3. Owns(u, C \cup {x}, D)'
  <2>1. \A i \in 1 .. Len(stack[u]) : stack[u][i][2] # x
    BY DEF Mine, Dummies
  <2>2. Building(u) => node[u] # x
    BY DEF Mine
  <2>3. stack[u] # <<>> /\ pc[u] \in OutPCs => Subject(u) \in C
    <3>1. stack[u] # <<>> => Subject(u) = stack[u][1][2] /\ 1 \in 1 .. Len(stack[u])
      BY <1>1, Stacked DEF Subject
    <3> QED
      BY <1>1, <3>1 DEF Owns
  <2>4. stack[u] # <<>> =>
          /\ pc[u] \in {"ent_set", "mark"} => ~next'[Subject(u)].del
          /\ pc[u] = "unlink" => next'[Subject(u)].del
    BY <1>1, <1>2, <2>3 DEF Owns, OutPCs, DropPCs
  <2>5. Taking(u) => node[u] \in C /\ next'[node[u]].del
    BY <1>1, <1>2 DEF Owns
  <2> QED
    BY <1>1, <1>2, <2>1, <2>2, <2>4, <2>5, SameMine DEF Owns, Same, Spare, OutPCs
<1>4. Seeks(u, C \cup {x}, D, q)'
  <2>1. pc[u] \in {"ins_find", "ins_cas"} => prev[u] \in C \cup D
    BY <1>1 DEF Seeks, SearchPCs
  <2>2. ASSUME pc[u] \in {"ins_find", "ins_cas"}, stack[u] = <<>>,
               NEW y \in C \cup {x}, key[y] = arg[u]
        PROVE  Ahead(hashnr, q, prev[u], y)
    <3>1. CASE y \in C
      BY <1>1, <2>1, <2>2, <3>1 DEF Seeks, Joins
    <3>2. CASE y = x
      <4>1. arg[u] # NoKey
        BY <1>1, <2>2, KeyFacts DEF Shape
      <4>2. hashnr[prev[u]] <= hashnr[x]
        BY <1>1, <2>2, <3>2, <4>1 DEF Seeks, Sought
      <4> QED
        BY <2>1, <2>2, <3>2, <4>2 DEF Joins
    <3> QED
      BY <2>2, <3>1, <3>2
  <2> QED
    BY <1>1, <1>2, <2>2, SameMine DEF Seeks, Same
<1>5. PICK f : Saw(u, C, D, r, f)
  BY DEF Whole
<1>6. Saw(u, C \cup {x}, D, q, f \cup {x})'
  <2> SUFFICES ASSUME pc[u] # "idle"
               PROVE  /\ Met(u, C \cup {x}, D, q, f \cup {x})'
                      /\ Here(u, C \cup {x}, D, q, f \cup {x})'
    BY DEF Saw, Same
  <2>1. Met(u, C, D, r, f) /\ Here(u, C, D, r, f) /\ arg[u] \in Keys /\ arg'[u] = arg[u]
    BY <1>1, <1>5 DEF Saw, Shape, Same
  <2>2. Met(u, C \cup {x}, D, q, f \cup {x})' /\ (Missed(u) => Missed(u)')
    BY <2>1, JoinMet
  <2>3. /\ f \subseteq C \cup D
        /\ \A a, b \in C \cup D : Ahead(hashnr, q, a, b) <=> Ahead(hashnr, r, a, b)
    BY <2>1 DEF Met, Joins
  <2>4. pc[u] \in SearchPCs \ {"unlink"} => prev[u] \in f
    BY <2>1 DEF Here
  <2>5. pc[u] = "key_find" => Missed(u)' \/ Ahead(hashnr, q, prev[u], dict'[arg[u]].val)
    <3>1. pc[u] = "key_find" => prev[u] \in C \cup D
      BY <2>3, <2>4 DEF SearchPCs
    <3>2. ASSUME ~Missed(u)' PROVE dict'[arg[u]] = dict[arg[u]] /\ dict[arg[u]].val \in C
      <4>1. ~Missed(u) /\ dict[arg[u]] # Absent
        BY <2>1, <2>2, <3>2 DEF Met, Missed
      <4> QED
        BY <2>1, <4>1, DictIs
    <3> QED
      BY <2>1, <2>2, <2>3, <3>1, <3>2 DEF Here
  <2>6. ASSUME Taking(u), NEW n \in f \cup {x}
        PROVE  /\ key[n] = arg[u] => n = node[u]
               /\ ~Skips(hashnr, q, next', n, node[u])
    <3>1. node[u] \in C /\ key[node[u]] = arg[u]
      BY <1>1, <2>6 DEF Owns, Taking, DropPCs
    <3>2. key[x] # arg[u]
      BY <2>1, <3>1, KeyFacts
    <3>3. n \in f => (key[n] = arg[u] => n = node[u]) /\ ~Skips(hashnr, r, next, n, node[u])
      BY <2>1, <2>6 DEF Here
    <3>4. n \in C \cup D \cup {x}
      BY <2>3, <2>6
    <3> QED
      BY <2>6, <3>1, <3>2, <3>3, <3>4 DEF Joins
  <2>7. Taking(u) /\ pc[u] = "node_find" => Ahead(hashnr, q, prev[u], node[u])
    <3>1. Taking(u) => node[u] \in C
      BY <1>1 DEF Owns
    <3>2. pc[u] = "node_find" => prev[u] \in C \cup D
      BY <2>3, <2>4 DEF SearchPCs, DropPCs
    <3> QED
      BY <2>1, <2>3, <3>1, <3>2 DEF Here
  <2>8. pc[u] = "mark" /\ stack[u] = <<>> => node[u] \in f
    BY <2>1 DEF Here
  <2>9. Here(u, C \cup {x}, D, q, f \cup {x})'
    <3>1. /\ pc'[u] = pc[u] /\ prev'[u] = prev[u] /\ node'[u] = node[u] /\ stack'[u] = stack[u]
          /\ arg'[u] = arg[u] /\ (Taking(u)' <=> Taking(u))
      BY DEF Same, Taking
    <3>2. Taking(u)' => \A n \in f \cup {x} : /\ key'[n] = arg'[u] => n = node'[u]
                                              /\ ~Skips(hashnr', q, next', n, node'[u])
      BY <1>2, <2>6, <3>1
    <3> QED
      BY <1>2, <2>4, <2>5, <2>7, <2>8, <3>1, <3>2 DEF Here
  <2> QED
    BY <2>2, <2>9
<1> QED
  BY <1>3, <1>4, <1>6

-----------------------------------------------------------------------------
(* ab_hash_list_insert links a dummy or the node of the call. *)
LEMMA InsLinkStep ==
  ASSUME NEW t \in Threads, NEW C, NEW D, NEW r, NEW m, TypeInv, Whole(C, D, r, m),
         InsLink(t)
  PROVE  \E C2, D2, r2, m2 : Whole(C2, D2, r2, m2)'
<1>0. PICK x, k, q : x = Subject(t) /\ k = arg[t] /\ q = Next2(r, x, m)
  OBVIOUS
<1>1. Others(t) /\ TypeOK /\ Shape(t) /\ Owns(t, C, D) /\ Seeks(t, C, D, r)
  BY OnlyOwn DEF TypeInv, Work, Whole
<1>2. pc[t] = "ins_cas" /\ Building(t) /\ pc[t] \in SearchPCs /\ k \in Keys /\ k # NoKey
  BY <1>0, <1>1, KeyFacts DEF InsLink, Goto, Building, InsertPCs, SearchPCs, Shape
<1>3. /\ x \in Nodes /\ Joins(x, C, D, r, q) /\ next'[x].del = FALSE
      /\ Ranked(C \cup {x}, D, q, m + 1) /\ Chained(C \cup {x}, D, hashnr, q, next)'
      /\ stack[t] = <<>> => \A y \in C : key[y] # k
  BY <1>0, LinkJoins
<1>4. /\ hashnr[x] = Sought(t)
      /\ stack[t] = <<>> => x = node[t] /\ key[x] = k /\ hashnr[x] = HashNr(k)
      /\ stack[t] # <<>> => x = stack[t][1][2] /\ key[x] = NoKey /\ Spare(stack[t][1][1], x, D)
  BY <1>0, <1>2, SubjectIs DEF Sought
<1>5. x \in Mine(t)
  BY <1>0, <1>2, SubjectIs DEF Mine
<1>6. /\ pc'[t] = IF stack[t] = <<>> THEN "num_add" ELSE "ent_set"
      /\ arg' = arg /\ stack' = stack /\ node' = node
  BY <1>1 DEF InsLink, Goto, TypeOK, callVars
<1>7. /\ x \notin C \cup D /\ x \notin free /\ x # list_head
      /\ UNCHANGED <<hashnr, key, free, entrys>>
      /\ \A n \in C : next'[n].del = next[n].del
  <2>1. list_head \in C
    BY DEF Whole, Headed
  <2>2. x \notin free
    BY <1>1, <1>2, <1>4 DEF Owns, Spare
  <2> QED
    BY <1>3, <2>1, <2>2 DEF Joins
<1>8. \A j \in Keys \ {k} : dict'[j] = dict[j]
  BY <1>0, <1>1 DEF InsLink, Becomes, TypeOK
<1>9. IF stack[t] = <<>>
      THEN /\ dict'[k] = [val |-> x, leaving |-> FALSE]
           /\ \A u \in Threads :
                pc[u] # "idle" /\ arg[u] = k => seen'[u] = seen[u] \cup {dict'[k]}
           /\ \A u \in Threads : pc[u] = "idle" \/ arg[u] # k => seen'[u] = seen[u]
      ELSE dict' = dict /\ seen' = seen
  <2>1. CASE stack[t] = <<>>
    <3>1. Becomes(k, [val |-> x, leaving |-> FALSE])
      BY <1>0, <1>4, <2>1 DEF InsLink
    <3> QED
      BY <1>1, <1>2, <2>1, <3>1 DEF Becomes, TypeOK
  <2>2. CASE stack[t] # <<>>
    BY <2>2 DEF InsLink
  <2> QED
    BY <2>1, <2>2
<1>10. stack[t] = <<>> => dict[k] = Absent
  BY <1>2, <1>3, DictIs
<1>11. Headed(C \cup {x}, D)'
  BY <1>7 DEF Whole, Headed
<1>12. Tabled(C \cup {x}, D)'
  <2>1. PICK e \in Buckets : entry[t] = entrys[e]
    BY <1>1, <1>2 DEF Seeks
  <2>2. entrys[e] # Null
    BY <1>1, <1>2, <2>1 DEF Shape
  <2>3. Tabled(C, D)
    BY DEF Whole
  <2>4. entrys[0] # Null
    BY <2>2, <2>3 DEF Tabled
  <2> QED
    BY <1>7, <2>3, <2>4 DEF Tabled
<1>13. Filed(C \cup {x}, D)'
  <2>1. Filed(C, D)
    BY DEF Whole
  <2>2. \A n \in (C \cup {x}) \cup D :
          IF key[n] = NoKey THEN \E b \in Buckets : hashnr[n] = Reverse(b)
          ELSE hashnr[n] = HashNr(key[n])
    <3>1. stack[t] # <<>> => stack[t][1][1] \in Buckets /\ hashnr[x] = Reverse(stack[t][1][1])
      BY <1>1, <1>4, Stacked DEF Spare
    <3> QED
      BY <1>2, <1>4, <2>1, <3>1 DEF Filed
  <2>3. \A n \in C \cup {x} : key[n] # NoKey => dict'[key[n]].val = n
    <3> SUFFICES ASSUME NEW n \in C \cup {x}, key[n] # NoKey PROVE dict'[key[n]].val = n
      OBVIOUS
    <3>1. CASE n = x
      BY <1>2, <1>4, <1>9, <3>1
    <3>2. CASE n # x
      <4>0. n \in C /\ n \in Nodes
        BY <3>2, WholeOrder
      <4>1. n \in C /\ dict[key[n]].val = n /\ key[n] \in Keys
        BY <1>1, <1>7, <2>1, <4>0 DEF Filed, TypeOK
      <4>2. key[n] = k => stack[t] # <<>>
        BY <1>3, <4>1
      <4> QED
        BY <1>8, <1>9, <4>1, <4>2
    <3> QED
      BY <3>1, <3>2
  <2>4. ASSUME NEW j \in Keys
        PROVE  IF dict'[j].val = Null THEN ~dict'[j].leaving
               ELSE /\ dict'[j].val \in C \cup {x} /\ key[dict'[j].val] = j
                    /\ dict'[j].leaving = next'[dict'[j].val].del
    <3>1. CASE stack[t] = <<>> /\ j = k
      <4>1. dict'[j].val = x /\ dict'[j].leaving = FALSE /\ key[x] = j
        BY <1>4, <1>9, <3>1
      <4> QED
        BY <1>3, <4>1, KeyAssumption
    <3>2. CASE stack[t] # <<>> \/ j # k
      <4>1. dict'[j] = dict[j]
        BY <1>8, <1>9, <3>2
      <4> QED
        BY <1>7, <2>1, <4>1 DEF Filed
    <3> QED
      BY <3>1, <3>2
  <2> QED
    BY <1>7, <2>2, <2>3, <2>4 DEF Filed
<1>14. ~Taking(t)' /\ Mine(t)' \subseteq Mine(t)
  <2>1. Building(t)' => Building(t)
    BY <1>2
  <2> QED
    BY <1>6, <2>1 DEF Taking, Mine, Dummies
<1>15. Owns(t, C \cup {x}, D)' /\ Seeks(t, C \cup {x}, D, q)'
  <2>1. CASE stack[t] = <<>>
    <3>1. stack'[t] = <<>> /\ pc'[t] = "num_add"
      BY <1>6, <2>1
    <3> QED
      BY <1>14, <3>1
         DEF Owns, Seeks, Building, Distinct, Nested, OutPCs, DropPCs,
             SearchPCs, InsertPCs
  <2>2. CASE stack[t] # <<>>
    <3>1. pc'[t] = "ent_set" /\ 1 \in 1 .. Len(stack[t]) /\ Subject(t)' = x
      BY <1>0, <1>1, <1>6, <2>2, Stacked DEF Subject
    <3>2. \A i \in 1 .. Len(stack[t]) : stack[t][i][2] = x <=> i = 1
      BY <1>1, <1>4, <2>2, <3>1 DEF Owns, Distinct
    <3>3. \A i \in 1 .. Len(stack[t]) :
            /\ Spare(stack[t][i][1], stack[t][i][2], D)
            /\ stack[t][i][2] \in C \cup {x} <=> i = 1
      BY <1>1, <1>2, <3>2 DEF Owns, OutPCs, DropPCs
    <3>4. node[t] # x
      BY <1>0, <1>1, <1>2, <1>4, <2>2 DEF Owns
    <3>5. Owns(t, C \cup {x}, D)'
      BY <1>1, <1>2, <1>3, <1>6, <1>7, <1>14, <3>1, <3>3, <3>4
         DEF Owns, Spare, OutPCs, DropPCs
    <3>6. Seeks(t, C \cup {x}, D, q)'
      <4>1. entry'[t] = entry[t] /\ prev'[t] = prev[t]
        BY <2>2 DEF InsLink
      <4>2. (\A y : Fits(t, y)' <=> Fits(t, y))
        BY <1>6 DEF Fits, Sought
      <4> QED
        BY <1>1, <1>2, <1>7, <3>1, <4>1, <4>2 DEF Seeks
    <3> QED
      BY <3>5, <3>6
  <2> QED
    BY <2>1, <2>2
<1>16. ASSUME NEW u \in Threads, pc[u] # "idle"
       PROVE  \/ dict'[arg[u]] = dict[arg[u]] /\ seen'[u] = seen[u] /\ key[x] # arg[u]
              \/ /\ dict[arg[u]] = Absent /\ dict'[arg[u]].val = x
                 /\ seen'[u] = seen[u] \cup {dict'[arg[u]]}
  <2>1. arg[u] \in Keys /\ arg[u] # NoKey
    BY <1>16, KeyFacts DEF TypeInv, Shape
  <2>2. CASE stack[t] = <<>> /\ arg[u] = k
    BY <1>9, <1>10, <1>16, <2>2
  <2>3. CASE stack[t] # <<>> \/ arg[u] # k
    BY <1>4, <1>8, <1>9, <2>1, <2>3
  <2> QED
    BY <2>2, <2>3
<1>17. \E f : Saw(t, C \cup {x}, D, q, f)'
  <2>1. PICK f : Saw(t, C, D, r, f)
    BY DEF Whole
  <2>2. Met(t, C, D, r, f) /\ Here(t, C, D, r, f) /\ arg[t] = k /\ arg'[t] = k
    BY <1>0, <1>2, <1>6, <2>1 DEF Saw
  <2>3. Met(t, C \cup {x}, D, q, f \cup {x})'
    BY <1>2, <1>3, <1>16, <2>2, JoinMet
  <2>4. pc'[t] = "ent_set" => prev'[t] = prev[t] /\ prev[t] \in f
    BY <1>2, <1>6, <2>2 DEF InsLink, Here
  <2>5. Here(t, C \cup {x}, D, q, f \cup {x})'
    BY <1>6, <1>14, <2>4 DEF Here, SearchPCs, DropPCs
  <2> QED
    BY <2>3, <2>5 DEF Saw
<1>18. ASSUME NEW u \in Threads, u # t
       PROVE  /\ Owns(u, C \cup {x}, D)' /\ Seeks(u, C \cup {x}, D, q)'
              /\ \E f : Saw(u, C \cup {x}, D, q, f)'
              /\ Mine(u)' = Mine(u) /\ Taking(u)' = Taking(u) /\ node'[u] = node[u]
  <2>1. Same(u)
    BY <1>1, <1>18 DEF Others, Same
  <2>2. x \notin Mine(u)
    BY <1>5, <1>18 DEF Whole, Apart
  <2>3. key[x] # NoKey => hashnr[x] = HashNr(key[x]) /\ \A y \in C : key[y] # key[x]
    BY <1>3, <1>4
  <2> QED
    BY <1>3, <1>16, <2>1, <2>2, <2>3, JoinOther, SameMine DEF Same
<1>19. \A u, v \in Threads : u # v => Apart(u, v)'
  <2> SUFFICES ASSUME NEW u \in Threads, NEW v \in Threads, u # v PROVE Apart(u, v)'
    OBVIOUS
  <2>1. Apart(u, v)
    BY DEF Whole
  <2> QED
    BY <1>14, <1>18, <2>1 DEF Apart
<1>20. Whole(C \cup {x}, D, q, m + 1)'
  BY <1>3, <1>11, <1>12, <1>13, <1>15, <1>17, <1>18, <1>19 DEF Whole
<1> QED
  BY <1>20

-----------------------------------------------------------------------------
(* A flag is set: the chain goes on as before.                             *)

Flags(x) ==
  /\ UNCHANGED <<hashnr, key, free, entrys>>
  /\ \A n \in Nodes : /\ next'[n].to = next[n].to
                      /\ next'[n].del = (n = x \/ next[n].del)
  /\ \A k \in Keys : dict'[k].val = dict[k].val

(* A flag that is set leaves the order of the chain alone. *)
LEMMA FlagChained ==
  ASSUME NEW C, NEW D, NEW r, NEW m, TypeInv, Whole(C, D, r, m), NEW x, Flags(x)
  PROVE  /\ Chained(C, D, hashnr, r, next)'
         /\ \A n \in C \cup D : next'[n].to = next[n].to /\ n \in Nodes
         /\ \A v : \A n \in C \cup D :
              Skips(hashnr, r, next', n, v) <=> Skips(hashnr, r, next, n, v)
<1>1. \A n \in C \cup D : next'[n].to = next[n].to /\ n \in Nodes
  BY WholeOrder DEF Flags
<1>2. \A n \in D : next[n].del => next'[n].del
  BY <1>1 DEF Flags
<1>3. \A v : \A n \in C \cup D : Skips(hashnr, r, next', n, v) <=> Skips(hashnr, r, next, n, v)
  BY <1>1 DEF Skips
<1>4. Chained(C, D, hashnr, r, next)
  BY DEF Whole
<1>5. Chained(C, D, hashnr, r, next')
  BY <1>1, <1>2, <1>3, <1>4 DEF Chained
<1>6. hashnr' = hashnr
  BY DEF Flags
<1> QED
  BY <1>1, <1>3, <1>5, <1>6

(* And what a call has met. *)
LEMMA FlagMet ==
  ASSUME NEW C, NEW D, NEW r, NEW m, TypeInv, Whole(C, D, r, m), NEW x, Flags(x),
         NEW u, arg[u] \in Keys, arg'[u] = arg[u], seen[u] \subseteq seen'[u],
         dict'[arg[u]] \in seen'[u], NEW f, Met(u, C, D, r, f)
  PROVE  Met(u, C, D, r, f)' /\ (Missed(u) => Missed(u)')
<1>1. Missed(u) => Missed(u)'
  BY DEF Missed
<1>2. f \subseteq C \cup D /\ C \subseteq f /\ hashnr' = hashnr /\ key' = key
  BY DEF Met, Flags
<1>3. \A q \in f : next'[q].to \in f \cup {Null}
  BY <1>2, FlagChained DEF Met
<1>4. \A q \in f : key[q] = arg[u] => (\E s \in seen'[u] : s.val = q) /\ (q \in D => Missed(u)')
  BY <1>1 DEF Met
<1>5. Missed(u)' \/ \A q \in f : ~Skips(hashnr, r, next', q, dict'[arg[u]].val)
  <2>1. dict'[arg[u]].val = dict[arg[u]].val
    BY DEF Flags
  <2>2. Missed(u) \/ \A q \in f : ~Skips(hashnr, r, next, q, dict[arg[u]].val)
    BY DEF Met
  <2> QED
    BY <1>1, <1>2, <2>1, <2>2, FlagChained
<1>6. Met(u, C, D, r, f)'
  BY <1>2, <1>3, <1>4, <1>5 DEF Met
<1> QED
  BY <1>1, <1>6

(* And what the other threads own and look for. *)
LEMMA FlagOther ==
  ASSUME NEW C, NEW D, NEW r, NEW m, TypeInv, Whole(C, D, r, m), NEW x, Flags(x),
         NEW u \in Threads, Same(u), seen[u] \subseteq seen'[u],
         pc[u] # "idle" => dict'[arg[u]] \in seen'[u],
         x \notin Mine(u)
  PROVE  /\ Owns(u, C, D)' /\ Seeks(u, C, D, r)' /\ \E f : Saw(u, C, D, r, f)'
<1>1. Owns(u, C, D) /\ Seeks(u, C, D, r) /\ Shape(u) /\ TypeOK
  BY DEF Whole, TypeInv
<1>2. hashnr' = hashnr /\ key' = key /\ free' = free /\ entrys' = entrys
  BY DEF Flags
<1>3. Owns(u, C, D)'
  <2>1. stack[u] # <<>> => Subject(u) \in Nodes /\ Subject(u) # x
    <3>1. stack[u] # <<>> => /\ Subject(u) = stack[u][1][2] /\ 1 \in 1 .. Len(stack[u])
                             /\ stack[u][1][2] \in Nodes
      BY <1>1, Stacked DEF Subject
    <3> QED
      BY <3>1 DEF Mine, Dummies
  <2>2. stack[u] # <<>> =>
          /\ pc[u] \in {"ent_set", "mark"} => ~next'[Subject(u)].del
          /\ pc[u] = "unlink" => next'[Subject(u)].del
    BY <1>1, <2>1 DEF Owns, Flags
  <2>3. Taking(u) => node[u] \in C /\ next'[node[u]].del
    <3>1. Taking(u) => node[u] \in C /\ next[node[u]].del /\ node[u] \in Nodes
      BY <1>1, WholeOrder DEF Owns
    <3> QED
      BY <3>1 DEF Flags
  <2> QED
    BY <1>1, <1>2, <2>2, <2>3, SameMine DEF Owns, Same, Spare, OutPCs
<1>4. Seeks(u, C, D, r)'
  BY <1>1, <1>2, SameMine DEF Seeks, Same
<1>5. PICK f : Saw(u, C, D, r, f)
  BY DEF Whole
<1>6. Saw(u, C, D, r, f)'
  <2> SUFFICES ASSUME pc[u] # "idle" PROVE Met(u, C, D, r, f)' /\ Here(u, C, D, r, f)'
    BY DEF Saw, Same
  <2>1. Met(u, C, D, r, f) /\ Here(u, C, D, r, f) /\ arg[u] \in Keys /\ arg'[u] = arg[u]
    BY <1>1, <1>5 DEF Saw, Shape, Same
  <2>2. Met(u, C, D, r, f)' /\ (Missed(u) => Missed(u)')
    BY <2>1, FlagMet
  <2>3. dict'[arg[u]].val = dict[arg[u]].val
    BY <2>1 DEF Flags
  <2>4. \A v : \A q \in f : Skips(hashnr, r, next', q, v) <=> Skips(hashnr, r, next, q, v)
    BY <2>1, FlagChained DEF Met
  <2>5. /\ pc'[u] = pc[u] /\ prev'[u] = prev[u] /\ node'[u] = node[u] /\ stack'[u] = stack[u]
        /\ (Taking(u)' <=> Taking(u))
    BY DEF Same, Taking
  <2>6. Here(u, C, D, r, f)'
    BY <1>2, <2>1, <2>2, <2>3, <2>4, <2>5 DEF Here
  <2> QED
    BY <2>2, <2>6
<1> QED
  BY <1>3, <1>4, <1>6

(* ab_hash_list_delete sets a flag. *)
LEMMA MarkStep ==
  ASSUME NEW t \in Threads, NEW C, NEW D, NEW r, NEW m, TypeInv, Whole(C, D, r, m),
         Mark(t)
  PROVE  Whole(C, D, r, m)'
<1>0. PICK x, k : x = Subject(t) /\ k = arg[t]
  OBVIOUS
<1>1. Others(t) /\ TypeOK /\ Shape(t) /\ Owns(t, C, D) /\ Seeks(t, C, D, r)
  BY OnlyOwn DEF TypeInv, Work, Whole
<1>2. /\ pc[t] = "mark" /\ pc'[t] = "unlink" /\ arg' = arg /\ stack' = stack /\ node' = node
      /\ entry' = entry /\ prev' = prev /\ UNCHANGED <<hashnr, key, free, entrys>>
      /\ next' = [next EXCEPT ![x].del = TRUE] /\ next[x].del = FALSE
  <2>1. next[x].del \in BOOLEAN
    BY <1>0, <1>1, Typed DEF Mark, Goto, TypeOK, DropPCs
  <2> QED
    BY <1>0, <1>1, <2>1 DEF Mark, Goto, TypeOK, callVars, locals, tableVars
<1>3. /\ x \in Nodes /\ k \in Keys /\ k # NoKey
      /\ stack[t] = <<>> => x = node[t] /\ key[x] = k
      /\ stack[t] # <<>> => /\ x = stack[t][1][2] /\ key[x] = NoKey /\ x \in Dummies(t)
                            /\ Spare(stack[t][1][1], x, D)
  BY <1>0, <1>2, SubjectIs, KeyFacts DEF DropPCs
<1>4. stack[t] = <<>> => x \in C /\ dict[k].val = x
  <2>1. stack[t] = <<>> => x \in C \cup D
    BY <1>1, <1>2, <1>3 DEF Owns
  <2>2. \A n \in D : next[n].del
    BY DEF Whole, Chained
  <2>3. stack[t] = <<>> => x \in C
    BY <1>2, <2>1, <2>2
  <2> QED
    BY <1>3, <2>3, DictIs
<1>5. /\ \A j \in Keys \ {k} : dict'[j] = dict[j]
      /\ IF stack[t] = <<>>
         THEN /\ dict'[k] = [val |-> x, leaving |-> TRUE]
              /\ \A u \in Threads :
                   pc[u] # "idle" /\ arg[u] = k => seen'[u] = seen[u] \cup {dict'[k]}
              /\ \A u \in Threads : pc[u] = "idle" \/ arg[u] # k => seen'[u] = seen[u]
         ELSE dict' = dict /\ seen' = seen
  <2>1. CASE stack[t] = <<>>
    <3>1. Becomes(k, [val |-> x, leaving |-> TRUE])
      BY <1>0, <1>3, <2>1 DEF Mark
    <3> QED
      BY <1>1, <1>3, <2>1, <3>1 DEF Becomes, TypeOK
  <2>2. CASE stack[t] # <<>>
    BY <2>2 DEF Mark
  <2> QED
    BY <2>1, <2>2
<1>6. Flags(x)
  <2>1. \A j \in Keys : dict'[j].val = dict[j].val
    BY <1>4, <1>5
  <2>2. \A n \in Nodes : /\ next'[n].to = next[n].to
                         /\ next'[n].del = (n = x \/ next[n].del)
    BY <1>1, <1>2, <1>3 DEF TypeOK
  <2> QED
    BY <1>2, <2>1, <2>2 DEF Flags
<1>7. \A n \in C \cup D : n # x => next'[n].del = next[n].del
  BY <1>1, <1>2, WholeOrder DEF TypeOK
<1>8. Headed(C, D)'
  BY <1>2, <1>3, <1>7 DEF Whole, Headed, Spare
<1>9. Tabled(C, D)'
  <2>0. C \subseteq Nodes
    BY WholeOrder
  <2>1. Tabled(C, D)
    BY DEF Whole
  <2>2. \A b \in Buckets : entrys[b] # Null => entrys[b] # x
    BY <1>3, <2>1 DEF Tabled, Spare
  <2> QED
    BY <1>2, <1>7, <2>0, <2>1, <2>2 DEF Tabled
<1>10. Filed(C, D)'
  <2>1. Filed(C, D)
    BY DEF Whole
  <2>2. \A n \in C : key[n] # NoKey => key[n] \in Keys
    <3>1. C \subseteq Nodes
      BY WholeOrder
    <3> QED
      BY <1>1, <3>1 DEF TypeOK
  <2>3. \A n \in C : key[n] # NoKey => dict'[key[n]].val = n
    BY <1>6, <2>1, <2>2 DEF Filed, Flags
  <2>4. ASSUME NEW j \in Keys
        PROVE  IF dict'[j].val = Null THEN ~dict'[j].leaving
               ELSE /\ dict'[j].val \in C /\ key[dict'[j].val] = j
                    /\ dict'[j].leaving = next'[dict'[j].val].del
    <3>1. CASE stack[t] = <<>> /\ j = k
      <4>1. next'[x].del = TRUE
        BY <1>1, <1>2, <1>3 DEF TypeOK
      <4>2. dict'[j].val = x /\ dict'[j].leaving = TRUE
        BY <1>5, <3>1
      <4>3. x \in C /\ key[x] = j /\ x # Null
        BY <1>3, <1>4, <3>1, KeyAssumption
      <4> QED
        BY <4>1, <4>2, <4>3
    <3>2. CASE stack[t] # <<>> \/ j # k
      <4>1. dict'[j] = dict[j]
        BY <1>5, <3>2
      <4>2. dict[j].val # Null => dict[j].val \in C /\ key[dict[j].val] = j /\ j # NoKey
        BY <2>1, KeyFacts DEF Filed
      <4>3. dict[j].val # Null => dict[j].val # x
        BY <1>3, <3>2, <4>2
      <4> QED
        BY <1>7, <2>1, <4>1, <4>2, <4>3 DEF Filed
    <3> QED
      BY <3>1, <3>2
  <2> QED
    BY <1>2, <2>1, <2>3, <2>4 DEF Filed
<1>11. Subject(t)' = x /\ Taking(t)' = (stack[t] = <<>>) /\ Mine(t)' = Mine(t)
  <2>1. Building(t)' = Building(t)
    BY <1>2 DEF Building, InsertPCs, DropPCs
  <2> QED
    BY <1>0, <1>2, <2>1 DEF Subject, Taking, Mine, Dummies
<1>12. Owns(t, C, D)'
  <2>1. next'[x].del = TRUE
    BY <1>1, <1>2, <1>3 DEF TypeOK
  <2>2. Building(t)' = Building(t)
    BY <1>2 DEF Building, InsertPCs, DropPCs
  <2> QED
    BY <1>1, <1>2, <1>3, <1>4, <1>11, <2>1, <2>2, ZenonT(60)
       DEF Owns, Spare, OutPCs, DropPCs
<1>13. Seeks(t, C, D, r)'
  <2>1. \A y : Fits(t, y)' <=> Fits(t, y)
    BY <1>2 DEF Fits, Sought
  <2> QED
    BY <1>1, <1>2, <2>1 DEF Seeks, SearchPCs, DropPCs
<1>14. \E f : Saw(t, C, D, r, f)'
  <2>1. PICK f : Saw(t, C, D, r, f)
    BY DEF Whole
  <2>2. Met(t, C, D, r, f) /\ arg[t] \in Keys /\ arg'[t] = arg[t]
    BY <1>0, <1>2, <1>3, <2>1 DEF Saw
  <2>3. CASE stack[t] # <<>>
    <3>1. dict'[arg[t]] \in seen'[t] /\ seen[t] \subseteq seen'[t]
      BY <1>5, <2>2, <2>3 DEF Met
    <3>2. Met(t, C, D, r, f)'
      BY <1>6, <2>2, <3>1, FlagMet
    <3>3. Here(t, C, D, r, f)'
      BY <1>2, <1>11, <2>3 DEF Here
    <3> QED
      BY <3>2, <3>3 DEF Saw
  <2>4. CASE stack[t] = <<>>
    <3>1. /\ \A q \in C : next'[q].to \in C \cup {Null}
          /\ \A q, v \in C : ~Skips(hashnr, r, next', q, v)
      <4>1. Chained(C, D, hashnr, r, next)' /\ hashnr' = hashnr
        BY <1>2, <1>6, FlagChained
      <4> QED
        BY <4>1 DEF Chained
    <3>2. seen'[t] = seen[t] \cup {dict'[k]} /\ dict'[k].val = x
      BY <1>0, <1>2, <1>5, <2>4
    <3>3. \A q \in C : key[q] = k => q = x /\ q \notin D
      <4>1. \A q \in C : key[q] = k => dict[k].val = q
        BY <1>3, DictIs
      <4>2. C \cap D = {}
        BY WholeOrder
      <4> QED
        BY <1>4, <2>4, <4>1, <4>2
    <3>4. Met(t, C, D, r, C)'
      BY <1>0, <1>2, <1>4, <2>4, <3>1, <3>2, <3>3 DEF Met
    <3>5. Here(t, C, D, r, C)'
      BY <1>0, <1>2, <1>3, <1>4, <1>11, <2>4, <3>1, <3>3 DEF Here
    <3> QED
      BY <3>4, <3>5 DEF Saw
  <2> QED
    BY <2>3, <2>4
<1>15. ASSUME NEW u \in Threads, u # t
       PROVE  /\ Owns(u, C, D)' /\ Seeks(u, C, D, r)' /\ \E f : Saw(u, C, D, r, f)'
              /\ Mine(u)' = Mine(u) /\ Taking(u)' = Taking(u) /\ node'[u] = node[u]
  <2>1. Same(u) /\ Shape(u) /\ Owns(u, C, D) /\ Apart(t, u)
    BY <1>1, <1>15 DEF Others, Same, TypeInv, Whole
  <2>2. x \notin Mine(u)
    <3>1. CASE stack[t] # <<>>
      BY <1>3, <2>1, <3>1 DEF Apart, Mine
    <3>2. CASE stack[t] = <<>>
      BY <1>3, <1>4, <2>1, <3>2 DEF Owns, Mine, Dummies, Spare
    <3> QED
      BY <3>1, <3>2
  <2>3. seen[u] \subseteq seen'[u] /\ (pc[u] # "idle" => dict'[arg[u]] \in seen'[u])
    <3>1. PICK f : Saw(u, C, D, r, f)
      BY DEF Whole
    <3>2. pc[u] # "idle" => dict[arg[u]] \in seen[u] /\ arg[u] \in Keys
      BY <2>1, <3>1 DEF Saw, Met, Shape
    <3> QED
      BY <1>5, <3>2
  <2> QED
    BY <1>6, <2>1, <2>2, <2>3, FlagOther, SameMine DEF Same
<1>16. \A u, v \in Threads : u # v => Apart(u, v)'
  <2> SUFFICES ASSUME NEW u \in Threads, NEW v \in Threads, u # v PROVE Apart(u, v)'
    OBVIOUS
  <2>1. Apart(u, v)
    BY DEF Whole
  <2>2. \A w \in Threads : Taking(w) => next[node[w]].del
    BY DEF Whole, Owns
  <2>3. stack[t] = <<>> => \A w \in Threads : Taking(w) => node[w] # node[t]
    BY <1>2, <1>3, <2>2
  <2> QED
    BY <1>2, <1>11, <1>15, <2>1, <2>3 DEF Apart
<1>17. Ranked(C, D, r, m) /\ Chained(C, D, hashnr, r, next)'
  BY <1>6, FlagChained DEF Whole
<1> QED
  BY <1>8, <1>9, <1>10, <1>12, <1>13, <1>14, <1>15, <1>16, <1>17 DEF Whole

-----------------------------------------------------------------------------
(* A node is unlinked.                                                     *)

(* What the step means for those that have met x: C are the nodes that are *)
(* left.                                                                   *)
Leaves(x, C, D, r) ==
  /\ x \in C /\ UNCHANGED <<hashnr, key, free, entrys>>
  /\ next[x].to \in C \cup {Null}
  /\ \A n \in C \cup D : /\ next'[n].del = next[n].del
                         /\ next'[n].to \in {next[n].to, next[x].to}
  /\ \A n \in C \cup D, v \in C \ {x} :
       Skips(hashnr, r, next', n, v) => n # x /\ Skips(hashnr, r, next, n, v)

(* What Unlink does to the chain. *)
LEMMA UnlinkLeaves ==
  ASSUME NEW t \in Threads, NEW C, NEW D, NEW r, NEW m, TypeInv, Whole(C, D, r, m),
         Unlink(t), NEW x, x = Subject(t)
  PROVE  /\ Leaves(x, C, D, r) /\ next[x].del
         /\ Ranked(C \ {x}, D \cup {x}, r, m)
         /\ Chained(C \ {x}, D \cup {x}, hashnr, r, next)'
<1>0. PICK p, c : p = prev[t] /\ c = next[x].to
  OBVIOUS
<1>1. TypeOK /\ Shape(t) /\ Owns(t, C, D) /\ Seeks(t, C, D, r)
  BY DEF TypeInv, Whole
<1>2. /\ pc[t] = "unlink" /\ next[p] = [to |-> x, del |-> FALSE]
      /\ next' = [next EXCEPT ![p].to = c]
      /\ UNCHANGED <<hashnr, key, free, entrys>>
  BY <1>0 DEF Unlink, Bypass, tableVars
<1>3. x \in Nodes /\ x \in C /\ next[x].del
  <2>1. CASE stack[t] = <<>>
    <3>1. Taking(t) /\ x = node[t]
      BY <1>2, <2>1 DEF Taking, Subject
    <3>2. x \in C /\ next[x].del
      BY <1>1, <3>1 DEF Owns
    <3> QED
      BY <3>2, WholeOrder
  <2>2. CASE stack[t] # <<>>
    <3>1. x = stack[t][1][2] /\ 1 \in 1 .. Len(stack[t]) /\ x \in Nodes
      BY <1>1, <2>2, Stacked DEF Subject
    <3> QED
      BY <1>1, <1>2, <2>2, <3>1 DEF Owns, OutPCs, DropPCs
  <2> QED
    BY <2>1, <2>2
<1>4. p \in C /\ p \in Nodes /\ p # x
  <2>1. p \in C \cup D
    BY <1>0, <1>1, <1>2 DEF Seeks, SearchPCs, DropPCs
  <2>2. \A n \in D : next[n].del
    BY DEF Whole, Chained
  <2>3. p \in C /\ p # x
    BY <1>2, <1>3, <2>1, <2>2
  <2> QED
    BY <2>3, WholeOrder
<1>5. /\ next'[p].to = c /\ next'[p].del = next[p].del /\ next[p].to = x
      /\ \A n \in Nodes \ {p} : next'[n] = next[n]
  BY <1>1, <1>2, <1>4 DEF TypeOK
<1>6. x # list_head
  BY <1>3 DEF Whole, Headed
<1>7. Ranked(C, D, r, m) /\ Chained(C, D, hashnr, r, next)
  BY DEF Whole
<1>8. /\ hashnr \in [Nodes -> Nat] /\ C \subseteq Nodes /\ D \subseteq Nodes /\ C \cap D = {}
      /\ Ordered(C \cup D, hashnr, r) /\ Null \notin C \cup D
  BY WholeOrder
<1>9. /\ Ranked(C \ {x}, D \cup {x}, r, m)
      /\ Chained(C \ {x}, D \cup {x}, hashnr, r, next')
  BY <1>0, <1>3, <1>4, <1>5, <1>6, <1>7, <1>8, UnlinkChained
<1>10. c \in C \cup {Null}
  BY <1>0, <1>3, <1>7 DEF Chained
<1>11. \A n \in C \cup D : next'[n].del = next[n].del /\ next'[n].to \in {next[n].to, c}
  BY <1>5, <1>8
<1>12. \A n \in C \cup D, v \in C \ {x} :
         Skips(hashnr, r, next', n, v) => n # x /\ Skips(hashnr, r, next, n, v)
  <2> SUFFICES ASSUME NEW n \in C \cup D, NEW v \in C \ {x}, Skips(hashnr, r, next', n, v)
               PROVE  n # x /\ Skips(hashnr, r, next, n, v)
    OBVIOUS
  <2>1. n # p
    BY <1>4, <1>9 DEF Chained
  <2>2. next'[n] = next[n]
    BY <1>5, <1>8, <2>1
  <2>3. Skips(hashnr, r, next, n, v)
    BY <2>2 DEF Skips
  <2>4. n # x
    BY <1>3, <1>7, <2>3 DEF Chained
  <2> QED
    BY <2>3, <2>4
<1>13. Leaves(x, C, D, r)
  BY <1>0, <1>2, <1>3, <1>10, <1>11, <1>12 DEF Leaves
<1>14. Chained(C \ {x}, D \cup {x}, hashnr, r, next)'
  BY <1>2, <1>9
<1> QED
  BY <1>3, <1>9, <1>13, <1>14

(* What a call has met, when a node is unlinked. *)
LEMMA LeaveMet ==
  ASSUME NEW C, NEW D, NEW r, NEW m, TypeInv, Whole(C, D, r, m), NEW x, Leaves(x, C, D, r),
         NEW u, arg[u] \in Keys, arg'[u] = arg[u], NEW f, Met(u, C, D, r, f),
         \/ dict'[arg[u]] = dict[arg[u]] /\ seen'[u] = seen[u] /\ key[x] # arg[u]
         \/ dict'[arg[u]] = Absent /\ seen'[u] = seen[u] \cup {Absent}
  PROVE  Met(u, C \ {x}, D \cup {x}, r, f)' /\ (Missed(u) => Missed(u)')
<1>1. /\ C \subseteq f /\ f \subseteq C \cup D /\ key' = key /\ hashnr' = hashnr /\ x \in C
  BY DEF Met, Leaves
<1>2. seen[u] \subseteq seen'[u] /\ dict'[arg[u]] \in seen'[u]
  BY DEF Met
<1>3. Missed(u) => Missed(u)'
  BY <1>2 DEF Missed
<1>4. \A n \in f : next'[n].to \in f \cup {Null}
  <2>1. \A n \in f : next[n].to \in f \cup {Null}
    BY DEF Met
  <2> QED
    BY <1>1, <2>1 DEF Leaves
<1>5. ASSUME NEW n \in f, key[n] = arg[u]
      PROVE  (\E s \in seen'[u] : s.val = n) /\ (n \in D \cup {x} => Missed(u)')
  <2>1. (\E s \in seen[u] : s.val = n) /\ (n \in D => Missed(u))
    BY <1>5 DEF Met
  <2>2. n = x => Missed(u)'
    BY <1>5 DEF Missed
  <2> QED
    BY <1>2, <1>3, <2>1, <2>2
<1>6. ASSUME ~Missed(u)', NEW n \in f PROVE ~Skips(hashnr, r, next', n, dict'[arg[u]].val)
  <2>1. ~Missed(u) /\ dict'[arg[u]] = dict[arg[u]] /\ key[x] # arg[u]
    BY <1>3, <1>6 DEF Missed, Met
  <2>2. dict[arg[u]].val \in C \ {x}
    BY <2>1, DictIs DEF Met, Missed
  <2>3. ~Skips(hashnr, r, next, n, dict[arg[u]].val)
    BY <1>6, <2>1 DEF Met
  <2> QED
    BY <1>1, <2>1, <2>2, <2>3 DEF Leaves
<1>7. Met(u, C \ {x}, D \cup {x}, r, f)'
  BY <1>1, <1>2, <1>4, <1>5, <1>6 DEF Met
<1> QED
  BY <1>3, <1>7

(* The other threads, when a node is unlinked. *)
LEMMA LeaveOther ==
  ASSUME NEW C, NEW D, NEW r, NEW m, TypeInv, Whole(C, D, r, m), NEW x, Leaves(x, C, D, r),
         NEW u \in Threads, Same(u), x \notin Mine(u), Taking(u) => node[u] # x,
         pc[u] # "idle" =>
           \/ dict'[arg[u]] = dict[arg[u]] /\ seen'[u] = seen[u] /\ key[x] # arg[u]
           \/ dict'[arg[u]] = Absent /\ seen'[u] = seen[u] \cup {Absent}
  PROVE  /\ Owns(u, C \ {x}, D \cup {x})' /\ Seeks(u, C \ {x}, D \cup {x}, r)'
         /\ \E f : Saw(u, C \ {x}, D \cup {x}, r, f)'
<1>1. Owns(u, C, D) /\ Seeks(u, C, D, r) /\ Shape(u) /\ TypeOK
  BY DEF Whole, TypeInv
<1>2. /\ x \in C /\ hashnr' = hashnr /\ key' = key /\ free' = free /\ entrys' = entrys
      /\ \A n \in C : next'[n].del = next[n].del
  BY DEF Leaves
<1>3. Owns(u, C \ {x}, D \cup {x})'
  <2>1. \A i \in 1 .. Len(stack[u]) : stack[u][i][2] # x
    BY DEF Mine, Dummies
  <2>2. Building(u) => node[u] # x
    BY DEF Mine
  <2>3. stack[u] # <<>> /\ pc[u] \in OutPCs => Subject(u) \in C
    <3>1. stack[u] # <<>> => Subject(u) = stack[u][1][2] /\ 1 \in 1 .. Len(stack[u])
      BY <1>1, Stacked DEF Subject
    <3> QED
      BY <1>1, <3>1 DEF Owns
  <2>4. stack[u] # <<>> =>
          /\ pc[u] \in {"ent_set", "mark"} => ~next'[Subject(u)].del
          /\ pc[u] = "unlink" => next'[Subject(u)].del
    BY <1>1, <1>2, <2>3 DEF Owns, OutPCs, DropPCs
  <2>5. Taking(u) => node[u] \in C \ {x} /\ next'[node[u]].del
    BY <1>1, <1>2 DEF Owns
  <2> QED
    BY <1>1, <1>2, <2>1, <2>2, <2>4, <2>5, SameMine DEF Owns, Same, Spare, OutPCs
<1>4. Seeks(u, C \ {x}, D \cup {x}, r)'
  BY <1>1, <1>2, SameMine DEF Seeks, Same
<1>5. PICK f : Saw(u, C, D, r, f)
  BY DEF Whole
<1>6. Saw(u, C \ {x}, D \cup {x}, r, f)'
  <2> SUFFICES ASSUME pc[u] # "idle"
               PROVE  Met(u, C \ {x}, D \cup {x}, r, f)' /\ Here(u, C \ {x}, D \cup {x}, r, f)'
    BY DEF Saw, Same
  <2>1. Met(u, C, D, r, f) /\ Here(u, C, D, r, f) /\ arg[u] \in Keys /\ arg'[u] = arg[u]
    BY <1>1, <1>5 DEF Saw, Shape, Same
  <2>2. Met(u, C \ {x}, D \cup {x}, r, f)' /\ (Missed(u) => Missed(u)')
    BY <2>1, LeaveMet
  <2>3. ~Missed(u)' => dict'[arg[u]] = dict[arg[u]]
    BY DEF Missed
  <2>4. ASSUME Taking(u), NEW n \in f
        PROVE  /\ key[n] = arg[u] => n = node[u]
               /\ ~Skips(hashnr, r, next', n, node[u])
    <3>1. node[u] \in C \ {x}
      BY <1>1, <2>4 DEF Owns
    <3>2. (key[n] = arg[u] => n = node[u]) /\ ~Skips(hashnr, r, next, n, node[u])
      BY <2>1, <2>4 DEF Here
    <3>3. n \in C \cup D
      BY <2>1, <2>4 DEF Met
    <3> QED
      BY <3>1, <3>2, <3>3 DEF Leaves
  <2>5. /\ pc'[u] = pc[u] /\ prev'[u] = prev[u] /\ node'[u] = node[u] /\ stack'[u] = stack[u]
        /\ (Taking(u)' <=> Taking(u))
    BY DEF Same, Taking
  <2>6. Here(u, C \ {x}, D \cup {x}, r, f)'
    <3>1. Taking(u)' => \A n \in f : /\ key'[n] = arg'[u] => n = node'[u]
                                     /\ ~Skips(hashnr', r, next', n, node'[u])
      BY <1>2, <2>1, <2>4, <2>5
    <3> QED
      BY <1>2, <2>1, <2>2, <2>3, <2>5, <3>1 DEF Here
  <2> QED
    BY <2>2, <2>6
<1> QED
  BY <1>3, <1>4, <1>6

-----------------------------------------------------------------------------
(* ab_hash_list_delete unlinks a dummy or the node of a key. *)
LEMMA UnlinkStep ==
  ASSUME NEW t \in Threads, NEW C, NEW D, NEW r, NEW m, TypeInv, Whole(C, D, r, m),
         Unlink(t)
  PROVE  \E C2, D2, r2, m2 : Whole(C2, D2, r2, m2)'
<1>0. PICK x, k, c, d : x = Subject(t) /\ k = arg[t] /\ c = C \ {x} /\ d = D \cup {x}
  OBVIOUS
<1>1. Others(t) /\ TypeOK /\ Shape(t) /\ Owns(t, C, D)
  BY OnlyOwn DEF TypeInv, Work, Whole
<1>2. pc[t] = "unlink" /\ arg' = arg /\ UNCHANGED <<hashnr, key, free, entrys>>
  BY DEF Unlink, callVars, tableVars
<1>3. /\ Leaves(x, C, D, r) /\ Ranked(c, d, r, m) /\ Chained(c, d, hashnr, r, next)'
      /\ x \in C
  <2>1. /\ Leaves(x, C, D, r) /\ Ranked(C \ {x}, D \cup {x}, r, m)
        /\ Chained(C \ {x}, D \cup {x}, hashnr, r, next)'
    BY <1>0, UnlinkLeaves
  <2> QED
    BY <1>0, <2>1 DEF Leaves
<1>4. /\ x \in Nodes /\ k \in Keys /\ k # NoKey
      /\ stack[t] = <<>> => x = node[t] /\ key[x] = k /\ Taking(t)
      /\ stack[t] # <<>> => /\ x = stack[t][1][2] /\ key[x] = NoKey /\ x \in Dummies(t)
                            /\ Spare(stack[t][1][1], x, D) /\ Building(t)
  BY <1>0, <1>2, SubjectIs, KeyFacts DEF DropPCs, Taking, Building
<1>5. IF stack[t] = <<>>
      THEN NodeGone(t) ELSE DummyGone(t, "unlink")
  BY DEF Unlink, NodeGone, DummyGone
<1>6. /\ \A j \in Keys \ {k} : dict'[j] = dict[j]
      /\ IF stack[t] = <<>>
         THEN /\ dict'[k] = Absent
              /\ \A u \in Threads :
                   pc[u] # "idle" /\ arg[u] = k => seen'[u] = seen[u] \cup {Absent}
              /\ \A u \in Threads : pc[u] = "idle" \/ arg[u] # k => seen'[u] = seen[u]
         ELSE dict' = dict /\ seen' = seen
  <2>1. CASE stack[t] = <<>>
    <3>1. Becomes(k, Absent)
      BY <1>0, <1>5, <2>1 DEF NodeGone
    <3> QED
      BY <1>1, <1>4, <2>1, <3>1 DEF Becomes, TypeOK
  <2>2. CASE stack[t] # <<>>
    BY <1>5, <2>2 DEF DummyGone
  <2> QED
    BY <2>1, <2>2
<1>7. c \cup d = C \cup D /\ c \subseteq C /\ \A n \in C \cup D : next'[n].del = next[n].del
  BY <1>0, <1>3 DEF Leaves
<1>8. x # list_head /\ \A b \in Buckets : entrys[b] # Null => entrys[b] # x
  <2>1. Headed(C, D) /\ Tabled(C, D)
    BY DEF Whole
  <2> QED
    BY <1>4, <2>1 DEF Headed, Tabled, Spare
<1>9. Headed(c, d)'
  <2>1. Headed(C, D)
    BY DEF Whole
  <2> QED
    BY <1>0, <1>2, <1>7, <1>8, <2>1 DEF Headed
<1>10. Tabled(c, d)'
  <2>1. Tabled(C, D)
    BY DEF Whole
  <2> QED
    BY <1>0, <1>2, <1>7, <1>8, <2>1 DEF Tabled
<1>11. Filed(c, d)'
  <2>1. Filed(C, D)
    BY DEF Whole
  <2>2. ASSUME NEW n \in c, key[n] # NoKey PROVE dict'[key[n]].val = n
    <3>1. n \in C /\ n # x /\ dict[key[n]].val = n
      BY <1>0, <2>1, <2>2 DEF Filed
    <3>2. key[n] \in Keys
      <4>1. n \in Nodes
        BY <3>1, WholeOrder
      <4> QED
        BY <1>1, <2>2, <4>1 DEF TypeOK
    <3>3. stack[t] = <<>> => key[n] # k
      <4>1. stack[t] = <<>> => dict[k].val = x
        BY <1>3, <1>4, <2>1 DEF Filed
      <4> QED
        BY <3>1, <4>1
    <3> QED
      BY <1>6, <3>1, <3>2, <3>3
  <2>3. ASSUME NEW j \in Keys
        PROVE  IF dict'[j].val = Null THEN ~dict'[j].leaving
               ELSE /\ dict'[j].val \in c /\ key[dict'[j].val] = j
                    /\ dict'[j].leaving = next'[dict'[j].val].del
    <3>1. CASE stack[t] = <<>> /\ j = k
      BY <1>6, <3>1 DEF Absent
    <3>2. CASE stack[t] # <<>> \/ j # k
      <4>1. dict'[j] = dict[j]
        BY <1>6, <3>2
      <4>2. dict[j].val # Null => dict[j].val \in C /\ key[dict[j].val] = j /\ j # NoKey
        BY <2>1, KeyFacts DEF Filed
      <4>3. dict[j].val # Null => dict[j].val \in c
        BY <1>0, <1>4, <3>2, <4>2
      <4> QED
        BY <1>7, <2>1, <4>1, <4>2, <4>3 DEF Filed
    <3> QED
      BY <3>1, <3>2
  <2> QED
    BY <1>2, <1>7, <2>1, <2>2, <2>3 DEF Filed
<1>12. ASSUME NEW u \in Threads, pc[u] # "idle"
       PROVE  \/ dict'[arg[u]] = dict[arg[u]] /\ seen'[u] = seen[u] /\ key[x] # arg[u]
              \/ dict'[arg[u]] = Absent /\ seen'[u] = seen[u] \cup {Absent}
  <2>1. arg[u] \in Keys /\ arg[u] # NoKey
    BY <1>12, KeyFacts DEF TypeInv, Shape
  <2>2. CASE stack[t] = <<>> /\ arg[u] = k
    BY <1>6, <1>12, <2>2
  <2>3. CASE stack[t] # <<>> \/ arg[u] # k
    BY <1>4, <1>6, <2>1, <2>3
  <2> QED
    BY <2>2, <2>3
<1>13. \E f : Met(t, C, D, r, f) /\ Met(t, c, d, r, f)' /\ C \subseteq f
  <2>1. PICK f : Saw(t, C, D, r, f)
    BY DEF Whole
  <2>2. Met(t, C, D, r, f) /\ arg[t] \in Keys /\ arg'[t] = arg[t]
    BY <1>0, <1>2, <1>4, <2>1 DEF Saw
  <2>3. Met(t, C \ {x}, D \cup {x}, r, f)'
    BY <1>2, <1>3, <1>12, <2>2, LeaveMet
  <2> QED
    BY <1>0, <2>2, <2>3 DEF Met
<1>14. /\ ~Taking(t)' /\ Mine(t)' \subseteq Mine(t)
       /\ Owns(t, c, d)' /\ Seeks(t, c, d, r)' /\ \E f : Saw(t, c, d, r, f)'
  <2>1. CASE stack[t] = <<>>
    <3>1. pc'[t] = "num_sub" /\ stack'[t] = <<>>
      BY <1>1, <1>5, <2>1 DEF NodeGone, Goto, TypeOK
    <3>2. ~Building(t)' /\ ~Taking(t)' /\ Dummies(t)' = {} /\ Mine(t)' = {}
      BY <3>1 DEF Building, Taking, Dummies, Mine, InsertPCs, DropPCs
    <3>3. Owns(t, c, d)' /\ Seeks(t, c, d, r)'
      BY <3>1, <3>2 DEF Owns, Seeks, Distinct, Nested, OutPCs, DropPCs, SearchPCs
    <3>4. \A f : Here(t, c, d, r, f)'
      BY <3>1, <3>2 DEF Here, SearchPCs, DropPCs
    <3> QED
      BY <1>13, <3>2, <3>3, <3>4 DEF Saw
  <2>2. CASE stack[t] # <<>>
    <3>1. PICK b, e : b = stack[t][1][1] /\ e = entrys[b]
      OBVIOUS
    <3>2. b \in Buckets /\ Head(stack[t])[1] = b /\ 1 \in 1 .. Len(stack[t])
      BY <1>1, <2>2, <3>1, Stacked
    <3>3. /\ pc'[t] = "ins_find" /\ stack'[t] = Tail(stack[t]) /\ node'[t] = node[t]
          /\ entry'[t] = e /\ prev'[t] = e
      BY <1>1, <1>5, <2>2, <3>1, <3>2 DEF DummyGone, EntReturn, StartAt, Goto, TypeOK
    <3>4. e # Null
      BY <1>1, <1>2, <2>2, <3>1, <3>2 DEF Shape, DropPCs
    <3>5. e \in c /\ e \in C /\ hashnr[e] = Reverse(b)
      BY <1>0, <1>8, <3>1, <3>2, <3>4, EntryIs
    <3>6. node[t] # x
      BY <1>0, <1>1, <1>4, <2>2 DEF Owns
    <3>7. Owns(t, c, d)' /\ Mine(t)' \subseteq Mine(t) \ {x} /\ ~Taking(t)'
      <4>1. c \subseteq C /\ d \subseteq D \cup {stack[t][1][2]} /\ node[t] # stack[t][1][2]
        BY <1>0, <1>4, <2>2, <3>6
      <4>2. \A i \in Buckets : entrys'[i] \in {entrys[i], stack[t][1][2]}
        BY <1>2
      <4> QED
        BY <1>1, <1>2, <1>4, <2>2, <3>3, <4>1, <4>2, PopOwns
    <3>8. Seeks(t, c, d, r)'
      BY <1>2, <1>4, <1>7, <2>2, <3>1, <3>3, <3>5, PopSeeks
    <3>9. PICK f : Met(t, c, d, r, f)' /\ C \subseteq f
      BY <1>13
    <3>10. Here(t, c, d, r, f)'
      BY <3>3, <3>5, <3>7, <3>9 DEF Here
    <3> QED
      BY <3>7, <3>8, <3>9, <3>10 DEF Saw
  <2> QED
    BY <2>1, <2>2
<1>15. ASSUME NEW u \in Threads, u # t
       PROVE  /\ Owns(u, c, d)' /\ Seeks(u, c, d, r)' /\ \E f : Saw(u, c, d, r, f)'
              /\ Mine(u)' = Mine(u) /\ Taking(u)' = Taking(u) /\ node'[u] = node[u]
  <2>1. Same(u) /\ Owns(u, C, D) /\ Apart(t, u)
    BY <1>1, <1>15 DEF Others, Same, Whole
  <2>2. x \notin Mine(u)
    <3>1. CASE stack[t] # <<>>
      BY <1>4, <2>1, <3>1 DEF Apart, Mine
    <3>2. CASE stack[t] = <<>>
      BY <1>3, <1>4, <2>1, <3>2 DEF Owns, Mine, Dummies, Spare
    <3> QED
      BY <3>1, <3>2
  <2>3. Taking(u) => node[u] # x
    <3>1. CASE stack[t] = <<>>
      BY <1>4, <2>1, <3>1 DEF Apart
    <3>2. CASE stack[t] # <<>>
      <4>1. Taking(u) => key[node[u]] = arg[u] /\ arg[u] \in Keys
        BY <2>1 DEF Owns, Taking, DropPCs, TypeInv, Shape
      <4> QED
        BY <1>4, <3>2, <4>1, KeyFacts
    <3> QED
      BY <3>1, <3>2
  <2>4. /\ Owns(u, C \ {x}, D \cup {x})' /\ Seeks(u, C \ {x}, D \cup {x}, r)'
        /\ \E f : Saw(u, C \ {x}, D \cup {x}, r, f)'
    BY <1>3, <1>12, <2>1, <2>2, <2>3, LeaveOther
  <2> QED
    BY <1>0, <2>1, <2>4, SameMine DEF Same
<1>16. \A u, v \in Threads : u # v => Apart(u, v)'
  <2> SUFFICES ASSUME NEW u \in Threads, NEW v \in Threads, u # v PROVE Apart(u, v)'
    OBVIOUS
  <2>1. Apart(u, v)
    BY DEF Whole
  <2> QED
    BY <1>14, <1>15, <2>1 DEF Apart
<1> QED
  BY <1>3, <1>9, <1>10, <1>11, <1>14, <1>15, <1>16 DEF Whole

-----------------------------------------------------------------------------
(* Every step keeps the invariant.                                         *)

HashInv == TypeInv /\ \E C, D, r, m : Whole(C, D, r, m)

(* What the code does to the chain and to the calls. *)
LEMMA WholeStep ==
  ASSUME NEW t \in Threads, NEW C, NEW D, NEW r, NEW m, TypeInv, Whole(C, D, r, m),
         Work(t) \/ Call(t)
  PROVE  \E C2, D2, r2, m2 : Whole(C2, D2, r2, m2)'
<1>1. CASE \/ EntGetNone(t) \/ KeyNone(t) \/ MarkLost(t)
           \/ (KeyFound(t) /\ op[t] = "get") \/ (NodeNone(t) /\ stack[t] = <<>>)
           \/ NumAdd(t) \/ NumSub(t) \/ RsSize(t) \/ RsLoad(t) \/ RsNum(t) \/ RsGrow(t)
           \/ RsSize2(t) \/ RsLoad2(t) \/ RsFit(t)
  <2>1. Whole(C, D, r, m)'
    BY <1>1, DoneSteps
  <2> QED
    BY <2>1
<1>2. CASE Return(t)
  <2>1. Whole(C, D, r, m)'
    BY <1>2, ReturnStep
  <2> QED
    BY <2>1
<1>3. CASE Call(t)
  <2>1. Whole(C, D, r, m)'
    BY <1>3, FindStep, InsertStep DEF Call
  <2> QED
    BY <2>1
<1>4. CASE EntFound(t) \/ EntGet(t) \/ EntGetParent(t)
  <2>1. Whole(C, D, r, m)'
    BY <1>4, EntFoundStep, EntGetParentStep
  <2> QED
    BY <2>1
<1>5. CASE InsWalk(t) \/ InsFound(t) \/ InsRetry(t) \/ EntLost(t) \/ UnlinkRetry(t)
  <2>1. Whole(C, D, r, m)'
    BY <1>5, InsWalkStep, InsFoundStep, InsRetryStep, FindAgainStep
  <2> QED
    BY <2>1
<1>6. CASE KeyWalk(t) \/ (KeyFound(t) /\ op[t] # "get") \/ NodeWalk(t) \/ NodeFound(t)
  <2>1. Whole(C, D, r, m)'
    BY <1>6, KeyWalkStep, KeyFoundStep, NodeWalkStep, NodeFoundStep
  <2> QED
    BY <2>1
<1>7. CASE (NodeNone(t) /\ stack[t] # <<>>) \/ EntHead(t) \/ EntSet(t)
  <2>1. Whole(C, D, r, m)'
    BY <1>7, NodeNoneStep, EntHeadStep, EntSetStep
  <2> QED
    BY <2>1
<1>8. CASE InsDuplicate(t) \/ EntParent(t) \/ Mark(t)
  <2>1. Whole(C, D, r, m)'
    BY <1>8, InsDuplicateStep, EntParentStep, MarkStep
  <2> QED
    BY <2>1
<1>9. CASE InsLink(t) \/ Unlink(t)
  BY <1>9, InsLinkStep, UnlinkStep
<1>10. CASE KeyFound(t)
  BY <1>1, <1>6, <1>10
<1>11. CASE NodeNone(t)
  BY <1>1, <1>7, <1>11
<1>12. CASE \/ EntGetNone(t) \/ KeyNone(t) \/ MarkLost(t) \/ NumAdd(t) \/ NumSub(t)
            \/ RsSize(t) \/ RsLoad(t) \/ RsNum(t) \/ RsGrow(t) \/ RsSize2(t) \/ RsLoad2(t)
            \/ RsFit(t)
  BY <1>1, <1>12
<1>13. CASE KeyWalk(t) \/ NodeWalk(t) \/ NodeFound(t)
  BY <1>6, <1>13
<1>14. CASE EntHead(t) \/ EntSet(t)
  BY <1>7, <1>14
<1> QED
  BY <1>2, <1>3, <1>4, <1>5, <1>8, <1>9, <1>10, <1>11, <1>12, <1>13, <1>14, Zenon DEF Work

(* The invariant is inductive. *)
LEMMA InvStep ==
  ASSUME HashInv, [Next]_vars
  PROVE  HashInv'
<1>1. CASE UNCHANGED vars
  <2>1. TypeOK' /\ Resizing' /\ \A t \in Threads : Shape(t)'
    BY <1>1
       DEF HashInv, TypeInv, TypeOK, Resizing, Shape, Building, vars, tableVars,
           nodeVars,
                callVars, locals, history
  <2>2. PICK C, D, r, m : Whole(C, D, r, m)
    BY DEF HashInv
  <2>3. UNCHANGED chain /\ \A u \in Threads : Same(u) /\ seen'[u] = seen[u]
    BY <1>1 DEF chain, Same, vars, tableVars, nodeVars, callVars, locals, history
  <2>4. Headed(C, D)' /\ Tabled(C, D)' /\ Filed(C, D)'
    BY <2>2, <2>3 DEF Whole, Headed, Tabled, Filed, chain
  <2>5. \A u \in Threads : Owns(u, C, D)' /\ Seeks(u, C, D, r)' /\ \E f : Saw(u, C, D, r, f)'
    BY <2>2, <2>3, SameThread DEF Whole
  <2>6. \A u, v \in Threads : u # v => Apart(u, v)'
    BY <2>2, <2>3, SameMine DEF Whole, Apart, Same
  <2>7. Ranked(C, D, r, m) /\ Chained(C, D, hashnr, r, next)'
    BY <2>2, <2>3 DEF Whole, chain
  <2>8. Whole(C, D, r, m)'
    BY <2>4, <2>5, <2>6, <2>7 DEF Whole
  <2> QED
    BY <2>1, <2>8 DEF HashInv, TypeInv
<1>2. CASE Next
  <2>1. PICK t \in Threads : Work(t) \/ Call(t)
    BY <1>2 DEF Next
  <2>2. TypeOK'
    BY <2>1, TypeStep, TypeCall DEF HashInv
  <2>3. PICK C, D, r, m : Whole(C, D, r, m)
    BY DEF HashInv
  <2>4. InsDuplicate(t) \/ MarkLost(t) => stack[t] = <<>>
    BY <2>3, EndsAlone DEF HashInv
  <2>5. \A u \in Threads : Shape(u)'
    BY <2>1, <2>2, <2>4, ShapeStep DEF HashInv
  <2>6. Resizing'
    BY <2>1, <2>2, ResizingStep DEF HashInv
  <2>7. \E C2, D2, r2, m2 : Whole(C2, D2, r2, m2)'
    BY <2>1, <2>3, WholeStep DEF HashInv
  <2> QED
    BY <2>2, <2>5, <2>6, <2>7 DEF HashInv, TypeInv
<1> QED
  BY <1>1, <1>2

(* It holds at first. *)
LEMMA InitInv ==
  ASSUME Init
  PROVE  HashInv
<1>1. /\ BUCKET_MAX \in Nat \ {0} /\ NumMod \in Nat \ {0} /\ MaxInserts \in Nat
      /\ TwoTo[Bits] \in Nat \ {0} /\ list_head \in Nodes /\ list_head # Null
      /\ Null \notin Nodes /\ 0 \in Buckets
  BY BucketMax, BoundAssumption, KeyAssumption, TwoToIs DEF list_head, Nodes
<1>2. TypeOK
  BY <1>1 DEF Init, TypeOK, PCs, MaybeNode, Absent
<1>3. Resizing
  <2>1. TwoTo[0] = 1 /\ TwoTo[0 + 1] = 2 * TwoTo[0] /\ 0 \in Nat
    BY TwoToIs
  <2>2. TwoTo[1] = 2 /\ 1 \in Nat
    BY <2>1
  <2> QED
    BY <2>2 DEF Init, Resizing, SizePCs
<1>4. \A t \in Threads : Shape(t)
  BY DEF Init, Shape, Building, InsertPCs, DropPCs, SearchPCs, DonePCs, InsertedPCs
<1> DEFINE C == {list_head}
           r == [n \in Nodes |-> 0]
<1>5. Ranked(C, {}, r, 1)
  BY <1>1 DEF Ranked
<1>6. Chained(C, {}, hashnr, r, next)
  BY <1>1 DEF Init, Chained, Skips, Ahead
<1>7. Headed(C, {})
  BY <1>1, HeadNr DEF Init, Headed
<1>8. Tabled(C, {})
  BY <1>1 DEF Init, Tabled
<1>9. Filed(C, {})
  BY <1>1, HeadNr DEF Init, Filed, Absent
<1>10. \A t \in Threads : ~Building(t) /\ ~Taking(t) /\ stack[t] = <<>> /\ pc[t] = "idle"
  BY DEF Init, Building, Taking, InsertPCs, DropPCs
<1>11. \A t \in Threads : Owns(t, C, {}) /\ Seeks(t, C, {}, r) /\ Saw(t, C, {}, r, {})
  BY <1>10 DEF Owns, Seeks, Saw, Distinct, Nested, OutPCs, DropPCs, SearchPCs
<1>12. \A t \in Threads : Mine(t) = {}
  BY <1>10 DEF Mine, Dummies
<1>13. \A t, u \in Threads : Apart(t, u)
  BY <1>10, <1>12 DEF Apart
<1>14. Whole(C, {}, r, 1)
  <2> HIDE DEF C, r
  <2> QED
    BY <1>5, <1>6, <1>7, <1>8, <1>9, <1>11, <1>13 DEF Whole
<1> QED
  BY <1>2, <1>3, <1>4, <1>14 DEF HashInv, TypeInv

(* The inductive invariant holds at all times: the chain (ab_hash.c:299,   *)
(* 328) is in order and complete, the table points into it, and every call *)
(* knows what it has met.                                                  *)
THEOREM HashCorrect == Spec => []HashInv
<1>1. Init => HashInv
  BY InitInv
<1>2. HashInv /\ [Next]_vars => HashInv'
  BY InvStep
<1> QED
  BY <1>1, <1>2, PTL DEF Spec

-----------------------------------------------------------------------------
(* Every variable of the table, of its nodes and of the calls has its type *)
(* in every state, whatever the threads do.                                *)
THEOREM TypeCorrect == Spec => []TypeOK
<1>1. HashInv => TypeOK
  BY DEF HashInv, TypeInv
<1> QED
  BY <1>1, HashCorrect, PTL

(* A step of ab_hash_check_resize is as LoadFollows says. *)
LEMMA ResizeStep ==
  HashInv /\ [Next]_vars => [size' >= size /\ 2 * maxload' <= size']_<<size, maxload>>
<1> SUFFICES ASSUME HashInv, [Next]_vars
             PROVE  (size' >= size /\ 2 * maxload' <= size') \/ UNCHANGED <<size, maxload>>
  OBVIOUS
<1>1. CASE UNCHANGED vars
  BY <1>1 DEF vars, tableVars
<1>2. CASE Next
  <2>1. PICK t \in Threads : Work(t) \/ Call(t)
    BY <1>2 DEF Next
  <2>2. TypeOK'
    BY <2>1, TypeStep, TypeCall DEF HashInv
  <2> QED
    BY <2>1, <2>2, ResizingStep DEF HashInv
<1> QED
  BY <1>1, <1>2

(* The table never shrinks and the load limit never passes half its size,  *)
(* whatever resizes of ab_hash_check_resize run at once.                   *)
THEOREM TableGrows == Spec => LoadFollows
<1> QED
  BY HashCorrect, ResizeStep, PTL DEF Spec, LoadFollows

-----------------------------------------------------------------------------
(* Chain, which AbHash computes by following next from list_head, is C.    *)
Out(X) == X \cup ({next[x].to : x \in X} \ {Null})
IsReach(f) ==
  f = [n \in 0 .. MaxNodes |-> IF n = 0 THEN {list_head}
                               ELSE LET r == f[n - 1]
                                    IN  r \cup ({next[x].to : x \in r} \ {Null})]

(* The definition of Chain, step by step. *)
LEMMA ReachIs ==
  ASSUME TypeOK
  PROVE  \E f : /\ Chain = f[MaxNodes] /\ f[0] = {list_head}
                /\ \A n \in 0 .. MaxNodes - 1 : f[n + 1] = Out(f[n])
<1> DEFINE S == SUBSET Nodes
           h == [n \in Nat |-> [X \in S |-> Out(X)]]
           f == CHOOSE g : IsReach(g)
<1>1. MaxNodes \in Nat /\ {list_head} \in S
  BY BoundAssumption DEF list_head, Nodes
<1>2. \A X \in S : Out(X) \in S
  BY DEF TypeOK, Out, MaybeNode
<1>3. PICK g : Recurs(g, {list_head}, h, S)
  <2>1. Steps(h, S)
    BY <1>2 DEF Steps
  <2> HIDE DEF h, S
  <2> QED
    BY <1>1, <2>1, NatRecursion
<1>4. g[0] = {list_head} /\ \A n \in Nat : g[n] \in S /\ g[n + 1] = Out(g[n])
  BY <1>3 DEF Recurs
<1>5. IsReach([n \in 0 .. MaxNodes |-> g[n]])
  <2> DEFINE k == [n \in 0 .. MaxNodes |-> g[n]]
  <2>1. \A n \in 0 .. MaxNodes :
          n # 0 => n - 1 \in 0 .. MaxNodes /\ n - 1 \in Nat /\ n - 1 + 1 = n
    BY <1>1
  <2>2. \A n \in 0 .. MaxNodes : n # 0 => g[n] = Out(k[n - 1])
    BY <1>4, <2>1
  <2>3. \A n \in 0 .. MaxNodes :
          k[n] = IF n = 0 THEN {list_head}
                 ELSE LET r == k[n - 1] IN r \cup ({next[x].to : x \in r} \ {Null})
    BY <1>4, <2>2 DEF Out
  <2> QED
    BY <2>3 DEF IsReach
<1>6. IsReach(f)
  BY <1>5
<1> HIDE DEF f
<1>7. f[0] = {list_head} /\ \A n \in 0 .. MaxNodes - 1 : f[n + 1] = Out(f[n])
  <2>1. \A n \in 0 .. MaxNodes - 1 : n + 1 \in 0 .. MaxNodes /\ n + 1 # 0 /\ (n + 1) - 1 = n
    BY <1>1
  <2> QED
    BY <1>1, <1>6, <2>1 DEF IsReach, Out
<1>8. Chain = f[MaxNodes]
  BY DEF Chain, f, IsReach
<1> QED
  BY <1>7, <1>8

(* It finds nothing else, ...                                              *)
LEMMA ChainWithin ==
  ASSUME NEW C, NEW D, NEW r, NEW m, TypeOK, Whole(C, D, r, m)
  PROVE  Chain \subseteq C
<1>1. PICK f : /\ Chain = f[MaxNodes] /\ f[0] = {list_head}
               /\ \A n \in 0 .. MaxNodes - 1 : f[n + 1] = Out(f[n])
  BY ReachIs
<1>2. list_head \in C /\ \A n \in C : next[n].to \in C \cup {Null}
  BY DEF Whole, Headed, Chained
<1> DEFINE S == {n \in Nat : n \in 0 .. MaxNodes => f[n] \subseteq C}
<1>3. 0 \in S
  BY <1>1, <1>2
<1>4. \A n \in Nat : n \in S => n + 1 \in S
  <2> SUFFICES ASSUME NEW n \in Nat, n \in S, n + 1 \in 0 .. MaxNodes
               PROVE  f[n + 1] \subseteq C
    OBVIOUS
  <2>1. n \in 0 .. MaxNodes - 1 /\ n \in 0 .. MaxNodes
    BY BoundAssumption
  <2> QED
    BY <1>1, <1>2, <2>1 DEF Out
<1>5. MaxNodes \in S
  <2> HIDE DEF S
  <2> QED
    BY <1>3, <1>4, NatSetInduction, BoundAssumption
<1> QED
  BY <1>1, <1>5, BoundAssumption

(* ... and everything: after n steps, what has fewer than n nodes ahead.   *)
Ahead2(C, r, c) == {d \in C : Ahead(hashnr, r, d, c)}

(* There are fewer nodes ahead of a node than there are nodes. *)
LEMMA AheadCount ==
  ASSUME NEW C, NEW D, NEW r, NEW m, TypeInv, Whole(C, D, r, m), NEW c \in C
  PROVE  /\ IsFiniteSet(Ahead2(C, r, c)) /\ Cardinality(Ahead2(C, r, c)) \in 0 .. MaxNodes
         /\ \A d \in C : Ahead(hashnr, r, d, c) =>
              Cardinality(Ahead2(C, r, d)) < Cardinality(Ahead2(C, r, c))
<1>1. MaxNodes \in Nat /\ IsFiniteSet(Nodes) /\ Cardinality(Nodes) = MaxNodes
  BY BoundAssumption, FS_Interval DEF Nodes
<1>2. C \subseteq Nodes /\ Ordered(C \cup D, hashnr, r)
  BY WholeOrder
<1>3. \A d \in C : /\ IsFiniteSet(Ahead2(C, r, d)) /\ Cardinality(Ahead2(C, r, d)) \in Nat
                   /\ Cardinality(Ahead2(C, r, d)) <= MaxNodes
  <2>1. \A d \in C : Ahead2(C, r, d) \subseteq Nodes
    BY <1>2 DEF Ahead2
  <2> QED
    BY <1>1, <2>1, FS_Subset, FS_CardinalityType
<1>4. ASSUME NEW d \in C, Ahead(hashnr, r, d, c)
      PROVE  Cardinality(Ahead2(C, r, d)) < Cardinality(Ahead2(C, r, c))
  <2>1. Ahead2(C, r, d) \subseteq Ahead2(C, r, c)
    BY <1>2, <1>4 DEF Ahead2, Ordered
  <2>2. d \in Ahead2(C, r, c) /\ d \notin Ahead2(C, r, d)
    BY <1>2, <1>4 DEF Ahead2, Ordered
  <2> QED
    BY <1>3, <2>1, <2>2, FS_Subset
<1> QED
  BY <1>1, <1>3, <1>4

(* Chain leaves out no node of C: the n-th node in the order is reached in *)
(* n steps, as every node but the head is behind one of C.                 *)
LEMMA ChainAll ==
  ASSUME NEW C, NEW D, NEW r, NEW m, TypeInv, Whole(C, D, r, m)
  PROVE  C \subseteq Chain
<1>1. PICK f : /\ Chain = f[MaxNodes] /\ f[0] = {list_head}
               /\ \A n \in 0 .. MaxNodes - 1 : f[n + 1] = Out(f[n])
  BY ReachIs DEF TypeInv
<1>2. /\ \A c \in C \ {list_head} : \E d \in C : next[d].to = c
      /\ \A d \in C : next[d].to # Null => Ahead(hashnr, r, d, next[d].to)
  BY DEF Whole, Chained
<1>3. MaxNodes \in Nat /\ Null \notin C
  BY BoundAssumption, WholeOrder
<1> DEFINE Near(n) == {c \in C : Cardinality(Ahead2(C, r, c)) <= n}
           S == {n \in Nat : n \in 0 .. MaxNodes => list_head \in f[n] /\ Near(n) \subseteq f[n]}
<1>4. 0 \in S
  <2>1. ASSUME NEW c \in Near(0), c # list_head PROVE FALSE
    <3>1. PICK d \in C : next[d].to = c
      BY <1>2, <2>1
    <3>2. Ahead(hashnr, r, d, c)
      BY <1>2, <1>3, <3>1
    <3>3. Cardinality(Ahead2(C, r, d)) < Cardinality(Ahead2(C, r, c)) /\ c \in C
      BY <3>2, AheadCount
    <3>4. /\ Cardinality(Ahead2(C, r, d)) \in 0 .. MaxNodes
          /\ Cardinality(Ahead2(C, r, c)) \in 0 .. MaxNodes
      BY AheadCount
    <3> QED
      BY <3>3, <3>4, <2>1
  <2> HIDE DEF Near
  <2> QED
    BY <1>1, <2>1
<1>5. \A n \in Nat : n \in S => n + 1 \in S
  <2> SUFFICES ASSUME NEW n \in Nat, n \in S, n + 1 \in 0 .. MaxNodes
               PROVE  list_head \in f[n + 1] /\ Near(n + 1) \subseteq f[n + 1]
    OBVIOUS
  <2>1. n \in 0 .. MaxNodes - 1 /\ n \in 0 .. MaxNodes
    BY <1>3
  <2>2. f[n + 1] = Out(f[n]) /\ list_head \in f[n] /\ Near(n) \subseteq f[n]
    BY <1>1, <2>1
  <2>3. ASSUME NEW c \in Near(n + 1), c # list_head PROVE c \in f[n + 1]
    <3>1. PICK d \in C : next[d].to = c
      BY <1>2, <2>3
    <3>2. Ahead(hashnr, r, d, c) /\ c # Null
      BY <1>2, <1>3, <3>1
    <3>3. Cardinality(Ahead2(C, r, d)) < Cardinality(Ahead2(C, r, c)) /\ c \in C
      BY <3>2, AheadCount
    <3>4. /\ Cardinality(Ahead2(C, r, d)) \in 0 .. MaxNodes
          /\ Cardinality(Ahead2(C, r, c)) \in 0 .. MaxNodes
      BY AheadCount
    <3>5. d \in f[n]
      BY <2>2, <2>3, <3>3, <3>4
    <3> QED
      BY <2>2, <3>1, <3>2, <3>5 DEF Out
  <2> HIDE DEF Near
  <2> QED
    BY <2>2, <2>3 DEF Out
<1>6. MaxNodes \in S
  <2> HIDE DEF S
  <2> QED
    BY <1>3, <1>4, <1>5, NatSetInduction
<1>7. Near(MaxNodes) = C
  BY AheadCount
<1> HIDE DEF Near
<1> QED
  BY <1>1, <1>3, <1>6, <1>7

(* Chain is C. *)
LEMMA ChainIs ==
  ASSUME NEW C, NEW D, NEW r, NEW m, TypeInv, Whole(C, D, r, m)
  PROVE  Chain = C
<1>1. TypeOK
  BY DEF TypeInv
<1> QED
  BY <1>1, ChainWithin, ChainAll

(* What SplitOrder says is part of the invariant. *)
LEMMA OrderNow == HashInv => SplitOrder
<1> SUFFICES ASSUME HashInv PROVE SplitOrder
  OBVIOUS
<1>1. PICK C, D, r, m : Whole(C, D, r, m)
  BY DEF HashInv
<1>2. Chain = C
  BY <1>1, ChainIs DEF HashInv
<1>3. ASSUME NEW n \in C, next[n].to # Null PROVE hashnr[n] <= hashnr[next[n].to]
  <2>1. next[n].to \in C /\ Ahead(hashnr, r, n, next[n].to)
    BY <1>1, <1>3 DEF Whole, Chained
  <2>2. Ordered(C \cup D, hashnr, r)
    BY <1>1, WholeOrder DEF HashInv
  <2> QED
    BY <2>1, <2>2 DEF Ordered
<1>4. Tabled(C, D)
  BY <1>1 DEF Whole
<1> QED
  BY <1>2, <1>3, <1>4 DEF SplitOrder, Tabled

(* The chain is always ordered by hash number, whatever is linked and      *)
(* unlinked beside each other, and an entry of the table never points to a *)
(* dummy that is not on the chain for good: a search that starts from it   *)
(* (ab_hash.c:125, 150) misses no key of its bucket.                       *)
THEOREM SplitOrdered == Spec => []SplitOrder
BY HashCorrect, OrderNow, PTL

-----------------------------------------------------------------------------
(* The dictionary and the count.  Owed is what num would be, did nobody    *)
(* stand between its CAS and its update of num; num is Owed, wrapped.      *)

Vals == {dict[k].val : k \in Keys} \ {Null}
At(p) == {t \in Threads : pc[t] = p}
Owed == Cardinality(Vals) - Cardinality(At("num_add")) + Cardinality(At("num_sub"))
Counted == \E k \in Int : Owed = num + NumMod * k

(* The nodes of keys on the chain are those of the dictionary. *)
LEMMA StoredIs == HashInv => Stored = Vals
<1> SUFFICES ASSUME HashInv PROVE Stored = Vals
  OBVIOUS
<1>1. PICK C, D, r, m : Whole(C, D, r, m)
  BY DEF HashInv
<1>2. Chain = C /\ C \subseteq Nodes /\ Null \notin C
  BY <1>1, ChainIs, WholeOrder DEF HashInv
<1>3. TypeOK /\ Filed(C, D)
  BY <1>1 DEF HashInv, TypeInv, Whole
<1>4. \A n \in C : key[n] # NoKey => key[n] \in Keys /\ dict[key[n]].val = n
  BY <1>2, <1>3 DEF TypeOK, Filed
<1>5. \A k \in Keys : dict[k].val # Null => dict[k].val \in C /\ key[dict[k].val] = k /\ k # NoKey
  BY <1>3, KeyFacts DEF Filed
<1> QED
  BY <1>2, <1>4, <1>5 DEF Stored, IsDummy, Vals

(* The chain holds what the dictionary says. *)
LEMMA DictNow ==
  HashInv => {<<key[n], n, next[n].del>> : n \in Stored}
               = {<<k, dict[k].val, dict[k].leaving>> : k \in {j \in Keys : dict[j] # Absent}}
<1> SUFFICES ASSUME HashInv
             PROVE  {<<key[n], n, next[n].del>> : n \in Stored}
                      = {<<k, dict[k].val, dict[k].leaving>> : k \in {j \in Keys : dict[j] # Absent}}
  OBVIOUS
<1>1. PICK C, D, r, m : Whole(C, D, r, m)
  BY DEF HashInv
<1>2. Stored = Vals
  BY StoredIs
<1>3. \A k \in Keys : /\ dict[k].val # Null => /\ dict[k].val \in C /\ key[dict[k].val] = k
                                               /\ dict[k].leaving = next[dict[k].val].del
                      /\ dict[k].val = Null <=> dict[k] = Absent
  BY <1>1, DictIs DEF HashInv
<1>4. \A n \in Vals : \E k \in Keys : n = dict[k].val /\ dict[k].val # Null
  BY DEF Vals
<1>5. \A k \in Keys : dict[k].val # Null => dict[k].val \in Vals
  BY DEF Vals
<1> HIDE DEF Vals
<1> QED
  BY <1>2, <1>3, <1>4, <1>5

(* What is counted is finite. *)
LEMMA Counts ==
  ASSUME TypeOK
  PROVE  /\ IsFiniteSet(Vals) /\ Cardinality(Vals) \in Nat
         /\ \A p : IsFiniteSet(At(p)) /\ Cardinality(At(p)) \in Nat
<1>1. IsFiniteSet(Nodes)
  BY BoundAssumption, FS_Interval DEF Nodes
<1>2. Vals \subseteq Nodes
  BY DEF Vals, TypeOK, MaybeNode
<1>3. \A p : At(p) \subseteq Threads
  BY DEF At
<1> QED
  BY <1>1, <1>2, <1>3, ThreadAssumption, FS_Subset, FS_CardinalityType

(* num is a number. *)
LEMMA NumType ==
  /\ NumMod \in Nat \ {0}
  /\ TypeOK => num \in Int
  /\ TypeOK' => num' \in Int
<1>1. NumMod \in Nat \ {0}
  BY BoundAssumption
<1>2. TypeOK => num \in 0 .. NumMod - 1
  BY DEF TypeOK
<1>3. TypeOK' => num' \in 0 .. NumMod - 1
  BY DEF TypeOK
<1> QED
  BY <1>1, <1>2, <1>3

(* A thread comes to a place, leaves it, or was and is elsewhere. *)
LEMMA AtMoves ==
  ASSUME TypeOK, TypeOK', NEW t \in Threads, Others(t), NEW p
  PROVE  Cardinality(At(p))' = Cardinality(At(p)) + (IF pc'[t] = p THEN 1 ELSE 0)
                                                  - (IF pc[t] = p THEN 1 ELSE 0)
<1>1. IsFiniteSet(At(p)) /\ Cardinality(At(p)) \in Nat
  BY Counts
<1>2. \A u \in Threads \ {t} : pc'[u] = pc[u]
  BY DEF Others
<1>3. CASE pc[t] # p /\ pc'[t] = p
  <2>1. At(p)' = At(p) \cup {t} /\ t \notin At(p)
    BY <1>2, <1>3 DEF At
  <2>2. Cardinality(At(p))' = Cardinality(At(p)) + 1
    BY <1>1, <2>1, FS_AddElement
  <2> QED
    BY <1>1, <1>3, <2>2
<1>4. CASE pc[t] = p /\ pc'[t] # p
  <2>1. At(p)' = At(p) \ {t} /\ t \in At(p)
    BY <1>2, <1>4 DEF At
  <2>2. Cardinality(At(p))' = Cardinality(At(p)) - 1
    BY <1>1, <2>1, FS_RemoveElement
  <2> QED
    BY <1>1, <1>4, <2>2
<1>5. CASE pc[t] = p <=> pc'[t] = p
  <2>1. At(p)' = At(p)
    BY <1>2, <1>5 DEF At
  <2> QED
    BY <1>1, <1>5, <2>1
<1> QED
  BY <1>3, <1>4, <1>5

(* What a step does to what is counted. *)
LEMMA CountsAs ==
  ASSUME TypeInv, TypeOK', NEW t \in Threads, Others(t), NEW v \in Int, NEW n \in Int,
         Cardinality(Vals)' = Cardinality(Vals) + v,
         \E k \in Int : num + n = num' + NumMod * k,
         v - (IF pc'[t] = "num_add" THEN 1 ELSE 0) + (IF pc[t] = "num_add" THEN 1 ELSE 0)
           + (IF pc'[t] = "num_sub" THEN 1 ELSE 0) - (IF pc[t] = "num_sub" THEN 1 ELSE 0) = n,
         Counted
  PROVE  Counted'
<1> DEFINE a == IF pc'[t] = "num_add" THEN 1 ELSE 0
           b == IF pc[t] = "num_add" THEN 1 ELSE 0
           c == IF pc'[t] = "num_sub" THEN 1 ELSE 0
           d == IF pc[t] = "num_sub" THEN 1 ELSE 0
<1>1. TypeOK /\ a \in Int /\ b \in Int /\ c \in Int /\ d \in Int
  BY DEF TypeInv
<1>2. /\ Cardinality(At("num_add"))' = Cardinality(At("num_add")) + a - b
      /\ Cardinality(At("num_sub"))' = Cardinality(At("num_sub")) + c - d
  BY <1>1, AtMoves
<1>3. /\ Cardinality(Vals) \in Int
      /\ Cardinality(At("num_add")) \in Int /\ Cardinality(At("num_sub")) \in Int
  BY <1>1, Counts
<1>4. v - a + b + c - d = n
  OBVIOUS
<1> HIDE DEF a, b, c, d
<1>5. Owed' = Owed + n
  BY <1>1, <1>2, <1>3, <1>4 DEF Owed
<1>6. Owed \in Int /\ num \in Int /\ num' \in Int /\ NumMod \in Int
  BY <1>1, <1>3, NumType DEF Owed
<1>7. PICK k \in Int : Owed = num + NumMod * k
  BY DEF Counted
<1>8. PICK j \in Int : num + n = num' + NumMod * j
  OBVIOUS
<1>9. Owed' = num' + NumMod * (j + k)
  <2> DEFINE x == NumMod * j
             y == NumMod * k
  <2>0. NumMod * (j + k) = x + y
    BY <1>6
  <2>1. x \in Int /\ y \in Int
    BY <1>6
  <2>2. Owed = num + y /\ num + n = num' + x
    BY <1>7, <1>8
  <2> HIDE DEF x, y
  <2>3. Owed' = num' + (x + y)
    <3>1. PICK z \in Int : z = num'
      BY <1>6
    <3>2. (num + n) + y = z + (x + y)
      <4>1. num + n = z + x
        BY <2>2, <3>1
      <4> QED
        BY <1>6, <2>1, <4>1
    <3>3. Owed' = (num + n) + y
      BY <1>5, <1>6, <2>1, <2>2
    <3> QED
      BY <3>1, <3>2, <3>3
  <2> QED
    BY <2>0, <2>3
<1> QED
  BY <1>9 DEF Counted

(* A step that is none of a CAS on a node of a key, or an update of num.   *)
LEMMA CountQuiet ==
  ASSUME NEW t \in Threads, TypeInv, TypeOK', Counted, Others(t), num' = num,
         \A k \in Keys : dict'[k].val = dict[k].val,
         {pc[t], pc'[t]} \cap {"num_add", "num_sub"} = {}
  PROVE  Counted'
<1>1. Vals' = Vals
  BY DEF Vals
<1>2. Cardinality(Vals) \in Nat /\ num \in Int /\ NumMod \in Int
  BY Counts, NumType DEF TypeInv
<1>3. Cardinality(Vals)' = Cardinality(Vals) + 0 /\ num + 0 = num' + NumMod * 0
  BY <1>1, <1>2
<1>4. /\ pc[t] # "num_add" /\ pc[t] # "num_sub"
      /\ pc'[t] # "num_add" /\ pc'[t] # "num_sub"
  OBVIOUS
<1> QED
  BY <1>3, <1>4, CountsAs

(* All steps that are not about num or the node of a key. *)
LEMMA CountReads ==
  ASSUME NEW t \in Threads, TypeInv, TypeOK', Counted, Work(t) \/ Call(t),
         ~Mark(t), ~NumAdd(t), ~NumSub(t),
         ~(InsLink(t) /\ stack[t] = <<>>), ~(Unlink(t) /\ stack[t] = <<>>)
  PROVE  Counted'
<1>1. TypeOK /\ Others(t)
  BY OnlyOwn DEF TypeInv
<1>2. num' = num /\ dict' = dict
  <2>1. CASE EntFound(t) \/ EntHead(t) \/ EntParent(t) \/ EntSet(t) \/ EntLost(t)
    BY <2>1
       DEF EntFound, EntHead, EntParent, EntSet, EntReturn, EntLost, tableVars,
           history
  <2>2. CASE EntGet(t) \/ EntGetParent(t) \/ EntGetNone(t)
    BY <2>2 DEF EntGet, EntGetParent, EntGetNone, Fail, tableVars, history
  <2>3. CASE InsWalk(t) \/ InsFound(t) \/ InsDuplicate(t) \/ InsRetry(t)
    BY <2>3 DEF InsWalk, InsFound, InsDuplicate, Fail, InsRetry, tableVars, history
  <2>4. CASE InsLink(t)
    BY <2>4 DEF InsLink, tableVars, history
  <2>5. CASE KeyWalk(t) \/ KeyNone(t) \/ KeyFound(t) \/ MarkLost(t) \/ UnlinkRetry(t)
    BY <2>5
       DEF KeyWalk, KeyNone, Fail, KeyFound, MarkLost, UnlinkRetry, tableVars,
           history
  <2>6. CASE Unlink(t)
    BY <2>6 DEF Unlink, NodeGone, DummyGone, EntReturn, tableVars, history
  <2>7. CASE NodeWalk(t) \/ NodeFound(t) \/ NodeNone(t)
    BY <2>7
       DEF NodeWalk, NodeFound, NodeNone, DummyGone, EntReturn, Fail, tableVars,
           history
  <2>8. CASE RsSize(t) \/ RsLoad(t) \/ RsNum(t) \/ RsGrow(t)
    BY <2>8 DEF RsSize, RsLoad, RsNum, RsGrow, tableVars, history
  <2>9. CASE RsSize2(t) \/ RsLoad2(t) \/ RsFit(t) \/ Return(t)
    BY <2>9 DEF RsSize2, RsLoad2, RsFit, Return, tableVars, history
  <2>10. CASE Call(t)
    BY <2>10 DEF Call, Insert, Delete, Get, Begin, tableVars, history
  <2> QED
    BY <2>1, <2>2, <2>3, <2>4, <2>5, <2>6, <2>7, <2>8, <2>9, <2>10 DEF Work
<1>3. {pc[t], pc'[t]} \cap {"num_add", "num_sub"} = {}
  <2>0. pc \in [Threads -> PCs]
    BY <1>1 DEF TypeOK
  <2>1. CASE EntFound(t) \/ EntHead(t)
    BY <2>0, <2>1 DEF EntFound, EntHead, Goto
  <2>2. CASE EntParent(t) \/ EntSet(t)
    BY <2>0, <2>2 DEF EntParent, EntSet, EntReturn, Goto
  <2>3. CASE EntLost(t)
    BY <2>0, <2>3 DEF EntLost, Goto
  <2>4. CASE EntGet(t) \/ EntGetParent(t)
    BY <2>0, <2>4 DEF EntGet, EntGetParent, Goto
  <2>5. CASE EntGetNone(t)
    BY <2>0, <2>5 DEF EntGetNone, Fail, Goto
  <2>6. CASE InsWalk(t) \/ InsFound(t)
    BY <2>0, <2>6 DEF InsWalk, InsFound, Goto
  <2>7. CASE InsDuplicate(t) \/ InsRetry(t)
    BY <2>0, <2>7 DEF InsDuplicate, Fail, InsRetry, Goto
  <2>8. CASE InsLink(t)
    BY <2>0, <2>8 DEF InsLink, Goto
  <2>9. CASE KeyWalk(t) \/ KeyNone(t)
    BY <2>0, <2>9 DEF KeyWalk, KeyNone, Fail, Goto
  <2>10. CASE KeyFound(t) \/ MarkLost(t)
    BY <2>0, <2>10 DEF KeyFound, MarkLost, Fail, Goto
  <2>11. CASE UnlinkRetry(t)
    BY <2>0, <2>11 DEF UnlinkRetry, Goto
  <2>12. CASE Unlink(t)
    BY <2>0, <2>12 DEF Unlink, NodeGone, DummyGone, EntReturn, Goto
  <2>13. CASE NodeWalk(t) \/ NodeFound(t)
    BY <2>0, <2>13 DEF NodeWalk, NodeFound, Goto
  <2>14. CASE NodeNone(t)
    BY <2>0, <2>14 DEF NodeNone, DummyGone, EntReturn, Fail, Goto
  <2>15. CASE RsSize(t) \/ RsLoad(t)
    BY <2>0, <2>15 DEF RsSize, RsLoad, Goto
  <2>16. CASE RsNum(t) \/ RsGrow(t)
    BY <2>0, <2>16 DEF RsNum, RsGrow, Goto
  <2>17. CASE RsSize2(t) \/ RsLoad2(t)
    BY <2>0, <2>17 DEF RsSize2, RsLoad2, Goto
  <2>18. CASE RsFit(t) \/ Return(t)
    BY <2>0, <2>18 DEF RsFit, Return, Goto
  <2>19. CASE Call(t)
    BY <2>0, <2>19 DEF Call, Insert, Delete, Get, Begin, Goto
  <2> QED
    BY <2>1, <2>2, <2>3, <2>4, <2>5, <2>6, <2>7, <2>8, <2>9, <2>10, <2>11,
       <2>12, <2>13, <2>14, <2>15, <2>16, <2>17, <2>18, <2>19 DEF Work
<1> QED
  BY <1>1, <1>2, <1>3, CountQuiet

(* What the steps on the node of a key do to the dictionary. *)
LEMMA LinkIs ==
  ASSUME NEW t \in Threads, NEW C, NEW D, NEW r, NEW m, TypeInv, Whole(C, D, r, m),
         InsLink(t), stack[t] = <<>>
  PROVE  /\ arg[t] \in Keys /\ node[t] \in Nodes /\ dict[arg[t]] = Absent
         /\ \A k \in Keys : dict[k].val # node[t]
         /\ dict' = [dict EXCEPT ![arg[t]] = [val |-> node[t], leaving |-> FALSE]]
         /\ Becomes(arg[t], [val |-> node[t], leaving |-> FALSE])
<1>1. Shape(t) /\ Owns(t, C, D) /\ pc[t] = "ins_cas"
  BY DEF TypeInv, Whole, InsLink, Goto
<1>2. Building(t) /\ arg[t] \in Keys
  BY <1>1 DEF Building, InsertPCs, Shape
<1>3. node[t] \in Nodes /\ node[t] \notin C
  BY <1>1, <1>2, Typed DEF Owns
<1>4. \A y \in C : key[y] # arg[t]
  BY LinkJoins
<1>5. dict[arg[t]] = Absent /\ \A k \in Keys : dict[k].val # node[t]
  <2>1. \A k \in Keys : /\ dict[k].val # Null => dict[k].val \in C /\ key[dict[k].val] = k
                        /\ dict[k].val = Null <=> dict[k] = Absent
    BY DictIs
  <2> QED
    BY <1>2, <1>3, <1>4, <2>1, KeyAssumption
<1>6. Becomes(arg[t], [val |-> node[t], leaving |-> FALSE])
  BY DEF InsLink
<1> QED
  BY <1>2, <1>3, <1>5, <1>6 DEF Becomes

(* A delete sets the flag of the node of its key. *)
LEMMA MarkIs ==
  ASSUME NEW t \in Threads, NEW C, NEW D, NEW r, NEW m, TypeInv, Whole(C, D, r, m),
         Mark(t), stack[t] = <<>>
  PROVE  /\ arg[t] \in Keys /\ node[t] \in Nodes
         /\ dict[arg[t]] = [val |-> node[t], leaving |-> FALSE]
         /\ Becomes(arg[t], [val |-> node[t], leaving |-> TRUE])
<1>1. Shape(t) /\ Owns(t, C, D) /\ pc[t] = "mark" /\ Subject(t) = node[t] /\ ~next[node[t]].del
  BY DEF TypeInv, Whole, Mark, Goto, Subject
<1>2. arg[t] \in Keys /\ pc[t] \in DropPCs
  BY <1>1 DEF DropPCs, Shape
<1>3. node[t] \in Nodes /\ key[node[t]] = arg[t] /\ node[t] \in C \cup D
  BY <1>1, <1>2, Typed DEF Owns
<1>4. node[t] \in C
  <2>1. \A n \in D : next[n].del
    BY DEF Whole, Chained
  <2> QED
    BY <1>1, <1>3, <2>1
<1>5. dict[arg[t]].val = node[t] /\ dict[arg[t]].leaving = next[node[t]].del
  <2>1. dict[arg[t]].val = node[t]
    BY <1>2, <1>3, <1>4, DictIs
  <2>2. dict[arg[t]].val # Null
    BY <1>3, <2>1, KeyAssumption
  <2> QED
    BY <1>2, <2>1, <2>2, DictIs
<1>6. dict[arg[t]] = [val |-> node[t], leaving |-> FALSE]
  <2>1. dict[arg[t]] \in [val : MaybeNode, leaving : BOOLEAN]
    BY <1>2 DEF TypeInv, TypeOK
  <2>2. dict[arg[t]].leaving = FALSE
    BY <1>1, <1>5, <2>1
  <2> QED
    BY <1>5, <2>1, <2>2
<1>7. Becomes(arg[t], [val |-> node[t], leaving |-> TRUE])
  BY DEF Mark
<1> QED
  BY <1>2, <1>3, <1>6, <1>7

(* And unlinks it. *)
LEMMA UnlinkIs ==
  ASSUME NEW t \in Threads, NEW C, NEW D, NEW r, NEW m, TypeInv, Whole(C, D, r, m),
         Unlink(t), stack[t] = <<>>
  PROVE  /\ arg[t] \in Keys /\ node[t] \in Nodes
         /\ dict[arg[t]] = [val |-> node[t], leaving |-> TRUE]
         /\ \A k \in Keys : dict[k].val = node[t] => k = arg[t]
         /\ Becomes(arg[t], Absent) /\ NodeGone(t)
<1>1. Shape(t) /\ Owns(t, C, D) /\ pc[t] = "unlink" /\ Taking(t)
  BY DEF TypeInv, Whole, Unlink, Taking
<1>2. arg[t] \in Keys /\ pc[t] \in DropPCs
  BY <1>1 DEF DropPCs, Shape
<1>3. node[t] \in Nodes /\ key[node[t]] = arg[t] /\ node[t] \in C /\ next[node[t]].del
  BY <1>1, <1>2, Typed DEF Owns
<1>4. /\ dict[arg[t]].val = node[t] /\ node[t] # Null
      /\ \A k \in Keys : dict[k].val # Null => /\ key[dict[k].val] = k
                                               /\ dict[k].leaving = next[dict[k].val].del
  BY <1>2, <1>3, DictIs, KeyAssumption
<1>5. dict[arg[t]] = [val |-> node[t], leaving |-> TRUE]
  <2>1. dict[arg[t]] \in [val : MaybeNode, leaving : BOOLEAN]
    BY <1>2 DEF TypeInv, TypeOK
  <2>2. dict[arg[t]].leaving = TRUE
    BY <1>2, <1>3, <1>4, <2>1
  <2> QED
    BY <1>4, <2>1, <2>2
<1>6. NodeGone(t)
  BY DEF Unlink, NodeGone, DummyGone
<1>7. Becomes(arg[t], Absent)
  BY <1>6 DEF NodeGone
<1> QED
  BY <1>2, <1>3, <1>4, <1>5, <1>6, <1>7

(* num is right at first. *)
LEMMA CountInit == Init => Counted
<1> SUFFICES ASSUME Init PROVE Counted
  OBVIOUS
<1>1. Vals = {} /\ At("num_add") = {} /\ At("num_sub") = {}
  BY DEF Init, Vals, At, Absent
<1>2. Cardinality({}) = 0
  BY FS_EmptySet
<1>3. Owed = num + NumMod * 0
  <2>1. Cardinality(Vals) = 0 /\ Cardinality(At("num_add")) = 0 /\ Cardinality(At("num_sub")) = 0
    BY <1>1, <1>2
  <2>2. num = 0
    BY DEF Init
  <2>3. Owed = 0
    BY <2>1 DEF Owed
  <2> QED
    BY <2>2, <2>3, NumType
<1> QED
  BY <1>3 DEF Counted

(* Every step keeps num right, modulo NumMod. *)
LEMMA CountStep == HashInv /\ Counted /\ [Next]_vars => Counted'
<1> SUFFICES ASSUME HashInv, Counted, [Next]_vars PROVE Counted'
  OBVIOUS
<1>1. HashInv'
  BY InvStep
<1>2. TypeInv /\ TypeOK /\ TypeOK'
  BY <1>1 DEF HashInv, TypeInv
<1>3. CASE UNCHANGED vars
  BY <1>3 DEF vars, tableVars, history, Counted, Owed, At, Vals
<1>4. CASE Next
  <2>1. PICK t \in Threads : Work(t) \/ Call(t)
    BY <1>4 DEF Next
  <2>2. Others(t)
    BY <1>2, <2>1, OnlyOwn
  <2>3. PICK C, D, r, m : Whole(C, D, r, m)
    BY DEF HashInv
  <2>4. IsFiniteSet(Vals) /\ Cardinality(Vals) \in Nat /\ num \in Int /\ NumMod \in Nat \ {0}
    BY <1>2, Counts, NumType
  <2>5. CASE InsLink(t) /\ stack[t] = <<>>
    <3>1. /\ arg[t] \in Keys /\ node[t] \in Nodes /\ dict[arg[t]] = Absent
          /\ \A k \in Keys : dict[k].val # node[t]
          /\ dict' = [dict EXCEPT ![arg[t]] = [val |-> node[t], leaving |-> FALSE]]
      BY <1>2, <2>3, <2>5, LinkIs
    <3>2. Vals' = Vals \cup {node[t]} /\ node[t] \notin Vals
      <4>1. \A k \in Keys : dict'[k].val = IF k = arg[t] THEN node[t] ELSE dict[k].val
        BY <1>2, <3>1 DEF TypeOK
      <4>2. dict[arg[t]].val = Null /\ node[t] # Null
        BY <3>1, KeyAssumption DEF Absent
      <4> QED
        BY <3>1, <4>1, <4>2 DEF Vals
    <3>3. Cardinality(Vals)' = Cardinality(Vals) + 1
      BY <2>4, <3>2, FS_AddElement
    <3>4. pc[t] = "ins_cas" /\ pc'[t] = "num_add" /\ num' = num
      BY <1>2, <2>5 DEF InsLink, Goto, TypeOK, tableVars
    <3>5. num + 0 = num' + NumMod * 0
      BY <2>4, <3>4
    <3> QED
      BY <1>2, <2>2, <3>3, <3>4, <3>5, CountsAs
  <2>6. CASE Unlink(t) /\ stack[t] = <<>>
    <3>1. /\ arg[t] \in Keys /\ node[t] \in Nodes
          /\ dict[arg[t]] = [val |-> node[t], leaving |-> TRUE]
          /\ \A k \in Keys : dict[k].val = node[t] => k = arg[t]
          /\ Becomes(arg[t], Absent) /\ NodeGone(t)
      BY <1>2, <2>3, <2>6, UnlinkIs
    <3>2. Vals' = Vals \ {node[t]} /\ node[t] \in Vals
      <4>1. \A k \in Keys : dict'[k].val = IF k = arg[t] THEN Null ELSE dict[k].val
        BY <1>2, <3>1 DEF TypeOK, Becomes, Absent
      <4>2. dict[arg[t]].val = node[t] /\ node[t] # Null
        BY <3>1, KeyAssumption
      <4> QED
        BY <3>1, <4>1, <4>2 DEF Vals
    <3>3. Cardinality(Vals)' = Cardinality(Vals) - 1
      BY <2>4, <3>2, FS_RemoveElement
    <3>4. pc[t] = "unlink" /\ pc'[t] = "num_sub" /\ num' = num
      BY <1>2, <2>6, <3>1 DEF Unlink, NodeGone, Goto, TypeOK, tableVars
    <3>5. num + 0 = num' + NumMod * 0 /\ Cardinality(Vals)' = Cardinality(Vals) + (-1)
      BY <2>4, <3>3, <3>4
    <3> QED
      BY <1>2, <2>2, <3>4, <3>5, CountsAs
  <2>7. CASE NumAdd(t) \/ NumSub(t)
    <3>1. \A c \in Int : \E j \in Int : c = (c % NumMod) + NumMod * j
      <4> SUFFICES ASSUME NEW c \in Int PROVE \E j \in Int : c = (c % NumMod) + NumMod * j
        OBVIOUS
      <4>1. c \div NumMod \in Int /\ c = (c % NumMod) + NumMod * (c \div NumMod)
        BY <2>4
      <4> QED
        BY <4>1
    <3>2. Cardinality(Vals)' = Cardinality(Vals) + 0
      <4>1. dict' = dict
        BY <2>7 DEF NumAdd, NumSub, history
      <4> QED
        BY <2>4, <4>1 DEF Vals
    <3>3. CASE NumAdd(t)
      <4>1. pc[t] = "num_add" /\ pc'[t] = "rs_size" /\ num' = (num + 1) % NumMod
        BY <1>2, <3>3 DEF NumAdd, Goto, TypeOK
      <4>2. \E k \in Int : num + 1 = num' + NumMod * k
        <5>1. num + 1 \in Int
          BY <2>4
        <5> QED
          BY <3>1, <4>1, <5>1
      <4> QED
        BY <1>2, <2>2, <3>2, <4>1, <4>2, CountsAs
    <3>4. CASE NumSub(t)
      <4>1. pc[t] = "num_sub" /\ pc'[t] = "return" /\ num' = (num - 1) % NumMod
        BY <1>2, <3>4 DEF NumSub, Goto, TypeOK
      <4>2. num + (-1) = num - 1
        BY <2>4
      <4>3. \E k \in Int : num + (-1) = num' + NumMod * k
        <5>1. num - 1 \in Int
          BY <2>4
        <5> QED
          BY <3>1, <4>1, <4>2, <5>1
      <4> QED
        BY <1>2, <2>2, <3>2, <4>1, <4>3, CountsAs
    <3> QED
      BY <2>7, <3>3, <3>4
  <2>8. CASE Mark(t)
    <3>1. /\ num' = num /\ {pc[t], pc'[t]} \cap {"num_add", "num_sub"} = {}
          /\ \A k \in Keys : dict'[k].val = dict[k].val
      <4>1. num' = num /\ pc[t] = "mark" /\ pc'[t] = "unlink"
        BY <1>2, <2>8 DEF Mark, Goto, TypeOK, tableVars
      <4>2. CASE stack[t] = <<>>
        <5>1. /\ dict[arg[t]] = [val |-> node[t], leaving |-> FALSE] /\ arg[t] \in Keys
              /\ Becomes(arg[t], [val |-> node[t], leaving |-> TRUE])
          BY <1>2, <2>3, <2>8, <4>2, MarkIs
        <5> QED
          BY <1>2, <4>1, <5>1 DEF Becomes, TypeOK
      <4>3. CASE stack[t] # <<>>
        BY <2>8, <4>1, <4>3 DEF Mark
      <4> QED
        BY <4>2, <4>3
    <3> QED
      BY <1>2, <2>2, <3>1, CountQuiet
  <2> QED
    BY <1>2, <2>1, <2>5, <2>6, <2>7, <2>8, CountReads
<1> QED
  BY <1>3, <1>4

(* The chain is what the dictionary says, and num counts it. *)
LEMMA MapNow == HashInv /\ Counted => ChainIsDict
<1> SUFFICES ASSUME HashInv, Counted PROVE ChainIsDict
  OBVIOUS
<1>1. PICK k \in Int : Owed = num + NumMod * k
  BY DEF Counted
<1>2. num \in 0 .. NumMod - 1 /\ NumMod \in Nat \ {0}
  BY BoundAssumption DEF HashInv, TypeInv, TypeOK
<1>3. Owed % NumMod = num
  BY <1>1, <1>2, TurnsOff
<1>4. NumExact
  BY <1>3, StoredIs DEF NumExact, Owed, At
<1> QED
  BY <1>4, DictNow DEF ChainIsDict

(* The nodes on the chain are at all times those of the dictionary, one    *)
(* per key and with the same marks, and num (ab_hash.c:103, 157) counts    *)
(* them but for the calls between their CAS and their update of it, though *)
(* it may wrap below zero.                                                 *)
THEOREM ChainExact == Spec => []ChainIsDict
BY HashCorrect, CountInit, CountStep, MapNow, PTL DEF Spec

-----------------------------------------------------------------------------
(* The index implements the dictionary of AbMap, if no two keys have the   *)
(* same hash number.                                                       *)

NoCollision == \A j, k \in Keys : HashNr(j) = HashNr(k) => j = k

Rec(o, k, v) == [op |-> o, key |-> k, val |-> v]
MDict == [k \in Keys |-> dict[k].val]
MLeaving == {k \in Keys : dict[k].leaving}
MCalls == [t \in Threads |-> CallOf(t)]

(* What a thread's place in the code says of its call. *)
CallIs(t) ==
  CallOf(t) = IF pc[t] = "idle" THEN Rec("none", arg[t], Null)
              ELSE IF pc[t] \in DonePCs THEN Rec("done", arg[t], node[t])
              ELSE IF op[t] = "delete" /\ pc[t] \in {"unlink", "node_find"}
              THEN Rec("deleting", arg[t], node[t])
              ELSE Rec(op[t], arg[t], IF op[t] = "insert" THEN node[t] ELSE Null)

(* CallOf, as it is needed below, now and in the next state. *)
LEMMA CallNow == \A t : CallIs(t)
BY DEF CallIs, CallOf, Rec, DonePCs

LEMMA CallThen == \A t : CallIs(t)'
BY DEF CallIs, CallOf, Rec, DonePCs

(* A thread is in no call exactly when it is idle. *)
LEMMA InNoCall ==
  ASSUME NEW t \in Threads, Shape(t), TypeOK
  PROVE  CallOf(t) = Map!NoCall <=> pc[t] = "idle"
<1>1. Map!NoCall = Rec("none", NoKey, Null)
  BY DEF Map!NoCall, Rec
<1>2. pc[t] = "idle" => CallOf(t) = Rec("none", NoKey, Null)
  BY CallNow DEF CallIs, Shape
<1>3. pc[t] # "idle" => CallOf(t).op # "none"
  <2>1. pc[t] \in DonePCs => CallOf(t).op = "done" \/ pc[t] = "idle"
    BY CallNow DEF CallIs, Rec
  <2>2. pc[t] \notin DonePCs \cup {"idle"} => op[t] \in {"insert", "delete", "get"}
    BY DEF Shape, TypeOK, PCs, DonePCs, InsertedPCs, InsertPCs, DropPCs
  <2>3. pc[t] \notin DonePCs \cup {"idle"} => CallOf(t).op = op[t] \/ CallOf(t).op = "deleting"
    BY CallNow DEF CallIs, Rec
  <2> QED
    BY <2>1, <2>2, <2>3
<1>4. Rec("none", NoKey, Null).op = "none"
  BY DEF Rec
<1> QED
  BY <1>1, <1>2, <1>3, <1>4

(* AbMap sees the state of a key as the history records it. *)
LEMMA ViewIs ==
  ASSUME NEW d \in [Keys -> States], NEW k \in Keys
  PROVE  Map!View([j \in Keys |-> d[j].val], {j \in Keys : d[j].leaving}, k) = d[k]
<1>1. d[k] = [val |-> d[k].val, leaving |-> d[k].leaving] /\ d[k].leaving \in BOOLEAN
  BY DEF States
<1>2. (k \in {j \in Keys : d[j].leaving}) = d[k].leaving
  BY <1>1
<1> QED
  BY <1>1, <1>2 DEF Map!View

(* One call changes. *)
LEMMA OneCall ==
  ASSUME NEW t \in Threads, Others(t), NEW c, CallOf(t)' = c
  PROVE  MCalls' = [MCalls EXCEPT ![t] = c]
<1>1. \A u \in Threads \ {t} : CallOf(u)' = CallOf(u)
  BY CallNow, CallThen DEF CallIs, Others
<1> QED
  BY <1>1 DEF MCalls

(* A call goes on as AbMap says. *)
LEMMA GoesIs ==
  ASSUME NEW t \in Threads, Others(t), NEW from, NEW to, NEW k, NEW v, NEW w,
         CallOf(t) = Rec(from, k, w), CallOf(t)' = Rec(to, k, v)
  PROVE  Map!Goes(t, from, to, v)
<1>1. MCalls' = [MCalls EXCEPT ![t] = Rec(to, k, v)] /\ MCalls[t] = Rec(from, k, w)
  BY OneCall DEF MCalls
<1>2. MCalls[t].op = from
  BY <1>1 DEF Rec
<1>3. [[MCalls[t] EXCEPT !.op = to] EXCEPT !.val = v] = Rec(to, k, v)
  <2>1. MCalls[t] = [op |-> from, key |-> k, val |-> w]
    BY <1>1 DEF Rec
  <2>2. [MCalls[t] EXCEPT !.op = to] = [op |-> to, key |-> k, val |-> w]
    BY <2>1
  <2>3. [[op |-> to, key |-> k, val |-> w] EXCEPT !.val = v] = [op |-> to, key |-> k, val |-> v]
    OBVIOUS
  <2> QED
    BY <2>2, <2>3 DEF Rec
<1>4. MCalls' = [MCalls EXCEPT ![t].op = to, ![t].val = v]
  BY <1>1, <1>3 DEF MCalls
<1> QED
  BY <1>2, <1>4 DEF Map!Goes, MCalls

(* Every call knows what its key is like now. *)
LEMMA KnowsNow ==
  ASSUME NEW C, NEW D, NEW r, NEW m, TypeInv, Whole(C, D, r, m), NEW t \in Threads
  PROVE  /\ pc[t] = "idle" => seen[t] = {}
         /\ pc[t] # "idle" => arg[t] \in Keys /\ dict[arg[t]] \in seen[t]
BY DEF TypeInv, Shape, Whole, Saw, Met

(* A step changes what the dictionary says of a key. *)
LEMMA BecomesIs ==
  ASSUME NEW C, NEW D, NEW r, NEW m, TypeInv, Whole(C, D, r, m), TypeOK',
         NEW k \in Keys, NEW v \in States, Becomes(k, v), NEW d, NEW l, d = MDict', l = MLeaving'
  PROVE  Map!Becomes(d, l)
<1>1. /\ dict' = [dict EXCEPT ![k] = v] /\ dict' \in [Keys -> States]
      /\ dict \in [Keys -> States]
  BY DEF Becomes, TypeOK, States, TypeInv
<1>2. \A j \in Keys : Map!View(d, l, j) = dict'[j]
  BY <1>1, ViewIs DEF MDict, MLeaving
<1>3. ASSUME NEW u \in Threads
      PROVE  seen'[u] = IF MCalls[u] = Map!NoCall THEN {}
                        ELSE seen[u] \cup {Map!View(d, l, MCalls[u].key)}
  <2>1. MCalls[u] = Map!NoCall <=> pc[u] = "idle"
    BY InNoCall DEF MCalls, TypeInv
  <2>2. MCalls[u].key = arg[u]
    BY CallNow DEF MCalls, CallIs, Rec
  <2>3. seen'[u] = IF pc[u] # "idle" /\ arg[u] = k THEN seen[u] \cup {v} ELSE seen[u]
    BY DEF Becomes
  <2>4. CASE pc[u] = "idle"
    BY <2>1, <2>3, <2>4, KnowsNow
  <2>5. CASE pc[u] # "idle"
    <3>1. arg[u] \in Keys /\ dict[arg[u]] \in seen[u]
      BY <2>5, KnowsNow
    <3>2. Map!View(d, l, MCalls[u].key) = IF arg[u] = k THEN v ELSE dict[arg[u]]
      BY <1>1, <1>2, <2>2, <3>1
    <3> QED
      BY <2>1, <2>3, <2>5, <3>1, <3>2
  <2> QED
    BY <2>4, <2>5
<1>4. seen' = [u \in Threads |-> seen'[u]]
  BY DEF Becomes
<1>5. seen' = [u \in Threads |-> IF MCalls[u] = Map!NoCall THEN {}
                                 ELSE seen[u] \cup {Map!View(d, l, MCalls[u].key)}]
  BY <1>3, <1>4
<1> QED
  BY <1>5 DEF Map!Becomes, MDict, MLeaving, MCalls

(* A step that the dictionary does not know of. *)
LEMMA Stutters ==
  ASSUME NEW t \in Threads, Others(t), dict' = dict, seen' = seen, CallOf(t)' = CallOf(t)
  PROVE  UNCHANGED Map!vars
<1>1. MCalls' = MCalls
  <2>1. MCalls' = [MCalls EXCEPT ![t] = CallOf(t)]
    BY OneCall
  <2> QED
    BY <2>1 DEF MCalls
<1> QED
  BY <1>1 DEF Map!vars, MCalls

(* A call answers and changes nothing. *)
LEMMA Answers ==
  ASSUME NEW t \in Threads, Others(t), dict' = dict, seen' = seen,
         NEW k, NEW o, NEW v, NEW w, NEW s \in seen[t],
         CallOf(t) = Rec(o, k, w), CallOf(t)' = Rec("done", k, v),
         \/ o = "get" /\ v = s.val
         \/ o = "insert" /\ v = Null /\ s.val # Null
         \/ o = "delete" /\ v = Null /\ (s.val = Null \/ s.leaving)
  PROVE  Map!Next
<1>1. Map!Goes(t, o, "done", v)
  BY GoesIs
<1>2. /\ [j \in Keys |-> dict'[j].val] = [j \in Keys |-> dict[j].val]
      /\ {j \in Keys : dict'[j].leaving} = {j \in Keys : dict[j].leaving}
  OBVIOUS
<1>3. CASE o = "get" /\ v = s.val
  BY <1>1, <1>2, <1>3 DEF Map!Next, Map!Get
<1>4. CASE o = "insert" /\ v = Null /\ s.val # Null
  BY <1>1, <1>2, <1>4 DEF Map!Next, Map!InsertFails
<1>5. CASE o = "delete" /\ v = Null /\ (s.val = Null \/ s.leaving)
  BY <1>1, <1>2, <1>5 DEF Map!Next, Map!DeleteFails
<1> QED
  BY <1>3, <1>4, <1>5

(* What was seen justifies the answers. *)
LEMMA NoneIsRight ==
  ASSUME NEW C, NEW D, NEW r, NEW m, TypeInv, Whole(C, D, r, m), NEW t \in Threads,
         KeyNone(t) \/ EntGetNone(t)
  PROVE  Absent \in seen[t]
<1> DEFINE d == dict[arg[t]].val
<1>1. arg[t] \in Keys /\ dict[arg[t]] \in seen[t] /\ pc[t] \in {"key_find", "ent_get"}
  BY KnowsNow DEF KeyNone, EntGetNone, Fail, Goto
<1>2. d # Null => d \in C /\ key[d] = arg[t] /\ hashnr[d] = HashNr(arg[t])
  BY <1>1, DictIs
<1>3. d = Null <=> dict[arg[t]] = Absent
  BY <1>1, DictIs
<1>4. CASE EntGetNone(t)
  <2>1. C \cup D = {list_head} /\ key[list_head] = NoKey /\ arg[t] # NoKey
    BY <1>1, <1>4, KeyFacts DEF EntGetNone, Whole, Tabled, Headed
  <2> QED
    BY <1>1, <1>2, <1>3, <2>1
<1>5. CASE KeyNone(t) /\ Absent \notin seen[t]
  <2>1. PICK f : Saw(t, C, D, r, f)
    BY DEF Whole
  <2>2. pc[t] = "key_find" /\ Passed(After(t), HashNr(arg[t]))
    BY <1>5 DEF KeyNone, Fail, Goto
  <2>3. /\ Ahead(hashnr, r, prev[t], d) /\ prev[t] \in f
        /\ ~Skips(hashnr, r, next, prev[t], d)
    BY <1>5, <2>1, <2>2 DEF Saw, Met, Here, Missed, SearchPCs
  <2>4. After(t) # Null /\ ~Ahead(hashnr, r, d, After(t))
    BY <2>3 DEF Skips, After
  <2>5. hashnr[After(t)] > HashNr(arg[t]) /\ hashnr[d] = HashNr(arg[t])
    BY <1>1, <1>2, <1>3, <1>5, <2>2, <2>4 DEF Passed
  <2>6. After(t) \in C \cup D
    BY <2>1, <2>2, <2>3, <2>4 DEF Saw, Met, After
  <2>7. hashnr[After(t)] \in Nat /\ HashNr(arg[t]) \in Nat
    BY <1>1, <2>6, WholeOrder, KeyFacts DEF Ordered
  <2> QED
    BY <2>4, <2>5, <2>7 DEF Ahead
<1> QED
  BY <1>4, <1>5

LEMMA FoundIsRight ==
  ASSUME NEW C, NEW D, NEW r, NEW m, TypeInv, Whole(C, D, r, m), NEW t \in Threads,
         pc[t] \in {"key_find", "ins_find"}, After(t) # Null, key[After(t)] = arg[t]
  PROVE  \E s \in seen[t] : s.val = After(t)
<1>1. PICK f : Saw(t, C, D, r, f)
  BY DEF Whole
<1>2. prev[t] \in f /\ Met(t, C, D, r, f)
  BY <1>1 DEF Saw, Here, SearchPCs
<1>3. After(t) \in f
  BY <1>2 DEF Met, After
<1> QED
  BY <1>2, <1>3 DEF Met

LEMMA LostIsRight ==
  ASSUME NEW C, NEW D, NEW r, NEW m, TypeInv, Whole(C, D, r, m), NEW t \in Threads,
         MarkLost(t), stack[t] = <<>>
  PROVE  \E s \in seen[t] : s.val = Null \/ s.leaving
<1>1. pc[t] = "mark" /\ next[node[t]].del /\ Owns(t, C, D) /\ pc[t] \in DropPCs
  BY DEF MarkLost, Fail, Goto, Subject, Whole, DropPCs
<1>2. arg[t] \in Keys /\ dict[arg[t]] \in seen[t]
  BY <1>1, KnowsNow
<1>3. node[t] \in C \cup D /\ key[node[t]] = arg[t] /\ node[t] # Null
  <2>1. node[t] \in C \cup D /\ key[node[t]] = arg[t]
    BY <1>1 DEF Owns
  <2>2. Null \notin C \cup D
    BY WholeOrder
  <2> QED
    BY <2>1, <2>2
<1>4. CASE node[t] \in D
  <2>1. PICK f : Saw(t, C, D, r, f)
    BY DEF Whole
  <2>2. Missed(t)
    BY <1>1, <1>3, <1>4, <2>1 DEF Saw, Met, Here
  <2> QED
    BY <2>2 DEF Missed, Absent
<1>5. CASE node[t] \in C
  <2>1. dict[arg[t]].val = node[t]
    BY <1>2, <1>3, <1>5, DictIs
  <2>2. dict[arg[t]].leaving = next[node[t]].del
    BY <1>2, <1>3, <2>1, DictIs
  <2> QED
    BY <1>1, <1>2, <2>2
<1> QED
  BY <1>3, <1>4, <1>5

(* No two nodes of one hash number: the node that is deleted is found.     *)
LEMMA NodeIsFound ==
  ASSUME NoCollision, NEW C, NEW D, NEW r, NEW m, TypeInv, Whole(C, D, r, m),
         NEW t \in Threads, NodeNone(t)
  PROVE  stack[t] # <<>>
<1> SUFFICES ASSUME stack[t] = <<>> PROVE FALSE
  OBVIOUS
<1> DEFINE a == After(t)
           n == node[t]
<1>1. PICK f : Saw(t, C, D, r, f)
  BY DEF Whole
<1>2. pc[t] = "node_find" /\ Taking(t) /\ Subject(t) = n
  BY DEF NodeNone, DummyGone, EntReturn, Fail, Goto, Taking, Subject
<1>3. arg[t] \in Keys /\ n \in C /\ key[n] = arg[t]
  BY <1>2, KnowsNow DEF Whole, Owns, DropPCs
<1>4. /\ prev[t] \in f /\ Ahead(hashnr, r, prev[t], n) /\ ~Skips(hashnr, r, next, prev[t], n)
      /\ \A q \in f : key[q] = arg[t] => q = n
      /\ \A q \in f : next[q].to \in f \cup {Null}
      /\ f \subseteq C \cup D
  BY <1>1, <1>2 DEF Saw, Met, Here, SearchPCs, DropPCs
<1>5. a # Null /\ ~Ahead(hashnr, r, n, a) /\ a \in f /\ a \in C \cup D
  BY <1>4 DEF Skips, After
<1>6. a # n /\ hashnr[a] > hashnr[n] - 1
  BY <1>2, <1>5 DEF NodeNone, Passed
<1>7. hashnr[a] = hashnr[n] /\ hashnr[n] = HashNr(arg[t])
  <2>1. hashnr[a] \in Nat /\ hashnr[n] \in Nat
    BY <1>3, <1>5, WholeOrder DEF Ordered
  <2>2. ~(hashnr[n] < hashnr[a])
    BY <1>5 DEF Ahead
  <2>3. hashnr[n] = HashNr(arg[t])
    BY <1>3, DictIs
  <2> QED
    BY <1>6, <2>1, <2>2, <2>3
<1>8. key[a] # NoKey
  <2>1. SUFFICES ASSUME key[a] = NoKey PROVE FALSE
    OBVIOUS
  <2>2. PICK b \in Buckets : hashnr[a] = Reverse(b)
    BY <1>5, <2>1 DEF Whole, Filed
  <2> QED
    BY <1>3, <1>7, <2>2, DummyNr, KeyNr
<1>9. key[a] \in Keys /\ HashNr(key[a]) = HashNr(arg[t])
  <2>1. a \in Nodes
    BY <1>5, WholeOrder
  <2> QED
    BY <1>5, <1>7, <1>8, <2>1 DEF Whole, Filed, TypeInv, TypeOK
<1> QED
  BY <1>3, <1>4, <1>5, <1>6, <1>9 DEF NoCollision

-----------------------------------------------------------------------------
(* Steps inside a call that the dictionary does not know of.               *)

LEMMA Keeps ==
  ASSUME NEW t \in Threads, Others(t), dict' = dict, seen' = seen,
         op' = op, arg' = arg, node' = node, pc[t] # "idle", pc'[t] # "idle",
         pc[t] \in DonePCs <=> pc'[t] \in DonePCs,
         op[t] = "delete" => (pc[t] \in {"unlink", "node_find"}
                                <=> pc'[t] \in {"unlink", "node_find"})
  PROVE  UNCHANGED Map!vars
<1>1. CallOf(t)' = CallOf(t)
  BY CallNow, CallThen DEF CallIs
<1> QED
  BY <1>1, Stutters

(* Steps of ab_hash_entry_insert and ab_hash_entry_get. *)
LEMMA EntSteps ==
  ASSUME TypeInv, NEW t \in Threads, Others(t),
         \/ EntFound(t) \/ EntHead(t) \/ EntParent(t) \/ EntSet(t) \/ EntLost(t)
         \/ EntGet(t) \/ EntGetParent(t)
  PROVE  UNCHANGED Map!vars
<1>1. pc \in [Threads -> PCs] /\ Shape(t)
  BY DEF TypeInv, TypeOK
<1>2. op' = op /\ arg' = arg /\ node' = node /\ dict' = dict /\ seen' = seen
  <2>1. CASE EntFound(t) \/ EntHead(t) \/ EntParent(t) \/ EntSet(t)
    BY <2>1 DEF EntFound, EntHead, EntParent, EntSet, callVars, history
  <2>2. CASE EntLost(t) \/ EntGet(t) \/ EntGetParent(t)
    BY <2>2 DEF EntLost, EntGet, EntGetParent, callVars, history
  <2> QED
    BY <2>1, <2>2
<1>3. /\ {pc[t], pc'[t]} \cap (DonePCs \cup {"idle"}) = {}
      /\ op[t] # "delete" \/ {pc[t], pc'[t]} \cap {"unlink", "node_find"} = {}
  <2> USE <1>1 DEF DonePCs, InsertedPCs, Goto
  <2>1. CASE EntFound(t) \/ EntHead(t)
    BY <2>1 DEF EntFound, EntHead
  <2>2. CASE EntParent(t) \/ EntSet(t)
    BY <2>2 DEF EntParent, EntSet, EntReturn
  <2>3. CASE EntLost(t)
    BY <2>3 DEF EntLost, Shape
  <2>4. CASE EntGet(t) \/ EntGetParent(t)
    BY <2>4 DEF EntGet, EntGetParent
  <2> QED
    BY <2>1, <2>2, <2>3, <2>4
<1> QED
  BY <1>2, <1>3, Keeps

(* Steps of the searches. *)
LEMMA WalkSteps ==
  ASSUME NEW C, NEW D, NEW r, NEW m, TypeInv, Whole(C, D, r, m), NEW t \in Threads, Others(t),
         \/ InsWalk(t) \/ InsFound(t) \/ InsRetry(t) \/ KeyWalk(t)
         \/ UnlinkRetry(t) \/ NodeWalk(t) \/ NodeFound(t)
  PROVE  UNCHANGED Map!vars
<1>1. pc \in [Threads -> PCs] /\ Shape(t) /\ Owns(t, C, D)
  BY DEF TypeInv, TypeOK, Whole
<1>2. op' = op /\ arg' = arg /\ node' = node /\ dict' = dict /\ seen' = seen
  <2>1. CASE InsWalk(t) \/ InsFound(t) \/ InsRetry(t) \/ KeyWalk(t)
    BY <2>1 DEF InsWalk, InsFound, InsRetry, KeyWalk, callVars, history
  <2>2. CASE UnlinkRetry(t) \/ NodeWalk(t) \/ NodeFound(t)
    BY <2>2 DEF UnlinkRetry, NodeWalk, NodeFound, callVars, locals, history
  <2> QED
    BY <2>1, <2>2
<1>3. /\ {pc[t], pc'[t]} \cap (DonePCs \cup {"idle"}) = {}
      /\ op[t] = "delete" => (pc[t] \in {"unlink", "node_find"}
                                <=> pc'[t] \in {"unlink", "node_find"})
  <2> USE <1>1 DEF DonePCs, InsertedPCs, Goto
  <2>1. CASE InsWalk(t) \/ InsFound(t) \/ InsRetry(t)
    BY <2>1 DEF InsWalk, InsFound, InsRetry
  <2>2. CASE KeyWalk(t) \/ NodeWalk(t)
    BY <2>2 DEF KeyWalk, NodeWalk
  <2>3. CASE UnlinkRetry(t)
    BY <2>3 DEF UnlinkRetry
  <2>4. CASE NodeFound(t)
    <3>1. pc[t] = "node_find" /\ pc'[t] = IF next[Subject(t)].del THEN "unlink" ELSE "mark"
      BY <2>4 DEF NodeFound
    <3>2. op[t] = "delete" => stack[t] = <<>>
      BY <3>1 DEF Shape, DropPCs
    <3>3. stack[t] = <<>> => next[Subject(t)].del
      BY <3>1 DEF Owns, Taking, Subject
    <3> QED
      BY <3>1, <3>2, <3>3
  <2> QED
    BY <2>1, <2>2, <2>3, <2>4
<1> QED
  BY <1>2, <1>3, Keeps

(* Dummies that are linked and unlinked. *)
LEMMA DummySteps ==
  ASSUME TypeInv, NEW t \in Threads, Others(t), stack[t] # <<>>,
         InsLink(t) \/ Mark(t) \/ Unlink(t) \/ NodeNone(t)
  PROVE  UNCHANGED Map!vars
<1>1. pc \in [Threads -> PCs] /\ Shape(t)
  BY DEF TypeInv, TypeOK
<1>2. op' = op /\ arg' = arg /\ node' = node /\ dict' = dict /\ seen' = seen
  <2>1. CASE InsLink(t) \/ Mark(t)
    BY <2>1 DEF InsLink, Mark, callVars, locals
  <2>2. CASE Unlink(t) \/ NodeNone(t)
    BY <2>2 DEF Unlink, NodeGone, DummyGone, NodeNone, callVars
  <2> QED
    BY <2>1, <2>2
<1>3. pc[t] \in {"ins_cas"} \cup DropPCs /\ pc'[t] \in {"ent_set", "unlink", "ins_find"}
  <2> USE <1>1 DEF Goto, DropPCs
  <2>1. CASE InsLink(t) \/ Mark(t)
    BY <2>1 DEF InsLink, Mark
  <2>2. CASE Unlink(t) \/ NodeNone(t)
    BY <2>2 DEF Unlink, NodeGone, DummyGone, EntReturn, NodeNone
  <2> QED
    BY <2>1, <2>2
<1>4. op[t] = "insert"
  BY <1>1, <1>3 DEF Shape, InsertPCs
<1> QED
  BY <1>2, <1>3, <1>4, Keeps DEF DropPCs, DonePCs, InsertedPCs

(* Updates of num, and resizes. *)
LEMMA NumSteps ==
  ASSUME TypeInv, NEW t \in Threads, Others(t),
         \/ NumAdd(t) \/ NumSub(t) \/ RsSize(t) \/ RsLoad(t) \/ RsNum(t) \/ RsGrow(t)
         \/ RsSize2(t) \/ RsLoad2(t) \/ RsFit(t)
  PROVE  UNCHANGED Map!vars
<1>1. pc \in [Threads -> PCs]
  BY DEF TypeInv, TypeOK
<1>2. op' = op /\ arg' = arg /\ node' = node /\ dict' = dict /\ seen' = seen
  <2>1. CASE NumAdd(t) \/ NumSub(t) \/ RsGrow(t) \/ RsFit(t)
    BY <2>1 DEF NumAdd, NumSub, RsGrow, RsFit, callVars, locals, history
  <2>2. CASE RsSize(t) \/ RsLoad(t) \/ RsNum(t) \/ RsSize2(t) \/ RsLoad2(t)
    BY <2>2 DEF RsSize, RsLoad, RsNum, RsSize2, RsLoad2, callVars, history
  <2> QED
    BY <2>1, <2>2
<1>3. pc[t] \in DonePCs /\ pc'[t] \in DonePCs
  <2> USE <1>1 DEF DonePCs, InsertedPCs, Goto
  <2>1. CASE NumAdd(t) \/ NumSub(t) \/ RsGrow(t) \/ RsFit(t)
    BY <2>1 DEF NumAdd, NumSub, RsGrow, RsFit
  <2>2. CASE RsSize(t) \/ RsLoad(t) \/ RsNum(t) \/ RsSize2(t) \/ RsLoad2(t)
    BY <2>2 DEF RsSize, RsLoad, RsNum, RsSize2, RsLoad2
  <2> QED
    BY <2>1, <2>2
<1> QED
  BY <1>2, <1>3, Keeps DEF DonePCs, InsertedPCs

(* A delete has found the node. *)
LEMMA DeleteFindsStep ==
  ASSUME TypeInv, NEW t \in Threads, Others(t), KeyFound(t), op[t] # "get"
  PROVE  UNCHANGED Map!vars
<1>1. pc \in [Threads -> PCs] /\ Shape(t) /\ pc[t] = "key_find" /\ pc'[t] = "mark"
  BY DEF TypeInv, TypeOK, KeyFound, Goto
<1>2. op[t] = "delete" /\ op' = op /\ arg' = arg /\ dict' = dict /\ seen' = seen
  BY <1>1 DEF Shape, KeyFound, callVars, history
<1>3. CallOf(t) = Rec("delete", arg[t], Null) /\ CallOf(t)' = Rec("delete", arg[t], Null)
  BY <1>1, <1>2, CallNow, CallThen DEF CallIs, DonePCs, InsertedPCs
<1> QED
  BY <1>2, <1>3, Stutters

-----------------------------------------------------------------------------
(* Steps that begin, answer or end a call, or change the dictionary.       *)

LEMMA StartStep ==
  ASSUME TypeInv, NEW t \in Threads, Others(t), Call(t)
  PROVE  Map!Next
<1>1. PICK k \in Keys : Insert(t, k) \/ Delete(t, k) \/ Get(t, k)
  BY DEF Call
<1>2. /\ pc \in [Threads -> PCs] /\ op \in [Threads -> Ops \cup {"none"}]
      /\ arg \in [Threads -> Keys \cup {NoKey}] /\ node \in [Threads -> MaybeNode]
      /\ seen = [u \in Threads |-> seen[u]] /\ free \subseteq Nodes
      /\ dict \in [Keys -> States]
  BY DEF TypeInv, TypeOK, States
<1>3. PICK c \in Map!Calls : /\ pc[t] = "idle" /\ dict' = dict
                             /\ seen' = [seen EXCEPT ![t] = {dict[k]}]
                             /\ CallOf(t)' = Rec(c[1], k, c[2])
  <2>1. CASE Insert(t, k)
    <3>1. PICK x \in free : node' = [node EXCEPT ![t] = x]
      BY <2>1 DEF Insert
    <3>2. /\ pc[t] = "idle" /\ dict' = dict /\ seen' = [seen EXCEPT ![t] = {dict[k]}]
          /\ pc'[t] = "ent_insert" /\ op'[t] = "insert" /\ arg'[t] = k
      BY <1>2, <2>1 DEF Insert, Begin, Goto
    <3>3. CallOf(t)' = Rec("insert", k, x)
      BY <1>2, <3>1, <3>2, CallThen DEF CallIs, DonePCs, InsertedPCs
    <3>4. <<"insert", x>> \in Map!Calls
      BY <1>2 DEF Map!Calls
    <3> QED
      BY <3>2, <3>3, <3>4
  <2>2. ASSUME NEW o \in {"delete", "get"}, Begin(t, o, k, "ent_get")
        PROVE  \E c \in Map!Calls : /\ pc[t] = "idle" /\ dict' = dict
                                    /\ seen' = [seen EXCEPT ![t] = {dict[k]}]
                                    /\ CallOf(t)' = Rec(c[1], k, c[2])
    <3>1. /\ pc[t] = "idle" /\ dict' = dict /\ seen' = [seen EXCEPT ![t] = {dict[k]}]
          /\ pc'[t] = "ent_get" /\ op'[t] = o /\ arg'[t] = k
      BY <1>2, <2>2 DEF Begin, Goto
    <3>2. CallOf(t)' = Rec(o, k, Null)
      BY <3>1, CallThen DEF CallIs, DonePCs, InsertedPCs
    <3>3. <<o, Null>> \in Map!Calls
      BY DEF Map!Calls
    <3> QED
      BY <3>1, <3>2, <3>3
  <2>3. CASE Delete(t, k)
    BY <2>2, <2>3 DEF Delete
  <2>4. CASE Get(t, k)
    BY <2>2, <2>4 DEF Get
  <2> QED
    BY <1>1, <2>1, <2>3, <2>4
<1>4. CallOf(t) = Map!NoCall
  BY <1>3, InNoCall DEF TypeInv
<1>5. MCalls' = [MCalls EXCEPT ![t] = [op |-> c[1], key |-> k, val |-> c[2]]]
  <2>1. MCalls' = [MCalls EXCEPT ![t] = Rec(c[1], k, c[2])]
    BY <1>3, OneCall
  <2> QED
    BY <2>1 DEF Rec
<1>6. Map!View(MDict, MLeaving, k) = dict[k]
  BY <1>2, ViewIs DEF MDict, MLeaving
<1>7. Map!Start(t)
  BY <1>3, <1>4, <1>5, <1>6 DEF Map!Start, MDict, MLeaving, MCalls
<1> QED
  BY <1>7 DEF Map!Next

(* A call returns. *)
LEMMA ReturnsStep ==
  ASSUME TypeInv, NEW t \in Threads, Others(t), Return(t)
  PROVE  Map!Next
<1>1. /\ pc \in [Threads -> PCs] /\ op \in [Threads -> Ops \cup {"none"}]
      /\ arg \in [Threads -> Keys \cup {NoKey}]
  BY DEF TypeInv, TypeOK
<1>2. /\ pc[t] = "return" /\ pc'[t] = "idle" /\ arg'[t] = NoKey /\ dict' = dict
      /\ seen' = [seen EXCEPT ![t] = {}]
  BY <1>1 DEF Return, Goto
<1>3. CallOf(t) = Rec("done", arg[t], node[t]) /\ CallOf(t)' = Map!NoCall
  <2>1. CallOf(t)' = Rec("none", NoKey, Null)
    BY <1>2, CallThen DEF CallIs
  <2>2. CallOf(t) = Rec("done", arg[t], node[t])
    BY <1>2, CallNow DEF CallIs, DonePCs
  <2> QED
    BY <2>1, <2>2 DEF Rec, Map!NoCall
<1>4. MCalls' = [MCalls EXCEPT ![t] = Map!NoCall]
  BY <1>3, OneCall
<1>5. MCalls[t].op = "done"
  BY <1>3 DEF MCalls, Rec
<1>6. Map!Return(t)
  BY <1>2, <1>4, <1>5 DEF Map!Return, MCalls
<1> QED
  BY <1>6 DEF Map!Next

(* A call ends with NULL or false. *)
LEMMA AnswerStep ==
  ASSUME NEW C, NEW D, NEW r, NEW m, TypeInv, Whole(C, D, r, m), NEW t \in Threads, Others(t),
         KeyNone(t) \/ EntGetNone(t) \/ MarkLost(t) \/ InsDuplicate(t)
  PROVE  Map!Next
<1>1. /\ pc \in [Threads -> PCs] /\ node \in [Threads -> MaybeNode] /\ Shape(t)
  BY DEF TypeInv, TypeOK
<1>2. /\ pc[t] \in {"key_find", "ent_get", "mark", "ins_find"} /\ pc'[t] = "return"
      /\ op' = op /\ arg' = arg /\ node'[t] = Null /\ dict' = dict /\ seen' = seen
  <2>1. CASE KeyNone(t) \/ EntGetNone(t)
    BY <1>1, <2>1 DEF KeyNone, EntGetNone, Fail, Goto, callVars, history
  <2>2. CASE MarkLost(t) \/ InsDuplicate(t)
    BY <1>1, <2>2 DEF MarkLost, InsDuplicate, Fail, Goto, callVars, history
  <2> QED
    BY <2>1, <2>2
<1>3. CallOf(t)' = Rec("done", arg[t], Null)
  BY <1>2, CallThen DEF CallIs, DonePCs
<1>4. CallOf(t) = Rec(op[t], arg[t], IF op[t] = "insert" THEN node[t] ELSE Null)
  BY <1>2, CallNow DEF CallIs, DonePCs, InsertedPCs
<1>5. CASE KeyNone(t) \/ EntGetNone(t)
  <2>1. op[t] \in {"get", "delete"} /\ Absent \in seen[t]
    BY <1>1, <1>5, NoneIsRight DEF KeyNone, EntGetNone, Fail, Goto, Shape
  <2>2. Absent.val = Null
    BY DEF Absent
  <2> QED
    BY <1>2, <1>3, <1>4, <2>1, <2>2, Answers
<1>6. CASE MarkLost(t)
  <2>1. stack[t] = <<>>
    BY <1>6, EndsAlone
  <2>2. op[t] = "delete" /\ \E s \in seen[t] : s.val = Null \/ s.leaving
    BY <1>1, <1>6, <2>1, LostIsRight DEF MarkLost, Fail, Goto, Shape, DropPCs
  <2> QED
    BY <1>2, <1>3, <1>4, <2>2, Answers
<1>7. CASE InsDuplicate(t)
  <2>1. stack[t] = <<>>
    BY <1>7, EndsAlone
  <2>2. /\ pc[t] = "ins_find" /\ Building(t) /\ op[t] = "insert" /\ Owns(t, C, D)
        /\ After(t) # Null /\ key[After(t)] = key[node[t]]
    BY <1>1, <1>7 DEF InsDuplicate, Fail, Goto, Building, InsertPCs, Shape, Passed, Whole
  <2>3. key[node[t]] = arg[t]
    BY <2>2 DEF Owns
  <2>4. \E s \in seen[t] : s.val = After(t)
    BY <2>2, <2>3, FoundIsRight
  <2> QED
    BY <1>2, <1>3, <1>4, <2>2, <2>4, Answers
<1> QED
  BY <1>5, <1>6, <1>7

(* A get has found the node. *)
LEMMA GetFindsStep ==
  ASSUME NEW C, NEW D, NEW r, NEW m, TypeInv, Whole(C, D, r, m), NEW t \in Threads, Others(t),
         KeyFound(t), op[t] = "get"
  PROVE  Map!Next
<1>1. /\ pc \in [Threads -> PCs] /\ node \in [Threads -> MaybeNode]
  BY DEF TypeInv, TypeOK
<1>2. /\ pc[t] = "key_find" /\ pc'[t] = "return" /\ op' = op /\ arg' = arg
      /\ node'[t] = After(t) /\ dict' = dict /\ seen' = seen
      /\ After(t) # Null /\ key[After(t)] = arg[t]
  BY <1>1 DEF KeyFound, Goto, Passed, callVars, history
<1>3. CallOf(t)' = Rec("done", arg[t], After(t))
  BY <1>2, CallThen DEF CallIs, DonePCs
<1>4. CallOf(t) = Rec("get", arg[t], Null)
  BY <1>2, CallNow DEF CallIs, DonePCs, InsertedPCs
<1>5. PICK s \in seen[t] : s.val = After(t)
  BY <1>2, FoundIsRight
<1> QED
  BY <1>2, <1>3, <1>4, <1>5, Answers

(* An insert links its node: AbMap!Insert. *)
LEMMA LinkMaps ==
  ASSUME NEW C, NEW D, NEW r, NEW m, TypeInv, TypeOK', Whole(C, D, r, m),
         NEW t \in Threads, Others(t), InsLink(t), stack[t] = <<>>
  PROVE  Map!Next
<1> DEFINE v == [val |-> node[t], leaving |-> FALSE]
<1>1. /\ arg[t] \in Keys /\ node[t] \in Nodes /\ dict[arg[t]] = Absent
      /\ dict' = [dict EXCEPT ![arg[t]] = v] /\ Becomes(arg[t], v)
  BY LinkIs
<1>2. /\ pc \in [Threads -> PCs] /\ Shape(t) /\ dict \in [Keys -> States] /\ v \in States
  BY <1>1 DEF TypeInv, TypeOK, States, MaybeNode
<1>3. /\ pc[t] = "ins_cas" /\ pc'[t] = "num_add" /\ op[t] = "insert"
      /\ arg' = arg /\ node' = node
  BY <1>2 DEF InsLink, Goto, Shape, InsertPCs, callVars
<1>4. CallOf(t) = Rec("insert", arg[t], node[t]) /\ CallOf(t)' = Rec("done", arg[t], node[t])
  BY <1>3, CallNow, CallThen DEF CallIs, DonePCs, InsertedPCs
<1>5. Map!Goes(t, "insert", "done", node[t])
  BY <1>4, GoesIs
<1>6. /\ MDict' = [MDict EXCEPT ![arg[t]] = node[t]] /\ MLeaving' = MLeaving
      /\ MDict[arg[t]] = Null
  BY <1>1, <1>2 DEF MDict, MLeaving, Absent, States
<1>7. Map!Becomes([MDict EXCEPT ![arg[t]] = node[t]], MLeaving)
  <2>1. PICK d, l : d = [MDict EXCEPT ![arg[t]] = node[t]] /\ l = MLeaving
    OBVIOUS
  <2>2. Map!Becomes(d, l)
    BY <1>1, <1>2, <1>6, <2>1, BecomesIs
  <2> QED
    BY <2>1, <2>2 DEF Map!Becomes
<1>8. MCalls[t].key = arg[t] /\ MCalls[t].val = node[t]
  BY <1>4 DEF MCalls, Rec
<1>9. Map!Insert(t)
  BY <1>5, <1>6, <1>7, <1>8 DEF Map!Insert, MDict, MLeaving, MCalls
<1> QED
  BY <1>9 DEF Map!Next

(* A delete sets the flag: AbMap!DeleteBegins. *)
LEMMA MarkMaps ==
  ASSUME NEW C, NEW D, NEW r, NEW m, TypeInv, TypeOK', Whole(C, D, r, m),
         NEW t \in Threads, Others(t), Mark(t), stack[t] = <<>>
  PROVE  Map!Next
<1> DEFINE v == [val |-> node[t], leaving |-> TRUE]
<1>1. /\ arg[t] \in Keys /\ node[t] \in Nodes
      /\ dict[arg[t]] = [val |-> node[t], leaving |-> FALSE] /\ Becomes(arg[t], v)
  BY MarkIs
<1>2. /\ pc \in [Threads -> PCs] /\ Shape(t) /\ dict \in [Keys -> States] /\ v \in States
      /\ dict' = [dict EXCEPT ![arg[t]] = v] /\ node[t] # Null
  BY <1>1, KeyAssumption DEF TypeInv, TypeOK, States, MaybeNode, Becomes
<1>3. /\ pc[t] = "mark" /\ pc'[t] = "unlink" /\ op[t] = "delete"
      /\ arg' = arg /\ node' = node /\ op' = op
  BY <1>2 DEF Mark, Goto, Shape, DropPCs, callVars, locals
<1>4. CallOf(t) = Rec("delete", arg[t], Null) /\ CallOf(t)' = Rec("deleting", arg[t], node[t])
  BY <1>3, CallNow, CallThen DEF CallIs, DonePCs, InsertedPCs
<1>5. Map!Goes(t, "delete", "deleting", node[t])
  BY <1>4, GoesIs
<1>6. /\ MDict' = MDict /\ MLeaving' = MLeaving \cup {arg[t]}
      /\ MDict[arg[t]] = node[t] /\ arg[t] \notin MLeaving
  BY <1>1, <1>2 DEF MDict, MLeaving, States
<1>7. Map!Becomes(MDict, MLeaving \cup {arg[t]})
  <2>1. PICK d, l : d = MDict /\ l = MLeaving \cup {arg[t]}
    OBVIOUS
  <2>2. Map!Becomes(d, l)
    BY <1>1, <1>2, <1>6, <2>1, BecomesIs
  <2> QED
    BY <2>1, <2>2 DEF Map!Becomes
<1>8. MCalls[t].key = arg[t]
  BY <1>4 DEF MCalls, Rec
<1>9. Map!DeleteBegins(t)
  BY <1>2, <1>5, <1>6, <1>7, <1>8
     DEF Map!DeleteBegins, Map!Becomes, MDict, MLeaving, MCalls
<1> QED
  BY <1>9 DEF Map!Next

(* A delete unlinks the node: AbMap!DeleteEnds. *)
LEMMA UnlinkMaps ==
  ASSUME NEW C, NEW D, NEW r, NEW m, TypeInv, TypeOK', Whole(C, D, r, m),
         NEW t \in Threads, Others(t), Unlink(t), stack[t] = <<>>
  PROVE  Map!Next
<1>1. arg[t] \in Keys /\ Becomes(arg[t], Absent) /\ NodeGone(t)
  BY UnlinkIs
<1>2. /\ pc \in [Threads -> PCs] /\ Shape(t) /\ dict \in [Keys -> States] /\ Absent \in States
      /\ dict' = [dict EXCEPT ![arg[t]] = Absent]
  BY <1>1, SmallTypes DEF TypeInv, TypeOK, States, Becomes, Absent
<1>3. /\ pc[t] = "unlink" /\ pc'[t] = "num_sub" /\ op[t] = "delete"
      /\ arg' = arg /\ node' = node /\ op' = op
  BY <1>1, <1>2 DEF Unlink, NodeGone, Goto, Shape, DropPCs, callVars
<1>4. CallOf(t) = Rec("deleting", arg[t], node[t]) /\ CallOf(t)' = Rec("done", arg[t], node[t])
  BY <1>3, CallNow, CallThen DEF CallIs, DonePCs, InsertedPCs
<1>5. Map!Goes(t, "deleting", "done", node[t])
  BY <1>4, GoesIs
<1>6. MDict' = [MDict EXCEPT ![arg[t]] = Null] /\ MLeaving' = MLeaving \ {arg[t]}
  BY <1>1, <1>2 DEF MDict, MLeaving, Absent, States
<1>7. Map!Becomes([MDict EXCEPT ![arg[t]] = Null], MLeaving \ {arg[t]})
  <2>1. PICK d, l : d = [MDict EXCEPT ![arg[t]] = Null] /\ l = MLeaving \ {arg[t]}
    OBVIOUS
  <2>2. Map!Becomes(d, l)
    BY <1>1, <1>2, <1>6, <2>1, BecomesIs
  <2> QED
    BY <2>1, <2>2 DEF Map!Becomes
<1>8. MCalls[t].key = arg[t] /\ MCalls[t].val = node[t]
  BY <1>4 DEF MCalls, Rec
<1>9. Map!DeleteEnds(t)
  BY <1>5, <1>7, <1>8 DEF Map!DeleteEnds, Map!Becomes, MDict, MLeaving, MCalls
<1> QED
  BY <1>9 DEF Map!Next

(* The initial state is one of AbMap. *)
LEMMA MapInit == Init => Map!Init
<1> SUFFICES ASSUME Init PROVE Map!Init
  OBVIOUS
<1>1. \A t \in Threads : CallOf(t) = Rec("none", NoKey, Null)
  BY CallNow DEF Init, CallIs
<1>2. MCalls = [t \in Threads |-> Map!NoCall]
  BY <1>1 DEF MCalls, Rec, Map!NoCall
<1>3. MDict = [k \in Keys |-> Null] /\ MLeaving = {}
  BY DEF Init, MDict, MLeaving, Absent
<1> QED
  BY <1>2, <1>3 DEF Map!Init, Init, MDict, MLeaving, MCalls

(* Every step is one of AbMap, or one it does not know of. *)
LEMMA MapStep ==
  ASSUME NoCollision, HashInv, [Next]_vars
  PROVE  Map!Next \/ UNCHANGED Map!vars
<1>1. CASE UNCHANGED vars
  <2>1. /\ dict' = dict /\ seen' = seen
        /\ UNCHANGED <<pc, op, arg, node>>
    BY <1>1 DEF vars, callVars, locals, history
  <2>2. \A t \in Threads : CallOf(t)' = CallOf(t)
    BY <2>1, CallNow, CallThen DEF CallIs
  <2> QED
    BY <2>1, <2>2 DEF Map!vars
<1>2. CASE Next
  <2>1. PICK t \in Threads : Work(t) \/ Call(t)
    BY <1>2 DEF Next
  <2>2. HashInv'
    BY InvStep
  <2>3. TypeInv /\ TypeOK /\ TypeOK'
    BY <2>2 DEF HashInv, TypeInv
  <2>4. Others(t)
    BY <2>1, <2>3, OnlyOwn
  <2>5. PICK C, D, r, m : Whole(C, D, r, m)
    BY DEF HashInv
  <2>6. CASE Call(t) \/ Return(t)
    BY <2>3, <2>4, <2>6, StartStep, ReturnsStep
  <2>7. CASE \/ EntFound(t) \/ EntHead(t) \/ EntParent(t) \/ EntSet(t) \/ EntLost(t)
             \/ EntGet(t) \/ EntGetParent(t)
    BY <2>3, <2>4, <2>7, EntSteps
  <2>8. CASE \/ InsWalk(t) \/ InsFound(t) \/ InsRetry(t) \/ KeyWalk(t)
             \/ UnlinkRetry(t) \/ NodeWalk(t) \/ NodeFound(t)
    BY <2>3, <2>4, <2>5, <2>8, WalkSteps
  <2>9. CASE KeyNone(t) \/ EntGetNone(t) \/ MarkLost(t) \/ InsDuplicate(t)
    BY <2>3, <2>4, <2>5, <2>9, AnswerStep
  <2>10. CASE KeyFound(t)
    BY <2>3, <2>4, <2>5, <2>10, GetFindsStep, DeleteFindsStep
  <2>11. CASE InsLink(t) \/ Mark(t) \/ Unlink(t) \/ NodeNone(t)
    <3>1. CASE stack[t] # <<>>
      BY <2>3, <2>4, <2>11, <3>1, DummySteps
    <3>2. CASE stack[t] = <<>>
      <4>1. ~NodeNone(t)
        BY <2>3, <2>5, <3>2, NodeIsFound
      <4> QED
        BY <2>3, <2>4, <2>5, <2>11, <3>2, <4>1, LinkMaps, MarkMaps, UnlinkMaps
    <3> QED
      BY <3>1, <3>2
  <2>12. CASE \/ NumAdd(t) \/ NumSub(t) \/ RsSize(t) \/ RsLoad(t) \/ RsNum(t) \/ RsGrow(t)
              \/ RsSize2(t) \/ RsLoad2(t) \/ RsFit(t)
    BY <2>3, <2>4, <2>12, NumSteps
  <2> QED
    BY <2>1, <2>6, <2>7, <2>8, <2>9, <2>10, <2>11, <2>12 DEF Work
<1> QED
  BY <1>1, <1>2

(* The index implements AbMap: what ab_hash_insert, ab_hash_get and        *)
(* ab_hash_delete answer is what the dictionary was like at some moment of *)
(* the call, except that a delete takes effect in two steps                *)
(* (ab_hash.c:321, 328).  Only with two keys of one hash number could      *)
(* ab_hash_find_node (ab_hash.c:275) not find the node to unlink.          *)
THEOREM IndexIsMap ==
  ASSUME NoCollision
  PROVE  Spec => MapSpec
<1>1. Init => Map!Init
  BY MapInit
<1>2. HashInv /\ [Next]_vars => [Map!Next]_(Map!vars)
  BY MapStep
<1> QED
  BY <1>1, <1>2, HashCorrect, PTL DEF Spec, MapSpec, Map!Spec
==============================================================================
